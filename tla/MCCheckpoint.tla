---------------------------- MODULE MCCheckpoint ----------------------------
(* Checkpoint on small instances. *)
EXTENDS Checkpoint

\* hops to the next task and over it, an early end from either of the first tasks
MCEdges == {<<0, 1>>, <<0, 2>>, <<0, 3>>, <<1, 2>>, <<1, 3>>}
=============================================================================
