------------------------------ MODULE MCVisits ------------------------------
(* Values of the constants of Visits: three tasks, every kind of transfer. *)
EXTENDS Visits, TLC

MCEdges == {<<0, 2>>, <<1, END>>}
MCRewinds == {<<2, 1>>}
MCRetryAll == {2}
MCSymmetry == Permutations(Runs)
=============================================================================
