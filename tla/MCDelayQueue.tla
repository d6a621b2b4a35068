---------------------------- MODULE MCDelayQueue ----------------------------
(* Instances of DelayQueue. *)
EXTENDS DelayQueue, TLC

MCDelays == {-1, 0, 2, 3}
MCSymmetry == Permutations(Items)
=============================================================================
