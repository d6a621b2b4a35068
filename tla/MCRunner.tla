------------------------------ MODULE MCRunner ------------------------------
(***************************************************************************)
(* Small instances of Runner: up to four pipelines and two workers. The    *)
(* pipelines are interchangeable when none has a row from an earlier run.  *)
(***************************************************************************)
EXTENDS Runner, TLC

CONSTANTS p1, p2, p3, p4, w1, w2

MCSymmetry == Permutations(Pipelines) \cup Permutations(Workers)
=============================================================================
