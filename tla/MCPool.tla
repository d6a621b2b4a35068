------------------------------- MODULE MCPool -------------------------------
(***************************************************************************)
(* Small instances of Pool: two resources, r1 with a client factory that   *)
(* may raise and r2 without; attempt a1 gathers the callers c1 and c2,     *)
(* attempt a2 is the single caller c3. The definitions below are the       *)
(* values that the configurations give to the constants of Pool.           *)
(***************************************************************************)
EXTENDS Pool, TLC

CONSTANTS a1, a2, c1, c2, c3, r1, r2, l1, l2, l3

MCAttemptOf   == [c \in Callers |-> IF c = c3 THEN a2 ELSE a1]
\* c3 asks for r1 by id, the others take either resource.
MCMatches     == [c \in Callers |-> IF c = c3 THEN {r1} ELSE {r1, r2}]
MCMixed       == [c \in Callers |-> IF c = c2 THEN "backoff" ELSE "wait"]
MCEveryKind   == (c1 :> "wait") @@ (c2 :> "backoff") @@ (c3 :> "immediate")
MCImpatient   == [c \in Callers |-> IF c = c3 THEN Never ELSE 1]
MCOne         == [r \in Resources |-> 1]
MCTwo         == [r \in Resources |-> 2]
MCTwoOne      == [r \in Resources |-> IF r = r1 THEN 2 ELSE 1]
MCSymmetry    == Permutations(Leases)
=============================================================================
