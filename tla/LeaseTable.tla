----------------------------- MODULE LeaseTable -----------------------------
(***************************************************************************)
(* What the pool promises the tasks that lease from it, without saying how *)
(* callers wait, how a client is built or what breaks a circuit: a table   *)
(* of the leases that are out. A lease is granted only on a resource that  *)
(* is open and below its capacity, stays on that resource, and goes back   *)
(* to the table once.                                                      *)
(***************************************************************************)
EXTENDS Integers, FiniteSets

CONSTANTS Leases, Resources, Free

VARIABLES
    out,   \* lease -> the resource it is on, or Free
    cap,   \* resource -> capacity
    open   \* the resources that may be leased now

tableVars == <<out, cap, open>>

Out(r) == {l \in Leases : out[l] = r}

Init ==
    /\ out = [l \in Leases |-> Free]
    /\ cap \in [Resources -> Nat \ {0}]
    /\ open \in SUBSET Resources

\* A failing factory may close other resources in the same step.
Grant(l, r) ==
    /\ out[l] = Free
    /\ r \in open /\ Cardinality(Out(r)) < cap[r]
    /\ out' = [out EXCEPT ![l] = r]
    /\ open' \in SUBSET Resources
    /\ UNCHANGED cap

\* One release, or the reclaim of everything an attempt still holds.
GiveBack(L) ==
    /\ out' = [l \in Leases |-> IF l \in L THEN Free ELSE out[l]]
    /\ UNCHANGED <<cap, open>>

\* Publishing, revoking, circuit breaking, recovering.
Change ==
    /\ cap' \in [Resources -> Nat \ {0}]
    /\ open' \in SUBSET Resources
    /\ UNCHANGED out

Next ==
    \/ \E l \in Leases, r \in Resources : Grant(l, r)
    \/ \E L \in SUBSET Leases : GiveBack(L)
    \/ Change

Spec == Init /\ [][Next]_tableVars
=============================================================================
