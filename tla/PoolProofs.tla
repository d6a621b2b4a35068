----------------------------- MODULE PoolProofs -----------------------------
(***************************************************************************)
(* Proofs about Pool, for every set of resources, attempts, callers and    *)
(* leases. The inductive invariant is LeaseInv: the types, what a context  *)
(* tracks, and the count of the leases on every slot. The count is not     *)
(* inductive alone: the reclaim at the end of an attempt subtracts the     *)
(* leases that its context tracks, so they must be those it holds.         *)
(***************************************************************************)
EXTENDS Pool, FiniteSetTheorems, WellFoundedInduction, TLAPS

LeaseInv == TypeOK /\ TrackedAreHeld /\ ActiveCountsLeases

-----------------------------------------------------------------------------
(* What the helpers of Pool return *)

\* _Slot.state_at changes neither the occupancy nor the capacity of a slot.
LEMMA StateAtFacts ==
    ASSUME NEW s \in Slots
    PROVE  /\ StateAt(s) \in Slots
           /\ StateAt(s).active = s.active
           /\ StateAt(s).capacity = s.capacity
<1>1. s = [state |-> s.state, left |-> s.left, active |-> s.active,
           capacity |-> s.capacity, failures |-> s.failures, client |-> s.client]
  BY DEF Slots
<1> QED
  BY <1>1 DEF StateAt, Slots, SlotStates

\* Neither does the circuit breaker.
LEMMA CountFailureFacts ==
    ASSUME NEW r \in Resources, NEW s \in Slots
    PROVE  /\ CountFailure(r, s) \in Slots
           /\ CountFailure(r, s).active = s.active
           /\ CountFailure(r, s).capacity = s.capacity
<1> DEFINE n == IF s.failures < DeadAfter[r] THEN s.failures + 1 ELSE s.failures
<1>1. n \in Nat /\ Cooldown[r] \in Nat
  BY ConstantsAssumption DEF Slots
<1>2. s = [state |-> s.state, left |-> s.left, active |-> s.active,
           capacity |-> s.capacity, failures |-> s.failures, client |-> s.client]
  BY DEF Slots
<1>3. CountFailure(r, s) =
        IF n >= DeadAfter[r]
        THEN [s EXCEPT !.failures = n, !.state = "dead", !.left = 0]
        ELSE IF n >= DegradeAfter[r]
        THEN [s EXCEPT !.state = "degraded", !.left = Cooldown[r], !.failures = n]
        ELSE [s EXCEPT !.failures = n]
  BY DEF CountFailure, Degraded
<1> HIDE DEF n
<1>4. [s EXCEPT !.failures = n] \in Slots
  BY <1>1, <1>2 DEF Slots, SlotStates
<1>5. [s EXCEPT !.failures = n, !.state = "dead", !.left = 0] \in Slots
  BY <1>1, <1>2 DEF Slots, SlotStates
<1>6. [s EXCEPT !.state = "degraded", !.left = Cooldown[r], !.failures = n] \in Slots
  BY <1>1, <1>2 DEF Slots, SlotStates
<1> QED
  BY <1>2, <1>3, <1>4, <1>5, <1>6

\* A refreshed pool is a pool with the same occupancy.
LEMMA RefreshedFacts ==
    ASSUME TypeOK
    PROVE  /\ Refreshed \in [Resources -> Slots]
           /\ \A r \in Resources : /\ Refreshed[r].active = slot[r].active
                                   /\ Refreshed[r].capacity = slot[r].capacity
BY StateAtFacts DEF Refreshed, TypeOK

\* So is a pool in which some factories failed.
LEMMA AfterFailuresFacts ==
    ASSUME NEW slots \in [Resources -> Slots], NEW F
    PROVE  /\ AfterFailures(slots, F) \in [Resources -> Slots]
           /\ \A r \in Resources : /\ AfterFailures(slots, F)[r].active = slots[r].active
                                   /\ AfterFailures(slots, F)[r].capacity = slots[r].capacity
<1>1. ASSUME NEW s \in Slots
      PROVE  LET t == [s EXCEPT !.client = "error"]
             IN  t \in Slots /\ t.active = s.active /\ t.capacity = s.capacity
  <2>1. s = [state |-> s.state, left |-> s.left, active |-> s.active,
             capacity |-> s.capacity, failures |-> s.failures, client |-> s.client]
    BY DEF Slots
  <2> QED
    BY <2>1 DEF Slots, SlotStates
<1>2. ASSUME NEW r \in Resources
      PROVE  LET t == CountFailure(r, [slots[r] EXCEPT !.client = "error"])
             IN  t \in Slots /\ t.active = slots[r].active /\ t.capacity = slots[r].capacity
  BY <1>1, CountFailureFacts
<1> QED
  BY <1>2 DEF AfterFailures

\* A nonempty set of naturals has a least element, which Earliest picks.
LEMMA EarliestFacts ==
    ASSUME NEW S \in SUBSET Nat, S # {}
    PROVE  Earliest(S) \in S /\ \A e \in S : Earliest(S) <= e
<1> DEFINE R == OpToRel(<, Nat)
<1>1. \A m, n \in Nat : m < n => <<m, n>> \in R
  BY DEF OpToRel
<1>2. IsWellFoundedOn(R, Nat)
  BY NatLessThanWellFounded
<1> HIDE DEF R
<1>3. PICK x \in S : \A y \in S : ~ (<<y, x>> \in R)
  BY <1>2, WFMin
<1>4. \A y \in S : ~ (y < x)
  BY <1>1, <1>3, Zenon
<1>5. \A y \in S : x <= y
  BY <1>4
<1> QED
  BY <1>5 DEF Earliest

\* The cooldown timer is a time left, or not armed.
LEMMA ArmedFacts ==
    ASSUME NEW slots \in [Resources -> Slots], NEW W, NEW t \in Nat \cup {NoTimer}
    PROVE  Armed(slots, W, t) \in Nat \cup {NoTimer}
<1> DEFINE pending == {slots[r].left : r \in {q \in Resources : /\ slots[q].state = "degraded"
                                                                 /\ slots[q].left > 0}}
<1>1. pending \in SUBSET Nat
  BY DEF Slots
<1>2. pending # {} => Earliest(pending) \in Nat
  BY <1>1, EarliestFacts
<1> QED
  BY <1>2 DEF Armed
\* A grant is one more lease on a slot.
LEMMA LeasedOutFacts ==
    ASSUME NEW s \in Slots
    PROVE  /\ LeasedOut(s) \in Slots
           /\ LeasedOut(s).active = s.active + 1
           /\ LeasedOut(s).capacity = s.capacity
<1>1. s = [state |-> s.state, left |-> s.left, active |-> s.active,
           capacity |-> s.capacity, failures |-> s.failures, client |-> s.client]
  BY DEF Slots
<1>2. s.active \in Nat /\ s.active + 1 \in Nat
  BY DEF Slots
<1> QED
  BY <1>1, <1>2 DEF LeasedOut, Slots

-----------------------------------------------------------------------------
(* The steps of a caller *)

\* A try_acquire is a grant on a ready resource with room, or changes no lease.
LEMMA TakeCandidateFacts ==
    ASSUME TypeOK, NEW c \in Callers, TakeCandidate(c)
    PROVE  /\ slot' \in [Resources -> Slots]
           /\ \A r \in Resources : slot'[r].capacity = slot[r].capacity
           /\ event' \in [Callers -> BOOLEAN]
           /\ \/ /\ UNCHANGED <<lease, tracked>>
                 /\ \A r \in Resources : slot'[r].active = slot[r].active
              \/ \E w \in Resources, l \in Leases :
                    /\ Refreshed[w].state = "ready" /\ slot[w].active < slot[w].capacity
                    /\ lease[l] = NoLease
                    /\ lease' = [lease EXCEPT ![l] = [slot |-> w, owner |-> AttemptOf[c],
                                                      held |-> TRUE]]
                    /\ tracked' = [tracked EXCEPT ![AttemptOf[c]] = @ \cup {l}]
                    /\ \A r \in Resources :
                         slot'[r].active = IF r = w THEN slot[r].active + 1 ELSE slot[r].active
<1> DEFINE C == Candidates(c, Refreshed)
<1>1. \A F : NotifyFailures(c, Refreshed, F) => event' \in [Callers -> BOOLEAN]
  BY Zenon DEF NotifyFailures
<1>2. C \subseteq Resources /\ \A r \in C : Available(Refreshed[r])
  BY ConstantsAssumption DEF Candidates
<1>3. CASE \E o \in SelectOutcomes(C, Refreshed), l \in Leases :
                /\ lease[l] = NoLease
                /\ lease' = [lease EXCEPT ![l] = [slot |-> o.winner, owner |-> AttemptOf[c],
                                                  held |-> TRUE]]
                /\ tracked' = Track(AttemptOf[c], l)
                /\ slot' = [AfterFailures(Refreshed, o.failed) EXCEPT
                              ![o.winner] = LeasedOut(@)]
                /\ NotifyFailures(c, Refreshed, o.failed)
  <2>1. PICK o \in SelectOutcomes(C, Refreshed), l \in Leases :
                /\ lease[l] = NoLease
                /\ lease' = [lease EXCEPT ![l] = [slot |-> o.winner, owner |-> AttemptOf[c],
                                                  held |-> TRUE]]
                /\ tracked' = Track(AttemptOf[c], l)
                /\ slot' = [AfterFailures(Refreshed, o.failed) EXCEPT
                              ![o.winner] = LeasedOut(@)]
                /\ NotifyFailures(c, Refreshed, o.failed)
    BY <1>3
  <2> DEFINE slots == AfterFailures(Refreshed, o.failed)
  <2>2. o.winner \in C
    BY DEF SelectOutcomes
  <2>3. o.winner \in Resources /\ Available(Refreshed[o.winner])
    BY <1>2, <2>2
  <2>4. /\ slots \in [Resources -> Slots]
        /\ \A r \in Resources : /\ slots[r].active = slot[r].active
                                /\ slots[r].capacity = slot[r].capacity
    BY RefreshedFacts, AfterFailuresFacts
  <2>5. /\ slot' \in [Resources -> Slots]
        /\ \A r \in Resources :
             /\ slot'[r].active = IF r = o.winner THEN slots[r].active + 1 ELSE slots[r].active
             /\ slot'[r].capacity = slots[r].capacity
    <3> HIDE DEF slots
    <3>1. slot' = [slots EXCEPT ![o.winner] = LeasedOut(@)]
      BY <2>1 DEF slots
    <3> QED
      BY <2>3, <2>4, <3>1, LeasedOutFacts
  <2>6. Refreshed[o.winner].state = "ready" /\ slot[o.winner].active < slot[o.winner].capacity
    BY <2>3, RefreshedFacts DEF Available
  <2> HIDE DEF slots
  <2>7. \A r \in Resources :
           /\ slot'[r].active = IF r = o.winner THEN slot[r].active + 1 ELSE slot[r].active
           /\ slot'[r].capacity = slot[r].capacity
    BY <2>4, <2>5
  <2>8. event' \in [Callers -> BOOLEAN]
    BY <1>1, <2>1
  <2> QED
    BY <2>1, <2>3, <2>5, <2>6, <2>7, <2>8 DEF Track
<1>4. CASE /\ AllFail(C, Refreshed)
           /\ slot' = AfterFailures(Refreshed, C)
           /\ NotifyFailures(c, Refreshed, C)
           /\ UNCHANGED <<lease, tracked>>
  BY <1>1, <1>4, RefreshedFacts, AfterFailuresFacts
<1> QED
  BY <1>3, <1>4 DEF TakeCandidate
-----------------------------------------------------------------------------
(* Steps that move no lease *)

\* Publishing r again may change its capacity; nothing else does.
MayCarry(r, n) == n = slot[r].capacity \/ (r \in Publishable /\ n \in Capacities)

\* Nothing was granted or returned: every slot keeps its occupancy.
Quiet ==
    /\ UNCHANGED <<lease, tracked>>
    /\ slot' \in [Resources -> Slots]
    /\ \A r \in Resources : slot'[r].active = slot[r].active /\ MayCarry(r, slot'[r].capacity)

Occupied(t, s) == t \in Slots /\ t.active = s.active /\ t.capacity = s.capacity

\* What the pool does to one slot leaves its occupancy alone.
LEMMA EditFacts ==
    ASSUME NEW s \in Slots
    PROVE  /\ Occupied(Recovered(s), s)
           /\ \A r \in Resources : Occupied(Degraded(r, s), s)
           /\ Occupied(Withdrawn(s), s)
           /\ \A n \in Capacities : /\ Republished(s, n) \in Slots
                                    /\ Republished(s, n).active = s.active
                                    /\ Republished(s, n).capacity = n
           /\ Occupied(Aged(s), s)
<1>1. s = [state |-> s.state, left |-> s.left, active |-> s.active,
           capacity |-> s.capacity, failures |-> s.failures, client |-> s.client]
  BY DEF Slots
<1>2. Less(s.left) \in Nat
  BY DEF Less, Slots
<1>3. \A r \in Resources : Cooldown[r] \in Nat
  BY ConstantsAssumption
<1>4. \A n \in Capacities : n \in Nat \ {0}
  BY ConstantsAssumption
<1>5. Occupied(Recovered(s), s)
  BY <1>1 DEF Occupied, Recovered, Slots, SlotStates
<1>6. \A r \in Resources : Occupied(Degraded(r, s), s)
  BY <1>1, <1>3 DEF Occupied, Degraded, Slots, SlotStates
<1>7. Occupied(Withdrawn(s), s)
  BY <1>1 DEF Occupied, Withdrawn, Slots, SlotStates
<1>8. \A n \in Capacities : /\ Republished(s, n) \in Slots
                            /\ Republished(s, n).active = s.active
                            /\ Republished(s, n).capacity = n
  BY <1>1, <1>4 DEF Republished, Slots, SlotStates
<1>9. Occupied(Aged(s), s)
  BY <1>1, <1>2 DEF Occupied, Aged, Slots, SlotStates
<1> QED
  BY <1>5, <1>6, <1>7, <1>8, <1>9

\* A step that edits one slot this way is quiet.
LEMMA OneSlotQuiet ==
    ASSUME slot \in [Resources -> Slots], NEW r \in Resources,
           NEW t \in Slots, t.active = slot[r].active, MayCarry(r, t.capacity),
           slot' = [slot EXCEPT ![r] = t], UNCHANGED <<lease, tracked>>
    PROVE  Quiet
BY DEF Quiet, MayCarry

LEMMA QuietSteps ==
    ASSUME TypeOK
    PROVE  /\ slot' = Refreshed /\ UNCHANGED <<lease, tracked>> => Quiet
           /\ \A l \in Leases : ReportOk(l) \/ ReportFailure(l) \/ Degrade(l) => Quiet
           /\ \A r \in Resources : Revoke(r) \/ (\E n \in Capacities : Publish(r, n)) => Quiet
           /\ Tick => Quiet
           /\ UNCHANGED <<slot, lease, tracked>> => Quiet
<1>1. slot \in [Resources -> Slots]
  BY DEF TypeOK
<1>2. ASSUME slot' = Refreshed, UNCHANGED <<lease, tracked>> PROVE Quiet
  BY <1>2, RefreshedFacts DEF Quiet, MayCarry
<1>3. ASSUME NEW l \in Leases, ReportOk(l) \/ ReportFailure(l) \/ Degrade(l) PROVE Quiet
  <2>1. PICK r \in Resources : lease[l].slot = r
    BY <1>3 DEF ReportOk, ReportFailure, Degrade, Usable, TypeOK, LeaseObjects
  <2>2. slot[r] \in Slots
    BY <1>1
  <2>3. CASE ReportOk(l)
    <3>1. slot' = [slot EXCEPT ![r] = Recovered(slot[r])] /\ UNCHANGED <<lease, tracked>>
      BY <2>1, <2>3 DEF ReportOk
    <3>2. Occupied(Recovered(slot[r]), slot[r])
      BY <2>2, EditFacts
    <3> QED
      BY <1>1, <3>1, <3>2, OneSlotQuiet DEF Occupied, MayCarry
  <2>4. CASE ReportFailure(l)
    <3>1. slot' = [slot EXCEPT ![r] = CountFailure(r, slot[r])] /\ UNCHANGED <<lease, tracked>>
      BY <2>1, <2>4 DEF ReportFailure
    <3>2. Occupied(CountFailure(r, slot[r]), slot[r])
      BY <2>2, CountFailureFacts DEF Occupied
    <3> QED
      BY <1>1, <3>1, <3>2, OneSlotQuiet DEF Occupied, MayCarry
  <2>5. CASE Degrade(l)
    <3>1. slot' = [slot EXCEPT ![r] = Degraded(r, slot[r])] /\ UNCHANGED <<lease, tracked>>
      BY <2>1, <2>5 DEF Degrade
    <3>2. Occupied(Degraded(r, slot[r]), slot[r])
      BY <2>2, EditFacts
    <3> QED
      BY <1>1, <3>1, <3>2, OneSlotQuiet DEF Occupied, MayCarry
  <2> QED
    BY <1>3, <2>3, <2>4, <2>5
<1>4. ASSUME NEW r \in Resources, Revoke(r) \/ (\E n \in Capacities : Publish(r, n))
      PROVE  Quiet
  <2>1. CASE Revoke(r)
    <3>1. slot' = [slot EXCEPT ![r] = Withdrawn(slot[r])] /\ UNCHANGED <<lease, tracked>>
      BY <2>1 DEF Revoke
    <3>2. Occupied(Withdrawn(slot[r]), slot[r])
      BY <1>1, EditFacts
    <3> QED
      BY <1>1, <3>1, <3>2, OneSlotQuiet DEF Occupied, MayCarry
  <2>2. CASE \E n \in Capacities : Publish(r, n)
    <3> PICK n \in Capacities : Publish(r, n)
      BY <2>2
    <3>1. slot' = [slot EXCEPT ![r] = Republished(slot[r], n)] /\ UNCHANGED <<lease, tracked>>
      BY <2>2 DEF Publish
    <3>2. /\ Republished(slot[r], n) \in Slots
          /\ Republished(slot[r], n).active = slot[r].active
          /\ MayCarry(r, Republished(slot[r], n).capacity)
      BY <1>1, <2>2, EditFacts DEF MayCarry, Publish
    <3> QED
      BY <1>1, <3>1, <3>2, OneSlotQuiet DEF Occupied, MayCarry
  <2> QED
    BY <1>4, <2>1, <2>2
<1>5. ASSUME Tick PROVE Quiet
  <2>1. slot' = [r \in Resources |-> Aged(slot[r])] /\ UNCHANGED <<lease, tracked>>
    BY <1>5 DEF Tick
  <2> QED
    BY <1>1, <2>1, EditFacts DEF Quiet, Occupied, MayCarry
<1>6. ASSUME UNCHANGED <<slot, lease, tracked>> PROVE Quiet
  BY <1>1, <1>6 DEF Quiet, MayCarry
<1> QED
  BY <1>2, <1>3, <1>4, <1>5, <1>6
-----------------------------------------------------------------------------
(* Types of the variables that are not about leases *)

LEMMA NotifyFacts ==
    ASSUME event \in [Callers -> BOOLEAN], NEW W, Notify(W)
    PROVE  event' \in [Callers -> BOOLEAN]
BY Zenon DEF Notify

\* Where a caller goes, its deadlines and the timer keep their types.
CallerTypes ==
    /\ running \subseteq Attempts
    /\ pc \in [Callers -> {"idle", "parked", "sleeping"}]
    /\ event \in [Callers -> BOOLEAN]
    /\ budget \in [Callers -> Nat \cup {Never}]
    /\ nap \in [Callers -> Nat]
    /\ timer \in Nat \cup {NoTimer}

LEMMA GiveUpTypes ==
    ASSUME TypeOK, NEW c \in Callers, GiveUp(c)
    PROVE  CallerTypes'
BY DEF TypeOK, GiveUp, Return, CallerTypes

LEMMA ParkTypes ==
    ASSUME TypeOK, NEW c \in Callers, NEW left \in Nat \cup {Never}, Park(c, left)
    PROVE  CallerTypes'
<1>1. timer' \in Nat \cup {NoTimer}
  <2>1. timer' = Armed(Refreshed, Waiters \cup {c}, timer) /\ timer \in Nat \cup {NoTimer}
    BY DEF Park, TypeOK
  <2> QED
    BY <2>1, RefreshedFacts, ArmedFacts
<1> QED
  BY <1>1 DEF TypeOK, Park, CallerTypes

LEMMA WaitForMoreTypes ==
    ASSUME TypeOK, NEW c \in Callers, NEW left \in Nat \cup {Never}, WaitForMore(c, left)
    PROVE  CallerTypes' /\ Quiet
<1>1. CASE GiveUp(c)
  BY <1>1, GiveUpTypes, QuietSteps DEF GiveUp
<1>2. CASE Park(c, left)
  BY <1>2, ParkTypes, QuietSteps DEF Park
<1>3. CASE BackOff(c, left) /\ ~GiveUp(c)
  <2>1. PICK d \in 0 .. MaxDelay :
           /\ slot' = Refreshed
           /\ pc' = [pc EXCEPT ![c] = "sleeping"]
           /\ nap' = [nap EXCEPT ![c] = d]
           /\ budget' = [budget EXCEPT ![c] = left]
           /\ UNCHANGED <<lease, tracked, running, event, timer>>
    BY <1>3 DEF BackOff
  <2>2. d \in Nat
    BY ConstantsAssumption
  <2> QED
    BY <2>1, <2>2, QuietSteps DEF TypeOK, CallerTypes
<1> QED
  BY <1>1, <1>2, <1>3 DEF WaitForMore

LEMMA TakeCandidateTypes ==
    ASSUME TypeOK, NEW c \in Callers, TakeCandidate(c)
    PROVE  CallerTypes'
BY TakeCandidateFacts DEF TypeOK, TakeCandidate, Return, CallerTypes

LEMMA CallerStepTypes ==
    ASSUME TypeOK, NEW c \in Callers, CallerStep(c)
    PROVE  CallerTypes' /\ (Quiet \/ TakeCandidate(c))
<1>1. CASE TakeCandidate(c)
  BY <1>1, TakeCandidateTypes
<1>2. CASE GiveUp(c)
  BY <1>2, GiveUpTypes, QuietSteps DEF GiveUp
<1>3. CASE \E left \in {Timeouts[c], budget[c]} : WaitForMore(c, left)
  <2>1. Timeouts[c] \in Nat \cup {Never} /\ budget[c] \in Nat \cup {Never}
    BY ConstantsAssumption DEF TypeOK
  <2> QED
    BY <1>3, <2>1, WaitForMoreTypes
<1>4. CASE /\ slot' = Refreshed
           /\ event' = [event EXCEPT ![c] = FALSE]
           /\ UNCHANGED <<lease, tracked, running, pc, budget, nap, timer>>
  BY <1>4, QuietSteps DEF TypeOK, CallerTypes
<1>5. CASE Cancel(c)
  BY <1>5, QuietSteps DEF TypeOK, Cancel, Return, CallerTypes
<1> QED
  BY <1>1, <1>2, <1>3, <1>4, <1>5 DEF CallerStep, Acquire, Resume, TimeOut, WakeUp

\* Every step keeps these types, and is one of five kinds.
LEMMA StepKinds ==
    ASSUME TypeOK, [Next]_vars
    PROVE  /\ CallerTypes'
           /\ \/ Quiet
              \/ \E c \in Callers : TakeCandidate(c)
              \/ \E l \in Leases : ReleaseNow(l)
              \/ \E a \in Attempts : EndAttempt(a) \/ BeginAttempt(a)
<1> USE DEF CallerTypes
<1>0. slot \in [Resources -> Slots] /\ timer \in Nat \cup {NoTimer}
  BY DEF TypeOK
<1>1. CASE \E c \in Callers : CallerStep(c)
  BY <1>1, CallerStepTypes
<1>2. ASSUME NEW l \in Leases, LeaseStep(l)
      PROVE  CallerTypes' /\ (Quiet \/ ReleaseNow(l))
  <2>1. event' \in [Callers -> BOOLEAN]
    BY <1>2, NotifyFacts DEF TypeOK, LeaseStep, ReleaseNow, ReportOk, ReportFailure, Degrade
  <2>2. CASE ReleaseNow(l)
    BY <2>1, <2>2 DEF TypeOK, ReleaseNow
  <2>3. CASE ReportOk(l)
    BY <2>1, <2>3, QuietSteps DEF TypeOK, ReportOk
  <2>4. CASE ReportFailure(l) \/ Degrade(l)
    <3>1. Quiet
      BY <2>4, QuietSteps
    <3>2. timer' \in Nat \cup {NoTimer}
      <4>1. timer' \in {timer, Armed(slot', Waiters, timer)}
        BY <2>4 DEF ReportFailure, Degrade
      <4> QED
        BY <1>0, <3>1, <4>1, ArmedFacts DEF Quiet
    <3> QED
      BY <2>1, <2>4, <3>1, <3>2 DEF TypeOK, ReportFailure, Degrade
  <2> QED
    BY <1>2, <2>2, <2>3, <2>4 DEF LeaseStep
<1>3. ASSUME NEW a \in Attempts, EndAttempt(a) PROVE CallerTypes'
  <2>1. PICK S \in SUBSET {c \in Callers : AttemptOf[c] = a /\ pc[c] # "idle"} :
          LET gone(c) == AttemptOf[c] = a /\ c \notin S
          IN  /\ pc' = [c \in Callers |-> IF gone(c) THEN "idle" ELSE pc[c]]
              /\ budget' = [c \in Callers |-> IF gone(c) THEN Never ELSE budget[c]]
              /\ nap' = [c \in Callers |-> IF gone(c) THEN 0 ELSE nap[c]]
              /\ event' = [c \in Callers |->
                             /\ ~gone(c)
                             /\ event[c] \/ \E r \in Resources : c \in Serves(r) /\ HeldBy(a, r) # {}]
    BY <1>3 DEF EndAttempt
  <2>2. event' \in [Callers -> BOOLEAN]
    BY <2>1, Zenon
  <2> QED
    BY <1>3, <2>1, <2>2 DEF EndAttempt, TypeOK
<1>4. ASSUME NEW a \in Attempts, BeginAttempt(a) PROVE CallerTypes'
  BY <1>4 DEF BeginAttempt, TypeOK
<1>5. ASSUME NEW r \in Resources, Revoke(r) \/ \E n \in Capacities : Publish(r, n)
      PROVE  CallerTypes' /\ Quiet
  <2>1. event' \in [Callers -> BOOLEAN]
    BY <1>5, NotifyFacts DEF TypeOK, Revoke, Publish
  <2> QED
    BY <1>5, <2>1, QuietSteps DEF TypeOK, Revoke, Publish
<1>6. CASE Observe
  BY <1>6, QuietSteps DEF TypeOK, Observe
<1>7. CASE CooldownOver
  <2>1. event' \in [Callers -> BOOLEAN]
    BY <1>7, NotifyFacts DEF TypeOK, CooldownOver
  <2>2. timer' \in Nat \cup {NoTimer}
    BY <1>0, <1>7, ArmedFacts DEF CooldownOver
  <2> QED
    BY <1>7, <2>1, <2>2, QuietSteps DEF TypeOK, CooldownOver
<1>8. CASE Tick
  <2>1. \A n \in Nat : Less(n) \in Nat
    BY DEF Less
  <2> QED
    BY <1>8, <2>1, QuietSteps DEF TypeOK, Tick
<1>9. CASE UNCHANGED vars
  BY <1>9, QuietSteps DEF TypeOK, vars
<1> QED
  BY <1>1, <1>2, <1>3, <1>4, <1>5, <1>6, <1>7, <1>8, <1>9 DEF Next
-----------------------------------------------------------------------------
(* The inductive invariant *)

LEMMA HeldOnFinite ==
    \A r \in Resources : IsFiniteSet(HeldOn(r)) /\ Cardinality(HeldOn(r)) \in Nat
<1> TAKE r \in Resources
<1>1. HeldOn(r) \in SUBSET Leases
  BY DEF HeldOn
<1> QED
  BY <1>1, ConstantsAssumption, FS_Subset, FS_CardinalityType

\* _release subtracts what it returns, unless that is more than there is.
LEMMA GivenBackFacts ==
    ASSUME NEW s \in Slots, NEW n \in Nat
    PROVE  /\ GivenBack(s, n) \in Slots
           /\ n <= s.active => GivenBack(s, n).active = s.active - n
           /\ GivenBack(s, n).capacity = s.capacity
           /\ GivenBack(s, n).state = s.state
           /\ GivenBack(s, n).left = s.left
<1>1. s = [state |-> s.state, left |-> s.left, active |-> s.active,
           capacity |-> s.capacity, failures |-> s.failures, client |-> s.client]
  BY DEF Slots
<1> QED
  BY <1>1 DEF GivenBack, Slots

LEMMA InitLeaseInv == Init => LeaseInv
<1> SUFFICES ASSUME Init PROVE LeaseInv
  OBVIOUS
<1>1. \A r \in Resources, st \in SlotStates, n \in Nat \ {0} : FreshSlot(r, st, n) \in Slots
  BY DEF FreshSlot, Slots, SlotStates
<1>2. TypeOK
  BY <1>1, ConstantsAssumption DEF Init, TypeOK, SlotStates
<1>3. \A r \in Resources : HeldOn(r) = {} /\ slot[r].active = 0
  BY DEF Init, HeldOn, FreshSlot
<1>4. ActiveCountsLeases
  BY <1>3, FS_EmptySet DEF ActiveCountsLeases
<1>5. TrackedAreHeld
  BY DEF Init, TrackedAreHeld, HeldFor
<1> QED
  BY <1>2, <1>4, <1>5 DEF LeaseInv

\* A grant adds one lease to the winner, to its context and to its count.
LEMMA GrantKeepsLeaseInv ==
    ASSUME LeaseInv, NEW c \in Callers, TakeCandidate(c), CallerTypes'
    PROVE  LeaseInv'
<1>1. TypeOK
  BY DEF LeaseInv
<1>2. CASE UNCHANGED <<lease, tracked>> /\ \A r \in Resources : slot'[r].active = slot[r].active
  BY <1>1, <1>2, TakeCandidateFacts
     DEF LeaseInv, TypeOK, CallerTypes, TrackedAreHeld, HeldFor, ActiveCountsLeases, HeldOn
<1>3. ASSUME NEW w \in Resources, NEW l \in Leases,
             lease[l] = NoLease,
             lease' = [lease EXCEPT ![l] = [slot |-> w, owner |-> AttemptOf[c], held |-> TRUE]],
             tracked' = [tracked EXCEPT ![AttemptOf[c]] = @ \cup {l}],
             \A r \in Resources :
                slot'[r].active = IF r = w THEN slot[r].active + 1 ELSE slot[r].active
      PROVE  LeaseInv'
  <2> DEFINE new == [slot |-> w, owner |-> AttemptOf[c], held |-> TRUE]
  <2>1. AttemptOf[c] \in Attempts
    BY ConstantsAssumption
  <2>2. new \in LeaseObjects /\ new # NoLease
    <3>1. NoLease \notin LeaseObjects
      BY ConstantsAssumption DEF LeaseObjects
    <3>2. new \in LeaseObjects
      BY <2>1 DEF LeaseObjects
    <3> QED
      BY <3>1, <3>2
  <2>3. TypeOK'
    BY <1>1, <1>3, <2>1, <2>2, TakeCandidateFacts DEF TypeOK, CallerTypes
  <2>4. \A k \in Leases : lease'[k] = IF k = l THEN new ELSE lease[k]
    BY <1>1, <1>3 DEF TypeOK
  <2>5. TrackedAreHeld'
    <3>1. \A a \in Attempts : tracked'[a] = IF a = AttemptOf[c] THEN tracked[a] \cup {l} ELSE tracked[a]
      BY <1>1, <1>3, <2>1 DEF TypeOK
    <3>2. \A a \in Attempts : HeldFor(a)' = IF a = AttemptOf[c] THEN HeldFor(a) \cup {l} ELSE HeldFor(a)
      BY <1>3, <2>2, <2>4 DEF HeldFor
    <3> QED
      BY <3>1, <3>2 DEF LeaseInv, TrackedAreHeld
  <2>6. ASSUME NEW r \in Resources
        PROVE  slot'[r].active = Cardinality(HeldOn(r)')
    <3>1. IsFiniteSet(HeldOn(r)) /\ l \notin HeldOn(r)
      BY <1>3, HeldOnFinite DEF HeldOn
    <3>2. HeldOn(r)' = IF r = w THEN HeldOn(r) \cup {l} ELSE HeldOn(r)
      BY <1>3, <2>2, <2>4 DEF HeldOn
    <3> QED
      BY <1>3, <3>1, <3>2, FS_AddElement DEF LeaseInv, ActiveCountsLeases
  <2> QED
    BY <2>3, <2>5, <2>6 DEF LeaseInv, ActiveCountsLeases
<1> QED
  BY <1>1, <1>2, <1>3, TakeCandidateFacts

\* release_now takes one lease from its slot, its context and its count.
LEMMA ReleaseKeepsLeaseInv ==
    ASSUME LeaseInv, NEW l \in Leases, ReleaseNow(l), CallerTypes'
    PROVE  LeaseInv'
<1>1. TypeOK /\ lease[l] # NoLease /\ lease[l].held
  BY DEF LeaseInv, ReleaseNow, Usable
<1>2. PICK w \in Resources, a \in Attempts : lease[l] = [slot |-> w, owner |-> a, held |-> TRUE]
  BY <1>1 DEF TypeOK, LeaseObjects
<1> DEFINE old == [slot |-> w, owner |-> a, held |-> FALSE]
<1>3. /\ slot' = [slot EXCEPT ![w] = GivenBack(slot[w], 1)]
      /\ tracked' = [tracked EXCEPT ![a] = @ \ {l}]
      /\ lease' = [lease EXCEPT ![l] = old]
  <2>1. /\ slot' = [slot EXCEPT ![lease[l].slot] = GivenBack(@, 1)]
        /\ tracked' = [tracked EXCEPT ![lease[l].owner] = @ \ {l}]
        /\ lease' = [lease EXCEPT ![l] = Returned(lease[l])]
    BY DEF ReleaseNow, Untrack
  <2>2. Returned(lease[l]) = old
    BY <1>2 DEF Returned
  <2>3. lease[l].slot = w /\ lease[l].owner = a
    BY <1>2
  <2> QED
    BY <2>1, <2>2, <2>3
<1>4. \A k \in Leases : lease'[k] = IF k = l THEN old ELSE lease[k]
  BY <1>1, <1>3 DEF TypeOK
<1>5. \A r \in Resources : /\ HeldOn(r)' = IF r = w THEN HeldOn(r) \ {l} ELSE HeldOn(r)
                           /\ IsFiniteSet(HeldOn(r))
  BY <1>2, <1>4, HeldOnFinite DEF HeldOn
<1>6. l \in HeldOn(w)
  BY <1>1, <1>2 DEF HeldOn
<1>7. slot[w] \in Slots /\ slot[w].active = Cardinality(HeldOn(w))
  BY <1>1 DEF LeaseInv, TypeOK, ActiveCountsLeases
<1>8. Cardinality(HeldOn(w) \ {l}) = slot[w].active - 1 /\ slot[w].active >= 1
  <2>1. Cardinality(HeldOn(w) \ {l}) = Cardinality(HeldOn(w)) - 1
    BY <1>5, <1>6, FS_RemoveElement
  <2>2. Cardinality(HeldOn(w) \ {l}) \in Nat /\ slot[w].active \in Nat
    BY <1>5, <1>7, FS_RemoveElement, FS_CardinalityType DEF Slots
  <2> QED
    BY <1>7, <2>1, <2>2
<1>9. GivenBack(slot[w], 1) \in Slots /\ GivenBack(slot[w], 1).active = slot[w].active - 1
  BY <1>7, <1>8, GivenBackFacts
<1>10. TypeOK'
  <2>1. old \in LeaseObjects
    BY DEF LeaseObjects
  <2> QED
    BY <1>1, <1>3, <1>9, <2>1 DEF TypeOK, CallerTypes
<1>11. TrackedAreHeld'
  <2>1. \A b \in Attempts : tracked'[b] = IF b = a THEN tracked[b] \ {l} ELSE tracked[b]
    BY <1>1, <1>3 DEF TypeOK
  <2>2. \A b \in Attempts : HeldFor(b)' = IF b = a THEN HeldFor(b) \ {l} ELSE HeldFor(b)
    BY <1>2, <1>4 DEF HeldFor
  <2> QED
    BY <2>1, <2>2 DEF LeaseInv, TrackedAreHeld
<1>12. ActiveCountsLeases'
  <2>1. ASSUME NEW r \in Resources PROVE slot'[r].active = Cardinality(HeldOn(r)')
    <3>1. slot'[r] = IF r = w THEN GivenBack(slot[w], 1) ELSE slot[r]
      BY <1>1, <1>3 DEF TypeOK
    <3> QED
      BY <1>5, <1>8, <1>9, <3>1 DEF LeaseInv, ActiveCountsLeases
  <2> QED
    BY <2>1 DEF ActiveCountsLeases
<1> QED
  BY <1>10, <1>11, <1>12 DEF LeaseInv

\* A lease object that its attempt has done with is not held.
LEMMA LeftIsFree ==
    ASSUME NEW o
    PROVE  Left(o) # NoLease => Left(o).held = FALSE
BY DEF Left, Returned

\* The reclaim at the end of an attempt returns all its leases at once.
LEMMA EndKeepsLeaseInv ==
    ASSUME LeaseInv, NEW a \in Attempts, EndAttempt(a), CallerTypes'
    PROVE  LeaseInv'
<1>1. TypeOK /\ tracked[a] = HeldFor(a)
  BY DEF LeaseInv, TrackedAreHeld
<1>2. /\ slot' = [r \in Resources |-> GivenBack(slot[r], Cardinality(HeldBy(a, r)))]
      /\ tracked' = [tracked EXCEPT ![a] = {}]
      /\ \A l \in Leases :
           lease'[l] = IF lease[l] # NoLease /\ lease[l].owner = a THEN Left(lease[l]) ELSE lease[l]
  BY <1>1 DEF EndAttempt, HeldFor
<1>3. lease' \in [Leases -> LeaseObjects \cup {NoLease}]
  <2>1. \A l \in Leases : lease[l] # NoLease => Left(lease[l]) \in LeaseObjects \cup {NoLease}
    BY <1>1 DEF TypeOK, Left, Returned, LeaseObjects
  <2> QED
    BY <1>1, <2>1 DEF EndAttempt, TypeOK
<1>4. ASSUME NEW r \in Resources
      PROVE  /\ HeldBy(a, r) \subseteq HeldOn(r)
             /\ HeldOn(r)' = HeldOn(r) \ HeldBy(a, r)
  <2>1. HeldBy(a, r) = {l \in Leases : /\ lease[l] # NoLease /\ lease[l].held
                                        /\ lease[l].owner = a /\ lease[l].slot = r}
    BY <1>1 DEF HeldBy, HeldFor
  <2>2. \A l \in Leases :
          l \in HeldOn(r)' <=> l \in HeldOn(r) /\ lease[l].owner # a
    BY <1>2, LeftIsFree DEF HeldOn
  <2> QED
    BY <2>1, <2>2 DEF HeldOn
<1>5. ASSUME NEW r \in Resources
      PROVE  /\ slot'[r] \in Slots
             /\ slot'[r].active = Cardinality(HeldOn(r)')
  <2>1. IsFiniteSet(HeldOn(r)) /\ IsFiniteSet(HeldBy(a, r))
    BY <1>4, HeldOnFinite, FS_Subset
  <2>2. /\ Cardinality(HeldBy(a, r)) \in Nat
        /\ Cardinality(HeldBy(a, r)) <= Cardinality(HeldOn(r))
    BY <1>4, <2>1, FS_Subset, FS_CardinalityType
  <2>3. Cardinality(HeldOn(r)') = Cardinality(HeldOn(r)) - Cardinality(HeldBy(a, r))
    <3>1. HeldOn(r) \cap HeldBy(a, r) = HeldBy(a, r)
      BY <1>4
    <3> QED
      BY <1>4, <2>1, <3>1, FS_Difference
  <2>4. slot[r] \in Slots /\ slot[r].active = Cardinality(HeldOn(r))
    BY <1>1 DEF LeaseInv, TypeOK, ActiveCountsLeases
  <2>5. slot'[r] = GivenBack(slot[r], Cardinality(HeldBy(a, r)))
    BY <1>2
  <2> QED
    BY <2>2, <2>3, <2>4, <2>5, GivenBackFacts
<1>6. TypeOK'
  <2>1. slot' \in [Resources -> Slots]
    BY <1>2, <1>5
  <2> QED
    BY <1>1, <1>2, <1>3, <2>1 DEF TypeOK, CallerTypes
<1>7. TrackedAreHeld'
  <2>1. \A b \in Attempts : HeldFor(b)' = IF b = a THEN {} ELSE HeldFor(b)
    BY <1>2, LeftIsFree DEF HeldFor
  <2>2. \A b \in Attempts : tracked'[b] = IF b = a THEN {} ELSE tracked[b]
    BY <1>1, <1>2 DEF TypeOK
  <2> QED
    BY <2>1, <2>2 DEF LeaseInv, TrackedAreHeld
<1> QED
  BY <1>5, <1>6, <1>7 DEF LeaseInv, ActiveCountsLeases

\* A new attempt forgets only lease objects that were returned.
LEMMA BeginKeepsLeaseInv ==
    ASSUME LeaseInv, NEW a \in Attempts, BeginAttempt(a), CallerTypes'
    PROVE  LeaseInv'
<1>1. TypeOK
  BY DEF LeaseInv
<1>2. /\ slot' = slot /\ tracked' = tracked
      /\ \A l \in Leases : lease[l] # NoLease /\ lease[l].owner = a => ~lease[l].held
      /\ lease' = [l \in Leases |-> IF lease[l] # NoLease /\ lease[l].owner = a
                                    THEN NoLease ELSE lease[l]]
  BY DEF BeginAttempt
<1>3. TypeOK'
  BY <1>1, <1>2 DEF TypeOK, CallerTypes
<1>4. \A r \in Resources : HeldOn(r)' = HeldOn(r)
  BY <1>2 DEF HeldOn
<1>5. \A b \in Attempts : HeldFor(b)' = HeldFor(b)
  BY <1>2 DEF HeldFor
<1> QED
  BY <1>2, <1>3, <1>4, <1>5 DEF LeaseInv, TrackedAreHeld, ActiveCountsLeases

LEMMA QuietKeepsLeaseInv ==
    ASSUME LeaseInv, Quiet, CallerTypes'
    PROVE  LeaseInv'
BY DEF LeaseInv, Quiet, CallerTypes, TypeOK, TrackedAreHeld, HeldFor, ActiveCountsLeases, HeldOn

LEMMA StepKeepsLeaseInv == LeaseInv /\ [Next]_vars => LeaseInv'
<1> SUFFICES ASSUME LeaseInv, [Next]_vars PROVE LeaseInv'
  OBVIOUS
<1>1. TypeOK
  BY DEF LeaseInv
<1> QED
  BY <1>1, StepKinds, QuietKeepsLeaseInv, GrantKeepsLeaseInv, ReleaseKeepsLeaseInv,
     EndKeepsLeaseInv, BeginKeepsLeaseInv

\* Every reachable state satisfies the inductive invariant.
THEOREM LeaseInvHolds == Spec => []LeaseInv
BY InitLeaseInv, StepKeepsLeaseInv, PTL DEF Spec

-----------------------------------------------------------------------------
(* What follows from it *)

\* The variables keep their types, whatever the callers and the clock do: no
\* count, deadline or timer of the pool ever leaves its range.
THEOREM TypeCorrect == Spec => []TypeOK
<1>1. LeaseInv => TypeOK
  BY DEF LeaseInv
<1> QED
  BY <1>1, LeaseInvHolds, PTL

\* Every slot's active count is the number of leases out on it: no release,
\* reclaim, failing factory or republication loses or double-counts one.
THEOREM ActiveIsCounted == Spec => []ActiveCountsLeases
<1>1. LeaseInv => ActiveCountsLeases
  BY DEF LeaseInv
<1> QED
  BY <1>1, LeaseInvHolds, PTL

\* A task context tracks exactly the leases its attempt has not returned.
THEOREM ContextsTrackHeld == Spec => []TrackedAreHeld
<1>1. LeaseInv => TrackedAreHeld
  BY DEF LeaseInv
<1> QED
  BY <1>1, LeaseInvHolds, PTL

-----------------------------------------------------------------------------
(* Capacity *)

CapacityInv ==
    /\ LeaseInv
    /\ \A r \in Resources : slot[r].capacity = InitialCapacity[r]
    /\ WithinCapacity

\* A resource is never leased beyond its capacity, provided that publishing it
\* again leaves its capacity as it was.
THEOREM CapacityRespected ==
    ASSUME \A r \in Publishable : \A n \in Capacities : n = InitialCapacity[r]
    PROVE  Spec => []WithinCapacity
<1>1. Init => CapacityInv
  <2> SUFFICES ASSUME Init PROVE CapacityInv
    OBVIOUS
  <2>1. \A r \in Resources : slot[r].active = 0 /\ slot[r].capacity = InitialCapacity[r]
    BY DEF Init, FreshSlot
  <2> QED
    BY <2>1, InitLeaseInv, ConstantsAssumption DEF CapacityInv, WithinCapacity
<1>2. CapacityInv /\ [Next]_vars => CapacityInv'
  <2> SUFFICES ASSUME CapacityInv, [Next]_vars PROVE CapacityInv'
    OBVIOUS
  <2>1. TypeOK /\ LeaseInv'
    BY StepKeepsLeaseInv DEF CapacityInv, LeaseInv
  <2>2. \A r \in Resources : slot[r] \in Slots /\ slot[r].active \in Nat
    BY <2>1 DEF TypeOK, Slots
  <2>3. CASE Quiet
    BY <2>1, <2>3 DEF CapacityInv, Quiet, MayCarry, WithinCapacity
  <2>4. ASSUME NEW c \in Callers, TakeCandidate(c) PROVE CapacityInv'
    <3>1. \A r \in Resources : slot'[r].capacity = slot[r].capacity
      BY <2>1, <2>4, TakeCandidateFacts
    <3>2. \A r \in Resources : \/ slot'[r].active = slot[r].active
                               \/ /\ slot'[r].active = slot[r].active + 1
                                  /\ slot[r].active < slot[r].capacity
      BY <2>1, <2>4, TakeCandidateFacts
    <3>3. \A r \in Resources : slot[r].capacity \in Nat
      BY <2>2 DEF Slots
    <3> QED
      BY <2>1, <2>2, <3>1, <3>2, <3>3 DEF CapacityInv, WithinCapacity
  <2>5. ASSUME NEW r \in Resources, NEW n \in Nat, slot'[r] = GivenBack(slot[r], n)
        PROVE  slot'[r].active <= slot[r].active /\ slot'[r].capacity = slot[r].capacity
    BY <2>2, <2>5, GivenBackFacts DEF GivenBack, Slots
  <2>6. ASSUME NEW l \in Leases, ReleaseNow(l) PROVE CapacityInv'
    <3>1. \A r \in Resources : slot'[r] = slot[r] \/ slot'[r] = GivenBack(slot[r], 1)
      BY <2>1, <2>6 DEF ReleaseNow, TypeOK
    <3>2. \A r \in Resources : slot'[r].active <= slot[r].active
                               /\ slot'[r].capacity = slot[r].capacity
      BY <2>2, <2>5, <3>1
    <3> QED
      BY <2>1, <2>2, <3>2 DEF CapacityInv, WithinCapacity, TypeOK, LeaseInv, Slots
  <2>7. ASSUME NEW a \in Attempts, EndAttempt(a) PROVE CapacityInv'
    <3>1. \A r \in Resources : Cardinality(HeldBy(a, r)) \in Nat
      <4> TAKE r \in Resources
      <4>1. HeldBy(a, r) \in SUBSET Leases
        BY <2>1 DEF HeldBy, TypeOK
      <4> QED
        BY <4>1, ConstantsAssumption, FS_Subset, FS_CardinalityType
    <3>2. \A r \in Resources : slot'[r] = GivenBack(slot[r], Cardinality(HeldBy(a, r)))
      BY <2>7 DEF EndAttempt
    <3>3. \A r \in Resources : slot'[r].active <= slot[r].active
                               /\ slot'[r].capacity = slot[r].capacity
      BY <2>5, <3>1, <3>2
    <3> QED
      BY <2>1, <2>2, <3>3 DEF CapacityInv, WithinCapacity, TypeOK, LeaseInv, Slots
  <2>8. ASSUME NEW a \in Attempts, BeginAttempt(a) PROVE CapacityInv'
    BY <2>1, <2>8 DEF CapacityInv, WithinCapacity, BeginAttempt
  <2> QED
    BY <2>1, <2>3, <2>4, <2>6, <2>7, <2>8, StepKinds
<1>3. CapacityInv => WithinCapacity
  BY DEF CapacityInv
<1> QED
  BY <1>1, <1>2, <1>3, PTL DEF Spec

-----------------------------------------------------------------------------
(* The end of an attempt *)

\* Only EndAttempt ends an attempt.
LEMMA OnlyEndAttemptEnds ==
    ASSUME Next, NEW a \in Attempts, a \in running, a \notin running'
    PROVE  EndAttempt(a)
<1>1. ASSUME NEW c \in Callers, CallerStep(c) PROVE running' = running
  BY <1>1 DEF CallerStep, Acquire, Resume, TimeOut, WakeUp, Cancel, TakeCandidate, WaitForMore, GiveUp,
              Park, BackOff
<1>2. ASSUME NEW l \in Leases, LeaseStep(l) PROVE running' = running
  BY <1>2 DEF LeaseStep, ReleaseNow, ReportOk, ReportFailure, Degrade
<1>3. ASSUME NEW b \in Attempts, BeginAttempt(b) PROVE running \subseteq running'
  BY <1>3 DEF BeginAttempt
<1>4. ASSUME NEW b \in Attempts, EndAttempt(b) PROVE b = a
  BY <1>4 DEF EndAttempt
<1>5. CASE \/ \E r \in Resources : Revoke(r) \/ \E n \in Capacities : Publish(r, n)
           \/ Observe \/ CooldownOver \/ Tick
  BY <1>5 DEF Revoke, Publish, Observe, CooldownOver, Tick
<1> QED
  BY <1>1, <1>2, <1>3, <1>4, <1>5 DEF Next

\* The end of an attempt leaves nothing that is held for it, whether or not
\* children outlive it (reclaim_now over TaskContext._leases, which misses no
\* lease by ContextsTrackHeld).
THEOREM EndsReturnAll == Spec => EndReturnsAll
<1>1. LeaseInv /\ [Next]_vars =>
        [\A a \in Attempts : a \in running /\ a \notin running' => HeldFor(a)' = {}]_vars
  <2> SUFFICES ASSUME LeaseInv, Next, NEW a \in Attempts, a \in running, a \notin running'
               PROVE  HeldFor(a)' = {}
    OBVIOUS
  <2>1. EndAttempt(a)
    BY OnlyEndAttemptEnds
  <2>2. tracked[a] = HeldFor(a)
    BY DEF LeaseInv, TrackedAreHeld
  <2>3. \A l \in Leases :
          lease'[l] = IF lease[l] # NoLease /\ lease[l].owner = a THEN Left(lease[l]) ELSE lease[l]
    BY <2>1, <2>2 DEF EndAttempt, HeldFor
  <2> QED
    BY <2>3, LeftIsFree DEF HeldFor
<1> QED
  BY <1>1, LeaseInvHolds, PTL DEF Spec, EndReturnsAll

-----------------------------------------------------------------------------
(* The pool implements the table of leases *)

\* In the table's terms, the leases out on a resource are those held on it.
LEMMA OutIsHeld ==
    ASSUME TypeOK
    PROVE  \A r \in Resources : {l \in Leases : outOf[l] = r} = HeldOn(r)
<1>1. NoLease \notin Resources
  BY ConstantsAssumption
<1> QED
  BY <1>1 DEF outOf, HeldOn

\* Any step after which the slots are well typed and no lease moved is a change
\* of the table.
LEMMA ChangeFacts ==
    ASSUME slot' \in [Resources -> Slots], UNCHANGED lease
    PROVE  Table!Change
<1>1. capOf' \in [Resources -> Nat \ {0}] /\ openOf' \in SUBSET Resources
  BY DEF capOf, openOf, Slots
<1>2. outOf' = outOf
  BY DEF outOf
<1> QED
  BY <1>1, <1>2 DEF Table!Change

\* Returning leases leaves what the table says of the resources as it was.
LEMMA GiveBackFacts ==
    ASSUME TypeOK, NEW L \in SUBSET Leases,
           \A r \in Resources : slot'[r] = slot[r]
                                \/ \E n \in Nat : slot'[r] = GivenBack(slot[r], n),
           \A l \in Leases : outOf'[l] = IF l \in L THEN NoLease ELSE outOf[l]
    PROVE  Table!GiveBack(L)
<1>1. ASSUME NEW r \in Resources
      PROVE  /\ slot'[r].capacity = slot[r].capacity
             /\ slot'[r].state = slot[r].state
             /\ slot'[r].left = slot[r].left
             /\ slot[r] \in Slots /\ slot'[r] \in Slots
  <2>1. slot[r] \in Slots
    BY DEF TypeOK
  <2> QED
    BY <2>1, GivenBackFacts
<1>2. ASSUME NEW s \in Slots
      PROVE  StateAt(s).state = IF s.state = "degraded" /\ s.left = 0 THEN "ready" ELSE s.state
  <2>1. s = [state |-> s.state, left |-> s.left, active |-> s.active,
             capacity |-> s.capacity, failures |-> s.failures, client |-> s.client]
    BY DEF Slots
  <2> QED
    BY <2>1 DEF StateAt
<1>3. capOf' = capOf /\ openOf' = openOf
  BY <1>1, <1>2 DEF capOf, openOf
<1>4. outOf' = [l \in Leases |-> IF l \in L THEN NoLease ELSE outOf[l]]
  BY DEF outOf
<1> QED
  BY <1>3, <1>4 DEF Table!GiveBack

LEMMA GrantFacts ==
    ASSUME LeaseInv, NEW c \in Callers, TakeCandidate(c)
    PROVE  Table!Next
<1>1. TypeOK /\ slot' \in [Resources -> Slots]
  BY TakeCandidateFacts DEF LeaseInv
<1>2. ASSUME NEW w \in Resources, NEW l \in Leases,
             Refreshed[w].state = "ready" /\ slot[w].active < slot[w].capacity,
             lease[l] = NoLease,
             lease' = [lease EXCEPT ![l] = [slot |-> w, owner |-> AttemptOf[c], held |-> TRUE]]
      PROVE  Table!Grant(l, w)
  <2> DEFINE new == [slot |-> w, owner |-> AttemptOf[c], held |-> TRUE]
  <2>1. new # NoLease
    <3>1. new \in [slot : Resources, owner : Attempts, held : BOOLEAN]
      BY ConstantsAssumption
    <3> QED
      BY <3>1, ConstantsAssumption
  <2>2. outOf[l] = NoLease /\ outOf' = [outOf EXCEPT ![l] = w]
    <3>1. \A k \in Leases : lease'[k] = IF k = l THEN new ELSE lease[k]
      BY <1>1, <1>2 DEF TypeOK
    <3>2. new.held /\ new.slot = w
      OBVIOUS
    <3> HIDE DEF new
    <3>3. outOf[l] = NoLease
      BY <1>2 DEF outOf
    <3>4. \A k \in Leases : outOf'[k] = IF k = l THEN w ELSE outOf[k]
      BY <2>1, <3>1, <3>2 DEF outOf
    <3>5. outOf \in [Leases -> Resources \cup {NoLease}] /\ outOf' = [k \in Leases |-> outOf'[k]]
      BY <1>1 DEF outOf, TypeOK, LeaseObjects
    <3> QED
      BY <3>3, <3>4, <3>5
  <2>3. w \in openOf
    BY <1>2 DEF openOf, Refreshed
  <2>4. Cardinality({k \in Leases : outOf[k] = w}) < capOf[w]
    BY <1>1, <1>2, OutIsHeld DEF LeaseInv, ActiveCountsLeases, capOf
  <2>5. capOf' = capOf /\ openOf' \in SUBSET Resources
    BY <1>1, TakeCandidateFacts DEF capOf, openOf
  <2>6. Table!Out(w) = {k \in Leases : outOf[k] = w}
    BY DEF Table!Out
  <2>7. Cardinality(Table!Out(w)) < capOf[w]
    BY <2>4, <2>6
  <2>8. Table!Cardinality(Table!Out(w)) = Cardinality(Table!Out(w))
    BY DEF Cardinality, Table!Cardinality
  <2> QED
    BY <2>2, <2>3, <2>5, <2>7, <2>8 DEF Table!Grant
<1>3. CASE UNCHANGED lease
  BY <1>1, <1>3, ChangeFacts DEF Table!Next
<1> QED
  BY <1>1, <1>2, <1>3, TakeCandidateFacts DEF Table!Next

\* Every behaviour of the pool is one of the lease table: a lease is granted only
\* on a ready resource below its capacity, stays there, and goes back once.
THEOREM PoolImplementsTable == Spec => ImplementsLeaseTable
<1>1. Init => Table!Init
  <2> SUFFICES ASSUME Init PROVE Table!Init
    OBVIOUS
  <2>1. slot \in [Resources -> Slots]
    BY InitLeaseInv DEF LeaseInv, TypeOK
  <2> QED
    BY <2>1 DEF Init, Table!Init, Slots, outOf, capOf, openOf
<1>2. LeaseInv /\ [Next]_vars => [Table!Next]_(Table!tableVars)
  <2> SUFFICES ASSUME LeaseInv, [Next]_vars PROVE [Table!Next]_(Table!tableVars)
    OBVIOUS
  <2>1. TypeOK
    BY DEF LeaseInv
  <2>2. CASE Quiet
    BY <2>2, ChangeFacts DEF Quiet, Table!Next
  <2>3. ASSUME NEW l \in Leases, ReleaseNow(l) PROVE Table!GiveBack({l})
    <3>1. \A r \in Resources : slot'[r] = slot[r] \/ slot'[r] = GivenBack(slot[r], 1)
      BY <2>1, <2>3 DEF ReleaseNow, TypeOK
    <3>2. \A k \in Leases : lease'[k] = IF k = l THEN Returned(lease[l]) ELSE lease[k]
      BY <2>1, <2>3 DEF ReleaseNow, TypeOK
    <3>3. \A k \in Leases : outOf'[k] = IF k \in {l} THEN NoLease ELSE outOf[k]
      BY <3>2 DEF outOf, Returned
    <3> QED
      BY <2>1, <3>1, <3>3, GiveBackFacts
  <2>4. ASSUME NEW a \in Attempts, EndAttempt(a)
        PROVE  \E L \in SUBSET Leases : Table!GiveBack(L)
    <3>1. \A r \in Resources : slot'[r] = GivenBack(slot[r], Cardinality(HeldBy(a, r)))
      BY <2>4 DEF EndAttempt
    <3>2. \A r \in Resources : Cardinality(HeldBy(a, r)) \in Nat
      <4> TAKE r \in Resources
      <4>1. HeldBy(a, r) \in SUBSET Leases
        BY <2>1 DEF HeldBy, TypeOK
      <4> QED
        BY <4>1, ConstantsAssumption, FS_Subset, FS_CardinalityType
    <3>3. tracked[a] = HeldFor(a)
      BY DEF LeaseInv, TrackedAreHeld
    <3>4. \A l \in Leases :
            lease'[l] = IF lease[l] # NoLease /\ lease[l].owner = a THEN Left(lease[l]) ELSE lease[l]
      BY <2>4, <3>3 DEF EndAttempt, HeldFor
    <3>5. \A l \in Leases : outOf'[l] = IF l \in HeldFor(a) THEN NoLease ELSE outOf[l]
      BY <3>4, LeftIsFree DEF outOf, HeldFor
    <3>6. PICK L \in SUBSET Leases : L = HeldFor(a)
      BY DEF HeldFor
    <3>7. \A r \in Resources : \E n \in Nat : slot'[r] = GivenBack(slot[r], n)
      BY <3>1, <3>2
    <3> QED
      BY <2>1, <3>5, <3>6, <3>7, GiveBackFacts
  <2>5. ASSUME NEW a \in Attempts, BeginAttempt(a) PROVE UNCHANGED Table!tableVars
    <3>1. outOf' = outOf
      BY <2>5 DEF BeginAttempt, outOf
    <3> QED
      BY <2>5, <3>1 DEF BeginAttempt, Table!tableVars, capOf, openOf
  <2>6. \A l \in Leases : ReleaseNow(l) => Table!Next
    BY <2>3 DEF Table!Next
  <2>7. \A a \in Attempts : EndAttempt(a) => Table!Next
    BY <2>4 DEF Table!Next
  <2>8. Table!Next \/ UNCHANGED Table!tableVars
    BY <2>1, <2>2, <2>5, <2>6, <2>7, GrantFacts, StepKinds
  <2> QED
    BY <2>8
<1> QED
  BY <1>1, <1>2, LeaseInvHolds, PTL DEF Spec, ImplementsLeaseTable, Table!Spec

-----------------------------------------------------------------------------
(* Callers that wait: nobody waits for what is there, for any number of     *)
(* resources and callers, as long as no client factory fails; and what the  *)
(* circuit breaker remembers, without condition.                            *)

(* What happens to one slot *)

LEMMA StateAtEffect ==
    ASSUME NEW s \in Slots
    PROVE  /\ StateAt(s).state = IF s.state = "degraded" /\ s.left = 0 THEN "ready" ELSE s.state
           /\ StateAt(s).left = s.left
           /\ StateAt(s).failures = s.failures
           /\ StateAt(s).client \in {s.client, "absent"}
<1>1. s = [state |-> s.state, left |-> s.left, active |-> s.active,
           capacity |-> s.capacity, failures |-> s.failures, client |-> s.client]
  BY DEF Slots
<1> QED
  BY <1>1 DEF StateAt

LEMMA EditEffect ==
    ASSUME NEW s \in Slots
    PROVE  /\ Recovered(s).state = "ready" /\ Recovered(s).client = s.client
           /\ \A r \in Resources :
                /\ Degraded(r, s).state = "degraded" /\ Degraded(r, s).client = s.client
                /\ Degraded(r, s).failures = s.failures
           /\ Withdrawn(s).state = "revoked" /\ Withdrawn(s).client = s.client
           /\ Withdrawn(s).failures = s.failures
           /\ \A n \in Capacities :
                /\ Republished(s, n).state = "ready" /\ Republished(s, n).client = s.client
                /\ Republished(s, n).failures = s.failures
           /\ Aged(s).state = s.state /\ Aged(s).client = s.client
           /\ Aged(s).failures = s.failures /\ Aged(s).left = Less(s.left)
<1>1. s = [state |-> s.state, left |-> s.left, active |-> s.active,
           capacity |-> s.capacity, failures |-> s.failures, client |-> s.client]
  BY DEF Slots
<1> QED
  BY <1>1 DEF Recovered, Degraded, Withdrawn, Republished, Aged

\* One more failure degrades the slot, kills it, or leaves its state alone; the
\* waiters are told of the first, and of the second when it is news.
LEMMA CountFailureEffect ==
    ASSUME NEW r \in Resources, NEW s \in Slots
    PROVE  LET t == CountFailure(r, s)
           IN  /\ t.client = s.client /\ t.failures \in Nat /\ t.failures >= s.failures
               /\ \/ t.state = "dead"
                  \/ t.state = "degraded" /\ Tripped(r, s)
                  \/ t.state = s.state /\ t.left = s.left /\ ~Tripped(r, s)
<1> DEFINE n == IF s.failures < DeadAfter[r] THEN s.failures + 1 ELSE s.failures
           t == CountFailure(r, s)
<1>1. /\ n \in Nat /\ n >= s.failures
      /\ DeadAfter[r] \in Nat \ {0} /\ DegradeAfter[r] \in Nat \ {0}
  BY ConstantsAssumption DEF Slots
<1>2. s = [state |-> s.state, left |-> s.left, active |-> s.active,
           capacity |-> s.capacity, failures |-> s.failures, client |-> s.client]
  BY DEF Slots
<1>3. t = IF n >= DeadAfter[r]
          THEN [s EXCEPT !.failures = n, !.state = "dead", !.left = 0]
          ELSE IF n >= DegradeAfter[r]
          THEN [s EXCEPT !.state = "degraded", !.left = Cooldown[r], !.failures = n]
          ELSE [s EXCEPT !.failures = n]
  BY DEF CountFailure, Degraded
<1>4. Tripped(r, s) <=> \/ t.state = "dead" /\ s.state # "dead"
                        \/ t.failures < DeadAfter[r] /\ t.failures >= DegradeAfter[r]
  BY DEF Tripped
<1> HIDE DEF n, t
<1>5. CASE n >= DeadAfter[r]
  BY <1>1, <1>2, <1>3, <1>5 DEF t
<1>6. CASE ~(n >= DeadAfter[r]) /\ n >= DegradeAfter[r]
  <2>1. t.state = "degraded" /\ t.failures = n /\ t.client = s.client
    BY <1>2, <1>3, <1>6
  <2> QED
    BY <1>1, <1>4, <1>6, <2>1 DEF t
<1>7. CASE ~(n >= DeadAfter[r]) /\ ~(n >= DegradeAfter[r])
  <2>1. t.state = s.state /\ t.failures = n /\ t.client = s.client /\ t.left = s.left
    BY <1>2, <1>3, <1>7
  <2> QED
    BY <1>1, <1>4, <1>7, <2>1 DEF t
<1> QED
  BY <1>5, <1>6, <1>7

\* The timer is left for the earliest end of a cooldown, and never put off.
LEMMA ArmedWatches ==
    ASSUME NEW slots \in [Resources -> Slots], NEW W, NEW t \in Nat \cup {NoTimer}
    PROVE  LET u == Armed(slots, W, t)
           IN  /\ t # NoTimer => u \in Nat /\ u <= t
               /\ W # {} => \A r \in Resources :
                    slots[r].state = "degraded" /\ slots[r].left > 0 =>
                       u \in Nat /\ u <= slots[r].left
<1> DEFINE pending == {slots[r].left : r \in {q \in Resources : /\ slots[q].state = "degraded"
                                                                 /\ slots[q].left > 0}}
           u == Armed(slots, W, t)
<1>1. pending \in SUBSET Nat
  BY DEF Slots
<1>2. pending # {} => Earliest(pending) \in pending /\ \A e \in pending : Earliest(pending) <= e
  BY <1>1, EarliestFacts
<1>3. u = IF W = {} \/ pending = {} THEN t
          ELSE IF t # NoTimer /\ t <= Earliest(pending) THEN t ELSE Earliest(pending)
  BY DEF Armed
<1>4. \A r \in Resources :
        slots[r].state = "degraded" /\ slots[r].left > 0 => slots[r].left \in pending
  OBVIOUS
<1> HIDE DEF pending, u
<1>5. CASE W = {} \/ pending = {}
  BY <1>3, <1>4, <1>5 DEF u
<1>6. CASE W # {} /\ pending # {}
  <2>1. Earliest(pending) \in Nat /\ \A e \in pending : e \in Nat /\ Earliest(pending) <= e
    BY <1>1, <1>2, <1>6
  <2>2. u \in Nat /\ u <= Earliest(pending) /\ (t # NoTimer => u <= t)
    BY <1>3, <1>6, <2>1
  <2>3. \A e \in pending : u <= e
    BY <2>1, <2>2
  <2> QED
    BY <1>4, <2>2, <2>3 DEF u
<1> QED
  BY <1>5, <1>6

-----------------------------------------------------------------------------
(* What keeps a parked caller from sleeping on *)

\* A cooldown with waiters is watched by the timer, or is over and they know.
Watched(r) ==
    \/ timer # NoTimer /\ timer <= slot[r].left
    \/ slot[r].left = 0 /\ \A c \in Waiters : event[c]

CooldownsWatched ==
    \A r \in Resources : slot[r].state = "degraded" /\ Waiters # {} => Watched(r)

\* What is available has been announced, or the notifier is about to do so.
AvailableAnnounced ==
    \A c \in Waiters : \A r \in Matches[c] :
        ~event[c] /\ Available(slot[r]) => timer = 0

NoClientError == \A r \in Resources : slot[r].client # "error"

WakeInv == NoClientError /\ CooldownsWatched /\ AvailableAnnounced

\* What a step must not do to the waiters it does not tell.
LEMMA WakeStep ==
    ASSUME TypeOK, WakeInv, NoClientError', CooldownsWatched',
           timer = 0 => timer' = 0 \/ \A d \in Waiters' : event'[d],
           \A d \in Waiters' : \/ d \in Waiters /\ (event[d] => event'[d])
                               \/ \A r \in Matches[d] : ~Available(slot'[r]),
           \A r \in Resources : Available(slot'[r]) =>
              \/ Available(slot[r])
              \/ slot[r].state = "degraded" /\ slot[r].left = 0
              \/ \A d \in Waiters' : r \in Matches[d] => event'[d]
    PROVE  WakeInv'
<1>1. ASSUME NEW d \in Waiters', NEW r \in Matches[d], ~event'[d], Available(slot'[r])
      PROVE  timer' = 0
  <2>1. d \in Callers
    BY DEF Waiters
  <2>2. r \in Resources
    BY <2>1, ConstantsAssumption
  <2>3. d \in Waiters /\ ~event[d]
    BY <1>1
  <2>4. timer = 0
    <3>1. CASE Available(slot[r])
      BY <2>3, <3>1 DEF WakeInv, AvailableAnnounced
    <3>2. CASE slot[r].state = "degraded" /\ slot[r].left = 0
      <4>1. timer # NoTimer /\ timer <= 0
        BY <2>2, <2>3, <3>2 DEF WakeInv, CooldownsWatched, Watched
      <4> QED
        BY <4>1 DEF TypeOK
    <3> QED
      BY <1>1, <2>2, <3>1, <3>2
  <2> QED
    BY <1>1, <2>4
<1>2. AvailableAnnounced'
  BY <1>1 DEF AvailableAnnounced, Available
<1> QED
  BY <1>2 DEF WakeInv

LEMMA WakeInit == Init => WakeInv
<1> SUFFICES ASSUME Init
             PROVE  WakeInv
  OBVIOUS
<1>1. Waiters = {}
  BY DEF Init, Waiters
<1>2. NoClientError
  BY DEF Init, NoClientError, FreshSlot
<1> QED
  BY <1>1, <1>2 DEF WakeInv, CooldownsWatched, AvailableAnnounced

\* What is guaranteed is what NoLostWakeup needs.
LEMMA WakeInvSuffices == TypeOK /\ WakeInv => NoLostWakeup
<1> SUFFICES ASSUME TypeOK, WakeInv, NEW c \in Waiters, ~event[c],
                    NEW r \in Matches[c], Available(Refreshed[r])
             PROVE  timer = 0
  BY DEF NoLostWakeup, Candidates
<1>1. r \in Resources
  BY ConstantsAssumption DEF Waiters
<1>2. slot[r] \in Slots /\ Refreshed[r] = StateAt(slot[r])
  BY <1>1 DEF TypeOK, Refreshed
<1>3. CASE slot[r].state = "degraded" /\ slot[r].left = 0
  <2>1. timer # NoTimer /\ timer <= 0
    BY <1>1, <1>3 DEF WakeInv, CooldownsWatched, Watched
  <2> QED
    BY <2>1 DEF TypeOK
<1>4. CASE ~(slot[r].state = "degraded" /\ slot[r].left = 0)
  <2>1. Available(slot[r])
    BY <1>2, <1>4, StateAtEffect, StateAtFacts DEF Available
  <2> QED
    BY <2>1 DEF WakeInv, AvailableAnnounced
<1> QED
  BY <1>3, <1>4

-----------------------------------------------------------------------------
(* The steps of callers *)

\* What a refresh makes of slot r, with at most one more lease on it.
Seen(r) ==
    /\ slot'[r].state = StateAt(slot[r]).state /\ slot'[r].left = slot[r].left
    /\ slot'[r].capacity = slot[r].capacity /\ slot'[r].active >= slot[r].active
    /\ slot'[r].client \in {slot[r].client, "absent", "built"}

LEMMA RefreshSees ==
    ASSUME TypeOK, slot' = Refreshed
    PROVE  \A r \in Resources : Seen(r)
<1> SUFFICES ASSUME NEW r \in Resources
             PROVE  Seen(r)
  OBVIOUS
<1>1. slot[r] \in Slots /\ slot'[r] = StateAt(slot[r]) /\ slot[r].active \in Nat
  BY DEF TypeOK, Refreshed, Slots
<1> QED
  BY <1>1, StateAtEffect, StateAtFacts DEF Seen

\* What a refresh leaves available was so, or its cooldown was over.
LEMMA SeenFacts ==
    ASSUME TypeOK, TypeOK', WakeInv, \A r \in Resources : Seen(r)
    PROVE  /\ NoClientError'
           /\ \A r \in Resources :
                /\ slot'[r].state = "degraded" =>
                     /\ slot[r].state = "degraded" /\ slot'[r].left = slot[r].left
                     /\ slot'[r].left > 0
                /\ Available(slot'[r]) =>
                     Available(slot[r]) \/ (slot[r].state = "degraded" /\ slot[r].left = 0)
<1> SUFFICES ASSUME NEW r \in Resources
             PROVE  /\ slot'[r].client # "error"
                    /\ slot'[r].state = "degraded" =>
                         /\ slot[r].state = "degraded" /\ slot'[r].left = slot[r].left
                         /\ slot'[r].left > 0
                    /\ Available(slot'[r]) =>
                         Available(slot[r]) \/ (slot[r].state = "degraded" /\ slot[r].left = 0)
  BY DEF NoClientError
<1>1. slot[r] \in Slots /\ Seen(r) /\ slot[r].client # "error" /\ slot[r].left \in Nat
  BY DEF TypeOK, WakeInv, NoClientError, Slots
<1>2. slot[r].active \in Nat /\ slot'[r].active \in Nat /\ slot[r].capacity \in Nat
  BY DEF TypeOK, Slots
<1> QED
  BY <1>1, <1>2, StateAtEffect DEF Seen, Available

\* A caller that looks and does not park tells nobody and leaves the timer.
LEMMA LookKeeps ==
    ASSUME TypeOK, TypeOK', WakeInv, NEW c \in Callers, \A r \in Resources : Seen(r),
           UNCHANGED timer, Waiters' \subseteq Waiters,
           \A d \in Callers \ {c} : event'[d] = event[d],
           c \in Waiters' => \A r \in Matches[c] : ~Available(slot'[r])
    PROVE  WakeInv'
<1>1. ASSUME NEW r \in Resources, slot'[r].state = "degraded", Waiters' # {}
      PROVE  Watched(r)'
  <2>1. slot[r].state = "degraded" /\ slot'[r].left = slot[r].left /\ slot'[r].left > 0
    BY <1>1, SeenFacts
  <2>2. Watched(r) /\ slot[r].left # 0
    BY <1>1, <2>1 DEF WakeInv, CooldownsWatched
  <2> QED
    BY <2>1, <2>2 DEF Watched
<1>2. CooldownsWatched'
  BY <1>1 DEF CooldownsWatched
<1>3. \A d \in Waiters' : \/ d \in Waiters /\ (event[d] => event'[d])
                          \/ \A r \in Matches[d] : ~Available(slot'[r])
  BY DEF Waiters
<1> QED
  BY <1>2, <1>3, SeenFacts, WakeStep

LEMMA GiveUpWakes ==
    ASSUME TypeOK, TypeOK', WakeInv, NEW c \in Callers, GiveUp(c)
    PROVE  WakeInv'
<1>1. \A r \in Resources : Seen(r)
  BY RefreshSees DEF GiveUp
<1>2. \A d \in Callers : pc'[d] = IF d = c THEN "idle" ELSE pc[d]
  BY DEF GiveUp, Return, TypeOK
<1>3. Waiters' \subseteq Waiters /\ c \notin Waiters'
  BY <1>2 DEF Waiters
<1>4. UNCHANGED timer /\ \A d \in Callers \ {c} : event'[d] = event[d]
  BY DEF GiveUp, TypeOK
<1> QED
  BY <1>1, <1>3, <1>4, LookKeeps

LEMMA ParkWakes ==
    ASSUME TypeOK, TypeOK', WakeInv, NEW c \in Callers, NEW left, Park(c, left),
           Candidates(c, Refreshed) = {}
    PROVE  WakeInv'
<1>1. \A r \in Resources : Seen(r)
  BY RefreshSees DEF Park
<1>2. \A d \in Callers : pc'[d] = IF d = c THEN "parked" ELSE pc[d]
  BY DEF Park, TypeOK
<1>3. Waiters' = Waiters \cup {c}
  BY <1>2 DEF Waiters
<1>4. timer' = Armed(slot', Waiters', timer) /\ timer \in Nat \cup {NoTimer}
  BY <1>3 DEF Park, TypeOK
<1>5. \A d \in Callers \ {c} : event'[d] = event[d]
  BY DEF Park, TypeOK
<1>6. \A r \in Matches[c] : ~Available(slot'[r])
  BY DEF Park, Candidates
<1>7. /\ timer # NoTimer => timer' \in Nat /\ timer' <= timer
      /\ \A r \in Resources : slot'[r].state = "degraded" /\ slot'[r].left > 0 =>
            timer' \in Nat /\ timer' <= slot'[r].left
  <2>1. slot' \in [Resources -> Slots]
    BY DEF TypeOK
  <2>2. Waiters' # {}
    BY <1>3
  <2>3. PICK slots \in [Resources -> Slots] : slots = slot'
    BY <2>1
  <2>4. PICK W : W = Waiters'
    OBVIOUS
  <2>5. timer' = Armed(slots, W, timer)
    BY <1>4, <2>3, <2>4
  <2> QED
    BY <1>4, <2>2, <2>3, <2>4, <2>5, ArmedWatches
<1>8. NoTimer \notin Nat
  BY ConstantsAssumption
<1>9. CooldownsWatched'
  BY <1>1, <1>7, <1>8, SeenFacts DEF CooldownsWatched, Watched
<1>10. timer = 0 => timer' = 0
  BY <1>7, <1>8
<1>11. \A d \in Waiters' : \/ d \in Waiters /\ (event[d] => event'[d])
                           \/ \A r \in Matches[d] : ~Available(slot'[r])
  BY <1>3, <1>5, <1>6 DEF Waiters
<1> QED
  BY <1>1, <1>9, <1>10, <1>11, SeenFacts, WakeStep

\* With factories that do not fail a candidate is leased, and nobody is told.
LEMMA TakeWakes ==
    ASSUME TypeOK, TypeOK', WakeInv, Fallible = {}, NEW c \in Callers, TakeCandidate(c)
    PROVE  WakeInv'
<1> DEFINE C == Candidates(c, Refreshed)
<1>1. Refreshed \in [Resources -> Slots] /\ C \subseteq Resources
  BY RefreshedFacts, ConstantsAssumption DEF Candidates
<1>2. \A r \in Resources : ~MayFail(r, Refreshed[r])
  <2> SUFFICES ASSUME NEW r \in Resources
               PROVE  ~MayFail(r, Refreshed[r])
    OBVIOUS
  <2>1. Refreshed[r] = StateAt(slot[r]) /\ slot[r] \in Slots /\ slot[r].client # "error"
    BY DEF Refreshed, TypeOK, WakeInv, NoClientError
  <2> QED
    BY <2>1, StateAtEffect DEF MayFail
<1>3. AfterFailures(Refreshed, {}) = Refreshed
  BY <1>1 DEF AfterFailures
<1>4. C # {} /\ ~AllFail(C, Refreshed)
  BY <1>1, <1>2 DEF TakeCandidate, AllFail
<1>5. PICK o \in SelectOutcomes(C, Refreshed) :
        /\ slot' = [AfterFailures(Refreshed, o.failed) EXCEPT ![o.winner] = LeasedOut(@)]
        /\ NotifyFailures(c, Refreshed, o.failed)
  BY <1>4 DEF TakeCandidate
<1>6. o.winner \in Resources /\ o.failed = {}
  BY <1>1, <1>2, <1>5 DEF SelectOutcomes
<1>7. PICK w \in Resources : w = o.winner
  BY <1>6
<1>8. slot' = [Refreshed EXCEPT ![w] = LeasedOut(Refreshed[w])]
  BY <1>3, <1>5, <1>6, <1>7
<1>9. \A r \in Resources : Seen(r)
  <2> SUFFICES ASSUME NEW r \in Resources
               PROVE  Seen(r)
    OBVIOUS
  <2>1. slot[r] \in Slots /\ Refreshed[r] = StateAt(slot[r]) /\ StateAt(slot[r]) \in Slots
    BY StateAtFacts DEF TypeOK, Refreshed
  <2>2. slot'[r] = IF r = w THEN LeasedOut(StateAt(slot[r])) ELSE StateAt(slot[r])
    BY <1>1, <1>8, <2>1
  <2>3. PICK t \in Slots : t = StateAt(slot[r])
    BY <2>1
  <2>4. /\ LeasedOut(t).active = t.active + 1 /\ LeasedOut(t).capacity = t.capacity
        /\ LeasedOut(t).state = t.state /\ LeasedOut(t).left = t.left
        /\ LeasedOut(t).client = "built" /\ t.active \in Nat
    <3>1. t = [state |-> t.state, left |-> t.left, active |-> t.active,
               capacity |-> t.capacity, failures |-> t.failures, client |-> t.client]
      BY DEF Slots
    <3>2. t.active \in Nat
      BY DEF Slots
    <3> QED
      BY <3>1, <3>2 DEF LeasedOut
  <2>5. /\ t.state = StateAt(slot[r]).state /\ t.left = slot[r].left
        /\ t.active = slot[r].active /\ t.capacity = slot[r].capacity
        /\ t.client \in {slot[r].client, "absent"}
    BY <2>1, <2>3, StateAtFacts, StateAtEffect
  <2> QED
    BY <2>2, <2>3, <2>4, <2>5 DEF Seen
<1>10. \A d \in Callers \ {c} : event'[d] = event[d]
  BY <1>5, <1>6 DEF NotifyFailures, TypeOK
<1>11. \A d \in Callers : pc'[d] = IF d = c THEN "idle" ELSE pc[d]
  BY DEF TakeCandidate, Return, TypeOK
<1>12. Waiters' \subseteq Waiters /\ c \notin Waiters' /\ UNCHANGED timer
  BY <1>11 DEF Waiters, TakeCandidate
<1> QED
  BY <1>9, <1>10, <1>12, LookKeeps

LEMMA WaitWakes ==
    ASSUME TypeOK, TypeOK', WakeInv, NEW c \in Callers, pc[c] # "parked",
           NEW left, WaitForMore(c, left)
    PROVE  WakeInv'
<1>1. CASE GiveUp(c)
  BY <1>1, GiveUpWakes
<1>2. CASE Park(c, left)
  BY <1>2, ParkWakes DEF WaitForMore
<1>3. CASE BackOff(c, left) /\ ~GiveUp(c)
  <2>1. slot' = Refreshed /\ pc' = [pc EXCEPT ![c] = "sleeping"] /\ UNCHANGED <<event, timer>>
    BY <1>3 DEF BackOff
  <2>2. \A d \in Callers : pc'[d] = IF d = c THEN "sleeping" ELSE pc[d]
    BY <2>1 DEF TypeOK
  <2>3. Waiters' \subseteq Waiters /\ c \notin Waiters'
    BY <2>2 DEF Waiters
  <2> QED
    BY <2>1, <2>3, RefreshSees, LookKeeps
<1> QED
  BY <1>1, <1>2, <1>3 DEF WaitForMore

LEMMA CallerWakes ==
    ASSUME TypeOK, TypeOK', WakeInv, Fallible = {}, NEW c \in Callers, CallerStep(c)
    PROVE  WakeInv'
<1>1. CASE TakeCandidate(c)
  BY <1>1, TakeWakes
<1>2. CASE GiveUp(c)
  BY <1>2, GiveUpWakes
<1>3. CASE pc[c] # "parked" /\ \E left : WaitForMore(c, left)
  BY <1>3, WaitWakes
<1>4. CASE /\ Candidates(c, Refreshed) = {}
           /\ slot' = Refreshed
           /\ event' = [event EXCEPT ![c] = FALSE]
           /\ UNCHANGED <<pc, timer>>
  <2>1. Waiters' = Waiters /\ \A d \in Callers \ {c} : event'[d] = event[d]
    BY <1>4 DEF Waiters, TypeOK
  <2>2. \A r \in Matches[c] : ~Available(slot'[r])
    BY <1>4 DEF Candidates
  <2> QED
    BY <1>4, <2>1, <2>2, RefreshSees, LookKeeps
<1>5. CASE Cancel(c)
  <2>1. \A d \in Callers : pc'[d] = IF d = c THEN "idle" ELSE pc[d]
    BY <1>5 DEF Cancel, Return, TypeOK
  <2>2. Waiters' \subseteq Waiters /\ c \notin Waiters'
    BY <2>1 DEF Waiters
  <2>3. /\ UNCHANGED <<slot, timer>>
        /\ \A d \in Callers \ {c} : event'[d] = event[d]
    BY <1>5 DEF Cancel, TypeOK
  <2>4. NoClientError' /\ CooldownsWatched'
    BY <2>2, <2>3 DEF WakeInv, NoClientError, CooldownsWatched, Watched, Waiters
  <2>5. \A d \in Waiters' : d \in Waiters /\ event'[d] = event[d]
    BY <2>2, <2>3 DEF Waiters
  <2> QED
    BY <2>3, <2>4, <2>5, WakeStep
<1> QED
  BY <1>1, <1>2, <1>3, <1>4, <1>5 DEF CallerStep, Acquire, Resume, TimeOut, WakeUp

-----------------------------------------------------------------------------
(* The steps that leave every caller where it is *)

\* What a step does to slot r: it is not left degraded unless it was before or
\* everybody is told; if it becomes available, those it serves are told.
Edited(r) ==
    /\ slot'[r].client = slot[r].client
    /\ slot'[r].state = "degraded" =>
         \/ slot[r].state = "degraded" /\ slot'[r].left = slot[r].left
         \/ \A d \in Waiters : event'[d]
    /\ Available(slot'[r]) => Available(slot[r]) \/ \A d \in Serves(r) : event'[d]

LEMMA EditKeeps ==
    ASSUME TypeOK, TypeOK', WakeInv, \A r \in Resources : Edited(r),
           UNCHANGED pc, \A d \in Callers : event[d] => event'[d],
           \/ UNCHANGED timer /\ \A r \in Resources :
                slot'[r].state = "degraded" =>
                   slot[r].state = "degraded" /\ slot'[r].left = slot[r].left
           \/ timer' = Armed(slot', Waiters, timer)
    PROVE  WakeInv'
<1>1. Waiters' = Waiters
  BY DEF Waiters
<1>2. NoClientError'
  BY DEF NoClientError, Edited, WakeInv
<1>3. /\ timer # NoTimer => timer' \in Nat /\ timer' <= timer
      /\ \/ \A r \in Resources : slot'[r].state = "degraded" =>
               slot[r].state = "degraded" /\ slot'[r].left = slot[r].left
         \/ Waiters # {} => \A r \in Resources :
               slot'[r].state = "degraded" /\ slot'[r].left > 0 =>
                  timer' \in Nat /\ timer' <= slot'[r].left
  <2>1. CASE UNCHANGED timer /\ \A r \in Resources : slot'[r].state = "degraded" =>
               slot[r].state = "degraded" /\ slot'[r].left = slot[r].left
    BY <2>1 DEF TypeOK
  <2>2. CASE timer' = Armed(slot', Waiters, timer)
    <3>1. PICK slots \in [Resources -> Slots] : slots = slot'
      BY DEF TypeOK
    <3>2. timer \in Nat \cup {NoTimer} /\ timer' = Armed(slots, Waiters, timer)
      BY <2>2, <3>1 DEF TypeOK
    <3> QED
      BY <3>1, <3>2, ArmedWatches
  <2> QED
    BY <2>1, <2>2
<1>4. NoTimer \notin Nat
  BY ConstantsAssumption
<1>5. ASSUME NEW r \in Resources, slot'[r].state = "degraded", Waiters # {}
      PROVE  Watched(r)'
  <2>1. slot'[r].left \in Nat /\ timer \in Nat \cup {NoTimer}
    BY DEF TypeOK, Slots
  <2>2. ASSUME slot[r].state = "degraded", slot'[r].left = slot[r].left
        PROVE  Watched(r)'
    <3>1. Watched(r)
      BY <1>5, <2>2 DEF WakeInv, CooldownsWatched
    <3>2. CASE timer # NoTimer /\ timer <= slot[r].left
      BY <1>3, <1>4, <2>1, <2>2, <3>2 DEF Watched
    <3>3. CASE slot[r].left = 0 /\ \A c \in Waiters : event[c]
      BY <1>1, <2>2, <3>3 DEF Watched, Waiters
    <3> QED
      BY <3>1, <3>2, <3>3 DEF Watched
  <2>3. CASE slot[r].state = "degraded" /\ slot'[r].left = slot[r].left
    BY <2>2, <2>3
  <2>4. CASE ~(slot[r].state = "degraded" /\ slot'[r].left = slot[r].left)
    <3>1. \A d \in Waiters' : event'[d]
      BY <1>1, <1>5, <2>4 DEF Edited
    <3>2. CASE slot'[r].left = 0
      BY <3>1, <3>2 DEF Watched
    <3>3. CASE slot'[r].left > 0
      BY <1>3, <1>4, <1>5, <2>4, <3>3 DEF Watched
    <3> QED
      BY <2>1, <3>2, <3>3
  <2> QED
    BY <2>3, <2>4
<1>6. CooldownsWatched'
  BY <1>1, <1>5 DEF CooldownsWatched
<1>7. timer = 0 => timer' = 0
  BY <1>3, <1>4
<1>8. \A d \in Waiters' : d \in Waiters /\ (event[d] => event'[d])
  BY <1>1 DEF Waiters
<1>9. \A r \in Resources : Available(slot'[r]) =>
         Available(slot[r]) \/ \A d \in Waiters' : r \in Matches[d] => event'[d]
  BY <1>1 DEF Edited, Serves
<1> QED
  BY <1>2, <1>6, <1>7, <1>8, <1>9, WakeStep

\* A step that touches slot r only.
LEMMA OneEdited ==
    ASSUME TypeOK, NEW r \in Resources, NEW t, slot' = [slot EXCEPT ![r] = t], Edited(r)
    PROVE  /\ \A q \in Resources : Edited(q)
           /\ \A q \in Resources \ {r} : slot'[q] = slot[q]
<1>1. \A q \in Resources \ {r} : slot'[q] = slot[q]
  BY DEF TypeOK
<1> QED
  BY <1>1 DEF Edited

LEMMA Told ==
    ASSUME TypeOK, NEW W, Notify(W)
    PROVE  \A d \in Callers : (event[d] => event'[d]) /\ (d \in W => event'[d])
BY Zenon DEF TypeOK, Notify

LEMMA GivenBackEffect ==
    ASSUME NEW s \in Slots, NEW n \in Nat
    PROVE  /\ GivenBack(s, n).client = s.client
           /\ GivenBack(s, n).failures = s.failures
           /\ n = 0 => GivenBack(s, n).active = s.active
<1>1. s = [state |-> s.state, left |-> s.left, active |-> s.active,
           capacity |-> s.capacity, failures |-> s.failures, client |-> s.client]
  BY DEF Slots
<1>2. s.active \in Nat
  BY DEF Slots
<1> QED
  BY <1>1, <1>2 DEF GivenBack

LEMMA LeaseWakes ==
    ASSUME TypeOK, TypeOK', WakeInv, NEW l \in Leases, LeaseStep(l)
    PROVE  WakeInv'
<1>1. PICK r \in Resources : lease[l].slot = r
  BY DEF LeaseStep, ReleaseNow, ReportOk, ReportFailure, Degrade, Usable, TypeOK, LeaseObjects
<1>2. slot[r] \in Slots /\ UNCHANGED pc /\ Waiters \subseteq Callers /\ Serves(r) \subseteq Callers
  BY DEF TypeOK, LeaseStep, ReleaseNow, ReportOk, ReportFailure, Degrade, Waiters, Serves
<1>3. CASE ReleaseNow(l)
  <2>1. slot' = [slot EXCEPT ![r] = GivenBack(slot[r], 1)] /\ UNCHANGED timer
    BY <1>1, <1>3 DEF ReleaseNow
  <2>2. \A d \in Callers : (event[d] => event'[d]) /\ (d \in Serves(r) => event'[d])
    BY <1>1, <1>3, Told DEF ReleaseNow
  <2>3. slot'[r] = GivenBack(slot[r], 1)
    BY <2>1 DEF TypeOK
  <2>4. slot'[r].client = slot[r].client /\ slot'[r].state = slot[r].state
        /\ slot'[r].left = slot[r].left
    BY <1>2, <2>3, GivenBackFacts, GivenBackEffect
  <2>5. Edited(r)
    BY <1>2, <2>2, <2>4 DEF Edited
  <2>6. \A q \in Resources : slot'[q].state = "degraded" =>
           slot[q].state = "degraded" /\ slot'[q].left = slot[q].left
    BY <2>1, <2>4, <2>5, OneEdited
  <2> QED
    BY <1>2, <2>1, <2>2, <2>5, <2>6, OneEdited, EditKeeps
<1>4. CASE ReportOk(l)
  <2>1. slot' = [slot EXCEPT ![r] = Recovered(slot[r])] /\ UNCHANGED timer
    BY <1>1, <1>4 DEF ReportOk
  <2>2. \A d \in Callers : /\ event[d] => event'[d]
                           /\ slot[r].state # "ready" /\ d \in Serves(r) => event'[d]
    BY <1>1, <1>4, Told DEF ReportOk
  <2>3. /\ slot'[r].client = slot[r].client /\ slot'[r].state = "ready"
        /\ slot'[r].active = slot[r].active /\ slot'[r].capacity = slot[r].capacity
    BY <1>2, <2>1, EditEffect, EditFacts DEF TypeOK, Occupied
  <2>4. Edited(r)
    BY <1>2, <2>2, <2>3 DEF Edited, Available
  <2>5. \A q \in Resources : slot'[q].state = "degraded" =>
           slot[q].state = "degraded" /\ slot'[q].left = slot[q].left
    BY <2>1, <2>3, <2>4, OneEdited
  <2> QED
    BY <1>2, <2>1, <2>2, <2>4, <2>5, OneEdited, EditKeeps
<1>5. CASE ReportFailure(l)
  <2> DEFINE t == CountFailure(r, slot[r])
  <2>1. slot' = [slot EXCEPT ![r] = t]
    BY <1>1, <1>5 DEF ReportFailure
  <2>2. slot'[r] = t
    BY <2>1 DEF TypeOK
  <2>3. /\ t.client = slot[r].client
        /\ t.active = slot[r].active /\ t.capacity = slot[r].capacity
        /\ \/ t.state = "dead"
           \/ t.state = "degraded" /\ Tripped(r, slot[r])
           \/ t.state = slot[r].state /\ t.left = slot[r].left /\ ~Tripped(r, slot[r])
    BY <1>2, CountFailureEffect, CountFailureFacts
  <2>4. timer' = IF t.state = "degraded" /\ Tripped(r, slot[r])
                 THEN Armed(slot', Waiters, timer) ELSE timer
    BY <1>1, <1>5 DEF ReportFailure
  <2>5. \A d \in Callers : /\ event[d] => event'[d]
                           /\ Tripped(r, slot[r]) /\ d \in Waiters => event'[d]
    BY <1>1, <1>5, Told DEF ReportFailure
  <2> HIDE DEF t
  <2>6. Edited(r)
    BY <1>2, <2>2, <2>3, <2>5 DEF Edited, Available
  <2>7. \/ timer' = Armed(slot', Waiters, timer)
        \/ UNCHANGED timer /\ \A q \in Resources : slot'[q].state = "degraded" =>
              slot[q].state = "degraded" /\ slot'[q].left = slot[q].left
    <3>1. CASE t.state = "degraded" /\ Tripped(r, slot[r])
      BY <2>4, <3>1
    <3>2. CASE ~(t.state = "degraded" /\ Tripped(r, slot[r]))
      BY <2>1, <2>2, <2>3, <2>4, <2>6, <3>2, OneEdited
    <3> QED
      BY <3>1, <3>2
  <2> QED
    BY <1>2, <2>1, <2>5, <2>6, <2>7, OneEdited, EditKeeps
<1>6. CASE Degrade(l)
  <2>1. slot' = [slot EXCEPT ![r] = Degraded(r, slot[r])] /\ timer' = Armed(slot', Waiters, timer)
    BY <1>1, <1>6 DEF Degrade
  <2>2. \A d \in Callers : (event[d] => event'[d]) /\ (d \in Waiters => event'[d])
    BY <1>6, Told DEF Degrade
  <2>3. slot'[r].client = slot[r].client /\ slot'[r].state = "degraded"
    BY <1>2, <2>1, EditEffect DEF TypeOK
  <2>4. Edited(r)
    BY <1>2, <2>2, <2>3 DEF Edited, Available
  <2> QED
    BY <1>2, <2>1, <2>2, <2>4, OneEdited, EditKeeps
<1> QED
  BY <1>3, <1>4, <1>5, <1>6 DEF LeaseStep

LEMMA MembershipWakes ==
    ASSUME TypeOK, TypeOK', WakeInv, NEW r \in Resources,
           Revoke(r) \/ \E n \in Capacities : Publish(r, n)
    PROVE  WakeInv'
<1>1. /\ UNCHANGED <<pc, timer>> /\ Notify(Waiters)
      /\ \E t \in {Withdrawn(slot[r])} \cup {Republished(slot[r], n) : n \in Capacities} :
            slot' = [slot EXCEPT ![r] = t]
  BY DEF Revoke, Publish
<1>2. \A d \in Callers : (event[d] => event'[d]) /\ (d \in Waiters => event'[d])
  BY <1>1, Told
<1>3. slot[r] \in Slots /\ Waiters \subseteq Callers /\ Serves(r) \subseteq Waiters
  BY DEF TypeOK, Waiters, Serves
<1>4. slot'[r].client = slot[r].client /\ slot'[r].state # "degraded"
  BY <1>1, <1>3, EditEffect DEF TypeOK
<1>5. Edited(r)
  BY <1>2, <1>3, <1>4 DEF Edited
<1>6. \A q \in Resources : slot'[q].state = "degraded" =>
         slot[q].state = "degraded" /\ slot'[q].left = slot[q].left
  BY <1>1, <1>4, <1>5, OneEdited
<1> QED
  BY <1>1, <1>2, <1>5, <1>6, OneEdited, EditKeeps

-----------------------------------------------------------------------------
(* The end of an attempt, and time *)

LEMMA EndWakes ==
    ASSUME TypeOK, TypeOK', WakeInv, NEW a \in Attempts, EndAttempt(a)
    PROVE  WakeInv'
<1>1. PICK S \in SUBSET {c \in Callers : AttemptOf[c] = a /\ pc[c] # "idle"} :
        LET gone(c) == AttemptOf[c] = a /\ c \notin S
        IN  /\ pc' = [c \in Callers |-> IF gone(c) THEN "idle" ELSE pc[c]]
            /\ event' = [c \in Callers |->
                           /\ ~gone(c)
                           /\ event[c] \/ \E r \in Resources : c \in Serves(r) /\ HeldBy(a, r) # {}]
  BY DEF EndAttempt
<1>2. Waiters' \subseteq Waiters /\ \A d \in Waiters' : ~(AttemptOf[d] = a /\ d \notin S)
  BY <1>1 DEF Waiters
<1>3. \A d \in Waiters' : event[d] => event'[d]
  BY <1>1, <1>2, Zenon DEF Waiters
<1>4. \A r \in Resources : HeldBy(a, r) # {} => \A d \in Waiters' : r \in Matches[d] => event'[d]
  <2> TAKE r \in Resources
  <2> HAVE HeldBy(a, r) # {}
  <2> TAKE d \in Waiters'
  <2> HAVE r \in Matches[d]
  <2>1. d \in Callers /\ d \in Serves(r)
    BY <1>2 DEF Waiters, Serves
  <2> QED
    BY <1>1, <1>2, <2>1, Zenon
<1>5. \A r \in Resources :
        /\ slot'[r].client = slot[r].client
        /\ slot'[r].state = slot[r].state /\ slot'[r].left = slot[r].left
        /\ slot'[r].capacity = slot[r].capacity
        /\ HeldBy(a, r) = {} => slot'[r].active = slot[r].active
  <2> TAKE r \in Resources
  <2>1. slot'[r] = GivenBack(slot[r], Cardinality(HeldBy(a, r))) /\ slot[r] \in Slots
    BY DEF EndAttempt, TypeOK
  <2>2. Cardinality(HeldBy(a, r)) \in Nat
    <3>1. HeldBy(a, r) \in SUBSET Leases
      BY DEF HeldBy, TypeOK
    <3> QED
      BY <3>1, ConstantsAssumption, FS_Subset, FS_CardinalityType
  <2>3. HeldBy(a, r) = {} => Cardinality(HeldBy(a, r)) = 0
    BY FS_EmptySet
  <2> QED
    BY <2>1, <2>2, <2>3, GivenBackFacts, GivenBackEffect
<1>6. UNCHANGED timer
  BY DEF EndAttempt
<1>7. NoClientError'
  BY <1>5 DEF WakeInv, NoClientError
<1>8. CooldownsWatched'
  <2> SUFFICES ASSUME NEW r \in Resources, slot'[r].state = "degraded", Waiters' # {}
               PROVE  Watched(r)'
    BY DEF CooldownsWatched
  <2>1. Watched(r) /\ slot'[r].left = slot[r].left
    BY <1>2, <1>5 DEF WakeInv, CooldownsWatched
  <2> QED
    BY <1>2, <1>3, <1>6, <2>1 DEF Watched
<1>9. \A r \in Resources : Available(slot'[r]) =>
         Available(slot[r]) \/ \A d \in Waiters' : r \in Matches[d] => event'[d]
  BY <1>4, <1>5 DEF Available
<1> QED
  BY <1>2, <1>3, <1>6, <1>7, <1>8, <1>9, WakeStep

LEMMA CooldownWakes ==
    ASSUME TypeOK, TypeOK', WakeInv, CooldownOver
    PROVE  WakeInv'
<1>1. /\ UNCHANGED <<slot, pc>> /\ timer' = Armed(slot, Waiters, NoTimer)
      /\ Waiters' = Waiters /\ Waiters \subseteq Callers
  BY DEF CooldownOver, Waiters
<1>2. \A d \in Waiters' : event'[d]
  BY <1>1, Told DEF CooldownOver
<1>3. Waiters # {} => \A r \in Resources :
        slot[r].state = "degraded" /\ slot[r].left > 0 => timer' \in Nat /\ timer' <= slot[r].left
  <2>1. slot \in [Resources -> Slots] /\ NoTimer \in Nat \cup {NoTimer}
    BY DEF TypeOK
  <2> QED
    BY <1>1, <2>1, ArmedWatches
<1>4. CooldownsWatched'
  <2> SUFFICES ASSUME NEW r \in Resources, slot[r].state = "degraded", Waiters # {}
               PROVE  Watched(r)'
    BY <1>1 DEF CooldownsWatched
  <2>1. slot[r].left \in Nat /\ NoTimer \notin Nat
    BY ConstantsAssumption DEF TypeOK, Slots
  <2>2. CASE slot[r].left = 0
    BY <1>1, <1>2, <2>2 DEF Watched
  <2>3. CASE slot[r].left > 0
    BY <1>1, <1>3, <2>1, <2>3 DEF Watched
  <2> QED
    BY <2>1, <2>2, <2>3
<1>5. NoClientError' /\ \A d \in Waiters' : d \in Waiters /\ (event[d] => event'[d])
  BY <1>1, <1>2 DEF WakeInv, NoClientError
<1> QED
  BY <1>1, <1>2, <1>4, <1>5, WakeStep

LEMMA TickWakes ==
    ASSUME TypeOK, TypeOK', WakeInv, Tick
    PROVE  WakeInv'
<1>1. /\ UNCHANGED <<pc, event>> /\ Waiters' = Waiters
      /\ timer' = IF timer = NoTimer THEN NoTimer ELSE Less(timer)
      /\ timer \in Nat \cup {NoTimer} /\ NoTimer \notin Nat
  BY ConstantsAssumption DEF Tick, Waiters, TypeOK
<1>2. \A m, n \in Nat : Less(m) \in Nat /\ (m <= n => Less(m) <= Less(n))
  BY DEF Less
<1>3. Less(0) = 0
  BY DEF Less
<1>4. \A r \in Resources :
        /\ slot'[r].client = slot[r].client /\ slot'[r].state = slot[r].state
        /\ slot'[r].left = Less(slot[r].left) /\ slot[r].left \in Nat
        /\ slot'[r].active = slot[r].active /\ slot'[r].capacity = slot[r].capacity
  <2> TAKE r \in Resources
  <2>1. slot[r] \in Slots /\ slot'[r] = Aged(slot[r]) /\ slot[r].left \in Nat
    BY DEF TypeOK, Tick, Slots
  <2>2. Occupied(Aged(slot[r]), slot[r])
    BY <2>1, EditFacts
  <2>3. /\ Aged(slot[r]).client = slot[r].client /\ Aged(slot[r]).state = slot[r].state
        /\ Aged(slot[r]).left = Less(slot[r].left)
    BY <2>1, EditEffect
  <2> QED
    BY <2>1, <2>2, <2>3 DEF Occupied
<1>5. NoClientError'
  BY <1>4 DEF WakeInv, NoClientError
<1>6. CooldownsWatched'
  <2> SUFFICES ASSUME NEW r \in Resources, slot[r].state = "degraded", Waiters # {}
               PROVE  Watched(r)'
    BY <1>1, <1>4 DEF CooldownsWatched
  <2>1. Watched(r)
    BY DEF WakeInv, CooldownsWatched
  <2>2. CASE timer # NoTimer /\ timer <= slot[r].left
    BY <1>1, <1>2, <1>4, <2>2 DEF Watched
  <2>3. CASE slot[r].left = 0 /\ \A c \in Waiters : event[c]
    BY <1>1, <1>3, <1>4, <2>3 DEF Watched
  <2> QED
    BY <2>1, <2>2, <2>3 DEF Watched
<1>7. timer = 0 => timer' = 0
  BY <1>1, <1>3
<1>8. \A r \in Resources : Available(slot'[r]) => Available(slot[r])
  BY <1>4 DEF Available
<1>9. \A d \in Waiters' : d \in Waiters /\ (event[d] => event'[d])
  BY <1>1
<1> QED
  BY <1>5, <1>6, <1>7, <1>8, <1>9, WakeStep

LEMMA StepWakes ==
    ASSUME TypeOK, TypeOK', WakeInv, Fallible = {}, [Next]_vars
    PROVE  WakeInv'
<1>1. CASE \E a \in Attempts : BeginAttempt(a)
  BY <1>1 DEF BeginAttempt, WakeInv, NoClientError, CooldownsWatched, Watched,
              AvailableAnnounced, Waiters
<1>2. CASE Observe
  <2>1. /\ slot' = Refreshed /\ UNCHANGED <<pc, event, timer>>
        /\ Waiters' = Waiters
    BY <1>2 DEF Observe, Waiters
  <2>2. \A r \in Resources : Seen(r)
    BY <2>1, RefreshSees
  <2>5. CooldownsWatched'
    <3> SUFFICES ASSUME NEW r \in Resources, slot'[r].state = "degraded", Waiters' # {}
                 PROVE  Watched(r)'
      BY DEF CooldownsWatched
    <3>1. /\ slot[r].state = "degraded" /\ slot'[r].left = slot[r].left
      BY <2>2, SeenFacts
    <3>2. Watched(r)
      BY <2>1, <3>1 DEF WakeInv, CooldownsWatched
    <3> QED
      BY <2>1, <3>1, <3>2 DEF Watched
  <2> QED
    BY <2>1, <2>2, <2>5, SeenFacts, WakeStep
<1>3. CASE UNCHANGED vars
  BY <1>3 DEF vars, WakeInv, NoClientError, CooldownsWatched, Watched, AvailableAnnounced, Waiters
<1> QED
  BY <1>1, <1>2, <1>3, CallerWakes, LeaseWakes, MembershipWakes, EndWakes, CooldownWakes,
     TickWakes DEF Next

\* No wakeup is lost (resource.py, _notify, wait_slot, _ensure_cooldown_notifier): a
\* caller parked without a pending event has no candidate, unless the notifier is
\* about to broadcast. A factory that fails cools its resource down without
\* arming the notifier, and is excluded.
THEOREM NoWakeupLost ==
    ASSUME Fallible = {}
    PROVE  Spec => []NoLostWakeup
<1>1. TypeOK /\ TypeOK' /\ WakeInv /\ [Next]_vars => WakeInv'
  BY StepWakes
<1> QED
  BY <1>1, WakeInit, WakeInvSuffices, TypeCorrect, PTL DEF Spec

-----------------------------------------------------------------------------
(* What the circuit breaker remembers *)

\* No slot forgets a failure.
Remembers == \A r \in Resources : slot'[r].failures >= slot[r].failures

LEMMA OneRemembers ==
    ASSUME TypeOK, NEW r \in Resources, NEW t, t.failures >= slot[r].failures,
           slot' = [slot EXCEPT ![r] = t]
    PROVE  Remembers
<1>1. \A q \in Resources : slot[q].failures \in Nat
  BY DEF TypeOK, Slots
<1> QED
  BY <1>1 DEF TypeOK, Remembers

LEMMA RefreshRemembers ==
    ASSUME TypeOK
    PROVE  \A r \in Resources : Refreshed[r].failures = slot[r].failures
BY StateAtEffect DEF TypeOK, Refreshed

LEMMA TakeRemembers ==
    ASSUME TypeOK, NEW c \in Callers, TakeCandidate(c)
    PROVE  Remembers
<1>1. PICK F, W : \/ slot' = AfterFailures(Refreshed, F)
                  \/ slot' = [AfterFailures(Refreshed, F) EXCEPT ![W] = LeasedOut(@)]
  BY DEF TakeCandidate
<1> DEFINE slots == AfterFailures(Refreshed, F)
<1>2. slots \in [Resources -> Slots]
  BY RefreshedFacts, AfterFailuresFacts
<1>3. ASSUME NEW r \in Resources
      PROVE  slots[r].failures >= slot[r].failures
  <2>1. Refreshed[r] \in Slots /\ Refreshed[r].failures = slot[r].failures
    BY RefreshedFacts, RefreshRemembers
  <2>2. PICK s \in Slots : s = Refreshed[r]
    BY <2>1
  <2>3. /\ [s EXCEPT !.client = "error"] \in Slots
        /\ [s EXCEPT !.client = "error"].failures = s.failures
    <3>1. s = [state |-> s.state, left |-> s.left, active |-> s.active,
               capacity |-> s.capacity, failures |-> s.failures, client |-> s.client]
      BY DEF Slots
    <3> QED
      BY <3>1 DEF Slots
  <2>4. CountFailure(r, [s EXCEPT !.client = "error"]).failures >= s.failures
    BY <2>3, CountFailureEffect
  <2>5. slots[r] = IF r \in F THEN CountFailure(r, [s EXCEPT !.client = "error"]) ELSE s
    BY <2>2 DEF AfterFailures
  <2>6. s.failures \in Nat
    BY DEF Slots
  <2> QED
    BY <2>1, <2>2, <2>4, <2>5, <2>6
<1> HIDE DEF slots
<1>4. slot' = slots \/ slot' = [slots EXCEPT ![W] = LeasedOut(slots[W])]
  BY <1>1 DEF slots
<1>5. ASSUME NEW s \in Slots
      PROVE  LeasedOut(s).failures = s.failures
  <2>1. s = [state |-> s.state, left |-> s.left, active |-> s.active,
             capacity |-> s.capacity, failures |-> s.failures, client |-> s.client]
    BY DEF Slots
  <2> QED
    BY <2>1 DEF LeasedOut
<1>6. \A r \in Resources : slot'[r].failures = slots[r].failures
  BY <1>2, <1>4, <1>5
<1> QED
  BY <1>3, <1>6 DEF Remembers

LEMMA StepRemembers ==
    ASSUME TypeOK, Next
    PROVE  \/ Remembers
           \/ \E l \in Leases : /\ ReportOk(l) /\ lease[l] # NoLease
                                /\ \A r \in Resources : lease[l].slot # r =>
                                     slot'[r].failures >= slot[r].failures
<1>1. \A r \in Resources : slot[r] \in Slots /\ slot[r].failures \in Nat
  BY DEF TypeOK, Slots
<1>2. ASSUME UNCHANGED slot
      PROVE  Remembers
  BY <1>1, <1>2 DEF Remembers
<1>3. ASSUME slot' = Refreshed
      PROVE  Remembers
  BY <1>1, <1>3, RefreshRemembers DEF Remembers
<1>4. ASSUME NEW c \in Callers, CallerStep(c)
      PROVE  Remembers
  <2>1. CASE TakeCandidate(c)
    BY <2>1, TakeRemembers
  <2>2. slot' \in {slot, Refreshed} \/ TakeCandidate(c)
    BY <1>4 DEF CallerStep, Acquire, Resume, TimeOut, WakeUp, Cancel, WaitForMore, GiveUp,
                Park, BackOff
  <2> QED
    BY <1>2, <1>3, <2>1, <2>2
<1>5. ASSUME NEW l \in Leases, LeaseStep(l)
      PROVE  \/ Remembers
             \/ /\ ReportOk(l) /\ lease[l] # NoLease
                /\ \A r \in Resources : lease[l].slot # r =>
                     slot'[r].failures >= slot[r].failures
  <2>1. PICK r \in Resources : lease[l].slot = r
    BY <1>5 DEF LeaseStep, ReleaseNow, ReportOk, ReportFailure, Degrade, Usable, TypeOK, LeaseObjects
  <2>2. slot[r] \in Slots
    BY <1>1
  <2>3. CASE ReleaseNow(l)
    <3>1. GivenBack(slot[r], 1).failures >= slot[r].failures
      BY <1>1, <2>2, GivenBackEffect
    <3> QED
      BY <2>1, <2>3, <3>1, OneRemembers DEF ReleaseNow
  <2>4. CASE ReportOk(l)
    <3>1. slot' = [slot EXCEPT ![r] = Recovered(slot[r])] /\ lease[l] # NoLease
      BY <2>1, <2>4 DEF ReportOk, Usable
    <3>2. \A q \in Resources : q # r => slot'[q] = slot[q]
      BY <3>1 DEF TypeOK
    <3> QED
      BY <1>1, <2>1, <2>4, <3>1, <3>2
  <2>5. CASE ReportFailure(l)
    <3>1. CountFailure(r, slot[r]).failures >= slot[r].failures
      BY <2>2, CountFailureEffect
    <3> QED
      BY <2>1, <2>5, <3>1, OneRemembers DEF ReportFailure
  <2>6. CASE Degrade(l)
    <3>1. Degraded(r, slot[r]).failures >= slot[r].failures
      BY <1>1, <2>2, EditEffect
    <3> QED
      BY <2>1, <2>6, <3>1, OneRemembers DEF Degrade
  <2> QED
    BY <1>5, <2>3, <2>4, <2>5, <2>6 DEF LeaseStep
<1>6. ASSUME NEW a \in Attempts, EndAttempt(a)
      PROVE  Remembers
  <2> SUFFICES ASSUME NEW r \in Resources
               PROVE  slot'[r].failures >= slot[r].failures
    BY DEF Remembers
  <2>1. HeldBy(a, r) \in SUBSET Leases
    BY DEF HeldBy, TypeOK
  <2>2. Cardinality(HeldBy(a, r)) \in Nat
    BY <2>1, ConstantsAssumption, FS_Subset, FS_CardinalityType
  <2>3. slot'[r] = GivenBack(slot[r], Cardinality(HeldBy(a, r)))
    BY <1>6 DEF EndAttempt
  <2> QED
    BY <1>1, <2>2, <2>3, GivenBackEffect
<1>7. ASSUME NEW r \in Resources, Revoke(r) \/ \E n \in Capacities : Publish(r, n)
      PROVE  Remembers
  <2>1. PICK t \in {Withdrawn(slot[r])} \cup {Republished(slot[r], n) : n \in Capacities} :
           slot' = [slot EXCEPT ![r] = t]
    BY <1>7 DEF Revoke, Publish
  <2>2. t.failures = slot[r].failures
    BY <1>1, EditEffect
  <2>3. t.failures >= slot[r].failures
    BY <1>1, <2>2
  <2> QED
    BY <2>1, <2>3, OneRemembers
<1>8. ASSUME Tick
      PROVE  Remembers
  <2>1. \A r \in Resources : slot'[r] = Aged(slot[r])
    BY <1>8 DEF Tick
  <2> QED
    BY <1>1, <2>1, EditEffect DEF Remembers
<1>9. CASE Observe \/ CooldownOver \/ \E a \in Attempts : BeginAttempt(a)
  BY <1>2, <1>3, <1>9 DEF Observe, CooldownOver, BeginAttempt
<1> QED
  BY <1>4, <1>5, <1>6, <1>7, <1>8, <1>9 DEF Next

\* Consecutive failures are forgotten by a reported success and by nothing else
\* (_Slot, _report, _factory_failure, add, state_at).
THEOREM FailuresRemembered == Spec => FailuresOnlyForgivenBySuccess
<1>1. TypeOK /\ TypeOK' /\ [Next]_vars =>
        [\A r \in Resources :
            slot'[r].failures < slot[r].failures =>
                \E l \in Leases : lease[l] # NoLease /\ lease[l].slot = r /\ ReportOk(l)]_vars
  <2> SUFFICES ASSUME TypeOK, TypeOK', Next, NEW r \in Resources,
                      slot'[r].failures < slot[r].failures
               PROVE  \E l \in Leases : lease[l] # NoLease /\ lease[l].slot = r /\ ReportOk(l)
    OBVIOUS
  <2>1. slot[r].failures \in Nat /\ slot'[r].failures \in Nat
    BY DEF TypeOK, Slots
  <2>2. ~(slot'[r].failures >= slot[r].failures)
    BY <2>1
  <2> QED
    BY <2>2, StepRemembers DEF Remembers
<1> QED
  BY <1>1, TypeCorrect, PTL DEF Spec, FailuresOnlyForgivenBySuccess

=============================================================================
