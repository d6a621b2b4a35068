-------------------------------- MODULE Pool --------------------------------
(***************************************************************************)
(* The resource pool of pyattacker (src/pyattacker/resource.py), the Wait, *)
(* Immediate and Backoff ways of waiting for it (algorithm.py), and the    *)
(* lease tracking of a task attempt (task.py: TaskContext, _LeaseGuard).   *)
(*                                                                         *)
(* Everything runs on one event loop, so an action is a stretch of code    *)
(* between two awaits: a call to try_acquire, the wake-up of one parked    *)
(* caller, a release, the expiry of the cooldown timer, the end of an      *)
(* attempt.                                                                *)
(*                                                                         *)
(* Abstractions.                                                           *)
(*  - Time is kept as what is left of each deadline: blocked_until - now   *)
(*    is slot[r].left, floored at 0, the cooldown timer is the time left   *)
(*    until it fires and a caller's patience the time left until its       *)
(*    timeout. Tick lets one unit pass; nothing here is an absolute time,  *)
(*    so the state space is finite without a bound on the clock.           *)
(*  - consecutive_failures saturates at DeadAfter[r], the largest value    *)
(*    the code compares it with (always with >=).                          *)
(*  - slot.client and slot.client_error are one field, client: "absent"    *)
(*    (no client, no error), "error" (no client, a stored error), "built"  *)
(*    (a client, or a resource that needs none).                           *)
(*  - A selector and its where-filter are the set of resources they match. *)
(*  - Statistics nothing branches on, and events, are left out.            *)
(***************************************************************************)
EXTENDS Integers, FiniteSets

CONSTANTS
    Resources,      \* resource ids
    Attempts,       \* task attempts; each owns a TaskContext
    Callers,        \* coroutines that acquire: a task, or a child it gathers
    AttemptOf,      \* the attempt whose context a caller uses
    Matches,        \* the resources that a caller's selector matches
    Algorithm,      \* how a caller waits: "wait", "immediate" or "backoff"
    Timeouts,       \* a caller's acquire timeout, or Never
    Leases,         \* identities of Lease objects
    InitialCapacity,\* capacity of the resources the pool is created with
    Capacities,     \* capacities a published resource may have
    Published,      \* resources the pool is created with
    Publishable,    \* resources that some task publishes while running
    Revocable,      \* resources that some task revokes while running
    Factories,      \* resources with a client factory
    Fallible,       \* ... whose factory may raise
    DegradeAfter, DeadAfter, Cooldown,   \* per resource
    MaxDelay,       \* longest backoff sleep
    Stragglers,     \* may a child coroutine outlive its attempt?
    Never, NoTimer, NoLease

ASSUME ConstantsAssumption ==
    /\ AttemptOf \in [Callers -> Attempts]
    /\ Matches \in [Callers -> SUBSET Resources]
    /\ Algorithm \in [Callers -> {"wait", "immediate", "backoff"}]
    /\ Never \notin Nat /\ NoTimer \notin Nat
    /\ Timeouts \in [Callers -> Nat \cup {Never}]
    /\ InitialCapacity \in [Resources -> Nat \ {0}]
    /\ Capacities \subseteq Nat \ {0}
    /\ Published \subseteq Resources
    /\ Publishable \subseteq Resources /\ Revocable \subseteq Resources
    /\ Fallible \subseteq Factories /\ Factories \subseteq Resources
    /\ DegradeAfter \in [Resources -> Nat \ {0}]
    /\ DeadAfter \in [Resources -> Nat \ {0}]
    /\ Cooldown \in [Resources -> Nat]
    /\ MaxDelay \in Nat
    /\ Stragglers \in BOOLEAN
    /\ IsFiniteSet(Leases)
    /\ NoLease \notin [slot : Resources, owner : Attempts, held : BOOLEAN]
    /\ NoLease \notin Resources

VARIABLES
    slot,     \* resource -> _Slot
    lease,    \* lease identity -> Lease object, or NoLease
    tracked,  \* attempt -> TaskContext._leases
    running,  \* the attempts that have not ended
    pc,       \* caller -> "idle", "parked" (in wait_slot) or "sleeping" (Backoff)
    event,    \* caller -> its _Waiter.event
    budget,   \* caller -> time left until its acquire times out, or Never
    nap,      \* caller -> time left of its backoff sleep
    timer     \* time left of the armed cooldown notifier, or NoTimer

vars == <<slot, lease, tracked, running, pc, event, budget, nap, timer>>

SlotStates == {"unpublished", "ready", "degraded", "dead", "revoked"}

Slots == [state : SlotStates, left : Nat, active : Nat, capacity : Nat \ {0},
          failures : Nat, client : {"absent", "error", "built"}]

LeaseObjects == [slot : Resources, owner : Attempts, held : BOOLEAN]

-----------------------------------------------------------------------------
(* Slots *)

FreshSlot(r, state, capacity) ==
    [state |-> state, left |-> 0, active |-> 0, capacity |-> capacity, failures |-> 0,
     client |-> IF r \in Factories THEN "absent" ELSE "built"]

\* Mutation of StateAt: the end of a cooldown forgets the failures.
ForgivingStateAt(s) ==
    IF s.state = "degraded" /\ s.left = 0
    THEN [s EXCEPT !.state = "ready", !.failures = 0,
                   !.client = IF s.client = "error" THEN "absent" ELSE s.client]
    ELSE s

\* _Slot.state_at: an expired cooldown is noticed when somebody looks.
StateAt(s) ==
    IF s.state = "degraded" /\ s.left = 0
    THEN [s EXCEPT !.state = "ready",
                   !.client = IF s.client = "error" THEN "absent" ELSE s.client]
    ELSE s

\* What _candidates leaves behind: it calls state_at on every slot it walks over.
Refreshed == [r \in Resources |-> StateAt(slot[r])]

\* Mutation of Available: one lease too many.
OverAvailable(s) == s.state = "ready" /\ s.active <= s.capacity

\* _Slot.available
Available(s) == s.state = "ready" /\ s.active < s.capacity

\* Mutation of Candidates: the state of the slot is not looked at.
StatelessCandidates(c, slots) == {r \in Matches[c] : slots[r].active < slots[r].capacity}

\* _candidates(only_available=True) for the selector of caller c
Candidates(c, slots) == {r \in Matches[c] : Available(slots[r])}

\* _report(ok=True), _degrade, revoke, add, and the passing of time, on one slot
Recovered(s)      == [s EXCEPT !.failures = 0, !.state = "ready", !.left = 0]
Degraded(r, s)    == [s EXCEPT !.state = "degraded", !.left = Cooldown[r]]
Withdrawn(s)      == [s EXCEPT !.state = "revoked", !.left = 0]
Republished(s, n) == [s EXCEPT !.state = "ready", !.left = 0, !.capacity = n]

Less(t) == IF t > 0 THEN t - 1 ELSE 0
Aged(s) == [s EXCEPT !.left = Less(s.left)]

\* The circuit breaker that _report(ok=False) and _factory_failure share.
CountFailure(r, s) ==
    LET n == IF s.failures < DeadAfter[r] THEN s.failures + 1 ELSE s.failures
    IN  IF n >= DeadAfter[r]
        THEN [s EXCEPT !.failures = n, !.state = "dead", !.left = 0]
        ELSE IF n >= DegradeAfter[r]
        THEN [Degraded(r, s) EXCEPT !.failures = n]
        ELSE [s EXCEPT !.failures = n]

\* Did the breaker broadcast? It does on every degrade and on becoming dead.
Tripped(r, s) ==
    LET t == CountFailure(r, s)
    IN  \/ t.state = "dead" /\ s.state # "dead"
        \/ t.failures < DeadAfter[r] /\ t.failures >= DegradeAfter[r]

-----------------------------------------------------------------------------
(* Waking callers up *)

Waiters == {c \in Callers : pc[c] = "parked"}

\* Mutation of Serves: a waiter is found by the one resource it asked for.
ServesById(r) == {c \in Waiters : Matches[c] = {r}}

\* _notify(slot): only the waiters that resource could serve. _notify(): everybody.
Serves(r) == {c \in Waiters : r \in Matches[c]}

Notify(W) == event' = [c \in Callers |-> event[c] \/ c \in W]

Earliest(S) == CHOOSE d \in S : \A e \in S : d <= e

\* _ensure_cooldown_notifier: the timer it leaves armed, given the waiters W.
Armed(slots, W, armed) ==
    LET pending == {slots[r].left : r \in {q \in Resources : /\ slots[q].state = "degraded"
                                                             /\ slots[q].left > 0}}
    IN  IF W = {} \/ pending = {} THEN armed
        ELSE IF armed # NoTimer /\ armed <= Earliest(pending) THEN armed
        ELSE Earliest(pending)

-----------------------------------------------------------------------------
(* Pool.select: the single allocation point *)

\* Client construction for resource r in _lease; a stored error is never retried.
MayFail(r, s)  == s.client = "error" \/ (s.client = "absent" /\ r \in Fallible)
MayBuild(s)    == s.client # "error"

\* _lease when it succeeds
LeasedOut(s) == [s EXCEPT !.active = @ + 1, !.client = "built"]

\* active / capacity, compared without dividing
NoBusier(a, b) == a.active * b.capacity <= b.active * a.capacity

\* The ways the loop of select can go on candidates C: it tries the least busy
\* resource, drops it when its factory fails, and stops at the first that works.
SelectOutcomes(C, slots) ==
    {o \in [failed : SUBSET C, winner : C] :
        /\ o.winner \notin o.failed
        /\ \A f \in o.failed : MayFail(f, slots[f]) /\ NoBusier(slots[f], slots[o.winner])
        /\ MayBuild(slots[o.winner])
        /\ \A r \in C \ o.failed : NoBusier(slots[o.winner], slots[r])}

AllFail(C, slots) == \A r \in C : MayFail(r, slots[r])

\* Mutation of AfterFailures: a failing factory keeps the place it was counted in.
LeakyAfterFailures(slots, F) ==
    [r \in Resources |-> IF r \in F
                         THEN [CountFailure(r, [slots[r] EXCEPT !.client = "error"])
                                 EXCEPT !.active = @ + 1]
                         ELSE slots[r]]

\* _factory_failure for every resource in F
AfterFailures(slots, F) ==
    [r \in Resources |-> IF r \in F
                         THEN CountFailure(r, [slots[r] EXCEPT !.client = "error"])
                         ELSE slots[r]]

\* Others than c are woken when one of the failures in F trips a breaker.
NotifyFailures(c, slots, F) ==
    event' = [d \in Callers |->
                /\ d # c
                /\ event[d] \/ (d \in Waiters /\ \E r \in F : Tripped(r, slots[r]))]

\* Mutations of Track and Untrack: the context is not told.
TrackNothing(a, l)   == tracked
UntrackNothing(a, l) == tracked

\* TaskContext._leases.append and _untrack
Track(a, l)   == [tracked EXCEPT ![a] = @ \cup {l}]
Untrack(a, l) == [tracked EXCEPT ![a] = @ \ {l}]

\* The caller is back in its task's code, with a lease or with an exception.
Return(c) ==
    /\ pc' = [pc EXCEPT ![c] = "idle"]
    /\ budget' = [budget EXCEPT ![c] = Never]
    /\ nap' = [nap EXCEPT ![c] = 0]

\* A try_acquire that finds candidates: it leases one of them or raises
\* ResourceUnavailable because every factory failed.
TakeCandidate(c) ==
    LET C == Candidates(c, Refreshed)
    IN  /\ C # {}
        /\ \/ \E o \in SelectOutcomes(C, Refreshed), l \in Leases :
                /\ lease[l] = NoLease
                /\ lease' = [lease EXCEPT ![l] = [slot |-> o.winner, owner |-> AttemptOf[c],
                                                  held |-> TRUE]]
                /\ tracked' = Track(AttemptOf[c], l)
                /\ slot' = [AfterFailures(Refreshed, o.failed) EXCEPT
                              ![o.winner] = LeasedOut(@)]
                /\ NotifyFailures(c, Refreshed, o.failed)
           \/ /\ AllFail(C, Refreshed)
              /\ slot' = AfterFailures(Refreshed, C)
              /\ NotifyFailures(c, Refreshed, C)
              /\ UNCHANGED <<lease, tracked>>
        /\ Return(c)
        /\ UNCHANGED <<running, timer>>

\* acquire raises (AcquireTimeout, ResourceUnavailable); its message reads the
\* pool's stats, which refreshes every slot.
GiveUp(c) ==
    /\ slot' = Refreshed
    /\ event' = [event EXCEPT ![c] = FALSE]
    /\ Return(c)
    /\ UNCHANGED <<lease, tracked, running, timer>>

\* Pool.wait_slot up to its await, when no candidate is available.
Park(c, left) ==
    /\ slot' = Refreshed
    /\ pc' = [pc EXCEPT ![c] = "parked"]
    /\ event' = [event EXCEPT ![c] = FALSE]
    /\ budget' = [budget EXCEPT ![c] = left]
    /\ nap' = [nap EXCEPT ![c] = 0]
    /\ timer' = Armed(Refreshed, Waiters \cup {c}, timer)
    /\ UNCHANGED <<lease, tracked, running>>

\* Backoff.acquire up to its sleep
BackOff(c, left) ==
    \E d \in 0 .. MaxDelay :
        IF left # Never /\ d >= left
        THEN GiveUp(c)
        ELSE /\ slot' = Refreshed
             /\ pc' = [pc EXCEPT ![c] = "sleeping"]
             /\ nap' = [nap EXCEPT ![c] = d]
             /\ budget' = [budget EXCEPT ![c] = left]
             /\ UNCHANGED <<lease, tracked, running, event, timer>>

\* What the algorithms do when try_acquire returns None.
WaitForMore(c, left) ==
    /\ Candidates(c, Refreshed) = {}
    /\ \/ Algorithm[c] = "immediate" /\ GiveUp(c)
       \/ Algorithm[c] = "wait" /\ left = 0 /\ GiveUp(c)
       \/ Algorithm[c] = "wait" /\ left # 0 /\ Park(c, left)
       \/ Algorithm[c] = "backoff" /\ BackOff(c, left)
-----------------------------------------------------------------------------
(* Actions of a caller *)

\* Bound: a caller starts an acquire only if a Lease identity is left for it.
IdentityLeft ==
    Cardinality({l \in Leases : lease[l] = NoLease}) > Cardinality({c \in Callers : pc[c] # "idle"})

\* TaskContext.acquire_lease -> Pool.acquire -> algorithm.acquire, to its first await
Acquire(c) ==
    /\ pc[c] = "idle" /\ (AttemptOf[c] \in running \/ Stragglers)
    /\ IdentityLeft
    /\ TakeCandidate(c) \/ WaitForMore(c, Timeouts[c])

\* The event of a parked caller is set: wait_slot looks again.
Resume(c) ==
    /\ pc[c] = "parked" /\ event[c]
    /\ \/ TakeCandidate(c)
       \/ Candidates(c, Refreshed) = {} /\ budget[c] = 0 /\ GiveUp(c)
       \/ /\ Candidates(c, Refreshed) = {} /\ budget[c] # 0
          /\ slot' = Refreshed
          /\ event' = [event EXCEPT ![c] = FALSE]
          /\ UNCHANGED <<lease, tracked, running, pc, budget, nap, timer>>

\* asyncio.wait_for(event.wait(), remaining) times out.
TimeOut(c) == pc[c] = "parked" /\ budget[c] = 0 /\ GiveUp(c)

\* Mutation of WakeUp: every sleep starts the timeout afresh.
WakeUpAfresh(c) ==
    /\ pc[c] = "sleeping" /\ nap[c] = 0
    /\ TakeCandidate(c) \/ WaitForMore(c, Timeouts[c])

\* A backoff sleep is over: Backoff.acquire tries again.
WakeUp(c) ==
    /\ pc[c] = "sleeping" /\ nap[c] = 0
    /\ TakeCandidate(c) \/ WaitForMore(c, budget[c])

\* The caller is cancelled where it waits, by a timeout or a gather of the task's
\* own: the finally of wait_slot removes its waiter, and nothing else happens.
Cancel(c) ==
    /\ pc[c] # "idle"
    /\ event' = [event EXCEPT ![c] = FALSE]
    /\ Return(c)
    /\ UNCHANGED <<slot, lease, tracked, running, timer>>

\* _release of n leases on one slot: the count never goes below 0.
GivenBack(s, n) == [s EXCEPT !.active = IF s.active > n THEN s.active - n ELSE 0]

\* The code of an attempt may use a lease object it got, returned or not.
Usable(l) == lease[l] # NoLease /\ (lease[l].owner \in running \/ Stragglers)

Returned(o) == [slot |-> o.slot, owner |-> o.owner, held |-> FALSE]

\* Lease.release_now: a no-op unless the lease is held
ReleaseNow(l) ==
    /\ Usable(l) /\ lease[l].held
    /\ LET r == lease[l].slot
       IN  /\ slot' = [slot EXCEPT ![r] = GivenBack(@, 1)]
           /\ Notify(Serves(r))
    /\ lease' = [lease EXCEPT ![l] = Returned(@)]
    /\ tracked' = Untrack(lease[l].owner, l)
    /\ UNCHANGED <<running, pc, budget, nap, timer>>

\* Lease.report(ok=True), whatever state the slot is in
ReportOk(l) ==
    /\ Usable(l)
    /\ LET r == lease[l].slot
       IN  /\ slot' = [slot EXCEPT ![r] = Recovered(@)]
           /\ Notify(IF slot[r].state = "ready" THEN {} ELSE Serves(r))
    /\ UNCHANGED <<lease, tracked, running, pc, budget, nap, timer>>

\* Lease.report(ok=False)
ReportFailure(l) ==
    /\ Usable(l)
    /\ LET r == lease[l].slot
           degraded == CountFailure(r, slot[r]).state = "degraded" /\ Tripped(r, slot[r])
       IN  /\ slot' = [slot EXCEPT ![r] = CountFailure(r, slot[r])]
           /\ Notify(IF Tripped(r, slot[r]) THEN Waiters ELSE {})
           /\ timer' = IF degraded THEN Armed(slot', Waiters, timer) ELSE timer
    /\ UNCHANGED <<lease, tracked, running, pc, budget, nap>>

\* Lease.degrade
Degrade(l) ==
    /\ Usable(l)
    /\ LET r == lease[l].slot
       IN  slot' = [slot EXCEPT ![r] = Degraded(r, @)]
    /\ Notify(Waiters)
    /\ timer' = Armed(slot', Waiters, timer)
    /\ UNCHANGED <<lease, tracked, running, pc, budget, nap>>

-----------------------------------------------------------------------------
(* The life of an attempt *)

HeldBy(a, r) == {l \in tracked[a] : lease[l].held /\ lease[l].slot = r}

\* A lease object that its attempt has done with: a child that outlives the
\* attempt may still report on it; without one nobody can reach it any more.
Left(o) == IF Stragglers THEN Returned(o) ELSE NoLease

\* The attempt returns, raises, times out or is cancelled: its callers are
\* cancelled (their waiters removed) except the children S that outlive it, and
\* reclaim_now returns every lease its context tracks.
EndAttempt(a) ==
    /\ a \in running
    /\ running' = running \ {a}
    /\ \E S \in SUBSET {c \in Callers : AttemptOf[c] = a /\ pc[c] # "idle"} :
        /\ S # {} => Stragglers
        /\ LET gone(c) == AttemptOf[c] = a /\ c \notin S
           IN  /\ pc' = [c \in Callers |-> IF gone(c) THEN "idle" ELSE pc[c]]
               /\ budget' = [c \in Callers |-> IF gone(c) THEN Never ELSE budget[c]]
               /\ nap' = [c \in Callers |-> IF gone(c) THEN 0 ELSE nap[c]]
               /\ event' = [c \in Callers |->
                              /\ ~gone(c)
                              /\ event[c] \/ \E r \in Resources : c \in Serves(r) /\ HeldBy(a, r) # {}]
    /\ slot' = [r \in Resources |-> GivenBack(slot[r], Cardinality(HeldBy(a, r)))]
    /\ lease' = [l \in Leases |->
                  IF lease[l] # NoLease /\ lease[l].owner = a /\ (l \in tracked[a] \/ ~lease[l].held)
                  THEN Left(lease[l]) ELSE lease[l]]
    /\ tracked' = [tracked EXCEPT ![a] = {}]
    /\ UNCHANGED timer

\* A retry, or the next task, gets a context of its own; the identity is reused
\* once nothing of the ended attempt is left.
BeginAttempt(a) ==
    /\ a \notin running
    /\ \A c \in Callers : AttemptOf[c] = a => pc[c] = "idle"
    /\ \A l \in Leases : lease[l] # NoLease /\ lease[l].owner = a => ~lease[l].held
    /\ running' = running \cup {a}
    /\ lease' = [l \in Leases |-> IF lease[l] # NoLease /\ lease[l].owner = a
                                  THEN NoLease ELSE lease[l]]
    /\ UNCHANGED <<slot, tracked, pc, event, budget, nap, timer>>

-----------------------------------------------------------------------------
(* Membership, observation and time *)

\* Pool.add / publish. A new id starts with the counters of a new _Slot, which an
\* unpublished slot has; an id that exists keeps its counters and its client.
Publish(r, capacity) ==
    /\ r \in Publishable
    /\ slot' = [slot EXCEPT ![r] = Republished(@, capacity)]
    /\ Notify(Waiters)
    /\ UNCHANGED <<lease, tracked, running, pc, budget, nap, timer>>

\* Pool.revoke
Revoke(r) ==
    /\ r \in Revocable /\ slot[r].state # "unpublished"
    /\ slot' = [slot EXCEPT ![r] = Withdrawn(@)]
    /\ Notify(Waiters)
    /\ UNCHANGED <<lease, tracked, running, pc, budget, nap, timer>>

\* Pool.stats, Pool.snapshot: reading the pool refreshes it.
Observe ==
    /\ slot' = Refreshed
    /\ UNCHANGED <<lease, tracked, running, pc, event, budget, nap, timer>>

\* Mutation of CooldownOver: it arms the next timer and wakes nobody.
CooldownOverSilently ==
    /\ timer = 0
    /\ timer' = Armed(slot, Waiters, NoTimer)
    /\ UNCHANGED <<slot, lease, tracked, running, pc, event, budget, nap>>

\* _wake_after_cooldown, when its sleep is over
CooldownOver ==
    /\ timer = 0
    /\ Notify(Waiters)
    /\ timer' = Armed(slot, Waiters, NoTimer)
    /\ UNCHANGED <<slot, lease, tracked, running, pc, budget, nap>>

\* One unit of time passes. Timers may run late: nothing stops the clock.
Tick ==
    /\ \/ \E r \in Resources : slot[r].left > 0
       \/ timer # NoTimer /\ timer > 0
       \/ \E c \in Callers : nap[c] > 0 \/ (budget[c] # Never /\ budget[c] > 0)
    /\ slot' = [r \in Resources |-> Aged(slot[r])]
    /\ timer' = IF timer = NoTimer THEN NoTimer ELSE Less(timer)
    /\ nap' = [c \in Callers |-> Less(nap[c])]
    /\ budget' = [c \in Callers |-> IF budget[c] = Never THEN Never ELSE Less(budget[c])]
    /\ UNCHANGED <<lease, tracked, running, pc, event>>

-----------------------------------------------------------------------------
Init ==
    /\ slot = [r \in Resources |->
                 FreshSlot(r, IF r \in Published THEN "ready" ELSE "unpublished",
                           InitialCapacity[r])]
    /\ lease = [l \in Leases |-> NoLease]
    /\ tracked = [a \in Attempts |-> {}]
    /\ running = Attempts
    /\ pc = [c \in Callers |-> "idle"]
    /\ event = [c \in Callers |-> FALSE]
    /\ budget = [c \in Callers |-> Never]
    /\ nap = [c \in Callers |-> 0]
    /\ timer = NoTimer

CallerStep(c) == Acquire(c) \/ Resume(c) \/ TimeOut(c) \/ WakeUp(c) \/ Cancel(c)

LeaseStep(l) == ReleaseNow(l) \/ ReportOk(l) \/ ReportFailure(l) \/ Degrade(l)

Next ==
    \/ \E c \in Callers : CallerStep(c)
    \/ \E l \in Leases : LeaseStep(l)
    \/ \E a \in Attempts : EndAttempt(a) \/ BeginAttempt(a)
    \/ \E r \in Resources : Revoke(r) \/ \E n \in Capacities : Publish(r, n)
    \/ Observe \/ CooldownOver \/ Tick

Spec == Init /\ [][Next]_vars

\* The event loop runs what is ready and the clock advances; user code owes nothing.
Fairness ==
    /\ WF_vars(Tick) /\ WF_vars(CooldownOver)
    /\ \A c \in Callers : WF_vars(Resume(c) \/ TimeOut(c) \/ WakeUp(c))

FairSpec == Spec /\ Fairness

-----------------------------------------------------------------------------
(* Properties *)

TypeOK ==
    /\ slot \in [Resources -> Slots]
    /\ lease \in [Leases -> LeaseObjects \cup {NoLease}]
    /\ tracked \in [Attempts -> SUBSET Leases]
    /\ running \subseteq Attempts
    /\ pc \in [Callers -> {"idle", "parked", "sleeping"}]
    /\ event \in [Callers -> BOOLEAN]
    /\ budget \in [Callers -> Nat \cup {Never}]
    /\ nap \in [Callers -> Nat]
    /\ timer \in Nat \cup {NoTimer}

HeldOn(r)  == {l \in Leases : lease[l] # NoLease /\ lease[l].held /\ lease[l].slot = r}
HeldFor(a) == {l \in Leases : lease[l] # NoLease /\ lease[l].held /\ lease[l].owner = a}

\* Every lease is returned exactly once: whatever mixture of release_now, reclaim
\* and failing factories ran, a slot's active count is the number of Lease
\* objects on it that were handed out and not returned.
ActiveCountsLeases == \A r \in Resources : slot[r].active = Cardinality(HeldOn(r))

\* stats.active never exceeds the resource's capacity (ResourceStats.active), as
\* long as nobody publishes the id again with a smaller one.
WithinCapacity == \A r \in Resources : slot[r].active <= slot[r].capacity

\* The context of an attempt tracks exactly the leases it has not returned, so
\* the reclaim at its end misses none.
TrackedAreHeld == \A a \in Attempts : tracked[a] = HeldFor(a)

\* The end of an attempt returns all it holds (design.md, invariant 5): only a
\* child that outlives the attempt can hold a lease for it afterwards, and only
\* one that it acquires after the reclaim.
EndReturnsAll ==
    [][\A a \in Attempts : a \in running /\ a \notin running' => HeldFor(a)' = {}]_vars

\* No wakeup is lost: a caller parked without a pending event has no candidate,
\* unless the cooldown notifier is about to broadcast.
NoLostWakeup ==
    \A c \in Waiters :
        ~event[c] /\ Candidates(c, Refreshed) # {} => timer = 0

\* Consecutive failures are forgotten by a reported success and by nothing else:
\* no cooldown, republication or release wipes the count on its way to "dead".
FailuresOnlyForgivenBySuccess ==
    [][\A r \in Resources :
        slot'[r].failures < slot[r].failures =>
            \E l \in Leases : lease[l] # NoLease /\ lease[l].slot = r /\ ReportOk(l)]_vars

\* A parked caller whose resource is cooling down is woken, or stops waiting.
CooldownWakesWaiters ==
    \A c \in Callers : \A r \in Resources :
        (pc[c] = "parked" /\ r \in Matches[c] /\ slot[r].state = "degraded")
            ~> (event[c] \/ pc[c] # "parked" \/ slot[r].state # "degraded")

\* An acquire with a timeout ends by it, however often the caller is woken or
\* sleeps in between: the deadline is that of the acquire, not of one wait.
BoundedWait ==
    \A c \in Callers : (pc[c] # "idle" /\ budget[c] # Never) ~> pc[c] = "idle"

-----------------------------------------------------------------------------
(* The pool implements the table of leases. *)

\* The table's view of the pool: who has what, of how much, and what is ready.
outOf  == [l \in Leases |-> IF lease[l] # NoLease /\ lease[l].held
                            THEN lease[l].slot ELSE NoLease]
capOf  == [r \in Resources |-> slot[r].capacity]
openOf == {r \in Resources : StateAt(slot[r]).state = "ready"}

Table == INSTANCE LeaseTable WITH Free <- NoLease, out <- outOf, cap <- capOf, open <- openOf

\* Every behaviour of the pool is one of the lease table: granted only on a
\* ready resource with room, never moved, returned once.
ImplementsLeaseTable == Table!Spec

=============================================================================
