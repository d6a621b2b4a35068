----------------------------- MODULE Simulation -----------------------------
(***************************************************************************)
(* A benchmark run (benchmark/clock.py, harness.py, provider.py): workers  *)
(* that claim jobs, lease an endpoint, call it and retry, on a clock whose *)
(* time moves only when the simulation has nothing else to do.             *)
(*                                                                         *)
(* The event loop is explicit: `ready` is its queue of callbacks, each run *)
(* to its next await.  An entry is a worker, the clock's probe, the task   *)
(* that ends a cool-down, or the done-callback of a worker.  A worker's    *)
(* synchronous stretch is several steps, during which `running` names it   *)
(* and nothing else moves.  Times are kept relative to now: what is left   *)
(* of a sleep or of a cool-down.                                           *)
(***************************************************************************)
EXTENDS Integers, FiniteSets, SequencesExt

CONSTANTS
  Workers,      \* the scenario's concurrency
  Endpoints,    \* the resources of the pool under test
  Capacity,     \* leases the pool gives out per endpoint
  Offered,      \* capacities the provider's cycle may offer, any at any time
  Metered,      \* endpoints with a token bucket, which may be empty at any time
  Algorithms,   \* subset of {"wait", "backoff", "immediate"}
  Jobs, CallsPerStep, StepsPerJob,
  Attempts,     \* attempts the retry policy allows a step
  Horizon,      \* no job starts at or after this time
  Latencies,    \* seconds a call may take
  Delays,       \* seconds a retry or an acquire may back off; 0 only yields
  Cooldown, DegradeAfter, DeadAfter,
  IdleTicks     \* quiet probes before time may move

Nobody == "nobody"

ASSUME SimulationAssumption ==
  /\ IsFiniteSet(Workers) /\ Workers # {} /\ Nobody \notin Workers
  /\ Endpoints # {} /\ Metered \subseteq Endpoints
  /\ Capacity \in Nat \ {0} /\ Offered \subseteq Nat
  /\ Algorithms \subseteq {"wait", "backoff", "immediate"}
  /\ {Jobs, CallsPerStep, StepsPerJob, Attempts, DegradeAfter} \subseteq Nat \ {0}
  /\ Latencies \subseteq Nat /\ Delays \subseteq Nat /\ Delays \ {0} # {}
  /\ Cooldown \in Nat \ {0} /\ DeadAfter \in Nat /\ DegradeAfter < DeadAfter
  /\ IdleTicks \in Nat \ {0}

VARIABLES
  clock,      \* the VirtualClock, and the loop's ready queue
  running,    \* the worker inside its synchronous stretch, or Nobody
  pc, job,    \* where each worker is, and what it works on
  lease,      \* the endpoint a worker holds a lease of, or Nobody
  pool,       \* slots, waiters in order, the ones told to look, the notifier
  inFlight,   \* calls the provider is serving at each endpoint
  nextJob, algorithm,
  cancelled   \* the run gave up: every worker is being cancelled

vars == <<clock, running, pc, job, lease, pool, inFlight, nextJob, algorithm, cancelled>>

Gone(w) == <<"gone", w>>
Probe == <<"probe">>
Notifier == <<"notifier">>
Runs(w) == <<"worker", w>>

\* The elements of s at the indices I, in order.
Those(s, I) ==
  [k \in 1 .. Cardinality(I) |-> s[CHOOSE i \in I : Cardinality({j \in I : j < i}) = k - 1]]
Without(s, x) == Those(s, {i \in DOMAIN s : s[i] # x})

(***************************************************************************)
(* The clock.  Operators take the clock before and return the one after.   *)
(***************************************************************************)
\* _activity and _arm: nothing is quiet, and one probe is queued.
Activity(c) ==
  [c EXCEPT !.quiet = 0, !.armed = TRUE,
            !.ready = IF c.armed THEN @ ELSE Append(@, Probe)]

Counted(p) == IF \E w \in Workers : p = Runs(w) THEN 1 ELSE 0

\* sleep(): a timer behind those due no later; a worker counts as parked.
\* A delay of zero only yields.
Sleep(c, p, d) ==
  IF d = 0
  THEN [c EXCEPT !.ready = Append(@, p)]
  ELSE LET sooner == Cardinality({i \in DOMAIN c.timers : c.timers[i].left <= d})
       IN  Activity([c EXCEPT !.timers = InsertAt(@, sooner + 1, [who |-> p, left |-> d]),
                              !.parked = @ + Counted(p)])

\* Mutant: the sleeper gives its count back though the driver did.
SleepEndsTwice(c, p) ==
  IF p \in c.fired \/ \E i \in DOMAIN c.timers : c.timers[i].who = p
  THEN Activity([c EXCEPT !.timers = SelectSeq(@, LAMBDA t : t.who # p),
                          !.parked = @ - Counted(p), !.fired = @ \ {p}])
  ELSE c

\* The end of a sleep that was cut short or has run out: whoever sees the
\* timer not fired gives the count back and removes it.
TimerOf(c, p) == CHOOSE i \in DOMAIN c.timers : c.timers[i].who = p
SleepEnds(c, p) ==
  IF \E i \in DOMAIN c.timers : c.timers[i].who = p
  THEN Activity([c EXCEPT !.timers = RemoveAt(@, TimerOf(c, p)),
                          !.parked = @ - Counted(p)])
  ELSE [c EXCEPT !.fired = @ \ {p}]

EnterBlocked(c) == Activity([c EXCEPT !.blocked = @ + 1])
LeaveBlocked(c) == Activity([c EXCEPT !.blocked = @ - 1])

\* _advance: to the next deadline; every timer due is fired, in order, and
\* its sleeper is runnable again, unless a cancellation made it so already.
Deadline(c) == c.timers[1].left
DueCount(c) == Cardinality({i \in DOMAIN c.timers : c.timers[i].left <= Deadline(c)})
Due(c) == SubSeq(c.timers, 1, DueCount(c))
Woken(c) == Those(Due(c), {i \in DOMAIN Due(c) : Due(c)[i].who \notin Range(c.ready)})
Pending(c) ==
  LET later == SubSeq(c.timers, DueCount(c) + 1, Len(c.timers))
  IN  [i \in DOMAIN later |-> [later[i] EXCEPT !.left = @ - Deadline(c)]]
Advance(c) ==
  Activity([c EXCEPT
    !.now = IF @ + Deadline(c) > Horizon THEN Horizon ELSE @ + Deadline(c),
    !.timers = Pending(c),
    !.fired = @ \cup {Due(c)[i].who : i \in DOMAIN Due(c)},
    !.parked = @ - Cardinality({i \in DOMAIN Due(c) : Counted(Due(c)[i].who) = 1}),
    !.ready = @ \o [i \in DOMAIN Woken(c) |-> Woken(c)[i].who]])

\* _probe, up to the decision to advance.
Quiet(c) == c.timers # <<>> /\ c.parked + c.blocked >= Cardinality(c.workers)
\* Mutant: every counted worker parked is enough to move time.
IdleAtOnce(c) == Quiet(c)

IdleLongEnough(c) == Quiet(c) /\ c.quiet + 1 >= IdleTicks

(***************************************************************************)
(* The pool, as far as a benchmark uses it.                                *)
(***************************************************************************)
\* state_at: a cool-down that is over needs nobody's attention.
Available(p, e) == p.slots[e].state = "ready" /\ p.slots[e].active < Capacity

\* _notify: every waiter not yet told is told to look, in order.
Told(p) == [p EXCEPT !.woken = Range(p.waiters)]
Wakes(p, c) ==
  LET asleep == Those(p.waiters, {i \in DOMAIN p.waiters : p.waiters[i] \notin p.woken})
  IN  [c EXCEPT !.ready = @ \o [i \in DOMAIN asleep |-> Runs(asleep[i])]]

\* _ensure_cooldown_notifier: one task while somebody waits and a slot cools
\* down.  All slots cool down equally long, so the armed one is the earliest.
Cooling(p) == {p.slots[e].left : e \in {x \in Endpoints : p.slots[x].state = "degraded"}}
\* Mutant: nothing tells the waiters that a cool-down is over.
LeavesWaitersAsleep(p) == FALSE

NeedsNotifier(p) == p.waiters # <<>> /\ Cooling(p) # {} /\ p.notifier = 0
Armed(p) ==
  IF NeedsNotifier(p)
  THEN [p EXCEPT !.notifier = CHOOSE d \in Cooling(p) : \A x \in Cooling(p) : d <= x]
  ELSE p
Starts(p, c) == IF NeedsNotifier(p) THEN [c EXCEPT !.ready = Append(@, Notifier)] ELSE c

\* report(): a success makes the slot ready; failures degrade it, then kill it.
Reported(s, ok) ==
  LET f == IF ok THEN 0 ELSE s.fails + 1
      state == IF ok THEN "ready"
               ELSE IF f >= DeadAfter THEN "dead"
               ELSE IF f >= DegradeAfter THEN "degraded" ELSE s.state
  IN  [s EXCEPT !.fails = IF f > DeadAfter THEN DeadAfter ELSE f, !.state = state,
                !.left = IF state # "degraded" THEN 0
                         ELSE IF f >= DegradeAfter THEN Cooldown ELSE @]

\* lease.report then release_now: the waiters hear of it.
Freed(s, ok) == [Reported(s, ok) EXCEPT !.active = @ - 1]
GivenBack(p, e, ok) == [p EXCEPT !.slots[e] = Freed(@, ok)]
Returned(p, e, ok) == Armed(Told(GivenBack(p, e, ok)))
ReturnedLoop(p, e, ok, c) == Starts(GivenBack(p, e, ok), Wakes(GivenBack(p, e, ok), c))

-----------------------------------------------------------------------------
(* The harness.  A worker in its stretch, from the end of one await to the *)
(* next.                                                                   *)
Idle == [step |-> 0, call |-> 0, attempt |-> 1]

At(w, here) == running = w /\ pc[w] = here
Goes(w, there) == pc' = [pc EXCEPT ![w] = there]
Awaits(w, there) == Goes(w, there) /\ running' = Nobody

\* _claim_job, or the end of the worker, whose done-callback is queued.
Claim(w) ==
  /\ At(w, "claim") /\ nextJob < Jobs /\ clock.now < Horizon
  /\ nextJob' = nextJob + 1
  /\ job' = [job EXCEPT ![w] = Idle]
  /\ Goes(w, "enter")
  /\ UNCHANGED <<clock, running, lease, pool, inFlight, algorithm, cancelled>>

Ends(w) ==
  /\ At(w, "claim") /\ (nextJob >= Jobs \/ clock.now >= Horizon)
  /\ Awaits(w, "done")
  /\ clock' = [clock EXCEPT !.ready = Append(@, Gone(w))]
  /\ UNCHANGED <<job, lease, pool, inFlight, nextJob, algorithm, cancelled>>

\* with clock.blocked(): around the acquire.
Enter(w) ==
  /\ At(w, "enter")
  /\ Goes(w, "acquire")
  /\ clock' = EnterBlocked(clock)
  /\ UNCHANGED <<running, job, lease, pool, inFlight, nextJob, algorithm, cancelled>>

\* try_acquire gives a lease, to a worker that never waited or just woke up.
Acquire(w) ==
  /\ At(w, "acquire")
  /\ \E e \in Endpoints :
       /\ Available(pool, e)
       /\ lease' = [lease EXCEPT ![w] = e]
       /\ pool' = [pool EXCEPT !.slots[e].active = @ + 1,
                               !.waiters = Without(@, w),
                               !.woken = @ \ {w}]
  /\ clock' = LeaveBlocked(clock)
  /\ Goes(w, "perform")
  /\ UNCHANGED <<running, job, inFlight, nextJob, algorithm, cancelled>>

NoneAvailable == \A e \in Endpoints : ~Available(pool, e)

\* Wait: park on the broadcast, keeping the place in line.
WaitSlot(w) ==
  /\ At(w, "acquire") /\ NoneAvailable /\ algorithm = "wait"
  /\ LET p == [pool EXCEPT !.waiters = IF w \in Range(@) THEN @ ELSE Append(@, w),
                           !.woken = @ \ {w}]
     IN  IF w \in Range(pool.waiters)
         THEN pool' = p /\ UNCHANGED clock
         ELSE pool' = Armed(p) /\ clock' = Starts(p, clock)
  /\ Awaits(w, "wait")
  /\ UNCHANGED <<job, lease, inFlight, nextJob, algorithm, cancelled>>

\* Backoff: sleep on the clock, inside blocked(), and try again.
Nap(w) ==
  /\ At(w, "acquire") /\ NoneAvailable /\ algorithm = "backoff"
  /\ \E d \in Delays \ {0} : clock' = Sleep(clock, Runs(w), d)
  /\ Awaits(w, "nap")
  /\ UNCHANGED <<job, lease, pool, inFlight, nextJob, algorithm, cancelled>>

\* Immediate: ResourceUnavailable, a failed attempt like any other.
Unavailable(w) ==
  /\ At(w, "acquire") /\ NoneAvailable /\ algorithm = "immediate"
  /\ clock' = LeaveBlocked(clock)
  /\ Goes(w, "failed")
  /\ UNCHANGED <<running, job, lease, pool, inFlight, nextJob, algorithm, cancelled>>

\* perform(), refused: the endpoint is full, or its bucket is empty.
Refuse(w) ==
  /\ At(w, "perform")
  /\ lease[w] \in Metered \/ \E offer \in Offered : inFlight[lease[w]] >= offer
  /\ clock' = ReturnedLoop(pool, lease[w], FALSE, clock)
  /\ pool' = Returned(pool, lease[w], FALSE)
  /\ lease' = [lease EXCEPT ![w] = Nobody]
  /\ Goes(w, "failed")
  /\ UNCHANGED <<running, job, inFlight, nextJob, algorithm, cancelled>>

\* perform(), admitted: in flight for the latency drawn.
Admit(w) ==
  /\ At(w, "perform")
  /\ \E offer \in Offered : inFlight[lease[w]] < offer
  /\ inFlight' = [inFlight EXCEPT ![lease[w]] = @ + 1]
  /\ \E d \in Latencies : clock' = Sleep(clock, Runs(w), d)
  /\ Awaits(w, "call")
  /\ UNCHANGED <<job, lease, pool, nextJob, algorithm, cancelled>>

\* The call has ended, and the lease goes back with the report of it.
Answered(w, ok) ==
  /\ clock' = ReturnedLoop(pool, lease[w], ok, clock)
  /\ pool' = Returned(pool, lease[w], ok)
  /\ lease' = [lease EXCEPT ![w] = Nobody]

LastCall(w) == job[w].call + 1 = CallsPerStep
LastStep(w) == job[w].step + 1 = StepsPerJob

Succeed(w) ==
  /\ At(w, "answer")
  /\ Answered(w, TRUE)
  /\ job' = [job EXCEPT ![w] =
               CASE ~LastCall(w) -> [@ EXCEPT !.call = @ + 1]
                 [] LastCall(w) /\ ~LastStep(w) -> [Idle EXCEPT !.step = job[w].step + 1]
                 [] OTHER -> Idle]
  /\ Goes(w, IF LastCall(w) /\ LastStep(w) THEN "claim" ELSE "enter")
  /\ UNCHANGED <<running, inFlight, nextJob, algorithm, cancelled>>

Fail(w) ==
  /\ At(w, "answer")
  /\ Answered(w, FALSE)
  /\ Goes(w, "failed")
  /\ UNCHANGED <<running, job, inFlight, nextJob, algorithm, cancelled>>

\* policy.decide: sleep the backoff and try the step again, or give the job up.
Retry(w) ==
  /\ At(w, "failed") /\ job[w].attempt < Attempts
  /\ \E d \in Delays : clock' = Sleep(clock, Runs(w), d)
  /\ Awaits(w, "retry")
  /\ UNCHANGED <<job, lease, pool, inFlight, nextJob, algorithm, cancelled>>

GiveUp(w) ==
  /\ At(w, "failed")
  /\ job' = [job EXCEPT ![w] = Idle]
  /\ Goes(w, "claim")
  /\ UNCHANGED <<clock, running, lease, pool, inFlight, nextJob, algorithm, cancelled>>

-----------------------------------------------------------------------------
(* The event loop: the head of the ready queue runs to its next await.     *)
Loop == running = Nobody /\ clock.ready # <<>>
Next1 == Head(clock.ready)
Popped == [clock EXCEPT !.ready = Tail(@)]

\* Where a worker goes on after the await it is in; none leads out of "done".
After == [start |-> "claim", wait |-> "acquire", nap |-> "acquire", call |-> "answer",
          retry |-> "enter"]

\* A worker's await is over, and it was not cancelled.
Resume(w) ==
  /\ Loop /\ Next1 = Runs(w) /\ ~cancelled
  /\ pc[w] \in DOMAIN After
  /\ running' = w
  /\ clock' = SleepEnds(Popped, Runs(w))
  /\ Goes(w, After[pc[w]])
  /\ job' = IF pc[w] = "retry" THEN [job EXCEPT ![w].attempt = @ + 1, ![w].call = 0] ELSE job
  /\ inFlight' = IF pc[w] = "call" THEN [inFlight EXCEPT ![lease[w]] = @ - 1] ELSE inFlight
  /\ UNCHANGED <<lease, pool, nextJob, algorithm, cancelled>>

\* CancelledError comes out of the await: the finally clauses run, inside
\* out, and the worker is over.
Unwind(w) ==
  /\ Loop /\ Next1 = Runs(w) /\ cancelled
  /\ LET awake == SleepEnds(Popped, Runs(w))
         left == CASE pc[w] \in {"wait", "nap"} -> LeaveBlocked(awake)
                   [] pc[w] = "call" -> ReturnedLoop(pool, lease[w], FALSE, awake)
                   [] OTHER -> awake
     IN  clock' = [left EXCEPT !.ready = Append(@, Gone(w))]
  /\ pool' = IF pc[w] = "call" THEN Returned(pool, lease[w], FALSE)
             ELSE [pool EXCEPT !.waiters = Without(@, w), !.woken = @ \ {w}]
  /\ inFlight' = IF pc[w] = "call" THEN [inFlight EXCEPT ![lease[w]] = @ - 1] ELSE inFlight
  /\ lease' = [lease EXCEPT ![w] = Nobody]
  /\ Goes(w, "done")
  /\ UNCHANGED <<running, job, nextJob, algorithm, cancelled>>

\* The done-callback: the worker is no longer counted.
RemoveWorker(w) ==
  /\ Loop /\ Next1 = Gone(w)
  /\ clock' = Activity([Popped EXCEPT !.workers = @ \ {w}])
  /\ UNCHANGED <<running, pc, job, lease, pool, inFlight, nextJob, algorithm, cancelled>>

\* The probe: not idle, idle but not for long enough, or time moves.
ProbeAgain ==
  LET c == [Popped EXCEPT !.armed = FALSE]
  IN  /\ Loop /\ Next1 = Probe /\ ~IdleLongEnough(clock)
      /\ clock' = IF Quiet(c) THEN [Activity(c) EXCEPT !.quiet = c.quiet + 1]
                  ELSE [c EXCEPT !.quiet = 0]
      /\ UNCHANGED <<running, pc, job, lease, pool, inFlight, nextJob, algorithm, cancelled>>

ProbeAdvances ==
  LET d == Deadline(clock)
      Cooled(s) == IF s.state # "degraded" THEN s
                   ELSE IF s.left <= d THEN [s EXCEPT !.state = "ready", !.left = 0]
                   ELSE [s EXCEPT !.left = @ - d]
  IN  /\ Loop /\ Next1 = Probe /\ IdleLongEnough(clock)
      /\ clock' = Advance([Popped EXCEPT !.armed = FALSE])
      /\ pool' = [pool EXCEPT !.slots = [e \in Endpoints |-> Cooled(@[e])]]
      /\ UNCHANGED <<running, pc, job, lease, inFlight, nextJob, algorithm, cancelled>>

\* The cool-down's task sleeps (no worker, so not counted), then tells the
\* waiters and arms itself again if a slot is still cooling down.
NotifierSleeps ==
  /\ Loop /\ Next1 = Notifier /\ Notifier \notin clock.fired
  /\ clock' = Sleep(Popped, Notifier, pool.notifier)
  /\ UNCHANGED <<running, pc, job, lease, pool, inFlight, nextJob, algorithm, cancelled>>

NotifierTells ==
  /\ Loop /\ Next1 = Notifier /\ Notifier \in clock.fired
  /\ LET p == [pool EXCEPT !.notifier = 0]
     IN  /\ clock' = Starts(p, Wakes(p, SleepEnds(Popped, Notifier)))
         /\ pool' = Armed(Told(p))
  /\ UNCHANGED <<running, pc, job, lease, inFlight, nextJob, algorithm, cancelled>>

\* work.cancel(): whoever awaits a future is made ready, whoever is ready
\* already meets the cancellation there.
Live == {w \in Workers : pc[w] # "done"}
Cancel ==
  LET asleep == SetToSeq({w \in Live : Runs(w) \notin Range(clock.ready)})
  IN  /\ running = Nobody /\ ~cancelled /\ Live # {}
      /\ cancelled' = TRUE
      /\ clock' = [clock EXCEPT !.ready = @ \o [i \in DOMAIN asleep |-> Runs(asleep[i])]]
      /\ UNCHANGED <<running, pc, job, lease, pool, inFlight, nextJob, algorithm>>

\* The wall-clock budget may end at any time; the supervisor ends a run in
\* which every endpoint is dead.
WallBudget == Cancel
Supervise == (\A e \in Endpoints : pool.slots[e].state = "dead") /\ Cancel

\* Every worker is gone: the run returns.
Finished == clock.workers = {} /\ UNCHANGED vars

Init ==
  LET order == SetToSeq(Workers)
      first == Runs(order[1])
  IN  /\ clock = [ready |-> <<first, Probe>> \o [i \in 1 .. Len(order) - 1 |-> Runs(order[i + 1])],
                  timers |-> <<>>, fired |-> {}, parked |-> 0, blocked |-> 0,
                  quiet |-> 0, armed |-> TRUE, workers |-> Workers, now |-> 0]
      /\ running = Nobody
      /\ pc = [w \in Workers |-> "start"]
      /\ job = [w \in Workers |-> Idle]
      /\ lease = [w \in Workers |-> Nobody]
      /\ pool = [slots |-> [e \in Endpoints |->
                              [active |-> 0, state |-> "ready", left |-> 0, fails |-> 0]],
                 waiters |-> <<>>, woken |-> {}, notifier |-> 0]
      /\ inFlight = [e \in Endpoints |-> 0]
      /\ nextJob = 0 /\ cancelled = FALSE
      /\ algorithm \in Algorithms

Stretch(w) ==
  \/ Claim(w) \/ Ends(w) \/ Enter(w) \/ Acquire(w) \/ WaitSlot(w) \/ Nap(w)
  \/ Unavailable(w) \/ Refuse(w) \/ Admit(w) \/ Succeed(w) \/ Fail(w)
  \/ Retry(w) \/ GiveUp(w)

LoopStep ==
  \/ \E w \in Workers : Stretch(w) \/ Resume(w) \/ Unwind(w) \/ RemoveWorker(w)
  \/ ProbeAgain \/ ProbeAdvances \/ NotifierSleeps \/ NotifierTells

Next == LoopStep \/ Supervise \/ WallBudget \/ Finished

\* The loop runs its callbacks; the supervisor's own timer keeps coming up
\* between them.  Nothing says the wall-clock budget ever ends.
Spec == Init /\ [][Next]_vars /\ WF_vars(LoopStep) /\ SF_vars(Supervise)

-----------------------------------------------------------------------------
\* Every take of a count is given back exactly once, however a sleep or an
\* acquire ends: the clock's `fired` agreement and the blocked() context.
CountsAgree ==
  /\ clock.parked = Cardinality({i \in DOMAIN clock.timers : Counted(clock.timers[i].who) = 1})
  /\ clock.blocked = Cardinality({w \in Workers : pc[w] \in {"acquire", "wait", "nap"}})

\* Time moves only when nothing in the program could run without it: no
\* worker, no notifier and no done-callback is waiting for its turn.  (A run
\* being cancelled may still see one advance that was about to happen.)
SoundAdvance ==
  [][~cancelled /\ clock'.fired \ clock.fired # {} =>
       Range(clock.ready) = {Probe}]_vars

\* A run finishes without its wall-clock budget: simulated time never stands
\* still while a worker waits for it.
SimulationEnds == <>(clock.workers = {})

=============================================================================
