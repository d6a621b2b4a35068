# A TLA+ verification of pyattacker

pyattacker runs batches of *pipelines*, short chains of asynchronous *tasks* that
lease rate-limited resources (model clients, usually) from *pools*. One process, one event loop:
what makes it hard is everything that can happen between two `await`s, and what is left in the store
when a process, a worker, a cancellation or the store itself ends in the middle.

Paths below are relative to the repository.

## 1. Inventory

| Component | State it keeps | Operations | Hard about it |
|---|---|---|---|
| **Resource pool** `src/pyattacker/resource.py` | slots (state, cooldown deadline, active count, failures, client), waiters with their events, the armed cooldown notifier | `try_acquire`, `select`, `wait_slot`, `_release`, `_report`, `_degrade`, `add`, `revoke` | lost wakeups, leaked capacity, lazily noticed cooldowns, a factory that fails half way |
| **Acquisition algorithms** `algorithm.py` | time spent waiting | `Immediate`, `Wait`, `Backoff`, `LeastBusy`, `Failover`, `Sticky`, `QuotaAware` | a timeout over many waits, competition of newcomers and waiters |
| **Task context, retry policy** `task.py` | the leases an attempt has not returned | `acquire_lease`, `reclaim_now`, `Retrying.decide` | reclaim against children that are still running |
| **Runner** `runner.py` | counters, work queue, workers, stop flags, `_inflight` | `run_async`, `_worker_loop`, `_drive`, `_shutdown`, `_crash_worker`, `stop` | who stops whom, who counts what, who records what, in any order |
| **Delay queue** `scheduler.py` | a heap of deadlines | `push`, `pump`, `drain` | a push during the pump's wait for room |
| **Checkpoints and recovery** `runner.py` `_open_pipeline`, `_settle_terminal_cursor`, `_drive` | rows, artifacts and cursor in the store | open, attempt, checkpoint, finalize, repair | a crash between any two writes; a repair that fails |
| **Handoff ledger** `handoff.py`, `commit_handoff` | ledger rows and their floor | forward jump, early end | ledger against cursor after a restart |
| **Visits** `store/visits.py` | traversal state, version, high-water marks, budget | `commit_entry`, `commit_visit_*`, `commit_control_transition`, `reset_visits` | stale suffixes, reused addresses |
| **Stores** `store/{base,memory,sqlite}.py` | all rows | one method per fact, transactions, paging queries, `interrupt_stale` | two implementations that must answer alike; a reader that pages while a run writes |
| **Write-behind buffer** `store/writebehind.py` | buffered facts, a write error | `flush`, every read | a flush that fails half way |
| **Suites** `suite.py`, `store/suite.py` | a catalog, a store per experiment, the connections kept open | `register`, `prepare`, `admit`, `interrupt_stale`, the outcome trigger | two databases per admission; a kill between them; facts buffered in a connection that makes room |
| **Shards, merge** `shard.py`, `merge.py` | none | assign, fold duplicates | the fold's order of preference |
| **Benchmark clock, harness** `benchmark/{clock,harness,provider}.py` | timers, parked and blocked counts, endpoints, jobs | `sleep`, `blocked`, `_probe`, `_advance`; claim, acquire, call, retry | time that stops, or runs ahead |
| Declarations, plugins, CLI, server, export, task library | none that outlives a call | parsing, formatting, I/O | left aside |

How they interact. The Runner's producer admits pipelines into the bounded work queue; a worker takes
one, opens it from the store and drives it task by task; an attempt leases from pools through its
`TaskContext`, which is reclaimed when the attempt ends; a retry goes to the delay queue, from where the
pump brings it back to the work queue. Pools call back into waiters (events); workers call back into the
Runner when they end (`_on_worker_done`); everything durable goes through the store.

What makes each component correct, in one line:

* pool: every lease is returned once, no resource is over capacity, nobody waits for what is there;
* runner: unfinished pipelines are bounded, each is driven by one worker, each reaches a recorded end,
  every run ends, and soon enough when it is told to stop;
* delay queue: what leaves the heap is what was handed over;
* checkpoints: whatever the process was doing when it died, a later run opens the pipeline at a point
  it had reached and finishes it, and no success is lost or forged;
* ledger and visits: the position resumed is that of the newest transition that is still valid;
* write-behind: a fact is written once, in order, or the failure is reported;
* stores: both backends give the same answers, and a paged read misses nothing;
* suites: what a run says of a pipeline or an experiment is what that run did, or found;
* virtual clock: time moves exactly when nothing else can.

`PROJECT.json` lists the hazards at their lines, with the properties that watch them.

## 2. Plan

| Modules | Stand |
|---|---|
| `Pool`, `LeaseTable` (its abstract specification), `MCPool`, `PoolProofs` | modelled, checked, safety proved |
| `Runner`, `MCRunner`, `RunnerProofs` | modelled, checked, safety proved |
| `Checkpoint`, `MCCheckpoint`, `CheckpointProofs` | modelled, checked, safety proved |
| `Visits`, `MCVisits`, `VisitsProofs` | modelled, checked, safety proved |
| `FactLog` (abstract), `WriteBehind`, `WriteBehindProofs` | modelled, refinement checked and proved |
| `DelayQueue`, `MCDelayQueue`, `DelayQueueProofs` | modelled, checked, safety proved |
| `Simulation`, `SimulationProofs` | modelled, checked, safety proved |
| `Suite`, `MCSuite`, `SuiteProofs` | modelled, checked, safety proved |
| `Rows`, `VisitStore`, `MemoryStore`, `SqliteStore`, `Stores` | both backends composed, checked |

Left: the rest of `algorithm.py`, and the fold of `merge.py` against a reference definition. `Stores` filters
sequences with `SelectSeq`, whose result only an induction over data can describe, and stays with TLC.

Modules meant for proofs declare their parameters as CONSTANTS with a named ASSUME and use no RECURSIVE
operator. A module whose constants need operators or symmetry has an MC module. A type invariant is an
invariant of a run only where it was worth a run of its own; the `TypeOK` of
`Pool`, `Checkpoint`, `Runner`, `Visits`, `WriteBehind` and `DelayQueue` is proved.

## 3. `Pool`, `LeaseTable`, `MCPool`

An action is a stretch of code between two awaits.

| Action | Code |
|---|---|
| `Acquire(c)` | a call of `pool.acquire`: `try_acquire`, then give up, park or back off, by algorithm |
| `Resume(c)`, `TimeOut(c)`, `WakeUp(c)`, `Cancel(c)` | the four ways in which a wait ends |
| `ReleaseNow(l)`, `ReportOk(l)`, `ReportFailure(l)`, `Degrade(l)` | the methods of a `Lease` |
| `BeginAttempt(a)`, `EndAttempt(a)` | the attempt in `Runner._execute_task`, and `reclaim_now` |
| `Publish(r, n)`, `Revoke(r)` | `Pool.add`, `Pool.revoke` |
| `CooldownOver` | the notifier task of `_ensure_cooldown_notifier` |
| `Observe` | `stats` and `snapshot`, which refresh every slot as a side effect |
| `Tick` | one unit of time |

`slot`, `lease` and `tracked` are `_Slot`, `Lease` and `TaskContext._leases`; `event`, `budget` and `nap`
are a caller's `_Waiter.event` and its deadlines; `timer` is the armed notifier. Deadlines are kept as
the time that is left, so time needs no bound. `blocked_until` matters only while a slot is degraded.
`try_acquire` chooses among the least busy candidates; the rest of the ranking (latency, round robin) is
a nondeterministic choice. A factory is called inside `select`, may raise for several candidates in a
row, and each failure goes through the circuit breaker.

Left out: statistics that nothing branches on, events, subscriptions, the Bus, asynchronous factories,
and the algorithms `Failover`, `Sticky` and `QuotaAware` (`LeastBusy` is `Wait` over the same selection).

`LeaseTable` says what tasks are promised: a lease is granted on a resource that is open and has room,
never moves to another one, and goes back once.

### Runs

| Run | Shows |
|---|---|
| `PoolLeases` | `ActiveCountsLeases`, `WithinCapacity`, `TrackedAreHeld`, `EndReturnsAll`, `FailuresOnlyForgivenBySuccess`, `ImplementsLeaseTable`: two attempts, whose children may outlive them, two resources, three leases; a factory that fails, a resource that is revoked, one that is published; a waiting, a backing-off and an immediate caller |
| `PoolWaiting` | `NoLostWakeup`, `CooldownWakesWaiters`, `BoundedWait`: two callers parked on overlapping sets of resources whose cooldowns differ, so that a later deadline can be armed before an earlier one, and a third that backs off. No factory fails here (section 12) |

Bounds. Two resources are the least with which a release of the wrong one can wake a caller, and with
which one of two cooldowns ends first; three leases over resources of capacity one let a pool fill up; the
breaker degrades after one failure and is dead after two (three where it has to degrade twice).

Fairness (`FairSpec`): the loop runs every coroutine that is ready (one weak fairness per caller, for
whatever ends its wait), fires the notifier, and time passes. Nothing is assumed of user code: a lease
may be kept for ever.

Two constants say what the runs and the proofs assume, or do not. With a smaller capacity in
`Capacities`, `Publish` leaves `active` above the capacity until leases come back, although
`ResourceStats` documents `0 <= active <= resource.capacity`; TLC finds this at once (`WithinCapacity`), and
the runs keep the capacities as they are. With `Stragglers`, a child coroutine that the task did not await
goes on after its attempt: it may report on a lease that was reclaimed, release it again, and acquire through
the context of the ended attempt. `PoolLeases` has such children, `PoolWaiting` does not. What the
end of an attempt promises is `EndReturnsAll`: at that moment everything held for it goes back. A lease that a
child takes afterwards is tracked and counted like any other, but nobody reclaims it. Nor is there an order
among callers: a newcomer takes a resource that was released for an older waiter.

## 4. `Runner`, `MCRunner`

| Action | Code in `runner.py` |
|---|---|
| `Admit`, `SourceEnds`, `SourceRaises`, `Handed`, `NotHanded`, `Leave` | the producer in `run_async`, `_wait_for_admission`, `_hand_over`, `_wait_for_completion` |
| `BeginShutdown`, `SendSentinel`, `SentinelsAborted`, `GraceOver`, `End` | `_shutdown`, `_mark_deferred_interrupted`, the end of `run_async` |
| `Stop`, `CancelRun`, `CancelDrain`, `CancelShutdown` | `stop` (user, signal, time budget) and a cancellation of `run_async`, by where it is |
| `Pump` | `DelayQueue.pump` in `scheduler.py` |
| `Take` (`Dispatch`) | `_worker_loop` from `queue.get` to the task's code, including `_open_pipeline` |
| `OpenFails` (of `Dispatch`) | the same, if `_open_pipeline` raises |
| `Succeed`, `Fail`, `Reported`, `Park` | `_drive` after an attempt: the terminal write, the event that reports it, a retry |
| `Surprise`, `Unrecorded` | the worker loop's handler of framework errors (`_finish_pipeline_after_internal_error`), and its failure |
| `Die`, `Supervise` | a worker ended by a BaseException; `_on_worker_done`, `_crash_worker`, `_terminalize_crashed_pipeline` |
| `Cancelled`, `SelfCancel`, `Swallow` | a cancellation that reaches a worker, one that the task raises itself, one that is overtaken by a result |

`phase` is where `run_async` is; `queue`, `parked`, `offer` and `worker` say where each pipeline is;
`row` is its state in the store; `admitted`, `done` and `failed` are the counters, `flags` the Boolean
fields (`_stopping`, `_hard_stop`, `_abort`, ...). What may go wrong is a constant, `Faults`, so that a
run says which faults its properties survive:

* `source`: the iterator raises; `conflict`: `_open_pipeline` finds another definition's row;
* `surprise`, `afterCount`, `afterPark`: an exception of the framework or the store before anything
  was counted, after it was counted and maybe recorded, and after the pipeline was parked;
* `unrecorded`: the recovery from it, or of a cancellation, cannot write either;
* `death`: an exception escapes the worker loop, from a task or from the event of a recorded error;
* `selfCancel`, `swallow`: see above. A store that fails while a cancelled attempt is recorded has the
  effect of `swallow` followed by `surprise`.

A terminal write and its event have no await between them, but the event may raise when the row is written and
the pipeline counted, and the handler then rewrites the row as failed, a success too. So the worker
is `reporting` in between, and `AtAwait` lets nobody else run meanwhile but a request to stop, which may come from
another thread.

Abstractions: a pipeline is one task (going on to the next changes nothing here); a parked pipeline is due
at any time; `KeyboardInterrupt` and `SystemExit`, which tear the loop down, are left out; a row is
its state. Pipelines of earlier runs are `Done` (succeeded) or new.

### Runs

| Run | Faults, bounds | Shows |
|---|---|---|
| `RunnerCrashes` | surprise, death, unrecorded, selfCancel, swallow; cancellation in every phase; 3 pipelines, 2 workers, 2 admitted | `AdmissionBounded`, `RunningIsOwned`, `HistoryIsKept` |
| `RunnerGraceful` | source, surprise; stop, no cancellation; 4 pipelines, 1 worker, queue of 2 | `CountersAgree`, `CompletedMeansAll`, `StoppedIsRecorded` |
| `RunnerEnds` | source, surprise, afterCount, afterPark, death, unrecorded, conflict; cancellation in every phase; 4 pipelines, two of them done by an earlier run, 1 worker | `OnePlace`, `HistoryIsKept`, `RunEnds` |

`HistoryIsKept` says when a run rewrites what it has recorded: a success only by a framework error, which counts
it as a failure, and a failure only if a retry of the pipeline was scheduled before the error that recorded it.
`RunningIsOwned` says who is left to care for a row that says running. A pipeline that was parked and is back on the
work queue is cared for as long as the workers have not all taken their sentinels: nothing is queued behind
those, so a run that drains leaves nobody behind. A run that is forced to its end (a hard stop, a grace that
expires, a cancellation) stops short of that, and leaves such rows to the next run's `interrupt_stale`.

Bounds. With one worker the queue holds two, so the fourth pipeline (one executing, two queued) is the
first the producer has to wait with: the smallest instance in which a producer, a pump and a sentinel
compete for room. Two workers and two admitted pipelines are the least in which one worker's death
finds another one busy. Two attempts are one retry. A run is cancelled at most once.

`RunnerCrashes` does not check for deadlock: a task that cancels itself ends its worker unnoticed, and a
result that overtakes a cancellation (`swallow`) leaves a hard shutdown waiting, since it cancels each
worker once, sends no sentinels and waits for all of them. Both can hang a run (section 12), so `RunEnds` is
checked without them.

Fairness. `LoopFairness` is the event loop: the producer, the pump and every worker take a step that is
possible (a cancellation reaches its worker, a timer fires, a poll of 0.5 s ends). `TaskFairness` adds
that an attempt comes to an outcome, which the code leaves to the user's task and its `timeout_s`;
`RunEnds` needs it: `grace_s` ends attempts that do not end, but it starts to count only when all
sentinels have been delivered, which behind a full queue waits for the attempts.

## 5. `Checkpoint`, `MCCheckpoint`

One forward pipeline in a SQLite store, over several runs. An action is at most one transaction, followed by
the changes of memory up to the next one.

| Action | Code |
|---|---|
| `Start`, `Stop` | a process begins (and claims a dead run's row with `interrupt_stale`), ends or dies |
| `Conflict`, `Skip`, `OpenAtEnd`, `OpenAtCheckpoint`, `OpenAtZero` | `_open_pipeline` up to its first write |
| `MarkRepair`, `Settle`, `RepairFails` | `_settle_terminal_cursor`, `_settle_succeeded` |
| `Refuse`, `Check`, `StoreSeed` | `_open_pipeline` after its first write |
| `BeginTask`, `TaskSucceeds`, `TaskFails`, `Advance`, `CommitCursor`, `MarkFinal`, `Finish`, `Told` | `_begin_task`, `_execute_task`, `_drive` |
| `HandOver`, `HandOverPayload` (by `CommitHandoff`), `Land` | `commit_handoff` of the store, `_commit_handoff` of the Runner |
| `StoreRaises`, `Recover`, `Interrupt`, `WorkerDies` | the handlers of `_worker_loop`, `_finish_pipeline_after_internal_error`, `_terminalize_crashed_pipeline` |
| `Spoil` | a blob is deleted or no longer decodes |

`row`, `art` and `ledger` are the tables `pipelines`, `artifacts` and `handoffs`, `final` the column
`is_final` of the second; `seq`, `input` and `done`
are `_RunState.seq`, its value and artifact, and the cursor of the record in memory, which runs ahead of
the row at some points and behind it at others. A ledger row's id is its index. `epoch`, `reached` and
`health` are history. A value is the execution and the position it was made for, which is all that the
properties tell apart.

The run `Checkpoints` shows `InputFits`, `SuccessIsWhole`, `CleanRunSucceeds`, `FloorSeparates`
and `NothingIsRepeated`. Three tasks are the least with a task to skip and one after it; two handoffs
are a hop followed by an early end, or one in each of two executions; the declared edges lead to the next
task, over it, and to the end from either of the first tasks; three runs are a broken one,
one whose recovery breaks too, and one that has to cope with both. Two calls of the store may raise and two
payloads may get lost. Where the payload of a handoff is lost the pipeline starts over, as `_open_pipeline`
says, even if an artifact from before the handoff is left in front of its target: `NothingIsRepeated` asks for
no more than that. The run does not check for deadlock: when the runs are used up nothing is left
to do.

Left out: task, attempt and event rows, retries (they do not touch what opening reads), a store without
`settle_pipeline`, and two runs at once. Backward pipelines open by their visits and are the subject of the
next section.

## 6. `Visits`, `MCVisits`

A pipeline whose control block declares rewinds keeps a traversal record. `Visits` has several runs over one
such pipeline, at once or one after the other: silence is not death, so a resuming run may take over a row
whose owner is alive.

| Action | Code |
|---|---|
| `Start`, `Skip`, `Open`, `Reset`, `Repair`, `Upsert` | `interrupt_stale`, `_open_pipeline` and `_open_backward_pipeline`, `reset_visits`, `repair_visit_terminal` |
| `BeginTask`, `Attempt`, `Succeed`, `Retry` | `commit_entry`, `commit_visit_attempt`, `commit_visit_success` |
| `HandOver`, `HandOverPayload`, `RetryAllTasks` (by `Transfer`) | `commit_control_transition` |
| `Tell` | the report of a success, after its transaction; it may raise, and the row is rewritten as failed |
| `Raise`, `Recover`, `Fail`, `Die` | the handlers of `_worker_loop`, an attempt that fails for good, a crash |
| `Spoil`, `LoseTraversal` | a payload, or the traversal record itself, is gone |

Every transaction of `store/visits.py` is one step that checks its caller's entry first (`Owns`). `trav` is the
record, `tasks` and `art` the addresses in use, `ledger` the transfers, `mem` the `_RunState` of each run;
`budgetFrom` is history.

The run `Visits` shows `OneOutcome` (a visit ends once, although two runs execute it), `FollowsTraversal` (what
comes next works on what this traversal made for it, and nothing behind the cursor is in effect),
`BudgetKept` and `AddressesAreFresh`. Three tasks are the least with something before, at and behind the
target of a rewind; two runs are the taker and the one taken over; one transfer within the limit and one
beyond it, one lost payload and one lost record put a restart on either side of a transfer. It stops when
the runs are used up. Left out: task states and attempts, and the import of an older store.

## 7. `WriteBehind`, `FactLog`

`WriteBehindStore` buffers attempts and events. `FactLog` is the promise: of each kind, what is on disk is a
prefix of what was accepted. `WriteBehind` is the code, over an inner store that writes a batch in one
transaction (`WriteBatch`, `BatchFails`) or record by record (`WriteOne`, `Acknowledged`, `WriteFails`, after
which it is not known whether the record landed, and the store refuses all further facts). `Record` is
`record_attempt` and `emit_event`, `Call` any other call that flushes first, `Kill` and `Open` end and start
a process.

The run `WriteBehind` shows `ImplementsFactLog`, `CommitsBehindFacts` and, under fairness, `BufferDrains`.
Four facts over batches of three are a full batch, a rest and a failure in the middle; two failures and two
processes let a failed flush be followed by another, and by a restart. Fairness: the
heartbeat calls again and again, and a flush that has begun goes on. Both are justified: the runner beats
every few seconds (`runner.py`, `_heartbeat_loop`), and a flush has no await in it. A flush of the heartbeat that
fails is swallowed; a heartbeat whose own write fails ends the loop (`BeatRaises`), and `BufferDrains`
promises nothing after that.

## 8. `DelayQueue`, `MCDelayQueue`

`scheduler.py` by itself: `Push`, the pump (`Wait`, `Sleep`, `Rouse`, `Choose`, `HandOver`), `Stop` with its
drain, and the workers and the producer that take and make room (`Take`, `Produce`). Between `Choose` and
`HandOver` the pump waits in `await sink(...)`, and then pops whatever is the head of the heap.

The run `DelayQueue` shows `HandedOverOnce` and `NeverOversleeps`. The first is about an order nobody would
write a test for: a push during the wait for room could put another entry at the head, which would then be
popped instead of the one handed over. It cannot, because a delay below zero counts as zero and equal deadlines
keep their order; the mutant that takes delays as they are breaks it. Three items, room for two, and
delays from below zero to two are the least with an entry handed over, one in front of it and one behind it.

## 9. `Simulation`

The benchmark's virtual time (`benchmark/clock.py`) with the workers of the harness on it. The
event loop is explicit: `clock.ready` is its queue, and a callback runs to its next await before the next
one starts, because *which* callbacks are ready when the probe runs is all that the clock knows of.

| Action | Code |
|---|---|
| `Claim`, `Enter`, `Acquire`, `WaitSlot`, `Nap`, `Unavailable`, `Ends` | the worker of `harness.py` and the pool's `acquire`, inside `clock.blocked()` |
| `Refuse`, `Admit`, `Succeed`, `Fail`, `Retry`, `GiveUp` | `provider.py`, the lease's report, the retry policy |
| `Resume`, `Unwind`, `RemoveWorker` | an await that ends, a cancelled one, the done-callback of a worker |
| `ProbeAgain`, `ProbeAdvances` | `VirtualClock._probe`, `_advance` |
| `NotifierSleeps`, `NotifierTells` | the pool's notifier, which sleeps on the same clock |
| `Supervise`, `WallBudget` | the supervisor (all endpoints dead) and the wall clock budget, which cancel |

The run `Simulation` shows `CountsAgree`, `SoundAdvance` and `SimulationEnds`. Three workers over two leases
make one wait while two are served; latencies of one and two let timers be due together and apart;
`IdleTicks` is three, where the code has sixteen. Three is enough for `SoundAdvance`, one and two are not: a worker that
is woken in a chain of callbacks needs that many turns of the loop to be seen, so the code's constant
has a margin; section 13 proves that three is enough for any number of workers. That there is a worker at all is what
`scenario.py` asks of `concurrency`. Fairness: the loop runs (`WF` of `LoopStep`), and the supervisor, a timer of the real loop,
comes up again and again between callbacks (`SF`). Nothing is assumed of the wall budget: the runs end without
it.

Worth knowing: `Backoff` sleeps on the clock inside `blocked()`, so that its worker counts both as parked and
as blocked. With enough such workers the sum reaches the number of workers while one of them still runs;
only the quiet probes keep time from moving then. And a run that is being cancelled may still see one
advance. Left out: `ScaledClock`, the statistics, the storms of a provider (an empty bucket at any time stands
for them).

## 10. `Suite`, `MCSuite`

One run over several experiments: a catalog, and a database per experiment or one for all. A commit is a step;
invocations follow each other over one output root, may be killed between two commits, and two may be
started at once.

| Action | Code |
|---|---|
| `CreateCatalog`, `Publish`, `RefuseRoot`, `Open`, `CreateChild`, `Register` | `SuiteStore.create`, `open`, the writer lock, `register` |
| `Start`, `InterruptStale`, `InterruptRuns`, `Prepare` | `start_run`, `interrupt_stale` database by database, `prepare` |
| `AdmitCatalog`, `AdmitChild`, `SourceEnds`, `SourceFails` | the round robin over the sources, the two halves of `admit` |
| `Skip`, `Begin`, `Attempt`, `Finish` | what the runner's workers write through `_child` |
| `Flush` | `flush`, by the heartbeat or a read, and a full batch |
| `Stop`, `CloseSources`, `FinishRun`, `Crash` | the end of a run, and the process's |

The run `Suite` shows `OutcomesTold`, `CompletedIsWhole` and `LiveUntouched`. Two experiments over one open
connection evict each other at every call; two pipelines and limits of one and three cut a source off, or
do not; two invocations are a run and its resume, or two that meet at the lock; one is killed. `Finish` writes
the outcome and leaves the attempts behind it in the buffer: a kill may lose that batch (`store/writebehind.py:15`),
an eviction may not, and the end of the run writes it. Left out: limits
per experiment, queries, and the migration of older catalogs.

## 11. `Stores`, with `Rows`, `VisitStore`, `MemoryStore`, `SqliteStore`

`MemoryStore` and `SqliteStore` model the two backends, one operator per method, over `Rows`, which says how a
dict and a table differ. `VisitStore` is the class of that name: the transactions of a traversal, written
once over hooks that each backend defines. `Stores` drives both with the calls of one run and its successors
and compares their answers, while a reader pages through the SQLite tables.

The run `Stores` shows `BackendsAgree` and `PagesMissNothing`. Two runs are one that is killed and one that
resumes; two tasks, one transfer, two attempts and one event give every table a row that is written twice.
`focus`, a bound, lets each behaviour work on the forward pipeline, the backward pipeline or the facts beside
them, which share no rows.

`BackendsAgree` is about the calls that the runner makes. Outside of these the backends do differ:

* `attempts(limit)` gives the newest rows in memory, the oldest in SQLite; `errors` differs in order and
  limit; a limit of zero and an empty filter are read differently;
* `interrupt_stale` treats a run without a row, or without a heartbeat, as dead in one and alive in the other;
* an upsert in memory replaces `created_at`, name, key and tags, SQLite keeps them; a resource's spec and kind
  are replaced in memory and kept on conflict by SQLite;
* `put_artifact` replaces by `artifact_id` in SQLite, by pipeline and position in memory;
* `finish_run` leaves the heartbeat in place in memory;
* the memory store holds the very records the runner goes on to count in, so that a forward task which has not
  ended shows attempts the database was not told of (`Settled` masks them).

So the comparison leaves out what these would show under the runner's own calls: the heartbeat of a finished run, the
spec of a resource and the order of resources, and the count of attempts of a forward task that has not ended.

Left out: schema migrations, payload files and encodings, handles over several processes.

## 12. Where the code and its documentation part

These were met while modelling. No property of a run is broken by them: the runs check what the code does
hold, and each place below is reachable in the model as it is or by adding the named fault.

1. *Pool.* A factory that fails puts its resource into a cooldown without arming the notifier
   (`resource.py:509`), where `resource.py:688` says the notifier is armed whenever somebody waits; callers that
   are parked already are never woken. With `Factories = Fallible = {r1}` in `PoolWaiting`, `CooldownWakesWaiters` fails.
2. *Runner.* A task that raises `CancelledError` itself ends its worker unnoticed (`runner.py:1049`), and the run
   may never end, although a task's BaseException is said to be contained (`docs/design.md:376`,
   `docs/reference.md:885`) and every worker's death to be seen (`runner.py:645`). With `selfCancel` in `RunnerEnds`,
   `RunEnds` fails.
3. *Runner.* A failed pipeline is counted before it is recorded (`runner.py:1992`); if `finish_pipeline` raises it
   is counted again, and more than `max_admitted` pipelines are open (`docs/reference.md:765`). With `afterCount` in
   `RunnerCrashes`, `AdmissionBounded` fails.
4. *Runner.* The sentinels are delivered outside the `try` (`runner.py:871`): a cancellation there leaves the
   workers running after `run_async` has raised, where `runner.py:856` says they are cancelled straight away.
   `CancelShutdown` does that in `RunnerCrashes` and `RunnerEnds`; no property says that no worker outlives the run.
5. *Runner.* `_mark_deferred_interrupted` (`runner.py:907`) settles what is in the delay queue and misses a retry that
   is back on the work queue; its row stays `running`, although a stopped run is said to leave resumable
   rows (`README.md:165`, `docs/cli.md:20`). With `GraceExpires` in `RunnerGraceful`,
   `StoppedIsRecorded` fails; `RunningIsOwned` names this as the exception it is.
6. *Pool.* A report through an older lease brings a revoked resource back into service (`resource.py:777`), although
   `resource.py:710` calls REVOKED permanent.
7. *Checkpoints.* A result that is lost restarts the pipeline from zero according to `docs/reference.md:1510`; if the
   newest ledger row above the floor is a hop, the code goes on at the hop's target, which repeats less. And a
   store that raises between a handoff's transaction and its event lets the handler write the older cursor over
   the row, where `store/base.py:98` says that the cursor is never silently rewound; the ledger makes up for it,
   as `NothingIsRepeated` shows.
8. *Stores.* The differences of section 11, where `store/memory.py:1` says that the semantics match.

The first five were also reproduced by running the Python code.

Two hazards have no property because the code does nothing against them: there is no order among callers of
a pool, and the time that a graceful stop takes is bounded only from the moment every sentinel is queued
(`runner.py:870`), which behind a full queue waits for the attempts.

## 13. Proofs

`PoolProofs` proves, for any number of resources, attempts, callers and leases, from `ConstantsAssumption`
of `Pool` only (unless said otherwise):

| Theorem | Statement |
|---|---|
| `TypeCorrect` | `Spec => []TypeOK` |
| `ActiveIsCounted` | `Spec => []ActiveCountsLeases` |
| `ContextsTrackHeld` | `Spec => []TrackedAreHeld` |
| `CapacityRespected` | `Spec => []WithinCapacity`, if a republished resource keeps its capacity |
| `EndsReturnAll` | `Spec => EndReturnsAll` |
| `PoolImplementsTable` | `Spec => ImplementsLeaseTable` |

The argument. `TypeOK` alone is not inductive: `GivenBack` subtracts from an active count, which stays
natural only because the leases that are given back were counted. The inductive invariant `LeaseInv` is
therefore `TypeOK`, `ActiveCountsLeases` and `TrackedAreHeld` together. The lemma `StepKinds` sorts the
steps of `Next` by what they do to leases: most change no lease and no active count (`Quiet`), the others
take one lease (`TakeCandidate`), return one (`ReleaseNow`), or begin or end an attempt; each kind gets a
lemma about cardinalities. `CapacityRespected` adds one conjunct. `EndsReturnAll` is `TrackedAreHeld` at the moment of
`reclaim_now`: what the context tracks is all that is held for it. The refinement maps a `Quiet` step
to `Change`, taking to `Grant`, and returning to `GiveBack`.

Its second part is about callers that wait and slots that fail:

| Theorem | Statement |
|---|---|
| `NoWakeupLost` | `Spec => []NoLostWakeup`, if no factory can fail |
| `FailuresRemembered` | `Spec => FailuresOnlyForgivenBySuccess` |

The argument. A wakeup is lost if a resource becomes available and nobody tells a caller parked on it. `WakeInv`
says who will: a resource that can be taken now has told its waiters (`AvailableAnnounced`); a degraded one with
waiters is `Watched`, by a timer that ends no later than its cooldown, or because it has ended and its waiters were
told (`CooldownsWatched`). A caller that goes to sleep refreshes every slot it looks at and arms the timer for the
earliest (`LookKeeps`); every other step edits one slot and tells its waiters (`EditKeeps`). A factory that fails
degrades a slot after the timer was armed, which is the case of section 12, and is excluded.

`CheckpointProofs` proves, for a chain of any length, any edges, and any number of runs, failing calls,
lost payloads and handoffs, from `ConstantsAssumption` of `Checkpoint`:

| Theorem | Statement |
|---|---|
| `TypeCorrect` | `Spec => []TypeOK` |
| `FloorsSeparate` | `Spec => []FloorSeparates` |
| `InputsFit` | `Spec => []InputFits` |

The argument. A task's input depends on what earlier runs left behind, so the inductive invariant
`CheckpointInv` says what the store promises while nobody looks. `CursorInv`: a cursor of *k*, in the row or
in memory, means that the output of task *k - 1* in this execution is stored, unless a handoff of this
execution went as far. `EntryInv`: the entry of a handoff of this execution is stored, lies
before the handoff's target in the chain or behind the chain, so that no task from the target on
overwrites it, and the targets grow. `LedgerInv` contains `FloorSeparates`, and `WorkInv` says how row and
memory differ at each point of a run. The lemma `OpeningFits` is the heart: wherever opening decides to go on,
these promises give the value made for that position. Most steps change neither artifacts nor ledger and
share the lemmas about a `Frame`; the others are shown to overwrite nothing that is relied on (`Keeps`).

Its second part builds on `CheckpointInv` and proves what the runs achieve together:

| Theorem | Statement |
|---|---|
| `CleanRunsSucceed` | `Spec => []CleanRunSucceeds` |
| `SuccessesAreWhole` | `Spec => []SuccessIsWhole` |
| `NothingRepeated` | `Spec => NothingIsRepeated` |

The argument. `ReachInv` is the heart of the last one: a run whose transaction landed but whose memory did not
follow writes an older cursor over a newer one, so the cursor alone forgets; it can do so only after a handoff, and
then the newest row above the floor leads as far as anybody got. The lemma `OpensAtReached` follows the
decisions of opening from there. `WholeInv` says what is true between the final mark and the terminal
row, in a run and in a repair, and that whatever opening takes for the result of a pipeline at its end is
one (`EndIsResult`), with `OwnInv`: a handoff carries values of its own execution.

`RunnerProofs` proves, for any number of pipelines and workers, any limits, and all the faults and
cancellations that the second column does not exclude, from `ConstantsAssumption` of `Runner`:

| Theorem | Excluded | Statement |
|---|---|---|
| `TypeCorrect` | | `Spec => []TypeOK` |
| `DrivenOnce` | | `Spec => []OnePlace` |
| `AdmissionIsBounded` | `afterCount`, `afterPark` | `Spec => []AdmissionBounded` |
| `CountersKeepUp` | `afterCount`, `afterPark` | `Spec => []CountersAgree` |
| `HistoryStays` | | `Spec => HistoryIsKept` |
| `RunningHasOwner` | | `Spec => []RunningIsOwned` |
| `CompletedIsAll` | `afterCount`, `afterPark`, `selfCancel` | `Spec => []CompletedMeansAll` |
| `StopsAreRecorded` | every fault but `source`, `surprise`, `afterCount`, `afterPark` and `swallow`; cancellations; a grace that expires | `Spec => []StoppedIsRecorded` |

What is excluded is what breaks the property, by section 12 where a document promises otherwise: an exception
after a pipeline was counted counts it twice, one after it was parked counts a pipeline that will be driven
again, a task that cancels itself takes its pipeline with it.

The argument. The work queue is a sequence and the counters are numbers, so everything rests on where the
pipelines are. `PlaceInv` says that each is in the queue at most once, with at most one worker, and in no two of
source, hand, queue, workers and delay queue. The lemma `StepMoves` sorts every step of `Next` into one `Move`
of at most one pipeline between these places (`Admits`, `Hands`, `Starts`, `Parks`, `Leaves`, ...); the
invariance of `PlaceInv` and of `CountInv`, which relates the number of pipelines in the places to the
counters, is then a case for each kind of move instead of one for each action. `CountInv` is an inequality at all
times and an equality until something is dropped on purpose (`Lossy`). `RowSteps` sorts the steps once more by
what they do to the rows, for the invariants behind `HistoryStays` and `RunningHasOwner` (`OpenedInv`,
`LiveInv`, `OwnedInv`). `RunningHasOwner` needs the order of the queue as well (`LastInv`: once there are
sentinels the last entry is one), so that a queue without sentinels is empty when all of them were sent.
`DoneInv` says what each phase knows of the pipelines that are no longer anywhere.

`StopsAreRecorded` is about the end of a run that stops or completes by itself. `GracefulInv` adds the order of the
queue to `OwnedInv`: nothing but sentinels is behind a sentinel (`SentinelsLast`), because they are sent when the
pump and the producer can queue nothing more (`SentinelsLate`), and a worker leaves only when it takes one, with
no pipeline behind it (`GoneLast`). So when every worker is gone the queue is empty, and a row that still says
`running` has no owner left but the delay queue, whose pipelines the end settles. The excluded faults leave work
without its worker or stop the run hard; for a grace that expires see 5 in section 12.

`VisitsProofs` proves, for a chain of any length, any forward and backward edges and any number of runs over
one pipeline, from `ConstantsAssumption` of `Visits`:

| Theorem | Statement |
|---|---|
| `TypeCorrect` | `Spec => []TypeOK` |
| `VisitsAreFresh` | `Spec => AddressesAreFresh` |
| `OneOutcomePerVisit` | `Spec => []OneOutcome` |
| `RunsFollowTheTraversal` | `Spec => []FollowsTraversal` |
| `BudgetIsKept` | `Spec => []BudgetKept` |

The argument. `AddressInv` holds what allocation relies on: the high-water marks cover every visit that has a
task row (`CountersCover`), the visit under way has not ended (`PendingOpen`), whatever the ledger names has a
row (`LedgerHasTasks`, which is what the restart after a lost record reads the marks from), and payloads are
written for visits that exist. `FollowInv` says where the next input comes from (`InputFollows`: the seed,
the artifact in effect before the cursor, or the newest transfer) and that nothing from the cursor on is in
effect; for the runs, that the visit each executes has a row, and that whoever still owns the visit under way
has its input in memory (`InputsAgree`). A run that was taken over keeps its stale memory; it no longer
`Owns`, and the lemma `OthersFollow` needs `VisitsAreFresh` to know that it never will again. `BudgetInv`
identifies the counter of the record with the transfers in the ledger since `budgetFrom`.

`WriteBehindProofs` proves, for any facts, any batch size, any number of failures and processes, and both
kinds of inner store:

| Theorem | Statement |
|---|---|
| `TypeCorrect` | `Spec => []TypeOK` |
| `NothingOvertakesFacts` | `Spec => []CommitsBehindFacts` |
| `BufferImplementsLog` | `Spec => ImplementsFactLog` |

The argument. `BufferInv` says when records at the head of the buffer can be rows already (`sent`): only in a
flush that is under way or after a failure that has blocked the store, only with an inner store that has no
transaction, and never an event before every attempt. With it every step maps to `FactLog`: recording accepts a
fact, the steps that move rows persist one or more, a death loses what was not written, and the rest stutters.

`DelayQueueProofs` proves, for any items, delays and room:

| Theorem | Statement |
|---|---|
| `TypeCorrect` | `Spec => []TypeOK` |
| `PumpWakesInTime` | `Spec => []NeverOversleeps` |
| `ParkedHandedOverOnce` | `Spec => []HandedOverOnce` |

The argument. The heart is `HandsHead`: from `Choose` to `HandOver` the chosen entry stays the head of the heap,
because it is due, and what is pushed meanwhile is due no earlier and comes later in the order of pushes.
Then the item that the pump pops is the one it put on the queue, and every item is at one place (`OnceEach`,
`Apart`, `Kept`, `Ended`).

`SuiteProofs` proves, for any sources, selections, limits and layouts, any number of invocations and any number
of crashes, from `SuiteAssumption` (a source yields each pipeline once, and no two sources the same one):

| Theorem | Statement |
|---|---|
| `OutcomesAreTold` | `Spec => []OutcomesTold` |
| `CompletedAreWhole` | `Spec => []CompletedIsWhole` |
| `LiveAreUntouched` | `Spec => LiveUntouched` |

The argument. `SuiteInv` has three parts. The types. The writer lock: at most one living invocation is past
`Open` (`OneWriter`). And the accounts: what a worker has in hand is open in its run's outcomes, and once begun the
row is that run's and says so (`InHand`); a row that says running has such a worker, or its run was killed
(`RowOwned`); a pipeline between the two halves of `admit` has no outcome yet (`Admission`); each stream was
admitted up to where it was read and not behind (`Fed`), with nothing behind an end that is known (`Exhausted`).
The first theorem is the trigger of the pipelines table against these. The second is counting: an experiment is
completed if its source is exhausted, so that every pipeline of it has an outcome, and no outcome is any but
succeeded or skipped. The third is where the lock enters: `interrupt_stale` closes every running row of another
run, and by `RowOwned` and `OneWriter` another run's row is that of a dead one. For the proofs the disjuncts of
`Next` have a name for one invocation (`Step`).

`SimulationProofs` proves, for any number of workers and endpoints, any latencies, backoffs and policy, and a run
that may be cancelled at any point, from `SimulationAssumption`:

| Theorem | Statement |
|---|---|
| `CountsStayRight` | `Spec => []CountsAgree`, for any `IdleTicks` |
| `TimeMovesSoundly` | `Spec => SoundAdvance`, if `IdleTicks >= 3` |

The hypothesis of the second one is needed: the constructor of `VirtualClock` takes any number from one up, the
harness leaves it at sixteen, and with one or two TLC finds time moving under a worker that could still run.

The argument of the first. The clock is a record that every callback rewrites as a whole, so most of the work is about its
operators: going to sleep, the end of a sleep and the advance change the number of parked workers by that of the
timers they add and remove (`SleepFacts`, `SleepEndsFacts`, `AdvanceFacts`), given that a worker has at most one
timer (`Once`). That in turn needs the event loop: one worker is inside a stretch of code, the one that is running,
and it has no timer (`CountInv`). The blocked workers are those at a place within `acquire`, and each move from
one place to another takes or gives back what the `with` block says (`BlockedChange`).

The argument of the second measures what a quiet probe rules out. The ready queue holds the probe once and the
notifier at most once (`Ordered`), so what one probe leaves behind it runs before the next one. A callback is *calm*
if it is not that of a worker with work to do that no time need pass for (`Deep`), nor of a notifier that has slept. A calm callback either makes the clock busy, which starts the count of quiet
probes again, or queues nothing: a waiter that finds no slot waits again, in line, with no trace on the clock.
Hence `Quieter`: after one quiet probe only calm callbacks are queued behind the probe, after two there are only
calm ones and the probe is the last, and after three it is alone. The rest of `TimeInv` is what this needs
to be inductive: a waiting worker has its place in line (`Waits`), a worker that runs in a quiet time is one that
enters `acquire` or looks for a slot again (`Settles`), and the notifier is not armed a second time while it is
queued or asleep, for which a degraded slot must have some time left to cool down (`Pooled`). Each action
has a lemma of its own; that of the notifier, which empties the line into the ready queue, is the longest
(`NotifierTellsOrdered`).

Only model-checked: `CooldownWakesWaiters`, `BoundedWait`, `RunEnds`, `BufferDrains`, `SimulationEnds` and all other
liveness, which is out of the prover's reach; and of `Stores` `BackendsAgree` and `PagesMissNothing`, for the reason
in section 2.

## 14. Not modelled

Section 1 and the `components` of `PROJECT.json` say what is left out and why. Within what is modelled: the
algorithms `Failover`, `Sticky` and `QuotaAware`, asynchronous factories, the retry policy's arithmetic, a store
without `settle_pipeline`, two runs at once over a forward pipeline, schema migrations, payload files.

The rest keeps no state of its own that outlives a call. `shard.py` and `merge.py` are pure functions (a hash of
the pipeline's id, and a fold by a total order of preference) that unit tests reach well; declarations,
plugins, exports, the monitor, the server and the command line parse, format and read; the task library
is prompts and HTTP.
