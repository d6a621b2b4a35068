------------------------------- MODULE Runner -------------------------------
(***************************************************************************)
(* The scheduling of one run (src/pyattacker/runner.py): the producer that *)
(* admits pipelines, the bounded work queue, the workers, the pump that    *)
(* brings parked retries back, stop conditions, supervision of dead        *)
(* workers, and shutdown.                                                  *)
(*                                                                         *)
(* One event loop: an action is a stretch of code between two awaits. A    *)
(* task's own code is what a busy worker awaits, so a busy worker's next   *)
(* step is any outcome that code can have.                                 *)
(*                                                                         *)
(* Abstractions.                                                           *)
(*  - A pipeline is one task: moving on to its next task, or a forward     *)
(*    handoff, keeps the worker busy with it and changes nothing here. A   *)
(*    rewind parks the pipeline with no delay, as a retry does.            *)
(*  - A parked pipeline becomes due at any time (the delay queue's order   *)
(*    of deadlines is not followed).                                       *)
(*  - A row of the store is its state column; checkpoints are left out.    *)
(*  - A configuration error found in _open_pipeline counts and records the *)
(*    pipeline as Fail does.                                               *)
(*  - stop, the signal handlers and stop_after_s are the one action Stop.  *)
(*  - The waits that poll every 0.5 s are steps enabled by what they poll. *)
(*  - A terminal write and the event that follows it are two steps with    *)
(*    nothing between them (worker state "reporting"): what is raised by   *)
(*    the event finds the row written and the pipeline counted.            *)
(***************************************************************************)
EXTENDS Integers, Sequences, FiniteSets

CONSTANTS
    Pipelines,      \* what the source yields
    Workers,
    MaxAdmitted,    \* RunConfig.max_admitted
    MaxAttempts,    \* of the retry policy
    FailureBudget,  \* RunConfig.stop_after_failures, or Never
    Done,           \* pipelines that an earlier run recorded as succeeded
    MayStop,        \* may somebody ask the run to stop?
    GraceExpires,   \* may a graceful drain outlast grace_s?
    CancelIn,       \* phases in which the caller may cancel run_async
    Faults,         \* what may go wrong, out of FaultKinds
    Never, NoItem, Sentinel

Phases == {"admit", "handing", "complete", "shutdown", "sentinels", "draining",
           "cancelling", "ended"}

FaultKinds == {
    "source",      \* the source iterator raises
    "surprise",    \* an exception of the framework or the store, before counting
    "afterCount",  \* ... after the pipeline was counted as done, and maybe recorded
    "afterPark",   \* ... after the pipeline was parked
    "unrecorded",  \* ... and recording it fails as well
    "conflict",    \* _open_pipeline raises PipelineIdentityConflict
    "death",       \* an exception escapes the worker loop
    "selfCancel",  \* the task's code raises CancelledError, nobody cancelled it
    "swallow"}     \* an attempt's result overtakes the cancellation of its worker

ASSUME ConstantsAssumption ==
    /\ MaxAdmitted \in Nat \ {0} /\ MaxAttempts \in Nat \ {0}
    /\ FailureBudget \in Nat \cup {Never} /\ Never \notin Nat
    /\ Done \subseteq Pipelines
    /\ MayStop \in BOOLEAN /\ GraceExpires \in BOOLEAN
    /\ CancelIn \subseteq Phases \ {"ended"}
    /\ Faults \subseteq FaultKinds
    /\ NoItem \notin Pipelines /\ Sentinel \notin Pipelines /\ NoItem # Sentinel
    /\ IsFiniteSet(Workers) /\ Workers # {} /\ IsFiniteSet(Pipelines)

VARIABLES
    phase,     \* where run_async is
    source,    \* pipelines the source has not yielded
    offer,     \* the pipeline run_async waits to put on a full queue, or NoItem
    queue,     \* the work queue
    sent,      \* sentinels put on the queue
    worker,    \* worker -> what it does, and the pipeline it does it for
    doomed,    \* workers with a cancellation that has not reached them
    parked,    \* the delay queue
    opened,    \* pipelines that have a _RunState
    tries,     \* attempts of a pipeline that ended in a retry
    row,       \* pipeline -> state of its row in the store
    admitted, done, failed,   \* _counters
    flags,     \* stopping, hard, abort, conflict, fatal, cancelled, reraise
    status     \* status of the run's row in the store

vars == <<phase, source, offer, queue, sent, worker, doomed, parked, opened, tries, row,
          admitted, done, failed, flags, status>>

producerVars == <<phase, source, offer, sent, admitted, status>>
storeVars    == <<opened, tries, row>>
counters     == <<done, failed>>

Flags == {"stopping", "hard", "abort", "conflict", "fatal", "cancelled", "reraise"}

\* max(2, 2 * concurrency), where concurrency is at least 1
QueueSize == 2 * Cardinality(Workers)

Stopping  == "stopping" \in flags
Room      == Len(queue) < QueueSize
Queued    == {queue[i] : i \in DOMAIN queue} \ {Sentinel}
Busy(w)   == worker[w].pc = "busy"
Reporting(w) == worker[w].pc = "reporting"
Executing == {worker[w].item : w \in {v \in Workers : Busy(v)}}

\* The places of the run: where its admitted pipelines are until they are terminal.
Unfinished == Queued \cup Executing \cup parked \cup ({offer} \ {NoItem})

Idle    == [pc |-> "idle", item |-> NoItem]
Gone    == [pc |-> "gone", item |-> NoItem]
On(p)   == [pc |-> "busy", item |-> p]
Dead(p) == [pc |-> "dying", item |-> p]
Reports(p) == [pc |-> "reporting", item |-> p]

Become(w, what) == worker' = [worker EXCEPT ![w] = what]
Record(p, state) == row' = [row EXCEPT ![p] = state]

\* Counting terminal pipelines, and _check_all_done: the failure budget.
Count(d, f) ==
    /\ done' = done + d
    /\ failed' = failed + f
    /\ flags' = IF FailureBudget # Never /\ failed' >= FailureBudget
                THEN flags \cup {"stopping"} ELSE flags

-----------------------------------------------------------------------------
(* run_async: admission *)

\* _wait_for_admission returns True
MayAdmit ==
    /\ phase = "admit" /\ ~Stopping
    /\ admitted - done < MaxAdmitted

\* The source yields p, and _hand_over puts it on the queue or starts to wait.
Admit(p) ==
    /\ MayAdmit /\ p \in source
    /\ source' = source \ {p}
    /\ admitted' = admitted + 1
    /\ \/ Room /\ queue' = Append(queue, p) /\ UNCHANGED <<phase, offer>>
       \/ ~Room /\ offer' = p /\ phase' = "handing" /\ UNCHANGED queue
    /\ UNCHANGED <<sent, worker, doomed, parked, storeVars, counters, flags, status>>

SourceEnds ==
    /\ MayAdmit /\ source = {}
    /\ phase' = "complete"
    /\ UNCHANGED <<source, offer, queue, sent, worker, doomed, parked, storeVars, admitted,
                   counters, flags, status>>

SourceRaises ==
    /\ "source" \in Faults
    /\ MayAdmit
    /\ phase' = "shutdown"
    /\ flags' = flags \cup {"stopping"}
    /\ UNCHANGED <<source, offer, queue, sent, worker, doomed, parked, storeVars, admitted,
                   counters, status>>

\* _hand_over: the queue has room again
Handed ==
    /\ phase = "handing" /\ Room
    /\ queue' = Append(queue, offer)
    /\ offer' = NoItem
    /\ phase' = "admit"
    /\ UNCHANGED <<source, sent, worker, doomed, parked, storeVars, admitted, counters, flags,
                   status>>

\* Mutation of NotHanded: only room on the queue ends the wait.
NeverGivesUp == FALSE /\ UNCHANGED vars

\* _hand_over returns False: a worker died, the pipeline is admitted no more
NotHanded ==
    /\ phase = "handing" /\ "abort" \in flags
    /\ offer' = NoItem
    /\ admitted' = admitted - 1
    /\ phase' = "shutdown"
    /\ UNCHANGED <<source, queue, sent, worker, doomed, parked, storeVars, counters, flags,
                   status>>

\* Mutation of Finished: a run is finished when its workers are idle.
FinishedWhenIdle == Queued \cup Executing = {}

\* _wait_for_completion
Finished == done >= admitted

Leave ==
    /\ \/ phase = "admit" /\ Stopping
       \/ phase = "complete" /\ (Stopping \/ Finished)
    /\ phase' = "shutdown"
    /\ UNCHANGED <<source, offer, queue, sent, worker, doomed, parked, storeVars, admitted,
                   counters, flags, status>>

-----------------------------------------------------------------------------
(* run_async: shutdown. The pump has been cancelled. *)

Alive == {w \in Workers : worker[w].pc \in {"idle", "busy"}}

CancelWorkers == phase' = "cancelling" /\ doomed' = Alive

BeginShutdown ==
    /\ phase = "shutdown"
    /\ \/ "hard" \in flags /\ CancelWorkers
       \/ "hard" \notin flags /\ phase' = "sentinels" /\ UNCHANGED doomed
    /\ UNCHANGED <<source, offer, queue, sent, worker, parked, storeVars, admitted, counters,
                   flags, status>>

\* One sentinel per worker; a full queue is waited for.
SendSentinel ==
    /\ phase = "sentinels" /\ Room
    /\ queue' = Append(queue, Sentinel)
    /\ sent' = sent + 1
    /\ phase' = IF sent' = Cardinality(Workers) THEN "draining" ELSE phase
    /\ UNCHANGED <<source, offer, worker, doomed, parked, storeVars, admitted, counters, flags,
                   status>>

\* The wait for room is given up when a worker dies.
SentinelsAborted ==
    /\ phase = "sentinels" /\ ~Room /\ "abort" \in flags
    /\ CancelWorkers
    /\ UNCHANGED <<source, offer, queue, sent, worker, parked, storeVars, admitted, counters,
                   flags, status>>

\* grace_s is over before the workers have drained the queue.
GraceOver ==
    /\ GraceExpires
    /\ phase = "draining"
    /\ CancelWorkers
    /\ UNCHANGED <<source, offer, queue, sent, worker, parked, storeVars, admitted, counters,
                   flags, status>>

\* Mutation of Settle: parked pipelines are counted, and their rows forgotten.
CountParkedOnly ==
    /\ row' = row
    /\ parked' = {}
    /\ done' = done + Cardinality(parked)

\* _mark_deferred_interrupted
Settle ==
    /\ row' = [p \in Pipelines |-> IF p \in parked THEN "interrupted" ELSE row[p]]
    /\ parked' = {}
    /\ done' = done + Cardinality(parked)

\* Every worker has ended: the end of _shutdown and of run_async.
End ==
    /\ phase \in {"draining", "cancelling"}
    /\ \A w \in Workers : worker[w].pc = "gone"
    /\ Settle
    /\ phase' = "ended"
    /\ status' = IF {"fatal", "reraise"} \cap flags # {} THEN status
                 ELSE IF Stopping THEN "interrupted" ELSE "completed"
    /\ UNCHANGED <<source, offer, queue, sent, worker, doomed, opened, tries, admitted, failed,
                   flags>>

-----------------------------------------------------------------------------
(* Stop and cancellation from outside *)

Stop ==
    /\ MayStop /\ ~Stopping /\ phase # "ended"
    /\ flags' = flags \cup {"stopping"}
    /\ UNCHANGED <<producerVars, queue, worker, doomed, parked, storeVars, counters>>

\* The caller cancels run_async (bound: once). While pipelines are admitted it stops
\* hard; a put that waits for room is withdrawn.
CancelRun ==
    /\ phase \in {"admit", "handing", "complete"} \cap CancelIn
    /\ "cancelled" \notin flags
    /\ flags' = flags \cup {"cancelled", "stopping", "hard"}
    /\ phase' = "shutdown"
    /\ offer' = NoItem
    /\ UNCHANGED <<source, queue, sent, worker, doomed, parked, storeVars, admitted, counters,
                   status>>

\* While the workers are drained or cancelled, they are cancelled (again).
CancelDrain ==
    /\ phase \in {"draining", "cancelling"} \cap CancelIn
    /\ "cancelled" \notin flags
    /\ flags' = flags \cup {"cancelled", "reraise"}
    /\ CancelWorkers
    /\ UNCHANGED <<source, offer, queue, sent, worker, parked, storeVars, admitted, counters,
                   status>>

\* Before that, only the finally of _shutdown runs.
CancelShutdown ==
    /\ phase \in {"shutdown", "sentinels"} \cap CancelIn
    /\ "cancelled" \notin flags
    /\ flags' = flags \cup {"cancelled", "reraise"}
    /\ Settle
    /\ phase' = "ended"
    /\ UNCHANGED <<source, offer, queue, sent, worker, doomed, opened, tries, admitted, failed,
                   status>>

-----------------------------------------------------------------------------
(* The delay pump *)

\* Mutation of Pump: the pump is still there when the sentinels are queued.
PumpOutlives(p) ==
    /\ phase \in {"admit", "handing", "complete", "shutdown", "sentinels", "draining"}
    /\ p \in parked /\ Room
    /\ queue' = Append(queue, p)
    /\ parked' = parked \ {p}
    /\ UNCHANGED <<producerVars, worker, doomed, storeVars, counters, flags>>

\* A due pipeline moves to the work queue; the pump waits while that is full.
Pump(p) ==
    /\ phase \in {"admit", "handing", "complete"}
    /\ p \in parked /\ Room
    /\ queue' = Append(queue, p)
    /\ parked' = parked \ {p}
    /\ UNCHANGED <<producerVars, worker, doomed, storeVars, counters, flags>>

-----------------------------------------------------------------------------
(* Workers *)

\* _open_pipeline raises. The worker loop records the pipeline as failed, also one that
\* an earlier run has recorded as succeeded (get_pipeline raises, or the event that says
\* it is skipped); the store may not take that, or the exception ends the worker.
OpenFails(w, p) ==
    /\ "conflict" \notin flags /\ p \notin opened
    /\ \/ /\ \/ "surprise" \in Faults /\ Count(1, 1)
             \/ "afterCount" \in Faults /\ row[p] = "succeeded" /\ Count(2, 1)
          /\ Become(w, Idle)
          /\ Record(p, "failed")
       \/ /\ "unrecorded" \in Faults
          /\ done' = done + 1
          /\ failed' = failed + 1
          /\ flags' = flags \cup {"fatal", "hard", "stopping"}
          /\ Become(w, Dead(p))
          /\ UNCHANGED row
       \/ /\ "death" \in Faults
          /\ Become(w, Dead(p))
          /\ UNCHANGED <<row, counters, flags>>
    /\ UNCHANGED <<opened, tries>>

\* What a worker does with pipeline p, and no sentinel, from the queue.
Dispatch(w, p) ==
    \/ \* an identity conflict was found: queued work is dropped
       /\ "conflict" \in flags
       /\ Become(w, Idle)
       /\ UNCHANGED <<storeVars, counters, flags>>
    \/ \* back from a backoff
       /\ "conflict" \notin flags /\ p \in opened
       /\ Become(w, On(p))
       /\ Record(p, "running")
       /\ UNCHANGED <<opened, tries, counters, flags>>
    \/ \* _open_pipeline: nothing to run
       /\ "conflict" \notin flags /\ p \notin opened /\ row[p] = "succeeded"
       /\ Become(w, Idle)
       /\ Count(1, 0)
       /\ UNCHANGED storeVars
    \/ \* _open_pipeline: the stored row belongs to another definition
       /\ "conflict" \in Faults \ flags /\ p \notin opened /\ row[p] = "succeeded"
       /\ Become(w, Idle)
       /\ done' = done + 1
       /\ flags' = flags \cup {"conflict", "hard", "stopping"}
       /\ UNCHANGED <<storeVars, failed>>
    \/ \* _open_pipeline, then _drive up to the task's code
       /\ "conflict" \notin flags /\ p \notin opened /\ row[p] # "succeeded"
       /\ Become(w, On(p))
       /\ Record(p, "running")
       /\ opened' = opened \cup {p}
       /\ UNCHANGED <<tries, counters, flags>>
    \/ OpenFails(w, p)

Take(w) ==
    /\ worker[w].pc = "idle" /\ w \notin doomed
    /\ queue # <<>>
    /\ queue' = Tail(queue)
    /\ \/ /\ Head(queue) = Sentinel
          /\ Become(w, Gone)
          /\ UNCHANGED <<storeVars, counters, flags>>
       \/ Head(queue) # Sentinel /\ Dispatch(w, Head(queue))
    /\ UNCHANGED <<producerVars, doomed, parked>>

Working(w) == Busy(w) /\ w \notin doomed

\* The pipeline is recorded and counted; its event is emitted next.
Succeed(w) ==
    /\ Working(w)
    /\ Record(worker[w].item, "succeeded")
    /\ Count(1, 0)
    /\ Become(w, Reports(worker[w].item))
    /\ UNCHANGED <<producerVars, queue, doomed, parked, opened, tries>>

\* Mutation of Fail: a failed pipeline is not counted as done.
FailUncounted(w) ==
    /\ Working(w)
    /\ Record(worker[w].item, "failed")
    /\ Count(0, 1)
    /\ Become(w, Reports(worker[w].item))
    /\ UNCHANGED <<producerVars, queue, doomed, parked, opened, tries>>

Fail(w) ==
    /\ Working(w)
    /\ Record(worker[w].item, "failed")
    /\ Count(1, 1)
    /\ Become(w, Reports(worker[w].item))
    /\ UNCHANGED <<producerVars, queue, doomed, parked, opened, tries>>

\* The event of a terminal pipeline is emitted: the worker is free.
Reported(w) ==
    /\ Reporting(w)
    /\ Become(w, Idle)
    /\ UNCHANGED <<producerVars, queue, doomed, parked, storeVars, counters, flags>>

\* The policy wants another attempt: the pipeline goes to the delay queue.
PutAside(p) ==
    /\ tries[p] + 1 < MaxAttempts
    /\ tries' = [tries EXCEPT ![p] = @ + 1]
    /\ parked' = parked \cup {p}

\* Mutation of Park: the worker keeps the pipeline it has parked.
ParkAndKeep(w) ==
    /\ Working(w)
    /\ PutAside(worker[w].item)
    /\ UNCHANGED <<producerVars, queue, worker, doomed, opened, row, counters, flags>>

\* Mutation of Park: a parked pipeline gives its admission back.
ParkAndCount(w) ==
    /\ Working(w)
    /\ PutAside(worker[w].item)
    /\ Become(w, Idle)
    /\ Count(1, 0)
    /\ UNCHANGED <<producerVars, queue, doomed, opened, row>>

\* The attempt failed and there will be another: the worker is free meanwhile.
Park(w) ==
    /\ Working(w)
    /\ PutAside(worker[w].item)
    /\ Become(w, Idle)
    /\ UNCHANGED <<producerVars, queue, doomed, opened, row, counters, flags>>

\* An Exception of the framework reaches the worker loop, with n failures counted for
\* it: the loop's own, and one before it if finish_pipeline raised for a failed pipeline.
Raises(w, n) ==
    \/ "surprise" \in Faults /\ Working(w) /\ n = 1
    \/ "afterCount" \in Faults /\ Working(w) /\ n = 2
    \/ "afterCount" \in Faults /\ Reporting(w) /\ n = 1

\* The worker loop records the pipeline as failed, whatever its row says and whatever
\* was counted or parked before; the event of the error may end the worker.
Surprise(w) ==
    /\ \/ /\ \E n \in 1 .. 2 : Raises(w, n) /\ Count(n, n)
          /\ Become(w, Idle) \/ ("death" \in Faults /\ Become(w, Dead(worker[w].item)))
          /\ UNCHANGED <<parked, tries>>
       \/ /\ "afterPark" \in Faults /\ Working(w)
          /\ Count(1, 1)
          /\ PutAside(worker[w].item)
          /\ Become(w, Idle)
    /\ Record(worker[w].item, "failed")
    /\ UNCHANGED <<producerVars, queue, doomed, opened>>

\* ... and the store cannot even take that: the run is stopped, the worker dies.
Unrecorded(w) ==
    /\ "unrecorded" \in Faults
    /\ \E n \in 1 .. 2 : Raises(w, n) /\ done' = done + n /\ failed' = failed + n
    /\ flags' = flags \cup {"fatal", "hard", "stopping"}
    /\ Become(w, Dead(worker[w].item))
    /\ UNCHANGED <<producerVars, queue, doomed, parked, storeVars>>

\* A BaseException ends the worker, before or after the pipeline's terminal write.
Die(w) ==
    /\ "death" \in Faults
    /\ Working(w) \/ Reporting(w)
    /\ Become(w, Dead(worker[w].item))
    /\ UNCHANGED <<producerVars, queue, doomed, parked, storeVars, counters, flags>>

\* A CancelledError reaches the worker loop: the pipeline is recorded and counted, the
\* worker ends. A store that fails here is fatal.
Interrupted(w) ==
    \/ /\ Record(worker[w].item, "interrupted")
       /\ Count(1, 0)
       /\ Become(w, Gone)
    \/ /\ "unrecorded" \in Faults
       /\ flags' = flags \cup {"fatal", "hard", "stopping"}
       /\ Become(w, Dead(worker[w].item))
       /\ UNCHANGED <<row, counters>>

\* The task's own code raised it, for instance by awaiting a cancelled child.
SelfCancel(w) ==
    /\ "selfCancel" \in Faults
    /\ Working(w)
    /\ Interrupted(w)
    /\ UNCHANGED <<producerVars, queue, doomed, parked, opened, tries>>

\* The cancellation of a worker reaches it, at its queue or in the task's code.
Cancelled(w) ==
    /\ w \in doomed
    /\ doomed' = doomed \ {w}
    /\ \/ worker[w].pc = "idle" /\ Become(w, Gone) /\ UNCHANGED <<row, counters, flags>>
       \/ Busy(w) /\ Interrupted(w)
    /\ UNCHANGED <<producerVars, queue, parked, opened, tries>>

\* The attempt's result was there already (wait_for), or its code caught the
\* cancellation: the worker goes on.
Swallow(w) ==
    /\ "swallow" \in Faults
    /\ w \in doomed /\ Busy(w)
    /\ doomed' = doomed \ {w}
    /\ UNCHANGED <<producerVars, queue, worker, parked, storeVars, counters, flags>>

\* Mutation of TerminalAfterCrash: whatever the row says, the crash is blamed on it.
BlamedAfterCrash(p) == IF Stopping THEN "interrupted" ELSE "failed"

\* _terminalize_crashed_pipeline: the persisted row decides.
TerminalAfterCrash(p) ==
    IF row[p] \in {"succeeded", "failed", "interrupted"} THEN row[p]
    ELSE IF Stopping THEN "interrupted" ELSE "failed"

\* _on_worker_done and _crash_worker, in the callback after the worker's death.
Supervise(w) ==
    /\ worker[w].pc = "dying"
    /\ \/ /\ Record(worker[w].item, TerminalAfterCrash(worker[w].item))
          /\ flags' = flags \cup {"hard", "abort", "stopping"}
       \/ /\ "unrecorded" \in Faults
          /\ flags' = flags \cup {"hard", "abort", "stopping", "fatal"}
          /\ UNCHANGED row
    /\ Become(w, Gone)
    /\ UNCHANGED <<producerVars, queue, doomed, parked, opened, tries, counters>>

-----------------------------------------------------------------------------
Init ==
    /\ phase = "admit"
    /\ source = Pipelines
    /\ offer = NoItem
    /\ queue = <<>> /\ sent = 0
    /\ worker = [w \in Workers |-> Idle]
    /\ doomed = {}
    /\ parked = {} /\ opened = {}
    /\ tries = [p \in Pipelines |-> 0]
    /\ row = [p \in Pipelines |-> IF p \in Done THEN "succeeded" ELSE "none"]
    /\ admitted = 0 /\ done = 0 /\ failed = 0
    /\ flags = {}
    /\ status = "running"

ProducerStep ==
    \/ \E p \in Pipelines : Admit(p)
    \/ SourceEnds \/ SourceRaises \/ Handed \/ NotHanded \/ Leave
    \/ BeginShutdown \/ SendSentinel \/ SentinelsAborted \/ GraceOver \/ End

\* What a task's code, and the framework after it, can come to
Outcome(w) ==
    \/ Succeed(w) \/ Fail(w) \/ Reported(w) \/ Park(w)
    \/ Surprise(w) \/ Unrecorded(w) \/ Die(w) \/ SelfCancel(w)

\* run_async has returned or raised.
Over == phase = "ended" /\ UNCHANGED vars

LoopStep(w) == Take(w) \/ Cancelled(w) \/ Swallow(w) \/ Supervise(w)

\* No await lies between a pipeline's terminal write and its event: meanwhile only the
\* worker that emits it runs. A request to stop may come from another thread.
AtAwait == \A v \in Workers : ~Reporting(v)

Next ==
    \/ AtAwait /\ ProducerStep
    \/ AtAwait /\ (CancelRun \/ CancelDrain \/ CancelShutdown)
    \/ AtAwait /\ \E p \in Pipelines : Pump(p)
    \/ \E w \in Workers : (AtAwait \/ Reporting(w)) /\ (LoopStep(w) \/ Outcome(w))
    \/ Stop
    \/ Over

Spec == Init /\ [][Next]_vars

\* The event loop runs what is ready, and timers fire.
LoopFairness ==
    /\ WF_vars(ProducerStep)
    /\ WF_vars(\E p \in Pipelines : Pump(p))
    /\ \A w \in Workers : WF_vars(LoopStep(w))

\* ... and every attempt comes to an outcome.
TaskFairness == \A w \in Workers : WF_vars(Outcome(w))

FairSpec == Spec /\ LoopFairness /\ TaskFairness

-----------------------------------------------------------------------------
(* Properties *)

Items == [pc : {"busy", "reporting", "dying"}, item : Pipelines] \cup {Idle, Gone}

TypeOK ==
    /\ phase \in Phases
    /\ source \subseteq Pipelines /\ parked \subseteq Pipelines /\ opened \subseteq Pipelines
    /\ offer \in Pipelines \cup {NoItem}
    /\ queue \in Seq(Pipelines \cup {Sentinel}) /\ Len(queue) <= QueueSize
    /\ sent \in 0 .. Cardinality(Workers)
    /\ worker \in [Workers -> Items]
    /\ doomed \subseteq Alive
    /\ tries \in [Pipelines -> 0 .. MaxAttempts - 1]
    /\ row \in [Pipelines -> {"none", "running", "succeeded", "failed", "interrupted"}]
    /\ admitted \in Nat /\ done \in Nat /\ failed \in Nat
    /\ flags \subseteq Flags
    /\ status \in {"running", "completed", "interrupted"}

\* Queued, executing and delayed pipelines together never exceed max_admitted
\* (docs/reference.md, RunConfig).
AdmissionBounded == Cardinality(Unfinished) <= MaxAdmitted

\* No pipeline is driven twice at once: each is in at most one of the queue, a
\* worker, the delay queue and the producer's hand.
OnePlace ==
    \A p \in Pipelines :
        Cardinality({i \in DOMAIN queue : queue[i] = p}
                    \cup {w \in Workers : Busy(w) /\ worker[w].item = p})
          + Cardinality({p} \cap parked) + Cardinality({p} \cap {offer}) <= 1

\* The counters that decide completion agree with where the pipelines are, until
\* the run is stopped hard.
CountersAgree ==
    "hard" \notin flags /\ (\A w \in Workers : worker[w].pc # "dying")
        => admitted = done + Cardinality(Unfinished)

\* Every worker has taken its sentinel.
Drained ==
    /\ sent = Cardinality(Workers)
    /\ \A i \in DOMAIN queue : queue[i] # Sentinel

\* A row says "running" only while a worker drives the pipeline, its worker's death is
\* being recorded (docs/design.md 4.7), or it waits for the next attempt. It waits in
\* the work queue only until the workers have taken their sentinels, and nothing is
\* queued behind those; it waits in the delay queue until that is settled, at the end.
\* A run that is forced to its end, by cancellations or deaths of workers, stops short of
\* Drained and leaves queued rows "running" to the next run's interrupt_stale. A store
\* that failed for good and an identity conflict, which drops queued work, are excepted.
RunningIsOwned ==
    \A p \in Pipelines :
        row[p] = "running" /\ {"fatal", "conflict"} \cap flags = {} =>
            \/ p \in Executing \/ \E w \in Workers : worker[w] = Dead(p)
            \/ p \in parked /\ phase # "ended"
            \/ p \in Queued \cup parked /\ ~Drained

\* A run that reports "completed" has taken everything from its source and brought
\* it to success or failure, the parked pipelines included.
CompletedMeansAll ==
    status = "completed" =>
        source = {} /\ \A p \in Pipelines : row[p] \in {"succeeded", "failed"}

\* Once run_async is over no row is left "running": what did not finish is recorded as
\* interrupted.
StoppedIsRecorded == phase = "ended" => \A p \in Pipelines : row[p] # "running"

\* What was recorded is not rewritten by the same run, whichever worker dies, is
\* cancelled or shut down afterwards. Only an error of the framework takes a success
\* back, and it is counted as a failure (_finish_pipeline_after_internal_error); a
\* recorded failure is driven again, or interrupted, only if its retry was scheduled.
HistoryIsKept ==
    [][\A p \in Pipelines :
         /\ row[p] = "succeeded" /\ row'[p] # "succeeded" =>
                row'[p] = "failed" /\ failed' > failed
         /\ row[p] = "failed" /\ row'[p] # "failed" => p \in Queued \cup parked]_vars

\* Every run comes to its end, even if all its workers die.
RunEnds == <>(phase = "ended")

=============================================================================
