---------------------------- MODULE RunnerProofs ----------------------------
(***************************************************************************)
(* What one run keeps to (Runner), for any number of pipelines and workers *)
(* and any limits: every pipeline is in one place, unfinished pipelines    *)
(* are bounded, the counters that end the run agree with where the         *)
(* pipelines are, rows are owned while they say "running", terminal rows   *)
(* are not rewritten but for an error of the framework, and a run that     *)
(* ends gracefully leaves none running.                                    *)
(***************************************************************************)
EXTENDS Runner, FiniteSetTheorems, TLAPS

-----------------------------------------------------------------------------
(* Type correctness. *)

WorkerCount == Cardinality(Workers)

\* What the phases say of the offer, the sentinels and the count of admissions.
PhaseInv ==
    /\ offer # NoItem <=> phase = "handing"
    /\ phase = "handing" => admitted >= 1
    /\ phase \in {"admit", "handing", "complete", "shutdown"} => sent = 0
    /\ phase = "sentinels" => sent < WorkerCount

TypeInv == TypeOK /\ PhaseInv

LEMMA WorkersCounted == WorkerCount \in Nat \ {0}
BY ConstantsAssumption, FS_CardinalityType, FS_EmptySet DEF WorkerCount

LEMMA QueueSizeType == QueueSize \in Nat \ {0} /\ QueueSize = 2 * WorkerCount
BY WorkersCounted DEF QueueSize, WorkerCount

\* A worker that is busy, reporting or dying has a pipeline, the others have none.
LEMMA ItemFacts ==
    ASSUME TypeOK, NEW w \in Workers
    PROVE  /\ worker[w].pc \in {"idle", "busy", "reporting", "dying", "gone"}
           /\ worker[w].pc \in {"busy", "reporting", "dying"} => worker[w].item \in Pipelines
           /\ worker[w] = Idle \/ worker[w] = Gone \/ worker[w] = On(worker[w].item)
                \/ worker[w] = Reports(worker[w].item) \/ worker[w] = Dead(worker[w].item)
BY DEF TypeOK, Items, Idle, Gone, On, Reports, Dead

LEMMA ItemTypes ==
    \A p \in Pipelines : {Idle, Gone, On(p), Reports(p), Dead(p)} \subseteq Items
BY DEF Items, Idle, Gone, On, Reports, Dead

\* Only a busy worker, or one that reports, comes to an outcome.
LEMMA OutcomeWorker ==
    ASSUME TypeOK, NEW w \in Workers, Outcome(w)
    PROVE  /\ Busy(w) \/ Reporting(w)
           /\ w \notin doomed /\ worker[w].item \in Pipelines
<1>1. Working(w) \/ Reporting(w)
  BY DEF Outcome, Succeed, Fail, Reported, Park, Surprise, Raises, Unrecorded, Die, SelfCancel
<1> QED
  BY <1>1, ItemFacts DEF Working, Busy, Reporting, TypeOK, Alive

\* Only the worker that takes a step changes.
LEMMA BecomeFacts ==
    ASSUME TypeOK, NEW w \in Workers, NEW what \in Items, Become(w, what)
    PROVE  /\ worker' \in [Workers -> Items]
           /\ worker'[w] = what
           /\ \A v \in Workers : v # w => worker'[v] = worker[v]
BY DEF TypeOK, Become

LEMMA RecordFacts ==
    ASSUME TypeOK, NEW p \in Pipelines, Record(p, "running") \/ Record(p, "succeeded")
             \/ Record(p, "failed") \/ Record(p, "interrupted")
    PROVE  /\ row' \in [Pipelines -> {"none", "running", "succeeded", "failed", "interrupted"}]
           /\ \A q \in Pipelines : q # p => row'[q] = row[q]
BY DEF TypeOK, Record

LEMMA CountFacts ==
    ASSUME TypeOK, NEW d \in Nat, NEW f \in Nat, Count(d, f)
    PROVE  /\ done' = done + d /\ done' \in Nat /\ failed' \in Nat
           /\ flags \subseteq flags' /\ flags' \subseteq flags \cup {"stopping"}
           /\ flags' \subseteq Flags
BY DEF TypeOK, Count, Flags

\* What a worker is that has no cancellation waiting, or none to lose.
LEMMA DoomedStay ==
    ASSUME TypeOK, NEW w \in Workers, NEW what \in Items, Become(w, what),
           \/ doomed' = doomed /\ w \notin doomed
           \/ doomed' = doomed \ {w}
    PROVE  doomed' \subseteq Alive'
<1>1. \A v \in doomed' : v # w /\ v \in Workers /\ worker[v].pc \in {"idle", "busy"}
  BY DEF TypeOK, Alive
<1> QED
  BY <1>1, BecomeFacts DEF Alive

LEMMA AppendFacts ==
    ASSUME TypeOK, NEW x \in Pipelines \cup {Sentinel}, Room, queue' = Append(queue, x)
    PROVE  /\ queue' \in Seq(Pipelines \cup {Sentinel})
           /\ Len(queue) \in Nat /\ Len(queue') = Len(queue) + 1 /\ Len(queue') <= QueueSize
           /\ \A i \in 1 .. Len(queue) : queue'[i] = queue[i]
           /\ queue'[Len(queue')] = x
BY QueueSizeType DEF TypeOK, Room

LEMMA TailFacts ==
    ASSUME TypeOK, queue # <<>>, queue' = Tail(queue)
    PROVE  /\ queue' \in Seq(Pipelines \cup {Sentinel})
           /\ Len(queue) \in Nat \ {0} /\ Len(queue') = Len(queue) - 1 /\ Len(queue') <= QueueSize
           /\ \A i \in 1 .. Len(queue') : queue'[i] = queue[i + 1]
           /\ Head(queue) = queue[1] /\ Head(queue) \in Pipelines \cup {Sentinel}
BY QueueSizeType DEF TypeOK

LEMMA SettleFacts ==
    ASSUME TypeOK, Settle
    PROVE  /\ row' \in [Pipelines -> {"none", "running", "succeeded", "failed", "interrupted"}]
           /\ \A p \in Pipelines : row'[p] = IF p \in parked THEN "interrupted" ELSE row[p]
           /\ parked' = {} /\ IsFiniteSet(parked) /\ Cardinality(parked) \in Nat
           /\ done' = done + Cardinality(parked) /\ done' \in Nat
<1>1. IsFiniteSet(parked) /\ Cardinality(parked) \in Nat
  BY ConstantsAssumption, FS_Subset, FS_CardinalityType DEF TypeOK
<1> QED
  BY <1>1 DEF TypeOK, Settle

LEMMA TypeInit == Init => TypeInv
<1> SUFFICES ASSUME Init
             PROVE  TypeInv
  OBVIOUS
<1>1. queue \in Seq(Pipelines \cup {Sentinel}) /\ Len(queue) <= QueueSize
  BY QueueSizeType DEF Init
<1>2. /\ worker \in [Workers -> Items]
      /\ tries \in [Pipelines -> 0 .. MaxAttempts - 1]
      /\ row \in [Pipelines -> {"none", "running", "succeeded", "failed", "interrupted"}]
  BY ConstantsAssumption DEF Init, Items
<1>3. sent \in 0 .. Cardinality(Workers)
  BY WorkersCounted DEF Init, WorkerCount
<1> QED
  BY <1>1, <1>2, <1>3, ConstantsAssumption
     DEF Init, TypeInv, TypeOK, PhaseInv, Phases, Flags

\* The steps of run_async and of its shutdown.
LEMMA ProducerTypes == TypeInv /\ ProducerStep => TypeInv'
<1> SUFFICES ASSUME TypeInv, ProducerStep
             PROVE  TypeInv'
  OBVIOUS
<1> USE DEF TypeInv, producerVars, storeVars, counters
<1>0. Alive \subseteq Workers /\ (worker' = worker => Alive' = Alive)
  BY DEF Alive
<1>1. ASSUME NEW p \in Pipelines, Admit(p)
      PROVE  TypeInv'
  <2>1. admitted' = admitted + 1 /\ admitted \in Nat
    BY <1>1 DEF Admit, TypeOK
  <2>2. CASE Room /\ queue' = Append(queue, p) /\ UNCHANGED <<phase, offer>>
    <3>1. queue' \in Seq(Pipelines \cup {Sentinel}) /\ Len(queue') <= QueueSize
      BY <2>2, AppendFacts
    <3> QED
      BY <1>0, <1>1, <2>1, <2>2, <3>1 DEF Admit, MayAdmit, TypeOK, PhaseInv
  <2>3. CASE ~Room /\ offer' = p /\ phase' = "handing" /\ UNCHANGED queue
    BY <1>0, <1>1, <2>1, <2>3, ConstantsAssumption DEF Admit, MayAdmit, TypeOK, PhaseInv, Phases
  <2> QED
    BY <1>1, <2>2, <2>3 DEF Admit
<1>2. CASE SourceEnds
  BY <1>0, <1>2 DEF SourceEnds, MayAdmit, TypeOK, PhaseInv, Phases
<1>3. CASE SourceRaises
  BY <1>0, <1>3 DEF SourceRaises, MayAdmit, TypeOK, PhaseInv, Phases, Flags
<1>4. CASE Handed
  <2>1. offer \in Pipelines
    BY <1>4 DEF Handed, PhaseInv, TypeOK
  <2>2. queue' \in Seq(Pipelines \cup {Sentinel}) /\ Len(queue') <= QueueSize
    BY <1>4, <2>1, AppendFacts DEF Handed
  <2> QED
    BY <1>0, <1>4, <2>2 DEF Handed, TypeOK, PhaseInv, Phases
<1>5. CASE NotHanded
  <2>1. admitted' \in Nat
    BY <1>5 DEF NotHanded, TypeOK, PhaseInv
  <2> QED
    BY <1>0, <1>5, <2>1 DEF NotHanded, TypeOK, PhaseInv, Phases
<1>6. CASE Leave
  BY <1>0, <1>6 DEF Leave, TypeOK, PhaseInv, Phases
<1>7. CASE BeginShutdown
  <2>1. sent < WorkerCount
    BY <1>7, WorkersCounted DEF BeginShutdown, PhaseInv
  <2> QED
    BY <1>0, <1>7, <2>1 DEF BeginShutdown, CancelWorkers, TypeOK, PhaseInv, Phases, WorkerCount
<1>8. CASE SendSentinel
  <2>1. queue' \in Seq(Pipelines \cup {Sentinel}) /\ Len(queue') <= QueueSize
    BY <1>8, AppendFacts DEF SendSentinel
  <2>2. sent' = sent + 1 /\ sent < WorkerCount /\ sent \in Nat
    BY <1>8 DEF SendSentinel, PhaseInv, TypeOK
  <2>3. /\ sent' \in 0 .. WorkerCount
        /\ phase' \in {"sentinels", "draining"} /\ (phase' = "sentinels" => sent' < WorkerCount)
    BY <1>8, <2>2, WorkersCounted DEF SendSentinel, WorkerCount
  <2> QED
    BY <1>0, <1>8, <2>1, <2>3 DEF SendSentinel, TypeOK, PhaseInv, Phases, WorkerCount
<1>9. CASE SentinelsAborted
  BY <1>0, <1>9 DEF SentinelsAborted, CancelWorkers, TypeOK, PhaseInv, Phases, WorkerCount
<1>10. CASE GraceOver
  BY <1>0, <1>10 DEF GraceOver, CancelWorkers, TypeOK, PhaseInv, Phases, WorkerCount
<1>11. CASE End
  <2>1. /\ row' \in [Pipelines -> {"none", "running", "succeeded", "failed", "interrupted"}]
        /\ parked' = {} /\ done' \in Nat
    BY <1>11, SettleFacts DEF End
  <2> QED
    BY <1>0, <1>11, <2>1 DEF End, TypeOK, PhaseInv, Phases, WorkerCount
<1> QED
  BY <1>1, <1>2, <1>3, <1>4, <1>5, <1>6, <1>7, <1>8, <1>9, <1>10, <1>11 DEF ProducerStep

\* A request to stop, cancellations from outside, and the pump.
LEMMA OutsideTypes ==
    ASSUME TypeInv, \/ Stop \/ CancelRun \/ CancelDrain \/ CancelShutdown
                    \/ \E p \in Pipelines : Pump(p)
    PROVE  TypeInv'
<1> USE DEF TypeInv, producerVars, storeVars, counters
<1>0. Alive \subseteq Workers /\ (worker' = worker => Alive' = Alive)
  BY DEF Alive
<1>1. CASE Stop
  BY <1>0, <1>1 DEF Stop, TypeOK, PhaseInv, Flags, WorkerCount
<1>2. CASE CancelRun
  BY <1>0, <1>2 DEF CancelRun, TypeOK, PhaseInv, Phases, Flags, WorkerCount
<1>3. CASE CancelDrain
  BY <1>0, <1>3 DEF CancelDrain, CancelWorkers, TypeOK, PhaseInv, Phases, Flags, WorkerCount
<1>4. CASE CancelShutdown
  <2>1. /\ row' \in [Pipelines -> {"none", "running", "succeeded", "failed", "interrupted"}]
        /\ parked' = {} /\ done' \in Nat
    BY <1>4, SettleFacts DEF CancelShutdown
  <2> QED
    BY <1>0, <1>4, <2>1 DEF CancelShutdown, TypeOK, PhaseInv, Phases, Flags, WorkerCount
<1>5. ASSUME NEW p \in Pipelines, Pump(p)
      PROVE  TypeInv'
  <2>1. queue' \in Seq(Pipelines \cup {Sentinel}) /\ Len(queue') <= QueueSize
    BY <1>5, AppendFacts DEF Pump
  <2> QED
    BY <1>0, <1>5, <2>1 DEF Pump, TypeOK, PhaseInv, WorkerCount
<1> QED
  BY <1>1, <1>2, <1>3, <1>4, <1>5

\* The steps of one worker.
LEMMA WorkerTypes ==
    ASSUME TypeInv, NEW w \in Workers, LoopStep(w) \/ Outcome(w)
    PROVE  TypeInv'
<1> USE DEF TypeInv, producerVars, storeVars, counters
<1> DEFINE Rows == [Pipelines -> {"none", "running", "succeeded", "failed", "interrupted"}]
<1>0. ASSUME UNCHANGED <<phase, source, offer, sent, admitted, status>>,
             worker' \in [Workers -> Items], doomed' \subseteq Alive',
             queue' \in Seq(Pipelines \cup {Sentinel}) /\ Len(queue') <= QueueSize,
             parked' \subseteq Pipelines, opened' \subseteq Pipelines,
             tries' \in [Pipelines -> 0 .. MaxAttempts - 1], row' \in Rows,
             done' \in Nat, failed' \in Nat, flags' \subseteq Flags
      PROVE  TypeInv'
  BY <1>0 DEF TypeOK, PhaseInv, WorkerCount
<1>1. ASSUME Take(w)
      PROVE  TypeInv'
  <2>1. /\ queue' \in Seq(Pipelines \cup {Sentinel}) /\ Len(queue') <= QueueSize
        /\ Head(queue) \in Pipelines \cup {Sentinel}
    BY <1>1, TailFacts DEF Take
  <2>2. CASE Head(queue) = Sentinel /\ Become(w, Gone) /\ UNCHANGED <<storeVars, counters, flags>>
    <3>1. worker' \in [Workers -> Items] /\ doomed' \subseteq Alive'
      BY <1>1, <2>2, BecomeFacts, DoomedStay DEF Take, Items
    <3> QED
      BY <1>0, <1>1, <2>1, <2>2, <3>1 DEF Take, TypeOK
  <2>3. CASE Head(queue) # Sentinel /\ Dispatch(w, Head(queue))
    <3> DEFINE p == Head(queue)
    <3>1. p \in Pipelines
      BY <2>1, <2>3
    <3> HIDE DEF p
    <3>2. /\ \E what \in Items : Become(w, what)
          /\ row' = row \/ Record(p, "running") \/ Record(p, "failed")
          /\ opened' \subseteq opened \cup {p} /\ tries' = tries
          /\ \/ UNCHANGED <<counters, flags>> \/ \E d, f \in 0 .. 2 : Count(d, f)
             \/ /\ done' = done + 1 /\ failed' \in {failed, failed + 1}
                /\ \E why \in {"conflict", "fatal"} : flags' = flags \cup {why, "hard", "stopping"}
      <4>1. Dispatch(w, p)
        BY <2>3 DEF p
      <4> QED
        BY <3>1, <4>1, ItemTypes DEF Dispatch, OpenFails
    <3>3. worker' \in [Workers -> Items] /\ doomed' \subseteq Alive'
      BY <1>1, <3>2, BecomeFacts, DoomedStay DEF Take
    <3>4. row' \in Rows
      BY <3>1, <3>2, RecordFacts DEF TypeOK
    <3>5. done' \in Nat /\ failed' \in Nat /\ flags' \subseteq Flags
      <4>1. CASE UNCHANGED <<counters, flags>>
        BY <4>1 DEF TypeOK
      <4>2. ASSUME NEW d \in 0 .. 2, NEW f \in 0 .. 2, Count(d, f)
            PROVE  done' \in Nat /\ failed' \in Nat /\ flags' \subseteq Flags
        <5>1. d \in Nat /\ f \in Nat
          OBVIOUS
        <5> QED
          BY <4>2, <5>1, CountFacts
      <4>3. CASE /\ done' = done + 1 /\ failed' \in {failed, failed + 1}
                 /\ \E why \in {"conflict", "fatal"} :
                      flags' = flags \cup {why, "hard", "stopping"}
        BY <4>3 DEF TypeOK, Flags
      <4> QED
        BY <3>2, <4>1, <4>2, <4>3
    <3> QED
      BY <1>0, <1>1, <2>1, <3>1, <3>2, <3>3, <3>4, <3>5 DEF Take, TypeOK
  <2> QED
    BY <1>1, <2>2, <2>3 DEF Take
<1>2. ASSUME Outcome(w) \/ (Cancelled(w) /\ Busy(w))
      PROVE  TypeInv'
  <2> DEFINE p == worker[w].item
  <2>1. p \in Pipelines /\ (Outcome(w) => w \notin doomed)
    BY <1>2, ItemFacts, OutcomeWorker DEF Busy
  <2> HIDE DEF p
  <2>2. /\ \E what \in Items : Become(w, what)
        /\ \/ row' = row \/ Record(p, "succeeded") \/ Record(p, "failed")
           \/ Record(p, "interrupted")
        /\ \/ parked' = parked /\ tries' = tries
           \/ PutAside(p)
        /\ UNCHANGED <<phase, source, offer, sent, admitted, status, queue, opened>>
        /\ (doomed' = doomed /\ w \notin doomed) \/ doomed' = doomed \ {w}
    <3>1. CASE Succeed(w) \/ Fail(w) \/ Reported(w) \/ Park(w)
      BY <1>2, <2>1, <3>1, ItemTypes DEF Outcome, Succeed, Fail, Reported, Park, p
    <3>2. CASE Surprise(w) \/ Unrecorded(w) \/ Die(w)
      BY <1>2, <2>1, <3>2, ItemTypes DEF Outcome, Surprise, Unrecorded, Die, p
    <3>3. CASE SelfCancel(w) \/ (Cancelled(w) /\ Busy(w))
      <4>1. /\ Interrupted(w)
            /\ UNCHANGED <<phase, source, offer, sent, admitted, status, queue, opened, parked>>
            /\ UNCHANGED tries
            /\ (doomed' = doomed /\ w \notin doomed) \/ doomed' = doomed \ {w}
        BY <3>3 DEF SelfCancel, Cancelled, Working, Busy
      <4> QED
        BY <2>1, <4>1, ItemTypes DEF Interrupted, p
    <3> QED
      BY <1>2, <3>1, <3>2, <3>3 DEF Outcome
  <2>3. \/ UNCHANGED <<counters, flags>>
        \/ \E d, f \in 0 .. 2 : Count(d, f)
        \/ /\ done' \in done .. done + 2 /\ failed' \in failed .. failed + 2
           /\ flags' = flags \cup {"fatal", "hard", "stopping"}
    <3>1. done \in Nat /\ failed \in Nat
      BY DEF TypeOK
    <3> QED
      BY <1>2, <3>1 DEF Outcome, Cancelled, Busy, Succeed, Fail, Reported, Park, Surprise,
                        Unrecorded, Die, SelfCancel, Interrupted
  <2>4. worker' \in [Workers -> Items] /\ doomed' \subseteq Alive'
    BY <2>2, BecomeFacts, DoomedStay
  <2>5. row' \in Rows
    BY <2>1, <2>2, RecordFacts DEF TypeOK
  <2>6. done' \in Nat /\ failed' \in Nat /\ flags' \subseteq Flags
    <3>1. CASE UNCHANGED <<counters, flags>>
      BY <3>1 DEF TypeOK
    <3>2. ASSUME NEW d \in 0 .. 2, NEW f \in 0 .. 2, Count(d, f)
          PROVE  done' \in Nat /\ failed' \in Nat /\ flags' \subseteq Flags
      <4>1. d \in Nat /\ f \in Nat
        OBVIOUS
      <4> QED
        BY <3>2, <4>1, CountFacts
    <3>3. CASE /\ done' \in done .. done + 2 /\ failed' \in failed .. failed + 2
               /\ flags' = flags \cup {"fatal", "hard", "stopping"}
      BY <3>3 DEF TypeOK, Flags
    <3> QED
      BY <2>3, <3>1, <3>2, <3>3
  <2>7. parked' \subseteq Pipelines /\ tries' \in [Pipelines -> 0 .. MaxAttempts - 1]
    BY <2>1, <2>2, ConstantsAssumption DEF PutAside, TypeOK
  <2> QED
    BY <1>0, <2>2, <2>4, <2>5, <2>6, <2>7 DEF TypeOK
<1>3. ASSUME Cancelled(w), ~Busy(w)
      PROVE  TypeInv'
  <2>1. worker' \in [Workers -> Items] /\ doomed' \subseteq Alive'
    BY <1>3, BecomeFacts, DoomedStay DEF Cancelled, Items
  <2> QED
    BY <1>0, <1>3, <2>1 DEF Cancelled, TypeOK
<1>4. ASSUME Swallow(w)
      PROVE  TypeInv'
  <2>1. doomed' \subseteq Alive'
    BY <1>4 DEF Swallow, Alive, TypeOK
  <2> QED
    BY <1>0, <1>4, <2>1 DEF Swallow, TypeOK
<1>5. ASSUME Supervise(w)
      PROVE  TypeInv'
  <2> DEFINE p == worker[w].item
  <2>1. p \in Pipelines /\ w \notin doomed
    BY <1>5, ItemFacts DEF Supervise, TypeOK, Alive
  <2>2. row' \in Rows
    BY <1>5, <2>1 DEF Supervise, Record, TerminalAfterCrash, TypeOK
  <2>3. worker' \in [Workers -> Items] /\ doomed' \subseteq Alive'
    BY <1>5, <2>1, BecomeFacts, DoomedStay DEF Supervise, Items
  <2>4. flags' \subseteq Flags
    BY <1>5 DEF Supervise, TypeOK, Flags
  <2> QED
    BY <1>0, <1>5, <2>2, <2>3, <2>4 DEF Supervise, TypeOK
<1>6. CASE Cancelled(w)
  BY <1>2, <1>3, <1>6
<1>7. CASE Outcome(w)
  BY <1>2, <1>7
<1> QED
  BY <1>1, <1>4, <1>5, <1>6, <1>7 DEF LoopStep

LEMMA TypeStep == TypeInv /\ [Next]_vars => TypeInv'
<1>1. ASSUME TypeInv, UNCHANGED vars
      PROVE  TypeInv'
  BY <1>1 DEF TypeInv, TypeOK, PhaseInv, vars, Alive, WorkerCount
<1> QED
  BY <1>1, ProducerTypes, OutsideTypes, WorkerTypes DEF Next, Over

\* The run's phases, its queue, workers, counters and rows are what runner.py
\* keeps, whatever faults occur.
THEOREM TypeCorrect == Spec => []TypeOK
<1>1. TypeInv => TypeOK
  BY DEF TypeInv
<1> QED
  BY TypeInit, TypeStep, <1>1, PTL DEF Spec

-----------------------------------------------------------------------------
(***************************************************************************)
(* Where the pipelines are. A step of the run moves at most one of them    *)
(* from one place to the next, or settles all the parked ones.             *)
(***************************************************************************)

places == <<source, Queued, Executing, parked, offer>>

OnceQueued == \A i, j \in 1 .. Len(queue) : queue[i] = queue[j] /\ queue[i] # Sentinel => i = j
OnceDriven ==
    \A v, w \in Workers : Busy(v) /\ Busy(w) /\ worker[v].item = worker[w].item => v = w

Apart ==
    /\ \A p \in source : p \notin Queued /\ p \notin Executing /\ p \notin parked /\ p # offer
    /\ \A p \in Queued : p \notin Executing /\ p \notin parked /\ p # offer
    /\ \A p \in Executing : p \notin parked /\ p # offer
    /\ offer \notin parked

\* What makes the run stop hard, or stop at all, is set together with it.
FlagInv ==
    /\ {"conflict", "abort", "fatal"} \cap flags # {} => "hard" \in flags
    /\ "hard" \in flags => "stopping" \in flags

PlaceInv == TypeInv /\ FlagInv /\ OnceQueued /\ OnceDriven /\ Apart

\* A worker is dying, or one has died or the run was cancelled: pipelines may be
\* gone that nobody counts.
Lossy == "hard" \in flags \/ \E w \in Workers : worker[w].pc = "dying"

\* A fault may count a pipeline more than once.
Miscounts == {"afterCount", "afterPark"} \cap Faults # {}

\* What is counted when a pipeline reaches its end.
Counted ==
    \/ done' = done + 1
    \/ done' = done /\ Lossy'
    \/ done' \in done .. done + 2 /\ Miscounts

\* What is counted once more.
Recounted == done' = done \/ Miscounts

Admits(p) ==
    /\ p \in source /\ offer = NoItem /\ admitted - done < MaxAdmitted
    /\ \/ places' = <<source \ {p}, Queued \cup {p}, Executing, parked, offer>>
       \/ places' = <<source \ {p}, Queued, Executing, parked, p>>
    /\ admitted' = admitted + 1 /\ done' = done

Hands ==
    /\ offer # NoItem
    /\ places' = <<source, Queued \cup {offer}, Executing, parked, NoItem>>
    /\ admitted' = admitted /\ done' = done

Withdraws ==
    /\ places' = <<source, Queued, Executing, parked, NoItem>>
    /\ \/ offer # NoItem /\ admitted' = admitted - 1
       \/ admitted' = admitted /\ Lossy'
    /\ done' = done /\ Stopping'

Returns(p) ==
    /\ p \in parked
    /\ places' = <<source, Queued \cup {p}, Executing, parked \ {p}, offer>>
    /\ admitted' = admitted /\ done' = done

Starts(p) ==
    /\ p \in Queued
    /\ places' = <<source, Queued \ {p}, Executing \cup {p}, parked, offer>>
    /\ admitted' = admitted /\ done' = done

Drops(p) ==
    /\ p \in Queued
    /\ places' = <<source, Queued \ {p}, Executing, parked, offer>>
    /\ admitted' = admitted /\ Counted

Leaves(p) ==
    /\ p \in Executing
    /\ places' = <<source, Queued, Executing \ {p}, parked, offer>>
    /\ admitted' = admitted /\ Counted

Parks(p) ==
    /\ p \in Executing
    /\ places' = <<source, Queued, Executing \ {p}, parked \cup {p}, offer>>
    /\ admitted' = admitted /\ (done' = done \/ (done' = done + 1 /\ Miscounts))

Settles ==
    /\ places' = <<source, Queued, Executing, {}, offer>>
    /\ admitted' = admitted /\ done' = done + Cardinality(parked)

Stays == UNCHANGED <<places, admitted>> /\ Recounted

ProducerMove == (\E p \in Pipelines : Admits(p)) \/ Hands \/ Withdraws \/ Settles \/ Stays

Move ==
    \/ \E p \in Pipelines :
         Admits(p) \/ Returns(p) \/ Starts(p) \/ Drops(p) \/ Leaves(p) \/ Parks(p)
    \/ Hands \/ Withdraws \/ Settles \/ Stays

\* Flags are only set, and set together.
FlagStep ==
    \/ flags' \in {flags, flags \cup {"stopping"}, flags \cup {"cancelled", "reraise"}}
    \/ \E why \in {{"conflict"}, {"fatal"}, {"abort"}, {"abort", "fatal"}, {"cancelled"}} :
         flags' = flags \cup why \cup {"hard", "stopping"}

LEMMA FlagsGrow == [Next]_vars => FlagStep
<1> SUFFICES ASSUME [Next]_vars
             PROVE  FlagStep
  OBVIOUS
<1> USE DEF producerVars, storeVars, counters
<1>1. CASE ProducerStep
  <2>1. flags' \in {flags, flags \cup {"stopping"}}
    BY <1>1 DEF ProducerStep, Admit, SourceEnds, SourceRaises, Handed, NotHanded, Leave,
                BeginShutdown, SendSentinel, SentinelsAborted, GraceOver, End
  <2> QED
    BY <2>1 DEF FlagStep
<1>2. CASE \/ Stop \/ CancelRun \/ CancelDrain \/ CancelShutdown
           \/ \E p \in Pipelines : Pump(p)
  <2>1. CASE CancelRun
    <3>1. flags' = flags \cup {"cancelled"} \cup {"hard", "stopping"}
      BY <2>1 DEF CancelRun
    <3> QED
      BY <3>1 DEF FlagStep
  <2>2. CASE \/ Stop \/ CancelDrain \/ CancelShutdown
             \/ \E p \in Pipelines : Pump(p)
    <3>1. flags' \in {flags, flags \cup {"stopping"}, flags \cup {"cancelled", "reraise"}}
      BY <2>2 DEF Stop, CancelDrain, CancelShutdown, Pump
    <3> QED
      BY <3>1 DEF FlagStep
  <2> QED
    BY <1>2, <2>1, <2>2
<1>3. ASSUME NEW w \in Workers, LoopStep(w) \/ Outcome(w)
      PROVE  FlagStep
  <2>1. CASE Take(w)
    <3>1. \/ flags' \in {flags, flags \cup {"stopping"}}
          \/ flags' = flags \cup {"conflict"} \cup {"hard", "stopping"}
          \/ flags' = flags \cup {"fatal"} \cup {"hard", "stopping"}
      BY <2>1 DEF Take, Dispatch, OpenFails, Count
    <3> QED
      BY <3>1 DEF FlagStep
  <2>2. CASE \/ Succeed(w) \/ Fail(w) \/ Reported(w) \/ Park(w) \/ Surprise(w) \/ Die(w)
             \/ Swallow(w)
    <3>1. flags' \in {flags, flags \cup {"stopping"}}
      BY <2>2 DEF Succeed, Fail, Reported, Park, Surprise, Die, Swallow, Count
    <3> QED
      BY <3>1 DEF FlagStep
  <2>3. CASE Unrecorded(w) \/ SelfCancel(w) \/ Cancelled(w)
    <3>1. \/ flags' \in {flags, flags \cup {"stopping"}}
          \/ flags' = flags \cup {"fatal"} \cup {"hard", "stopping"}
      BY <2>3 DEF Unrecorded, SelfCancel, Cancelled, Interrupted, Count
    <3> QED
      BY <3>1 DEF FlagStep
  <2>4. CASE Supervise(w)
    <3>1. \/ flags' = flags \cup {"abort"} \cup {"hard", "stopping"}
          \/ flags' = flags \cup {"abort", "fatal"} \cup {"hard", "stopping"}
      BY <2>4 DEF Supervise
    <3> QED
      BY <3>1 DEF FlagStep
  <2> QED
    BY <1>3, <2>1, <2>2, <2>3, <2>4 DEF LoopStep, Outcome
<1>4. CASE UNCHANGED vars
  BY <1>4 DEF vars, FlagStep
<1> QED
  BY <1>1, <1>2, <1>3, <1>4 DEF Next, Over

LEMMA FlagsAgree == FlagInv /\ FlagStep => FlagInv'
BY DEF FlagInv, FlagStep

LEMMA QueueAppend ==
    ASSUME TypeOK, NEW x \in Pipelines \cup {Sentinel}, Room, queue' = Append(queue, x)
    PROVE  /\ Queued' = Queued \cup ({x} \ {Sentinel})
           /\ OnceQueued /\ x \notin Queued => OnceQueued'
<1> DEFINE n == Len(queue)
<1>1. /\ n \in Nat /\ Len(queue') = n + 1 /\ queue'[n + 1] = x
      /\ \A i \in 1 .. n : queue'[i] = queue[i]
      /\ DOMAIN queue = 1 .. n /\ DOMAIN queue' = 1 .. n + 1
  BY AppendFacts DEF TypeOK
<1>2. \A i \in 1 .. n + 1 : i \in 1 .. n \/ i = n + 1
  BY <1>1
<1>3. n + 1 \in 1 .. n + 1 /\ 1 .. n \subseteq 1 .. n + 1
  BY <1>1
<1> HIDE DEF n
<1>4. Queued' = Queued \cup ({x} \ {Sentinel})
  BY <1>1, <1>2, <1>3 DEF Queued
<1>5. ASSUME OnceQueued, x \notin Queued
      PROVE  OnceQueued'
  <2>1. \A i \in 1 .. n : queue[i] # Sentinel => queue[i] # x
    BY <1>1, <1>5 DEF Queued
  <2> QED
    BY <1>1, <1>2, <1>5, <2>1 DEF OnceQueued, n
<1> QED
  BY <1>4, <1>5

LEMMA QueueTail ==
    ASSUME TypeOK, queue # <<>>, queue' = Tail(queue), OnceQueued
    PROVE  /\ Queued' = Queued \ {Head(queue)}
           /\ Head(queue) # Sentinel => Head(queue) \in Queued
           /\ OnceQueued'
<1> DEFINE n == Len(queue)
<1>1. /\ n \in Nat \ {0} /\ Len(queue') = n - 1 /\ Head(queue) = queue[1]
      /\ \A i \in 1 .. n - 1 : queue'[i] = queue[i + 1]
      /\ DOMAIN queue = 1 .. n /\ DOMAIN queue' = 1 .. n - 1
  BY TailFacts DEF TypeOK
<1>2. /\ 1 \in 1 .. n
      /\ \A i \in 1 .. n - 1 : i + 1 \in 1 .. n /\ i + 1 # 1
      /\ \A i \in 1 .. n : i = 1 \/ (i - 1 \in 1 .. n - 1 /\ queue'[i - 1] = queue[i])
  BY <1>1
<1>3. \A i \in 1 .. n - 1 : queue'[i] # Sentinel => queue'[i] # queue[1]
  BY <1>1, <1>2 DEF OnceQueued
<1> HIDE DEF n
<1>4. Queued' \subseteq Queued \ {Head(queue)}
  BY <1>1, <1>2, <1>3 DEF Queued
<1>5. Queued \ {Head(queue)} \subseteq Queued'
  <2>1. ASSUME NEW i \in 1 .. n, queue[i] # queue[1], queue[i] # Sentinel
        PROVE  queue[i] \in Queued'
    <3>1. i - 1 \in DOMAIN queue' /\ queue'[i - 1] = queue[i]
      BY <1>1, <1>2, <2>1
    <3> QED
      BY <2>1, <3>1 DEF Queued
  <2> QED
    BY <1>1, <2>1 DEF Queued
<1>6. Head(queue) # Sentinel => Head(queue) \in Queued
  BY <1>1, <1>2 DEF Queued
<1>7. OnceQueued'
  <2>1. ASSUME NEW i \in 1 .. n - 1, NEW j \in 1 .. n - 1, queue'[i] = queue'[j],
               queue'[i] # Sentinel
        PROVE  i = j
    <3>1. i + 1 = j + 1
      BY <1>1, <1>2, <2>1 DEF OnceQueued, n
    <3> QED
      BY <1>1, <3>1
  <2> QED
    BY <1>1, <2>1 DEF OnceQueued
<1> QED
  BY <1>4, <1>5, <1>6, <1>7

LEMMA WorkerStarts ==
    ASSUME TypeOK, NEW w \in Workers, NEW p \in Pipelines, Become(w, On(p)), ~Busy(w)
    PROVE  /\ Executing' = Executing \cup {p}
           /\ OnceDriven /\ p \notin Executing => OnceDriven'
<1>1. /\ worker'[w].pc = "busy" /\ worker'[w].item = p
      /\ \A v \in Workers : v # w => worker'[v] = worker[v]
  BY BecomeFacts, ItemTypes DEF On
<1>2. \A v \in Workers : Busy(v)' <=> Busy(v) \/ v = w
  BY <1>1 DEF Busy
<1>3. \A v \in Workers : Busy(v) => worker'[v].item = worker[v].item
  BY <1>1
<1>4. Executing' = Executing \cup {p}
  BY <1>1, <1>2, <1>3 DEF Executing
<1>5. p \notin Executing => \A v \in Workers : Busy(v) => worker[v].item # p
  BY DEF Executing
<1> QED
  BY <1>1, <1>2, <1>3, <1>4, <1>5 DEF OnceDriven

LEMMA WorkerStops ==
    ASSUME TypeOK, OnceDriven, NEW w \in Workers, NEW what \in Items, what.pc # "busy",
           Become(w, what)
    PROVE  /\ Busy(w) => /\ Executing' = Executing \ {worker[w].item}
                         /\ worker[w].item \in Executing
           /\ ~Busy(w) => Executing' = Executing
           /\ OnceDriven'
<1>1. /\ worker'[w].pc # "busy"
      /\ \A v \in Workers : v # w => worker'[v] = worker[v]
  BY BecomeFacts
<1>2. \A v \in Workers : Busy(v)' <=> Busy(v) /\ v # w
  BY <1>1 DEF Busy
<1>3. \A v \in Workers : Busy(v)' => worker'[v].item = worker[v].item
  BY <1>1, <1>2
<1>4. Executing' = {worker[v].item : v \in {u \in Workers : Busy(u) /\ u # w}}
  BY <1>1, <1>2, <1>3 DEF Executing
<1>5. Busy(w) => /\ Executing' = Executing \ {worker[w].item}
                 /\ worker[w].item \in Executing
  BY <1>4 DEF Executing, OnceDriven
<1>6. ~Busy(w) => Executing' = Executing
  BY <1>4 DEF Executing
<1>7. OnceDriven'
  BY <1>2, <1>3 DEF OnceDriven
<1> QED
  BY <1>5, <1>6, <1>7

\* What no step of a kind touches.
LEMMA QueueStill == queue' = queue => Queued' = Queued /\ (OnceQueued => OnceQueued')
BY DEF Queued, OnceQueued

LEMMA WorkersStill == worker' = worker => Executing' = Executing /\ (OnceDriven => OnceDriven')
BY DEF Executing, OnceDriven, Busy

LEMMA ProducerMoves ==
    ASSUME PlaceInv, ProducerStep
    PROVE  ProducerMove /\ OnceQueued' /\ OnceDriven'
<1> USE DEF PlaceInv, TypeInv, producerVars, storeVars, counters, places
<1>0. ASSUME worker' = worker
      PROVE  Executing' = Executing /\ OnceDriven'
  BY <1>0, WorkersStill
<1>1. ASSUME NEW p \in Pipelines, Admit(p)
      PROVE  Admits(p) /\ OnceQueued' /\ OnceDriven'
  <2>1. /\ p \in source /\ source' = source \ {p} /\ worker' = worker /\ parked' = parked
        /\ admitted' = admitted + 1 /\ done' = done /\ admitted - done < MaxAdmitted
        /\ offer = NoItem /\ p \notin Queued /\ p # Sentinel
    BY <1>1, ConstantsAssumption DEF Admit, MayAdmit, PhaseInv, Apart
  <2>2. CASE Room /\ queue' = Append(queue, p) /\ UNCHANGED <<phase, offer>>
    <3>1. Queued' = Queued \cup {p} /\ OnceQueued'
      BY <2>1, <2>2, QueueAppend
    <3> QED
      BY <1>0, <2>1, <2>2, <3>1 DEF Admits
  <2>3. CASE ~Room /\ offer' = p /\ phase' = "handing" /\ UNCHANGED queue
    BY <1>0, <2>1, <2>3, QueueStill DEF Admits
  <2> QED
    BY <1>1, <2>2, <2>3 DEF Admit
<1>2. CASE SourceEnds \/ SourceRaises \/ Leave \/ BeginShutdown \/ SentinelsAborted \/ GraceOver
  <2>1. UNCHANGED <<source, queue, worker, parked, offer, admitted, done>>
    BY <1>2 DEF SourceEnds, SourceRaises, Leave, BeginShutdown, SentinelsAborted, GraceOver
  <2> QED
    BY <1>0, <2>1, QueueStill DEF Stays, Recounted, ProducerMove
<1>3. CASE Handed
  <2>1. /\ offer \in Pipelines /\ offer # NoItem /\ offer # Sentinel /\ offer \notin Queued
        /\ UNCHANGED <<source, worker, parked, admitted, done>> /\ offer' = NoItem
    BY <1>3, ConstantsAssumption DEF Handed, PhaseInv, TypeOK, Apart
  <2>2. Queued' = Queued \cup {offer} /\ OnceQueued'
    BY <1>3, <2>1, QueueAppend DEF Handed
  <2> QED
    BY <1>0, <2>1, <2>2 DEF Hands, ProducerMove
<1>4. CASE NotHanded
  <2>1. /\ offer # NoItem /\ offer' = NoItem /\ admitted' = admitted - 1
        /\ UNCHANGED <<source, queue, worker, parked, done>> /\ Stopping'
    BY <1>4 DEF NotHanded, PhaseInv, FlagInv, Stopping
  <2> QED
    BY <1>0, <2>1, QueueStill DEF Withdraws, ProducerMove
<1>5. CASE SendSentinel
  <2>1. Sentinel \notin Queued /\ UNCHANGED <<source, worker, parked, offer, admitted, done>>
    BY <1>5 DEF SendSentinel, Queued
  <2>2. Queued' = Queued /\ OnceQueued'
    BY <1>5, <2>1, QueueAppend DEF SendSentinel
  <2> QED
    BY <1>0, <2>1, <2>2 DEF Stays, Recounted, ProducerMove
<1>6. CASE End
  <2>1. /\ parked' = {} /\ done' = done + Cardinality(parked)
        /\ UNCHANGED <<source, queue, worker, offer, admitted>>
    BY <1>6 DEF End, Settle
  <2> QED
    BY <1>0, <2>1, QueueStill DEF Settles, ProducerMove
<1>7. ASSUME NEW p \in Pipelines, Admit(p)
      PROVE  ProducerMove /\ OnceQueued' /\ OnceDriven'
  BY <1>1, <1>7 DEF ProducerMove
<1> QED
  BY <1>2, <1>3, <1>4, <1>5, <1>6, <1>7 DEF ProducerStep

LEMMA OutsideMoves ==
    ASSUME PlaceInv, Stop \/ CancelRun \/ CancelDrain \/ CancelShutdown
    PROVE  ProducerMove /\ OnceQueued' /\ OnceDriven'
<1> USE DEF PlaceInv, TypeInv, producerVars, storeVars, counters, places
<1>0. worker' = worker /\ Executing' = Executing /\ OnceDriven'
  BY WorkersStill DEF Stop, CancelRun, CancelDrain, CancelShutdown
<1>1. CASE Stop \/ CancelDrain
  <2>1. UNCHANGED <<source, queue, parked, offer, admitted, done>>
    BY <1>1 DEF Stop, CancelDrain
  <2> QED
    BY <1>0, <2>1, QueueStill DEF Stays, Recounted, ProducerMove
<1>2. CASE CancelRun
  <2>1. /\ UNCHANGED <<source, queue, parked, admitted, done>> /\ offer' = NoItem
        /\ "hard" \in flags' /\ Stopping'
    BY <1>2 DEF CancelRun, Stopping
  <2>2. Lossy'
    BY <2>1 DEF Lossy
  <2> QED
    BY <1>0, <2>1, <2>2, QueueStill DEF Withdraws, ProducerMove
<1>3. CASE CancelShutdown
  <2>1. /\ parked' = {} /\ done' = done + Cardinality(parked)
        /\ UNCHANGED <<source, queue, offer, admitted>>
    BY <1>3 DEF CancelShutdown, Settle
  <2> QED
    BY <1>0, <2>1, QueueStill DEF Settles, ProducerMove
<1> QED
  BY <1>1, <1>2, <1>3

LEMMA PumpMoves ==
    ASSUME PlaceInv, NEW p \in Pipelines, Pump(p)
    PROVE  Returns(p) /\ OnceQueued' /\ OnceDriven'
<1> USE DEF PlaceInv, TypeInv, producerVars, storeVars, counters, places
<1>1. /\ p \in parked /\ parked' = parked \ {p} /\ p \notin Queued /\ p # Sentinel
      /\ UNCHANGED <<source, worker, offer, admitted, done>>
  BY ConstantsAssumption DEF Pump, Apart
<1>2. Queued' = Queued \cup {p} /\ OnceQueued'
  BY <1>1, QueueAppend DEF Pump
<1> QED
  BY <1>1, <1>2, WorkersStill DEF Returns

\* A worker takes the head of the queue.
LEMMA TakeMoves ==
    ASSUME PlaceInv, NEW w \in Workers, Take(w)
    PROVE  Move /\ OnceQueued' /\ OnceDriven'
<1> USE DEF PlaceInv, TypeInv, producerVars, storeVars, counters, places
<1> DEFINE p == Head(queue)
<1>1. /\ ~Busy(w) /\ UNCHANGED <<source, parked, offer, admitted>>
      /\ p \in Pipelines \cup {Sentinel}
      /\ Queued' = Queued \ {p} /\ OnceQueued' /\ (p # Sentinel => p \in Queued)
  BY QueueTail, TailFacts DEF Take, Busy
<1>2. CASE p = Sentinel /\ Become(w, Gone) /\ UNCHANGED <<storeVars, counters, flags>>
  <2>1. Executing' = Executing /\ OnceDriven'
    BY <1>1, <1>2, WorkerStops DEF Gone, Items
  <2>2. Queued' = Queued
    BY <1>1, <1>2 DEF Queued
  <2> QED
    BY <1>1, <1>2, <2>1, <2>2 DEF Stays, Recounted, Move
<1>3. CASE p # Sentinel /\ Dispatch(w, p)
  <2>1. p \in Pipelines /\ p \in Queued /\ p \notin Executing
    BY <1>1, <1>3 DEF Apart
  <2> HIDE DEF p
  <2>2. CASE Become(w, On(p)) /\ done' = done
    <3>1. Executing' = Executing \cup {p} /\ OnceDriven'
      BY <1>1, <2>1, <2>2, WorkerStarts
    <3>2. Starts(p)
      BY <1>1, <2>1, <2>2, <3>1 DEF Starts
    <3> QED
      BY <1>1, <2>1, <3>1, <3>2 DEF Move
  <2>3. CASE Become(w, Idle) /\ (done' = done + 1 \/ (done' = done /\ Lossy'))
    <3>1. Executing' = Executing /\ OnceDriven'
      BY <1>1, <2>3, WorkerStops DEF Idle, Items
    <3>2. Drops(p)
      BY <1>1, <2>1, <2>3, <3>1 DEF Drops, Counted
    <3> QED
      BY <1>1, <2>1, <3>1, <3>2 DEF Move
  <2>4. CASE "conflict" \in flags /\ Become(w, Idle) /\ UNCHANGED <<storeVars, counters, flags>>
    BY <2>3, <2>4 DEF FlagInv, Lossy
  <2>5. CASE OpenFails(w, p)
    <3>1. Idle \in Items /\ Dead(p) \in Items /\ Dead(p).pc = "dying" /\ Idle.pc = "idle"
      BY <2>1, ItemTypes DEF Dead, Idle, Items
    <3>2. PICK what \in {Idle, Dead(p)} : Become(w, what)
      BY <2>5 DEF OpenFails
    <3>3. Executing' = Executing /\ OnceDriven'
      BY <1>1, <3>1, <3>2, WorkerStops
    <3>4. Counted
      <4>1. Become(w, Dead(p)) => Lossy'
        BY <3>1, BecomeFacts DEF Lossy
      <4>2. done \in Nat
        BY DEF TypeOK
      <4>3. \/ done' = done + 1
            \/ Miscounts /\ done' = done + 2
            \/ Become(w, Dead(p)) /\ done' = done
        BY <2>5 DEF OpenFails, Count, Miscounts
      <4> QED
        BY <4>1, <4>2, <4>3 DEF Counted
    <3>5. Drops(p)
      BY <1>1, <2>1, <3>3, <3>4 DEF Drops
    <3> QED
      BY <1>1, <2>1, <3>3, <3>5 DEF Move
  <2> QED
    BY <1>3, <2>2, <2>3, <2>4, <2>5 DEF Dispatch, Count
<1> QED
  BY <1>2, <1>3 DEF Take

\* A worker that reports a terminal pipeline: it is at none of the places any more.
LEMMA ReportingMoves ==
    ASSUME PlaceInv, NEW w \in Workers, Outcome(w), Reporting(w)
    PROVE  Stays /\ OnceQueued' /\ OnceDriven'
<1> USE DEF PlaceInv, TypeInv, producerVars, storeVars, counters, places
<1> DEFINE p == worker[w].item
<1>1. Reported(w) \/ Surprise(w) \/ Unrecorded(w) \/ Die(w)
  BY DEF Outcome, Reporting, Working, Busy, Succeed, Fail, Park, SelfCancel
<1>2. p \in Pipelines /\ ~Busy(w) /\ ~Working(w) /\ done \in Nat
  BY OutcomeWorker DEF Busy, Working, Reporting, TypeOK
<1> HIDE DEF p
<1>3. /\ UNCHANGED <<source, queue, offer, admitted, parked>>
      /\ \E what \in {Idle, Dead(p)} : Become(w, what)
      /\ Recounted
  <2>1. CASE Reported(w) \/ Die(w)
    BY <2>1 DEF Reported, Die, Recounted, p
  <2>2. CASE Surprise(w) \/ Unrecorded(w)
    BY <1>2, <2>2 DEF Surprise, Unrecorded, Raises, Recounted, Miscounts, p
  <2> QED
    BY <1>1, <2>1, <2>2
<1>4. \A what \in {Idle, Dead(p)} : what \in Items /\ what.pc # "busy"
  <2>1. Idle \in Items /\ Dead(p) \in Items
    BY <1>2, ItemTypes
  <2>2. Idle.pc # "busy" /\ Dead(p).pc # "busy"
    BY DEF Idle, Dead
  <2> QED
    BY <2>1, <2>2
<1>5. Executing' = Executing /\ OnceDriven'
  BY <1>2, <1>3, <1>4, WorkerStops
<1> QED
  BY <1>3, <1>5, QueueStill DEF Stays

\* A busy worker comes to an outcome, or its cancellation reaches it.
LEMMA OutcomeMoves ==
    ASSUME PlaceInv, NEW w \in Workers, Busy(w), Outcome(w) \/ Cancelled(w)
    PROVE  Move /\ OnceQueued' /\ OnceDriven'
<1> USE DEF PlaceInv, TypeInv, producerVars, storeVars, counters, places
<1> DEFINE p == worker[w].item
<1>1. /\ Busy(w) /\ p \in Pipelines
      /\ UNCHANGED <<source, queue, offer, admitted>>
  BY ItemFacts DEF Outcome, Busy, Succeed, Fail, Reported, Park, Surprise, Unrecorded, Die,
                   SelfCancel, Cancelled
<1>2. Queued' = Queued /\ OnceQueued'
  BY <1>1, QueueStill
<1> HIDE DEF p
<1>3. ASSUME NEW what \in Items, Become(w, what), what.pc # "busy"
      PROVE  Executing' = Executing \ {p} /\ p \in Executing /\ OnceDriven'
  BY <1>1, <1>3, WorkerStops DEF p
<1>4. ASSUME NEW what \in Items, Become(w, what), what.pc # "busy", parked' = parked, Counted
      PROVE  Move /\ OnceDriven'
  <2>1. Leaves(p)
    BY <1>1, <1>2, <1>3, <1>4 DEF Leaves
  <2> QED
    BY <1>1, <1>3, <1>4, <2>1 DEF Move
<1>5. ASSUME Become(w, Idle), parked' = parked \cup {p},
             done' = done \/ (done' = done + 1 /\ Miscounts)
      PROVE  Move /\ OnceDriven'
  <2>1. Executing' = Executing \ {p} /\ p \in Executing /\ OnceDriven'
    BY <1>3, <1>5 DEF Idle, Items
  <2>2. Parks(p)
    BY <1>1, <1>2, <1>5, <2>1 DEF Parks
  <2> QED
    BY <1>1, <2>1, <2>2 DEF Move
<1>6. Idle \in Items /\ Gone \in Items /\ Dead(p) \in Items /\ Reports(p) \in Items
  BY <1>1, ItemTypes
<1>7. /\ Idle.pc # "busy" /\ Gone.pc # "busy" /\ Dead(p).pc = "dying"
      /\ Reports(p).pc # "busy" /\ ~Reporting(w) /\ done \in Nat
  BY <1>1 DEF Idle, Gone, Dead, Reports, Reporting, Busy, TypeOK
<1>8. Become(w, Dead(p)) => Lossy'
  BY <1>6, <1>7, BecomeFacts DEF Lossy
<1>9. CASE Succeed(w) \/ Fail(w)
  <2>1. Become(w, Reports(p)) /\ parked' = parked /\ Counted
    BY <1>9 DEF Succeed, Fail, Counted, Count, p
  <2> QED
    BY <1>2, <1>4, <1>6, <1>7, <2>1
<1>10. CASE Park(w)
  BY <1>2, <1>5, <1>10 DEF Park, PutAside, p
<1>11. CASE Surprise(w)
  <2>1. CASE /\ \E n \in 1 .. 2 : Raises(w, n) /\ Count(n, n)
             /\ Become(w, Idle) \/ Become(w, Dead(p))
             /\ UNCHANGED parked
    <3>1. Counted
      BY <1>7, <2>1 DEF Raises, Count, Counted, Miscounts
    <3> QED
      BY <1>2, <1>4, <1>6, <1>7, <2>1, <3>1
  <2>2. CASE "afterPark" \in Faults /\ Count(1, 1) /\ PutAside(p) /\ Become(w, Idle)
    BY <1>2, <1>5, <2>2 DEF PutAside, Count, Miscounts
  <2> QED
    BY <1>11, <2>1, <2>2 DEF Surprise, p
<1>12. CASE Unrecorded(w) \/ Die(w)
  <2>1. Become(w, Dead(p)) /\ parked' = parked
    BY <1>12 DEF Unrecorded, Die, p
  <2>2. Counted
    BY <1>6, <1>7, <1>8, <1>12, <2>1 DEF Unrecorded, Die, Raises, Counted, Miscounts
  <2> QED
    BY <1>2, <1>4, <1>6, <1>7, <2>1, <2>2
<1>13. CASE SelfCancel(w) \/ Cancelled(w)
  <2>1. parked' = parked /\ \/ Become(w, Gone) /\ done' = done + 1
                            \/ Become(w, Dead(p)) /\ done' = done
    BY <1>1, <1>13 DEF SelfCancel, Cancelled, Busy, Interrupted, Count, p
  <2> QED
    BY <1>2, <1>4, <1>6, <1>7, <1>8, <2>1 DEF Counted
<1> QED
  BY <1>7, <1>9, <1>10, <1>11, <1>12, <1>13 DEF Outcome, Reported

LEMMA StepMoves ==
    ASSUME PlaceInv, [Next]_vars
    PROVE  Move /\ OnceQueued' /\ OnceDriven'
<1> USE DEF PlaceInv, TypeInv, producerVars, storeVars, counters
<1>1. ASSUME UNCHANGED <<source, queue, worker, parked, offer, admitted, done>>
      PROVE  Move /\ OnceQueued' /\ OnceDriven'
  BY <1>1, QueueStill, WorkersStill DEF Stays, Recounted, Move, places
<1>2. ASSUME NEW w \in Workers, (Cancelled(w) /\ ~Busy(w)) \/ Supervise(w)
      PROVE  Move /\ OnceQueued' /\ OnceDriven'
  <2>1. /\ ~Busy(w) /\ Become(w, Gone)
        /\ UNCHANGED <<source, queue, parked, offer, admitted, done>>
    BY <1>2 DEF Cancelled, Supervise, Busy
  <2>2. Executing' = Executing /\ OnceDriven'
    BY <2>1, WorkerStops DEF Gone, Items
  <2> QED
    BY <2>1, <2>2, QueueStill DEF Stays, Recounted, Move, places
<1>3. ASSUME NEW w \in Workers, LoopStep(w) \/ Outcome(w)
      PROVE  Move /\ OnceQueued' /\ OnceDriven'
  <2>1. CASE Take(w)
    BY <2>1, TakeMoves
  <2>2. CASE Outcome(w)
    BY <2>2, OutcomeMoves, ReportingMoves, OutcomeWorker DEF Move
  <2>3. CASE Cancelled(w)
    BY <1>2, <2>3, OutcomeMoves
  <2>4. CASE Swallow(w)
    BY <1>1, <2>4 DEF Swallow
  <2>5. CASE Supervise(w)
    BY <1>2, <2>5
  <2> QED
    BY <1>3, <2>1, <2>2, <2>3, <2>4, <2>5 DEF LoopStep
<1>4. CASE UNCHANGED vars
  BY <1>1, <1>4 DEF vars
<1> QED
  BY <1>3, <1>4, ProducerMoves, OutsideMoves, PumpMoves DEF Next, Over, ProducerMove, Move

\* What the places hold.
LEMMA PlaceTypes ==
    ASSUME TypeOK
    PROVE  /\ Queued \subseteq Pipelines /\ Executing \subseteq Pipelines
           /\ parked \subseteq Pipelines /\ source \subseteq Pipelines
           /\ NoItem \notin Queued \cup Executing \cup parked \cup source
           /\ Unfinished \subseteq Pipelines /\ IsFiniteSet(Unfinished)
<1>1. Queued \subseteq Pipelines
  BY DEF TypeOK, Queued
<1>2. Executing \subseteq Pipelines
  BY ItemFacts DEF Executing, Busy
<1>3. Unfinished \subseteq Pipelines
  BY <1>1, <1>2 DEF Unfinished, TypeOK
<1> QED
  BY <1>1, <1>2, <1>3, ConstantsAssumption, FS_Subset DEF TypeOK

LEMMA MovesApart ==
    ASSUME TypeOK, Apart, Move
    PROVE  Apart'
<1> USE PlaceTypes DEF places, Apart
<1>1. ASSUME NEW p \in Pipelines, Admits(p)
      PROVE  Apart'
  BY <1>1 DEF Admits
<1>2. ASSUME NEW p \in Pipelines, Returns(p)
      PROVE  Apart'
  BY <1>2 DEF Returns
<1>3. ASSUME NEW p \in Pipelines, Starts(p)
      PROVE  Apart'
  BY <1>3 DEF Starts
<1>4. ASSUME NEW p \in Pipelines, Drops(p) \/ Leaves(p) \/ Parks(p)
      PROVE  Apart'
  BY <1>4 DEF Drops, Leaves, Parks
<1>5. CASE Hands
  BY <1>5 DEF Hands
<1>6. CASE Withdraws \/ Settles \/ Stays
  BY <1>6 DEF Withdraws, Settles, Stays
<1> QED
  BY <1>1, <1>2, <1>3, <1>4, <1>5, <1>6 DEF Move

LEMMA PlaceInit == Init => PlaceInv
<1> SUFFICES ASSUME Init
             PROVE  PlaceInv
  OBVIOUS
<1>1. Queued = {} /\ Executing = {} /\ OnceQueued /\ OnceDriven
  BY DEF Init, Queued, Executing, OnceQueued, OnceDriven, Busy, Idle
<1>2. Apart
  BY <1>1, ConstantsAssumption DEF Init, Apart
<1>3. FlagInv
  BY DEF Init, FlagInv
<1> QED
  BY <1>1, <1>2, <1>3, TypeInit DEF PlaceInv

LEMMA PlaceStep == PlaceInv /\ [Next]_vars => PlaceInv'
BY TypeStep, FlagsGrow, FlagsAgree, StepMoves, MovesApart DEF PlaceInv, TypeInv

LEMMA PlacesCounted ==
    ASSUME PlaceInv
    PROVE  OnePlace
<1> SUFFICES ASSUME NEW p \in Pipelines
             PROVE  Cardinality({i \in DOMAIN queue : queue[i] = p}
                                \cup {w \in Workers : Busy(w) /\ worker[w].item = p})
                      + Cardinality({p} \cap parked) + Cardinality({p} \cap {offer}) <= 1
  BY DEF OnePlace
<1> DEFINE A == {i \in DOMAIN queue : queue[i] = p}
           B == {w \in Workers : Busy(w) /\ worker[w].item = p}
           C == {p} \cap parked
           D == {p} \cap {offer}
<1> USE DEF PlaceInv, TypeInv
<1>1. p # Sentinel /\ DOMAIN queue = 1 .. Len(queue)
  BY ConstantsAssumption DEF TypeOK
<1>2. (A # {} => p \in Queued) /\ (A = {} \/ \E x : A = {x})
  BY <1>1 DEF Queued, OnceQueued
<1>3. (B # {} => p \in Executing) /\ (B = {} \/ \E x : B = {x})
  BY DEF Executing, OnceDriven
<1>4. (C = {} \/ C = {p}) /\ (D = {} \/ D = {p}) /\ (C # {} => p \in parked)
        /\ (D # {} => p = offer)
  OBVIOUS
<1> HIDE DEF A, B, C, D
<1>5. A = {} \/ B = {}
  BY <1>2, <1>3 DEF Apart
<1>6. A \cup B = {} \/ \E x : A \cup B = {x}
  BY <1>2, <1>3, <1>5
<1>7. Cardinality({}) = 0 /\ \A x : Cardinality({x}) = 1
  BY FS_EmptySet, FS_Singleton
<1>8. \/ A \cup B = {} /\ (C = {} \/ D = {})
      \/ C = {} /\ D = {}
  BY <1>2, <1>3, <1>4 DEF Apart
<1>9. Cardinality(A \cup B) + Cardinality(C) + Cardinality(D) <= 1
  <2>1. Cardinality(A \cup B) = IF A \cup B = {} THEN 0 ELSE 1
    BY <1>6, <1>7
  <2>2. Cardinality(C) = IF C = {} THEN 0 ELSE 1
    BY <1>4, <1>7
  <2>3. Cardinality(D) = IF D = {} THEN 0 ELSE 1
    BY <1>4, <1>7
  <2> QED
    BY <1>8, <2>1, <2>2, <2>3
<1> QED
  BY <1>9 DEF A, B, C, D

\* No pipeline is driven twice at once, whatever goes wrong: it is at one place
\* of the work queue, with one worker, in the delay queue, or in the producer's
\* hand (_hand_over, _worker_loop, DelayQueue).
THEOREM DrivenOnce == Spec => []OnePlace
<1>1. PlaceInv => OnePlace
  BY PlacesCounted
<1> QED
  BY PlaceInit, PlaceStep, <1>1, PTL DEF Spec

-----------------------------------------------------------------------------
(***************************************************************************)
(* The counters, when no fault counts a pipeline twice.                    *)
(***************************************************************************)

\* Unfinished pipelines are among those admitted and not counted as done, and,
\* until pipelines are lost, are all of them.
CountInv ==
    /\ Cardinality(Unfinished) + done <= admitted
    /\ admitted - done <= MaxAdmitted
    /\ ~Lossy => Cardinality(Unfinished) + done = admitted

\* How unfinished pipelines change by a move.
LEMMA MovesCount ==
    ASSUME PlaceInv, Move
    PROVE  /\ IsFiniteSet(Unfinished) /\ Cardinality(Unfinished) \in Nat
           /\ \A p \in Pipelines :
                /\ Admits(p) => Cardinality(Unfinished') = Cardinality(Unfinished) + 1
                /\ Drops(p) \/ Leaves(p) => Cardinality(Unfinished') = Cardinality(Unfinished) - 1
                /\ Returns(p) \/ Starts(p) \/ Parks(p) => Unfinished' = Unfinished
           /\ Hands \/ Stays => Unfinished' = Unfinished
           /\ Withdraws => Cardinality(Unfinished')
                             = Cardinality(Unfinished) - IF offer = NoItem THEN 0 ELSE 1
           /\ Settles => Cardinality(Unfinished') = Cardinality(Unfinished) - Cardinality(parked)
<1> USE DEF PlaceInv, TypeInv, places
<1> DEFINE U == Unfinished
<1>1. IsFiniteSet(U) /\ Cardinality(U) \in Nat
  BY PlaceTypes, FS_CardinalityType
<1>2. U = Queued \cup Executing \cup parked \cup ({offer} \ {NoItem})
  BY DEF Unfinished
<1>3. U' = Queued' \cup Executing' \cup parked' \cup ({offer'} \ {NoItem})
  BY DEF Unfinished
<1> HIDE DEF U
<1>4. /\ \A x : x \notin U => Cardinality(U \cup {x}) = Cardinality(U) + 1
      /\ \A x : x \in U => Cardinality(U \ {x}) = Cardinality(U) - 1
  BY <1>1, FS_AddElement, FS_RemoveElement
<1>5. ASSUME NEW p \in Pipelines
      PROVE  /\ Admits(p) => Cardinality(U') = Cardinality(U) + 1
             /\ Drops(p) \/ Leaves(p) => Cardinality(U') = Cardinality(U) - 1
             /\ Returns(p) \/ Starts(p) \/ Parks(p) => U' = U
  <2>0. p # NoItem
    BY ConstantsAssumption
  <2>1. ASSUME Admits(p)
        PROVE  U' = U \cup {p} /\ p \notin U
    BY <1>2, <1>3, <2>0, <2>1 DEF Admits, Apart
  <2>2. ASSUME Drops(p) \/ Leaves(p)
        PROVE  U' = U \ {p} /\ p \in U
    BY <1>2, <1>3, <2>0, <2>2 DEF Drops, Leaves, Apart
  <2>3. ASSUME Returns(p) \/ Starts(p) \/ Parks(p)
        PROVE  U' = U
    BY <1>2, <1>3, <2>3 DEF Returns, Starts, Parks
  <2> QED
    BY <1>4, <2>1, <2>2, <2>3
<1>6. Hands \/ Stays => U' = U
  BY <1>2, <1>3 DEF Hands, Stays
<1>7. ASSUME Withdraws
      PROVE  Cardinality(U') = Cardinality(U) - IF offer = NoItem THEN 0 ELSE 1
  <2>1. CASE offer = NoItem
    <3>1. U' = U
      BY <1>2, <1>3, <1>7, <2>1 DEF Withdraws
    <3> QED
      BY <1>1, <2>1, <3>1
  <2>2. CASE offer # NoItem
    <3>1. U' = U \ {offer} /\ offer \in U
      BY <1>2, <1>3, <1>7, <2>2 DEF Withdraws, Apart
    <3> QED
      BY <1>4, <2>2, <3>1
  <2> QED
    BY <2>1, <2>2
<1>8. ASSUME Settles
      PROVE  Cardinality(U') = Cardinality(U) - Cardinality(parked)
  <2>1. U' = U \ parked /\ U \cap parked = parked
    BY <1>2, <1>3, <1>8 DEF Settles, Apart
  <2> QED
    BY <1>1, <2>1, FS_Difference
<1> QED
  BY <1>1, <1>5, <1>6, <1>7, <1>8 DEF U

LEMMA LossyStays == PlaceInv /\ [Next]_vars /\ Lossy => Lossy'
<1> SUFFICES ASSUME PlaceInv, [Next]_vars, Lossy
             PROVE  Lossy'
  OBVIOUS
<1> USE DEF PlaceInv, TypeInv, producerVars, storeVars, counters
<1>1. CASE "hard" \in flags
  BY <1>1, FlagsGrow DEF FlagStep, Lossy
<1>2. ASSUME NEW v \in Workers, worker[v].pc = "dying"
      PROVE  Lossy'
  <2>1. ASSUME worker'[v] = worker[v]
        PROVE  Lossy'
    BY <1>2, <2>1 DEF Lossy
  <2>2. ASSUME NEW w \in Workers, NEW what \in Items, Become(w, what), w # v
        PROVE  Lossy'
    BY <2>1, <2>2, BecomeFacts
  <2>3. ASSUME NEW w \in Workers, LoopStep(w) \/ Outcome(w)
        PROVE  Lossy'
    <3>1. CASE Supervise(w)
      BY <3>1 DEF Supervise, Lossy
    <3>2. CASE ~Supervise(w)
      <4>1. w # v
        BY <1>2, <2>3, <3>2
           DEF LoopStep, Outcome, Working, Busy, Reporting, Take, Cancelled, Swallow, Succeed,
               Fail, Reported, Park, Surprise, Raises, Unrecorded, Die, SelfCancel
      <4>2. worker'[v] = worker[v]
        BY <2>3, <3>2, <4>1
           DEF LoopStep, Outcome, Take, Dispatch, OpenFails, Cancelled, Interrupted, Swallow,
               Succeed, Fail, Reported, Park, Surprise, Unrecorded, Die, SelfCancel, Become, TypeOK
      <4> QED
        BY <2>1, <4>2
    <3> QED
      BY <3>1, <3>2
  <2>4. CASE worker' = worker
    BY <2>1, <2>4
  <2>5. CASE ProducerStep \/ Stop \/ CancelRun \/ CancelDrain \/ CancelShutdown
             \/ (\E p \in Pipelines : Pump(p)) \/ UNCHANGED vars
    BY <2>4, <2>5 DEF ProducerStep, Admit, SourceEnds, SourceRaises, Handed, NotHanded, Leave,
         BeginShutdown, SendSentinel, SentinelsAborted, GraceOver, End, Stop, CancelRun,
         CancelDrain, CancelShutdown, Pump, vars
  <2> QED
    BY <2>3, <2>5 DEF Next, Over
<1> QED
  BY <1>1, <1>2 DEF Lossy

LEMMA CountInit == Init => CountInv
<1> SUFFICES ASSUME Init
             PROVE  CountInv
  OBVIOUS
<1>1. Unfinished = {}
  BY DEF Init, Unfinished, Queued, Executing, Busy, Idle
<1> QED
  BY <1>1, FS_EmptySet, ConstantsAssumption DEF Init, CountInv

LEMMA CountStep ==
    ASSUME ~Miscounts, PlaceInv, CountInv, [Next]_vars
    PROVE  CountInv'
<1> DEFINE n == Cardinality(Unfinished)
<1>1. /\ Move /\ (Lossy => Lossy')
      /\ n \in Nat /\ done \in Nat /\ admitted \in Nat /\ MaxAdmitted \in Nat
  BY StepMoves, LossyStays, MovesCount, ConstantsAssumption DEF PlaceInv, TypeInv, TypeOK
<1> HIDE DEF n
<1>2. /\ n + done <= admitted /\ admitted - done <= MaxAdmitted
      /\ ~Lossy => n + done = admitted
  BY DEF CountInv, n
<1>3. SUFFICES /\ n' + done' <= admitted' /\ admitted' - done' <= MaxAdmitted
               /\ ~Lossy' => n' + done' = admitted'
  BY DEF CountInv, n
<1>4. ASSUME NEW p \in Pipelines, Admits(p)
      PROVE  /\ n' + done' <= admitted' /\ admitted' - done' <= MaxAdmitted
             /\ ~Lossy' => n' + done' = admitted'
  <2>1. n' = n + 1
    BY <1>1, <1>4, MovesCount DEF n
  <2> QED
    BY <1>1, <1>2, <1>4, <2>1, ConstantsAssumption DEF Admits
<1>5. ASSUME NEW p \in Pipelines, Drops(p) \/ Leaves(p)
      PROVE  /\ n' + done' <= admitted' /\ admitted' - done' <= MaxAdmitted
             /\ ~Lossy' => n' + done' = admitted'
  <2>1. n' = n - 1
    BY <1>1, <1>5, MovesCount DEF n
  <2>2. admitted' = admitted /\ (done' = done + 1 \/ (done' = done /\ Lossy'))
    BY <1>5 DEF Drops, Leaves, Counted
  <2> QED
    BY <1>1, <1>2, <2>1, <2>2
<1>6. CASE (\E p \in Pipelines : Returns(p) \/ Starts(p) \/ Parks(p)) \/ Hands \/ Stays
  <2>1. n' = n
    BY <1>1, <1>6, MovesCount DEF n
  <2>2. admitted' = admitted /\ done' = done
    BY <1>6 DEF Returns, Starts, Parks, Hands, Stays, Recounted
  <2> QED
    BY <1>1, <1>2, <2>1, <2>2
<1>7. CASE Withdraws
  <2>1. n' = n - IF offer = NoItem THEN 0 ELSE 1
    BY <1>1, <1>7, MovesCount DEF n
  <2> QED
    BY <1>1, <1>2, <1>7, <2>1 DEF Withdraws
<1>8. CASE Settles
  <2> DEFINE k == Cardinality(parked)
  <2>1. n' = n - k
    BY <1>1, <1>8, MovesCount DEF n
  <2>2. k \in Nat
    BY ConstantsAssumption, FS_Subset, FS_CardinalityType DEF PlaceInv, TypeInv, TypeOK
  <2>3. admitted' = admitted /\ done' = done + k
    BY <1>8 DEF Settles
  <2> HIDE DEF k
  <2> QED
    BY <1>1, <1>2, <2>1, <2>2, <2>3
<1> QED
  BY <1>1, <1>4, <1>5, <1>6, <1>7, <1>8 DEF Move

\* Queued, executing and delayed pipelines together never exceed max_admitted
\* (_wait_for_admission), whoever dies or is cancelled, unless a fault counts a
\* pipeline twice.
THEOREM AdmissionIsBounded ==
    ASSUME {"afterCount", "afterPark"} \cap Faults = {}
    PROVE  Spec => []AdmissionBounded
<1>1. ~Miscounts
  BY DEF Miscounts
<1>2. Init => PlaceInv /\ CountInv
  BY PlaceInit, CountInit
<1>3. PlaceInv /\ CountInv /\ [Next]_vars => (PlaceInv /\ CountInv)'
  BY <1>1, PlaceStep, CountStep
<1>4. PlaceInv /\ CountInv => AdmissionBounded
  <2> SUFFICES ASSUME PlaceInv, CountInv
               PROVE  AdmissionBounded
    OBVIOUS
  <2>1. Cardinality(Unfinished) \in Nat
    BY PlaceTypes, FS_CardinalityType DEF PlaceInv, TypeInv
  <2> QED
    BY <2>1, ConstantsAssumption DEF CountInv, AdmissionBounded, PlaceInv, TypeInv, TypeOK
<1> QED
  BY <1>2, <1>3, <1>4, PTL DEF Spec

\* Until the run is stopped hard or a worker dies, what has been admitted is done
\* or at one of the places: _wait_for_completion waits for neither more nor less.
THEOREM CountersKeepUp ==
    ASSUME {"afterCount", "afterPark"} \cap Faults = {}
    PROVE  Spec => []CountersAgree
<1>1. ~Miscounts
  BY DEF Miscounts
<1>2. Init => PlaceInv /\ CountInv
  BY PlaceInit, CountInit
<1>3. PlaceInv /\ CountInv /\ [Next]_vars => (PlaceInv /\ CountInv)'
  BY <1>1, PlaceStep, CountStep
<1>4. PlaceInv /\ CountInv => CountersAgree
  <2> SUFFICES ASSUME PlaceInv, CountInv, ~Lossy
               PROVE  admitted = done + Cardinality(Unfinished)
    BY DEF CountersAgree, Lossy
  <2>1. Cardinality(Unfinished) \in Nat
    BY PlaceTypes, FS_CardinalityType DEF PlaceInv, TypeInv
  <2> QED
    BY <2>1 DEF CountInv, PlaceInv, TypeInv, TypeOK
<1> QED
  BY <1>2, <1>3, <1>4, PTL DEF Spec

-----------------------------------------------------------------------------
(***************************************************************************)
(* Rows. A pipeline's row is written when a worker opens it, when it       *)
(* leaves its worker, when it is settled at the end, and when the death of *)
(* its worker is recorded.                                                 *)
(***************************************************************************)

Terminal == {"succeeded", "failed", "interrupted"}

\* The pipelines of the workers that are in some state.
Held(pc) == {worker[w].item : w \in {v \in Workers : worker[v].pc = pc}}
Dying == Held("dying")
Told  == Held("reporting")

\* Only a pipeline that was opened has a row that says "running"; what a worker drives or
\* the delay queue holds was opened, what the producer holds was not; the pipelines of
\* dying and reporting workers are nowhere else, and those reported are recorded.
OpenedInv ==
    /\ \A p \in Pipelines : p \notin opened => row[p] # "running"
    /\ Executing \subseteq opened /\ parked \subseteq opened
    /\ source \cap opened = {} /\ offer \notin opened
    /\ (Dying \cup Told) \cap (source \cup Unfinished) = {}
    /\ \A p \in Told : row[p] \in {"succeeded", "failed"}

\* Nothing but the places may change, and nothing is driven that was not.
Calm ==
    /\ UNCHANGED <<row, opened, Dying>> /\ Told' \subseteq Told
    /\ Executing' \subseteq Executing /\ parked' \subseteq parked \cup Executing
    /\ source' \subseteq source /\ offer' \in source \cup {offer, NoItem}
    /\ Unfinished' \subseteq Unfinished \cup source
    /\ \A p \in Unfinished \ Unfinished' :
         row[p] = "succeeded" \/ "conflict" \in flags \/ (p = offer /\ Stopping')

Opens(p) ==
    /\ p \in Queued /\ (p \in opened \/ row[p] # "succeeded")
    /\ places' = <<source, Queued \ {p}, Executing \cup {p}, parked, offer>>
    /\ Record(p, "running") /\ opened' = opened \cup {p}
    /\ Dying' = Dying /\ Told' = Told

FailsToOpen(p) ==
    /\ p \in Queued /\ p \notin opened
    /\ places' = <<source, Queued \ {p}, Executing, parked, offer>>
    /\ opened' = opened /\ Told' = Told
    /\ \/ Record(p, "failed") /\ failed' > failed /\ Dying' = Dying
       \/ row' = row /\ Dying' = Dying \cup {p}

Closes(p) ==
    /\ p \in Executing
    /\ source' = source /\ Queued' = Queued /\ Executing' = Executing \ {p} /\ offer' = offer
    /\ opened' = opened
    /\ \/ /\ \E state \in Terminal :
               /\ Record(p, state)
               /\ state = "interrupted" => "selfCancel" \in Faults \/ doomed # {}
               /\ parked' = parked \cup {p} => state = "failed"
               /\ Told' = Told \/ state # "interrupted"
          /\ \/ UNCHANGED <<parked, Told>> /\ Dying' \in {Dying, Dying \cup {p}}
             \/ UNCHANGED <<parked, Dying>> /\ Told' = Told \cup {p}
             \/ UNCHANGED <<Dying, Told>> /\ parked' = parked \cup {p}
       \/ UNCHANGED <<row, parked, Told>> /\ Dying' = Dying \cup {p}

\* A worker that reports is interrupted by an error or its death.
Retells(p) ==
    /\ p \in Told /\ places' = places /\ opened' = opened
    /\ Told' \subseteq Told /\ Dying' \in {Dying, Dying \cup {p}}
    /\ row' = row \/ (Record(p, "failed") /\ failed' > failed)

SettlesRows ==
    /\ phase \notin {"admit", "handing", "complete"}
    /\ places' = <<source, Queued, Executing, {}, offer>>
    /\ \A p \in Pipelines : row'[p] = IF p \in parked THEN "interrupted" ELSE row[p]
    /\ UNCHANGED <<opened, Dying, Told>>

Buries(p) ==
    /\ p \in Dying /\ places' = places /\ opened' = opened /\ "hard" \in flags'
    /\ Dying' \subseteq Dying /\ Dying \ {p} \subseteq Dying' /\ Told' = Told
    /\ Record(p, TerminalAfterCrash(p)) \/ (row' = row /\ "fatal" \in flags')

\* A step that concerns one pipeline.
OneRow(p) == Opens(p) \/ FailsToOpen(p) \/ Closes(p) \/ Retells(p) \/ Buries(p)

RowStep == (\E p \in Pipelines : OneRow(p)) \/ SettlesRows \/ Calm

LEMMA HeldFacts ==
    ASSUME TypeOK, NEW w \in Workers, NEW what \in Items, Become(w, what), NEW s
    PROVE  /\ worker[w].pc # s /\ what.pc # s => Held(s)' = Held(s)
           /\ worker[w].pc # s /\ what.pc = s => Held(s)' = Held(s) \cup {what.item}
           /\ worker[w].pc = s /\ what.pc # s =>
                /\ worker[w].item \in Held(s)
                /\ Held(s)' \subseteq Held(s) /\ Held(s) \ {worker[w].item} \subseteq Held(s)'
<1>1. worker'[w] = what /\ \A v \in Workers : v # w => worker'[v] = worker[v]
  BY BecomeFacts
<1>2. ASSUME worker[w].pc # s, what.pc # s
      PROVE  Held(s)' = Held(s)
  BY <1>1, <1>2 DEF Held
<1>3. ASSUME worker[w].pc # s, what.pc = s
      PROVE  Held(s)' = Held(s) \cup {what.item}
  <2>1. \A v \in Workers : worker'[v].pc = s <=> worker[v].pc = s \/ v = w
    BY <1>1, <1>3
  <2>2. \A v \in Workers : worker[v].pc = s => worker'[v].item = worker[v].item
    BY <1>1, <1>3
  <2> QED
    BY <1>1, <2>1, <2>2 DEF Held
<1>4. ASSUME worker[w].pc = s, what.pc # s
      PROVE  /\ worker[w].item \in Held(s)
             /\ Held(s)' \subseteq Held(s) /\ Held(s) \ {worker[w].item} \subseteq Held(s)'
  BY <1>1, <1>4 DEF Held
<1> QED
  BY <1>2, <1>3, <1>4

\* What a worker that becomes idle, busy, gone, reporting or dying leaves of the others.
LEMMA DyingFacts ==
    ASSUME TypeOK, NEW w \in Workers, NEW p \in Pipelines
    PROVE  /\ \A what \in {Idle, Gone, On(p)} : Become(w, what) =>
                /\ worker[w].pc # "dying" => Dying' = Dying
                /\ worker[w].pc # "reporting" => Told' = Told
                /\ Dying' \subseteq Dying /\ Told' \subseteq Told
           /\ Become(w, Reports(p)) =>
                /\ worker[w].pc # "dying" => Dying' = Dying
                /\ worker[w].pc # "reporting" => Told' = Told \cup {p}
           /\ Become(w, Dead(p)) =>
                /\ worker[w].pc # "dying" => Dying' = Dying \cup {p}
                /\ worker[w].pc # "reporting" => Told' = Told
                /\ Told' \subseteq Told
           /\ worker[w].pc = "dying" /\ Become(w, Gone) =>
                /\ worker[w].item \in Dying
                /\ Dying' \subseteq Dying /\ Dying \ {worker[w].item} \subseteq Dying'
<1>1. /\ \A what \in {Idle, Gone, On(p)} : what \in Items /\ what.pc \notin {"dying", "reporting"}
      /\ Reports(p) \in Items /\ Reports(p).pc = "reporting" /\ Reports(p).item = p
      /\ Dead(p) \in Items /\ Dead(p).pc = "dying" /\ Dead(p).item = p
  BY ItemTypes DEF Idle, Gone, On, Reports, Dead
<1> QED
  BY <1>1, HeldFacts DEF Dying, Told

\* Steps that move pipelines without opening or ending one.
LEMMA CalmMoves ==
    ASSUME PlaceInv, UNCHANGED <<row, opened, Dying>>, Told' \subseteq Told,
           \/ \E p \in Pipelines : Admits(p) \/ Returns(p) \/ Parks(p)
           \/ \E p \in Pipelines : Drops(p) /\ (row[p] = "succeeded" \/ "conflict" \in flags)
           \/ Hands \/ Withdraws \/ Stays \/ (Settles /\ parked' = parked)
    PROVE  Calm
<1> USE DEF places, Unfinished, Calm
<1>1. ASSUME NEW p \in Pipelines, Admits(p)
      PROVE  Calm
  BY <1>1 DEF Admits
<1>2. ASSUME NEW p \in Pipelines, Returns(p)
      PROVE  Calm
  BY <1>2 DEF Returns
<1>3. ASSUME NEW p \in Pipelines, Parks(p)
      PROVE  Calm
  BY <1>3 DEF Parks
<1>4. ASSUME NEW p \in Pipelines, Drops(p), row[p] = "succeeded" \/ "conflict" \in flags
      PROVE  Calm
  BY <1>4 DEF Drops
<1>5. CASE Hands
  BY <1>5 DEF Hands
<1>6. CASE Withdraws
  BY <1>6 DEF Withdraws
<1>7. CASE Stays \/ (Settles /\ parked' = parked)
  BY <1>7 DEF Stays, Settles
<1> QED
  BY <1>1, <1>2, <1>3, <1>4, <1>5, <1>6, <1>7

\* The rows when a worker takes the head of the queue.
LEMMA TakeRows ==
    ASSUME PlaceInv, NEW w \in Workers, Take(w)
    PROVE  RowStep
<1> USE DEF PlaceInv, TypeInv, producerVars, storeVars, counters
<1> DEFINE p == Head(queue)
<1>1. /\ worker[w].pc = "idle" /\ ~Busy(w) /\ UNCHANGED <<source, parked, offer, admitted>>
      /\ p \in Pipelines \cup {Sentinel}
      /\ Queued' = Queued \ {p} /\ (p # Sentinel => p \in Queued)
  BY QueueTail, TailFacts DEF Take, Busy
<1>2. CASE p = Sentinel /\ Become(w, Gone) /\ UNCHANGED <<storeVars, counters, flags>>
  <2>1. Executing' = Executing /\ Dying' = Dying /\ Told' = Told
    BY <1>1, <1>2, WorkerStops, HeldFacts DEF Gone, Items, Dying, Told
  <2>2. Queued' = Queued
    BY <1>1, <1>2 DEF Queued
  <2>3. Stays
    BY <1>1, <1>2, <2>1, <2>2 DEF Stays, Recounted, places
  <2> QED
    BY <1>2, <2>1, <2>3, CalmMoves DEF RowStep
<1>3. CASE p # Sentinel /\ Dispatch(w, p)
  <2>1. p \in Pipelines /\ p \in Queued
    BY <1>1, <1>3
  <2> HIDE DEF p
  <2>2. CASE /\ Become(w, On(p)) /\ Record(p, "running") /\ opened' = opened \cup {p}
             /\ p \in opened \/ row[p] # "succeeded"
    <3>1. Executing' = Executing \cup {p}
      BY <1>1, <2>1, <2>2, WorkerStarts
    <3>2. Dying' = Dying /\ Told' = Told
      BY <1>1, <2>1, <2>2, DyingFacts
    <3>3. Opens(p)
      BY <1>1, <2>1, <2>2, <3>1, <3>2 DEF Opens, places
    <3> QED
      BY <2>1, <3>3 DEF RowStep, OneRow
  <2>3. CASE /\ Become(w, Idle) /\ UNCHANGED <<row, opened>>
             /\ row[p] = "succeeded" \/ "conflict" \in flags
    <3>1. Executing' = Executing /\ Dying' = Dying /\ Told' = Told
      BY <1>1, <2>3, WorkerStops, HeldFacts DEF Idle, Items, Dying, Told
    <3>2. places' = <<source, Queued \ {p}, Executing, parked, offer>>
      BY <1>1, <3>1 DEF places
    <3>3. Calm
      BY <2>1, <2>3, <3>1, <3>2 DEF Calm, places, Unfinished
    <3> QED
      BY <3>3 DEF RowStep
  <2>4. CASE "conflict" \notin flags /\ p \in opened /\ ~OpenFails(w, p)
    <3>1. opened = opened \cup {p}
      BY <2>4
    <3> QED
      BY <1>3, <2>2, <2>4, <3>1 DEF Dispatch
  <2>5. CASE ("conflict" \in flags \/ p \notin opened) /\ ~OpenFails(w, p)
    BY <1>3, <2>2, <2>3, <2>5 DEF Dispatch
  <2>6. CASE OpenFails(w, p)
    <3>1. PICK what \in {Idle, Dead(p)} : Become(w, what)
      BY <2>6 DEF OpenFails
    <3>2. what \in Items /\ what.pc # "busy"
      <4>1. Idle \in Items /\ Dead(p) \in Items
        BY <2>1, ItemTypes
      <4>2. Idle.pc # "busy" /\ Dead(p).pc # "busy"
        BY DEF Idle, Dead
      <4> QED
        BY <4>1, <4>2
    <3>3. Executing' = Executing
      BY <1>1, <3>1, <3>2, WorkerStops
    <3>4. Told' = Told
      BY <1>1, <2>1, <3>1, DyingFacts
    <3>5. \/ Record(p, "failed") /\ failed' > failed /\ Dying' = Dying
          \/ row' = row /\ Dying' = Dying \cup {p}
      <4>1. CASE Become(w, Idle) /\ Record(p, "failed") /\ failed' = failed + 1
        <5>1. Dying' = Dying
          BY <1>1, <2>1, <4>1, DyingFacts
        <5> QED
          BY <4>1, <5>1 DEF TypeOK
      <4>2. CASE Become(w, Dead(p)) /\ row' = row
        BY <1>1, <2>1, <4>2, DyingFacts
      <4> QED
        BY <2>6, <4>1, <4>2 DEF OpenFails, Count
    <3>6. FailsToOpen(p)
      BY <1>1, <2>1, <2>6, <3>3, <3>4, <3>5 DEF FailsToOpen, OpenFails, places
    <3> QED
      BY <2>1, <3>6 DEF RowStep, OneRow
  <2> QED
    BY <2>4, <2>5, <2>6
<1> QED
  BY <1>2, <1>3 DEF Take

\* The row of a pipeline whose terminal event raises, or whose worker is done with it.
LEMMA ReportingRows ==
    ASSUME PlaceInv, NEW w \in Workers, Outcome(w), Reporting(w)
    PROVE  RowStep
<1> USE DEF PlaceInv, TypeInv, producerVars, storeVars, counters
<1> DEFINE p == worker[w].item
<1>1. Reported(w) \/ Surprise(w) \/ Unrecorded(w) \/ Die(w)
  BY DEF Outcome, Reporting, Working, Busy, Succeed, Fail, Park, SelfCancel
<1>2. /\ p \in Pipelines /\ worker[w].pc = "reporting" /\ ~Working(w) /\ failed \in Nat
      /\ p \in Told
  BY OutcomeWorker DEF Working, Busy, Reporting, Told, Held, TypeOK
<1>3. UNCHANGED <<places, admitted>>
  BY ReportingMoves DEF Stays
<1>4. opened' = opened
  BY <1>1 DEF Reported, Surprise, Unrecorded, Die
<1> HIDE DEF p
<1>5. Become(w, Idle) => Dying' = Dying /\ Told' \subseteq Told
  BY <1>2, DyingFacts
<1>6. Become(w, Dead(p)) => Dying' = Dying \cup {p} /\ Told' \subseteq Told
  BY <1>2, DyingFacts
<1>7. CASE Reported(w)
  <2>1. row' = row /\ Become(w, Idle)
    BY <1>7 DEF Reported
  <2>2. Stays
    BY ReportingMoves
  <2> QED
    BY <1>4, <1>5, <2>1, <2>2, CalmMoves DEF RowStep
<1>8. CASE Surprise(w)
  <2>1. Record(p, "failed") /\ (Become(w, Idle) \/ Become(w, Dead(p)))
    BY <1>8 DEF Surprise, p
  <2>2. failed' > failed
    BY <1>2, <1>8 DEF Surprise, Count
  <2>3. Retells(p)
    BY <1>2, <1>3, <1>4, <1>5, <1>6, <2>1, <2>2 DEF Retells
  <2> QED
    BY <1>2, <2>3 DEF RowStep, OneRow
<1>9. CASE Unrecorded(w) \/ Die(w)
  <2>1. Become(w, Dead(p)) /\ row' = row
    BY <1>9 DEF Unrecorded, Die, p
  <2>2. Retells(p)
    BY <1>2, <1>3, <1>4, <1>6, <2>1 DEF Retells
  <2> QED
    BY <1>2, <2>2 DEF RowStep, OneRow
<1> QED
  BY <1>1, <1>7, <1>8, <1>9

\* The row of a pipeline that leaves its worker.
LEMMA OutcomeRows ==
    ASSUME PlaceInv, NEW w \in Workers, Busy(w), Outcome(w) \/ Cancelled(w)
    PROVE  RowStep
<1> USE DEF PlaceInv, TypeInv, producerVars, storeVars, counters
<1> DEFINE p == worker[w].item
<1>1. /\ p \in Pipelines /\ worker[w].pc \notin {"dying", "reporting"} /\ ~Reporting(w)
      /\ UNCHANGED <<source, queue, offer, opened>> /\ Queued' = Queued
      /\ p \in Executing /\ p \notin parked
  <2>1. p \in Pipelines /\ worker[w].pc \notin {"dying", "reporting"} /\ ~Reporting(w)
    BY ItemFacts DEF Busy, Reporting
  <2>2. UNCHANGED <<source, queue, offer, opened>>
    BY <2>1 DEF Outcome, Reported, Succeed, Fail, Park, Surprise, Unrecorded, Die, SelfCancel,
                Cancelled
  <2>3. p \in Executing
    BY DEF Executing
  <2> QED
    BY <2>1, <2>2, <2>3, QueueStill DEF Apart
<1> HIDE DEF p
<1>2. /\ Idle \in Items /\ Gone \in Items /\ Dead(p) \in Items /\ Reports(p) \in Items
      /\ Idle.pc # "busy" /\ Gone.pc # "busy" /\ Dead(p).pc # "busy" /\ Reports(p).pc # "busy"
  BY <1>1, ItemTypes DEF Idle, Gone, Dead, Reports
<1>3. ASSUME NEW what \in {Idle, Gone}, Become(w, what)
      PROVE  Executing' = Executing \ {p} /\ Dying' = Dying /\ Told' = Told
  BY <1>1, <1>2, <1>3, WorkerStops, DyingFacts DEF p
<1>4. ASSUME Become(w, Dead(p))
      PROVE  Executing' = Executing \ {p} /\ Dying' = Dying \cup {p} /\ Told' = Told
  <2>1. Executing' = Executing \ {p}
    BY <1>1, <1>2, <1>4, WorkerStops DEF p
  <2> QED
    BY <1>1, <1>4, <2>1, DyingFacts
<1>5. ASSUME Become(w, Reports(p))
      PROVE  Executing' = Executing \ {p} /\ Dying' = Dying /\ Told' = Told \cup {p}
  <2>1. Executing' = Executing \ {p}
    BY <1>1, <1>2, <1>5, WorkerStops DEF p
  <2> QED
    BY <1>1, <1>5, <2>1, DyingFacts
<1>6. ASSUME Closes(p)
      PROVE  RowStep
  BY <1>1, <1>6 DEF RowStep, OneRow
<1>7. CASE Succeed(w) \/ Fail(w)
  <2>1. /\ Become(w, Reports(p)) /\ parked' = parked
        /\ Record(p, "succeeded") \/ Record(p, "failed")
    BY <1>7 DEF Succeed, Fail, p
  <2>2. Closes(p)
    BY <1>1, <1>5, <2>1 DEF Closes, Terminal
  <2> QED
    BY <1>6, <2>2
<1>8. CASE Park(w)
  <2>1. Become(w, Idle) /\ parked' = parked \cup {p} /\ row' = row /\ UNCHANGED <<admitted, done>>
    BY <1>8 DEF Park, PutAside, p
  <2>2. Parks(p)
    BY <1>1, <1>3, <2>1 DEF Parks, places
  <2> QED
    BY <1>1, <1>3, <2>1, <2>2, CalmMoves DEF RowStep
<1>9. CASE Surprise(w)
  <2>1. /\ Record(p, "failed")
        /\ \/ (Become(w, Idle) \/ Become(w, Dead(p))) /\ parked' = parked
           \/ Become(w, Idle) /\ parked' = parked \cup {p}
    BY <1>9 DEF Surprise, PutAside, p
  <2>2. Closes(p)
    BY <1>1, <1>3, <1>4, <2>1 DEF Closes, Terminal
  <2> QED
    BY <1>6, <2>2
<1>10. CASE Unrecorded(w) \/ Die(w)
  <2>1. Become(w, Dead(p)) /\ parked' = parked /\ row' = row
    BY <1>10 DEF Unrecorded, Die, p
  <2>2. Closes(p)
    BY <1>1, <1>4, <2>1 DEF Closes
  <2> QED
    BY <1>6, <2>2
<1>11. CASE SelfCancel(w) \/ Cancelled(w)
  <2>1. /\ parked' = parked
        /\ \/ /\ Become(w, Gone) /\ Record(p, "interrupted")
              /\ "selfCancel" \in Faults \/ doomed # {}
           \/ Become(w, Dead(p)) /\ row' = row
    BY <1>11 DEF SelfCancel, Cancelled, Busy, Interrupted, p
  <2>2. Closes(p)
    BY <1>1, <1>3, <1>4, <2>1 DEF Closes, Terminal
  <2> QED
    BY <1>6, <2>2
<1> QED
  BY <1>1, <1>7, <1>8, <1>9, <1>10, <1>11 DEF Outcome, Reported

LEMMA RowSteps ==
    ASSUME PlaceInv, [Next]_vars
    PROVE  RowStep
<1> USE DEF PlaceInv, TypeInv, producerVars, storeVars, counters
<1>0. ASSUME worker' = worker
      PROVE  Dying' = Dying /\ Told' = Told /\ Executing' = Executing
  BY <1>0 DEF Dying, Told, Held, Executing, Busy
<1>00. ASSUME queue' = queue
       PROVE  Queued' = Queued
  BY <1>00 DEF Queued
<1>1. CASE ProducerStep
  <2>1. CASE End
    BY <1>0, <1>00, <2>1, SettleFacts DEF End, SettlesRows, RowStep, places
  <2>2. CASE ~End
    <3>1. UNCHANGED <<row, opened, worker, parked>>
      BY <1>1, <2>2 DEF ProducerStep, Admit, SourceEnds, SourceRaises, Handed, NotHanded, Leave,
                BeginShutdown, SendSentinel, SentinelsAborted, GraceOver
    <3>2. UNCHANGED <<row, opened, Dying, Told, Executing, parked>>
      BY <1>0, <3>1
    <3> QED
      BY <1>1, <3>1, <3>2, ProducerMoves, CalmMoves DEF ProducerMove, RowStep
  <2> QED
    BY <2>1, <2>2
<1>2. CASE \/ Stop \/ CancelRun \/ CancelDrain \/ CancelShutdown
           \/ \E p \in Pipelines : Pump(p)
  <2>1. CASE CancelShutdown
    BY <1>0, <1>00, <2>1, SettleFacts DEF CancelShutdown, SettlesRows, RowStep, places
  <2>2. CASE Stop \/ CancelRun \/ CancelDrain
    <3>1. UNCHANGED <<row, opened, worker, parked>>
      BY <2>2 DEF Stop, CancelRun, CancelDrain
    <3> QED
      BY <1>0, <1>2, <2>2, <3>1, OutsideMoves, CalmMoves DEF ProducerMove, RowStep
  <2>3. ASSUME NEW p \in Pipelines, Pump(p)
        PROVE  RowStep
    <3>1. UNCHANGED <<row, opened, worker>>
      BY <2>3 DEF Pump
    <3> QED
      BY <1>0, <2>3, <3>1, PumpMoves, CalmMoves DEF RowStep
  <2> QED
    BY <1>2, <2>1, <2>2, <2>3
<1>3. ASSUME UNCHANGED <<source, queue, parked, offer, row, opened, Executing, Dying, Told>>
      PROVE  RowStep
  BY <1>00, <1>3 DEF Calm, RowStep, Unfinished
<1>4. ASSUME NEW w \in Workers, Cancelled(w), ~Busy(w)
      PROVE  RowStep
  <2>1. /\ worker[w].pc = "idle" /\ Become(w, Gone)
        /\ UNCHANGED <<source, queue, parked, offer, row, opened>>
    BY <1>4 DEF Cancelled
  <2>2. Executing' = Executing /\ Dying' = Dying /\ Told' = Told
    BY <1>4, <2>1, WorkerStops, HeldFacts DEF Gone, Items, Dying, Told
  <2> QED
    BY <1>3, <2>1, <2>2
<1>5. ASSUME NEW w \in Workers, Supervise(w)
      PROVE  RowStep
  <2> DEFINE p == worker[w].item
  <2>1. /\ worker[w].pc = "dying" /\ ~Busy(w) /\ p \in Pipelines /\ Become(w, Gone)
        /\ UNCHANGED <<source, queue, parked, offer, opened>>
        /\ Record(p, TerminalAfterCrash(p)) \/ (row' = row /\ "fatal" \in flags')
        /\ "hard" \in flags'
    BY <1>5, ItemFacts DEF Supervise, Busy
  <2>2. Gone \in Items /\ Gone.pc \notin {"busy", "dying"}
    BY DEF Gone, Items
  <2>3. /\ Executing' = Executing /\ p \in Dying /\ Told' = Told
        /\ Dying' \subseteq Dying /\ Dying \ {p} \subseteq Dying'
    BY <2>1, <2>2, WorkerStops, DyingFacts
  <2> HIDE DEF p
  <2>4. Buries(p)
    BY <1>00, <2>1, <2>3 DEF Buries, places
  <2> QED
    BY <2>1, <2>4 DEF RowStep, OneRow
<1>6. CASE UNCHANGED vars \/ \E w \in Workers : Swallow(w)
  BY <1>0, <1>3, <1>6 DEF vars, Swallow
<1>7. ASSUME NEW w \in Workers, Outcome(w)
      PROVE  RowStep
  BY <1>7, OutcomeWorker, OutcomeRows, ReportingRows
<1>8. ASSUME NEW w \in Workers, Cancelled(w)
      PROVE  RowStep
  BY <1>4, <1>8, OutcomeRows
<1> QED
  BY <1>1, <1>2, <1>5, <1>6, <1>7, <1>8, TakeRows DEF Next, Over, LoopStep

LEMMA OpenedInit == Init => OpenedInv
<1> SUFFICES ASSUME Init
             PROVE  OpenedInv
  OBVIOUS
<1>1. Executing = {} /\ Dying = {} /\ Told = {}
  BY DEF Init, Executing, Dying, Told, Held, Busy, Idle
<1> QED
  BY <1>1 DEF Init, OpenedInv

\* What the step of one pipeline leaves alone.
LEMMA RowFrame ==
    ASSUME PlaceInv, NEW p \in Pipelines, NEW q \in Pipelines, q # p, OneRow(p)
    PROVE  /\ row'[q] = row[q]
           /\ q \in Unfinished' <=> q \in Unfinished
           /\ q \in Executing' <=> q \in Executing
           /\ q \in Dying' <=> q \in Dying
           /\ q \in Told' => q \in Told
           /\ q \in opened' <=> q \in opened
<1> USE DEF places, Record, TypeOK, PlaceInv, TypeInv
<1>1. CASE Opens(p)
  BY <1>1 DEF Opens, Unfinished
<1>2. CASE FailsToOpen(p)
  BY <1>2 DEF FailsToOpen, Unfinished
<1>3. CASE Closes(p)
  BY <1>3 DEF Closes, Unfinished
<1>4. CASE Retells(p)
  BY <1>4 DEF Retells, Unfinished
<1>5. CASE Buries(p)
  BY <1>5 DEF Buries, Unfinished
<1> QED
  BY <1>1, <1>2, <1>3, <1>4, <1>5 DEF OneRow

\* Where the pipeline of a step is before and after it.
LEMMA RowPlaces ==
    ASSUME PlaceInv, OpenedInv, NEW p \in Pipelines, OneRow(p)
    PROVE  /\ source' = source /\ offer' = offer /\ p \notin source /\ p # offer
           /\ parked' \subseteq parked \cup {p} /\ (p \in parked' => p \in opened')
           /\ p \in Executing' => p \in opened'
           /\ Opens(p) => p \notin Dying' \cup Told' /\ row'[p] = "running"
           /\ FailsToOpen(p) => p \notin Unfinished' \cup Told' \cup opened'
           /\ Closes(p) => /\ p \in Unfinished' => p \notin Dying' \cup Told' \cup Executing'
                           /\ p \in opened'
           /\ Retells(p) \/ Buries(p) => p \notin Unfinished'
<1> USE DEF places, OpenedInv, PlaceInv, TypeInv, Apart, Unfinished
<1>1. CASE Opens(p)
  <2>1. row'[p] = "running"
    BY <1>1 DEF Opens, Record, TypeOK
  <2> QED
    BY <1>1, <2>1 DEF Opens, Closes, FailsToOpen, Retells, Buries
<1>2. CASE FailsToOpen(p) /\ ~Opens(p)
  BY <1>2 DEF FailsToOpen, Closes, Retells, Buries
<1>3. CASE Closes(p) /\ ~Opens(p) /\ ~FailsToOpen(p)
  <2>1. p \in Unfinished' => parked' = parked \cup {p} /\ Dying' = Dying /\ Told' = Told
    BY <1>3 DEF Closes
  <2>2. p \notin Executing'
    BY <1>3 DEF Closes
  <2> QED
    BY <1>3, <2>1, <2>2 DEF Closes, Retells, Buries
<1>4. CASE (Retells(p) \/ Buries(p)) /\ ~Opens(p) /\ ~FailsToOpen(p) /\ ~Closes(p)
  <2>1. places' = places /\ opened' = opened /\ p \in Dying \cup Told /\ p # NoItem
    BY <1>4, ConstantsAssumption DEF Retells, Buries
  <2>2. p \notin Unfinished /\ p \notin source /\ p # offer
    BY <2>1
  <2>3. Unfinished' = Unfinished
    BY <2>1
  <2> QED
    BY <1>4, <2>1, <2>2, <2>3
<1> QED
  BY <1>1, <1>2, <1>3, <1>4 DEF OneRow

LEMMA OpenedStep == PlaceInv /\ OpenedInv /\ [Next]_vars => OpenedInv'
<1> SUFFICES ASSUME PlaceInv, OpenedInv, [Next]_vars
             PROVE  OpenedInv'
  OBVIOUS
<1> USE PlaceTypes, ConstantsAssumption DEF PlaceInv, TypeInv, places
<1>0. NoItem \notin opened /\ row \in [Pipelines -> {"none", "running"} \cup Terminal]
  BY DEF TypeOK, Terminal
<1>00. (Dying \cup Told)' \subseteq Pipelines /\ opened' \subseteq Pipelines
         /\ Executing' \subseteq Pipelines
  <2>1. TypeOK'
    BY TypeStep
  <2>2. \A w \in Workers : worker'[w].pc \in {"busy", "dying", "reporting"} =>
          worker'[w].item \in Pipelines
    <3> SUFFICES ASSUME NEW w \in Workers, worker'[w].pc \in {"busy", "dying", "reporting"}
                 PROVE  worker'[w].item \in Pipelines
      OBVIOUS
    <3>1. worker'[w] \in Items
      BY <2>1 DEF TypeOK
    <3> QED
      BY <3>1 DEF Items, Idle, Gone
  <2>3. Dying' \subseteq Pipelines /\ Told' \subseteq Pipelines
    BY <2>2 DEF Dying, Told, Held
  <2>4. Executing' \subseteq Pipelines
    BY <2>2 DEF Executing, Busy
  <2> QED
    BY <2>1, <2>3, <2>4 DEF TypeOK
<1>1. ASSUME NEW p \in Pipelines, OneRow(p)
      PROVE  OpenedInv'
  <2>1. \A q \in Pipelines : q # p =>
           /\ row'[q] = row[q]
           /\ q \in Unfinished' <=> q \in Unfinished
           /\ q \in Executing' <=> q \in Executing
           /\ q \in Dying' <=> q \in Dying
           /\ q \in Told' => q \in Told
           /\ q \in opened' <=> q \in opened
    BY <1>1, RowFrame
  <2>2. /\ source' = source /\ offer' = offer /\ p \notin source /\ p # offer
        /\ parked' \subseteq parked \cup {p} /\ (p \in parked' => p \in opened')
        /\ p \in Executing' => p \in opened'
    BY <1>1, RowPlaces
  <2>3. p \notin opened' => row'[p] # "running"
    <3>1. CASE Opens(p) \/ Closes(p)
      BY <3>1, RowPlaces DEF Opens, OneRow
    <3>2. CASE FailsToOpen(p)
      BY <3>2 DEF FailsToOpen, OpenedInv, Record, TypeOK
    <3>3. CASE Retells(p)
      BY <3>3 DEF Retells, OpenedInv, Record, TypeOK
    <3>4. CASE Buries(p)
      BY <3>4 DEF Buries, OpenedInv, Record, TypeOK, TerminalAfterCrash
    <3> QED
      BY <1>1, <3>1, <3>2, <3>3, <3>4 DEF OneRow
  <2>4. p \in Dying' \cup Told' => p \notin Unfinished'
    BY <1>1, RowPlaces DEF OneRow, Opens, Unfinished
  <2>5. p \in Told' => row'[p] \in {"succeeded", "failed"}
    <3>1. CASE Opens(p) \/ FailsToOpen(p)
      BY <1>1, <3>1, RowPlaces
    <3>2. CASE Closes(p)
      <4>1. p \notin Told
        BY <3>2 DEF Closes, OpenedInv, Unfinished
      <4> QED
        BY <3>2, <4>1 DEF Closes, Record, TypeOK, Terminal
    <3>3. CASE Retells(p)
      BY <3>3 DEF Retells, OpenedInv, Record, TypeOK
    <3>4. CASE Buries(p)
      BY <3>4 DEF Buries, OpenedInv, Record, TypeOK, TerminalAfterCrash
    <3> QED
      BY <1>1, <3>1, <3>2, <3>3, <3>4 DEF OneRow
  <2>6. \A q \in Pipelines : q \notin opened' => row'[q] # "running"
    BY <2>1, <2>3 DEF OpenedInv
  <2>7. Executing' \subseteq opened' /\ parked' \subseteq opened'
    BY <1>00, <2>1, <2>2 DEF OpenedInv
  <2>8. source' \cap opened' = {} /\ offer' \notin opened'
    BY <1>0, <1>00, <2>1, <2>2 DEF OpenedInv
  <2>9. (Dying' \cup Told') \cap (source' \cup Unfinished') = {}
    BY <1>00, <2>1, <2>2, <2>4 DEF OpenedInv
  <2>10. \A q \in Told' : row'[q] \in {"succeeded", "failed"}
    BY <1>00, <2>1, <2>5 DEF OpenedInv
  <2> QED
    BY <2>6, <2>7, <2>8, <2>9, <2>10 DEF OpenedInv
<1>2. CASE SettlesRows
  <2>1. Unfinished' \subseteq Unfinished
    BY <1>2 DEF SettlesRows, Unfinished
  <2>2. \A q \in Told : row'[q] = row[q]
    BY <1>00, <1>2 DEF SettlesRows, OpenedInv, Unfinished
  <2> QED
    BY <1>2, <2>1, <2>2 DEF SettlesRows, OpenedInv
<1>3. CASE Calm
  <2>1. (Dying' \cup Told') \cap (source' \cup Unfinished') = {}
    BY <1>3 DEF Calm, OpenedInv
  <2> QED
    BY <1>0, <1>3, <2>1 DEF Calm, OpenedInv
<1> QED
  BY <1>1, <1>2, <1>3, RowSteps DEF RowStep

\* A pipeline that was opened and is not finished has a row that says so, or one that
\* says "failed" if its retry was scheduled before the error; while a worker drives it,
\* the row says "running".
LiveInv ==
    /\ \A p \in opened \cap Unfinished : row[p] \in {"running", "failed"}
    /\ \A p \in Executing : row[p] = "running"

LEMMA LiveStep ==
    ASSUME PlaceInv, OpenedInv, LiveInv, [Next]_vars
    PROVE  LiveInv'
<1> USE DEF PlaceInv, TypeInv, places
<1>0. opened' \subseteq Pipelines /\ Executing' \subseteq opened'
  BY TypeStep, OpenedStep DEF TypeOK, OpenedInv
<1>1. ASSUME NEW p \in Pipelines, OneRow(p)
      PROVE  LiveInv'
  <2>1. /\ p \in Unfinished' /\ p \in opened' => row'[p] \in {"running", "failed"}
        /\ p \in Executing' => row'[p] = "running"
    <3>1. CASE Opens(p)
      BY <1>1, <3>1, RowPlaces
    <3>2. CASE FailsToOpen(p) \/ Retells(p) \/ Buries(p)
      <4>1. p \notin Unfinished'
        BY <1>1, <3>2, RowPlaces
      <4> QED
        BY <4>1 DEF Unfinished
    <3>3. CASE Closes(p)
      <4>1. p \notin Executing'
        BY <3>3 DEF Closes
      <4>2. p \in Unfinished' => parked' = parked \cup {p} /\ p \notin parked
        BY <3>3 DEF Closes, Unfinished, Apart
      <4>3. p \in Unfinished' => row'[p] = "failed"
        BY <3>3, <4>2 DEF Closes, Record, TypeOK
      <4> QED
        BY <4>1, <4>3
    <3> QED
      BY <1>1, <3>1, <3>2, <3>3 DEF OneRow
  <2>2. \A q \in Pipelines : q # p =>
          /\ q \in opened' \cap Unfinished' => row'[q] \in {"running", "failed"}
          /\ q \in Executing' => row'[q] = "running"
    BY <1>1, RowFrame DEF LiveInv
  <2> QED
    BY <1>0, <2>1, <2>2 DEF LiveInv
<1>2. CASE SettlesRows
  <2>1. \A q \in Pipelines : q \in Unfinished' => q \in Unfinished /\ q \notin parked
    BY <1>2 DEF SettlesRows, Unfinished, Apart
  <2>2. \A q \in Pipelines : q \in Executing' => q \in Executing /\ q \notin parked
    BY <1>2 DEF SettlesRows, Apart
  <2> QED
    BY <1>0, <1>2, <2>1, <2>2 DEF SettlesRows, LiveInv
<1>3. CASE Calm
  BY <1>3 DEF Calm, LiveInv, OpenedInv
<1> QED
  BY <1>1, <1>2, <1>3, RowSteps DEF RowStep

\* What was recorded is not rewritten by the same run, whichever worker dies, is
\* cancelled or shut down afterwards (_drive, _mark_deferred_interrupted,
\* _terminalize_crashed_pipeline), whatever faults occur: an error of the framework
\* alone takes a success back and counts a failure for it
\* (_finish_pipeline_after_internal_error), and only a pipeline whose retry was
\* scheduled before such an error goes on after it was recorded as failed.
THEOREM HistoryStays == Spec => HistoryIsKept
<1> DEFINE Inv == PlaceInv /\ OpenedInv /\ LiveInv
           Kept(p) ==
             /\ row[p] = "succeeded" /\ row'[p] # "succeeded" =>
                  row'[p] = "failed" /\ failed' > failed
             /\ row[p] = "failed" /\ row'[p] # "failed" => p \in Queued \cup parked
<1>1. Init => Inv
  <2> SUFFICES ASSUME Init
               PROVE  LiveInv
    BY PlaceInit, OpenedInit
  <2> QED
    BY DEF Init, LiveInv, Executing, Busy, Idle
<1>2. Inv /\ [Next]_vars => Inv'
  BY PlaceStep, OpenedStep, LiveStep
<1>3. Inv /\ [Next]_vars => \A p \in Pipelines : Kept(p)
  <2> SUFFICES ASSUME Inv, [Next]_vars, NEW q \in Pipelines
               PROVE  Kept(q)
    OBVIOUS
  <2> USE DEF PlaceInv, TypeInv
  <2>0. row'[q] = row[q] => Kept(q)
    OBVIOUS
  <2>1. ASSUME NEW p \in Pipelines, OneRow(p), p # q
        PROVE  Kept(q)
    BY <2>0, <2>1, RowFrame
  <2>2. CASE Opens(q)
    <3>1. row[q] # "succeeded" /\ q \in Queued
      BY <2>2 DEF Opens, LiveInv, Unfinished
    <3> QED
      BY <3>1
  <2>3. CASE FailsToOpen(q)
    BY <2>3 DEF FailsToOpen, Record, TypeOK
  <2>4. CASE Closes(q)
    BY <2>4 DEF Closes, LiveInv
  <2>5. CASE Retells(q)
    BY <2>5 DEF Retells, Record, TypeOK
  <2>6. CASE Buries(q)
    BY <2>6 DEF Buries, TerminalAfterCrash, Record, TypeOK
  <2>7. CASE SettlesRows
    <3>1. q \in parked => row[q] # "succeeded"
      BY DEF LiveInv, OpenedInv, Unfinished
    <3> QED
      BY <2>7, <3>1 DEF SettlesRows
  <2>8. CASE Calm
    BY <2>0, <2>8 DEF Calm
  <2> QED
    BY <2>1, <2>2, <2>3, <2>4, <2>5, <2>6, <2>7, <2>8, RowSteps DEF RowStep, OneRow
<1> QED
  BY <1>1, <1>2, <1>3, PTL DEF Spec, HistoryIsKept

-----------------------------------------------------------------------------
(* Who owns a row that says "running". *)

OwnedInv ==
    \A p \in Pipelines :
        row[p] = "running" /\ {"fatal", "conflict"} \cap flags = {} => p \in Unfinished \cup Dying

LEMMA OwnedInit == Init => OwnedInv
BY DEF Init, OwnedInv

LEMMA OwnedStep == PlaceInv /\ OpenedInv /\ OwnedInv /\ [Next]_vars => OwnedInv'
<1> USE DEF PlaceInv, TypeInv, places
<1> SUFFICES ASSUME PlaceInv, OpenedInv, OwnedInv, [Next]_vars, NEW q \in Pipelines,
                    row'[q] = "running", {"fatal", "conflict"} \cap flags' = {}
             PROVE  q \in Unfinished' \cup Dying'
  BY DEF OwnedInv
<1>0. {"fatal", "conflict"} \cap flags = {}
  BY FlagsGrow DEF FlagStep
<1>1. row[q] = "running" => q \in Unfinished \cup Dying
  BY <1>0 DEF OwnedInv
<1>2. ASSUME NEW p \in Pipelines, OneRow(p)
      PROVE  q \in Unfinished' \cup Dying'
  <2>1. CASE p # q
    BY <1>1, <1>2, <2>1, RowFrame
  <2>2. CASE p = q /\ Opens(p)
    BY <2>2 DEF Opens, Unfinished
  <2>3. CASE p = q /\ FailsToOpen(p)
    BY <2>3 DEF FailsToOpen, Record, TypeOK
  <2>4. CASE p = q /\ Closes(p)
    BY <2>4 DEF Closes, Terminal, Record, TypeOK
  <2>5. CASE p = q /\ Retells(p)
    BY <2>5 DEF Retells, OpenedInv, Record, TypeOK
  <2>6. CASE p = q /\ Buries(p)
    <3>1. TerminalAfterCrash(p) # "running"
      BY DEF TerminalAfterCrash
    <3> QED
      BY <2>6, <3>1 DEF Buries, Record, TypeOK
  <2> QED
    BY <1>2, <2>1, <2>2, <2>3, <2>4, <2>5, <2>6 DEF OneRow
<1>3. CASE SettlesRows
  <2>1. row[q] = "running" /\ q \notin parked
    BY <1>3 DEF SettlesRows
  <2> QED
    BY <1>1, <1>3, <2>1 DEF SettlesRows, Unfinished
<1>4. CASE Calm
  <2>1. row[q] = "running" /\ q # offer
    BY <1>4 DEF Calm, OpenedInv
  <2> QED
    BY <1>0, <1>1, <1>4, <2>1 DEF Calm
<1> QED
  BY <1>2, <1>3, <1>4, RowSteps DEF RowStep

AllGone == \A w \in Workers : worker[w].pc = "gone"

\* Once run_async has returned and no worker is left, nothing happens.
LEMMA Frozen ==
    ASSUME PlaceInv, phase = "ended", AllGone, [Next]_vars
    PROVE  UNCHANGED vars
<1>1. ~ProducerStep
  BY DEF ProducerStep, Admit, MayAdmit, SourceEnds, SourceRaises, Handed, NotHanded, Leave,
         BeginShutdown, SendSentinel, SentinelsAborted, GraceOver, End
<1>2. ~(Stop \/ CancelRun \/ CancelDrain \/ CancelShutdown)
  BY DEF Stop, CancelRun, CancelDrain, CancelShutdown
<1>3. ASSUME NEW p \in Pipelines
      PROVE  ~Pump(p)
  BY DEF Pump
<1>4. ASSUME NEW w \in Workers
      PROVE  ~(LoopStep(w) \/ Outcome(w))
  <2>1. worker[w].pc = "gone" /\ w \notin doomed
    BY DEF AllGone, PlaceInv, TypeInv, TypeOK, Alive
  <2>2. ~Outcome(w)
    BY <2>1, OutcomeWorker DEF PlaceInv, TypeInv, Busy, Reporting
  <2> QED
    BY <2>1, <2>2 DEF LoopStep, Busy, Take, Cancelled, Swallow, Supervise
<1> QED
  BY <1>1, <1>2, <1>3, <1>4 DEF Next, Over

\* What the steps of the workers leave to run_async.
LEMMA WorkersKeep ==
    ASSUME NEW w \in Workers, LoopStep(w) \/ Outcome(w)
    PROVE  /\ UNCHANGED <<phase, source, sent, status>> /\ doomed' \subseteq doomed
           /\ queue' = queue \/ (queue # <<>> /\ queue' = Tail(queue))
<1> USE DEF producerVars, storeVars, counters
<1>1. CASE LoopStep(w)
  BY <1>1 DEF LoopStep, Take, Cancelled, Swallow, Supervise
<1>2. CASE Outcome(w)
  BY <1>2 DEF Outcome, Succeed, Fail, Reported, Park, Surprise, Unrecorded, Die, SelfCancel
<1> QED
  BY <1>1, <1>2

\* How a run comes to its end, and to its status.
LEMMA Endings ==
    ASSUME [Next]_vars
    PROVE  /\ phase' = "ended" /\ phase # "ended" => End \/ CancelShutdown
           /\ status' # status => End
<1> USE DEF producerVars, storeVars, counters
<1>1. CASE ProducerStep
  BY <1>1 DEF ProducerStep, Admit, SourceEnds, SourceRaises, Handed, NotHanded, Leave,
              BeginShutdown, SendSentinel, SentinelsAborted, GraceOver, CancelWorkers
<1>2. CASE \/ Stop \/ CancelRun \/ CancelDrain \/ CancelShutdown
           \/ \E p \in Pipelines : Pump(p)
  BY <1>2 DEF Stop, CancelRun, CancelDrain, CancelShutdown, Pump, CancelWorkers
<1>3. CASE UNCHANGED vars
  BY <1>3 DEF vars
<1> QED
  BY <1>1, <1>2, <1>3, WorkersKeep DEF Next, Over

\* How the queue changes: nothing is put behind a sentinel but sentinels.
LEMMA QueueSteps ==
    ASSUME [Next]_vars
    PROVE  \/ UNCHANGED <<queue, sent>>
           \/ phase \in {"admit", "handing", "complete"} /\ sent' = sent
           \/ SendSentinel
           \/ sent' = sent /\ queue # <<>> /\ queue' = Tail(queue)
<1> USE DEF producerVars, storeVars, counters
<1>1. CASE ProducerStep
  BY <1>1 DEF ProducerStep, Admit, MayAdmit, SourceEnds, SourceRaises, Handed, NotHanded, Leave,
              BeginShutdown, SentinelsAborted, GraceOver, End
<1>2. CASE \/ Stop \/ CancelRun \/ CancelDrain \/ CancelShutdown
           \/ \E p \in Pipelines : Pump(p)
  BY <1>2 DEF Stop, CancelRun, CancelDrain, CancelShutdown, Pump
<1>3. CASE UNCHANGED vars
  BY <1>3 DEF vars
<1> QED
  BY <1>1, <1>2, <1>3, WorkersKeep DEF Next, Over

\* What is left when a run is over: either the workers did not get all their sentinels,
\* or every worker has ended and nothing is parked. What is queued then ends in a sentinel.
LastInv ==
    /\ sent > 0 /\ queue # <<>> => queue[Len(queue)] = Sentinel
    /\ phase = "ended" => sent < WorkerCount \/ (AllGone /\ parked = {})

LEMMA LastInit == Init => LastInv
BY DEF Init, LastInv

LEMMA LastStep == PlaceInv /\ LastInv /\ [Next]_vars => LastInv'
<1> SUFFICES ASSUME PlaceInv, LastInv, [Next]_vars
             PROVE  LastInv'
  OBVIOUS
<1> USE DEF PlaceInv, TypeInv
<1>1. (sent > 0 /\ queue # <<>> => queue[Len(queue)] = Sentinel)'
  <2>1. CASE UNCHANGED <<queue, sent>>
    BY <2>1 DEF LastInv
  <2>2. CASE phase \in {"admit", "handing", "complete"} /\ sent' = sent
    BY <2>2 DEF PhaseInv
  <2>3. CASE SendSentinel
    BY <2>3, AppendFacts DEF SendSentinel
  <2>4. CASE sent' = sent /\ queue # <<>> /\ queue' = Tail(queue)
    <3> SUFFICES ASSUME sent > 0, queue' # <<>>
                 PROVE  queue'[Len(queue')] = Sentinel
      BY <2>4
    <3>1. /\ Len(queue) \in Nat \ {0} /\ Len(queue') = Len(queue) - 1
          /\ \A i \in 1 .. Len(queue') : queue'[i] = queue[i + 1]
          /\ queue' \in Seq(Pipelines \cup {Sentinel})
      BY <2>4, TailFacts
    <3>2. Len(queue') \in 1 .. Len(queue')
      BY <3>1
    <3>3. queue'[Len(queue')] = queue[Len(queue)]
      BY <3>1, <3>2
    <3> QED
      BY <2>4, <3>3 DEF LastInv
  <2> QED
    BY <2>1, <2>2, <2>3, <2>4, QueueSteps
<1>2. (phase = "ended" => sent < WorkerCount \/ (AllGone /\ parked = {}))'
  <2>1. CASE phase = "ended" /\ AllGone
    <3>1. UNCHANGED vars
      BY <2>1, Frozen
    <3> QED
      BY <2>1, <3>1 DEF LastInv, AllGone, vars, WorkerCount
  <2>2. CASE phase = "ended" /\ ~AllGone
    <3>1. sent < WorkerCount /\ sent' = sent
      BY <2>2, QueueSteps DEF LastInv, SendSentinel
    <3> QED
      BY <3>1 DEF WorkerCount
  <2>3. CASE phase # "ended" /\ phase' = "ended"
    <3>1. CASE End
      BY <3>1 DEF End, Settle, AllGone
    <3>2. CASE CancelShutdown
      BY <3>2, WorkersCounted DEF CancelShutdown, PhaseInv, WorkerCount
    <3> QED
      BY <2>3, <3>1, <3>2, Endings
  <2>4. CASE phase' # "ended"
    BY <2>4
  <2> QED
    BY <2>1, <2>2, <2>3, <2>4
<1> QED
  BY <1>1, <1>2 DEF LastInv

LEMMA OwnedIsOwned == PlaceInv /\ OpenedInv /\ OwnedInv /\ LastInv => RunningIsOwned
<1> SUFFICES ASSUME PlaceInv, OpenedInv, OwnedInv, LastInv, NEW p \in Pipelines,
                    row[p] = "running", {"fatal", "conflict"} \cap flags = {}
             PROVE  \/ p \in Executing \/ \E w \in Workers : worker[w] = Dead(p)
                    \/ p \in parked /\ phase # "ended"
                    \/ p \in Queued \cup parked /\ ~Drained
  BY DEF RunningIsOwned
<1> USE DEF PlaceInv, TypeInv
<1>1. p \in Queued \cup Executing \cup parked \cup Dying
  BY DEF OwnedInv, OpenedInv, Unfinished
<1>2. CASE p \in Dying
  <2>1. PICK w \in Workers : worker[w].pc = "dying" /\ worker[w].item = p
    BY <1>2 DEF Dying, Held
  <2>2. worker[w] = Dead(p)
    <3>1. \/ worker[w] = Idle \/ worker[w] = Gone \/ worker[w] = On(worker[w].item)
          \/ worker[w] = Reports(worker[w].item) \/ worker[w] = Dead(worker[w].item)
      BY ItemFacts
    <3>2. /\ Idle.pc = "idle" /\ Gone.pc = "gone"
          /\ \A i : On(i).pc = "busy" /\ Reports(i).pc = "reporting"
      BY DEF Idle, Gone, On, Reports
    <3> QED
      BY <2>1, <3>1, <3>2
  <2> QED
    BY <2>2
<1>3. CASE p \in Queued
  <2>1. /\ Len(queue) \in Nat /\ DOMAIN queue = 1 .. Len(queue)
        /\ sent \in Nat /\ WorkerCount \in Nat \ {0}
    BY WorkersCounted DEF TypeOK
  <2>2. queue # <<>> /\ Len(queue) \in DOMAIN queue
    BY <1>3, <2>1 DEF Queued, TypeOK
  <2>3. ~Drained
    BY <2>1, <2>2 DEF LastInv, Drained, WorkerCount
  <2> QED
    BY <1>3, <2>3
<1>4. CASE p \in parked /\ phase = "ended"
  <2>1. sent < WorkerCount
    BY <1>4 DEF LastInv
  <2>2. ~Drained
    BY <2>1, WorkersCounted DEF Drained, WorkerCount
  <2> QED
    BY <1>4, <2>2
<1> QED
  BY <1>1, <1>2, <1>3, <1>4

\* A row says "running" only while a worker drives the pipeline or its worker's death is
\* being recorded, or while it waits to be driven on: in the delay queue, until that is
\* settled, or before a worker's sentinel in the work queue. Only a run that was forced
\* to its end before the workers had their sentinels (_shutdown) leaves some behind.
THEOREM RunningHasOwner == Spec => []RunningIsOwned
<1> DEFINE Inv == PlaceInv /\ OpenedInv /\ OwnedInv /\ LastInv
<1>1. Init => Inv
  BY PlaceInit, OpenedInit, OwnedInit, LastInit
<1>2. Inv /\ [Next]_vars => Inv'
  BY PlaceStep, OpenedStep, OwnedStep, LastStep
<1>3. Inv => RunningIsOwned
  BY OwnedIsOwned
<1> QED
  BY <1>1, <1>2, <1>3, PTL DEF Spec

-----------------------------------------------------------------------------
(***************************************************************************)
(* The end of a run.                                                       *)
(***************************************************************************)

Admitting == phase \in {"admit", "handing"}
Open == phase \in {"admit", "handing", "complete"}

\* Cancellations are sent only while run_async waits for the workers it cancelled.
LEMMA DoomedWhen ==
    ASSUME PlaceInv, doomed # {} => phase = "cancelling", [Next]_vars
    PROVE  doomed' # {} => phase' = "cancelling"
<1> USE DEF producerVars, storeVars, counters
<1>1. CASE ProducerStep /\ ~End
  BY <1>1 DEF ProducerStep, Admit, MayAdmit, SourceEnds, SourceRaises, Handed, NotHanded, Leave,
              BeginShutdown, SendSentinel, SentinelsAborted, GraceOver, CancelWorkers
<1>2. CASE End
  <2>1. doomed = {}
    BY <1>2 DEF End, PlaceInv, TypeInv, TypeOK, Alive
  <2> QED
    BY <1>2, <2>1 DEF End
<1>3. CASE \/ Stop \/ CancelRun \/ CancelDrain \/ CancelShutdown
           \/ \E p \in Pipelines : Pump(p)
  BY <1>3 DEF Stop, CancelRun, CancelDrain, CancelShutdown, Pump, CancelWorkers
<1>4. CASE UNCHANGED vars
  BY <1>4 DEF vars
<1> QED
  BY <1>1, <1>2, <1>3, <1>4, WorkersKeep DEF Next, Over

\* The phases go forward; a run that is not stopped leaves them in order.
LEMMA PhasesGoOn ==
    ASSUME PlaceInv, [Next]_vars
    PROVE  /\ ~Open => ~Open'
           /\ ~Admitting => ~Admitting' /\ source' = source
           /\ Admitting /\ ~Admitting' => Stopping' \/ (source = {} /\ source' = {})
           /\ Open /\ ~Open' => Stopping' \/ Leave
<1> USE DEF producerVars, storeVars, counters, Open, Admitting, Stopping
<1>1. CASE ProducerStep
  <2>1. CASE \E p \in Pipelines : Admit(p)
    BY <2>1 DEF Admit, MayAdmit
  <2>2. CASE SourceEnds \/ SourceRaises \/ Handed \/ Leave
    BY <2>2 DEF SourceEnds, SourceRaises, MayAdmit, Handed, Leave
  <2>3. CASE NotHanded
    BY <2>3 DEF NotHanded, PlaceInv, FlagInv
  <2>4. CASE BeginShutdown \/ SendSentinel \/ SentinelsAborted \/ GraceOver \/ End
    BY <2>4 DEF BeginShutdown, SendSentinel, SentinelsAborted, GraceOver, End, CancelWorkers
  <2> QED
    BY <1>1, <2>1, <2>2, <2>3, <2>4 DEF ProducerStep
<1>2. CASE \/ Stop \/ CancelRun \/ CancelDrain \/ CancelShutdown
           \/ \E p \in Pipelines : Pump(p)
  BY <1>2 DEF Stop, CancelRun, CancelDrain, CancelShutdown, Pump, CancelWorkers
<1>3. ASSUME NEW w \in Workers, LoopStep(w) \/ Outcome(w)
      PROVE  phase' = phase /\ source' = source
  BY <1>3, WorkersKeep
<1>4. CASE UNCHANGED vars
  BY <1>4 DEF vars
<1> QED
  BY <1>1, <1>2, <1>3, <1>4 DEF Next, Over

\* What becomes of a pipeline that leaves the source.
LEMMA SourceKept ==
    ASSUME PlaceInv, [Next]_vars
    PROVE  /\ Unfinished' \subseteq Unfinished \cup source
           /\ source \subseteq source' \cup Unfinished'
<1> USE DEF places, Unfinished
<1>1. Move
  BY StepMoves
<1>2. ASSUME NEW p \in Pipelines, Admits(p)
      PROVE  /\ Unfinished' \subseteq Unfinished \cup source
             /\ source \subseteq source' \cup Unfinished'
  <2>1. p # NoItem
    BY ConstantsAssumption
  <2> QED
    BY <1>2, <2>1 DEF Admits
<1>3. ASSUME NEW p \in Pipelines, Returns(p) \/ Starts(p) \/ Drops(p) \/ Leaves(p) \/ Parks(p)
      PROVE  /\ Unfinished' \subseteq Unfinished \cup source
             /\ source \subseteq source' \cup Unfinished'
  BY <1>3 DEF Returns, Starts, Drops, Leaves, Parks
<1>4. CASE Hands \/ Withdraws \/ Settles \/ Stays
  BY <1>4 DEF Hands, Withdraws, Settles, Stays
<1> QED
  BY <1>1, <1>2, <1>3, <1>4 DEF Move

Achieved(p) == row[p] \in {"succeeded", "failed"}

\* A run that nobody stops loses nothing: past admission the source is used up,
\* past completion nothing is unfinished, and what is neither to be admitted,
\* nor unfinished, nor with a dying worker has succeeded or failed.
DoneInv ==
    /\ ~Admitting => source = {} \/ Stopping
    /\ ~Open => Unfinished = {} \/ Stopping
    /\ doomed # {} => phase = "cancelling"
    /\ \A p \in Pipelines \ (source \cup Unfinished \cup Dying) :
         Achieved(p) \/ Stopping \/ "reraise" \in flags
    /\ status = "completed" =>
         phase = "ended" /\ AllGone /\ source = {} /\ \A p \in Pipelines : Achieved(p)

CompletedInv == PlaceInv /\ CountInv /\ OpenedInv /\ DoneInv

Sound == {"afterCount", "afterPark", "selfCancel"} \cap Faults = {}

LEMMA NothingLeft ==
    ASSUME PlaceInv, CountInv, Finished
    PROVE  Unfinished = {}
<1>1. IsFiniteSet(Unfinished) /\ Cardinality(Unfinished) \in Nat
  BY PlaceTypes, FS_CardinalityType DEF PlaceInv, TypeInv
<1>2. Cardinality(Unfinished) = 0
  BY <1>1 DEF CountInv, Finished, PlaceInv, TypeInv, TypeOK
<1> QED
  BY <1>1, <1>2, FS_EmptySet

LEMMA RowsAchieved ==
    ASSUME Sound, CompletedInv, [Next]_vars, ~Stopping', "reraise" \notin flags',
           NEW q \in Pipelines, q \notin source' \cup Unfinished' \cup Dying'
    PROVE  row'[q] \in {"succeeded", "failed"}
<1> USE DEF CompletedInv, PlaceInv, TypeInv, places
<1>1. ~Stopping /\ "reraise" \notin flags /\ "conflict" \notin flags
  BY FlagsGrow DEF FlagStep, Stopping, FlagInv
<1>2. q \notin source
  BY SourceKept
<1>3. q \notin Unfinished /\ q \notin Dying => Achieved(q)
  BY <1>1, <1>2 DEF DoneInv
<1>4. "hard" \notin flags'
  BY FlagsGrow, FlagsAgree DEF FlagInv, Stopping
<1>5. ASSUME NEW p \in Pipelines, OneRow(p)
      PROVE  row'[q] \in {"succeeded", "failed"}
  <2>1. CASE p # q
    BY <1>3, <1>5, <2>1, RowFrame DEF Achieved
  <2>2. CASE p = q /\ Opens(p)
    BY <2>2 DEF Opens, Unfinished
  <2>3. CASE p = q /\ FailsToOpen(p)
    BY <2>3 DEF FailsToOpen, Record, TypeOK
  <2>4. CASE p = q /\ Closes(p)
    <3>1. doomed = {}
      <4>1. p \in Unfinished /\ ~Stopping
        BY <1>1, <2>4 DEF Closes, Unfinished
      <4>2. Open
        BY <4>1 DEF DoneInv
      <4> QED
        BY <4>2 DEF DoneInv, Open
    <3>2. PICK state \in Terminal :
            Record(p, state) /\ (state = "interrupted" => "selfCancel" \in Faults \/ doomed # {})
      BY <2>4 DEF Closes
    <3>3. state \in {"succeeded", "failed"}
      BY <3>1, <3>2 DEF Terminal, Sound
    <3> QED
      BY <2>4, <3>2, <3>3 DEF Record, TypeOK
  <2>5. CASE p = q /\ Retells(p)
    BY <2>5 DEF Retells, OpenedInv, Record, TypeOK
  <2>6. CASE p = q /\ Buries(p)
    BY <1>4, <2>6 DEF Buries
  <2> QED
    BY <1>5, <2>1, <2>2, <2>3, <2>4, <2>5, <2>6 DEF OneRow
<1>6. CASE SettlesRows
  <2>1. Unfinished = {}
    BY <1>1, <1>6 DEF SettlesRows, DoneInv, Open
  <2> QED
    BY <1>3, <1>6, <2>1 DEF SettlesRows, Unfinished, Achieved
<1>7. CASE Calm
  <2>1. q \notin Dying /\ row'[q] = row[q]
    BY <1>7 DEF Calm
  <2>2. q \in Unfinished => row[q] = "succeeded"
    BY <1>1, <1>7 DEF Calm
  <2> QED
    BY <1>3, <2>1, <2>2 DEF Achieved
<1> QED
  BY <1>5, <1>6, <1>7, RowSteps DEF RowStep

LEMMA DoneStep ==
    ASSUME Sound, CompletedInv, [Next]_vars
    PROVE  DoneInv'
<1> USE DEF CompletedInv
<1>0. flags \subseteq flags' /\ (Stopping => Stopping')
  BY FlagsGrow DEF FlagStep, Stopping
<1>1. (~Admitting => source = {} \/ Stopping)'
  BY <1>0, PhasesGoOn DEF DoneInv
<1>2. (~Open => Unfinished = {} \/ Stopping)'
  <2> SUFFICES ASSUME ~Open', ~Stopping'
               PROVE  Unfinished' = {}
    OBVIOUS
  <2>1. CASE ~Open
    <3>1. source = {} /\ Unfinished = {}
      BY <1>0, <2>1 DEF DoneInv, Open, Admitting
    <3> QED
      BY <3>1, SourceKept
  <2>2. CASE Open
    <3>1. Leave /\ ~Stopping
      BY <1>0, <2>2, PhasesGoOn
    <3>2. Finished /\ phase = "complete"
      BY <3>1 DEF Leave
    <3>3. source = {} /\ Unfinished = {}
      BY <3>1, <3>2, NothingLeft DEF DoneInv, Admitting
    <3> QED
      BY <3>3, SourceKept
  <2> QED
    BY <2>1, <2>2
<1>3. (doomed # {} => phase = "cancelling")'
  BY DoomedWhen DEF DoneInv
<1>4. (\A p \in Pipelines \ (source \cup Unfinished \cup Dying) :
         Achieved(p) \/ Stopping \/ "reraise" \in flags)'
  BY RowsAchieved DEF Achieved
<1>5. (status = "completed" =>
         phase = "ended" /\ AllGone /\ source = {} /\ \A p \in Pipelines : Achieved(p))'
  <2> SUFFICES ASSUME status' = "completed"
               PROVE  (phase = "ended" /\ AllGone /\ source = {} /\ \A p \in Pipelines : Achieved(p))'
    OBVIOUS
  <2>1. CASE status = "completed"
    <3>1. phase = "ended" /\ AllGone /\ source = {} /\ \A p \in Pipelines : Achieved(p)
      BY <2>1 DEF DoneInv
    <3>2. UNCHANGED vars
      BY <3>1, Frozen
    <3> QED
      BY <3>1, <3>2 DEF vars, AllGone, Achieved
  <2>2. CASE status # "completed"
    <3>1. End
      BY <2>2, Endings
    <3>2. /\ phase \in {"draining", "cancelling"} /\ phase' = "ended"
          /\ ~Stopping /\ "reraise" \notin flags
          /\ AllGone /\ UNCHANGED <<source, worker, flags>>
      BY <2>2, <3>1 DEF End, AllGone
    <3>3. source = {} /\ Unfinished = {}
      BY <3>2 DEF DoneInv, Open, Admitting
    <3>4. Dying = {} /\ Dying' = {}
      BY <3>2 DEF Dying, Held, AllGone
    <3>5. Unfinished' = {}
      BY <3>3, SourceKept
    <3>6. \A p \in Pipelines : Achieved(p)'
      BY <1>4, <3>2, <3>3, <3>4, <3>5 DEF Stopping
    <3> QED
      BY <3>2, <3>3, <3>6 DEF AllGone
  <2> QED
    BY <2>1, <2>2
<1> QED
  BY <1>1, <1>2, <1>3, <1>4, <1>5 DEF DoneInv

\* A run that reports "completed" has taken everything from its source and
\* brought it to success or failure, the parked pipelines included
\* (_wait_for_completion, the end of run_async), unless a fault counts a pipeline
\* twice or a task cancels itself.
THEOREM CompletedIsAll ==
    ASSUME {"afterCount", "afterPark", "selfCancel"} \cap Faults = {}
    PROVE  Spec => []CompletedMeansAll
<1>0. Sound /\ ~Miscounts
  BY DEF Sound, Miscounts
<1>1. Init => CompletedInv
  <2> SUFFICES ASSUME Init
               PROVE  DoneInv
    BY PlaceInit, CountInit, OpenedInit DEF CompletedInv
  <2> QED
    BY DEF Init, DoneInv, Admitting, Open
<1>2. CompletedInv /\ [Next]_vars => CompletedInv'
  BY <1>0, PlaceStep, CountStep, OpenedStep, DoneStep DEF CompletedInv
<1>3. CompletedInv => CompletedMeansAll
  BY DEF CompletedInv, DoneInv, Achieved, CompletedMeansAll
<1> QED
  BY <1>1, <1>2, <1>3, PTL DEF Spec

-----------------------------------------------------------------------------
(***************************************************************************)
(* A graceful end: nobody cancels the run, its grace does not expire, and  *)
(* no fault stops it hard or takes a worker away from its queue. Then each *)
(* worker leaves when it finds its sentinel, and all that was queued was   *)
(* queued before the sentinels.                                            *)
(***************************************************************************)

Graceful ==
    /\ Faults \subseteq {"source", "surprise", "afterCount", "afterPark", "swallow"}
    /\ CancelIn = {} /\ ~GraceExpires

\* Nobody is cancelled, no worker dies, and nothing asks the run to stop hard.
Gentle ==
    /\ doomed = {} /\ phase # "cancelling"
    /\ {"hard", "abort"} \cap flags = {}
    /\ \A w \in Workers : worker[w].pc # "dying"

SentinelsLast ==
    \A i, j \in 1 .. Len(queue) : i < j /\ queue[i] = Sentinel => queue[j] = Sentinel

\* A worker left because it found a sentinel, with nothing queued behind it.
GoneLast == (\E w \in Workers : worker[w].pc = "gone") => Queued = {}

\* Before the shutdown there are no sentinels.
Early == phase \in {"admit", "handing", "complete", "shutdown"}

\* Sentinels are sent when the pump is cancelled and nothing is handed over.
SentinelsLate ==
    Early =>
        /\ \A i \in 1 .. Len(queue) : queue[i] # Sentinel
        /\ \A w \in Workers : worker[w].pc # "gone"

GracefulInv ==
    /\ Gentle /\ SentinelsLast /\ GoneLast /\ SentinelsLate
    /\ (phase = "ended" => AllGone) /\ StoppedIsRecorded

\* A run that stays graceful keeps its workers until their sentinels.
LEMMA GentleStep ==
    ASSUME Graceful, PlaceInv, Gentle, [Next]_vars
    PROVE  Gentle'
<1> USE DEF producerVars, storeVars, counters, Gentle
<1>1. CASE ProducerStep
  BY <1>1 DEF ProducerStep, Admit, SourceEnds, SourceRaises, Handed, NotHanded, Leave,
              BeginShutdown, SendSentinel, SentinelsAborted, GraceOver, End, Graceful
<1>2. CASE \/ Stop \/ CancelRun \/ CancelDrain \/ CancelShutdown
           \/ \E p \in Pipelines : Pump(p)
  BY <1>2 DEF Stop, CancelRun, CancelDrain, CancelShutdown, Pump, Graceful
<1>3. ASSUME NEW w \in Workers, LoopStep(w) \/ Outcome(w)
      PROVE  Gentle'
  <2>1. Take(w) \/ Succeed(w) \/ Fail(w) \/ Reported(w) \/ Park(w) \/ Surprise(w)
    BY <1>3 DEF LoopStep, Outcome, Cancelled, Swallow, Supervise, Unrecorded, Die, SelfCancel,
                Graceful
  <2>2. /\ phase' = phase /\ doomed' = doomed
        /\ {"hard", "abort"} \cap flags' = {}
    <3>1. CASE Take(w)
      <4>1. {"conflict", "unrecorded"} \cap Faults = {}
        BY DEF Graceful
      <4> QED
        BY <3>1, <4>1 DEF Take, Dispatch, OpenFails, Count
    <3>2. CASE Succeed(w) \/ Fail(w) \/ Reported(w) \/ Park(w) \/ Surprise(w)
      BY <3>2 DEF Succeed, Fail, Reported, Park, Surprise, Count
    <3> QED
      BY <2>1, <3>1, <3>2
  <2>3. PICK what \in Items : Become(w, what) /\ what.pc # "dying"
    <3>1. \A p \in Pipelines : {Idle, Gone, On(p)} \subseteq Items
      BY ItemTypes
    <3>2. Idle \in Items /\ Gone \in Items
      BY DEF Items
    <3>3. CASE Take(w)
      <4>1. queue # <<>> /\ queue' = Tail(queue)
        BY <3>3 DEF Take
      <4>2. Head(queue) \in Pipelines \cup {Sentinel}
        BY <4>1, TailFacts DEF PlaceInv, TypeInv
      <4>3. Become(w, Gone) \/ Become(w, Idle)
               \/ (Head(queue) \in Pipelines /\ Become(w, On(Head(queue))))
        BY <3>3, <4>2 DEF Take, Dispatch, OpenFails, Graceful
      <4> QED
        BY <3>1, <3>2, <4>3 DEF Idle, Gone, On
    <3>4. CASE Succeed(w) \/ Fail(w)
      <4>1. Reports(worker[w].item) \in Items
        BY <3>4, ItemFacts, ItemTypes DEF Succeed, Fail, Working, Busy, PlaceInv, TypeInv
      <4> QED
        BY <3>4, <4>1 DEF Succeed, Fail, Reports
    <3>5. CASE Reported(w) \/ Park(w) \/ Surprise(w)
      BY <3>2, <3>5 DEF Reported, Park, Surprise, Idle, Graceful
    <3> QED
      BY <2>1, <3>3, <3>4, <3>5
  <2>4. \A v \in Workers : worker'[v].pc # "dying"
    BY <2>3, BecomeFacts DEF PlaceInv, TypeInv
  <2> QED
    BY <2>2, <2>4
<1>4. CASE UNCHANGED vars
  BY <1>4 DEF vars
<1> QED
  BY <1>1, <1>2, <1>3, <1>4 DEF Next, Over

\* What a graceful run does to its queue and to the workers that have left.
Queues(p) == /\ phase \in {"admit", "handing", "complete"} /\ Room
             /\ queue' = Append(queue, p) /\ worker' = worker
Keeps     == /\ queue' = queue /\ (Early' => Early)
             /\ \A w \in Workers : worker'[w].pc = "gone" => worker[w].pc = "gone"

LEMMA GracefulSteps ==
    ASSUME PlaceInv, Gentle, Gentle', [Next]_vars, Graceful
    PROVE  \/ SendSentinel \/ \E p \in Pipelines : Queues(p)
           \/ \E w \in Workers : Take(w)
           \/ Keeps
<1> USE DEF producerVars, storeVars, counters, Keeps, Early
<1>1. CASE ProducerStep
  <2>1. ASSUME NEW p \in Pipelines, Admit(p)
        PROVE  Queues(p) \/ Keeps
    BY <2>1 DEF Admit, MayAdmit, Queues
  <2>2. ASSUME Handed
        PROVE  \E p \in Pipelines : Queues(p)
    <3>1. offer \in Pipelines
      BY <2>2 DEF Handed, PlaceInv, TypeInv, PhaseInv, TypeOK
    <3> QED
      BY <2>2, <3>1 DEF Handed, Queues
  <2>3. ASSUME SourceEnds \/ SourceRaises \/ NotHanded \/ Leave \/ BeginShutdown
                 \/ SentinelsAborted \/ GraceOver \/ End
        PROVE  Keeps
    BY <2>3 DEF SourceEnds, SourceRaises, NotHanded, Leave, BeginShutdown, SentinelsAborted,
                GraceOver, End, MayAdmit, CancelWorkers
  <2> QED
    BY <1>1, <2>1, <2>2, <2>3 DEF ProducerStep
<1>2. CASE Stop \/ CancelRun \/ CancelDrain \/ CancelShutdown
  BY <1>2 DEF Stop, CancelRun, CancelDrain, CancelShutdown, Graceful
<1>3. ASSUME NEW p \in Pipelines, Pump(p)
      PROVE  Queues(p)
  BY <1>3 DEF Pump, Queues
<1>4. ASSUME NEW w \in Workers, LoopStep(w) \/ Outcome(w), ~Take(w)
      PROVE  Keeps
  <2>1. Succeed(w) \/ Fail(w) \/ Reported(w) \/ Park(w) \/ Surprise(w)
    BY <1>4 DEF LoopStep, Outcome, Cancelled, Swallow, Supervise, Unrecorded, Die, SelfCancel,
                Graceful, Gentle
  <2>2. worker[w].item \in Pipelines \/ Reported(w)
    BY <2>1, OutcomeWorker DEF Outcome, PlaceInv, TypeInv
  <2>3. /\ queue' = queue /\ phase' = phase
        /\ Become(w, Idle) \/ (worker[w].item \in Pipelines /\ Become(w, Reports(worker[w].item)))
    BY <2>1, <2>2 DEF Succeed, Fail, Reported, Park, Surprise, Graceful
  <2>4. PICK what \in Items : Become(w, what) /\ what.pc # "gone"
    <3>1. Idle \in Items /\ \A p \in Pipelines : Reports(p) \in Items
      BY ItemTypes DEF Items
    <3>2. Idle.pc # "gone" /\ \A p \in Pipelines : Reports(p).pc # "gone"
      BY DEF Idle, Reports
    <3> QED
      BY <2>3, <3>1, <3>2
  <2> QED
    BY <2>3, <2>4, BecomeFacts DEF PlaceInv, TypeInv
<1>5. CASE UNCHANGED vars
  BY <1>5 DEF vars
<1> QED
  BY <1>1, <1>2, <1>3, <1>4, <1>5 DEF Next, Over

\* Sentinels stay behind everything queued, and are the last thing a worker takes.
LEMMA OrderStep ==
    ASSUME Graceful, PlaceInv, Gentle, Gentle', SentinelsLast, GoneLast, SentinelsLate,
           [Next]_vars
    PROVE  SentinelsLast' /\ GoneLast' /\ SentinelsLate'
<1>0. TypeOK /\ OnceQueued
  BY DEF PlaceInv, TypeInv
<1>1. ASSUME NEW p \in Pipelines, Queues(p)
      PROVE  SentinelsLast' /\ GoneLast' /\ SentinelsLate'
  <2>1. p # Sentinel
    BY ConstantsAssumption
  <2>2. /\ \A i \in 1 .. Len(queue) : queue[i] # Sentinel
        /\ \A w \in Workers : worker'[w].pc # "gone"
    BY <1>1 DEF Queues, SentinelsLate, Early
  <2>3. \A i \in 1 .. Len(queue') : queue'[i] # Sentinel
    BY <1>0, <1>1, <2>1, <2>2, AppendFacts DEF Queues
  <2> QED
    BY <2>2, <2>3 DEF SentinelsLast, GoneLast, SentinelsLate
<1>2. CASE SendSentinel
  <2>1. Room /\ queue' = Append(queue, Sentinel) /\ worker' = worker /\ ~Early'
    BY <1>2 DEF SendSentinel, Early
  <2>2. Queued' = Queued
    BY <1>0, <2>1, QueueAppend
  <2>3. SentinelsLast'
    <3>1. /\ Len(queue) \in Nat /\ Len(queue') = Len(queue) + 1
          /\ \A i \in 1 .. Len(queue) : queue'[i] = queue[i]
          /\ queue'[Len(queue')] = Sentinel
      BY <1>0, <2>1, AppendFacts
    <3> SUFFICES ASSUME NEW i \in 1 .. Len(queue'), NEW j \in 1 .. Len(queue'), i < j,
                        queue'[i] = Sentinel
                 PROVE  queue'[j] = Sentinel
      BY DEF SentinelsLast
    <3>2. CASE j = Len(queue')
      BY <3>1, <3>2
    <3>3. CASE j # Len(queue')
      <4>1. i \in 1 .. Len(queue) /\ j \in 1 .. Len(queue)
        BY <3>1, <3>3
      <4> QED
        BY <3>1, <4>1 DEF SentinelsLast
    <3> QED
      BY <3>2, <3>3
  <2> QED
    BY <2>1, <2>2, <2>3 DEF GoneLast, SentinelsLate
<1>3. ASSUME NEW w \in Workers, Take(w)
      PROVE  SentinelsLast' /\ GoneLast' /\ SentinelsLate'
  <2>1. queue # <<>> /\ queue' = Tail(queue) /\ phase' = phase
    BY <1>3 DEF Take, producerVars
  <2>2. /\ Len(queue) \in Nat \ {0} /\ Len(queue') = Len(queue) - 1
        /\ \A i \in 1 .. Len(queue') : queue'[i] = queue[i + 1]
        /\ Head(queue) = queue[1] /\ Head(queue) \in Pipelines \cup {Sentinel}
    BY <1>0, <2>1, TailFacts
  <2>3. Queued' \subseteq Queued
    BY <1>0, <2>1, QueueTail
  <2>4. \A i \in 1 .. Len(queue') : i + 1 \in 1 .. Len(queue)
    BY <2>2
  <2>5. SentinelsLast'
    <3> SUFFICES ASSUME NEW i \in 1 .. Len(queue'), NEW j \in 1 .. Len(queue'), i < j,
                        queue'[i] = Sentinel
                 PROVE  queue'[j] = Sentinel
      BY DEF SentinelsLast
    <3>1. queue[i + 1] = Sentinel /\ i + 1 < j + 1
      BY <2>2
    <3> QED
      BY <2>2, <2>4, <3>1 DEF SentinelsLast
  <2>6. CASE Head(queue) = Sentinel
    <3>1. \A i \in 1 .. Len(queue) : queue[i] = Sentinel
      <4> SUFFICES ASSUME NEW i \in 1 .. Len(queue)
                   PROVE  queue[i] = Sentinel
        OBVIOUS
      <4>1. i = 1 \/ 1 < i
        BY <2>2
      <4>2. 1 \in 1 .. Len(queue)
        BY <2>2
      <4> QED
        BY <2>2, <2>6, <4>1, <4>2 DEF SentinelsLast
    <3>2. Queued = {}
      BY <1>0, <3>1 DEF Queued, TypeOK
    <3>3. ~Early
      BY <2>2, <2>6 DEF SentinelsLate
    <3> QED
      BY <2>1, <2>3, <2>5, <3>2, <3>3 DEF GoneLast, SentinelsLate, Early
  <2>7. CASE Head(queue) # Sentinel
    <3>1. Head(queue) \in Pipelines /\ Dispatch(w, Head(queue))
      BY <1>3, <2>2, <2>7 DEF Take
    <3>2. PICK what \in Items : Become(w, what) /\ what.pc # "gone"
      BY <3>1, ItemTypes DEF Dispatch, OpenFails, Idle, On, Graceful
    <3>3. \A v \in Workers : worker'[v].pc = "gone" => worker[v].pc = "gone"
      BY <1>0, <3>2, BecomeFacts
    <3>4. GoneLast'
      BY <2>3, <3>3 DEF GoneLast
    <3>5. SentinelsLate'
      BY <2>1, <2>2, <2>4, <3>3 DEF SentinelsLate, Early
    <3> QED
      BY <2>5, <3>4, <3>5
  <2> QED
    BY <2>6, <2>7
<1>4. CASE Keeps
  <2>1. Queued' = Queued /\ SentinelsLast'
    BY <1>4 DEF Keeps, Queued, SentinelsLast
  <2> QED
    BY <1>4, <2>1 DEF Keeps, GoneLast, SentinelsLate
<1> QED
  BY <1>1, <1>2, <1>3, <1>4, GracefulSteps

LEMMA GracefulStep ==
    ASSUME Graceful, PlaceInv, PlaceInv', OwnedInv, GracefulInv, [Next]_vars
    PROVE  GracefulInv'
<1>1. Gentle' /\ SentinelsLast' /\ GoneLast' /\ SentinelsLate'
  BY GentleStep, OrderStep DEF GracefulInv
<1>2. (phase = "ended" => AllGone)' /\ StoppedIsRecorded'
  <2>1. CASE phase = "ended"
    <3>1. UNCHANGED vars
      BY <2>1, Frozen DEF GracefulInv
    <3> QED
      BY <2>1, <3>1 DEF GracefulInv, AllGone, StoppedIsRecorded, vars
  <2>2. CASE phase # "ended" /\ phase' = "ended"
    <3>1. End
      BY <2>2, Endings DEF CancelShutdown, Graceful
    <3>2. /\ phase = "draining" /\ AllGone /\ worker' = worker /\ Settle
      BY <3>1 DEF End, GracefulInv, Gentle, AllGone
    <3>3. Unfinished = parked
      <4>1. PICK w \in Workers : TRUE
        BY ConstantsAssumption
      <4>2. Queued = {}
        BY <3>2, <4>1 DEF GracefulInv, GoneLast, AllGone
      <4>3. Executing = {}
        BY <3>2 DEF Executing, Busy, AllGone
      <4>4. offer = NoItem
        BY <3>2 DEF PlaceInv, TypeInv, PhaseInv
      <4> QED
        BY <4>2, <4>3, <4>4 DEF Unfinished
    <3>4. \A p \in Pipelines : row[p] = "running" => p \in parked
      <4>1. Dying = {}
        BY <3>2 DEF Dying, Held, AllGone
      <4>2. {"fatal", "conflict"} \cap flags = {}
        BY DEF GracefulInv, Gentle, PlaceInv, FlagInv
      <4> QED
        BY <3>3, <4>1, <4>2 DEF OwnedInv
    <3>5. \A p \in Pipelines : row'[p] # "running"
      BY <3>2, <3>4, SettleFacts DEF PlaceInv, TypeInv
    <3> QED
      BY <3>2, <3>5 DEF StoppedIsRecorded, AllGone
  <2>3. CASE phase' # "ended"
    BY <2>3 DEF StoppedIsRecorded
  <2> QED
    BY <2>1, <2>2, <2>3
<1> QED
  BY <1>1, <1>2 DEF GracefulInv

\* When run_async is over no row is left "running": whoever was parked, queued or at
\* work has come to an end or is recorded as interrupted. Nobody cancels this run, its
\* grace does not expire, and no fault stops it hard or takes a worker from its queue;
\* otherwise a retry that is back in the queue keeps the row "running" for a next run.
THEOREM StopsAreRecorded ==
    ASSUME Faults \subseteq {"source", "surprise", "afterCount", "afterPark", "swallow"},
           CancelIn = {}, ~GraceExpires
    PROVE  Spec => []StoppedIsRecorded
<1>0. Graceful
  BY DEF Graceful
<1> DEFINE Inv == PlaceInv /\ OpenedInv /\ OwnedInv /\ GracefulInv
<1>1. Init => Inv
  <2> SUFFICES ASSUME Init
               PROVE  GracefulInv
    BY PlaceInit, OpenedInit, OwnedInit
  <2> QED
    BY DEF Init, GracefulInv, Gentle, SentinelsLast, GoneLast, SentinelsLate, Early, Idle,
           StoppedIsRecorded
<1>2. Inv /\ [Next]_vars => Inv'
  BY <1>0, PlaceStep, OpenedStep, OwnedStep, GracefulStep
<1>3. Inv => StoppedIsRecorded
  BY DEF GracefulInv
<1> QED
  BY <1>1, <1>2, <1>3, PTL DEF Spec

=============================================================================
