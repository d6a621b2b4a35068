------------------------------- MODULE Suite -------------------------------
(***************************************************************************)
(* A suite (suite.py, store/suite.py): one Runner over the pipelines of    *)
(* several experiments, one catalog, and one database per experiment or a  *)
(* single one.  Invocations follow each other over the same output root;   *)
(* any of them may be killed between two commits, and two may be started   *)
(* at once.  A commit is a step; what is in memory dies with the process.  *)
(***************************************************************************)
EXTENDS Naturals, SequencesExt

CONSTANTS
  Invocations,   \* run ids, in the order in which they may be started
  Experiments,
  Source,        \* what the factory of each experiment yields, in order
  Broken,        \* the experiments whose factory may raise
  Selections,    \* the choices of experiments an invocation may be started with
  Layouts,       \* subset of {"combined", "by_experiment"}
  Concurrency,   \* workers of an invocation
  MaxOpen,       \* connections to experiment databases kept open
  Limits,        \* limits on the pipelines of one invocation
  MaxCrashes     \* bound on the invocations that are killed

None == "none"
Pipelines == UNION {Range(Source[e]) : e \in Experiments}
Eid(p) == CHOOSE e \in Experiments : p \in Range(Source[e])

\* A pipeline carries the id of its experiment in its own (_pipelines), so no
\* two sources share one. Its key identifies it (suite_admissions): a source
\* that yields a key once is what is modelled.
ASSUME SuiteAssumption ==
  /\ Invocations \subseteq Nat \ {0}
  /\ IsFiniteSet(Invocations) /\ IsFiniteSet(Experiments) /\ Experiments # {}
  /\ Source \in [Experiments -> Seq(Pipelines)] /\ None \notin Pipelines
  /\ \A e \in Experiments : IsInjective(Source[e])
  /\ \A d, e \in Experiments : d # e => Range(Source[d]) \cap Range(Source[e]) = {}
  /\ Broken \subseteq Experiments /\ Selections \subseteq (SUBSET Experiments) \ {{}}
  /\ Layouts \subseteq {"combined", "by_experiment"} /\ Layouts # {}
  /\ {Concurrency, MaxOpen} \subseteq Nat \ {0} /\ Limits \subseteq Nat
  /\ MaxCrashes \in Nat

VARIABLES
  \* on disk
  layout, root,   \* "empty", then "catalog" (no manifest yet), then "published"
  files,          \* experiment databases that exist
  members,        \* experiments the catalog has registered
  runs,           \* the catalog's run rows
  source,         \* suite_experiment_runs: what each run knows of each source
  admitted,       \* suite_admissions
  rows,           \* the pipelines tables: state and the run that wrote it
  outcome,        \* suite_pipeline_runs: what a run made of a pipeline
  facts,          \* attempts that are durable
  \* in the memory of each invocation
  phase, selected, todo, streams, count, limit, admitting, hand, opened, buffer,
  \* history: what the worker of each run really did with each pipeline
  did

disk == <<layout, root, files, members, runs, source, admitted, rows, outcome, facts>>
memory == <<phase, selected, todo, streams, count, limit, admitting, hand, opened, buffer>>
vars == <<disk, memory, did>>

Absent == [state |-> None, run |-> 0]
Unknown == [exhausted |-> FALSE, error |-> FALSE, limited |-> FALSE, known |-> FALSE]

Alive(r) == phase[r] \notin {"idle", "refused", "ended", "crashed"}
Holds(r) == Alive(r) /\ phase[r] \notin {"creating", "manifest"}
In(r, here) == phase[r] = here
Goes(r, there) == phase' = [phase EXCEPT ![r] = there]

Init ==
  /\ layout \in Layouts /\ root = "empty" /\ files = {} /\ members = {}
  /\ runs = [r \in Invocations |-> None]
  /\ source = [r \in Invocations |-> [e \in Experiments |-> Unknown]]
  /\ admitted = {} /\ facts = {}
  /\ rows = [p \in Pipelines |-> Absent]
  /\ outcome = [r \in Invocations |-> [p \in Pipelines |-> None]]
  /\ phase = [r \in Invocations |-> "idle"]
  /\ selected = [r \in Invocations |-> {}]
  /\ todo = [r \in Invocations |-> {}]
  /\ streams = [r \in Invocations |-> <<>>]
  /\ count = [r \in Invocations |-> 0]
  /\ limit = [r \in Invocations |-> 0]
  /\ admitting = [r \in Invocations |-> None]
  /\ hand = [r \in Invocations |-> [p \in Pipelines |-> None]]
  /\ opened = [r \in Invocations |-> <<>>]
  /\ buffer = [r \in Invocations |-> {}]
  /\ did = outcome

-----------------------------------------------------------------------------
(* Creating and opening the store.                                         *)

\* Invocations are started in order; a crashed or ended one never comes back.
Starting(r) == In(r, "idle") /\ \A x \in Invocations : x < r => ~In(x, "idle")

\* create(): the catalog first, the manifest once it is complete.
CreateCatalog(r) ==
  /\ Starting(r) /\ root = "empty"
  /\ root' = "catalog"
  /\ Goes(r, "creating")
  /\ UNCHANGED <<layout, files, members, runs, source, admitted, rows, outcome, facts, did,
                 selected, todo, streams, count, limit, admitting, hand, opened, buffer>>

Publish(r) ==
  /\ In(r, "creating")
  /\ root' = "published"
  /\ Goes(r, "manifest")
  /\ UNCHANGED <<layout, files, members, runs, source, admitted, rows, outcome, facts, did,
                 selected, todo, streams, count, limit, admitting, hand, opened, buffer>>

\* Files without a manifest are never adopted.
RefuseRoot(r) ==
  /\ Starting(r) /\ root = "catalog"
  /\ Goes(r, "refused")
  /\ UNCHANGED <<disk, did, selected, todo, streams, count, limit, admitting, hand, opened, buffer>>

\* Mutant: the writer lock does not exclude a second writer.
UnlockedFor(r) == TRUE
\* The writer lock: an flock, gone with the process that holds it.
LockFree(r) == \A x \in Invocations \ {r} : ~Holds(x)

Open(r) ==
  /\ In(r, "manifest") \/ (Starting(r) /\ root = "published")
  /\ IF LockFree(r) /\ (layout = "by_experiment" => members \subseteq files)
     THEN Goes(r, "open") ELSE Goes(r, "refused")
  /\ UNCHANGED <<disk, did, selected, todo, streams, count, limit, admitting, hand, opened, buffer>>

\* register(): the database of every new member, then all catalog rows at once.
CreateChild(r, e) ==
  /\ In(r, "open") /\ layout = "by_experiment" /\ e \notin members \cup files
  /\ files' = files \cup {e}
  /\ UNCHANGED <<layout, root, members, runs, source, admitted, rows, outcome, facts, did, memory>>

Register(r) ==
  /\ In(r, "open") /\ (layout = "by_experiment" => Experiments \subseteq members \cup files)
  /\ members' = Experiments
  /\ Goes(r, "registered")
  /\ UNCHANGED <<layout, root, files, runs, source, admitted, rows, outcome, facts, did,
                 selected, todo, streams, count, limit, admitting, hand, opened, buffer>>

-----------------------------------------------------------------------------
(* Routing.  _child: the least recently used connection makes room, its    *)
(* buffered facts flushed first.  A combined layout has one database.      *)
Handle(e) == IF layout = "combined" THEN "data" ELSE e
Opens(r, e) ==
  IF layout = "combined" THEN opened[r]
  ELSE LET others == SelectSeq(opened[r], LAMBDA h : h # e)
       IN  Append(IF Len(others) >= MaxOpen THEN Tail(others) ELSE others, e)
Evicted(r, e) == Range(opened[r]) \ Range(Opens(r, e))
Buffered(r, handles) == {f \in buffer[r] : Handle(Eid(f[2])) \in handles}

\* Mutant: a connection is dropped with what it still buffers.
EvictsUnflushed(r, e, flush) ==
  /\ opened' = [opened EXCEPT ![r] = Opens(r, e)]
  /\ facts' = facts \cup Buffered(r, flush)
  /\ buffer' = [buffer EXCEPT ![r] = @ \ Buffered(r, Evicted(r, e) \cup flush)]

\* A call on the child of e; `flush` holds its handle if the call flushes it.
Routes(r, e, flush) ==
  LET gone == Buffered(r, Evicted(r, e) \cup flush)
  IN  /\ opened' = [opened EXCEPT ![r] = Opens(r, e)]
      /\ facts' = facts \cup gone
      /\ buffer' = [buffer EXCEPT ![r] = @ \ gone]

Delegates(r, e) == Routes(r, e, {Handle(e)})

\* The trigger on pipelines: the outcome of the run that wrote the row, as
\* long as it is open.
Traced(new) ==
  [r \in Invocations |-> [p \in Pipelines |->
     IF new[p] # rows[p] /\ new[p].run = r /\ outcome[r][p] \in {"pending", "running"}
     THEN new[p].state ELSE outcome[r][p]]]
Writes(new) == rows' = new /\ outcome' = Traced(new)

-----------------------------------------------------------------------------
(* The start of a run: select, start_run, interrupt_stale, prepare.        *)
Start(r, exps, resume, n) ==
  /\ In(r, "registered")
  /\ selected' = [selected EXCEPT ![r] = exps]
  /\ todo' = [todo EXCEPT ![r] = IF resume THEN exps ELSE {}]
  /\ limit' = [limit EXCEPT ![r] = n]
  /\ runs' = [runs EXCEPT ![r] = "running"]
  /\ Goes(r, IF resume THEN "recover" ELSE "prepare")
  /\ UNCHANGED <<layout, root, files, members, source, admitted, rows, outcome, facts, did,
                 streams, count, admitting, hand, opened, buffer>>

InterruptStale(r, e) ==
  /\ In(r, "recover") /\ e \in todo[r]
  /\ todo' = [todo EXCEPT ![r] = @ \ {e}]
  /\ Delegates(r, e)
  /\ Writes([p \in Pipelines |->
               IF Eid(p) = e /\ rows[p].state = "running" /\ rows[p].run # r
               THEN [rows[p] EXCEPT !.state = "interrupted"] ELSE rows[p]])
  /\ UNCHANGED <<layout, root, files, members, runs, source, admitted, did,
                 phase, selected, streams, count, limit, admitting, hand>>

InterruptRuns(r) ==
  /\ In(r, "recover") /\ todo[r] = {}
  /\ runs' = [x \in Invocations |->
                IF x # r /\ runs[x] = "running" THEN "interrupted" ELSE runs[x]]
  /\ Goes(r, "prepare")
  /\ UNCHANGED <<layout, root, files, members, source, admitted, rows, outcome, facts, did,
                 selected, todo, streams, count, limit, admitting, hand, opened, buffer>>

Prepare(r) ==
  /\ In(r, "prepare")
  /\ source' = [source EXCEPT ![r] =
       [e \in Experiments |-> IF e \in selected[r] THEN [Unknown EXCEPT !.known = TRUE] ELSE @[e]]]
  /\ streams' = [streams EXCEPT ![r] =
       LET order == SetToSeq(selected[r]) IN [i \in DOMAIN order |-> [exp |-> order[i], seen |-> 0]]]
  /\ Goes(r, "produce")
  /\ UNCHANGED <<layout, root, files, members, runs, admitted, rows, outcome, facts, did,
                 selected, todo, count, limit, admitting, hand, opened, buffer>>

-----------------------------------------------------------------------------
(* The producer: round robin over the sources, one pipeline at a time.     *)
Pulls(r) == In(r, "produce") /\ admitting[r] = None /\ streams[r] # <<>> /\ count[r] < limit[r]
First(r) == Head(streams[r])
Drops(r) == streams' = [streams EXCEPT ![r] = Tail(@)]

\* source_state of a source that ended, raised or was cut off.
SourceState(r, exps, how) ==
  source' = [source EXCEPT ![r] = [e \in Experiments |-> IF e \in exps THEN how ELSE @[e]]]
Cut(r) == [Unknown EXCEPT !.known = TRUE, !.limited = count[r] >= limit[r]]

\* The source yields, and admit() commits the admission to the catalog.
AdmitCatalog(r) ==
  LET e == First(r).exp
      p == Source[e][First(r).seen + 1]
  IN  /\ Pulls(r) /\ First(r).seen < Len(Source[e])
      /\ admitting' = [admitting EXCEPT ![r] = p]
      /\ streams' = [streams EXCEPT ![r] = Append(Tail(@), [exp |-> e, seen |-> First(r).seen + 1])]
      /\ count' = [count EXCEPT ![r] = @ + 1]
      /\ admitted' = admitted \cup {<<r, p>>}
      /\ UNCHANGED <<layout, root, files, members, runs, source, rows, outcome, facts, did,
                     phase, selected, todo, limit, hand, opened, buffer>>

\* Mutant: an admission copies the state an earlier run left.
AdmissionCopies(old) == IF old = None THEN "pending" ELSE old
\* A new invocation knows nothing yet of the pipeline.
AdmissionState(old) == "pending"

\* The second half of admit(), one transaction of the experiment's database.
AdmitChild(r) ==
  LET p == admitting[r]
  IN  /\ In(r, "produce") /\ p # None
      /\ Delegates(r, Eid(p))
      /\ rows' = IF rows[p] = Absent THEN [rows EXCEPT ![p] = [state |-> "pending", run |-> r]] ELSE rows
      /\ outcome' = [outcome EXCEPT ![r][p] = IF @ = None THEN AdmissionState(rows[p].state) ELSE @]
      /\ did' = [did EXCEPT ![r][p] = "pending"]
      /\ hand' = [hand EXCEPT ![r][p] = "queued"]
      /\ admitting' = [admitting EXCEPT ![r] = None]
      /\ UNCHANGED <<layout, root, files, members, runs, source, admitted,
                     phase, selected, todo, streams, count, limit>>

SourceEnds(r) ==
  /\ Pulls(r) /\ First(r).seen = Len(Source[First(r).exp])
  /\ SourceState(r, {First(r).exp}, [Unknown EXCEPT !.known = TRUE, !.exhausted = TRUE])
  /\ Drops(r)
  /\ UNCHANGED <<layout, root, files, members, runs, admitted, rows, outcome, facts, did,
                 phase, selected, todo, count, limit, admitting, hand, opened, buffer>>

SourceFails(r) ==
  /\ Pulls(r) /\ First(r).exp \in Broken
  /\ SourceState(r, {First(r).exp}, [Unknown EXCEPT !.known = TRUE, !.error = TRUE])
  /\ Drops(r)
  /\ UNCHANGED <<layout, root, files, members, runs, admitted, rows, outcome, facts, did,
                 phase, selected, todo, count, limit, admitting, hand, opened, buffer>>

-----------------------------------------------------------------------------
(* The workers of the run.  An admission has no await in it.               *)
Works(r) == Alive(r) /\ admitting[r] = None
FreeWorker(r) == Cardinality({p \in Pipelines : hand[r][p] \in {"begun", "tried"}}) < Concurrency
Unroutine == <<layout, root, files, members, runs, source, admitted,
               phase, selected, todo, streams, count, limit, admitting>>

\* A pipeline that already succeeded is skipped: emit_event closes its outcome.
Skip(r, p) ==
  /\ Works(r) /\ hand[r][p] = "queued" /\ FreeWorker(r) /\ rows[p].state = "succeeded"
  /\ Delegates(r, Eid(p))
  /\ outcome' = [outcome EXCEPT ![r][p] = IF @ = "pending" THEN "skipped" ELSE @]
  /\ did' = [did EXCEPT ![r][p] = "skipped"]
  /\ hand' = [hand EXCEPT ![r][p] = None]
  /\ UNCHANGED <<rows, Unroutine>>

Begin(r, p) ==
  /\ Works(r) /\ hand[r][p] = "queued" /\ FreeWorker(r) /\ rows[p].state # "succeeded"
  /\ Delegates(r, Eid(p))
  /\ Writes([rows EXCEPT ![p] = [state |-> "running", run |-> r]])
  /\ did' = [did EXCEPT ![r][p] = "running"]
  /\ hand' = [hand EXCEPT ![r][p] = "begun"]
  /\ UNCHANGED Unroutine

\* record_attempt: a fact, buffered in the child's write-behind store.
Attempt(r, p) ==
  /\ Works(r) /\ hand[r][p] = "begun"
  /\ LET e == Eid(p)
         out == Buffered(r, Evicted(r, e))
     IN  /\ opened' = [opened EXCEPT ![r] = Opens(r, e)]
         /\ facts' = facts \cup out
         /\ buffer' = [buffer EXCEPT ![r] = (@ \ out) \cup {<<r, p>>}]
  /\ hand' = [hand EXCEPT ![r][p] = "tried"]
  /\ UNCHANGED <<rows, outcome, did, Unroutine>>

\* The heartbeat, a full batch or its interval: one child's batch is written.
Flush(r, e) ==
  /\ Works(r) /\ Buffered(r, {Handle(e)}) # {}
  /\ facts' = facts \cup Buffered(r, {Handle(e)})
  /\ buffer' = [buffer EXCEPT ![r] = @ \ Buffered(r, {Handle(e)})]
  /\ UNCHANGED <<rows, outcome, did, hand, opened, Unroutine>>

\* Succeeded or failed; interrupted when the run is stopping.  The row is
\* committed at once, what the child still buffers is not.
Finish(r, p, state) ==
  /\ Works(r) /\ hand[r][p] = "tried" /\ (state = "interrupted" => In(r, "stopping"))
  /\ Routes(r, Eid(p), {})
  /\ Writes([rows EXCEPT ![p].state = state])
  /\ did' = [did EXCEPT ![r][p] = state]
  /\ hand' = [hand EXCEPT ![r][p] = None]
  /\ UNCHANGED Unroutine

-----------------------------------------------------------------------------
(* The end of a run.                                                       *)

\* A stop: no more is admitted, and what no worker has begun is dropped.
Stop(r) ==
  /\ In(r, "produce") /\ admitting[r] = None
  /\ Goes(r, "stopping")
  /\ hand' = [hand EXCEPT ![r] = [p \in Pipelines |-> IF @[p] = "queued" THEN None ELSE @[p]]]
  /\ UNCHANGED <<disk, did, selected, todo, streams, count, limit, admitting, opened, buffer>>

Drained(r) == \A p \in Pipelines : hand[r][p] = None
Produced(r) == In(r, "produce") /\ admitting[r] = None /\ (streams[r] = <<>> \/ count[r] >= limit[r])

\* Mutant: a source that is closed counts as exhausted.
CutIsEnd(r) == [Unknown EXCEPT !.known = TRUE, !.exhausted = TRUE]
CloseState(r) == Cut(r)

\* The generator is closed: every source left is marked cut off.
CloseSources(r) ==
  /\ (In(r, "stopping") \/ Produced(r))
  /\ Drained(r)
  /\ SourceState(r, {streams[r][i].exp : i \in DOMAIN streams[r]}, CloseState(r))
  /\ streams' = [streams EXCEPT ![r] = <<>>]
  /\ Goes(r, IF In(r, "stopping") THEN "interrupted" ELSE "completed")
  /\ UNCHANGED <<layout, root, files, members, runs, admitted, rows, outcome, facts, did,
                 selected, todo, count, limit, admitting, hand, opened, buffer>>

\* What an invocation remembers is gone with it.
Forgets(r) ==
  /\ selected' = [selected EXCEPT ![r] = {}]
  /\ todo' = [todo EXCEPT ![r] = {}]
  /\ streams' = [streams EXCEPT ![r] = <<>>]
  /\ count' = [count EXCEPT ![r] = 0]
  /\ limit' = [limit EXCEPT ![r] = 0]
  /\ admitting' = [admitting EXCEPT ![r] = None]
  /\ hand' = [hand EXCEPT ![r] = [p \in Pipelines |-> None]]
  /\ opened' = [opened EXCEPT ![r] = <<>>]
  /\ buffer' = [buffer EXCEPT ![r] = {}]

\* finish_run and close: everything flushed, the run's status, the lock.
FinishRun(r) ==
  /\ phase[r] \in {"interrupted", "completed"}
  /\ runs' = [runs EXCEPT ![r] = phase[r]]
  /\ facts' = facts \cup buffer[r]
  /\ Goes(r, "ended")
  /\ Forgets(r)
  /\ UNCHANGED <<layout, root, files, members, source, admitted, rows, outcome, did>>

\* The process is killed: the lock is free, the buffers are gone.
Crash(r) ==
  /\ Alive(r) /\ Cardinality({x \in Invocations : In(x, "crashed")}) < MaxCrashes
  /\ Goes(r, "crashed")
  /\ Forgets(r)
  /\ UNCHANGED <<disk, did>>

\* A step of one invocation.
Step(r) ==
  \/ CreateCatalog(r) \/ Publish(r) \/ RefuseRoot(r) \/ Open(r) \/ Register(r)
  \/ \E exps \in Selections, resume \in BOOLEAN, n \in Limits : Start(r, exps, resume, n)
  \/ \E e \in Experiments : CreateChild(r, e) \/ InterruptStale(r, e) \/ Flush(r, e)
  \/ InterruptRuns(r) \/ Prepare(r)
  \/ AdmitCatalog(r) \/ AdmitChild(r) \/ SourceEnds(r) \/ SourceFails(r)
  \/ \E p \in Pipelines : \/ Skip(r, p) \/ Begin(r, p) \/ Attempt(r, p)
                          \/ \E s \in {"succeeded", "failed", "interrupted"} : Finish(r, p, s)
  \/ Stop(r) \/ CloseSources(r) \/ FinishRun(r) \/ Crash(r)

Next == \E r \in Invocations : Step(r)

Spec == Init /\ [][Next]_vars

-----------------------------------------------------------------------------
\* _experiments: the state of an experiment as a reader computes it, from the
\* outcomes of admitted pipelines and what the run knows of the source.
Counted(r, e) == {outcome[r][p] : p \in {q \in Range(Source[e]) : <<r, q>> \in admitted}} \ {None}
ExperimentState(r, e) ==
  CASE source[r][e].error \/ "failed" \in Counted(r, e) -> "failed"
    [] source[r][e].exhausted /\ ~source[r][e].error
         /\ Counted(r, e) \cap {"failed", "pending", "running", "interrupted", "canceled"} = {} -> "completed"
    [] OTHER -> IF runs[r] = "running" THEN "running" ELSE "incomplete"

\* The outcome a run keeps of a pipeline is what that run did with it, not what
\* an earlier or a later run did; a killed run's open ones may be closed for
\* it.  The attempt behind a verdict is on disk or in the batch its run has
\* yet to write: a kill may lose it, evicting its connection may not, and the
\* end of the run leaves it on disk.
OutcomesTold == \A r \in Invocations, p \in Pipelines :
  /\ \/ outcome[r][p] = did[r][p]
     \/ (outcome[r][p] = "interrupted" /\ did[r][p] = "running" /\ In(r, "crashed"))
  /\ outcome[r][p] \in {"succeeded", "failed"} /\ ~In(r, "crashed")
       => <<r, p>> \in facts \cup buffer[r]

\* An experiment reported complete has every pipeline of its source done, in
\* this run or before it.
CompletedIsWhole == \A r \in Invocations, e \in Experiments :
  ExperimentState(r, e) = "completed" =>
    \A p \in Range(Source[e]) : outcome[r][p] \in {"succeeded", "skipped"}

\* The pipeline a living run has begun is changed by that run alone:
\* interrupt_stale ignores heartbeats and relies on the writer lock.
LiveUntouched ==
  [][\A p \in Pipelines :
       LET owner == rows[p].run
       IN  rows[p].state = "running" /\ Alive(owner) /\ rows'[p] # rows[p]
             => did'[owner][p] # did[owner][p]]_vars
=============================================================================
