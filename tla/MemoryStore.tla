---------------------------- MODULE MemoryStore ----------------------------
(***************************************************************************)
(* store/memory.py: every collection is a dict or a list.  Artifacts live  *)
(* in two collections, the slots by (pipeline, seq) and the occurrences of *)
(* visits by id, which every read has to merge.                            *)
(***************************************************************************)
EXTENDS Rows, TLC

CONSTANTS StaleAfter, InlineLimit

Empty(journal) ==
    [journal |-> journal, runs |-> <<>>, pipes |-> <<>>, tasks |-> <<>>,
     slots |-> <<>>, occurrences |-> <<>>, attempts |-> <<>>, handoffs |-> <<>>,
     events |-> <<>>, metrics |-> <<>>, resources |-> <<>>, visits |-> <<>>,
     level |-> "base"]

(* A rollback that forgets the level of the store.                          *)
RolledBackButLevel(saved, m) ==
    [m EXCEPT !.pipes = saved.pipes, !.tasks = saved.tasks,
              !.attempts = saved.attempts, !.slots = saved.slots,
              !.handoffs = saved.handoffs, !.visits = saved.visits,
              !.occurrences = saved.occurrences]

(* The copies _visit_atomic takes before a transaction and puts back when   *)
(* it raises.                                                              *)
RolledBack(saved, m) ==
    [m EXCEPT !.pipes = saved.pipes, !.tasks = saved.tasks,
              !.attempts = saved.attempts, !.slots = saved.slots,
              !.handoffs = saved.handoffs, !.visits = saved.visits,
              !.occurrences = saved.occurrences, !.level = saved.level]

------------------------------------------------------------------------------
(* Runs.                                                                    *)

StartRun(m, run) == [m EXCEPT !.runs = Assigned(@, [run EXCEPT !.beat = run.started])]

Heartbeat(m, r, now) ==
    [m EXCEPT !.runs = Altered(@, LAMBDA x : x.id = r, LAMBDA x : [x EXCEPT !.beat = now])]

FinishRun(m, r, status, now) ==
    [m EXCEPT !.runs = Altered(@, LAMBDA x : x.id = r, LAMBDA x : [x EXCEPT !.status = status])]

GetRun(m, r) ==
    IF Has(m.runs, r)
    THEN [x \in {"id", "status", "started"} |-> Row(m.runs, r)[x]] ELSE None

(* max over (started_at, position).                                         *)
LatestRun(m) ==
    IF m.runs = <<>> THEN None
    ELSE LET last == CHOOSE i \in DOMAIN m.runs : \A j \in DOMAIN m.runs :
                         \/ m.runs[j].started < m.runs[i].started
                         \/ m.runs[j].started = m.runs[i].started /\ j <= i
         IN <<m.runs[last].id>>

------------------------------------------------------------------------------
(* Pipelines.                                                               *)

GetPipeline(m, p) == IF Has(m.pipes, p) THEN Row(m.pipes, p) ELSE None

UpsertPipeline(m, record) == [m EXCEPT !.pipes = Assigned(@, record)]

WithPipeline(m, p, New(_)) ==
    [m EXCEPT !.pipes = Altered(@, LAMBDA x : x.id = p, New)]

FinishPipeline(m, p, state, done, error) ==
    WithPipeline(m, p, LAMBDA x :
        [x EXCEPT !.state = state,
                  !.done = IF done = -1 THEN @ ELSE done,
                  !.error = IF error = "" THEN @ ELSE error])

SettlePipeline(m, p, state, done, r) ==
    WithPipeline(m, p, LAMBDA x :
        [x EXCEPT !.state = state, !.done = done, !.run = r, !.error = ""])

(* A slot or an occurrence that a reset drops: the chain of the pipeline.   *)
InChain(a, record) == a.pid = record.id /\ 0 <= a.seq /\ a.seq < record.total

Flagged(rows, p, IsFinal(_)) ==
    Altered(rows, LAMBDA a : a.pid = p, LAMBDA a : [a EXCEPT !.final = IsFinal(a)])

ResetPipeline(m, record) ==
    UpsertPipeline(
        [m EXCEPT
           !.tasks = Where(@, LAMBDA t : t.pid # record.id),
           !.slots = Flagged(Where(@, LAMBDA a : ~InChain(a, record)), record.id,
                             LAMBDA a : FALSE),
           !.occurrences = Flagged(Where(@, LAMBDA a : ~InChain(a, record)), record.id,
                                   LAMBDA a : FALSE)],
        record)

InterruptStale(m, keep, now) ==
    LET Stale(x) ==
            /\ x.state = "running" /\ x.run # keep
            /\ \/ ~Has(m.runs, x.run)
               \/ Row(m.runs, x.run).status # "running"
               \/ now - Row(m.runs, x.run).beat > StaleAfter
        Over(t) ==
            /\ t.state = "running"
            /\ ~Has(m.runs, t.run) \/ Row(m.runs, t.run).status # "running"
    IN [m EXCEPT !.pipes = Altered(@, Stale, LAMBDA x : [x EXCEPT !.state = "interrupted"]),
                 !.tasks = Altered(@, Over, LAMBDA t : [t EXCEPT !.state = "interrupted"])]

------------------------------------------------------------------------------
(* Artifacts.                                                               *)

PersistForm(journal, a) ==
    IF journal # "full" THEN [a EXCEPT !.payload = "none"]
    ELSE IF a.payload = "none" \/ a.size <= InlineLimit THEN a
    ELSE [a EXCEPT !.payload = "blob"]

(* _hydrate: the backend still has the bytes of a blob.                     *)
Hydrated(a) == [a EXCEPT !.payload = IF @ = "blob" THEN "inline" ELSE @]

PutArtifact(m, a) ==
    LET stored == PersistForm(m.journal, a)
        Same(x) == x.pid = a.pid /\ x.seq = a.seq
    IN [m EXCEPT !.slots = IF \E i \in DOMAIN @ : Same(@[i])
                           THEN Altered(@, Same, LAMBDA x : stored)
                           ELSE Append(@, stored)]

MarkFinal(m, p, seq) ==
    [m EXCEPT !.slots = Flagged(@, p, LAMBDA a : a.seq = seq),
              !.occurrences = Flagged(@, p, LAMBDA a : a.seq = seq)]

GetArtifactById(m, id) ==
    IF Has(m.occurrences, id) THEN Hydrated(Row(m.occurrences, id))
    ELSE IF Has(m.slots, id) THEN Hydrated(Row(m.slots, id)) ELSE None

VisitState(m, p) == IF p \in DOMAIN m.visits THEN m.visits[p] ELSE None

GetArtifact(m, p, seq) ==
    LET state == VisitState(m, p)
        found == Where(m.slots, LAMBDA a : a.pid = p /\ a.seq = seq)
    IN IF state # None /\ 0 <= seq /\ seq < Row(m.pipes, p).total
       THEN IF seq \in DOMAIN state.active /\ state.active[seq] # None
            THEN GetArtifactById(m, state.active[seq]) ELSE None
       ELSE IF found = <<>> THEN None ELSE Hydrated(found[1])

(* artifacts(): both collections by id, the occurrence before the slot.     *)
Artifacts(m, p) ==
    LET mine == {a \in RowSet(m.occurrences) : a.pid = p}
        ids  == {a.id : a \in mine}
    IN {Hydrated(a) : a \in mine \union
                            {b \in RowSet(m.slots) : b.pid = p /\ b.id \notin ids}}

------------------------------------------------------------------------------
(* Tasks, attempts, the ledger.                                             *)

RecordTask(m, t) == [m EXCEPT !.tasks = Assigned(@, t)]
TaskRow(m, id) == Row(m.tasks, id)

(* tasks(): in the order of (pipeline, seq, visit), which the id holds.      *)
Tasks(m, r) == {t \in RowSet(m.tasks) : r = "" \/ t.run = r}

RecordAttempt(m, a) == [m EXCEPT !.attempts = Numbered(@, a)]
Attempts(m, r) == Where(m.attempts, LAMBDA a : r = "" \/ a.run = r)

Handoffs(m, p) == Where(m.handoffs, LAMBDA h : h.pid = p)

(* handoffs(limit=1)                                                        *)
LatestHandoff(m, p) == LastRow(Handoffs(m, p))

(* commit_handoff: the payload gets the next address behind the chain.       *)
CommitHandoff(m, hop, task, attempt, payload, cursor) ==
    LET total  == Row(m.pipes, hop.pid).total
        seq    == total + Len(Handoffs(m, hop.pid))
        id     == <<hop.pid, seq, 0>>
        final  == hop.to = -1
        stored == IF payload = None THEN m
                  ELSE PutArtifact(m, [payload EXCEPT !.id = id, !.seq = seq,
                                                      !.final = final])
        entry  == IF payload = None THEN hop
                  ELSE [hop EXCEPT !.entry = id, !.entrySeq = seq]
        landed == [RecordAttempt(RecordTask(stored, task), attempt)
                     EXCEPT !.handoffs = Numbered(@, entry)]
        moved  == WithPipeline(landed, hop.pid, LAMBDA x :
                      [x EXCEPT !.done = cursor, !.run = hop.run,
                                !.state = IF final THEN "succeeded" ELSE "running",
                                !.error = IF final THEN "" ELSE @])
    IN IF final THEN MarkFinal(moved, hop.pid, entry.entrySeq) ELSE moved

------------------------------------------------------------------------------
(* The hooks of VisitStore.                                                 *)

VisitSave(m, p, state) ==
    [m EXCEPT !.visits = [q \in DOMAIN @ \union {p} |-> IF q = p THEN state ELSE @[q]]]
VisitPipeline(m, record) == UpsertPipeline(m, record)
VisitTask(m, t) == RecordTask(m, t)
VisitAttempt(m, a) == RecordAttempt(m, a)
VisitArtifact(m, a) == [m EXCEPT !.occurrences = Assigned(@, PersistForm(m.journal, a))]
VisitFinal(m, p, id) ==
    [m EXCEPT !.slots = Flagged(@, p, LAMBDA a : a.id = id),
              !.occurrences = Flagged(@, p, LAMBDA a : a.id = id)]
VisitHandoff(m, hop, task, attempt, payload, cursor) ==
    LET landed == CommitHandoff(m, hop, task, attempt, payload, cursor)
    IN IF hop.to = -1
       THEN VisitFinal(landed, hop.pid, LatestHandoff(landed, hop.pid).entry)
       ELSE landed
MarkRevisit(m) == [m EXCEPT !.level = "visits-v1"]
AbandonRunningTasks(m, p) ==
    [m EXCEPT !.tasks = Altered(@, LAMBDA t : t.pid = p /\ t.state = "running",
                                   LAMBDA t : [t EXCEPT !.state = "interrupted"])]

(* _visit_observed_counters: the highest visit that any row of the station   *)
(* carries, slots and occurrences and tasks.                               *)
ObservedCounters(m, p, total) ==
    LET seen == {<<x.seq, x.visit>> : x \in {y \in RowSet(m.occurrences)
                                                    \union RowSet(m.slots)
                                                    \union RowSet(m.tasks) : y.pid = p}}
        seqs == {x[1] : x \in {y \in seen : 0 <= y[1] /\ y[1] < total}}
    IN [q \in seqs |-> CHOOSE v \in {x[2] : x \in {y \in seen : y[1] = q}} :
                           \A y \in seen : y[1] = q => y[2] <= v]

------------------------------------------------------------------------------
(* Events, metrics, resources.                                              *)

EmitEvent(m, e) == [m EXCEPT !.events = Numbered(@, e)]

(* events(limit=n): the newest n, oldest first.                              *)
Events(m, r, kind, n) ==
    LET found == Where(m.events, LAMBDA e : (r = "" \/ e.run = r)
                                            /\ (kind = "" \/ e.kind = kind))
    IN IF Len(found) <= n THEN found
       ELSE SubSeq(found, Len(found) - n + 1, Len(found))

CountEvents(m, r, kind) ==
    Cardinality({e \in RowSet(m.events) : (r = "" \/ e.run = r) /\ (kind = "" \/ e.kind = kind)})

UpsertMetric(m, row) == [m EXCEPT !.metrics = Assigned(@, row)]

(* reported_metrics() without a run: those of the run that reported last.    *)
ReportedMetrics(m, p) ==
    LET mine == {x \in RowSet(m.metrics) : x.pid = p}
        last == CHOOSE x \in mine : \A y \in mine : y.updated <= x.updated
    IN IF mine = {} THEN {} ELSE {x \in mine : x.run = last.run}

UpsertResource(m, row) == [m EXCEPT !.resources = Assigned(@, row)]
Resources(m) == {[id |-> x.id, state |-> x.state] : x \in RowSet(m.resources)}

------------------------------------------------------------------------------
(* Views.                                                                   *)

Pipelines(m, r) ==
    SortSeq(Where(m.pipes, LAMBDA x : r = "" \/ x.run = r),
            LAMBDA x, y : x.created < y.created)

Stats(m, r) ==
    LET pipes == RowSet(Pipelines(m, r))
        tasks == Tasks(m, r)
    IN [byState  |-> [s \in {x.state : x \in pipes} |->
                        Cardinality({x \in pipes : x.state = s})],
        byName   |-> [q \in {t.seq : t \in tasks} |->
                        LET named == {t \in tasks : t.seq = q}
                        IN <<Cardinality(named), SumOf(named, LAMBDA t : t.used)>>],
        attempts |-> Len(Attempts(m, r)),
        handoffs |-> Len(Where(m.handoffs, LAMBDA h : r = "" \/ h.run = r)),
        events   |-> CountEvents(m, r, "")]

Errors(m, r) == {<<x.id, x.error>> : x \in {y \in RowSet(Pipelines(m, r)) : y.state = "failed"}}

(* export_rows(): a pipeline with what hangs off it; which task and which     *)
(* artifact are the effective ones is told from the traversal.              *)
ExportRows(m, r) ==
    {LET state  == VisitState(m, x.id)
         tasks  == {t \in RowSet(m.tasks) : t.pid = x.id}
     IN [row |-> x, tasks |-> tasks, artifacts |-> Artifacts(m, x.id),
         handoffs |-> Handoffs(m, x.id), control |-> state,
         active |-> IF state = None THEN {}
                    ELSE {a.id : a \in {b \in Artifacts(m, x.id) :
                              \/ b.id = state.terminal
                              \/ \E q \in DOMAIN state.active : state.active[q] = b.id}}]
       : x \in RowSet(Pipelines(m, r))}

INSTANCE VisitStore
=============================================================================
