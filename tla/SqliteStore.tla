---------------------------- MODULE SqliteStore ----------------------------
(***************************************************************************)
(* store/sqlite.py: every collection is a table, written by one connection *)
(* whose transactions are atomic.  One table holds every artifact; a row   *)
(* that is written again either keeps its place and the columns the        *)
(* conflict clause does not name, or is deleted and inserted anew.         *)
(***************************************************************************)
EXTENDS Rows, TLC

CONSTANTS StaleAfter, InlineLimit

Empty(journal) ==
    [journal |-> journal, runs |-> <<>>, pipes |-> <<>>, tasks |-> <<>>,
     artifacts |-> <<>>, attempts |-> <<>>, handoffs |-> <<>>, events |-> <<>>,
     metrics |-> <<>>, resources |-> <<>>, visits |-> <<>>, level |-> "base"]

(* ROLLBACK gives back the database as BEGIN found it.                      *)
RolledBack(saved, d) == saved

------------------------------------------------------------------------------
(* Runs.                                                                    *)

StartRun(d, run) == [d EXCEPT !.runs = Replaced(@, [run EXCEPT !.beat = run.started])]

Heartbeat(d, r, now) ==
    [d EXCEPT !.runs = Altered(@, LAMBDA x : x.id = r, LAMBDA x : [x EXCEPT !.beat = now])]

FinishRun(d, r, status, now) ==
    [d EXCEPT !.runs = Altered(@, LAMBDA x : x.id = r,
                                  LAMBDA x : [x EXCEPT !.status = status, !.beat = now])]

GetRun(d, r) ==
    IF Has(d.runs, r)
    THEN [x \in {"id", "status", "started"} |-> Row(d.runs, r)[x]] ELSE None

(* ORDER BY started_at DESC, rowid DESC LIMIT 1                             *)
LatestRun(d) ==
    LET later == SortSeq([i \in DOMAIN d.runs |-> <<d.runs[i].started, i, d.runs[i].id>>],
                         LAMBDA x, y : x[1] > y[1] \/ (x[1] = y[1] /\ x[2] > y[2]))
    IN IF later = <<>> THEN None ELSE <<later[1][3]>>

------------------------------------------------------------------------------
(* Pipelines.                                                               *)

GetPipeline(d, p) == IF Has(d.pipes, p) THEN Row(d.pipes, p) ELSE None

(* _write_pipeline: a conflict leaves name, key, tags and created_at alone.   *)
UpsertPipeline(d, record) ==
    [d EXCEPT !.pipes =
        IF Has(@, record.id)
        THEN Altered(@, LAMBDA x : x.id = record.id,
                        LAMBDA x : [record EXCEPT !.created = x.created])
        ELSE Append(@, record)]

(* UPDATE pipelines SET ... WHERE pipeline_id=?                             *)
UpdatePipeline(d, p, New(_)) ==
    [d EXCEPT !.pipes = Altered(@, LAMBDA x : x.id = p, New)]

FinishPipeline(d, p, state, done, error) ==
    UpdatePipeline(d, p, LAMBDA x :
        [x EXCEPT !.state = state,
                  !.done = IF done = -1 THEN @ ELSE done,
                  !.error = IF error = "" THEN @ ELSE error])

SettlePipeline(d, p, state, done, r) ==
    UpdatePipeline(d, p, LAMBDA x :
        [x EXCEPT !.state = state, !.done = done, !.run = r, !.error = ""])

Flagged(rows, p, IsFinal(_)) ==
    Altered(rows, LAMBDA a : a.pid = p, LAMBDA a : [a EXCEPT !.final = IsFinal(a)])

ResetPipeline(d, record) ==
    LET Dropped(a) == a.pid = record.id /\ 0 <= a.seq /\ a.seq < record.total
    IN UpsertPipeline(
           [d EXCEPT !.tasks = Where(@, LAMBDA t : t.pid # record.id),
                     !.artifacts = Flagged(Where(@, LAMBDA a : ~Dropped(a)), record.id,
                                           LAMBDA a : FALSE)],
           record)

InterruptStale(d, keep, now) ==
    LET gone   == {x.id : x \in {y \in RowSet(d.runs) :
                            y.status # "running" \/ y.beat < now - StaleAfter}}
        closed == {x.id : x \in {y \in RowSet(d.runs) : y.status # "running"}}
    IN [d EXCEPT
          !.pipes = Altered(@, LAMBDA x : x.state = "running" /\ x.run \in gone
                                          /\ (keep = "" \/ x.run # keep),
                               LAMBDA x : [x EXCEPT !.state = "interrupted"]),
          !.tasks = Altered(@, LAMBDA t : t.state = "running" /\ t.run \in closed,
                               LAMBDA t : [t EXCEPT !.state = "interrupted"])]

------------------------------------------------------------------------------
(* Artifacts.                                                               *)

PersistForm(journal, a) ==
    IF journal # "full" THEN [a EXCEPT !.payload = "none"]
    ELSE IF a.payload # "none" /\ a.size > InlineLimit THEN [a EXCEPT !.payload = "blob"]
    ELSE a

Hydrated(a) == [a EXCEPT !.payload = IF @ = "blob" THEN "inline" ELSE @]

(* _write_artifact: INSERT OR REPLACE by artifact_id.                        *)
PutArtifact(d, a) == [d EXCEPT !.artifacts = Replaced(@, PersistForm(d.journal, a))]

MarkFinal(d, p, seq) ==
    [d EXCEPT !.artifacts = Flagged(@, p, LAMBDA a : a.seq = seq)]

GetArtifactById(d, id) ==
    IF Has(d.artifacts, id) THEN Hydrated(Row(d.artifacts, id)) ELSE None

VisitState(d, p) == IF p \in DOMAIN d.visits THEN d.visits[p] ELSE None

(* Without a traversal, the first row of the address the index finds.        *)
GetArtifact(d, p, seq) ==
    LET state == VisitState(d, p)
        found == Where(d.artifacts, LAMBDA a : a.pid = p /\ a.seq = seq)
    IN IF state # None /\ 0 <= seq /\ seq < GetPipeline(d, p).total
       THEN IF seq \in DOMAIN state.active /\ state.active[seq] # None
            THEN GetArtifactById(d, state.active[seq]) ELSE None
       ELSE IF found = <<>> THEN None ELSE Hydrated(found[1])

Artifacts(d, p) == {Hydrated(a) : a \in {b \in RowSet(d.artifacts) : b.pid = p}}

------------------------------------------------------------------------------
(* Tasks, attempts, the ledger.                                             *)

RecordTask(d, t) == [d EXCEPT !.tasks = Replaced(@, t)]
TaskRow(d, id) == Row(d.tasks, id)

Tasks(d, r) == {t \in RowSet(d.tasks) : r = "" \/ t.run = r}

RecordAttempt(d, a) == [d EXCEPT !.attempts = Numbered(@, a)]
Attempts(d, r) == Where(d.attempts, LAMBDA a : r = "" \/ a.run = r)

Handoffs(d, p) == Where(d.handoffs, LAMBDA h : h.pid = p)

(* ORDER BY handoff_id DESC LIMIT 1                                          *)
LatestHandoff(d, p) ==
    LET mine == SortSeq(Handoffs(d, p), LAMBDA x, y : x.id > y.id)
    IN IF mine = <<>> THEN None ELSE mine[1]

(* _commit_handoff, in the transaction of its caller.                        *)
CommitHandoff(d, hop, task, attempt, payload, cursor) ==
    LET seq    == GetPipeline(d, hop.pid).total + Len(Handoffs(d, hop.pid))
        final  == hop.to = -1
        stored == IF payload = None THEN d
                  ELSE PutArtifact(d, [payload EXCEPT !.id = <<hop.pid, seq, 0>>,
                                                      !.seq = seq, !.final = final])
        entry  == IF payload = None THEN hop
                  ELSE [hop EXCEPT !.entry = <<hop.pid, seq, 0>>, !.entrySeq = seq]
        landed == [RecordAttempt(RecordTask(stored, task), attempt)
                     EXCEPT !.handoffs = Numbered(@, entry)]
    IN IF final
       THEN UpdatePipeline(MarkFinal(landed, hop.pid, entry.entrySeq), hop.pid, LAMBDA x :
                [x EXCEPT !.state = "succeeded", !.done = cursor, !.run = hop.run,
                          !.error = ""])
       ELSE UpdatePipeline(landed, hop.pid, LAMBDA x :
                [x EXCEPT !.state = "running", !.done = cursor, !.run = hop.run])

------------------------------------------------------------------------------
(* The hooks of VisitStore.                                                 *)

VisitSave(d, p, state) ==
    [d EXCEPT !.visits = [q \in DOMAIN @ \union {p} |-> IF q = p THEN state ELSE @[q]]]
VisitPipeline(d, record) == UpsertPipeline(d, record)
VisitTask(d, t) == RecordTask(d, t)
VisitAttempt(d, a) == RecordAttempt(d, a)
VisitArtifact(d, a) == PutArtifact(d, a)
VisitFinal(d, p, id) == [d EXCEPT !.artifacts = Flagged(@, p, LAMBDA a : a.id = id)]
VisitHandoff(d, hop, task, attempt, payload, cursor) ==
    LET landed == CommitHandoff(d, hop, task, attempt, payload, cursor)
    IN IF hop.to = -1
       THEN VisitFinal(landed, hop.pid, LatestHandoff(landed, hop.pid).entry)
       ELSE landed
MarkRevisit(d) == [d EXCEPT !.level = "visits-v1"]
AbandonRunningTasks(d, p) ==
    [d EXCEPT !.tasks = Altered(@, LAMBDA t : t.pid = p /\ t.state = "running",
                                   LAMBDA t : [t EXCEPT !.state = "interrupted"])]

(* SELECT seq, MAX(visit) FROM artifacts UNION ALL tasks GROUP BY seq        *)
ObservedCounters(d, p, total) ==
    LET rows == {<<x.seq, x.visit>> : x \in {y \in RowSet(d.artifacts) \union RowSet(d.tasks) :
                                               y.pid = p /\ 0 <= y.seq /\ y.seq < total}}
    IN [q \in {x[1] : x \in rows} |->
          CHOOSE v \in {x[2] : x \in rows} :
              <<q, v>> \in rows /\ \A y \in rows : y[1] = q => y[2] <= v]

------------------------------------------------------------------------------
(* Events, metrics, resources.                                              *)

EmitEvent(d, e) == [d EXCEPT !.events = Numbered(@, e)]

(* ORDER BY event_id DESC LIMIT n, turned round.                             *)
Events(d, r, kind, n) ==
    LET found == SortSeq(Where(d.events, LAMBDA e : (r = "" \/ e.run = r)
                                                    /\ (kind = "" \/ e.kind = kind)),
                         LAMBDA x, y : x.id > y.id)
        kept  == IF Len(found) <= n THEN found ELSE SubSeq(found, 1, n)
    IN [i \in DOMAIN kept |-> kept[Len(kept) + 1 - i]]

CountEvents(d, r, kind) ==
    Cardinality({e \in RowSet(d.events) : (r = "" \/ e.run = r) /\ (kind = "" \/ e.kind = kind)})

UpsertMetric(d, row) ==
    [d EXCEPT !.metrics = IF Has(@, row.id)
                          THEN Altered(@, LAMBDA x : x.id = row.id,
                                          LAMBDA x : [x EXCEPT !.value = row.value,
                                                               !.updated = row.updated])
                          ELSE Append(@, row)]

(* run_id = (SELECT run_id ... ORDER BY updated_at DESC LIMIT 1)              *)
ReportedMetrics(d, p) ==
    LET mine == Where(d.metrics, LAMBDA x : x.pid = p)
        last == SortSeq(mine, LAMBDA x, y : x.updated > y.updated)[1]
    IN IF mine = <<>> THEN {} ELSE {x \in RowSet(mine) : x.run = last.run}

(* A conflict keeps kind, spec and published_by.                             *)
UpsertResource(d, row) ==
    [d EXCEPT !.resources =
        IF Has(@, row.id)
        THEN Altered(@, LAMBDA x : x.id = row.id, LAMBDA x : [x EXCEPT !.state = row.state])
        ELSE Append(@, row)]
Resources(d) == {[id |-> x.id, state |-> x.state] : x \in RowSet(d.resources)}

------------------------------------------------------------------------------
(* Paged reads: one page per query, behind the last row of the page before. *)

(* A page that starts behind the first column of the cursor alone.            *)
BehindPrefix(key, cursor) == key[1] > cursor[1]

(* (a, b) > (?, ?), written out column by column.                            *)
Behind(key, cursor) ==
    \E i \in DOMAIN key : key[i] > cursor[i] /\ \A j \in 1 .. i - 1 : key[j] = cursor[j]

TaskKey(t) == <<t.seq, t.visit>>
EventKey(e) == <<e.id>>

(* ORDER BY key LIMIT n                                                      *)
Page(rows, Key(_), cursor, mark, n) ==
    LET ahead == Where(rows, LAMBDA x : (cursor = None \/ Behind(Key(x), cursor))
                                        /\ (mark = 0 \/ x.id <= mark))
        order == SortSeq(ahead, LAMBDA x, y : Behind(Key(y), Key(x)))
    IN IF Len(order) <= n THEN order ELSE SubSeq(order, 1, n)

------------------------------------------------------------------------------
(* Views.                                                                   *)

Pipelines(d, r) ==
    SortSeq(Where(d.pipes, LAMBDA x : r = "" \/ x.run = r),
            LAMBDA x, y : x.created < y.created)

Stats(d, r) ==
    LET pipes    == {x \in RowSet(d.pipes) : r = "" \/ x.run = r}
        Named(q) == {t \in RowSet(d.tasks) : (r = "" \/ t.run = r) /\ t.seq = q}
    IN [byState  |-> [s \in {x.state : x \in pipes} |->
                        Cardinality({x \in pipes : x.state = s})],
        byName   |-> [q \in {t.seq : t \in Tasks(d, r)} |->
                        <<Cardinality(Named(q)), SumOf(Named(q), LAMBDA t : t.used)>>],
        attempts |-> Len(Where(d.attempts, LAMBDA a : r = "" \/ a.run = r)),
        handoffs |-> Len(Where(d.handoffs, LAMBDA h : r = "" \/ h.run = r)),
        events   |-> CountEvents(d, r, "")]

Errors(d, r) ==
    {<<x.id, x.error>> : x \in {y \in RowSet(d.pipes) :
                                  y.state = "failed" /\ (r = "" \/ y.run = r)}}

ExportRows(d, r) ==
    {LET state == VisitState(d, x.id)
         arts  == Artifacts(d, x.id)
     IN [row |-> x, tasks |-> {t \in RowSet(d.tasks) : t.pid = x.id}, artifacts |-> arts,
         handoffs |-> Handoffs(d, x.id), control |-> state,
         active |-> IF state = None THEN {}
                    ELSE {a.id : a \in {b \in arts :
                              \/ b.id = state.terminal
                              \/ \E q \in DOMAIN state.active : state.active[q] = b.id}}]
       : x \in RowSet(Pipelines(d, r))}

INSTANCE VisitStore
=============================================================================
