------------------------------- MODULE Stores -------------------------------
(***************************************************************************)
(* The two store backends side by side.  A run drives both with the calls  *)
(* the runner makes, and a reader pages through the SQLite tables while it *)
(* goes on; "Semantics match SqliteStore", says store/memory.py.           *)
(*                                                                         *)
(* One pipeline runs forward and one backward.  An action is what the      *)
(* runner does between two awaits, with every call it makes on the store.  *)
(* A row the caller passes is read back from the stores: where it could    *)
(* read a different row from each, they already disagree.                  *)
(*                                                                         *)
(* Not compared, because the backends differ in it: the heartbeat of a run *)
(* that is finished, the spec of a resource and the order of resources,    *)
(* and the attempts used of a forward task that has not ended.             *)
(***************************************************************************)
EXTENDS Rows

CONSTANTS
    Runs, Forward, Backward,     \* run ids, one pipeline of each kind
    Total,                       \* tasks of a pipeline
    Journals,                    \* the journal modes to start with
    LargeSeqs, InlineLimit,      \* tasks whose payloads exceed what stays inline
    StaleAfter, MaxTime,         \* ticks
    MaxAttempts, MaxHandoffs, MaxEvents,   \* bounds of the model
    Batch                        \* ITER_BATCH_SIZE

ASSUME StoresAssumption ==
    /\ Total \in Nat \ {0} /\ Batch \in Nat \ {0} /\ MaxTime \in Nat
    /\ Forward # Backward

VARIABLES
    mem, db,                     \* the stores
    live,                        \* the run that is executing, "" for none
    now,
    page,                        \* a paged read in progress
    focus                        \* what the run is about, a bound of the model:
                                 \* one of the pipelines, or the facts beside them
vars == <<mem, db, live, now, page, focus>>

Mem == INSTANCE MemoryStore
Db  == INSTANCE SqliteStore

(* What is read, how many rows there were when it began, and the keys of the  *)
(* rows that have been yielded; the last of them is the cursor.              *)
NoPage == [kind |-> "none", begun |-> 0, out |-> <<>>]

Init ==
    /\ \E j \in Journals : mem = Mem!Empty(j) /\ db = Db!Empty(j)
    /\ live = "" /\ now = 1 /\ page = NoPage
    /\ focus \in {Forward, Backward, "facts"}

------------------------------------------------------------------------------
(* What the runner passes to a store.                                       *)

NewPipeline(p) ==
    [id |-> p, run |-> live, state |-> "running", total |-> Total, done |-> 0,
     floor |-> 0, created |-> now, error |-> "", attempts |-> 0]

NewTask(p, seq, input) ==
    [id |-> <<p, seq, 0>>, pid |-> p, run |-> live, seq |-> seq, visit |-> 0,
     state |-> "running", used |-> 0, output |-> None, input |-> input]

NewArtifact(p, seq, visit) ==
    [id |-> <<p, seq, visit>>, pid |-> p, seq |-> seq, visit |-> visit, final |-> FALSE,
     created |-> now, payload |-> "inline",
     size |-> IF seq \in LargeSeqs THEN InlineLimit + 1 ELSE InlineLimit]

Outcome(t, outcome) ==
    [id |-> 0, run |-> live, pid |-> t.pid, task |-> t.id, outcome |-> outcome]

Hop(t, to, entry, entrySeq) ==
    [id |-> 0, pid |-> t.pid, run |-> live, from |-> t.seq, to |-> to, entry |-> entry,
     entrySeq |-> entrySeq,
     op |-> IF to # -1 /\ to <= t.seq THEN "rewind" ELSE "forward"]

SeedId(p) == <<p, -1, 0>>
Seeded(p) == Db!GetArtifactById(db, SeedId(p)) # None
Available(a) == a # None /\ a.payload # "none"

Pipeline(p) == Db!GetPipeline(db, p)

(* The task the live run is in, as the runner holds it.  A memory store     *)
(* holds the very record the runner counts attempts in.                    *)
InTask(p) == {t \in RowSet(mem.tasks) : t.pid = p /\ t.run = live /\ t.state = "running"}

------------------------------------------------------------------------------
(* Runs.                                                                    *)

(* Time passes between two runs, and while facts are written.               *)
Tick ==
    /\ live = "" \/ focus = "facts"
    /\ now < MaxTime /\ now' = now + 1 /\ UNCHANGED <<mem, db, live, page, focus>>

(* run_async: a resuming run interrupts what a dead run left running.       *)
Start(r, resume) ==
    LET run == [id |-> r, status |-> "running", started |-> now, beat |-> 0]
        m == Mem!StartRun(mem, run)
        d == Db!StartRun(db, run)
    IN /\ live = "" /\ ~Has(db.runs, r)
       /\ live' = r
       /\ mem' = IF resume THEN Mem!InterruptStale(m, r, now) ELSE m
       /\ db' = IF resume THEN Db!InterruptStale(d, r, now) ELSE d
       /\ UNCHANGED <<now, page, focus>>

Beat ==
    /\ live # ""
    /\ mem' = Mem!Heartbeat(mem, live, now) /\ db' = Db!Heartbeat(db, live, now)
    /\ UNCHANGED <<live, now, page, focus>>

Finish(status) ==
    /\ live # "" /\ InTask(Forward) = {} /\ InTask(Backward) = {}
    /\ live' = ""
    /\ mem' = Mem!FinishRun(mem, live, status, now)
    /\ db' = Db!FinishRun(db, live, status, now)
    /\ UNCHANGED <<now, page, focus>>

(* The process dies; its rows stay as they are.                              *)
Killed == live # "" /\ live' = "" /\ UNCHANGED <<mem, db, now, page, focus>>

------------------------------------------------------------------------------
(* The forward pipeline, whose template declares control.                    *)

(* Where an open may start: behind the last checkpoint, at the target of a   *)
(* handoff that is ahead of it, or at 0.                                     *)
StartsAt(row) ==
    LET hop == Db!LatestHandoff(db, Forward)
    IN IF row = None \/ row.state \notin {"failed", "interrupted"} THEN 0
       ELSE IF hop # None /\ hop.id > row.floor /\ hop.to >= row.done
               /\ Available(Db!GetArtifact(db, Forward, hop.entrySeq))
            THEN hop.to
       ELSE IF row.done > 0 /\ Available(Db!GetArtifact(db, Forward, row.done - 1))
            THEN row.done
       ELSE 0

Open ==
    LET row    == Pipeline(Forward)
        start  == StartsAt(row)
        hop    == Db!LatestHandoff(db, Forward)
        record == [(IF row = None THEN NewPipeline(Forward) ELSE row) EXCEPT
                     !.run = live, !.state = "running", !.done = start, !.error = "",
                     !.floor = IF start = 0 THEN IF hop = None THEN 0 ELSE hop.id ELSE @]
        seed   == NewArtifact(Forward, -1, 0)
        m      == IF Seeded(Forward) THEN mem ELSE Mem!PutArtifact(mem, seed)
        d      == IF Seeded(Forward) THEN db ELSE Db!PutArtifact(db, seed)
        task   == NewTask(Forward, start, SeedId(Forward))
    IN /\ live # "" /\ focus = Forward /\ InTask(Forward) = {}
       /\ row # None => row.state # "succeeded"
       /\ start < Total
       /\ mem' = Mem!RecordTask(IF start = 0 THEN Mem!ResetPipeline(m, record)
                                ELSE Mem!UpsertPipeline(m, record), task)
       /\ db' = Db!RecordTask(IF start = 0 THEN Db!ResetPipeline(d, record)
                              ELSE Db!UpsertPipeline(d, record), task)
       /\ UNCHANGED <<live, now, page, focus>>

(* _settle_terminal_cursor: every task had been done when the run died.      *)
Settle ==
    LET row == Pipeline(Forward)
    IN /\ live # "" /\ row # None /\ row.state \in {"failed", "interrupted"}
       /\ row.done = Total /\ Available(Db!GetArtifact(db, Forward, Total - 1))
       /\ mem' = Mem!SettlePipeline(Mem!MarkFinal(mem, Forward, Total - 1), Forward,
                                    "succeeded", Total, live)
       /\ db' = Db!SettlePipeline(Db!MarkFinal(db, Forward, Total - 1), Forward,
                                  "succeeded", Total, live)
       /\ UNCHANGED <<live, now, page, focus>>

(* _execute_task: the pipeline row is written, the task record only counted   *)
(* in.                                                                       *)
Attempt(t) ==
    LET record == [Pipeline(Forward) EXCEPT !.attempts = @ + 1]
    IN /\ t.used < MaxAttempts /\ Len(db.attempts) < MaxAttempts
       /\ mem' = Mem!UpsertPipeline(Mem!RecordTask(mem, [t EXCEPT !.used = @ + 1]), record)
       /\ db' = Db!UpsertPipeline(db, record)
       /\ UNCHANGED <<live, now, page, focus>>

Attempted(t) == t.used > Cardinality({a \in RowSet(db.attempts) : a.task = t.id /\ a.run = live})

Succeed(t) ==
    LET art  == NewArtifact(Forward, t.seq, 0)
        done == [t EXCEPT !.state = "succeeded", !.output = art.id]
        m    == Mem!RecordAttempt(Mem!RecordTask(Mem!PutArtifact(mem, art), done),
                                  Outcome(t, "succeeded"))
        d    == Db!RecordAttempt(Db!RecordTask(Db!PutArtifact(db, art), done),
                                 Outcome(t, "succeeded"))
        row  == [Pipeline(Forward) EXCEPT !.done = t.seq + 1]
        next == NewTask(Forward, t.seq + 1, art.id)
    IN /\ Attempted(t)
       /\ IF t.seq = Total - 1
          THEN /\ mem' = Mem!FinishPipeline(Mem!MarkFinal(m, Forward, t.seq), Forward,
                                            "succeeded", Total, "")
               /\ db' = Db!FinishPipeline(Db!MarkFinal(d, Forward, t.seq), Forward,
                                          "succeeded", Total, "")
          ELSE /\ mem' = Mem!RecordTask(Mem!UpsertPipeline(m, row), next)
               /\ db' = Db!RecordTask(Db!UpsertPipeline(d, row), next)
       /\ UNCHANGED <<live, now, page, focus>>

Fail(t) ==
    LET failed == [t EXCEPT !.state = "failed"]
    IN /\ Attempted(t)
       /\ mem' = Mem!FinishPipeline(Mem!RecordTask(
                     Mem!RecordAttempt(mem, Outcome(t, "failed")), failed),
                     t.pid, "failed", -1, "error")
       /\ db' = Db!FinishPipeline(Db!RecordTask(
                     Db!RecordAttempt(db, Outcome(t, "failed")), failed),
                     t.pid, "failed", -1, "error")
       /\ UNCHANGED <<live, now, page, focus>>

(* Reporting the success raises: the internal error is written over the row,  *)
(* its cursor at the end.                                                    *)
ErrorAfterSuccess(t) ==
    /\ t.seq = Total - 1 /\ t.state = "succeeded" /\ t.run = live
    /\ Pipeline(Forward).state = "succeeded"
    /\ mem' = Mem!FinishPipeline(mem, Forward, "failed", Total, "error")
    /\ db' = Db!FinishPipeline(db, Forward, "failed", Total, "error")
    /\ UNCHANGED <<live, now, page, focus>>

(* _commit_handoff: a payload of its own, or the task's input, travels on.    *)
HandOff(t, to, payload) ==
    LET hop    == Hop(t, to, IF payload = None THEN t.input ELSE None, t.seq - 1)
        handed == [t EXCEPT !.state = "handed_off"]
        cursor == IF to = -1 THEN Total ELSE to
        m == Mem!CommitHandoff(mem, hop, handed, Outcome(t, "handed_off"), payload, cursor)
        d == Db!CommitHandoff(db, hop, handed, Outcome(t, "handed_off"), payload, cursor)
        next == NewTask(Forward, to, Db!LatestHandoff(d, Forward).entry)
    IN /\ Attempted(t)
       /\ to = -1 \/ to > t.seq
       /\ Len(db.handoffs) < MaxHandoffs
       /\ mem' = IF to = -1 THEN m ELSE Mem!RecordTask(m, next)
       /\ db' = IF to = -1 THEN d ELSE Db!RecordTask(d, next)
       /\ UNCHANGED <<live, now, page, focus>>

------------------------------------------------------------------------------
(* The backward pipeline, over the transactions of VisitStore.               *)

(* _open_backward_pipeline, with the entry of its first task.                 *)
OpenBackward ==
    LET row    == Pipeline(Backward)
        state  == Db!VisitState(db, Backward)
        seed   == NewArtifact(Backward, -1, 0)
        m      == IF Available(Db!GetArtifactById(db, SeedId(Backward))) THEN mem
                  ELSE Mem!PutArtifact(mem, seed)
        d      == IF Available(Db!GetArtifactById(db, SeedId(Backward))) THEN db
                  ELSE Db!PutArtifact(db, seed)
        record == [(IF row = None THEN NewPipeline(Backward) ELSE row) EXCEPT
                     !.run = live, !.state = "running", !.error = ""]
        restart == state = None \/ ~Available(Db!GetArtifactById(db, state.input))
        first  == NewTask(Backward, 0, SeedId(Backward))
        next   == NewTask(Backward, state.cursor, state.input)
        onward == [record EXCEPT !.done = state.cursor]
    IN /\ live # "" /\ focus = Backward /\ InTask(Backward) = {}
       /\ row # None => row.state \in {"failed", "interrupted"}
       /\ IF state # None /\ state.terminal # None
          THEN /\ mem' = Mem!RepairVisitTerminal(m, record)
               /\ db' = Db!RepairVisitTerminal(d, record)
          ELSE IF restart
          THEN /\ mem' = Mem!CommitEntry(
                     Mem!UpsertPipeline(Mem!ResetVisits(m, record, seed.id, state = None),
                                        [record EXCEPT !.done = 0]), first)
               /\ db' = Db!CommitEntry(
                     Db!UpsertPipeline(Db!ResetVisits(d, record, seed.id, state = None),
                                       [record EXCEPT !.done = 0]), first)
          ELSE /\ mem' = Mem!CommitEntry(Mem!UpsertPipeline(m, onward), next)
               /\ db' = Db!CommitEntry(Db!UpsertPipeline(d, onward), next)
       /\ UNCHANGED <<live, now, page, focus>>

AttemptBackward(t) ==
    LET record == [Pipeline(Backward) EXCEPT !.attempts = @ + 1]
        task   == [t EXCEPT !.used = @ + 1]
    IN /\ t.used < MaxAttempts /\ Len(db.attempts) < MaxAttempts
       /\ mem' = Mem!CommitVisitAttempt(mem, record, task)
       /\ db' = Db!CommitVisitAttempt(db, record, task)
       /\ UNCHANGED <<live, now, page, focus>>

SucceedBackward(t) ==
    LET art  == NewArtifact(Backward, t.seq, t.visit)
        done == [t EXCEPT !.state = "succeeded", !.output = art.id]
        last == t.seq = Total - 1
        m == Mem!CommitVisitSuccess(mem, Pipeline(Backward), done,
                                    Outcome(t, "succeeded"), art, last)
        d == Db!CommitVisitSuccess(db, Pipeline(Backward), done,
                                   Outcome(t, "succeeded"), art, last)
        next == NewTask(Backward, t.seq + 1, art.id)
    IN /\ Attempted(t)
       /\ mem' = IF last THEN m ELSE Mem!CommitEntry(m, next)
       /\ db' = IF last THEN d ELSE Db!CommitEntry(d, next)
       /\ UNCHANGED <<live, now, page, focus>>

Transfer(t, to, payload) ==
    LET hop    == Hop(t, to, IF payload = None THEN t.input ELSE None,
                      IF payload = None THEN Db!GetArtifactById(db, t.input).seq ELSE 0)
        handed == [t EXCEPT !.state = "handed_off"]
    IN /\ Attempted(t)
       /\ Len(db.handoffs) < MaxHandoffs
       /\ mem' = Mem!CommitControlTransition(mem, Pipeline(Backward), hop, handed,
                                             Outcome(t, "handed_off"), payload)
       /\ db' = Db!CommitControlTransition(db, Pipeline(Backward), hop, handed,
                                           Outcome(t, "handed_off"), payload)
       /\ UNCHANGED <<live, now, page, focus>>

(* The transition raises before its transaction ends, and the run with it.   *)
TransferRaises(t, to) ==
    LET hop == Hop(t, to, t.input, Db!GetArtifactById(db, t.input).seq)
        handed == [t EXCEPT !.state = "handed_off"]
    IN /\ Attempted(t)
       /\ Len(db.handoffs) < MaxHandoffs
       /\ live' = ""
       /\ mem' = Mem!RolledBack(mem, Mem!CommitControlTransition(mem, Pipeline(Backward),
                     hop, handed, Outcome(t, "handed_off"), None))
       /\ db' = Db!RolledBack(db, Db!CommitControlTransition(db, Pipeline(Backward),
                     hop, handed, Outcome(t, "handed_off"), None))
       /\ UNCHANGED <<now, page, focus>>

------------------------------------------------------------------------------
(* Facts beside the pipelines.                                               *)

Emit(kind) ==
    LET event == [id |-> 0, ts |-> now, run |-> live, kind |-> kind]
    IN /\ live # "" /\ focus = "facts" /\ Len(db.events) < MaxEvents
       /\ mem' = Mem!EmitEvent(mem, event) /\ db' = Db!EmitEvent(db, event)
       /\ UNCHANGED <<live, now, page, focus>>

(* No two reports carry the same time.                                       *)
Report ==
    LET row == [id |-> <<live, Forward>>, run |-> live, pid |-> Forward, value |-> now,
                updated |-> now]
    IN /\ live # "" /\ focus = "facts" /\ Len(db.events) < MaxEvents
       /\ \A x \in RowSet(db.metrics) : x.updated < now
       /\ mem' = Mem!UpsertMetric(mem, row) /\ db' = Db!UpsertMetric(db, row)
       /\ UNCHANGED <<live, now, page, focus>>

Publish(state) ==
    LET row == [id |-> <<"pool", "resource">>, spec |-> live, state |-> state]
    IN /\ live # "" /\ focus = "facts" /\ Len(db.events) < MaxEvents
       /\ mem' = Mem!UpsertResource(mem, row) /\ db' = Db!UpsertResource(db, row)
       /\ UNCHANGED <<live, now, page, focus>>

------------------------------------------------------------------------------
(* A reader pages through the tasks of the backward pipeline, or through the  *)
(* attempts up to the mark it took.                                          *)

PagedTasks(rows) == Where(rows, LAMBDA t : t.pid = Backward)
AttemptKey(a) == <<a.id>>

(* What a memory store would yield: neither list loses a row, and the dict    *)
(* keeps the places of its keys.                                             *)
Begun == SubSeq(IF page.kind \in {"tasks", "all tasks"} THEN PagedTasks(mem.tasks)
                ELSE mem.attempts, 1, page.begun)

BeginPaging(kind) ==
    LET rows == IF kind = "tasks" THEN PagedTasks(db.tasks) ELSE db.attempts
    IN /\ page.kind = "none" /\ focus = Backward
       /\ Len(rows) > 1 
       /\ Len(db.runs) = 1 /\ db.journal = "full"      \* a bound
       /\ page' = [kind |-> kind, begun |-> Len(rows), out |-> <<>>]
       /\ UNCHANGED <<mem, db, live, now, focus>>

NextPage ==
    LET cursor == LastRow(page.out)
        rows   == IF page.kind = "tasks"
                  THEN Db!Page(PagedTasks(db.tasks), Db!TaskKey, cursor, 0, Batch)
                  ELSE Db!Page(db.attempts, AttemptKey, cursor, page.begun, Batch)
        Key(x) == IF page.kind = "tasks" THEN Db!TaskKey(x) ELSE AttemptKey(x)
    IN /\ page.kind \in {"tasks", "attempts"}
       /\ page' = [page EXCEPT
                     !.out = @ \o [i \in DOMAIN rows |-> Key(rows[i])],
                     !.kind = IF Len(rows) = Batch THEN @
                              ELSE IF @ = "tasks" THEN "all tasks" ELSE "all attempts"]
       /\ UNCHANGED <<mem, db, live, now, focus>>

------------------------------------------------------------------------------
Payloads(p) == {None, NewArtifact(p, 0, 0)}

Next ==
    \/ Tick \/ Beat \/ Killed \/ Settle \/ NextPage \/ Report
    \/ \E r \in Runs, resume \in BOOLEAN : Start(r, resume)
    \/ Finish("completed")
    \/ Open \/ OpenBackward
    \/ \E t \in RowSet(mem.tasks) : t.pid = Forward /\ ErrorAfterSuccess(t)
    \/ \E t \in InTask(Forward) :
         \/ Attempt(t) \/ Succeed(t) \/ Fail(t)
         \/ \E to \in -1 .. Total - 1, payload \in Payloads(Forward) : HandOff(t, to, payload)
    \/ \E t \in InTask(Backward) :
         \/ AttemptBackward(t) \/ SucceedBackward(t) \/ Fail(t)
         \/ \E to \in -1 .. Total - 1 :
              \/ TransferRaises(t, to)
              \/ \E payload \in Payloads(Backward) : Transfer(t, to, payload)
    \/ \E kind \in {"a", "b"} : Emit(kind)
    \/ \E state \in {"idle", "cooldown"} : Publish(state)
    \/ \E kind \in {"tasks", "attempts"} : BeginPaging(kind)

Spec == Init /\ [][Next]_vars

------------------------------------------------------------------------------
(* In a forward task that has not ended, a memory store shows a count the    *)
(* database has not been told: it holds the record the runner counts in.     *)
Unended(t) == t.pid = Forward /\ t.state \in {"running", "interrupted"}
Settled(tasks) == {[t EXCEPT !.used = IF Unended(t) THEN 0 ELSE @] : t \in tasks}
AllEnded == \A t \in RowSet(mem.tasks) : ~Unended(t)

Filters == Runs \union {""}
Known == {p \in {Forward, Backward} : Has(db.pipes, p)}

(* Whatever sequence of calls a run, a crash and a resume make on them, the   *)
(* two backends give the same rows, addresses, effective artifacts, latest run*)
(* and handoff, counts, statistics and feature level, but for what the head of*)
(* this module names.                                                         *)
(* ("interchangeable with SqliteStore anywhere a Store is expected",          *)
(* store/memory.py)                                                           *)
BackendsAgree ==
    /\ Mem!LatestRun(mem) = Db!LatestRun(db)
    /\ \A r \in Runs : Mem!GetRun(mem, r) = Db!GetRun(db, r)
    /\ \A p \in {Forward, Backward} :
         /\ Mem!GetPipeline(mem, p) = Db!GetPipeline(db, p)
         /\ Mem!VisitState(mem, p) = Db!VisitState(db, p)
         /\ Mem!Artifacts(mem, p) = Db!Artifacts(db, p)
         /\ Mem!LatestHandoff(mem, p) = Db!LatestHandoff(db, p)
         /\ Mem!ObservedCounters(mem, p, Total) = Db!ObservedCounters(db, p, Total)
         /\ Mem!ReportedMetrics(mem, p) = Db!ReportedMetrics(db, p)
    /\ \A p \in Known, seq \in -1 .. Total + MaxHandoffs :
         Mem!GetArtifact(mem, p, seq) = Db!GetArtifact(db, p, seq)
    /\ \A r \in Filters :
         /\ Mem!Pipelines(mem, r) = Db!Pipelines(db, r)
         /\ Settled(Mem!Tasks(mem, r)) = Settled(Db!Tasks(db, r))
         /\ Mem!Attempts(mem, r) = Db!Attempts(db, r)
         /\ Mem!Errors(mem, r) = Db!Errors(db, r)
         /\ AllEnded => Mem!Stats(mem, r) = Db!Stats(db, r)
         /\ AllEnded => Mem!ExportRows(mem, r) = Db!ExportRows(db, r)
         /\ \A kind \in {"", "a"} : /\ Mem!Events(mem, r, kind, 1) = Db!Events(db, r, kind, 1)
                                    /\ Mem!CountEvents(mem, r, kind) = Db!CountEvents(db, r, kind)
    /\ Mem!Resources(mem) = Db!Resources(db)
    /\ mem.level = db.level

(* A paged read returns every row that was there when it began, in the order  *)
(* of its key and once, whatever is written while it pages: the attempts are  *)
(* exactly those up to its mark, the tasks may be joined by later ones.        *)
(* (store/base.py, PagedStore: a cursor over a prefix of the key "skips every *)
(* row that ties with the last row of a page")                                *)
PagesMissNothing ==
    /\ page.kind = "all attempts" =>
         page.out = [i \in DOMAIN Begun |-> AttemptKey(Begun[i])]
    /\ page.kind = "all tasks" =>
         /\ {Db!TaskKey(t) : t \in RowSet(Begun)} \subseteq RowSet(page.out)
         /\ \A i, j \in DOMAIN page.out : i < j => Db!Behind(page.out[j], page.out[i])
=============================================================================
