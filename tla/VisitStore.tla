----------------------------- MODULE VisitStore -----------------------------
(***************************************************************************)
(* The transactions of store/visits.py, written once over the hooks that a *)
(* backend implements, as the class VisitStore is.  A backend defines an   *)
(* operator for every hook and then takes this module with INSTANCE.  The  *)
(* traversal itself is modelled in Visits.tla; here only the order of the  *)
(* hooks and what they are called with matter.                             *)
(***************************************************************************)
EXTENDS Rows

CONSTANTS
    VisitState(_, _),            \* the traversal of a pipeline, None without one
    VisitSave(_, _, _), VisitPipeline(_, _), VisitTask(_, _),
    VisitAttempt(_, _), VisitArtifact(_, _), VisitHandoff(_, _, _, _, _, _),
    VisitFinal(_, _, _), MarkRevisit(_), AbandonRunningTasks(_, _),
    ObservedCounters(_, _, _), Handoffs(_, _), GetArtifactById(_, _), TaskRow(_, _)

Visit(state, seq) ==
    IF seq \in DOMAIN state.counters THEN state.counters[seq] ELSE -1

(* reset_visits: every row in flight is abandoned, the counters survive.    *)
ResetVisits(s, record, seed, freshBudget) ==
    LET old   == VisitState(s, record.id)
        hops  == Handoffs(s, record.id)
        state == [counters |-> IF old # None THEN old.counters
                               ELSE ObservedCounters(s, record.id, record.total),
                  active |-> <<>>, pending |-> None, input |-> seed, cursor |-> 0,
                  terminal |-> None,
                  handoffs |-> IF freshBudget \/ old = None THEN 0 ELSE old.handoffs]
        row   == [record EXCEPT !.done = 0,
                                !.floor = IF hops = <<>> THEN 0 ELSE LastRow(hops).id]
    IN VisitSave(VisitPipeline(VisitFinal(AbandonRunningTasks(s, record.id),
                                          record.id, None), row),
                 record.id, state)

RepairVisitTerminal(s, record) ==
    VisitPipeline(VisitFinal(s, record.id, VisitState(s, record.id).terminal),
                  [record EXCEPT !.state = "succeeded", !.done = record.total])

(* _allocate_entry: a new visit of the station; the first second visit      *)
(* marks the store.                                                        *)
AllocateEntry(s, state, task) ==
    LET visit == Visit(state, task.seq) + 1
        row   == [task EXCEPT !.visit = visit, !.id = <<task.pid, task.seq, visit>>]
    IN VisitSave(VisitTask(IF visit > 0 THEN MarkRevisit(s) ELSE s, row), task.pid,
                 [state EXCEPT !.counters = [q \in DOMAIN @ \union {task.seq} |->
                                               IF q = task.seq THEN visit ELSE @[q]],
                               !.pending = row.id, !.cursor = task.seq,
                               !.input = task.input])

(* commit_entry: a pending visit is rebound to the run, else one is         *)
(* allocated.                                                              *)
CommitEntry(s, task) ==
    LET state == VisitState(s, task.pid)
    IN IF state.pending # None
       THEN VisitTask(s, [TaskRow(s, state.pending) EXCEPT !.run = task.run,
                                                           !.state = "running"])
       ELSE AllocateEntry(s, state, task)

CommitVisitAttempt(s, record, task) == VisitPipeline(VisitTask(s, task), record)

CommitVisitSuccess(s, record, task, attempt, artifact, final) ==
    LET state  == VisitState(s, task.pid)
        landed == VisitAttempt(VisitTask(VisitArtifact(s, artifact), task), attempt)
        row    == [record EXCEPT !.done = task.seq + 1,
                                 !.state = IF final THEN "succeeded" ELSE @]
    IN VisitSave(VisitPipeline(IF final THEN VisitFinal(landed, task.pid, artifact.id)
                               ELSE landed, row),
                 task.pid,
                 [state EXCEPT
                    !.active = [q \in DOMAIN @ \union {task.seq} |->
                                  IF q = task.seq THEN artifact.id ELSE @[q]],
                    !.pending = None, !.cursor = task.seq + 1, !.input = artifact.id,
                    !.terminal = IF final THEN artifact.id ELSE None])

(* commit_control_transition up to the save of the traversal: the ledger    *)
(* row, the source task, its attempt, a payload, and the finality a rewind *)
(* takes back.                                                             *)
Handed(s, record, hop, task, attempt, payload) ==
    LET final  == hop.to = -1
        landed == VisitHandoff(s, hop, task, attempt, payload,
                               IF final THEN record.total ELSE hop.to)
    IN IF hop.op = "rewind" THEN VisitFinal(landed, record.id, None) ELSE landed

CommitControlTransition(s, record, hop, task, attempt, payload) ==
    LET landed == Handed(s, record, hop, task, attempt, payload)
        state  == VisitState(s, record.id)
        entry  == LastRow(Handoffs(landed, record.id)).entry
        final  == hop.to = -1
        after  == [state EXCEPT
                     !.pending = None,
                     !.handoffs = IF final THEN @ ELSE @ + 1,
                     !.active = IF hop.op = "rewind"
                                THEN [q \in {x \in DOMAIN @ : x < hop.to} |-> @[q]]
                                ELSE [q \in DOMAIN @ \union {task.seq} |->
                                        IF q = task.seq THEN None ELSE @[q]],
                     !.cursor = IF final THEN record.total ELSE hop.to,
                     !.input = entry,
                     !.terminal = IF final THEN entry ELSE None]
    IN IF final THEN VisitSave(landed, record.id, after)
       ELSE AllocateEntry(landed, after,
                          [task EXCEPT !.seq = hop.to, !.state = "running", !.used = 0,
                                       !.output = None, !.input = entry])
=============================================================================
