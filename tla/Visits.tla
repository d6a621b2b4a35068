------------------------------- MODULE Visits -------------------------------
(***************************************************************************)
(* A pipeline that may go backward (src/pyattacker/store/visits.py and the *)
(* paths of runner.py that use it). The store keeps one traversal record:  *)
(* how often each task was entered, the results in effect, the entry under *)
(* way. Runs open it, execute tasks, rewind, retry everything, give up,    *)
(* die, and resume each other's work.                                      *)
(*                                                                         *)
(* Several runs may work on the pipeline at once: a run that resumes takes *)
(* over a row whose owner is silent, and silence is not death. Every write *)
(* of the traversal is one transaction that first checks its caller's      *)
(* entry. An action is at most one transaction.                            *)
(*                                                                         *)
(* Abstractions.                                                           *)
(*  - An artifact is the run that wrote it. Its address is a task and a    *)
(*    visit, N + k for the payload of the k-th handoff, or the seed.       *)
(*  - A task row is its address: the states of task rows, the attempts,    *)
(*    n_tasks_done and handoff_floor are written and never read here.      *)
(*  - What opening reads (row, traversal, its input) is one snapshot.      *)
(***************************************************************************)
EXTENDS Integers, Sequences, FiniteSets

CONSTANTS
    Runs,
    N,                              \* tasks of the chain
    Edges, Rewinds, RetryAll,       \* what the control block declares
    Limit,                          \* the smaller of the two max_handoffs
    MaxVisits, MaxHops, MaxSpoils, MaxLosses,     \* bounds
    Nobody,                         \* no run: an address never written
    NoTraversal, NoEntry, NoArtifact

END == N
Stations == 0 .. N - 1
Occurrences == Stations \X (0 .. MaxVisits)
Seed == <<-1, 0>>
Ids == {Seed} \cup Occurrences \cup ((N .. N + MaxHops - 1) \X {0})

States == [seq : Stations, visit : 0 .. MaxVisits, input : Ids]
Blank == [seq |-> 0, visit |-> 0, input |-> Seed]

Entries == [at : Occurrences, input : Ids]
Traversals ==
    [version : Nat, counters : [Stations -> -1 .. MaxVisits],
     active : [Stations -> Ids \cup {NoArtifact}],
     pending : Entries \cup {NoEntry}, input : Ids, cursor : 0 .. END,
     terminal : Ids \cup {NoArtifact}, handoffs : Nat]
Handoffs == [op : {"forward", "rewind", "retry_all"}, from : Occurrences,
             to : 0 .. END, entry : Ids, version : Nat]

ASSUME ConstantsAssumption ==
    /\ N \in Nat \ {0} /\ Limit \in Nat \ {0}
    /\ MaxVisits \in Nat /\ MaxHops \in Nat /\ MaxSpoils \in Nat /\ MaxLosses \in Nat
    /\ Edges \subseteq Stations \X (1 .. END)
    /\ \A e \in Edges : e[1] < e[2] /\ e # <<N - 1, END>>
    /\ Rewinds \subseteq Stations \X Stations
    /\ \A e \in Rewinds : e[2] < e[1]
    /\ RetryAll \subseteq Stations
    /\ Nobody \notin Runs
    /\ NoTraversal \notin Traversals /\ NoEntry \notin Entries /\ NoArtifact \notin Ids

VARIABLES
    \* the store
    row,        \* state of the pipeline's row, or "absent"
    trav,       \* the traversal record
    tasks,      \* addresses of the task rows
    art,        \* who wrote each artifact
    kept,       \* artifacts whose payload is still there
    final,      \* the artifact with is_final
    ledger,
    \* each run
    pc,
    mode,       \* its flags: resume, retry_succeeded, fresh_restart
    mem,        \* _RunState: the task, its visit, the artifact its value is from
    \* bounds and history
    spoils, losses,
    budgetFrom  \* rows of the ledger when the budget was last renewed

store == <<row, trav, tasks, art, kept, final, ledger, budgetFrom>>
memory == <<mode, mem>>
damage == <<spoils, losses>>
vars == <<store, pc, memory, damage>>

Flags == {"resume", "retry", "fresh"}

TypeOK ==
    /\ row \in {"absent", "running", "succeeded", "failed", "interrupted"}
    /\ trav \in Traversals \cup {NoTraversal}
    /\ tasks \subseteq Occurrences
    /\ art \in [Ids -> Runs \cup {Nobody}]
    /\ kept \subseteq {a \in Ids : art[a] # Nobody}
    /\ final \in Ids \cup {NoArtifact}
    /\ ledger \in Seq(Handoffs) /\ Len(ledger) <= MaxHops
    /\ pc \in [Runs -> {"idle", "open", "fresh", "reset", "repair", "opened", "begin",
                        "attempt", "running", "told", "recover", "over"}]
    /\ mode \in [Runs -> SUBSET Flags]
    /\ mem \in [Runs -> States]
    /\ spoils \in 0 .. MaxSpoils /\ losses \in 0 .. MaxLosses
    /\ budgetFrom \in 0 .. MaxHops

Init ==
    /\ row = "absent" /\ trav = NoTraversal /\ tasks = {} /\ final = NoArtifact
    /\ art = [a \in Ids |-> Nobody] /\ kept = {} /\ ledger = <<>>
    /\ pc = [r \in Runs |-> "idle"] /\ mode = [r \in Runs |-> {}]
    /\ mem = [r \in Runs |-> Blank]
    /\ spoils = 0 /\ losses = 0 /\ budgetFrom = 0

Go(r, to) == pc' = [pc EXCEPT ![r] = to]

\* The run has nothing more to do with the pipeline.
Leave(r) == Go(r, "over") /\ mem' = [mem EXCEPT ![r] = Blank] /\ mode' = [mode EXCEPT ![r] = {}]

\* The pipeline is finished in the store; its success has to be reported yet.
Done(r) == Go(r, "told") /\ mem' = [mem EXCEPT ![r] = Blank] /\ UNCHANGED mode

\* It goes on at task s with input a.
Enter(r, s, a) == mem' = [mem EXCEPT ![r] = [seq |-> s, visit |-> 0, input |-> a]]

-----------------------------------------------------------------------------
(* The traversal. *)

\* Mutation of Observed: the next visit of a task instead of its last.
ObservedNext ==
    [s \in Stations |->
        LET seen == {v \in 0 .. MaxVisits : <<s, v>> \in tasks \/ art[<<s, v>>] # Nobody}
        IN  IF seen = {} THEN -1 ELSE Cardinality(seen)]

\* Where the counters come from when the record that owned them is gone: task
\* rows, written first, and artifacts.
Observed ==
    [s \in Stations |->
        LET seen == {v \in 0 .. MaxVisits : <<s, v>> \in tasks \/ art[<<s, v>>] # Nobody}
        IN  IF seen = {} THEN -1 ELSE CHOOSE v \in seen : \A w \in seen : w <= v]

\* Mutation of Restarted: a lost record's counters start again.
RestartedFromNothing(fresh) ==
    [version |-> 1, counters |-> [s \in Stations |-> -1],
     active |-> [s \in Stations |-> NoArtifact], pending |-> NoEntry,
     input |-> Seed, cursor |-> 0, terminal |-> NoArtifact, handoffs |-> 0]

\* Mutation of Restarted: every reset renews the budget.
RestartedWithBudget(fresh) ==
    [version |-> IF trav = NoTraversal THEN 1 ELSE trav.version + 1,
     counters |-> IF trav = NoTraversal THEN Observed ELSE trav.counters,
     active |-> [s \in Stations |-> NoArtifact], pending |-> NoEntry,
     input |-> Seed, cursor |-> 0, terminal |-> NoArtifact, handoffs |-> 0]

\* reset_visits: everything but the counters and, unless it is renewed, the
\* budget.
Restarted(fresh) ==
    [version |-> IF trav = NoTraversal THEN 1 ELSE trav.version + 1,
     counters |-> IF trav = NoTraversal THEN Observed ELSE trav.counters,
     active |-> [s \in Stations |-> NoArtifact], pending |-> NoEntry,
     input |-> Seed, cursor |-> 0, terminal |-> NoArtifact,
     handoffs |-> IF fresh \/ trav = NoTraversal THEN 0 ELSE trav.handoffs]

\* The next visit of a task becomes the entry under way (_allocate_entry).
Next1(t, s) == t.counters[s] + 1
Allocated(t, s, a) ==
    [t EXCEPT !.counters[s] = Next1(t, s), !.cursor = s, !.input = a,
              !.pending = [at |-> <<s, Next1(t, s)>>, input |-> a]]

Me(r) == <<mem[r].seq, mem[r].visit>>

\* Mutation of Owns: any entry under way will do.
OwnsSome(r) == trav # NoTraversal /\ trav.pending # NoEntry

\* _check_source: the entry this run executes is still the one under way.
Owns(r) == trav # NoTraversal /\ trav.pending # NoEntry /\ trav.pending.at = Me(r)

-----------------------------------------------------------------------------
(* Opening. *)

\* A new run. If it resumes, interrupt_stale may give up the row first.
Start(r) ==
    /\ pc[r] = "idle" /\ Go(r, "open")
    /\ \E flags \in SUBSET Flags :
        /\ mode' = [mode EXCEPT ![r] = flags]
        /\ \/ UNCHANGED row
           \/ "resume" \in flags /\ row = "running" /\ row' = "interrupted"
    /\ UNCHANGED <<trav, tasks, art, kept, final, ledger, budgetFrom, mem, damage>>

Succeeded(r) == row = "succeeded" /\ "retry" \notin mode[r]
OwnedByAnotherRun(r) == row = "running" /\ "resume" \notin mode[r]

Skip(r) ==
    /\ pc[r] = "open" /\ (Succeeded(r) \/ OwnedByAnotherRun(r))
    /\ Leave(r)
    /\ UNCHANGED <<store, damage>>

ProgressWritten ==
    tasks # {} \/ ledger # <<>> \/ \E a \in Ids : a[1] >= 0 /\ art[a] # Nobody

Fresh(r) ==
    \/ row \in {"absent", "succeeded"} \/ "fresh" \in mode[r]
    \/ trav = NoTraversal /\ ~ProgressWritten

\* Where a traversal that is not restarted goes on.
Resumption ==
    IF trav.terminal # NoArtifact
    THEN IF art[trav.terminal] # Nobody THEN "repair" ELSE "recover"
    ELSE IF trav.input \in kept THEN "opened" ELSE "reset"

\* The seed is stored again if its payload is gone. A record that is missing
\* though there was progress is an error.
Open(r) ==
    /\ pc[r] = "open" /\ ~Succeeded(r) /\ ~OwnedByAnotherRun(r)
    /\ IF ~Fresh(r) /\ trav = NoTraversal
       THEN Go(r, "recover") /\ UNCHANGED <<store, memory>>
       ELSE /\ art' = [art EXCEPT ![Seed] = IF Seed \in kept THEN @ ELSE r]
            /\ kept' = kept \cup {Seed}
            /\ final' = IF final = Seed /\ Seed \notin kept THEN NoArtifact ELSE final
            /\ Go(r, IF Fresh(r) THEN "fresh"
                     ELSE IF trav.input = Seed /\ trav.terminal = NoArtifact THEN "opened"
                     ELSE Resumption)
            /\ IF ~Fresh(r) /\ trav.cursor # END THEN Enter(r, trav.cursor, trav.input)
               ELSE UNCHANGED mem
            /\ mode' = [mode EXCEPT ![r] = {}]
            /\ UNCHANGED <<row, trav, tasks, ledger, budgetFrom>>
    /\ UNCHANGED damage

Reset(r) ==
    /\ pc[r] \in {"fresh", "reset"} /\ Go(r, "opened")
    /\ trav' = Restarted(pc[r] = "fresh")
    /\ row' = "running" /\ final' = NoArtifact
    /\ budgetFrom' = IF pc[r] = "fresh" \/ trav = NoTraversal THEN Len(ledger) ELSE budgetFrom
    /\ Enter(r, 0, Seed)
    /\ UNCHANGED <<tasks, art, kept, ledger, mode, damage>>

\* A finished traversal whose row says otherwise.
Repair(r) ==
    /\ pc[r] = "repair"
    /\ IF trav # NoTraversal /\ trav.terminal # NoArtifact
       THEN Leave(r) /\ final' = trav.terminal /\ row' = "succeeded"
       ELSE Go(r, "recover") /\ UNCHANGED <<final, row, memory>>
    /\ UNCHANGED <<trav, tasks, art, kept, ledger, budgetFrom, damage>>

Upsert(r) ==
    /\ pc[r] = "opened" /\ Go(r, "begin")
    /\ row' = "running"
    /\ UNCHANGED <<trav, tasks, art, kept, final, ledger, budgetFrom, memory, damage>>

-----------------------------------------------------------------------------
(* Tasks. *)

Enterable(r) ==
    /\ trav # NoTraversal /\ trav.terminal = NoArtifact
    /\ trav.cursor = mem[r].seq /\ trav.input = mem[r].input
    /\ trav.pending # NoEntry =>
         /\ trav.pending.at[1] = mem[r].seq /\ trav.pending.input = mem[r].input
         /\ trav.pending.at \in tasks

\* commit_entry: an entry that an earlier run left under way is continued
\* under its visit, otherwise the next visit is allocated.
BeginTask(r) ==
    /\ pc[r] = "begin" /\ Enterable(r)
    /\ trav.pending = NoEntry => Next1(trav, mem[r].seq) <= MaxVisits
    /\ trav' = IF trav.pending = NoEntry THEN Allocated(trav, mem[r].seq, mem[r].input) ELSE trav
    /\ tasks' = tasks \cup {trav'.pending.at}
    /\ mem' = [mem EXCEPT ![r].visit = trav'.pending.at[2]]
    /\ Go(r, "attempt")
    /\ UNCHANGED <<row, art, kept, final, ledger, budgetFrom, mode, damage>>

\* commit_visit_attempt, before the task's code runs.
Attempt(r) ==
    /\ pc[r] = "attempt" /\ Owns(r) /\ Go(r, "running")
    /\ row' = "running"
    /\ UNCHANGED <<trav, tasks, art, kept, final, ledger, budgetFrom, memory, damage>>

\* A failed attempt that the policy tries again, after its delay.
Retry(r) ==
    /\ pc[r] = "running" /\ Go(r, "attempt")
    /\ UNCHANGED <<store, memory, damage>>

\* commit_visit_success. The next task is opened by another transaction.
Succeed(r) ==
    LET out == Me(r)  last == mem[r].seq + 1 = N
    IN  /\ pc[r] = "running" /\ Owns(r)
        /\ art' = [art EXCEPT ![out] = r]
        /\ kept' = kept \cup {out}
        /\ trav' = [trav EXCEPT !.active[mem[r].seq] = out, !.pending = NoEntry,
                                !.cursor = mem[r].seq + 1, !.input = out,
                                !.terminal = IF last THEN out ELSE @]
        /\ row' = IF last THEN "succeeded" ELSE "running"
        /\ final' = IF last THEN out ELSE final
        /\ IF last THEN Done(r)
           ELSE Go(r, "begin") /\ Enter(r, mem[r].seq + 1, out) /\ UNCHANGED mode
        /\ UNCHANGED <<tasks, ledger, budgetFrom, damage>>

\* The events that follow are the last of it.
Tell(r) ==
    /\ pc[r] = "told" /\ Leave(r)
    /\ UNCHANGED <<store, damage>>

\* What the control block allows (ControlPlan.allows).
Allows(op, from, to) ==
    CASE op = "forward" -> <<from, to>> \in Edges
      [] op = "rewind" -> <<from, to>> \in Rewinds
      [] op = "retry_all" -> from \in RetryAll /\ to = 0

\* Mutation of WithinBudget: one transfer more.
WithinBudgetLate(to) == to = END \/ trav.handoffs <= Limit

\* END costs nothing.
WithinBudget(to) == to = END \/ trav.handoffs < Limit

\* Mutation of Active: a rewind leaves the results behind its target in effect.
ActiveUncut(op, s, to) == [trav.active EXCEPT ![s] = NoArtifact]

\* The results in effect after a transfer from s: a step back invalidates what
\* lies behind its target.
Active(op, s, to) ==
    IF op = "forward" THEN [trav.active EXCEPT ![s] = NoArtifact]
    ELSE [t \in Stations |-> IF t < to THEN trav.active[t] ELSE NoArtifact]

\* commit_control_transition: the ledger row, the entry's artifact, the
\* traversal and the visit of its target in one transaction. `entry' is the
\* seed, the artifact this task received, or a new payload.
Transfer(r, op, to, entry) ==
    LET moved == [trav EXCEPT !.version = @ + 1, !.pending = NoEntry,
                              !.handoffs = IF to = END THEN @ ELSE @ + 1,
                              !.active = Active(op, mem[r].seq, to),
                              !.cursor = to, !.input = entry,
                              !.terminal = IF to = END THEN entry ELSE NoArtifact]
    IN  /\ pc[r] = "running" /\ Owns(r) /\ Allows(op, mem[r].seq, to) /\ WithinBudget(to)
        /\ Len(ledger) < MaxHops
        /\ to # END => Next1(trav, to) <= MaxVisits
        /\ ledger' = Append(ledger, [op |-> op, from |-> Me(r), to |-> to, entry |-> entry,
                                     version |-> trav.version + 1])
        /\ trav' = IF to = END THEN moved ELSE Allocated(moved, to, entry)
        /\ tasks' = IF to = END THEN tasks ELSE tasks \cup {trav'.pending.at}
        /\ final' = IF to = END THEN entry ELSE IF op = "forward" THEN final ELSE NoArtifact
        /\ row' = IF to = END THEN "succeeded" ELSE "running"
        /\ IF to = END THEN Done(r)
           ELSE Go(r, "begin") /\ Enter(r, to, entry) /\ UNCHANGED mode
        /\ UNCHANGED <<budgetFrom, damage>>

Payload == <<N + Len(ledger), 0>>

\* Handoff.to and Handoff.end without a value
HandOver(r, to) == Transfer(r, "forward", to, mem[r].input) /\ UNCHANGED <<art, kept>>

RetryAllTasks(r) == Transfer(r, "retry_all", 0, Seed) /\ UNCHANGED <<art, kept>>

\* with a value: a new artifact behind the chain; a rewind always has one
HandOverPayload(r, op, to) ==
    /\ Transfer(r, op, to, Payload)
    /\ art' = [art EXCEPT ![Payload] = r]
    /\ kept' = kept \cup {Payload}

-----------------------------------------------------------------------------
(* Failures. *)

\* A call of the store raises: a check of the traversal fails, or the store
\* itself does, the report of a success included.
Raise(r) ==
    /\ pc[r] \notin {"idle", "recover", "over"}
    /\ Go(r, "recover") /\ mem' = [mem EXCEPT ![r] = Blank]
    /\ UNCHANGED <<store, mode, damage>>

\* _finish_pipeline_after_internal_error rewrites the row whatever it says.
Recover(r) ==
    /\ pc[r] = "recover" /\ Leave(r)
    /\ row' = "failed"
    /\ UNCHANGED <<trav, tasks, art, kept, final, ledger, budgetFrom, damage>>

\* The task fails for good (an undeclared transfer or an exhausted budget
\* included), or the run is cancelled.
Fail(r) ==
    /\ pc[r] = "running" /\ Leave(r)
    /\ row' \in {"failed", "interrupted"}
    /\ UNCHANGED <<trav, tasks, art, kept, final, ledger, budgetFrom, damage>>

Die(r) ==
    /\ pc[r] \notin {"idle", "over"} /\ Leave(r)
    /\ UNCHANGED <<store, damage>>

\* A payload disappears (the summary journal does not keep it at all), or the record of the traversal does.
Spoil(a) ==
    /\ spoils < MaxSpoils /\ a \in kept
    /\ spoils' = spoils + 1 /\ kept' = kept \ {a}
    /\ UNCHANGED <<row, trav, tasks, art, final, ledger, budgetFrom, pc, memory, losses>>

LoseTraversal ==
    /\ losses < MaxLosses /\ trav # NoTraversal
    /\ losses' = losses + 1 /\ trav' = NoTraversal
    /\ UNCHANGED <<row, tasks, art, kept, final, ledger, budgetFrom, pc, memory, spoils>>

Opening(r) == Start(r) \/ Skip(r) \/ Open(r) \/ Reset(r) \/ Repair(r) \/ Upsert(r)
Working(r) ==
    \/ BeginTask(r) \/ Attempt(r) \/ Retry(r) \/ Succeed(r) \/ Tell(r) \/ Fail(r)
    \/ RetryAllTasks(r)
    \/ \E to \in 0 .. END : \/ HandOver(r, to)
                            \/ \E op \in {"forward", "rewind"} : HandOverPayload(r, op, to)

Next ==
    \/ \E r \in Runs : Opening(r) \/ Working(r) \/ Raise(r) \/ Recover(r) \/ Die(r)
    \/ \E a \in Ids : Spoil(a)
    \/ LoseTraversal

Spec == Init /\ [][Next]_vars

-----------------------------------------------------------------------------
(* Properties. *)

Written(a) == art[a] # Nobody

\* Whatever is rewound, retried, restarted or lost, a visit is allocated once:
\* an entry that becomes the one under way had neither a task row nor an
\* output, and an artifact other than the seed is never written again.
AddressesAreFresh ==
    [][/\ trav' # NoTraversal /\ trav'.pending # NoEntry =>
            \/ trav # NoTraversal /\ trav.pending = trav'.pending
            \/ trav'.pending.at \notin tasks /\ ~Written(trav'.pending.at)
       /\ \A a \in Ids \ {Seed} : Written(a) => art'[a] = art[a]]_vars

\* A visit ends at most once, in an output or in a transfer, though two runs
\* may execute it: the slower one's commit is refused.
OneOutcome ==
    \A i \in 1 .. Len(ledger) :
        /\ ~Written(ledger[i].from)
        /\ \A j \in 1 .. i - 1 : ledger[j].from # ledger[i].from

\* The input of the entry that comes next is what this traversal made for it:
\* the seed, the output in effect of the task before, or the entry of its
\* newest transfer. Results behind the cursor are not in effect, and a run
\* whose commit would be accepted works on that input.
FollowsTraversal ==
    trav # NoTraversal =>
        /\ \/ trav.input = Seed /\ trav.cursor = 0
           \/ trav.cursor > 0 /\ trav.input = trav.active[trav.cursor - 1] /\ Written(trav.input)
           \/ ledger # <<>> /\ LET hop == ledger[Len(ledger)]
                               IN  /\ hop.version = trav.version
                                   /\ hop.to = trav.cursor /\ hop.entry = trav.input
        /\ \A s \in Stations : s >= trav.cursor => trav.active[s] = NoArtifact
        /\ \A r \in Runs : pc[r] = "running" /\ Owns(r) => mem[r].input = trav.pending.input

\* The transfers since the budget was last renewed, restarts of the process and
\* resets for a lost payload included, are counted and within the limit.
BudgetKept ==
    trav # NoTraversal =>
        /\ trav.handoffs <= Limit
        /\ trav.handoffs = Cardinality({i \in budgetFrom + 1 .. Len(ledger) : ledger[i].to # END})
=============================================================================
