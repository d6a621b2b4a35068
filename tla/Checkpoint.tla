----------------------------- MODULE Checkpoint -----------------------------
(***************************************************************************)
(* The life of one pipeline in the store, over several runs                *)
(* (src/pyattacker/runner.py and store/sqlite.py): how a run opens it from *)
(* its row, its artifacts and its handoff ledger, the durable writes of    *)
(* each task in their order, handoffs, and the repair of a finalization    *)
(* that did not complete.                                                  *)
(*                                                                         *)
(* An action is at most one transaction of the store, together with the    *)
(* changes of memory that follow it. Between any two of them the process   *)
(* may die, its worker may be cancelled, or the next call of the store may *)
(* raise, in which case the worker's handler rewrites the row.             *)
(*                                                                         *)
(* Abstractions.                                                           *)
(*  - A value is the execution it belongs to and the position it was made  *)
(*    for; the seed belongs to none.                                       *)
(*  - Task and attempt rows are left out: opening never reads them. So are *)
(*    retries, which leave row, artifacts and ledger as they were.         *)
(*  - Runs follow one another; which run owns a row is left out. Opening a *)
(*    `running' row needs an earlier run that died.                        *)
(*  - A write lands or raises. Statements whose commit raised are not      *)
(*    kept for the connection's next commit.                               *)
(*  - Pipelines that may go backward are opened otherwise and left out.    *)
(***************************************************************************)
EXTENDS Integers, Sequences, FiniteSets

CONSTANTS
    N,          \* tasks of the chain
    Edges,      \* what a control block declares: pairs of a task and a later
                \* one, or of a task and END
    MaxRuns, MaxFaults, MaxSpoils, MaxHops,     \* bounds
    Absent      \* no artifact

END == N        \* the cursor of a pipeline that is complete
Seed == -1      \* SEED_SEQ, the address of the seed's artifact

Addresses == Seed .. (N + MaxHops - 1)
Values == [epoch : 0 .. MaxRuns, at : 0 .. N]
Artifacts == [val : Values, payload : {"kept", "lost", "torn"}]

Rows == [state : {"absent", "running", "succeeded", "failed", "interrupted"},
         done : 0 .. N, floor : 0 .. MaxHops]
Handoffs == [to : 1 .. END, entry : Addresses, val : Values, epoch : 0 .. MaxRuns]
Inputs == [val : Values, addr : Addresses]

ASSUME ConstantsAssumption ==
    /\ N \in Nat \ {0}
    /\ Edges \subseteq (0 .. N - 1) \X (1 .. END)
    /\ \A e \in Edges : e[1] < e[2] /\ e # <<N - 1, END>>
    /\ MaxRuns \in Nat /\ MaxFaults \in Nat /\ MaxSpoils \in Nat /\ MaxHops \in Nat
    /\ Absent \notin Artifacts

VARIABLES
    control,    \* "control" if the pipeline declares a control block, or "none"
    \* the store
    row,        \* the pipeline's row: its state, n_tasks_done and handoff_floor
    art,        \* artifact at each address: seed, chain, payloads of handoffs
    final,      \* addresses of the artifacts with is_final
    ledger,     \* rows of the handoffs table, oldest first
    \* the run
    pc,
    mode,       \* which of retry_succeeded and fresh_restart the run was given
    seq,        \* _RunState.seq
    input,      \* _RunState.value and .artifact: a value and its address
    done,       \* record.n_tasks_done in memory
    \* the environment's bounds, and history
    runs, faults, spoils,
    epoch,      \* executions begun from the seed
    reached,    \* the furthest position that was ever committed in this one
    health      \* "clean" as long as this run meets no failure, then "hurt"

store == <<row, art, final, ledger>>
state == <<seq, input, done>>
bounds == <<runs, faults, spoils>>
vars == <<control, store, pc, mode, state, bounds, epoch, reached, health>>

SeedValue == [epoch |-> 0, at |-> 0]
Made(t) == [epoch |-> epoch, at |-> t]
Kept(v) == [val |-> v, payload |-> "kept"]

Max2(a, b) == IF a >= b THEN a ELSE b

TypeOK ==
    /\ control \in {"control", "none"}
    /\ row \in Rows
    /\ art \in [Addresses -> Artifacts \cup {Absent}]
    /\ final \subseteq Addresses
    /\ ledger \in Seq(Handoffs)
    /\ Len(ledger) <= MaxHops
    /\ pc \in {"off", "open", "repair", "settle", "check", "seed", "begin", "running",
               "stored", "cursor", "mark", "finish", "hopped", "told", "recover", "over"}
    /\ mode \subseteq {"retry", "fresh"}
    /\ seq \in 0 .. N - 1
    /\ input \in Inputs
    /\ done \in 0 .. N
    /\ runs \in 0 .. MaxRuns /\ faults \in 0 .. MaxFaults /\ spoils \in 0 .. MaxSpoils
    /\ epoch \in 0 .. MaxRuns
    /\ reached \in 0 .. N
    /\ health \in {"clean", "hurt"}

Init ==
    /\ control \in {"control", "none"}
    /\ row = [state |-> "absent", done |-> 0, floor |-> 0]
    /\ art = [a \in Addresses |-> Absent]
    /\ final = {}
    /\ ledger = <<>>
    /\ pc = "off" /\ mode = {} /\ seq = 0 /\ done = 0
    /\ input = [val |-> SeedValue, addr |-> Seed]
    /\ runs = 0 /\ faults = 0 /\ spoils = 0
    /\ epoch = 0 /\ reached = 0 /\ health = "clean"

-----------------------------------------------------------------------------
(* Transactions of the store. *)

\* upsert_pipeline and finish_pipeline, as far as the row is modelled
Write(s, n) == row' = [state |-> s, done |-> n, floor |-> row.floor]

\* Mutation of ResetPipeline: the newest row stays above the floor.
ResetBelowNewest ==
    /\ row' = [state |-> "running", done |-> 0, floor |-> Max2(Len(ledger) - 1, 0)]
    /\ art' = [a \in Addresses |-> IF a \in 0 .. N - 1 THEN Absent ELSE art[a]]
    /\ final' = {}

\* Mutation of ResetPipeline: the floor is left where it was.
ResetKeepingFloor ==
    /\ Write("running", 0)
    /\ art' = [a \in Addresses |-> IF a \in 0 .. N - 1 THEN Absent ELSE art[a]]
    /\ final' = {}

\* The chain's slots are deleted, no artifact is final any more, and the rows
\* that the ledger has by now are below the floor.
ResetPipeline ==
    /\ row' = [state |-> "running", done |-> 0, floor |-> Len(ledger)]
    /\ art' = [a \in Addresses |-> IF a \in 0 .. N - 1 THEN Absent ELSE art[a]]
    /\ final' = {}

-----------------------------------------------------------------------------
(* Runs. *)

\* A new process. If it resumes and the earlier run's heartbeat is stale,
\* interrupt_stale gives up the row that run left behind.
Start ==
    /\ pc = "off" /\ runs < MaxRuns
    /\ pc' = "open"
    /\ runs' = runs + 1
    /\ mode' \in SUBSET {"retry", "fresh"}
    /\ \/ UNCHANGED row
       \/ row.state = "running" /\ Write("interrupted", row.done)
    /\ done' = row.done
    /\ health' = "clean"
    /\ UNCHANGED <<art, final, ledger, seq, input, faults, spoils, epoch, reached>>

\* What a process forgets when it ends.
Forget ==
    /\ pc' = "off"
    /\ mode' = {} /\ seq' = 0 /\ done' = 0
    /\ input' = [val |-> SeedValue, addr |-> Seed]

\* The run ends, or the process dies in the middle of it.
Stop ==
    /\ pc # "off"
    /\ Forget
    /\ UNCHANGED <<store, bounds, epoch, reached, health>>

\* Between runs a blob is deleted, or its bytes no longer decode.
Spoil(a) ==
    /\ pc = "off" /\ spoils < MaxSpoils
    /\ art[a] # Absent /\ art[a].payload = "kept"
    /\ \E p \in {"lost", "torn"} : art' = [art EXCEPT ![a] = [val |-> art[a].val, payload |-> p]]
    /\ spoils' = spoils + 1
    /\ UNCHANGED <<row, final, ledger, pc, mode, state, runs, faults, epoch, reached, health>>

-----------------------------------------------------------------------------
(* Opening. *)

Usable(a) == art[a] # Absent /\ art[a].payload = "kept"

Resumable == row.state \in {"failed", "interrupted"} /\ "fresh" \notin mode

Newest == ledger[Len(ledger)]
Pending == Resumable /\ control = "control" /\ Len(ledger) > row.floor

\* The pipeline is at its end, by the ledger or by its cursor; the artifact
\* that has to be its result.
AtEnd == (Pending /\ Newest.to = END) \/ (Resumable /\ row.done >= N)
Result == IF Pending /\ Newest.to = END THEN Newest.entry ELSE N - 1
Settles == AtEnd /\ Usable(Result)

\* A result that is not usable rewinds the cursor in memory.
Cursor == IF AtEnd THEN 0 ELSE row.done

\* Mutation of ByHandoff: a cursor level with the hop wins.
ByHandoffAhead == Pending /\ Newest.to < END /\ Newest.to > Cursor

\* The ledger is ahead of the cursor: go on at the target of the newest hop.
ByHandoff == Pending /\ Newest.to < END /\ Newest.to >= Cursor
ByCursor == Resumable /\ ~ByHandoff /\ Cursor > 0
Position == IF ByHandoff THEN Newest.to ELSE Cursor
Entry == IF ByHandoff THEN Newest.entry ELSE Cursor - 1
Resumes == (ByHandoff \/ ByCursor) /\ Usable(Entry)

Skips == row.state = "succeeded" /\ "retry" \notin mode

\* The stored definition or seed differs: the run stops, the row is left.
Conflict ==
    /\ pc = "open" /\ row.state # "absent"
    /\ pc' = "over" /\ health' = "hurt"
    /\ UNCHANGED <<store, mode, state, bounds, epoch, reached>>

Skip ==
    /\ pc = "open" /\ Skips
    /\ pc' = "told"
    /\ UNCHANGED <<store, mode, state, bounds, epoch, reached, health>>

\* Mutation of OpenAtEnd: a final artifact is taken for a settled pipeline.
OpenAtEndUnsettled ==
    /\ pc = "open" /\ ~Skips /\ Settles
    /\ pc' = IF Result \in final THEN "told" ELSE "repair"
    /\ input' = [val |-> art[Result].val, addr |-> Result]
    /\ UNCHANGED <<store, mode, seq, done, bounds, epoch, reached, health>>

\* Repair, first half: mark_final comes next, unless it was done already.
OpenAtEnd ==
    /\ pc = "open" /\ ~Skips /\ Settles
    /\ pc' = IF Result \in final THEN "settle" ELSE "repair"
    /\ input' = [val |-> art[Result].val, addr |-> Result]
    /\ UNCHANGED <<store, mode, seq, done, bounds, epoch, reached, health>>

OpenAtCheckpoint ==
    /\ pc = "open" /\ ~Skips /\ ~Settles /\ Resumes
    /\ Write("running", Position)
    /\ done' = Position /\ seq' = Position
    /\ input' = [val |-> art[Entry].val, addr |-> Entry]
    /\ pc' = "check" /\ mode' = {}
    /\ reached' = Position
    /\ UNCHANGED <<art, final, ledger, bounds, epoch, health>>

OpenAtZero ==
    /\ pc = "open" /\ ~Skips /\ ~Settles /\ ~Resumes
    /\ IF control = "control" THEN ResetPipeline
                  ELSE Write("running", 0) /\ UNCHANGED <<art, final>>
    /\ done' = 0 /\ seq' = 0
    /\ input' = [val |-> SeedValue, addr |-> Seed]
    /\ pc' = "check" /\ mode' = {}
    /\ epoch' = epoch + 1 /\ reached' = 0
    /\ UNCHANGED <<ledger, bounds, health>>

\* _settle_terminal_cursor, second half. The two writes of the repair.
MarkRepair ==
    /\ pc = "repair"
    /\ final' = {input.addr}
    /\ pc' = "settle"
    /\ UNCHANGED <<row, art, ledger, mode, state, bounds, epoch, reached, health>>

Settle ==
    /\ pc = "settle"
    /\ Write("succeeded", N)
    /\ done' = N /\ reached' = N
    /\ pc' = "told"
    /\ UNCHANGED <<art, final, ledger, mode, seq, input, bounds, epoch, health>>

\* A failure of either is caught on the spot and leaves the row alone.
RepairFails ==
    /\ pc \in {"repair", "settle"} /\ faults < MaxFaults
    /\ faults' = faults + 1
    /\ pc' = "told" /\ health' = "hurt"
    /\ UNCHANGED <<store, mode, state, runs, spoils, epoch, reached>>

\* A pool that does not exist, or a store that cannot commit handoffs.
Refuse ==
    /\ pc = "check"
    /\ Write("failed", done)
    /\ pc' = "told" /\ health' = "hurt"
    /\ UNCHANGED <<art, final, ledger, mode, state, bounds, epoch, reached>>

Check ==
    /\ pc = "check"
    /\ pc' = "seed"
    /\ UNCHANGED <<store, mode, state, bounds, epoch, reached, health>>

\* The seed is stored again only if its bytes are gone.
StoreSeed ==
    /\ pc = "seed"
    /\ IF art[Seed] = Absent \/ art[Seed].payload = "lost"
       THEN art' = [art EXCEPT ![Seed] = Kept(SeedValue)] /\ final' = final \ {Seed}
       ELSE UNCHANGED <<art, final>>
    /\ pc' = "begin"
    /\ UNCHANGED <<row, ledger, mode, state, bounds, epoch, reached, health>>

-----------------------------------------------------------------------------
(* Tasks. *)

BeginTask ==
    /\ pc = "begin"
    /\ pc' = "running"
    /\ UNCHANGED <<store, mode, state, bounds, epoch, reached, health>>

\* The output's artifact; task row and attempt follow.
TaskSucceeds ==
    /\ pc = "running"
    /\ art' = [art EXCEPT ![seq] = Kept(Made(seq + 1))]
    /\ final' = final \ {seq}
    /\ pc' = "stored"
    /\ UNCHANGED <<row, ledger, mode, state, bounds, epoch, reached, health>>

TaskFails ==
    /\ pc = "running"
    /\ Write("failed", seq)
    /\ pc' = "told" /\ health' = "hurt"
    /\ UNCHANGED <<art, final, ledger, mode, state, bounds, epoch, reached>>

\* Mutation of Advance: the terminal row comes without the final mark.
AdvanceUnmarked ==
    /\ pc = "stored"
    /\ done' = seq + 1
    /\ pc' = IF seq + 1 < N THEN "cursor" ELSE "finish"
    /\ UNCHANGED <<store, mode, seq, input, bounds, epoch, reached, health>>

\* In memory the cursor moves before anything of it is written.
Advance ==
    /\ pc = "stored"
    /\ done' = seq + 1
    /\ pc' = IF seq + 1 < N THEN "cursor" ELSE "mark"
    /\ UNCHANGED <<store, mode, seq, input, bounds, epoch, reached, health>>

CommitCursor ==
    /\ pc = "cursor"
    /\ Write("running", done)
    /\ reached' = done
    /\ input' = [val |-> Made(seq + 1), addr |-> seq]
    /\ seq' = seq + 1
    /\ pc' = "begin"
    /\ UNCHANGED <<art, final, ledger, mode, done, bounds, epoch, health>>

MarkFinal ==
    /\ pc = "mark"
    /\ final' = {seq}
    /\ pc' = "finish"
    /\ UNCHANGED <<row, art, ledger, mode, state, bounds, epoch, reached, health>>

Finish ==
    /\ pc = "finish"
    /\ Write("succeeded", N)
    /\ reached' = N
    /\ pc' = "told"
    /\ UNCHANGED <<art, final, ledger, mode, state, bounds, epoch, health>>

\* One transaction: ledger row, entry artifact, cursor, and for END the final
\* mark and the terminal row.
CommitHandoff(t, addr, val) ==
    /\ pc = "running" /\ control = "control"
    /\ <<seq, t>> \in Edges /\ Len(ledger) < MaxHops
    /\ ledger' = Append(ledger, [to |-> t, entry |-> addr, val |-> val, epoch |-> epoch])
    /\ final' = IF t = END THEN {addr} ELSE final
    /\ Write(IF t = END THEN "succeeded" ELSE "running", t)
    /\ reached' = t
    /\ pc' = "hopped"
    /\ UNCHANGED <<mode, state, bounds, epoch, health>>

\* The target gets what this task got, at the same address.
HandOver(t) == CommitHandoff(t, input.addr, input.val) /\ UNCHANGED art

\* A payload gets a new address, behind the chain.
HandOverPayload(t) ==
    LET addr == N + Len(ledger)
    IN  CommitHandoff(t, addr, Made(t)) /\ art' = [art EXCEPT ![addr] = Kept(Made(t))]

\* The event was emitted: memory follows the transaction.
Land ==
    /\ pc = "hopped"
    /\ done' = Newest.to
    /\ IF Newest.to = END
       THEN pc' = "told" /\ UNCHANGED <<seq, input>>
       ELSE /\ pc' = "begin" /\ seq' = Newest.to
            /\ input' = [val |-> Newest.val, addr |-> Newest.entry]
    /\ UNCHANGED <<store, mode, bounds, epoch, reached, health>>

\* The last event is out; the worker takes its next item.
Told ==
    /\ pc = "told"
    /\ pc' = "over"
    /\ UNCHANGED <<store, mode, state, bounds, epoch, reached, health>>

-----------------------------------------------------------------------------
(* Failures. *)

InWorker == pc \notin {"off", "recover", "over"}

\* A call of the store raises, an emitted event's included.
StoreRaises ==
    /\ InWorker /\ pc \notin {"repair", "settle"} /\ faults < MaxFaults
    /\ faults' = faults + 1
    /\ pc' = "recover" /\ health' = "hurt"
    /\ UNCHANGED <<store, mode, state, runs, spoils, epoch, reached>>

\* _finish_pipeline_after_internal_error. While the pipeline was being opened
\* it writes the row's own cursor, later the one in memory. If it fails too the
\* run stops at once (Stop).
Recover ==
    /\ pc = "recover"
    /\ Write("failed", done)
    /\ reached' = Max2(reached, done)
    /\ pc' = "over"
    /\ UNCHANGED <<art, final, ledger, mode, state, bounds, epoch, health>>

\* A shutdown cancels the worker in the task's code, or drains a parked retry.
Interrupt ==
    /\ pc = "running"
    /\ Write("interrupted", done)
    /\ pc' = "over" /\ health' = "hurt"
    /\ UNCHANGED <<art, final, ledger, mode, state, bounds, epoch, reached>>

\* _terminalize_crashed_pipeline: the row decides, not what memory holds.
WorkerDies ==
    /\ InWorker
    /\ IF row.state \in {"succeeded", "failed", "interrupted"} THEN UNCHANGED row
       ELSE \E s \in {"failed", "interrupted"} : Write(s, row.done)
    /\ pc' = "over" /\ health' = "hurt"
    /\ UNCHANGED <<art, final, ledger, mode, state, bounds, epoch, reached>>

-----------------------------------------------------------------------------
Open == Conflict \/ Skip \/ OpenAtEnd \/ OpenAtCheckpoint \/ OpenAtZero
Repair == MarkRepair \/ Settle \/ RepairFails
Work ==
    \/ Refuse \/ Check \/ StoreSeed \/ BeginTask \/ TaskSucceeds \/ TaskFails \/ Advance
    \/ CommitCursor \/ MarkFinal \/ Finish \/ Land \/ Told
    \/ \E t \in 1 .. END : HandOver(t) \/ HandOverPayload(t)
Failure == StoreRaises \/ Recover \/ Interrupt \/ WorkerDies

Next ==
    /\ \/ Start \/ Stop \/ \E a \in Addresses : Spoil(a)
       \/ Open \/ Repair \/ Work \/ Failure
    /\ UNCHANGED control

Spec == Init /\ [][Next]_vars

-----------------------------------------------------------------------------
(* Properties. *)

Of(v) == v = SeedValue \/ v.epoch = epoch

\* Whatever the earlier runs left behind, a task gets the value that was made
\* for it in the execution that is under way: its predecessor's output, the
\* seed, or what a handoff of this execution carried to it. The artifact that
\* is recorded as its input holds that value.
InputFits ==
    pc \in {"begin", "running"} =>
        /\ \/ input.val = SeedValue /\ seq = 0
           \/ input.val = Made(seq)
           \/ \E i \in 1 .. Len(ledger) : /\ ledger[i].epoch = epoch /\ ledger[i].to = seq
                                          /\ ledger[i].val = input.val
        /\ art[input.addr] # Absent /\ art[input.addr].val = input.val

\* The furthest committed position can still be entered: the value it needs is
\* there. Where a handoff led to it, that is the handoff's entry and no other
\* artifact, even if an earlier task once left one in its place.
Hops == {i \in 1 .. Len(ledger) : ledger[i].epoch = epoch /\ ledger[i].to = reached}
Continuable ==
    \/ \E i \in Hops : Usable(ledger[i].entry)
    \/ reached > 0 /\ Hops = {} /\ Usable(reached - 1) /\ art[reached - 1].val = Made(reached)

\* A run opens a pipeline no earlier than at the furthest position that any run
\* committed, unless it was told to start over, the row had succeeded and is
\* run again, nobody claimed the row of a run that died, or the value that the
\* position needs is gone.
NothingIsRepeated ==
    [][pc = "open" /\ pc' = "check" =>
          \/ done' >= reached
          \/ "fresh" \in mode
          \/ row.state \in {"succeeded", "running"}
          \/ ~Continuable]_vars

\* A succeeded pipeline has one final artifact, and it is the result of the
\* execution that succeeded: the last task's output, or what END was given.
\* Nobody repairs a succeeded row, so this must hold from the first moment.
SuccessIsWhole ==
    row.state = "succeeded" =>
        \E a \in Addresses :
            /\ final = {a} /\ art[a] # Absent
            /\ Of(art[a].val)
            /\ \/ a = N - 1 /\ art[a].val = Made(N)
               \/ \E i \in 1 .. Len(ledger) : /\ ledger[i].epoch = epoch
                                              /\ ledger[i].to = END /\ ledger[i].entry = a

\* No stored state is a dead end: a run that meets no failure of its own leaves
\* the pipeline succeeded, however the earlier runs ended.
CleanRunSucceeds == pc = "over" /\ health = "clean" => row.state = "succeeded"

\* Ledger rows above the floor belong to the execution under way, those of
\* earlier ones are below it.
FloorSeparates ==
    \A i \in 1 .. Len(ledger) : (i > row.floor) <=> (ledger[i].epoch = epoch)
=============================================================================
