-------------------------- MODULE CheckpointProofs --------------------------
(***************************************************************************)
(* Proofs about Checkpoint, for a chain of any length, any declared edges, *)
(* and any number of runs, failing calls, lost payloads and handoffs.      *)
(*                                                                         *)
(* That a task gets the value made for it is not inductive: it rests on    *)
(* what the row promises while nobody looks. The cursor promises that its  *)
(* predecessor's output is stored, unless a newer handoff outranks it      *)
(* (CursorInv); a handoff promises that its entry is stored and that no    *)
(* later task overwrites it (EntryInv); the floor tells the handoffs of    *)
(* this execution from older ones (LedgerInv); and at each point of a run  *)
(* memory and row differ in a known way (WorkInv).                         *)
(***************************************************************************)
EXTENDS Checkpoint, TLAPS

\* The history variables count within the bounds, and the program points that
\* index the chain are inside it.
BoundInv ==
    /\ epoch <= runs
    /\ pc = "open" => epoch < runs
    /\ pc = "cursor" => seq + 1 < N
    /\ pc = "hopped" => Len(ledger) > 0

LedgerInv ==
    /\ row.floor <= Len(ledger)
    /\ control = "none" => ledger = <<>>
    /\ \A i \in 1 .. Len(ledger) : ledger[i].epoch <= epoch
    /\ FloorSeparates

Holds(a, v) == art[a] # Absent /\ art[a].val = v

\* What a handoff of this execution promises.
EntryInv ==
    \A i \in 1 .. Len(ledger) : ledger[i].epoch = epoch =>
        /\ Holds(ledger[i].entry, ledger[i].val)
        /\ ledger[i].entry < N + i
        /\ ledger[i].entry < N => ledger[i].entry < ledger[i].to
        /\ \A j \in 1 .. i - 1 : ledger[j].epoch = epoch => ledger[j].to < ledger[i].to

SeedInv == art[Seed] # Absent => art[Seed].val = SeedValue

\* What a cursor of k promises.
Promised(k) ==
    k > 0 => \/ Len(ledger) > row.floor /\ Newest.to >= k
             \/ Holds(k - 1, Made(k))

CursorInv ==
    /\ Promised(row.done)
    /\ Promised(done)
    /\ pc \in {"repair", "settle"} => Promised(N)

Fits(v, s) ==
    \/ v = SeedValue /\ s = 0
    \/ v = Made(s)
    \/ \E i \in 1 .. Len(ledger) : /\ ledger[i].epoch = epoch /\ ledger[i].to = s
                                   /\ ledger[i].val = v

Entering == {"check", "seed", "begin", "running"}
Leaving == {"stored", "cursor", "mark", "finish"}

\* Where the work of a run is, in memory and in the store.
WorkInv ==
    /\ pc \in Entering \cup Leaving =>
          /\ row.done = seq
          /\ \A i \in 1 .. Len(ledger) : ledger[i].epoch = epoch => ledger[i].to <= seq
    /\ pc \in Entering =>
          /\ done = seq
          /\ Fits(input.val, seq)
          /\ input.addr < N => input.addr < seq
          /\ input.addr < N + Len(ledger)
          /\ IF input.addr = Seed THEN input.val = SeedValue
                                  ELSE Holds(input.addr, input.val)
    /\ pc \in {"begin", "running", "hopped"} \cup Leaving => art[Seed] # Absent
    /\ pc \in Leaving =>
          /\ Holds(seq, Made(seq + 1))
          /\ done = IF pc = "stored" THEN seq ELSE seq + 1
    /\ pc \in {"mark", "finish"} => seq + 1 = N
    /\ pc = "hopped" =>
          /\ Len(ledger) > row.floor
          /\ row.done = Newest.to
          /\ done = seq /\ seq < Newest.to

StoreInv == LedgerInv /\ EntryInv /\ SeedInv /\ CursorInv /\ WorkInv
-----------------------------------------------------------------------------
(* Types *)

LEMMA InitTypes == Init => TypeOK /\ BoundInv
  BY ConstantsAssumption DEF Init, TypeOK, BoundInv, Seed, SeedValue, Values, Addresses, Rows, Inputs, END

\* A write of the row keeps its floor.
LEMMA WriteFacts ==
    ASSUME TypeOK, NEW s \in {"running", "succeeded", "failed", "interrupted"},
           NEW n \in 0 .. N, Write(s, n)
    PROVE  row' \in Rows /\ row'.state = s /\ row'.done = n /\ row'.floor = row.floor
  BY DEF TypeOK, Rows, Write

LEMMA ValueFacts ==
    ASSUME TypeOK
    PROVE  /\ SeedValue \in Values
           /\ \A t \in 0 .. N : Made(t) \in Values
           /\ \A v \in Values : Kept(v) \in Artifacts
  BY ConstantsAssumption DEF TypeOK, SeedValue, Made, Kept, Values, Artifacts

LEMMA NewestFacts ==
    ASSUME TypeOK, Len(ledger) > 0
    PROVE  /\ Newest \in Handoffs
           /\ Newest.to \in 1 .. N /\ Newest.entry \in Addresses
           /\ Newest.val \in Values /\ Newest.epoch \in 0 .. MaxRuns
<1>1. Newest \in Handoffs
  BY DEF TypeOK, Newest
<1> QED
  BY <1>1 DEF Handoffs, END

LEMMA RowFacts ==
    ASSUME TypeOK
    PROVE  /\ row.state \in {"absent", "running", "succeeded", "failed", "interrupted"}
           /\ row.done \in 0 .. N /\ row.floor \in 0 .. MaxHops
           /\ input.val \in Values /\ input.addr \in Addresses
           /\ Len(ledger) \in Nat
  BY DEF TypeOK, Rows, Inputs

LEMMA PendingFacts ==
    ASSUME TypeOK, Pending
    PROVE  Len(ledger) > 0 /\ Len(ledger) > row.floor
  BY RowFacts DEF Pending

\* Opening never goes beyond the chain or looks outside the store.
LEMMA ResultFacts ==
    ASSUME TypeOK
    PROVE  Result \in Addresses
<1>1. CASE Pending /\ Newest.to = END
  BY <1>1, PendingFacts, NewestFacts DEF Result
<1>2. CASE ~(Pending /\ Newest.to = END)
  BY <1>2, ConstantsAssumption DEF Result, Addresses, Seed
<1> QED
  BY <1>1, <1>2

LEMMA PositionFacts ==
    ASSUME TypeOK, ByHandoff \/ ByCursor
    PROVE  Position \in 1 .. N - 1 /\ Entry \in Addresses
<1>1. CASE ByHandoff
  <2>1. Newest.to \in 1 .. N /\ Newest.entry \in Addresses /\ Newest.to < N
    BY <1>1, PendingFacts, NewestFacts DEF ByHandoff, END
  <2> QED
    BY <1>1, <2>1, ConstantsAssumption DEF Position, Entry
<1>2. CASE ~ByHandoff
  <2>1. Resumable /\ Cursor > 0
    BY <1>2 DEF ByCursor
  <2>2. Cursor = row.done /\ row.done \in 1 .. N - 1
    BY <2>1, RowFacts, ConstantsAssumption DEF Cursor, AtEnd
  <2> QED
    BY <1>2, <2>2, ConstantsAssumption DEF Position, Entry, Addresses, Seed
<1> QED
  BY <1>1, <1>2

LEMMA StepTypes ==
    ASSUME TypeOK, BoundInv, [Next]_vars
    PROVE  TypeOK' /\ BoundInv'
<1> USE ConstantsAssumption DEF TypeOK, BoundInv, store, state, bounds
<1>0. CASE UNCHANGED vars
  BY <1>0 DEF vars
<1>1. CASE Start /\ UNCHANGED control
  <2>1. row' \in Rows /\ done' \in 0 .. N
    BY <1>1, WriteFacts DEF Start, Rows
  <2> QED
    BY <1>1, <2>1 DEF Start
<1>2. CASE Stop /\ UNCHANGED control
  BY <1>2, ValueFacts DEF Stop, Forget, Inputs, Addresses, Seed
<1>3. CASE Conflict /\ UNCHANGED control
  BY <1>3 DEF Conflict
<1>4. CASE Skip /\ UNCHANGED control
  BY <1>4 DEF Skip
<1>5. CASE OpenAtEnd /\ UNCHANGED control
  <2>1. art[Result] \in Artifacts /\ Result \in Addresses
    BY <1>5, ResultFacts DEF OpenAtEnd, Settles, Usable
  <2>2. input' \in Inputs
    BY <1>5, <2>1 DEF OpenAtEnd, Artifacts, Inputs
  <2> QED
    BY <1>5, <2>2 DEF OpenAtEnd
<1>6. CASE OpenAtCheckpoint /\ UNCHANGED control
  <2>1. Position \in 1 .. N - 1 /\ art[Entry] \in Artifacts /\ Entry \in Addresses
    BY <1>6, PositionFacts DEF OpenAtCheckpoint, Resumes, Usable
  <2>2. input' \in Inputs
    BY <1>6, <2>1 DEF OpenAtCheckpoint, Artifacts, Inputs
  <2>3. row' \in Rows
    BY <1>6, <2>1, WriteFacts DEF OpenAtCheckpoint
  <2> QED
    BY <1>6, <2>1, <2>2, <2>3 DEF OpenAtCheckpoint
<1>7. CASE OpenAtZero /\ UNCHANGED control
  <2>1. row' \in Rows
    BY <1>7, WriteFacts DEF OpenAtZero, ResetPipeline, Rows
  <2>2. art' \in [Addresses -> Artifacts \cup {Absent}] /\ final' \subseteq Addresses
    BY <1>7 DEF OpenAtZero, ResetPipeline
  <2>3. input' \in Inputs
    BY <1>7, ValueFacts DEF OpenAtZero, Inputs, Addresses, Seed
  <2> QED
    BY <1>7, <2>1, <2>2, <2>3 DEF OpenAtZero
<1>8. CASE RepairFails /\ UNCHANGED control
  BY <1>8 DEF RepairFails
<1>9. CASE MarkRepair /\ UNCHANGED control
  BY <1>9 DEF MarkRepair, Inputs, Addresses, Seed
<1>10. CASE Settle /\ UNCHANGED control
  BY <1>10, WriteFacts DEF Settle
<1>11. CASE Refuse /\ UNCHANGED control
  BY <1>11, WriteFacts DEF Refuse
<1>12. CASE Check /\ UNCHANGED control
  BY <1>12 DEF Check
<1>13. CASE StoreSeed /\ UNCHANGED control
  <2>1. art' \in [Addresses -> Artifacts \cup {Absent}] /\ final' \subseteq Addresses
    BY <1>13, ValueFacts DEF StoreSeed
  <2> QED
    BY <1>13, <2>1 DEF StoreSeed
<1>14. CASE BeginTask /\ UNCHANGED control
  BY <1>14 DEF BeginTask
<1>15. CASE TaskSucceeds /\ UNCHANGED control
  <2>1. art' \in [Addresses -> Artifacts \cup {Absent}]
    <3>1. Made(seq + 1) \in Values
      BY ValueFacts
    <3>2. Kept(Made(seq + 1)) \in Artifacts
      BY <3>1, ValueFacts
    <3> QED
      BY <1>15, <3>2 DEF TaskSucceeds
  <2> QED
    BY <1>15, <2>1 DEF TaskSucceeds
<1>16. CASE TaskFails /\ UNCHANGED control
  BY <1>16, WriteFacts DEF TaskFails
<1>17. CASE Advance /\ UNCHANGED control
  BY <1>17 DEF Advance
<1>18. CASE CommitCursor /\ UNCHANGED control
  <2>1. row' \in Rows
    BY <1>18, WriteFacts DEF CommitCursor
  <2>2. input' \in Inputs
    <3>1. Made(seq + 1) \in Values /\ seq \in Addresses
      BY ValueFacts DEF Addresses, Seed
    <3> QED
      BY <1>18, <3>1 DEF CommitCursor, Inputs
  <2> QED
    BY <1>18, <2>1, <2>2 DEF CommitCursor
<1>19. CASE MarkFinal /\ UNCHANGED control
  BY <1>19 DEF MarkFinal, Inputs, Addresses, Seed
<1>20. CASE Finish /\ UNCHANGED control
  BY <1>20, WriteFacts DEF Finish
<1>21. CASE Land /\ UNCHANGED control
  <2>1. Newest \in Handoffs
    BY <1>21 DEF Land, Newest
  <2> QED
    BY <1>21, <2>1 DEF Land, Handoffs, Inputs, END
<1>22. CASE Told /\ UNCHANGED control
  BY <1>22 DEF Told
<1>23. CASE StoreRaises /\ UNCHANGED control
  BY <1>23 DEF StoreRaises, InWorker
<1>24. CASE Recover /\ UNCHANGED control
  BY <1>24, WriteFacts DEF Recover, Max2
<1>25. CASE Interrupt /\ UNCHANGED control
  BY <1>25, WriteFacts DEF Interrupt
<1>26. CASE WorkerDies /\ UNCHANGED control
  <2>1. row' \in Rows
    BY <1>26, WriteFacts DEF WorkerDies, Rows
  <2> QED
    BY <1>26, <2>1 DEF WorkerDies, InWorker
<1>27. ASSUME NEW a \in Addresses, Spoil(a), UNCHANGED control PROVE TypeOK' /\ BoundInv'
  <2>1. PICK p \in {"lost", "torn"} : art' = [art EXCEPT ![a] = [val |-> art[a].val, payload |-> p]]
    BY <1>27 DEF Spoil
  <2>2. [val |-> art[a].val, payload |-> p] \in Artifacts
    BY <1>27, <2>1 DEF Spoil, Artifacts
  <2>3. art' \in [Addresses -> Artifacts \cup {Absent}]
    BY <2>1, <2>2
  <2> QED
    BY <1>27, <2>3 DEF Spoil
<1>28. ASSUME NEW t \in 1 .. END, HandOver(t) \/ HandOverPayload(t), UNCHANGED control
       PROVE TypeOK' /\ BoundInv'
  <2> DEFINE At(addr, v) == [to |-> t, entry |-> addr, val |-> v, epoch |-> epoch]
  <2>1. PICK addr \in Addresses, v \in Values :
          /\ CommitHandoff(t, addr, v)
          /\ art' = art \/ art' = [art EXCEPT ![addr] = Kept(v)]
    <3>1. CASE HandOver(t)
      BY <3>1, RowFacts DEF HandOver
    <3>2. CASE HandOverPayload(t)
      <4>1. Len(ledger) < MaxHops /\ Made(t) \in Values
        BY <3>2, ValueFacts DEF HandOverPayload, CommitHandoff, END
      <4>2. N + Len(ledger) \in Addresses
        BY <4>1, RowFacts DEF Addresses, Seed
      <4> QED
        BY <3>2, <4>1, <4>2 DEF HandOverPayload
    <3> QED
      BY <1>28, <3>1, <3>2
  <2>2. At(addr, v) \in Handoffs
    BY DEF Handoffs
  <2>3. ledger' \in Seq(Handoffs) /\ Len(ledger') = Len(ledger) + 1
    BY <2>1, <2>2 DEF CommitHandoff
  <2>4. art' \in [Addresses -> Artifacts \cup {Absent}]
    BY <2>1, ValueFacts
  <2>5. row' \in Rows
    BY <2>1, WriteFacts DEF CommitHandoff, END
  <2>6. /\ Len(ledger') <= MaxHops /\ Len(ledger') > 0
        /\ reached' \in 0 .. N /\ pc' = "hopped"
        /\ UNCHANGED <<control, mode, seq, input, done, runs, faults, spoils, epoch, health>>
    BY <1>28, <2>1, <2>3, RowFacts DEF CommitHandoff, END
  <2>7. final' \subseteq Addresses
    BY <2>1 DEF CommitHandoff
  <2> QED
    BY <2>3, <2>4, <2>5, <2>6, <2>7
<1> QED
  BY <1>0, <1>1, <1>2, <1>3, <1>4, <1>5, <1>6, <1>7, <1>8, <1>9, <1>10, <1>11, <1>12, <1>13, <1>14, <1>15, <1>16, <1>17, <1>18, <1>19, <1>20, <1>21, <1>22, <1>23, <1>24, <1>25, <1>26, <1>27, <1>28 DEF Next, Open, Repair, Work, Failure

\* A run's types hold in every state of it.
THEOREM TypeCorrect == Spec => []TypeOK
<1>1. Init => TypeOK /\ BoundInv
  BY InitTypes
<1>2. TypeOK /\ BoundInv /\ [Next]_vars => TypeOK' /\ BoundInv'
  BY StepTypes
<1> QED
  BY <1>1, <1>2, PTL DEF Spec

-----------------------------------------------------------------------------
(* What steps keep *)

LEMMA InitStore == Init => StoreInv
<1> SUFFICES ASSUME Init PROVE StoreInv
  OBVIOUS
<1>1. ledger = <<>> /\ Len(ledger) = 0
  BY DEF Init
<1>2. LedgerInv /\ EntryInv
  BY <1>1 DEF Init, LedgerInv, FloorSeparates, EntryInv
<1>3. SeedInv
  BY ConstantsAssumption DEF Init, SeedInv, Seed, Addresses
<1>4. CursorInv
  BY DEF Init, CursorInv, Promised
<1>5. WorkInv
  BY DEF Init, WorkInv, Entering, Leaving
<1> QED
  BY <1>2, <1>3, <1>4, <1>5 DEF StoreInv

LEMMA AddressFacts ==
    /\ Addresses = -1 .. N + MaxHops - 1
    /\ Seed = -1 /\ Seed \in Addresses
    /\ 0 .. N - 1 \subseteq Addresses
  BY ConstantsAssumption DEF Addresses, Seed

LEMMA StoredFacts ==
    ASSUME TypeOK
    PROVE  \A v \in Values : Kept(v) # Absent /\ Kept(v).val = v
  BY ValueFacts, ConstantsAssumption DEF Kept

LEMMA LedgerFacts ==
    ASSUME TypeOK, NEW i \in 1 .. Len(ledger)
    PROVE  /\ ledger[i].to \in 1 .. N /\ ledger[i].entry \in Addresses
           /\ ledger[i].val \in Values /\ ledger[i].epoch \in 0 .. MaxRuns
<1>1. ledger[i] \in Handoffs
  BY DEF TypeOK
<1> QED
  BY <1>1 DEF Handoffs, END

\* A step that leaves ledger, floor and execution alone, and overwrites no value
\* that somebody relies on, keeps every promise.
Keeps(a) == art[a] # Absent => art'[a] # Absent /\ art'[a].val = art[a].val

Frame == UNCHANGED <<control, ledger, epoch>> /\ row'.floor = row.floor

LEMMA FrameKeepsLedger ==
    ASSUME LedgerInv, Frame
    PROVE  LedgerInv'
  BY DEF LedgerInv, FloorSeparates, Frame

LEMMA FrameKeepsEntries ==
    ASSUME EntryInv, Frame,
           \A i \in 1 .. Len(ledger) : ledger[i].epoch = epoch => Keeps(ledger[i].entry)
    PROVE  EntryInv'
  BY DEF EntryInv, Frame, Holds, Keeps

LEMMA FrameKeepsPromise ==
    ASSUME Frame, NEW k \in 0 .. N, Promised(k), k > 0 => Keeps(k - 1)
    PROVE  Promised(k)'
  BY DEF Promised, Frame, Holds, Keeps, Made, Newest

LEMMA FrameKeepsFits ==
    ASSUME Frame, NEW v, NEW s, Fits(v, s)
    PROVE  Fits(v, s)'
  BY DEF Fits, Frame, Made, SeedValue

\* Most steps leave the artifacts alone too.
LEMMA QuietStep ==
    ASSUME StoreInv, Frame, art' = art
    PROVE  /\ LedgerInv' /\ EntryInv' /\ SeedInv'
           /\ \A k \in 0 .. N : Promised(k) => Promised(k)'
           /\ \A v, s : Fits(v, s) => Fits(v, s)'
           /\ \A a, v : Holds(a, v) => Holds(a, v)'
<1>1. \A a : Keeps(a)
  BY DEF Keeps
<1> QED
  BY <1>1, FrameKeepsLedger, FrameKeepsEntries, FrameKeepsPromise, FrameKeepsFits
     DEF StoreInv, SeedInv, Holds

-----------------------------------------------------------------------------
(* Quiet steps: those that leave artifacts, ledger, floor and execution alone *)

\* What the ends of opening promise.
LEMMA AtEndPromises ==
    ASSUME TypeOK, StoreInv, AtEnd
    PROVE  Promised(N)
<1>1. CASE Pending /\ Newest.to = END
  BY <1>1, PendingFacts, ConstantsAssumption DEF Promised, END
<1>2. CASE Resumable /\ row.done >= N
  <2>1. row.done = N
    BY <1>2, RowFacts, ConstantsAssumption
  <2> QED
    BY <2>1 DEF StoreInv, CursorInv
<1> QED
  BY <1>1, <1>2 DEF AtEnd

\* The newest handoff of an execution went furthest.
LEMMA NewestIsFurthest ==
    ASSUME TypeOK, StoreInv, NEW i \in 1 .. Len(ledger), ledger[i].epoch = epoch
    PROVE  Len(ledger) > row.floor /\ Newest.epoch = epoch /\ ledger[i].to <= Newest.to
<1>1. i > row.floor /\ Len(ledger) > row.floor /\ Len(ledger) \in 1 .. Len(ledger)
  BY RowFacts DEF StoreInv, LedgerInv, FloorSeparates
<1>2. Newest.epoch = epoch
  BY <1>1 DEF StoreInv, LedgerInv, FloorSeparates, Newest
<1>3. CASE i = Len(ledger)
  BY <1>1, <1>2, <1>3, NewestFacts DEF Newest
<1>4. CASE i < Len(ledger)
  <2>1. ledger[i].to < ledger[Len(ledger)].to
    BY <1>1, <1>2, <1>4, RowFacts DEF StoreInv, EntryInv, Newest
  <2> QED
    BY <1>1, <1>2, <2>1, NewestFacts, LedgerFacts DEF Newest
<1> QED
  BY <1>1, <1>3, <1>4, RowFacts

\* Where opening goes on, the value it takes is the one made for that position,
\* and no task from there on overwrites it.
LEMMA OpeningFits ==
    ASSUME TypeOK, StoreInv, ByHandoff \/ ByCursor, Usable(Entry)
    PROVE  /\ Promised(Position)
           /\ Fits(art[Entry].val, Position)
           /\ \A i \in 1 .. Len(ledger) : ledger[i].epoch = epoch => ledger[i].to <= Position
           /\ Entry < N => Entry < Position
           /\ Entry < N + Len(ledger)
           /\ Entry = Seed => art[Entry].val = SeedValue
<1>1. CASE ByHandoff
  <2> DEFINE n == Len(ledger)
  <2>1. Pending /\ Position = Newest.to /\ Entry = Newest.entry
    BY <1>1 DEF ByHandoff, Position, Entry
  <2>2. n \in 1 .. n /\ n > row.floor
    BY <2>1, PendingFacts, RowFacts
  <2>3. ledger[n].epoch = epoch
    BY <2>2 DEF StoreInv, LedgerInv, FloorSeparates
  <2>4. Promised(Position)
    BY <2>1, <2>2, NewestFacts DEF Promised
  <2>5. /\ Holds(Newest.entry, Newest.val)
        /\ Newest.entry < N + n
        /\ Newest.entry < N => Newest.entry < Newest.to
    BY <2>2, <2>3 DEF StoreInv, EntryInv, Newest
  <2>6. Fits(art[Entry].val, Position)
    BY <2>1, <2>2, <2>3, <2>5 DEF Fits, Holds, Newest
  <2>7. Entry = Seed => art[Entry].val = SeedValue
    BY <2>1, <2>5 DEF StoreInv, SeedInv, Holds
  <2> QED
    BY <2>1, <2>4, <2>5, <2>6, <2>7, NewestIsFurthest
<1>2. CASE ~ByHandoff
  <2>1. ~AtEnd /\ Resumable /\ Cursor = row.done /\ row.done \in 1 .. N - 1
        /\ Position = row.done /\ Entry = row.done - 1
    BY <1>2, RowFacts, ConstantsAssumption DEF ByCursor, Cursor, AtEnd, Position, Entry
  <2>2. Len(ledger) > row.floor => Pending
    <3>1. control = "none" => Len(ledger) = 0
      BY DEF StoreInv, LedgerInv
    <3> QED
      BY <2>1, <3>1, RowFacts DEF TypeOK, Pending
  <2>3. Len(ledger) > row.floor => Newest.to < row.done
    <3> SUFFICES ASSUME Len(ledger) > row.floor PROVE Newest.to < row.done
      OBVIOUS
    <3>1. Pending /\ Newest.to \in 1 .. N
      BY <2>2, PendingFacts, NewestFacts
    <3>2. Newest.to < N
      BY <2>1, <3>1, ConstantsAssumption DEF AtEnd, END
    <3> QED
      BY <1>2, <2>1, <3>1, <3>2 DEF ByHandoff, END
  <2>4. Promised(row.done)
    BY DEF StoreInv, CursorInv
  <2>5. Holds(row.done - 1, Made(row.done))
    BY <2>1, <2>3, <2>4, RowFacts, NewestFacts DEF Promised
  <2>6. \A i \in 1 .. Len(ledger) : ledger[i].epoch = epoch => ledger[i].to <= Position
    BY <2>1, <2>3, NewestIsFurthest, LedgerFacts, NewestFacts, RowFacts
  <2>7. Fits(art[Entry].val, Position)
    BY <2>1, <2>5 DEF Fits, Holds
  <2>8. Entry < Position /\ Entry < N + Len(ledger) /\ Entry # Seed
    BY <2>1, RowFacts, ConstantsAssumption DEF Seed
  <2> QED
    BY <2>1, <2>4, <2>6, <2>7, <2>8
<1> QED
  BY <1>1, <1>2

\* How the row and the memory of a quiet step keep their promises.
LEMMA QuietCursor ==
    ASSUME TypeOK, StoreInv, Frame, art' = art,
           NEW r \in 0 .. N, NEW d \in 0 .. N, row'.done = r, done' = d,
           Promised(r), Promised(d), pc' \in {"repair", "settle"} => Promised(N)
    PROVE  CursorInv'
<1>1. N \in 0 .. N
  BY ConstantsAssumption
<1>2. Promised(r)' /\ Promised(d)' /\ (pc' \in {"repair", "settle"} => Promised(N)')
  BY <1>1, QuietStep
<1> QED
  BY <1>2 DEF CursorInv, Promised

\* Between opening and the task's code, nothing that the work rests on moves.
LEMMA QuietWork ==
    ASSUME TypeOK, StoreInv, Frame, art' = art, UNCHANGED <<row, seq, input, done>>,
           pc \in Entering, pc' \in Entering,
           pc' \in {"begin", "running"} => pc \in {"begin", "running"}
    PROVE  WorkInv'
<1>1. Fits(input.val, seq) /\ Fits(input.val, seq)'
  <2>1. Fits(input.val, seq)
    BY DEF StoreInv, WorkInv
  <2> QED
    BY <2>1 DEF Fits, Frame, Made, SeedValue
<1>2. /\ row'.done = seq'
      /\ \A i \in 1 .. Len(ledger') : ledger'[i].epoch = epoch' => ledger'[i].to <= seq'
  BY DEF StoreInv, WorkInv, Frame
<1>3. /\ done' = seq'
      /\ input'.addr < N => input'.addr < seq'
      /\ input'.addr < N + Len(ledger')
      /\ IF input'.addr = Seed THEN input'.val = SeedValue
                               ELSE Holds(input.addr, input.val)'
  BY DEF StoreInv, WorkInv, Frame, Holds
<1>4. pc' \in {"begin", "running"} => art'[Seed] # Absent
  BY DEF StoreInv, WorkInv
<1>5. pc' \notin Leaving /\ pc' \notin {"mark", "finish", "hopped"}
  BY DEF Entering, Leaving
<1> QED
  BY <1>1, <1>2, <1>3, <1>4, <1>5 DEF WorkInv

\* At the other program points the work promises nothing.
Idle == {"off", "open", "repair", "settle", "told", "recover", "over"}

LEMMA IdleWork ==
    ASSUME pc' \in Idle
    PROVE  WorkInv'
  BY DEF WorkInv, Idle, Entering, Leaving
LEMMA StepStore ==
    ASSUME TypeOK, BoundInv, StoreInv, [Next]_vars
    PROVE  StoreInv'
<1> USE DEF store, state, bounds
<1>0. CASE UNCHANGED vars
  <2>1. Frame /\ art' = art /\ UNCHANGED <<pc, row, seq, input, done>>
    BY <1>0 DEF vars, Frame
  <2>2. CursorInv'
    BY <2>1, QuietCursor, RowFacts DEF StoreInv, CursorInv, TypeOK
  <2>3. WorkInv'
    BY <1>0 DEF vars, StoreInv, WorkInv, Fits, Holds, Made, SeedValue, Newest
  <2> QED
    BY <2>1, <2>2, <2>3, QuietStep DEF StoreInv
<1>1. CASE Start /\ UNCHANGED control
  <2>1. Frame /\ art' = art /\ row'.done = row.done /\ done' = row.done /\ pc' \in Idle
    BY <1>1, WriteFacts, RowFacts DEF Start, Frame, Idle
  <2>2. row.done \in 0 .. N /\ row.done \in 0 .. N /\ Promised(row.done) /\ Promised(row.done)
    BY <1>1, RowFacts, ConstantsAssumption DEF Start, TypeOK, StoreInv, CursorInv, WorkInv, Entering, Leaving, Promised
  <2>3. pc' \in {"repair", "settle"} => Promised(N)
    BY <1>1 DEF Start, StoreInv, CursorInv
  <2>4. CursorInv'
    BY <2>1, <2>2, <2>3, QuietCursor
  <2> QED
    BY <2>1, <2>4, QuietStep, IdleWork DEF StoreInv
<1>2. CASE Stop /\ UNCHANGED control
  <2>1. Frame /\ art' = art /\ row'.done = row.done /\ done' = 0 /\ pc' \in Idle
    BY <1>2, WriteFacts, RowFacts DEF Stop, Forget, Frame, Idle
  <2>2. row.done \in 0 .. N /\ 0 \in 0 .. N /\ Promised(row.done) /\ Promised(0)
    BY <1>2, RowFacts, ConstantsAssumption DEF Stop, TypeOK, StoreInv, CursorInv, WorkInv, Entering, Leaving, Promised
  <2>3. pc' \in {"repair", "settle"} => Promised(N)
    BY <1>2 DEF Stop, Forget, StoreInv, CursorInv
  <2>4. CursorInv'
    BY <2>1, <2>2, <2>3, QuietCursor
  <2> QED
    BY <2>1, <2>4, QuietStep, IdleWork DEF StoreInv
<1>3. CASE Conflict /\ UNCHANGED control
  <2>1. Frame /\ art' = art /\ row'.done = row.done /\ done' = done /\ pc' \in Idle
    BY <1>3, WriteFacts, RowFacts DEF Conflict, Frame, Idle
  <2>2. row.done \in 0 .. N /\ done \in 0 .. N /\ Promised(row.done) /\ Promised(done)
    BY <1>3, RowFacts, ConstantsAssumption DEF Conflict, TypeOK, StoreInv, CursorInv, WorkInv, Entering, Leaving, Promised
  <2>3. pc' \in {"repair", "settle"} => Promised(N)
    BY <1>3 DEF Conflict, StoreInv, CursorInv
  <2>4. CursorInv'
    BY <2>1, <2>2, <2>3, QuietCursor
  <2> QED
    BY <2>1, <2>4, QuietStep, IdleWork DEF StoreInv
<1>4. CASE Skip /\ UNCHANGED control
  <2>1. Frame /\ art' = art /\ row'.done = row.done /\ done' = done /\ pc' \in Idle
    BY <1>4, WriteFacts, RowFacts DEF Skip, Frame, Idle
  <2>2. row.done \in 0 .. N /\ done \in 0 .. N /\ Promised(row.done) /\ Promised(done)
    BY <1>4, RowFacts, ConstantsAssumption DEF Skip, TypeOK, StoreInv, CursorInv, WorkInv, Entering, Leaving, Promised
  <2>3. pc' \in {"repair", "settle"} => Promised(N)
    BY <1>4 DEF Skip, StoreInv, CursorInv
  <2>4. CursorInv'
    BY <2>1, <2>2, <2>3, QuietCursor
  <2> QED
    BY <2>1, <2>4, QuietStep, IdleWork DEF StoreInv
<1>5. CASE OpenAtEnd /\ UNCHANGED control
  <2>1. Frame /\ art' = art /\ row'.done = row.done /\ done' = done /\ pc' \in Idle
    BY <1>5, WriteFacts, RowFacts DEF OpenAtEnd, Frame, Idle
  <2>2. row.done \in 0 .. N /\ done \in 0 .. N /\ Promised(row.done) /\ Promised(done)
    BY RowFacts DEF TypeOK, StoreInv, CursorInv
  <2>3. pc' \in {"repair", "settle"} => Promised(N)
    BY <1>5, AtEndPromises DEF OpenAtEnd, Settles
  <2>4. CursorInv'
    BY <2>1, <2>2, <2>3, QuietCursor
  <2> QED
    BY <2>1, <2>4, QuietStep, IdleWork DEF StoreInv
<1>6. CASE RepairFails /\ UNCHANGED control
  <2>1. Frame /\ art' = art /\ row'.done = row.done /\ done' = done /\ pc' \in Idle
    BY <1>6, WriteFacts, RowFacts DEF RepairFails, Frame, Idle
  <2>2. row.done \in 0 .. N /\ done \in 0 .. N /\ Promised(row.done) /\ Promised(done)
    BY <1>6, RowFacts, ConstantsAssumption DEF RepairFails, TypeOK, StoreInv, CursorInv, WorkInv, Entering, Leaving, Promised
  <2>3. pc' \in {"repair", "settle"} => Promised(N)
    BY <1>6 DEF RepairFails, StoreInv, CursorInv
  <2>4. CursorInv'
    BY <2>1, <2>2, <2>3, QuietCursor
  <2> QED
    BY <2>1, <2>4, QuietStep, IdleWork DEF StoreInv
<1>7. CASE MarkRepair /\ UNCHANGED control
  <2>1. Frame /\ art' = art /\ row'.done = row.done /\ done' = done /\ pc' \in Idle
    BY <1>7, WriteFacts, RowFacts DEF MarkRepair, Frame, Idle
  <2>2. row.done \in 0 .. N /\ done \in 0 .. N /\ Promised(row.done) /\ Promised(done)
    BY <1>7, RowFacts, ConstantsAssumption DEF MarkRepair, TypeOK, StoreInv, CursorInv, WorkInv, Entering, Leaving, Promised
  <2>3. pc' \in {"repair", "settle"} => Promised(N)
    BY <1>7 DEF MarkRepair, StoreInv, CursorInv
  <2>4. CursorInv'
    BY <2>1, <2>2, <2>3, QuietCursor
  <2> QED
    BY <2>1, <2>4, QuietStep, IdleWork DEF StoreInv
<1>8. CASE Settle /\ UNCHANGED control
  <2>1. Frame /\ art' = art /\ row'.done = N /\ done' = N /\ pc' \in Idle
    BY <1>8, WriteFacts, RowFacts, ConstantsAssumption DEF Settle, Frame, Idle
  <2>2. N \in 0 .. N /\ N \in 0 .. N /\ Promised(N) /\ Promised(N)
    BY <1>8, RowFacts, ConstantsAssumption DEF Settle, TypeOK, StoreInv, CursorInv, WorkInv, Entering, Leaving, Promised
  <2>3. pc' \in {"repair", "settle"} => Promised(N)
    BY <1>8 DEF Settle, StoreInv, CursorInv
  <2>4. CursorInv'
    BY <2>1, <2>2, <2>3, QuietCursor
  <2> QED
    BY <2>1, <2>4, QuietStep, IdleWork DEF StoreInv
<1>9. CASE Refuse /\ UNCHANGED control
  <2>1. Frame /\ art' = art /\ row'.done = done /\ done' = done /\ pc' \in Idle
    BY <1>9, WriteFacts, RowFacts DEF Refuse, Write, Frame, Idle
  <2>2. done \in 0 .. N /\ done \in 0 .. N /\ Promised(done) /\ Promised(done)
    BY <1>9, RowFacts, ConstantsAssumption DEF Refuse, TypeOK, StoreInv, CursorInv, WorkInv, Entering, Leaving, Promised
  <2>3. pc' \in {"repair", "settle"} => Promised(N)
    BY <1>9 DEF Refuse, Write, StoreInv, CursorInv
  <2>4. CursorInv'
    BY <2>1, <2>2, <2>3, QuietCursor
  <2> QED
    BY <2>1, <2>4, QuietStep, IdleWork DEF StoreInv
<1>10. CASE TaskFails /\ UNCHANGED control
  <2>1. Frame /\ art' = art /\ row'.done = seq /\ done' = done /\ pc' \in Idle
    BY <1>10, WriteFacts, RowFacts DEF TaskFails, Write, Frame, Idle
  <2>2. seq \in 0 .. N /\ done \in 0 .. N /\ Promised(seq) /\ Promised(done)
    BY <1>10, RowFacts, ConstantsAssumption DEF TaskFails, TypeOK, StoreInv, CursorInv, WorkInv, Entering, Leaving, Promised
  <2>3. pc' \in {"repair", "settle"} => Promised(N)
    BY <1>10 DEF TaskFails, Write, StoreInv, CursorInv
  <2>4. CursorInv'
    BY <2>1, <2>2, <2>3, QuietCursor
  <2> QED
    BY <2>1, <2>4, QuietStep, IdleWork DEF StoreInv
<1>11. CASE Finish /\ UNCHANGED control
  <2>1. Frame /\ art' = art /\ row'.done = N /\ done' = done /\ pc' \in Idle
    BY <1>11, WriteFacts, RowFacts DEF Finish, Write, Frame, Idle
  <2>2. N \in 0 .. N /\ done \in 0 .. N /\ Promised(N) /\ Promised(done)
    BY <1>11, RowFacts, ConstantsAssumption DEF Finish, TypeOK, StoreInv, CursorInv, WorkInv, Entering, Leaving, Promised
  <2>3. pc' \in {"repair", "settle"} => Promised(N)
    BY <1>11 DEF Finish, Write, StoreInv, CursorInv
  <2>4. CursorInv'
    BY <2>1, <2>2, <2>3, QuietCursor
  <2> QED
    BY <2>1, <2>4, QuietStep, IdleWork DEF StoreInv
<1>12. CASE Told /\ UNCHANGED control
  <2>1. Frame /\ art' = art /\ row'.done = row.done /\ done' = done /\ pc' \in Idle
    BY <1>12, WriteFacts, RowFacts DEF Told, Frame, Idle
  <2>2. row.done \in 0 .. N /\ done \in 0 .. N /\ Promised(row.done) /\ Promised(done)
    BY <1>12, RowFacts, ConstantsAssumption DEF Told, TypeOK, StoreInv, CursorInv, WorkInv, Entering, Leaving, Promised
  <2>3. pc' \in {"repair", "settle"} => Promised(N)
    BY <1>12 DEF Told, StoreInv, CursorInv
  <2>4. CursorInv'
    BY <2>1, <2>2, <2>3, QuietCursor
  <2> QED
    BY <2>1, <2>4, QuietStep, IdleWork DEF StoreInv
<1>13. CASE StoreRaises /\ UNCHANGED control
  <2>1. Frame /\ art' = art /\ row'.done = row.done /\ done' = done /\ pc' \in Idle
    BY <1>13, WriteFacts, RowFacts DEF StoreRaises, Frame, Idle
  <2>2. row.done \in 0 .. N /\ done \in 0 .. N /\ Promised(row.done) /\ Promised(done)
    BY <1>13, RowFacts, ConstantsAssumption DEF StoreRaises, TypeOK, StoreInv, CursorInv, WorkInv, Entering, Leaving, Promised
  <2>3. pc' \in {"repair", "settle"} => Promised(N)
    BY <1>13 DEF StoreRaises, StoreInv, CursorInv
  <2>4. CursorInv'
    BY <2>1, <2>2, <2>3, QuietCursor
  <2> QED
    BY <2>1, <2>4, QuietStep, IdleWork DEF StoreInv
<1>14. CASE Recover /\ UNCHANGED control
  <2>1. Frame /\ art' = art /\ row'.done = done /\ done' = done /\ pc' \in Idle
    BY <1>14, WriteFacts, RowFacts DEF Recover, Write, Frame, Idle
  <2>2. done \in 0 .. N /\ done \in 0 .. N /\ Promised(done) /\ Promised(done)
    BY <1>14, RowFacts, ConstantsAssumption DEF Recover, TypeOK, StoreInv, CursorInv, WorkInv, Entering, Leaving, Promised
  <2>3. pc' \in {"repair", "settle"} => Promised(N)
    BY <1>14 DEF Recover, Write, StoreInv, CursorInv
  <2>4. CursorInv'
    BY <2>1, <2>2, <2>3, QuietCursor
  <2> QED
    BY <2>1, <2>4, QuietStep, IdleWork DEF StoreInv
<1>15. CASE Interrupt /\ UNCHANGED control
  <2>1. Frame /\ art' = art /\ row'.done = done /\ done' = done /\ pc' \in Idle
    BY <1>15, WriteFacts, RowFacts DEF Interrupt, Write, Frame, Idle
  <2>2. done \in 0 .. N /\ done \in 0 .. N /\ Promised(done) /\ Promised(done)
    BY <1>15, RowFacts, ConstantsAssumption DEF Interrupt, TypeOK, StoreInv, CursorInv, WorkInv, Entering, Leaving, Promised
  <2>3. pc' \in {"repair", "settle"} => Promised(N)
    BY <1>15 DEF Interrupt, Write, StoreInv, CursorInv
  <2>4. CursorInv'
    BY <2>1, <2>2, <2>3, QuietCursor
  <2> QED
    BY <2>1, <2>4, QuietStep, IdleWork DEF StoreInv
<1>16. CASE WorkerDies /\ UNCHANGED control
  <2>1. Frame /\ art' = art /\ row'.done = row.done /\ done' = done /\ pc' \in Idle
    BY <1>16, WriteFacts, RowFacts DEF WorkerDies, Frame, Idle
  <2>2. row.done \in 0 .. N /\ done \in 0 .. N /\ Promised(row.done) /\ Promised(done)
    BY <1>16, RowFacts, ConstantsAssumption DEF WorkerDies, TypeOK, StoreInv, CursorInv, WorkInv, Entering, Leaving, Promised
  <2>3. pc' \in {"repair", "settle"} => Promised(N)
    BY <1>16 DEF WorkerDies, StoreInv, CursorInv
  <2>4. CursorInv'
    BY <2>1, <2>2, <2>3, QuietCursor
  <2> QED
    BY <2>1, <2>4, QuietStep, IdleWork DEF StoreInv
<1>17. CASE OpenAtCheckpoint /\ UNCHANGED control
  <2> DEFINE p == Position
  <2> HIDE DEF p
  <2>1. (ByHandoff \/ ByCursor) /\ Usable(Entry)
    BY <1>17 DEF OpenAtCheckpoint, Resumes
  <2>2. /\ p \in 1 .. N - 1 /\ Entry \in Addresses
    BY <2>1, PositionFacts DEF p
  <2>3. /\ Promised(p) /\ Fits(art[Entry].val, p)
        /\ \A i \in 1 .. Len(ledger) : ledger[i].epoch = epoch => ledger[i].to <= p
        /\ Entry < N => Entry < p
        /\ Entry < N + Len(ledger)
        /\ Entry = Seed => art[Entry].val = SeedValue
    BY <2>1, OpeningFits DEF p
  <2>4. /\ Frame /\ art' = art /\ row'.done = p /\ done' = p /\ seq' = p
        /\ input' = [val |-> art[Entry].val, addr |-> Entry] /\ pc' = "check"
    BY <1>17 DEF OpenAtCheckpoint, Write, Frame, p
  <2>5. CursorInv'
    <3>1. p \in 0 .. N
      BY <2>2, ConstantsAssumption
    <3>2. Promised(p) /\ (pc' \in {"repair", "settle"} => Promised(N))
      BY <2>3, <2>4
    <3>3. Frame /\ art' = art /\ row'.done = p /\ done' = p
      BY <2>4
    <3> QED
      BY <3>1, <3>2, <3>3, QuietCursor
  <2>6. Fits(input.val, seq)'
    BY <2>3, <2>4 DEF Fits, Frame, Made, SeedValue
  <2>7. Holds(input.addr, input.val)'
    BY <2>1, <2>4 DEF Holds, Usable
  <2>8. WorkInv'
    BY <2>3, <2>4, <2>6, <2>7 DEF WorkInv, Entering, Leaving, Frame
  <2> QED
    BY <2>4, <2>5, <2>8, QuietStep DEF StoreInv
<1>18. CASE Check /\ UNCHANGED control
  <2>1. /\ Frame /\ art' = art /\ UNCHANGED <<row, seq, input, done>>
        /\ pc \in Entering /\ pc' \in Entering /\ pc' # "repair" /\ pc' # "settle"
        /\ pc' \in {"begin", "running"} => pc \in {"begin", "running"}
    BY <1>18 DEF Check, Frame, Entering
  <2>2. row.done \in 0 .. N /\ done \in 0 .. N /\ Promised(row.done) /\ Promised(done)
    BY RowFacts DEF TypeOK, StoreInv, CursorInv
  <2>3. CursorInv'
    BY <2>1, <2>2, QuietCursor
  <2> QED
    BY <2>1, <2>3, QuietStep, QuietWork DEF StoreInv
<1>19. CASE BeginTask /\ UNCHANGED control
  <2>1. /\ Frame /\ art' = art /\ UNCHANGED <<row, seq, input, done>>
        /\ pc \in Entering /\ pc' \in Entering /\ pc' # "repair" /\ pc' # "settle"
        /\ pc' \in {"begin", "running"} => pc \in {"begin", "running"}
    BY <1>19 DEF BeginTask, Frame, Entering
  <2>2. row.done \in 0 .. N /\ done \in 0 .. N /\ Promised(row.done) /\ Promised(done)
    BY RowFacts DEF TypeOK, StoreInv, CursorInv
  <2>3. CursorInv'
    BY <2>1, <2>2, QuietCursor
  <2> QED
    BY <2>1, <2>3, QuietStep, QuietWork DEF StoreInv
<1>20. CASE Advance /\ UNCHANGED control
  <2>1. /\ Frame /\ art' = art /\ UNCHANGED <<row, seq, input>> /\ done' = seq + 1
        /\ pc = "stored" /\ pc' \in {"cursor", "mark"} /\ (pc' = "mark" => seq + 1 = N)
    BY <1>20, ConstantsAssumption DEF Advance, Frame, TypeOK
  <2>2. /\ row.done = seq /\ Holds(seq, Made(seq + 1))
        /\ \A i \in 1 .. Len(ledger) : ledger[i].epoch = epoch => ledger[i].to <= seq
        /\ art[Seed] # Absent
    BY <2>1 DEF StoreInv, WorkInv, Leaving
  <2>3. /\ row.done \in 0 .. N /\ seq + 1 \in 0 .. N /\ Promised(row.done) /\ Promised(seq + 1)
    <3>1. Promised(row.done)
      BY DEF StoreInv, CursorInv
    <3>2. Promised(seq + 1)
      BY <2>2, ConstantsAssumption DEF Promised, TypeOK
    <3> QED
      BY <3>1, <3>2, RowFacts, ConstantsAssumption DEF TypeOK
  <2>4. CursorInv'
    <3>1. row'.done = row.done /\ pc' \notin {"repair", "settle"}
      BY <2>1
    <3> QED
      BY <2>1, <2>3, <3>1, QuietCursor
  <2>5. WorkInv'
    BY <2>1, <2>2 DEF WorkInv, Entering, Leaving, Frame, Holds, Made
  <2> QED
    BY <2>1, <2>4, <2>5, QuietStep DEF StoreInv
<1>21. CASE CommitCursor /\ UNCHANGED control
  <2>1. /\ Frame /\ art' = art /\ row'.done = done /\ done' = done /\ seq' = seq + 1
        /\ input' = [val |-> Made(seq + 1), addr |-> seq] /\ pc = "cursor" /\ pc' = "begin"
    BY <1>21 DEF CommitCursor, Write, Frame
  <2>2. /\ row.done = seq /\ done = seq + 1 /\ Holds(seq, Made(seq + 1))
        /\ \A i \in 1 .. Len(ledger) : ledger[i].epoch = epoch => ledger[i].to <= seq
    BY <2>1 DEF StoreInv, WorkInv, Leaving
  <2>3. done \in 0 .. N /\ Promised(done)
    BY DEF TypeOK, StoreInv, CursorInv
  <2>4. CursorInv'
    <3>1. pc' \notin {"repair", "settle"}
      BY <2>1
    <3> QED
      BY <2>1, <2>3, <3>1, QuietCursor
  <2>5. seq \in 0 .. N - 1 /\ seq # Seed /\ Len(ledger) \in Nat
    BY RowFacts, AddressFacts DEF TypeOK
  <2>6. Fits(input.val, seq)'
    BY <2>1 DEF Fits, Frame, Made, SeedValue
  <2>7. Holds(input.addr, input.val)'
    BY <2>1, <2>2 DEF Holds
  <2>8. art'[Seed] # Absent
    BY <2>1 DEF StoreInv, WorkInv, Leaving
  <2>9. WorkInv'
    BY <2>1, <2>2, <2>5, <2>6, <2>7, <2>8, LedgerFacts, ConstantsAssumption DEF WorkInv, Entering, Leaving, Frame
  <2> QED
    BY <2>1, <2>4, <2>9, QuietStep DEF StoreInv
<1>22. CASE MarkFinal /\ UNCHANGED control
  <2>1. /\ Frame /\ art' = art /\ UNCHANGED <<row, seq, input, done>>
        /\ pc = "mark" /\ pc' = "finish"
    BY <1>22 DEF MarkFinal, Frame
  <2>2. row.done \in 0 .. N /\ done \in 0 .. N /\ Promised(row.done) /\ Promised(done)
    BY RowFacts DEF TypeOK, StoreInv, CursorInv
  <2>3. CursorInv'
    BY <2>1, <2>2, QuietCursor
  <2>4. WorkInv'
    BY <2>1 DEF StoreInv, WorkInv, Entering, Leaving, Frame, Holds, Made
  <2> QED
    BY <2>1, <2>3, <2>4, QuietStep DEF StoreInv
<1>23. CASE Land /\ UNCHANGED control
  <2> DEFINE to == Newest.to
  <2>1. pc = "hopped" /\ Len(ledger) > row.floor /\ row.done = to /\ to \in 1 .. N
    BY <1>23, RowFacts, NewestFacts DEF Land, StoreInv, WorkInv, LedgerInv, BoundInv
  <2> HIDE DEF to
  <2>2. Frame /\ art' = art /\ row'.done = row.done /\ done' = to
    BY <1>23 DEF Land, Frame, to
  <2>3. /\ row.done \in 0 .. N /\ to \in 0 .. N
        /\ Promised(row.done) /\ Promised(to)
    BY <2>1 DEF StoreInv, CursorInv
  <2>4. CursorInv'
    <3>1. pc' \notin {"repair", "settle"}
      BY <1>23 DEF Land
    <3> QED
      BY <2>2, <2>3, <3>1, QuietCursor
  <2>5. CASE to = END
    BY <1>23, <2>2, <2>4, <2>5, QuietStep, IdleWork DEF Land, StoreInv, Idle, to
  <2>6. CASE to # END
    <3> DEFINE n == Len(ledger)
    <3>1. n \in 1 .. n /\ n > row.floor /\ Newest = ledger[n]
      BY <2>1, RowFacts DEF Newest
    <3>2. ledger[n].epoch = epoch
      BY <3>1 DEF StoreInv, LedgerInv, FloorSeparates
    <3>3. /\ Holds(Newest.entry, Newest.val) /\ Newest.entry < N + n
          /\ Newest.entry < N => Newest.entry < to
          /\ \A i \in 1 .. n : ledger[i].epoch = epoch => ledger[i].to <= to
      BY <3>1, <3>2, NewestIsFurthest DEF StoreInv, EntryInv, to
    <3>4. pc' = "begin" /\ seq' = to /\ input' = [val |-> Newest.val, addr |-> Newest.entry]
      BY <1>23, <2>6 DEF Land, to
    <3>5. Fits(input.val, seq)'
      BY <2>2, <3>1, <3>2, <3>4 DEF Fits, Frame, to
    <3>6. Holds(input.addr, input.val)' /\ (input'.addr = Seed => input'.val = SeedValue)
      BY <2>2, <3>3, <3>4 DEF Holds, StoreInv, SeedInv
    <3>7. art'[Seed] # Absent
      BY <2>1, <2>2 DEF StoreInv, WorkInv
    <3>8. WorkInv'
      BY <2>1, <2>2, <3>3, <3>4, <3>5, <3>6, <3>7 DEF WorkInv, Entering, Leaving, Frame
    <3> QED
      BY <2>2, <2>4, <3>8, QuietStep DEF StoreInv
  <2> QED
    BY <2>5, <2>6
<1>24. CASE OpenAtZero /\ UNCHANGED control
  <2>1. /\ UNCHANGED <<control, ledger>> /\ epoch' = epoch + 1
        /\ row'.done = 0 /\ done' = 0 /\ seq' = 0 /\ pc' = "check"
        /\ input' = [val |-> SeedValue, addr |-> Seed]
        /\ art'[Seed] = art[Seed]
    BY <1>24, AddressFacts, ConstantsAssumption DEF OpenAtZero, ResetPipeline, Write, TypeOK
  <2>2. row'.floor <= Len(ledger) /\ (row'.floor >= Len(ledger) \/ ledger = <<>>)
    <3>1. CASE control = "control"
      BY <1>24, <3>1, RowFacts DEF OpenAtZero, ResetPipeline
    <3>2. CASE control = "none"
      BY <1>24, <3>2 DEF OpenAtZero, Write, StoreInv, LedgerInv
    <3> QED
      BY <3>1, <3>2 DEF TypeOK
  <2>3. \A i \in 1 .. Len(ledger) : ledger[i].epoch <= epoch /\ ledger[i].epoch # epoch + 1
    BY LedgerFacts DEF StoreInv, LedgerInv, TypeOK
  <2>4. row'.floor \in Nat /\ Len(ledger) \in Nat /\ epoch \in Nat
    BY <1>24, RowFacts DEF OpenAtZero, ResetPipeline, Write, TypeOK
  <2>5. \A i \in 1 .. Len(ledger) : i <= row'.floor
    BY <2>2, <2>4
  <2>6. LedgerInv'
    BY <2>1, <2>2, <2>3, <2>4, <2>5, LedgerFacts DEF StoreInv, LedgerInv, FloorSeparates
  <2>7. EntryInv' /\ SeedInv'
    BY <2>1, <2>3 DEF EntryInv, SeedInv, StoreInv, SeedValue
  <2>8. CursorInv'
    BY <2>1 DEF CursorInv, Promised
  <2>9. WorkInv'
    BY <2>1, <2>3, <2>4, AddressFacts, ConstantsAssumption DEF WorkInv, Entering, Leaving, Fits, SeedValue
  <2> QED
    BY <2>6, <2>7, <2>8, <2>9 DEF StoreInv
<1>25. CASE StoreSeed /\ UNCHANGED control
  <2>1. /\ Frame /\ UNCHANGED <<row, seq, input, done>> /\ pc = "seed" /\ pc' = "begin"
    BY <1>25 DEF StoreSeed, Frame
  <2>2. /\ art'[Seed] # Absent /\ art'[Seed].val = SeedValue
        /\ \A a \in Addresses \ {Seed} : art'[a] = art[a]
    BY <1>25, AddressFacts, StoredFacts, ValueFacts DEF StoreSeed, TypeOK, StoreInv, SeedInv
  <2>3. \A a \in Addresses : Keeps(a)
    BY <2>2 DEF Keeps, StoreInv, SeedInv
  <2>4. LedgerInv' /\ EntryInv' /\ SeedInv'
    BY <2>1, <2>2, <2>3, LedgerFacts, FrameKeepsLedger, FrameKeepsEntries DEF StoreInv, SeedInv, SeedValue
  <2>5. \A k \in 0 .. N : Promised(k) => Promised(k)'
    BY <2>1, <2>3, AddressFacts, FrameKeepsPromise, ConstantsAssumption
  <2>6. CursorInv'
    <3>1. row.done \in 0 .. N /\ done \in 0 .. N /\ Promised(row.done) /\ Promised(done)
      BY RowFacts DEF TypeOK, StoreInv, CursorInv
    <3>2. Promised(row.done)' /\ Promised(done)'
      BY <2>1, <2>5, <3>1 DEF Promised
    <3> QED
      BY <2>1, <3>2 DEF CursorInv
  <2>7. /\ row.done = seq /\ done = seq /\ Fits(input.val, seq)
        /\ \A i \in 1 .. Len(ledger) : ledger[i].epoch = epoch => ledger[i].to <= seq
        /\ input.addr < N => input.addr < seq
        /\ input.addr < N + Len(ledger)
        /\ IF input.addr = Seed THEN input.val = SeedValue ELSE Holds(input.addr, input.val)
    BY <2>1 DEF StoreInv, WorkInv, Entering
  <2>8. Fits(input.val, seq)'
    BY <2>1, <2>7 DEF Fits, Frame, Made, SeedValue
  <2>9. input'.addr # Seed => Holds(input.addr, input.val)'
    BY <2>1, <2>2, <2>7, RowFacts DEF Holds
  <2>10. WorkInv'
    BY <2>1, <2>2, <2>7, <2>8, <2>9 DEF WorkInv, Entering, Leaving, Frame, SeedValue
  <2> QED
    BY <2>4, <2>6, <2>10 DEF StoreInv
<1>26. CASE TaskSucceeds /\ UNCHANGED control
  <2>1. /\ Frame /\ UNCHANGED <<row, seq, input, done>> /\ pc = "running" /\ pc' = "stored"
    BY <1>26 DEF TaskSucceeds, Frame
  <2>2. /\ seq \in 0 .. N - 1 /\ seq \in Addresses /\ seq # Seed
        /\ art'[seq] # Absent /\ art'[seq].val = Made(seq + 1)
        /\ \A a \in Addresses \ {seq} : art'[a] = art[a]
    <3>1. seq \in 0 .. N - 1 /\ seq \in Addresses /\ seq # Seed /\ Made(seq + 1) \in Values
      <4>1. seq \in 0 .. N - 1
        BY DEF TypeOK
      <4>2. seq + 1 \in 0 .. N
        BY <4>1, ConstantsAssumption
      <4> QED
        BY <4>1, <4>2, AddressFacts, ValueFacts
    <3>2. Kept(Made(seq + 1)) # Absent /\ Kept(Made(seq + 1)).val = Made(seq + 1)
      BY <3>1, StoredFacts
    <3>3. art' = [art EXCEPT ![seq] = Kept(Made(seq + 1))]
      BY <1>26 DEF TaskSucceeds
    <3> QED
      BY <3>1, <3>2, <3>3 DEF TypeOK
  <2>3. /\ row.done = seq /\ done = seq /\ art[Seed] # Absent
        /\ \A i \in 1 .. Len(ledger) : ledger[i].epoch = epoch => ledger[i].to <= seq
    BY <2>1 DEF StoreInv, WorkInv, Entering
  <2>4. \A i \in 1 .. Len(ledger) : ledger[i].epoch = epoch => ledger[i].entry # seq
    <3> SUFFICES ASSUME NEW i \in 1 .. Len(ledger), ledger[i].epoch = epoch,
                        ledger[i].entry = seq
                 PROVE  FALSE
      OBVIOUS
    <3>1. ledger[i].to <= seq /\ seq < N
      BY <2>2, <2>3, ConstantsAssumption
    <3>2. ledger[i].entry < N => ledger[i].entry < ledger[i].to
      BY DEF StoreInv, EntryInv
    <3> QED
      BY <2>2, <3>1, <3>2, LedgerFacts
  <2>5. \A i \in 1 .. Len(ledger) : ledger[i].epoch = epoch => Keeps(ledger[i].entry)
    BY <2>2, <2>4, LedgerFacts DEF Keeps
  <2>6. LedgerInv' /\ EntryInv' /\ SeedInv'
    BY <2>1, <2>2, <2>5, AddressFacts, FrameKeepsLedger, FrameKeepsEntries DEF StoreInv, SeedInv, SeedValue
  <2>7. CursorInv'
    <3>1. seq \in 0 .. N /\ Promised(seq) /\ (seq > 0 => Keeps(seq - 1))
      <4>1. Promised(seq)
        BY <2>3 DEF Promised, StoreInv, CursorInv
      <4>2. seq > 0 => seq - 1 \in Addresses \ {seq}
        BY <2>2, AddressFacts, ConstantsAssumption
      <4> QED
        BY <2>2, <4>1, <4>2, ConstantsAssumption DEF Keeps
    <3>2. Promised(seq)'
      BY <2>1, <3>1, FrameKeepsPromise DEF Promised
    <3> QED
      BY <2>1, <2>3, <3>2 DEF CursorInv, Promised
  <2>8. WorkInv'
    BY <2>1, <2>2, <2>3, AddressFacts DEF WorkInv, Entering, Leaving, Frame, Holds, Made
  <2> QED
    BY <2>6, <2>7, <2>8 DEF StoreInv
<1>27. ASSUME NEW a \in Addresses, Spoil(a), UNCHANGED control PROVE StoreInv'
  <2>1. /\ Frame /\ UNCHANGED <<row, seq, input, done>> /\ pc = "off" /\ pc' = "off"
    BY <1>27 DEF Spoil, Frame
  <2>2. PICK p \in {"lost", "torn"} : art' = [art EXCEPT ![a] = [val |-> art[a].val, payload |-> p]]
    BY <1>27 DEF Spoil
  <2>3. art[a] \in Artifacts /\ [val |-> art[a].val, payload |-> p] \in Artifacts
    BY <1>27 DEF Spoil, TypeOK, Artifacts
  <2>4. /\ \A b \in Addresses : Keeps(b)
        /\ \A b \in Addresses : art[b] = Absent => art'[b] = Absent
    BY <2>2, <2>3, ConstantsAssumption DEF Keeps, TypeOK
  <2>5. LedgerInv' /\ EntryInv' /\ SeedInv'
    BY <2>1, <2>4, LedgerFacts, AddressFacts, FrameKeepsLedger, FrameKeepsEntries
       DEF StoreInv, SeedInv, SeedValue, Keeps
  <2>6. \A k \in 0 .. N : Promised(k) => Promised(k)'
    BY <2>1, <2>4, AddressFacts, FrameKeepsPromise, ConstantsAssumption
  <2>7. CursorInv'
    <3>1. row.done \in 0 .. N /\ done \in 0 .. N /\ Promised(row.done) /\ Promised(done)
      BY RowFacts DEF TypeOK, StoreInv, CursorInv
    <3>2. Promised(row.done)' /\ Promised(done)'
      BY <2>1, <2>6, <3>1 DEF Promised
    <3> QED
      BY <2>1, <3>2 DEF CursorInv
  <2> QED
    BY <2>1, <2>5, <2>7, IdleWork DEF StoreInv, Idle
<1>28. ASSUME NEW t \in 1 .. END, HandOver(t) \/ HandOverPayload(t), UNCHANGED control
       PROVE StoreInv'
  <2> DEFINE n == Len(ledger)
  <2>1. PICK addr, v : /\ CommitHandoff(t, addr, v)
                       /\ \/ art' = art /\ addr = input.addr /\ v = input.val
                          \/ /\ addr = N + n /\ v = Made(t) /\ n < MaxHops
                             /\ art' = [art EXCEPT ![addr] = Kept(v)]
    BY <1>28 DEF HandOver, HandOverPayload, CommitHandoff
  <2> DEFINE hop == [to |-> t, entry |-> addr, val |-> v, epoch |-> epoch]
  <2>2. /\ pc = "running" /\ pc' = "hopped" /\ UNCHANGED <<seq, input, done, epoch, control>>
        /\ ledger' = Append(ledger, hop) /\ row'.floor = row.floor /\ row'.done = t
        /\ <<seq, t>> \in Edges /\ control = "control"
    BY <1>28, <2>1 DEF CommitHandoff, Write
  <2>3. /\ Len(ledger') = n + 1 /\ n \in Nat /\ ledger'[n + 1] = hop
        /\ \A i \in 1 .. n : ledger'[i] = ledger[i]
    BY <2>2, RowFacts DEF TypeOK
  <2>4. Newest' = hop
    BY <2>3 DEF Newest
  <2>5. t \in 1 .. N /\ seq \in 0 .. N - 1 /\ seq < t
    BY <2>2, ConstantsAssumption DEF TypeOK, END
  <2>6. /\ done = seq /\ row.done = seq /\ art[Seed] # Absent
        /\ \A i \in 1 .. n : ledger[i].epoch = epoch => ledger[i].to <= seq
        /\ input.addr < N => input.addr < seq
        /\ input.addr < N + n
        /\ IF input.addr = Seed THEN input.val = SeedValue ELSE Holds(input.addr, input.val)
    BY <2>2 DEF StoreInv, WorkInv, Entering
  <2>7. /\ \A i \in 1 .. n : ledger[i].epoch = epoch => Keeps(ledger[i].entry)
        /\ Keeps(Seed)
        /\ Holds(addr, v)' /\ addr < N + n + 1 /\ (addr < N => addr < t)
        /\ art'[Seed] = art[Seed]
    <3>1. CASE art' = art /\ addr = input.addr /\ v = input.val
      <4>1. Holds(addr, v)
        BY <2>6, <3>1 DEF Holds, StoreInv, SeedInv
      <4> QED
        BY <2>3, <2>5, <2>6, <3>1, <4>1, RowFacts, ConstantsAssumption DEF Keeps, Holds, TypeOK, Addresses, Seed
    <3>2. CASE /\ addr = N + n /\ v = Made(t) /\ n < MaxHops
               /\ art' = [art EXCEPT ![addr] = Kept(v)]
      <4>1. addr \in Addresses /\ addr # Seed /\ addr >= N
        BY <2>3, <3>2, AddressFacts, ConstantsAssumption
      <4>2. v \in Values
        BY <2>5, <3>2, ValueFacts
      <4>3. Holds(addr, v)'
        BY <3>2, <4>1, <4>2, StoredFacts DEF Holds, TypeOK
      <4>4. \A i \in 1 .. n : ledger[i].epoch = epoch => ledger[i].entry # addr
        BY <2>3, <3>2, LedgerFacts, AddressFacts, ConstantsAssumption DEF StoreInv, EntryInv
      <4>5. \A b \in Addresses : b # addr => art'[b] = art[b]
        BY <3>2 DEF TypeOK
      <4> QED
        BY <2>3, <3>2, <4>1, <4>3, <4>4, <4>5, LedgerFacts, AddressFacts, ConstantsAssumption DEF Keeps
    <3> QED
      BY <2>1, <3>1, <3>2
  <2>8. LedgerInv'
    <3>1. row'.floor <= Len(ledger') /\ control' = "control"
      BY <2>2, <2>3, RowFacts DEF StoreInv, LedgerInv
    <3>2. \A i \in 1 .. n + 1 : i \in 1 .. n \/ i = n + 1
      BY <2>3
    <3>3. n + 1 > row.floor
      BY <2>3, RowFacts DEF StoreInv, LedgerInv
    <3>4. epoch \in Nat
      BY DEF TypeOK
    <3>5. FloorSeparates'
      BY <2>2, <2>3, <3>2, <3>3 DEF StoreInv, LedgerInv, FloorSeparates
    <3>6. \A i \in 1 .. Len(ledger') : ledger'[i].epoch <= epoch'
      BY <2>2, <2>3, <3>2, <3>4 DEF StoreInv, LedgerInv
    <3> QED
      BY <3>1, <3>5, <3>6 DEF LedgerInv
  <2>9. EntryInv'
    <3> SUFFICES ASSUME NEW i \in 1 .. n + 1, ledger'[i].epoch = epoch
                 PROVE  /\ Holds(ledger[i].entry, ledger[i].val)'
                        /\ ledger'[i].entry < N + i
                        /\ ledger'[i].entry < N => ledger'[i].entry < ledger'[i].to
                        /\ \A j \in 1 .. i - 1 : ledger'[j].epoch = epoch => ledger'[j].to < ledger'[i].to
      BY <2>2, <2>3 DEF EntryInv
    <3>1. CASE i = n + 1
      <4>1. \A j \in 1 .. i - 1 : ledger'[j].epoch = epoch => ledger'[j].to < t
        BY <2>3, <2>5, <2>6, <3>1, LedgerFacts
      <4> QED
        BY <2>3, <2>7, <3>1, <4>1, ConstantsAssumption DEF Holds
    <3>2. CASE i \in 1 .. n
      <4>1. \A j \in 1 .. i - 1 : j \in 1 .. n
        BY <2>3, <3>2
      <4> QED
        BY <2>3, <2>7, <3>2, <4>1 DEF Holds, Keeps, StoreInv, EntryInv
    <3> QED
      BY <2>3, <3>1, <3>2
  <2>10. SeedInv'
    BY <2>7 DEF StoreInv, SeedInv, SeedValue
  <2>11. CursorInv'
    <3>1. Len(ledger') > row'.floor /\ Newest'.to = t
      BY <2>2, <2>3, <2>4, RowFacts DEF StoreInv, LedgerInv
    <3> QED
      BY <2>2, <2>5, <2>6, <3>1 DEF CursorInv, Promised
  <2>12. WorkInv'
    <3>1. Len(ledger') > row'.floor /\ Newest'.to = t
      BY <2>2, <2>3, <2>4, RowFacts DEF StoreInv, LedgerInv
    <3> QED
      BY <2>2, <2>5, <2>6, <2>7, <3>1 DEF WorkInv, Entering, Leaving
  <2> QED
    BY <2>8, <2>9, <2>10, <2>11, <2>12 DEF StoreInv
<1> QED
  BY <1>0, <1>1, <1>2, <1>3, <1>4, <1>5, <1>6, <1>7, <1>8, <1>9, <1>10, <1>11, <1>12, <1>13, <1>14, <1>15, <1>16, <1>17, <1>18, <1>19, <1>20, <1>21, <1>22, <1>23, <1>24, <1>25, <1>26, <1>27, <1>28 DEF Next, Open, Repair, Work, Failure

\* What a run keeps in memory and in the store between any two steps.
CheckpointInv == TypeOK /\ BoundInv /\ StoreInv

LEMMA Inductive == Spec => []CheckpointInv
<1>1. Init => CheckpointInv
  BY InitTypes, InitStore DEF CheckpointInv
<1>2. CheckpointInv /\ [Next]_vars => CheckpointInv'
  BY StepTypes, StepStore DEF CheckpointInv
<1> QED
  BY <1>1, <1>2, PTL DEF Spec

\* However often the pipeline is opened, fails, is interrupted or dies, the rows
\* of the handoff ledger above the floor are those of the execution under way:
\* no handoff of an earlier one is ever followed, and none of this one ignored.
THEOREM FloorsSeparate == Spec => []FloorSeparates
<1>1. CheckpointInv => FloorSeparates
  BY DEF CheckpointInv, StoreInv, LedgerInv
<1> QED
  BY <1>1, Inductive, PTL

\* A task gets the value that was made for it in this execution, whatever
\* earlier runs left in row, artifacts and ledger, and the artifact recorded as
\* its input holds that value.
THEOREM InputsFit == Spec => []InputFits
<1>1. CheckpointInv => InputFits
  <2> SUFFICES ASSUME CheckpointInv, pc \in {"begin", "running"}
               PROVE  /\ Fits(input.val, seq)
                      /\ art[input.addr] # Absent /\ art[input.addr].val = input.val
    BY DEF InputFits, Fits
  <2> QED
    BY DEF CheckpointInv, StoreInv, WorkInv, SeedInv, Entering, Holds
<1> QED
  BY <1>1, Inductive, PTL

-----------------------------------------------------------------------------
(* What the runs over one pipeline achieve together: they lose no work, end *)
(* it, and end it whole. Added to CheckpointInv are what a run that ends    *)
(* without a failure has written (CleanInv), whose values a handoff carries *)
(* (OwnInv), that final mark and terminal row speak of one artifact while   *)
(* they are written apart (WholeInv), and that cursor and ledger together   *)
(* remember the furthest position, even when a failing run writes an older  *)
(* cursor over a newer one (ReachInv).                                      *)

(* The invariants *)

\* A run that met no failure ends with the row succeeded.
CleanInv ==
    /\ pc \in {"told", "over"} /\ health = "clean" => row.state = "succeeded"
    /\ pc = "recover" => health = "hurt"
    /\ pc = "hopped" => (row.state = "succeeded" <=> Newest.to = END)

\* Address a holds the result of the execution under way.
IsResult(a) ==
    /\ a \in Addresses /\ art[a] # Absent
    /\ Of(art[a].val)
    /\ \/ a = N - 1 /\ art[a].val = Made(N)
       \/ \E i \in 1 .. Len(ledger) : /\ ledger[i].epoch = epoch
                                      /\ ledger[i].to = END /\ ledger[i].entry = a

\* What a handoff of the execution under way carries was made in it.
OwnInv == \A i \in 1 .. Len(ledger) : ledger[i].epoch = epoch => Of(ledger[i].val)

\* Final mark and terminal row, while one is written before the other.
WholeInv ==
    /\ row.state = "succeeded" => pc \in {"off", "open", "hopped", "told", "recover", "over"}
    /\ row.state = "succeeded" => \E a \in Addresses : final = {a} /\ IsResult(a)
    /\ \A a, b \in final : a = b
    /\ pc \in {"repair", "settle"} => IsResult(input.addr)
    /\ pc = "settle" => final = {input.addr}
    /\ pc = "finish" => final = {seq}

\* A cursor of k does not hide what was reached: it is at least as far, or a
\* handoff of this execution leads there.
Recorded(k) == reached <= k \/ (Len(ledger) > row.floor /\ reached <= Newest.to)

\* Cursor and ledger together remember the furthest position.
ReachInv ==
    /\ row.state = "absent" => reached = 0
    /\ Recorded(row.done)
    /\ pc # "off" => Recorded(done)
    /\ Len(ledger) > row.floor => Newest.to <= reached
    /\ row.done <= reached

-----------------------------------------------------------------------------
(* Steps *)

\* What a handoff writes.
LEMMA HopFacts ==
    ASSUME TypeOK, NEW t \in 1 .. END, HandOver(t) \/ HandOverPayload(t)
    PROVE  /\ pc = "running" /\ pc' = "hopped"
           /\ UNCHANGED <<seq, input, done, epoch, health>>
           /\ Len(ledger') = Len(ledger) + 1 /\ Len(ledger) \in Nat
           /\ Newest' = ledger'[Len(ledger) + 1]
           /\ Newest'.to = t /\ Newest'.epoch = epoch
           /\ row'.floor = row.floor /\ row'.done = t /\ reached' = t
           /\ row'.state = IF t = END THEN "succeeded" ELSE "running"
           /\ final' = IF t = END THEN {Newest'.entry} ELSE final
           /\ \A i \in 1 .. Len(ledger) : ledger'[i] = ledger[i]
<1>1. PICK addr, v : CommitHandoff(t, addr, v)
  BY DEF HandOver, HandOverPayload
<1>2. ledger' = Append(ledger, [to |-> t, entry |-> addr, val |-> v, epoch |-> epoch])
  BY <1>1 DEF CommitHandoff
<1>3. /\ Len(ledger') = Len(ledger) + 1 /\ Len(ledger) \in Nat
      /\ ledger'[Len(ledger) + 1] = [to |-> t, entry |-> addr, val |-> v, epoch |-> epoch]
      /\ \A i \in 1 .. Len(ledger) : ledger'[i] = ledger[i]
  BY <1>2 DEF TypeOK
<1>4. Newest' = ledger'[Len(ledger) + 1]
  BY <1>3 DEF Newest
<1> QED
  BY <1>1, <1>3, <1>4 DEF CommitHandoff, Write, state, bounds

\* The counters in the types that arithmetic needs.
LEMMA CounterFacts ==
    ASSUME CheckpointInv
    PROVE  /\ N \in Nat \ {0} /\ END = N
           /\ reached \in 0 .. N /\ done \in 0 .. N /\ seq \in 0 .. N - 1
           /\ row.done \in 0 .. N /\ row.floor \in Nat /\ Len(ledger) \in Nat
           /\ Len(ledger) > row.floor => Newest.to \in 1 .. N
<1>1. TypeOK
  BY DEF CheckpointInv
<1>2. Len(ledger) > row.floor => Newest.to \in 1 .. N
  BY <1>1, RowFacts, NewestFacts
<1> QED
  BY <1>1, <1>2, RowFacts, ConstantsAssumption DEF TypeOK, END

\* The row above the floor that opening looks at is of this execution, and no
\* other row of it leads further.
LEMMA NewestFirst ==
    ASSUME CheckpointInv
    PROVE  /\ Len(ledger) > row.floor =>
                 Len(ledger) \in 1 .. Len(ledger) /\ Newest.epoch = epoch
           /\ \A i \in 1 .. Len(ledger) : ledger[i].epoch = epoch =>
                 Len(ledger) > row.floor /\ ledger[i].to <= Newest.to
           /\ \A i \in 1 .. Len(ledger) :
                 ledger[i].epoch = epoch /\ ledger[i].to >= Newest.to => i = Len(ledger)
<1>1. TypeOK /\ StoreInv
  BY DEF CheckpointInv
<1>2. Len(ledger) > row.floor => Len(ledger) \in 1 .. Len(ledger) /\ Newest.epoch = epoch
  BY <1>1, RowFacts DEF StoreInv, LedgerInv, FloorSeparates, Newest
<1>3. ASSUME NEW i \in 1 .. Len(ledger), ledger[i].epoch = epoch, ledger[i].to >= Newest.to,
             i # Len(ledger)
      PROVE  FALSE
  <2>1. Len(ledger) > row.floor
    BY <1>1, <1>3, NewestIsFurthest
  <2>2. ledger[Len(ledger)].epoch = epoch /\ Len(ledger) \in 1 .. Len(ledger)
    BY <1>2, <2>1 DEF Newest
  <2>3. i \in 1 .. Len(ledger) - 1
    BY <1>3, RowFacts, <1>1
  <2>4. ledger[i].to < ledger[Len(ledger)].to
    BY <1>1, <1>3, <2>2, <2>3 DEF StoreInv, EntryInv
  <2> QED
    BY <1>1, <1>3, <2>1, <2>4, LedgerFacts, CounterFacts DEF Newest
<1> QED
  BY <1>1, <1>2, <1>3, NewestIsFurthest

\* Where memory and row stand while a run works.
LEMMA WorkFacts ==
    ASSUME CheckpointInv
    PROVE  /\ pc \in Entering => row.done = seq /\ done = seq
           /\ pc \in Leaving => row.done = seq
           /\ pc = "stored" => done = seq
           /\ pc \in Leaving \ {"stored"} => done = seq + 1
           /\ pc \in {"mark", "finish"} => seq + 1 = N
           /\ pc \in Entering \cup Leaving =>
                 (Len(ledger) > row.floor => Newest.to <= seq)
           /\ pc = "hopped" => Len(ledger) > row.floor /\ row.done = Newest.to
<1>1. pc \in Entering \cup Leaving => (Len(ledger) > row.floor => Newest.to <= seq)
  BY NewestFirst DEF CheckpointInv, StoreInv, WorkInv, Newest
<1> QED
  BY <1>1 DEF CheckpointInv, StoreInv, WorkInv, Leaving

\* A run reaches its end unharmed only over a terminal row that succeeded.
LEMMA CleanStep ==
    ASSUME CheckpointInv, CleanInv, [Next]_vars
    PROVE  CleanInv'
<1> USE DEF CleanInv, CheckpointInv, Write, Newest, store, state, bounds
<1>0. CASE UNCHANGED vars
  BY <1>0 DEF vars
<1>1. CASE Start /\ UNCHANGED control
  BY <1>1 DEF Start
<1>2. CASE Stop /\ UNCHANGED control
  BY <1>2 DEF Stop, Forget
<1>3. CASE Conflict /\ UNCHANGED control
  BY <1>3 DEF Conflict
<1>4. CASE Skip /\ UNCHANGED control
  BY <1>4 DEF Skip, Skips
<1>5. CASE OpenAtEnd /\ UNCHANGED control
  BY <1>5 DEF OpenAtEnd
<1>6. CASE OpenAtCheckpoint /\ UNCHANGED control
  BY <1>6 DEF OpenAtCheckpoint
<1>7. CASE OpenAtZero /\ UNCHANGED control
  BY <1>7 DEF OpenAtZero
<1>8. CASE MarkRepair /\ UNCHANGED control
  BY <1>8 DEF MarkRepair
<1>9. CASE Settle /\ UNCHANGED control
  BY <1>9 DEF Settle
<1>10. CASE RepairFails /\ UNCHANGED control
  BY <1>10 DEF RepairFails
<1>11. CASE Refuse /\ UNCHANGED control
  BY <1>11 DEF Refuse
<1>12. CASE Check /\ UNCHANGED control
  BY <1>12 DEF Check
<1>13. CASE StoreSeed /\ UNCHANGED control
  BY <1>13 DEF StoreSeed
<1>14. CASE BeginTask /\ UNCHANGED control
  BY <1>14 DEF BeginTask
<1>15. CASE TaskSucceeds /\ UNCHANGED control
  BY <1>15 DEF TaskSucceeds
<1>16. CASE TaskFails /\ UNCHANGED control
  BY <1>16 DEF TaskFails
<1>17. CASE Advance /\ UNCHANGED control
  BY <1>17 DEF Advance
<1>18. CASE CommitCursor /\ UNCHANGED control
  BY <1>18 DEF CommitCursor
<1>19. CASE MarkFinal /\ UNCHANGED control
  BY <1>19 DEF MarkFinal
<1>20. CASE Finish /\ UNCHANGED control
  BY <1>20 DEF Finish
<1>21. CASE Land /\ UNCHANGED control
  BY <1>21 DEF Land
<1>22. CASE Told /\ UNCHANGED control
  BY <1>22 DEF Told
<1>23. CASE StoreRaises /\ UNCHANGED control
  BY <1>23 DEF StoreRaises
<1>24. CASE Recover /\ UNCHANGED control
  BY <1>24 DEF Recover
<1>25. CASE Interrupt /\ UNCHANGED control
  BY <1>25 DEF Interrupt
<1>26. CASE WorkerDies /\ UNCHANGED control
  BY <1>26 DEF WorkerDies
<1>27. ASSUME NEW a \in Addresses, Spoil(a), UNCHANGED control PROVE CleanInv'
  BY <1>27 DEF Spoil
<1>28. ASSUME NEW t \in 1 .. END, HandOver(t) \/ HandOverPayload(t), UNCHANGED control
       PROVE  CleanInv'
  BY <1>28, HopFacts
<1> QED
  BY <1>0, <1>1, <1>2, <1>3, <1>4, <1>5, <1>6, <1>7, <1>8, <1>9, <1>10, <1>11, <1>12, <1>13,
     <1>14, <1>15, <1>16, <1>17, <1>18, <1>19, <1>20, <1>21, <1>22, <1>23, <1>24, <1>25, <1>26,
     <1>27, <1>28 DEF Next, Open, Repair, Work, Failure

\* What a handoff carries was made in the execution that takes it.
LEMMA OwnStep ==
    ASSUME CheckpointInv, OwnInv, [Next]_vars
    PROVE  OwnInv'
<1> USE DEF store, state, bounds
<1>0. CASE UNCHANGED vars
  BY <1>0 DEF vars, OwnInv, Of, SeedValue
<1>1. CASE Start /\ UNCHANGED control
  BY <1>1 DEF Start, OwnInv, Of, SeedValue
<1>2. CASE Stop /\ UNCHANGED control
  BY <1>2 DEF Stop, OwnInv, Of, SeedValue
<1>3. CASE Conflict /\ UNCHANGED control
  BY <1>3 DEF Conflict, OwnInv, Of, SeedValue
<1>4. CASE Skip /\ UNCHANGED control
  BY <1>4 DEF Skip, OwnInv, Of, SeedValue
<1>5. CASE OpenAtEnd /\ UNCHANGED control
  BY <1>5 DEF OpenAtEnd, OwnInv, Of, SeedValue
<1>6. CASE OpenAtCheckpoint /\ UNCHANGED control
  BY <1>6 DEF OpenAtCheckpoint, OwnInv, Of, SeedValue
<1>7. CASE OpenAtZero /\ UNCHANGED control
  <2>1. ledger' = ledger /\ epoch' = epoch + 1 /\ epoch \in Nat
    BY <1>7 DEF OpenAtZero, CheckpointInv, TypeOK
  <2>2. \A i \in 1 .. Len(ledger) : ledger[i].epoch <= epoch /\ ledger[i].epoch \in Nat
    BY LedgerFacts DEF CheckpointInv, StoreInv, LedgerInv
  <2> QED
    BY <2>1, <2>2 DEF OwnInv
<1>8. CASE MarkRepair /\ UNCHANGED control
  BY <1>8 DEF MarkRepair, OwnInv, Of, SeedValue
<1>9. CASE Settle /\ UNCHANGED control
  BY <1>9 DEF Settle, OwnInv, Of, SeedValue
<1>10. CASE RepairFails /\ UNCHANGED control
  BY <1>10 DEF RepairFails, OwnInv, Of, SeedValue
<1>11. CASE Refuse /\ UNCHANGED control
  BY <1>11 DEF Refuse, OwnInv, Of, SeedValue
<1>12. CASE Check /\ UNCHANGED control
  BY <1>12 DEF Check, OwnInv, Of, SeedValue
<1>13. CASE StoreSeed /\ UNCHANGED control
  BY <1>13 DEF StoreSeed, OwnInv, Of, SeedValue
<1>14. CASE BeginTask /\ UNCHANGED control
  BY <1>14 DEF BeginTask, OwnInv, Of, SeedValue
<1>15. CASE TaskSucceeds /\ UNCHANGED control
  BY <1>15 DEF TaskSucceeds, OwnInv, Of, SeedValue
<1>16. CASE TaskFails /\ UNCHANGED control
  BY <1>16 DEF TaskFails, OwnInv, Of, SeedValue
<1>17. CASE Advance /\ UNCHANGED control
  BY <1>17 DEF Advance, OwnInv, Of, SeedValue
<1>18. CASE CommitCursor /\ UNCHANGED control
  BY <1>18 DEF CommitCursor, OwnInv, Of, SeedValue
<1>19. CASE MarkFinal /\ UNCHANGED control
  BY <1>19 DEF MarkFinal, OwnInv, Of, SeedValue
<1>20. CASE Finish /\ UNCHANGED control
  BY <1>20 DEF Finish, OwnInv, Of, SeedValue
<1>21. CASE Land /\ UNCHANGED control
  BY <1>21 DEF Land, OwnInv, Of, SeedValue
<1>22. CASE Told /\ UNCHANGED control
  BY <1>22 DEF Told, OwnInv, Of, SeedValue
<1>23. CASE StoreRaises /\ UNCHANGED control
  BY <1>23 DEF StoreRaises, OwnInv, Of, SeedValue
<1>24. CASE Recover /\ UNCHANGED control
  BY <1>24 DEF Recover, OwnInv, Of, SeedValue
<1>25. CASE Interrupt /\ UNCHANGED control
  BY <1>25 DEF Interrupt, OwnInv, Of, SeedValue
<1>26. CASE WorkerDies /\ UNCHANGED control
  BY <1>26 DEF WorkerDies, OwnInv, Of, SeedValue
<1>27. ASSUME NEW a \in Addresses, Spoil(a), UNCHANGED control PROVE OwnInv'
  BY <1>27 DEF Spoil, OwnInv, Of, SeedValue
<1>28. ASSUME NEW t \in 1 .. END, HandOver(t) \/ HandOverPayload(t), UNCHANGED control
       PROVE  OwnInv'
  <2>1. PICK addr, v : CommitHandoff(t, addr, v) /\ (v = input.val \/ v = Made(t))
    BY <1>28 DEF HandOver, HandOverPayload
  <2>2. pc = "running" /\ epoch' = epoch
    BY <2>1 DEF CommitHandoff
  <2>3. Of(v)
    <3>1. Fits(input.val, seq)
      BY <2>2 DEF CheckpointInv, StoreInv, WorkInv, Entering
    <3> QED
      BY <2>1, <3>1 DEF Fits, Made, Of, OwnInv
  <2>4. ledger' = Append(ledger, [to |-> t, entry |-> addr, val |-> v, epoch |-> epoch])
    BY <2>1 DEF CommitHandoff
  <2>5. /\ Len(ledger') = Len(ledger) + 1 /\ Len(ledger) \in Nat
        /\ ledger'[Len(ledger) + 1].val = v
        /\ \A i \in 1 .. Len(ledger) : ledger'[i] = ledger[i]
    BY <2>4 DEF CheckpointInv, TypeOK
  <2> QED
    BY <2>2, <2>3, <2>5 DEF OwnInv, Of, SeedValue
<1> QED
  BY <1>0, <1>1, <1>2, <1>3, <1>4, <1>5, <1>6, <1>7, <1>8, <1>9, <1>10, <1>11, <1>12, <1>13,
     <1>14, <1>15, <1>16, <1>17, <1>18, <1>19, <1>20, <1>21, <1>22, <1>23, <1>24, <1>25, <1>26,
     <1>27, <1>28 DEF Next, Open, Repair, Work, Failure

\* What is at the end of a pipeline, by its ledger or its cursor, is its result.
LEMMA EndIsResult ==
    ASSUME CheckpointInv, OwnInv, AtEnd, Usable(Result)
    PROVE  IsResult(Result)
<1>1. TypeOK /\ StoreInv
  BY DEF CheckpointInv
<1>2. Result \in Addresses /\ art[Result] # Absent
  BY <1>1, ResultFacts DEF Usable
<1>3. CASE Pending /\ Newest.to = END
  <2> DEFINE n == Len(ledger)
  <2>1. n > row.floor /\ Result = Newest.entry
    BY <1>1, <1>3, PendingFacts DEF Result
  <2>2. n \in 1 .. n /\ ledger[n].epoch = epoch /\ ledger[n] = Newest
    BY <2>1, NewestFirst DEF Newest
  <2>3. art[Result].val = Newest.val
    BY <1>1, <2>1, <2>2 DEF StoreInv, EntryInv, Holds
  <2> QED
    BY <1>2, <1>3, <2>1, <2>2, <2>3 DEF IsResult, OwnInv
<1>4. CASE ~(Pending /\ Newest.to = END)
  <2>1. row.done = N /\ Resumable /\ Result = N - 1
    BY <1>4, CounterFacts DEF AtEnd, Result
  <2>2. Len(ledger) > row.floor => Newest.to < N
    <3>1. Len(ledger) > row.floor => Pending
      BY <1>1, <2>1, RowFacts DEF Pending, StoreInv, LedgerInv, TypeOK
    <3> QED
      BY <1>4, <3>1, CounterFacts
  <2>3. Holds(N - 1, Made(N))
    BY <1>1, <2>1, <2>2, CounterFacts DEF StoreInv, CursorInv, Promised
  <2> QED
    BY <1>2, <2>1, <2>3 DEF IsResult, Holds, Of, Made
<1> QED
  BY <1>3, <1>4

\* A result stays one as long as its value is kept.
LEMMA ResultKept ==
    ASSUME CheckpointInv, UNCHANGED <<ledger, epoch>>,
           NEW a, IsResult(a), Keeps(a)
    PROVE  IsResult(a)'
  BY DEF IsResult, Keeps, Of, Made, SeedValue

\* The program points at which the row may already say succeeded.
Ended == {"off", "open", "hopped", "told", "recover", "over"}

\* Most steps mark nothing and complete nothing.
LEMMA WholeKept ==
    ASSUME CheckpointInv, WholeInv, UNCHANGED <<final, ledger, epoch>>,
           \A a \in Addresses : Keeps(a),
           row'.state = "succeeded" => row.state = "succeeded" /\ pc' \in Ended,
           pc' \notin {"repair", "settle", "finish"}
    PROVE  WholeInv'
<1>1. \A a \in Addresses : IsResult(a) => IsResult(a)'
  BY ResultKept
<1>2. row'.state = "succeeded" => \E a \in Addresses : final' = {a} /\ IsResult(a)'
  BY <1>1 DEF WholeInv
<1> QED
  BY <1>2 DEF WholeInv, Ended

\* A step that writes no artifact keeps every value.
LEMMA Unwritten == ASSUME art' = art PROVE \A a \in Addresses : Keeps(a)
  BY DEF Keeps

\* The final mark and the terminal row belong to the same artifact.
LEMMA WholeStep ==
    ASSUME CheckpointInv, CheckpointInv', OwnInv, OwnInv', CleanInv, WholeInv, [Next]_vars
    PROVE  WholeInv'
<1> USE DEF store, state, bounds
<1>0. CASE UNCHANGED vars
  <2>1. UNCHANGED <<final, ledger, epoch, row, pc, input, seq>> /\ art' = art
    BY <1>0 DEF vars
  <2>2. \A a \in Addresses : IsResult(a) => IsResult(a)'
    BY <2>1, Unwritten, ResultKept
  <2> QED
    BY <2>1, <2>2 DEF WholeInv, IsResult
<1>1. CASE Start /\ UNCHANGED control
  <2>1. UNCHANGED <<final, ledger, epoch>> /\ art' = art /\ pc' \notin {"repair", "settle", "finish"}
    BY <1>1 DEF Start, Forget
  <2>2. row'.state = "succeeded" => row.state = "succeeded" /\ pc' \in Ended
    BY <1>1 DEF Start, Forget, Write, WholeInv, Ended
  <2> QED
    BY <2>1, <2>2, Unwritten, WholeKept
<1>2. CASE Stop /\ UNCHANGED control
  <2>1. UNCHANGED <<final, ledger, epoch>> /\ art' = art /\ pc' \notin {"repair", "settle", "finish"}
    BY <1>2 DEF Stop, Forget
  <2>2. row'.state = "succeeded" => row.state = "succeeded" /\ pc' \in Ended
    BY <1>2 DEF Stop, Forget, Write, WholeInv, Ended
  <2> QED
    BY <2>1, <2>2, Unwritten, WholeKept
<1>3. CASE Conflict /\ UNCHANGED control
  <2>1. UNCHANGED <<final, ledger, epoch>> /\ art' = art /\ pc' \notin {"repair", "settle", "finish"}
    BY <1>3 DEF Conflict, Forget
  <2>2. row'.state = "succeeded" => row.state = "succeeded" /\ pc' \in Ended
    BY <1>3 DEF Conflict, Forget, Write, WholeInv, Ended
  <2> QED
    BY <2>1, <2>2, Unwritten, WholeKept
<1>4. CASE Skip /\ UNCHANGED control
  <2>1. UNCHANGED <<final, ledger, epoch>> /\ art' = art /\ pc' \notin {"repair", "settle", "finish"}
    BY <1>4 DEF Skip, Forget
  <2>2. row'.state = "succeeded" => row.state = "succeeded" /\ pc' \in Ended
    BY <1>4 DEF Skip, Forget, Write, WholeInv, Ended
  <2> QED
    BY <2>1, <2>2, Unwritten, WholeKept
<1>5. CASE OpenAtEnd /\ UNCHANGED control
  <2>1. /\ UNCHANGED <<row, art, final, ledger, epoch>> /\ input'.addr = Result
        /\ pc' = IF Result \in final THEN "settle" ELSE "repair"
        /\ AtEnd /\ Usable(Result)
    BY <1>5 DEF OpenAtEnd, Settles
  <2>2. row.state # "succeeded"
    BY <2>1 DEF AtEnd, Pending, Resumable
  <2>3. IsResult(Result)
    BY <2>1, EndIsResult
  <2>4. IsResult(input.addr)'
    BY <2>1, <2>3 DEF IsResult, Of, Made, SeedValue
  <2>5. pc' = "settle" => final' = {Result}
    BY <2>1 DEF WholeInv
  <2> QED
    BY <2>1, <2>2, <2>4, <2>5 DEF WholeInv
<1>6. CASE OpenAtCheckpoint /\ UNCHANGED control
  <2>1. UNCHANGED <<final, ledger, epoch>> /\ art' = art /\ pc' \notin {"repair", "settle", "finish"}
    BY <1>6 DEF OpenAtCheckpoint, Forget
  <2>2. row'.state = "succeeded" => row.state = "succeeded" /\ pc' \in Ended
    BY <1>6 DEF OpenAtCheckpoint, Forget, Write, WholeInv, Ended
  <2> QED
    BY <2>1, <2>2, Unwritten, WholeKept
<1>7. CASE OpenAtZero /\ UNCHANGED control
  <2>1. row'.state = "running" /\ pc' = "check" /\ (final' = final \/ final' = {})
    BY <1>7 DEF OpenAtZero, ResetPipeline, Write
  <2> QED
    BY <2>1 DEF WholeInv
<1>8. CASE MarkRepair /\ UNCHANGED control
  <2>1. /\ UNCHANGED <<row, art, ledger, epoch, input>> /\ final' = {input.addr}
        /\ pc = "repair" /\ pc' = "settle"
    BY <1>8 DEF MarkRepair
  <2>2. IsResult(input.addr)'
    BY <2>1 DEF WholeInv, IsResult, Of, Made, SeedValue
  <2> QED
    BY <2>1, <2>2 DEF WholeInv
<1>9. CASE Settle /\ UNCHANGED control
  <2>1. /\ UNCHANGED <<art, final, ledger, epoch, input>>
        /\ pc = "settle" /\ pc' = "told"
    BY <1>9 DEF Settle
  <2>2. input.addr \in Addresses /\ final' = {input.addr} /\ IsResult(input.addr)
    BY <2>1 DEF WholeInv, IsResult
  <2>3. Keeps(input.addr)
    BY <2>1 DEF Keeps
  <2>4. \E a \in Addresses : final' = {a} /\ IsResult(a)'
    BY <2>1, <2>2, <2>3, ResultKept
  <2> QED
    BY <2>1, <2>4 DEF WholeInv
<1>10. CASE RepairFails /\ UNCHANGED control
  <2>1. UNCHANGED <<final, ledger, epoch>> /\ art' = art /\ pc' \notin {"repair", "settle", "finish"}
    BY <1>10 DEF RepairFails, Forget
  <2>2. row'.state = "succeeded" => row.state = "succeeded" /\ pc' \in Ended
    BY <1>10 DEF RepairFails, Forget, Write, WholeInv, Ended
  <2> QED
    BY <2>1, <2>2, Unwritten, WholeKept
<1>11. CASE Refuse /\ UNCHANGED control
  <2>1. UNCHANGED <<final, ledger, epoch>> /\ art' = art /\ pc' \notin {"repair", "settle", "finish"}
    BY <1>11 DEF Refuse, Forget
  <2>2. row'.state = "succeeded" => row.state = "succeeded" /\ pc' \in Ended
    BY <1>11 DEF Refuse, Forget, Write, WholeInv, Ended
  <2> QED
    BY <2>1, <2>2, Unwritten, WholeKept
<1>12. CASE Check /\ UNCHANGED control
  <2>1. UNCHANGED <<final, ledger, epoch>> /\ art' = art /\ pc' \notin {"repair", "settle", "finish"}
    BY <1>12 DEF Check, Forget
  <2>2. row'.state = "succeeded" => row.state = "succeeded" /\ pc' \in Ended
    BY <1>12 DEF Check, Forget, Write, WholeInv, Ended
  <2> QED
    BY <2>1, <2>2, Unwritten, WholeKept
<1>13. CASE StoreSeed /\ UNCHANGED control
  <2>1. UNCHANGED row /\ pc = "seed" /\ pc' = "begin" /\ final' \subseteq final
    BY <1>13 DEF StoreSeed
  <2> QED
    BY <2>1 DEF WholeInv
<1>14. CASE BeginTask /\ UNCHANGED control
  <2>1. UNCHANGED <<final, ledger, epoch>> /\ art' = art /\ pc' \notin {"repair", "settle", "finish"}
    BY <1>14 DEF BeginTask, Forget
  <2>2. row'.state = "succeeded" => row.state = "succeeded" /\ pc' \in Ended
    BY <1>14 DEF BeginTask, Forget, Write, WholeInv, Ended
  <2> QED
    BY <2>1, <2>2, Unwritten, WholeKept
<1>15. CASE TaskSucceeds /\ UNCHANGED control
  <2>1. UNCHANGED row /\ pc = "running" /\ pc' = "stored" /\ final' \subseteq final
    BY <1>15 DEF TaskSucceeds
  <2> QED
    BY <2>1 DEF WholeInv
<1>16. CASE TaskFails /\ UNCHANGED control
  <2>1. UNCHANGED <<final, ledger, epoch>> /\ art' = art /\ pc' \notin {"repair", "settle", "finish"}
    BY <1>16 DEF TaskFails, Forget
  <2>2. row'.state = "succeeded" => row.state = "succeeded" /\ pc' \in Ended
    BY <1>16 DEF TaskFails, Forget, Write, WholeInv, Ended
  <2> QED
    BY <2>1, <2>2, Unwritten, WholeKept
<1>17. CASE Advance /\ UNCHANGED control
  <2>1. UNCHANGED <<final, ledger, epoch>> /\ art' = art /\ pc' \notin {"repair", "settle", "finish"}
    BY <1>17 DEF Advance, Forget
  <2>2. row'.state = "succeeded" => row.state = "succeeded" /\ pc' \in Ended
    BY <1>17 DEF Advance, Forget, Write, WholeInv, Ended
  <2> QED
    BY <2>1, <2>2, Unwritten, WholeKept
<1>18. CASE CommitCursor /\ UNCHANGED control
  <2>1. UNCHANGED <<final, ledger, epoch>> /\ art' = art /\ pc' \notin {"repair", "settle", "finish"}
    BY <1>18 DEF CommitCursor, Forget
  <2>2. row'.state = "succeeded" => row.state = "succeeded" /\ pc' \in Ended
    BY <1>18 DEF CommitCursor, Forget, Write, WholeInv, Ended
  <2> QED
    BY <2>1, <2>2, Unwritten, WholeKept
<1>19. CASE MarkFinal /\ UNCHANGED control
  <2>1. UNCHANGED <<row, seq>> /\ pc = "mark" /\ pc' = "finish" /\ final' = {seq}
    BY <1>19 DEF MarkFinal
  <2> QED
    BY <2>1 DEF WholeInv
<1>20. CASE Finish /\ UNCHANGED control
  <2>1. UNCHANGED <<art, final, ledger, epoch>> /\ pc = "finish" /\ pc' = "told"
    BY <1>20 DEF Finish
  <2>2. final = {seq} /\ seq = N - 1 /\ Holds(N - 1, Made(N))
    <3>1. seq + 1 = N /\ Holds(seq, Made(seq + 1))
      BY <2>1 DEF CheckpointInv, StoreInv, WorkInv, Leaving
    <3>2. seq = N - 1
      BY <3>1, CounterFacts
    <3> QED
      BY <2>1, <3>1, <3>2 DEF WholeInv
  <2>3. N - 1 \in Addresses
    BY AddressFacts, ConstantsAssumption
  <2>4. IsResult(N - 1)
    BY <2>2, <2>3 DEF IsResult, Holds, Of, Made
  <2>5. IsResult(N - 1)'
    BY <2>1, <2>4 DEF IsResult, Of, Made, SeedValue
  <2>6. \E a \in Addresses : final' = {a} /\ IsResult(a)'
    BY <2>1, <2>2, <2>3, <2>5
  <2> QED
    BY <2>1, <2>6 DEF WholeInv
<1>21. CASE Land /\ UNCHANGED control
  <2>1. UNCHANGED <<final, ledger, epoch>> /\ art' = art /\ pc' \notin {"repair", "settle", "finish"}
    BY <1>21 DEF Land, Forget
  <2>2. row'.state = "succeeded" => row.state = "succeeded" /\ pc' \in Ended
    BY <1>21 DEF Land, Forget, Write, WholeInv, Ended, CleanInv
  <2> QED
    BY <2>1, <2>2, Unwritten, WholeKept
<1>22. CASE Told /\ UNCHANGED control
  <2>1. UNCHANGED <<final, ledger, epoch>> /\ art' = art /\ pc' \notin {"repair", "settle", "finish"}
    BY <1>22 DEF Told, Forget
  <2>2. row'.state = "succeeded" => row.state = "succeeded" /\ pc' \in Ended
    BY <1>22 DEF Told, Forget, Write, WholeInv, Ended
  <2> QED
    BY <2>1, <2>2, Unwritten, WholeKept
<1>23. CASE StoreRaises /\ UNCHANGED control
  <2>1. UNCHANGED <<final, ledger, epoch>> /\ art' = art /\ pc' \notin {"repair", "settle", "finish"}
    BY <1>23 DEF StoreRaises, Forget
  <2>2. row'.state = "succeeded" => row.state = "succeeded" /\ pc' \in Ended
    BY <1>23 DEF StoreRaises, Forget, Write, WholeInv, Ended
  <2> QED
    BY <2>1, <2>2, Unwritten, WholeKept
<1>24. CASE Recover /\ UNCHANGED control
  <2>1. UNCHANGED <<final, ledger, epoch>> /\ art' = art /\ pc' \notin {"repair", "settle", "finish"}
    BY <1>24 DEF Recover, Forget
  <2>2. row'.state = "succeeded" => row.state = "succeeded" /\ pc' \in Ended
    BY <1>24 DEF Recover, Forget, Write, WholeInv, Ended
  <2> QED
    BY <2>1, <2>2, Unwritten, WholeKept
<1>25. CASE Interrupt /\ UNCHANGED control
  <2>1. UNCHANGED <<final, ledger, epoch>> /\ art' = art /\ pc' \notin {"repair", "settle", "finish"}
    BY <1>25 DEF Interrupt, Forget
  <2>2. row'.state = "succeeded" => row.state = "succeeded" /\ pc' \in Ended
    BY <1>25 DEF Interrupt, Forget, Write, WholeInv, Ended
  <2> QED
    BY <2>1, <2>2, Unwritten, WholeKept
<1>26. CASE WorkerDies /\ UNCHANGED control
  <2>1. UNCHANGED <<final, ledger, epoch>> /\ art' = art /\ pc' \notin {"repair", "settle", "finish"}
    BY <1>26 DEF WorkerDies, Forget
  <2>2. row'.state = "succeeded" => row.state = "succeeded" /\ pc' \in Ended
    BY <1>26 DEF WorkerDies, Forget, Write, WholeInv, Ended
  <2> QED
    BY <2>1, <2>2, Unwritten, WholeKept
<1>27. ASSUME NEW a \in Addresses, Spoil(a), UNCHANGED control PROVE WholeInv'
  <2>1. /\ UNCHANGED <<final, ledger, epoch, row>> /\ pc' = "off"
        /\ \E p \in {"lost", "torn"} : art' = [art EXCEPT ![a] = [val |-> art[a].val, payload |-> p]]
    BY <1>27 DEF Spoil
  <2>2. PICK p \in {"lost", "torn"} : art' = [art EXCEPT ![a] = [val |-> art[a].val, payload |-> p]]
    BY <2>1
  <2>3. art[a] \in Artifacts /\ [val |-> art[a].val, payload |-> p] \in Artifacts
    BY <1>27 DEF Spoil, CheckpointInv, TypeOK, Artifacts
  <2>4. \A b \in Addresses : Keeps(b)
    BY <2>2, <2>3, ConstantsAssumption DEF Keeps, CheckpointInv, TypeOK
  <2> QED
    BY <2>1, <2>4, WholeKept DEF Ended
<1>28. ASSUME NEW t \in 1 .. END, HandOver(t) \/ HandOverPayload(t), UNCHANGED control
       PROVE  WholeInv'
  <2> DEFINE n == Len(ledger)
  <2>1. /\ pc = "running" /\ pc' = "hopped" /\ n \in Nat /\ Len(ledger') = n + 1
        /\ row'.state = IF t = END THEN "succeeded" ELSE "running"
        /\ final' = IF t = END THEN {Newest'.entry} ELSE final
        /\ Newest' = ledger'[n + 1] /\ Newest'.to = t /\ Newest'.epoch = epoch' /\ epoch' = epoch
    BY <1>28, HopFacts DEF CheckpointInv
  <2>2. CASE t = END
    <3>1. n + 1 \in 1 .. Len(ledger') /\ ledger'[n + 1] = Newest' /\ Newest'.epoch = epoch'
      BY <2>1
    <3>2. Holds(Newest.entry, Newest.val)' /\ Of(Newest.val)'
      BY <3>1 DEF CheckpointInv, StoreInv, EntryInv, OwnInv
    <3>3. Newest'.entry \in Addresses
      <4>1. ledger' \in Seq(Handoffs)
        BY DEF CheckpointInv, TypeOK
      <4>2. \A i \in 1 .. Len(ledger') : ledger'[i] \in Handoffs
        BY <4>1
      <4> QED
        BY <3>1, <4>2 DEF Handoffs
    <3>4. IsResult(Newest.entry)'
      BY <2>1, <2>2, <3>1, <3>2, <3>3 DEF IsResult, Holds, END
    <3> QED
      BY <2>1, <2>2, <3>3, <3>4 DEF WholeInv
  <2>3. CASE t # END
    BY <2>1, <2>3 DEF WholeInv
  <2> QED
    BY <2>2, <2>3
<1> QED
  BY <1>0, <1>1, <1>2, <1>3, <1>4, <1>5, <1>6, <1>7, <1>8, <1>9, <1>10, <1>11, <1>12, <1>13,
     <1>14, <1>15, <1>16, <1>17, <1>18, <1>19, <1>20, <1>21, <1>22, <1>23, <1>24, <1>25, <1>26,
     <1>27, <1>28 DEF Next, Open, Repair, Work, Failure

\* No write of a cursor makes cursor and ledger forget what was reached.
LEMMA ReachStep ==
    ASSUME CheckpointInv, CheckpointInv', ReachInv, [Next]_vars
    PROVE  ReachInv'
<1> USE DEF store, state, bounds
<1>0. CASE UNCHANGED vars
  BY <1>0 DEF vars, ReachInv, Recorded, Newest
<1>1. CASE Start /\ UNCHANGED control
  BY <1>1, CounterFacts, WorkFacts DEF Start, ReachInv, Recorded, Write, Newest, Forget, Entering,
     Leaving, InWorker, Max2
<1>2. CASE Stop /\ UNCHANGED control
  BY <1>2, CounterFacts, WorkFacts DEF Stop, ReachInv, Recorded, Write, Newest, Forget, Entering,
     Leaving, InWorker, Max2
<1>3. CASE Conflict /\ UNCHANGED control
  BY <1>3, CounterFacts, WorkFacts DEF Conflict, ReachInv, Recorded, Write, Newest, Forget,
     Entering, Leaving, InWorker, Max2
<1>4. CASE Skip /\ UNCHANGED control
  BY <1>4, CounterFacts, WorkFacts DEF Skip, ReachInv, Recorded, Write, Newest, Forget, Entering,
     Leaving, InWorker, Max2
<1>5. CASE OpenAtEnd /\ UNCHANGED control
  BY <1>5, CounterFacts, WorkFacts DEF OpenAtEnd, ReachInv, Recorded, Write, Newest, Forget,
     Entering, Leaving, InWorker, Max2
<1>6. CASE OpenAtCheckpoint /\ UNCHANGED control
  <2>1. /\ row'.done = Position /\ row'.state = "running" /\ done' = Position
        /\ reached' = Position /\ UNCHANGED ledger /\ row'.floor = row.floor
        /\ (ByHandoff \/ ByCursor) /\ Usable(Entry)
    BY <1>6 DEF OpenAtCheckpoint, Resumes, Write
  <2>2. Position \in 1 .. N - 1
    BY <2>1, PositionFacts DEF CheckpointInv
  <2>3. Len(ledger) > row.floor => Newest.to <= Position
    <3>1. \A i \in 1 .. Len(ledger) : ledger[i].epoch = epoch => ledger[i].to <= Position
      BY <2>1, OpeningFits DEF CheckpointInv
    <3> QED
      BY <3>1, NewestFirst DEF Newest
  <2> QED
    BY <2>1, <2>2, <2>3 DEF ReachInv, Recorded, Newest
<1>7. CASE OpenAtZero /\ UNCHANGED control
  <2>1. /\ row'.done = 0 /\ row'.state = "running" /\ done' = 0 /\ reached' = 0
        /\ UNCHANGED ledger
        /\ ledger = <<>> \/ row'.floor = Len(ledger)
    BY <1>7 DEF OpenAtZero, ResetPipeline, Write, CheckpointInv, StoreInv, LedgerInv, TypeOK
  <2>2. ~(Len(ledger') > row'.floor)
    <3>1. row'.floor \in Nat
      BY <1>7, CounterFacts DEF OpenAtZero, ResetPipeline, Write
    <3> QED
      BY <2>1, <3>1, CounterFacts
  <2> QED
    BY <2>1, <2>2 DEF ReachInv, Recorded
<1>8. CASE MarkRepair /\ UNCHANGED control
  BY <1>8, CounterFacts, WorkFacts DEF MarkRepair, ReachInv, Recorded, Write, Newest, Forget,
     Entering, Leaving, InWorker, Max2
<1>9. CASE Settle /\ UNCHANGED control
  BY <1>9, CounterFacts, WorkFacts DEF Settle, ReachInv, Recorded, Write, Newest, Forget,
     Entering, Leaving, InWorker, Max2
<1>10. CASE RepairFails /\ UNCHANGED control
  BY <1>10, CounterFacts, WorkFacts DEF RepairFails, ReachInv, Recorded, Write, Newest, Forget,
     Entering, Leaving, InWorker, Max2
<1>11. CASE Refuse /\ UNCHANGED control
  BY <1>11, CounterFacts, WorkFacts DEF Refuse, ReachInv, Recorded, Write, Newest, Forget,
     Entering, Leaving, InWorker, Max2
<1>12. CASE Check /\ UNCHANGED control
  BY <1>12, CounterFacts, WorkFacts DEF Check, ReachInv, Recorded, Write, Newest, Forget,
     Entering, Leaving, InWorker, Max2
<1>13. CASE StoreSeed /\ UNCHANGED control
  BY <1>13, CounterFacts, WorkFacts DEF StoreSeed, ReachInv, Recorded, Write, Newest, Forget,
     Entering, Leaving, InWorker, Max2
<1>14. CASE BeginTask /\ UNCHANGED control
  BY <1>14, CounterFacts, WorkFacts DEF BeginTask, ReachInv, Recorded, Write, Newest, Forget,
     Entering, Leaving, InWorker, Max2
<1>15. CASE TaskSucceeds /\ UNCHANGED control
  BY <1>15, CounterFacts, WorkFacts DEF TaskSucceeds, ReachInv, Recorded, Write, Newest, Forget,
     Entering, Leaving, InWorker, Max2
<1>16. CASE TaskFails /\ UNCHANGED control
  BY <1>16, CounterFacts, WorkFacts DEF TaskFails, ReachInv, Recorded, Write, Newest, Forget,
     Entering, Leaving, InWorker, Max2
<1>17. CASE Advance /\ UNCHANGED control
  BY <1>17, CounterFacts, WorkFacts DEF Advance, ReachInv, Recorded, Write, Newest, Forget,
     Entering, Leaving, InWorker, Max2
<1>18. CASE CommitCursor /\ UNCHANGED control
  BY <1>18, CounterFacts, WorkFacts DEF CommitCursor, ReachInv, Recorded, Write, Newest, Forget,
     Entering, Leaving, InWorker, Max2
<1>19. CASE MarkFinal /\ UNCHANGED control
  BY <1>19, CounterFacts, WorkFacts DEF MarkFinal, ReachInv, Recorded, Write, Newest, Forget,
     Entering, Leaving, InWorker, Max2
<1>20. CASE Finish /\ UNCHANGED control
  BY <1>20, CounterFacts, WorkFacts DEF Finish, ReachInv, Recorded, Write, Newest, Forget,
     Entering, Leaving, InWorker, Max2
<1>21. CASE Land /\ UNCHANGED control
  BY <1>21, CounterFacts, WorkFacts DEF Land, ReachInv, Recorded, Write, Newest, Forget, Entering,
     Leaving, InWorker, Max2
<1>22. CASE Told /\ UNCHANGED control
  BY <1>22, CounterFacts, WorkFacts DEF Told, ReachInv, Recorded, Write, Newest, Forget, Entering,
     Leaving, InWorker, Max2
<1>23. CASE StoreRaises /\ UNCHANGED control
  BY <1>23, CounterFacts, WorkFacts DEF StoreRaises, ReachInv, Recorded, Write, Newest, Forget,
     Entering, Leaving, InWorker, Max2
<1>24. CASE Recover /\ UNCHANGED control
  BY <1>24, CounterFacts, WorkFacts DEF Recover, ReachInv, Recorded, Write, Newest, Forget,
     Entering, Leaving, InWorker, Max2
<1>25. CASE Interrupt /\ UNCHANGED control
  BY <1>25, CounterFacts, WorkFacts DEF Interrupt, ReachInv, Recorded, Write, Newest, Forget,
     Entering, Leaving, InWorker, Max2
<1>26. CASE WorkerDies /\ UNCHANGED control
  BY <1>26, CounterFacts, WorkFacts DEF WorkerDies, ReachInv, Recorded, Write, Newest, Forget,
     Entering, Leaving, InWorker, Max2
<1>27. ASSUME NEW a \in Addresses, Spoil(a), UNCHANGED control PROVE ReachInv'
  BY <1>27 DEF Spoil, ReachInv, Recorded, Newest
<1>28. ASSUME NEW t \in 1 .. END, HandOver(t) \/ HandOverPayload(t), UNCHANGED control
       PROVE  ReachInv'
  BY <1>28, HopFacts, CounterFacts DEF ReachInv, Recorded, CheckpointInv, StoreInv, LedgerInv
<1> QED
  BY <1>0, <1>1, <1>2, <1>3, <1>4, <1>5, <1>6, <1>7, <1>8, <1>9, <1>10, <1>11, <1>12, <1>13,
     <1>14, <1>15, <1>16, <1>17, <1>18, <1>19, <1>20, <1>21, <1>22, <1>23, <1>24, <1>25, <1>26,
     <1>27, <1>28 DEF Next, Open, Repair, Work, Failure

-----------------------------------------------------------------------------
(* Theorems *)

\* What holds between any two steps of a run, in memory and in the store.
RecoveryInv == CheckpointInv /\ CleanInv /\ OwnInv /\ WholeInv /\ ReachInv

\* The invariants hold before the first run.
LEMMA InitRecovery == Init => RecoveryInv
<1> SUFFICES ASSUME Init PROVE RecoveryInv
  OBVIOUS
<1>1. CheckpointInv
  BY InitTypes, InitStore DEF CheckpointInv
<1>2. ledger = <<>> /\ Len(ledger) = 0 /\ row.floor = 0
  BY DEF Init
<1>3. CleanInv /\ OwnInv /\ WholeInv
  BY <1>2 DEF Init, CleanInv, OwnInv, WholeInv
<1>4. ReachInv
  BY <1>2 DEF Init, ReachInv, Recorded
<1> QED
  BY <1>1, <1>3, <1>4 DEF RecoveryInv

\* The invariants hold between any two steps.
LEMMA RecoveryInductive == Spec => []RecoveryInv
<1>1. RecoveryInv /\ [Next]_vars => RecoveryInv'
  <2> SUFFICES ASSUME RecoveryInv, [Next]_vars PROVE RecoveryInv'
    OBVIOUS
  <2>1. CheckpointInv /\ CheckpointInv'
    BY StepTypes, StepStore DEF CheckpointInv, RecoveryInv
  <2>2. CleanInv' /\ OwnInv'
    BY <2>1, CleanStep, OwnStep DEF RecoveryInv
  <2> QED
    BY <2>1, <2>2, WholeStep, ReachStep DEF RecoveryInv
<1> QED
  BY <1>1, InitRecovery, PTL DEF Spec

\* No stored state is a dead end: whatever earlier runs left behind, a run that
\* meets no failure of its own leaves the pipeline succeeded.
THEOREM CleanRunsSucceed == Spec => []CleanRunSucceeds
<1>1. RecoveryInv => CleanRunSucceeds
  BY DEF RecoveryInv, CleanInv, CleanRunSucceeds
<1> QED
  BY <1>1, RecoveryInductive, PTL

\* From the moment a row says succeeded, one artifact is final, and it is the
\* result of the execution that succeeded: however that came about, by its last
\* task, by a handoff to the end, or by the repair of an earlier run's work.
THEOREM SuccessesAreWhole == Spec => []SuccessIsWhole
<1>1. RecoveryInv => SuccessIsWhole
  BY DEF RecoveryInv, WholeInv, IsResult, SuccessIsWhole
<1> QED
  BY <1>1, RecoveryInductive, PTL

\* Where the furthest position can still be entered, opening settles the
\* pipeline or goes on there.
LEMMA OpensAtReached ==
    ASSUME RecoveryInv, row.state \in {"absent", "failed", "interrupted"},
           "fresh" \notin mode, Continuable, ~Settles, reached > 0
    PROVE  Resumes /\ Position = reached
<1>1. TypeOK /\ CheckpointInv /\ ReachInv
  BY DEF RecoveryInv, CheckpointInv
<1>2. Resumable
  BY <1>1, CounterFacts DEF Resumable, ReachInv
<1>3. Len(ledger) > row.floor => Pending
  BY <1>1, <1>2, RowFacts DEF Pending, CheckpointInv, StoreInv, LedgerInv, TypeOK
<1>4. Pending => Len(ledger) > row.floor
  BY DEF Pending
<1>5. CASE Len(ledger) > row.floor /\ Newest.to = reached
  <2>1. Len(ledger) \in Hops /\ \A i \in Hops : i = Len(ledger)
    BY <1>1, <1>5, NewestFirst, CounterFacts DEF Hops, Newest
  <2>2. Usable(Newest.entry)
    BY <2>1 DEF Continuable, Newest
  <2>3. Newest.to < END
    <3>1. CASE Newest.to = END
      BY <1>3, <1>5, <2>2, <3>1 DEF Settles, AtEnd, Result
    <3> QED
      BY <1>1, <1>5, <3>1, CounterFacts
  <2>4. row.done <= reached /\ reached < N
    BY <1>1, <1>5, <2>3, CounterFacts DEF ReachInv
  <2>5. ~AtEnd /\ Cursor = row.done
    BY <1>1, <2>3, <2>4, CounterFacts DEF AtEnd, Cursor
  <2>6. ByHandoff
    BY <1>1, <1>3, <1>5, <2>3, <2>4, <2>5, CounterFacts DEF ByHandoff
  <2> QED
    BY <1>5, <2>2, <2>6 DEF Resumes, Position, Entry
<1>6. CASE ~(Len(ledger) > row.floor /\ Newest.to = reached)
  <2>1. Len(ledger) > row.floor => Newest.to < reached
    BY <1>1, <1>6, CounterFacts DEF ReachInv
  <2>2. row.done = reached
    BY <1>1, <2>1, CounterFacts DEF ReachInv, Recorded
  <2>3. Hops = {}
    <3> SUFFICES ASSUME NEW i \in Hops PROVE FALSE
      OBVIOUS
    <3>1. i \in 1 .. Len(ledger) /\ ledger[i].epoch = epoch /\ ledger[i].to = reached
      BY DEF Hops
    <3>2. Len(ledger) > row.floor /\ ledger[i].to <= Newest.to
      BY <1>1, <3>1, NewestFirst
    <3> QED
      BY <1>1, <2>1, <3>1, <3>2, CounterFacts
  <2>4. Usable(reached - 1)
    BY <2>3 DEF Continuable
  <2>5. ~(Pending /\ Newest.to = END)
    BY <1>1, <1>4, <2>1, CounterFacts
  <2>6. reached < N
    <3>1. CASE reached = N
      <4>1. AtEnd /\ Result = reached - 1
        BY <1>1, <1>2, <2>2, <2>5, <3>1, CounterFacts DEF AtEnd, Result
      <4> QED
        BY <2>4, <4>1 DEF Settles
    <3> QED
      BY <1>1, <3>1, CounterFacts
  <2>7. ~AtEnd /\ Cursor = row.done
    BY <1>1, <2>2, <2>5, <2>6, CounterFacts DEF AtEnd, Cursor
  <2>8. ~ByHandoff
    BY <1>1, <1>4, <2>1, <2>2, <2>7, CounterFacts DEF ByHandoff
  <2>9. ByCursor
    BY <1>1, <1>2, <2>2, <2>7, <2>8, CounterFacts DEF ByCursor
  <2> QED
    BY <2>2, <2>4, <2>7, <2>8, <2>9 DEF Resumes, Position, Entry
<1> QED
  BY <1>5, <1>6

\* A run never opens a pipeline before the furthest position that any run
\* committed, while the value for that position is there and nobody asked to
\* start over: no completed task is executed again.
THEOREM NothingRepeated == Spec => NothingIsRepeated
<1> DEFINE Step == pc = "open" /\ pc' = "check" =>
                      \/ done' >= reached
                      \/ "fresh" \in mode
                      \/ row.state \in {"succeeded", "running"}
                      \/ ~Continuable
<1>1. RecoveryInv /\ [Next]_vars => [Step]_vars
  <2> SUFFICES ASSUME RecoveryInv, Next, pc = "open", pc' = "check",
                      "fresh" \notin mode, Continuable,
                      row.state \notin {"succeeded", "running"}
               PROVE  done' >= reached
    OBVIOUS
  <2>1. row.state \in {"absent", "failed", "interrupted"} /\ reached \in Nat
    BY CounterFacts, RowFacts DEF RecoveryInv, CheckpointInv
  <2>2. CASE OpenAtCheckpoint
    <3>1. Position \in Nat /\ done' = Position /\ ~Settles
      BY <2>2, PositionFacts, ConstantsAssumption
         DEF OpenAtCheckpoint, Resumes, RecoveryInv, CheckpointInv
    <3>2. reached > 0 => Position = reached
      BY <2>1, <3>1, OpensAtReached
    <3> QED
      BY <2>1, <3>1, <3>2
  <2>3. CASE OpenAtZero
    BY <2>1, <2>3, OpensAtReached, CounterFacts DEF OpenAtZero, RecoveryInv
  <2> QED
    BY <2>2, <2>3 DEF Next, Open, Repair, Work, Failure, Start, Stop, Forget, Spoil, Conflict,
       Skip, OpenAtEnd, MarkRepair, Settle, RepairFails, Refuse, Check, StoreSeed, BeginTask,
       TaskSucceeds, TaskFails, Advance, CommitCursor, MarkFinal, Finish, Land, Told, HandOver,
       HandOverPayload, CommitHandoff, StoreRaises, Recover, Interrupt, WorkerDies
<1> QED
  BY <1>1, RecoveryInductive, PTL DEF Spec, NothingIsRepeated
=============================================================================
