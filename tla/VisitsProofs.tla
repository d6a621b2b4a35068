---------------------------- MODULE VisitsProofs ----------------------------
(***************************************************************************)
(* Proofs about Visits, for every set of runs, every chain and control     *)
(* block, and any number of lost payloads and records. The argument is     *)
(* about addresses: the counters of the traversal are ahead of every       *)
(* address in use, and when the record that holds them is lost, the task   *)
(* rows and artifacts bring them back.                                     *)
(***************************************************************************)
EXTENDS Visits, FiniteSetTheorems, WellFoundedInduction, TLAPS

-----------------------------------------------------------------------------
(* The operators of Visits *)

\* A finite set of visits that is not empty has a last one.
LEMMA LastVisit ==
    ASSUME NEW seen, seen \subseteq 0 .. MaxVisits, seen # {}
    PROVE  \E v \in seen : \A w \in seen : w <= v
<1> DEFINE left == {MaxVisits - v : v \in seen}
<1>1. left \subseteq Nat /\ left # {}
  <2>1. ASSUME NEW v \in seen
        PROVE  MaxVisits - v \in Nat
    BY ConstantsAssumption
  <2>2. left \subseteq Nat
    BY <2>1
  <2>3. left # {}
    OBVIOUS
  <2> QED
    BY <2>2, <2>3
<1>2. PICK m \in left : \A n \in left : <<n, m>> \notin OpToRel(<, Nat)
  BY <1>1, NatLessThanWellFounded, WFMin
<1>3. PICK v \in seen : m = MaxVisits - v
  OBVIOUS
<1>4. ASSUME NEW w \in seen
      PROVE  w <= v
  <2>1. MaxVisits - w \in left /\ MaxVisits - w \in Nat /\ m \in Nat
    BY <1>1, <1>4
  <2>2. ~(MaxVisits - w < m)
    BY <1>2, <2>1 DEF OpToRel
  <2> QED
    BY <1>3, <2>1, <2>2, ConstantsAssumption
<1> QED
  BY <1>4

\* What a task row or an artifact attests is not behind the counters that are
\* read back.
LEMMA ObservedFacts ==
    /\ Observed \in [Stations -> -1 .. MaxVisits]
    /\ \A s \in Stations, v \in 0 .. MaxVisits :
         <<s, v>> \in tasks \/ art[<<s, v>>] # Nobody => v <= Observed[s]
<1> DEFINE Seen(s) == {v \in 0 .. MaxVisits : <<s, v>> \in tasks \/ art[<<s, v>>] # Nobody}
           Last(s) == IF Seen(s) = {} THEN -1
                      ELSE CHOOSE v \in Seen(s) : \A w \in Seen(s) : w <= v
<1>1. Observed = [s \in Stations |-> Last(s)]
  BY DEF Observed
<1>2. ASSUME NEW s \in Stations
      PROVE  Last(s) \in -1 .. MaxVisits /\ \A v \in Seen(s) : v <= Last(s)
  <2>1. CASE Seen(s) = {}
    BY <2>1, ConstantsAssumption
  <2>2. CASE Seen(s) # {}
    <3>1. Seen(s) \subseteq 0 .. MaxVisits
      OBVIOUS
    <3> HIDE DEF Seen
    <3>2. \E v \in Seen(s) : \A w \in Seen(s) : w <= v
      BY <2>2, <3>1, LastVisit
    <3>3. Last(s) \in Seen(s) /\ \A w \in Seen(s) : w <= Last(s)
      BY <2>2, <3>2
    <3> QED
      BY <3>1, <3>3, ConstantsAssumption
  <2> QED
    BY <2>1, <2>2
<1>3. ASSUME NEW s \in Stations, NEW v \in 0 .. MaxVisits,
             <<s, v>> \in tasks \/ art[<<s, v>>] # Nobody
      PROVE  v \in Seen(s)
  BY <1>3
<1> HIDE DEF Last, Seen
<1> QED
  BY <1>1, <1>2, <1>3

\* The entry that the next visit of a task becomes.
NextEntry(t, s, a) == [at |-> <<s, Next1(t, s)>>, input |-> a]

LEMMA NextEntryFacts ==
    ASSUME NEW t \in Traversals, NEW s \in Stations, NEW a \in Ids,
           Next1(t, s) <= MaxVisits
    PROVE  /\ Next1(t, s) \in 0 .. MaxVisits
           /\ <<s, Next1(t, s)>> \in Occurrences
           /\ NextEntry(t, s, a) \in Entries
<1>1. t.counters \in [Stations -> -1 .. MaxVisits]
  BY DEF Traversals
<1>2. Next1(t, s) \in 0 .. MaxVisits
  BY <1>1, ConstantsAssumption DEF Next1
<1> QED
  BY <1>2 DEF NextEntry, Entries, Occurrences

\* A new visit changes the entry under way, where it is, and one counter.
LEMMA AllocatedFacts ==
    ASSUME NEW t \in Traversals, NEW s \in Stations, NEW a \in Ids,
           Next1(t, s) <= MaxVisits
    PROVE  /\ Allocated(t, s, a) \in Traversals
           /\ \A q \in Stations : Allocated(t, s, a).counters[q] =
                IF q = s THEN Next1(t, s) ELSE t.counters[q]
           /\ Allocated(t, s, a).pending = NextEntry(t, s, a)
           /\ Allocated(t, s, a).cursor = s /\ Allocated(t, s, a).input = a
           /\ Allocated(t, s, a).active = t.active
           /\ Allocated(t, s, a).version = t.version
<1>1. t = [version |-> t.version, counters |-> t.counters, active |-> t.active,
           pending |-> t.pending, input |-> t.input, cursor |-> t.cursor,
           terminal |-> t.terminal, handoffs |-> t.handoffs]
  BY DEF Traversals
<1>2. t.counters \in [Stations -> -1 .. MaxVisits]
  BY DEF Traversals
<1>3. Next1(t, s) \in 0 .. MaxVisits /\ NextEntry(t, s, a) \in Entries
  BY NextEntryFacts
<1>4. [t.counters EXCEPT ![s] = Next1(t, s)] \in [Stations -> -1 .. MaxVisits]
  BY <1>2, <1>3, ConstantsAssumption
<1>5. s \in 0 .. END
  BY ConstantsAssumption DEF Stations, END
<1> DEFINE c == [t.counters EXCEPT ![s] = Next1(t, s)]
           p == NextEntry(t, s, a)
<1>6. Allocated(t, s, a) = [t EXCEPT !.counters = c, !.cursor = s, !.input = a, !.pending = p]
  BY DEF Allocated, NextEntry
<1>7. c \in [Stations -> -1 .. MaxVisits] /\ p \in Entries
  BY <1>3, <1>4
<1> HIDE DEF Next1, c, p
<1>8. [t EXCEPT !.counters = c, !.cursor = s, !.input = a, !.pending = p] \in Traversals
  BY <1>1, <1>5, <1>7 DEF Traversals
<1>9. LET u == [t EXCEPT !.counters = c, !.cursor = s, !.input = a, !.pending = p]
      IN  /\ u.counters = c /\ u.pending = p /\ u.cursor = s /\ u.input = a
          /\ u.active = t.active /\ u.version = t.version
  BY <1>1 DEF Traversals
<1>10. \A q \in Stations : c[q] = IF q = s THEN Next1(t, s) ELSE t.counters[q]
  BY <1>2 DEF c
<1> QED
  BY <1>6, <1>8, <1>9, <1>10 DEF p

LEMMA AddressFacts ==
    /\ Seed \in Ids /\ Seed \notin Occurrences
    /\ Occurrences \subseteq Ids
    /\ \A k \in 0 .. MaxHops - 1 : <<N + k, 0>> \in Ids \ Occurrences /\ <<N + k, 0>> # Seed
    /\ \A s \in Stations, v \in 0 .. MaxVisits : <<s, v>> \in Occurrences
    /\ Blank \in States
    /\ 0 \in Stations /\ Stations \subseteq 0 .. END
<1>1. 0 \in Stations /\ Stations \subseteq 0 .. END
  BY ConstantsAssumption DEF Stations, END
<1>2. \A k \in 0 .. MaxHops - 1 : /\ N + k \in N .. N + MaxHops - 1
                                   /\ N + k \notin Stations /\ N + k # -1
  BY ConstantsAssumption DEF Stations
<1>3. -1 \notin Stations
  BY ConstantsAssumption DEF Stations
<1>4. \A k \in 0 .. MaxHops - 1 : <<N + k, 0>> \in Ids \ Occurrences /\ <<N + k, 0>> # Seed
  BY <1>2 DEF Ids, Occurrences, Seed
<1>5. Seed \in Ids /\ Seed \notin Occurrences /\ Occurrences \subseteq Ids
  BY <1>3 DEF Ids, Occurrences, Seed
<1>6. Blank \in States
  BY <1>1, <1>5, ConstantsAssumption DEF Blank, States
<1> QED
  BY <1>1, <1>4, <1>5, <1>6 DEF Occurrences

LEMMA RestartedFacts ==
    ASSUME TypeOK, NEW fresh \in BOOLEAN
    PROVE  /\ Restarted(fresh) \in Traversals
           /\ Restarted(fresh).counters =
                IF trav = NoTraversal THEN Observed ELSE trav.counters
           /\ Restarted(fresh).active = [s \in Stations |-> NoArtifact]
           /\ Restarted(fresh).pending = NoEntry
           /\ Restarted(fresh).cursor = 0 /\ Restarted(fresh).input = Seed
<1> DEFINE counters == IF trav = NoTraversal THEN Observed ELSE trav.counters
           version == IF trav = NoTraversal THEN 1 ELSE trav.version + 1
           handoffs == IF fresh \/ trav = NoTraversal THEN 0 ELSE trav.handoffs
           active == [s \in Stations |-> NoArtifact]
<1>1. trav # NoTraversal => trav \in Traversals
  BY DEF TypeOK
<1>2. counters \in [Stations -> -1 .. MaxVisits] /\ version \in Nat /\ handoffs \in Nat
  BY <1>1, ObservedFacts DEF Traversals
<1>3. active \in [Stations -> Ids \cup {NoArtifact}]
  OBVIOUS
<1>4. 0 \in 0 .. END /\ Seed \in Ids
  BY AddressFacts
<1>5. Restarted(fresh) =
        [version |-> version, counters |-> counters, active |-> active, pending |-> NoEntry,
         input |-> Seed, cursor |-> 0, terminal |-> NoArtifact, handoffs |-> handoffs]
  BY DEF Restarted
<1> HIDE DEF counters, version, handoffs, active
<1>6. Restarted(fresh) \in Traversals
  BY <1>2, <1>3, <1>4, <1>5 DEF Traversals
<1> QED
  BY <1>5, <1>6 DEF counters, active

\* The traversal after the visit under way ended in an output.
Succeeding(r) ==
    [trav EXCEPT !.active[mem[r].seq] = Me(r), !.pending = NoEntry,
                 !.cursor = mem[r].seq + 1, !.input = Me(r),
                 !.terminal = IF mem[r].seq + 1 = N THEN Me(r) ELSE @]

LEMMA SucceedingFacts ==
    ASSUME TypeOK, trav # NoTraversal, NEW r \in Runs
    PROVE  LET u == Succeeding(r)
           IN  /\ u \in Traversals
               /\ u.active = [trav.active EXCEPT ![mem[r].seq] = Me(r)]
               /\ u.pending = NoEntry /\ u.counters = trav.counters
               /\ u.cursor = mem[r].seq + 1 /\ u.input = Me(r) /\ u.version = trav.version
<1>1. trav \in Traversals /\ mem[r] \in States
  BY DEF TypeOK
<1>3. Me(r) \in Occurrences /\ Me(r) \in Ids /\ mem[r].seq \in Stations
  BY <1>1, AddressFacts DEF States, Me
<1>4. mem[r].seq + 1 \in 0 .. END
  BY <1>3, ConstantsAssumption DEF Stations, END
<1> DEFINE m == Me(r)
           a == [trav.active EXCEPT ![mem[r].seq] = m]
           c == mem[r].seq + 1
           z == IF mem[r].seq + 1 = N THEN m ELSE trav.terminal
<1>5. Succeeding(r) = [trav EXCEPT !.active = a, !.pending = NoEntry, !.cursor = c,
                                   !.input = m, !.terminal = z]
  BY DEF Succeeding
<1>6. /\ a \in [Stations -> Ids \cup {NoArtifact}] /\ c \in 0 .. END /\ m \in Ids
      /\ z \in Ids \cup {NoArtifact}
  BY <1>1, <1>3, <1>4 DEF Traversals
<1> HIDE DEF m, a, c, z
<1>7. [trav EXCEPT !.active = a, !.pending = NoEntry, !.cursor = c, !.input = m,
                   !.terminal = z] \in Traversals
  BY <1>1, <1>6 DEF Traversals
<1>8. LET u == [trav EXCEPT !.active = a, !.pending = NoEntry, !.cursor = c, !.input = m,
                            !.terminal = z]
      IN  /\ u.active = a /\ u.pending = NoEntry /\ u.counters = trav.counters
          /\ u.cursor = c /\ u.input = m /\ u.version = trav.version
  BY <1>1 DEF Traversals
<1> QED
  BY <1>5, <1>7, <1>8 DEF m, a, c

\* The traversal after a transfer, before its target is entered.
Moved(r, op, to, entry) ==
    [trav EXCEPT !.version = @ + 1, !.pending = NoEntry,
                 !.handoffs = IF to = END THEN @ ELSE @ + 1,
                 !.active = Active(op, mem[r].seq, to),
                 !.cursor = to, !.input = entry,
                 !.terminal = IF to = END THEN entry ELSE NoArtifact]

LEMMA MovedFacts ==
    ASSUME TypeOK, trav # NoTraversal, NEW r \in Runs, NEW op, NEW to \in 0 .. END,
           NEW entry \in Ids
    PROVE  LET u == Moved(r, op, to, entry)
           IN  /\ u \in Traversals
               /\ u.active = Active(op, mem[r].seq, to)
               /\ u.pending = NoEntry /\ u.counters = trav.counters
               /\ u.cursor = to /\ u.input = entry /\ u.version = trav.version + 1
<1>1. trav \in Traversals /\ mem[r] \in States
  BY DEF TypeOK
<1> DEFINE v == trav.version + 1
           h == IF to = END THEN trav.handoffs ELSE trav.handoffs + 1
           a == Active(op, mem[r].seq, to)
           z == IF to = END THEN entry ELSE NoArtifact
<1>3. Moved(r, op, to, entry) = [trav EXCEPT !.version = v, !.pending = NoEntry,
        !.handoffs = h, !.active = a, !.cursor = to, !.input = entry, !.terminal = z]
  BY DEF Moved
<1>4. a \in [Stations -> Ids \cup {NoArtifact}]
  BY <1>1 DEF Active, Traversals
<1>5. v \in Nat /\ h \in Nat /\ z \in Ids \cup {NoArtifact}
  BY <1>1 DEF Traversals
<1> HIDE DEF v, h, a, z
<1>6. [trav EXCEPT !.version = v, !.pending = NoEntry, !.handoffs = h, !.active = a,
                   !.cursor = to, !.input = entry, !.terminal = z] \in Traversals
  BY <1>1, <1>4, <1>5 DEF Traversals
<1>7. LET u == [trav EXCEPT !.version = v, !.pending = NoEntry, !.handoffs = h, !.active = a,
                            !.cursor = to, !.input = entry, !.terminal = z]
      IN  /\ u.active = a /\ u.pending = NoEntry /\ u.counters = trav.counters
          /\ u.cursor = to /\ u.input = entry /\ u.version = v
  BY <1>1 DEF Traversals
<1> QED
  BY <1>3, <1>6, <1>7 DEF v, a

-----------------------------------------------------------------------------
(* Types *)

Places == {"idle", "open", "fresh", "reset", "repair", "opened", "begin", "attempt",
           "running", "told", "recover", "over"}

LEMMA InitTypes == Init => TypeOK
<1> SUFFICES ASSUME Init
             PROVE  TypeOK
  OBVIOUS
<1>1. trav \in Traversals \cup {NoTraversal} /\ ledger \in Seq(Handoffs) /\ Len(ledger) = 0
  BY DEF Init
<1>2. mem \in [Runs -> States]
  BY AddressFacts DEF Init
<1> QED
  BY <1>1, <1>2, ConstantsAssumption DEF Init, TypeOK

\* A run goes on with the next visit of its task, or ends.
LEMMA MemoryTypes ==
    ASSUME TypeOK, NEW r \in Runs
    PROVE  /\ Leave(r) \/ Done(r) => /\ pc' \in [Runs -> Places]
                                     /\ mem' \in [Runs -> States]
                                     /\ mode' \in [Runs -> SUBSET Flags]
           /\ \A s \in Stations, a \in Ids : Enter(r, s, a) => mem' \in [Runs -> States]
<1>1. \A s \in Stations, a \in Ids : [seq |-> s, visit |-> 0, input |-> a] \in States
  BY ConstantsAssumption DEF States
<1>2. mem \in [Runs -> States] /\ mode \in [Runs -> SUBSET Flags]
  BY DEF TypeOK
<1>3. \A x \in States : [mem EXCEPT ![r] = x] \in [Runs -> States]
  BY <1>2
<1>4. [mode EXCEPT ![r] = {}] \in [Runs -> SUBSET Flags]
  BY <1>2
<1>5. \A s \in Stations, a \in Ids : Enter(r, s, a) => mem' \in [Runs -> States]
  BY <1>1, <1>3 DEF Enter
<1>6. Leave(r) \/ Done(r) => mem' \in [Runs -> States] /\ mode' \in [Runs -> SUBSET Flags]
  BY <1>2, <1>3, <1>4, AddressFacts DEF Leave, Done
<1> QED
  BY <1>5, <1>6 DEF Leave, Done, Go, TypeOK, Places

\* What a transfer does to types, whatever it does to artifacts.
LEMMA TransferTypes ==
    ASSUME TypeOK, NEW r \in Runs, NEW op \in {"forward", "rewind", "retry_all"},
           NEW to \in 0 .. END, NEW entry \in Ids, Transfer(r, op, to, entry)
    PROVE  /\ row' \in {"running", "succeeded"}
           /\ trav' \in Traversals
           /\ tasks' \subseteq Occurrences
           /\ final' \in Ids \cup {NoArtifact}
           /\ ledger' \in Seq(Handoffs) /\ Len(ledger') = Len(ledger) + 1
           /\ Len(ledger') <= MaxHops
           /\ pc' \in [Runs -> Places]
           /\ mode' \in [Runs -> SUBSET Flags]
           /\ mem' \in [Runs -> States]
<1> DEFINE u == Moved(r, op, to, entry)
<1>1. /\ trav # NoTraversal /\ trav \in Traversals /\ mem[r] \in States
      /\ Len(ledger) < MaxHops /\ Len(ledger) \in Nat
      /\ to # END => Next1(trav, to) <= MaxVisits
      /\ trav' = IF to = END THEN u ELSE Allocated(u, to, entry)
  BY DEF Transfer, Owns, Moved, TypeOK
<1>2. u \in Traversals /\ u.counters = trav.counters
  BY <1>1, MovedFacts
<1>3. to # END => to \in Stations
  BY ConstantsAssumption DEF Stations, END
<1>4. to # END => Next1(u, to) <= MaxVisits
  BY <1>1, <1>2 DEF Next1
<1>5. trav' \in Traversals
  <2> HIDE DEF u
  <2> QED
    BY <1>1, <1>2, <1>3, <1>4, AllocatedFacts
<1>6. tasks' \subseteq Occurrences
  <2>1. CASE to = END
    BY <2>1 DEF Transfer, TypeOK
  <2>2. CASE to # END
    <3>1. tasks' = tasks \cup {trav'.pending.at}
      BY <2>2 DEF Transfer
    <3>2. trav'.pending \in Entries
      <4>1. trav' = Allocated(u, to, entry)
        BY <1>1, <2>2
      <4> HIDE DEF u
      <4>2. trav'.pending = NextEntry(u, to, entry)
        BY <1>2, <1>3, <1>4, <2>2, <4>1, AllocatedFacts
      <4>3. NextEntry(u, to, entry) \in Entries
        BY <1>2, <1>3, <1>4, <2>2, NextEntryFacts
      <4> QED
        BY <4>2, <4>3
    <3>3. trav'.pending.at \in Occurrences
      BY <3>2 DEF Entries
    <3> QED
      BY <3>1, <3>3 DEF TypeOK
  <2> QED
    BY <2>1, <2>2
<1>7. /\ ledger' \in Seq(Handoffs) /\ Len(ledger') = Len(ledger) + 1
      /\ Len(ledger') <= MaxHops
  <2> DEFINE hop == [op |-> op, from |-> Me(r), to |-> to, entry |-> entry,
                     version |-> trav.version + 1]
  <2>1. Me(r) \in Occurrences
    BY <1>1 DEF Me, States, Occurrences
  <2>2. trav.version + 1 \in Nat
    BY <1>1 DEF Traversals
  <2>3. hop \in Handoffs
    BY <2>1, <2>2 DEF Handoffs
  <2>4. ledger' = Append(ledger, hop)
    BY DEF Transfer
  <2> HIDE DEF hop
  <2> QED
    BY <1>1, <2>3, <2>4, ConstantsAssumption DEF TypeOK
<1>8. row' \in {"running", "succeeded"} /\ final' \in Ids \cup {NoArtifact}
  BY DEF Transfer, TypeOK
<1>9. /\ mode' \in [Runs -> SUBSET Flags] /\ mem' \in [Runs -> States]
      /\ pc' \in [Runs -> Places]
  <2>1. CASE to = END
    BY <2>1, MemoryTypes DEF Transfer
  <2>2. CASE to # END
    <3>1. Go(r, "begin") /\ Enter(r, to, entry) /\ UNCHANGED mode
      BY <2>2 DEF Transfer
    <3> QED
      BY <1>3, <2>2, <3>1, MemoryTypes DEF Go, TypeOK, Places
  <2> QED
    BY <2>1, <2>2
<1> QED
  BY <1>5, <1>6, <1>7, <1>8, <1>9

LEMMA StepTypes == TypeOK /\ [Next]_vars => TypeOK'
<1> SUFFICES ASSUME TypeOK, [Next]_vars
             PROVE  TypeOK'
  OBVIOUS
<1> USE DEF store, memory, damage, Places
<1>1. CASE UNCHANGED vars
  BY <1>1 DEF vars, TypeOK
<1>2. ASSUME NEW r \in Runs, Start(r)
      PROVE  TypeOK'
  BY <1>2 DEF Start, Go, TypeOK
<1>3. ASSUME NEW r \in Runs, Skip(r)
      PROVE  TypeOK'
  BY <1>3, MemoryTypes DEF Skip, TypeOK
<1>4. ASSUME NEW r \in Runs, Open(r)
      PROVE  TypeOK'
  <2>1. CASE ~Fresh(r) /\ trav = NoTraversal
    BY <1>4, <2>1 DEF Open, Go, TypeOK
  <2>2. CASE ~(~Fresh(r) /\ trav = NoTraversal)
    <3>1. art' \in [Ids -> Runs \cup {Nobody}] /\ art'[Seed] # Nobody
          /\ \A a \in Ids : art[a] # Nobody => art'[a] # Nobody
      BY <1>4, <2>2, AddressFacts, ConstantsAssumption DEF Open, TypeOK
    <3>2. kept' \subseteq {a \in Ids : art'[a] # Nobody}
      BY <1>4, <2>2, <3>1, AddressFacts DEF Open, TypeOK
    <3>3. final' \in Ids \cup {NoArtifact}
      BY <1>4, <2>2, AddressFacts DEF Open, TypeOK
    <3>4. mem' \in [Runs -> States]
      <4>1. CASE ~Fresh(r) /\ trav.cursor # END
        <5>1. Enter(r, trav.cursor, trav.input)
          BY <1>4, <2>2, <4>1 DEF Open
        <5>2. trav \in Traversals
          BY <2>2, <4>1 DEF TypeOK
        <5>3. trav.cursor \in Stations /\ trav.input \in Ids
          BY <4>1, <5>2, ConstantsAssumption DEF Traversals, Stations, END
        <5> QED
          BY <5>1, <5>3, MemoryTypes
      <4>2. CASE ~(~Fresh(r) /\ trav.cursor # END)
        BY <1>4, <2>2, <4>2 DEF Open, TypeOK
      <4> QED
        BY <4>1, <4>2
    <3>5. /\ pc' \in [Runs -> Places]
          /\ mode' \in [Runs -> SUBSET Flags]
      BY <1>4, <2>2 DEF Open, Go, Resumption, TypeOK
    <3>6. UNCHANGED <<row, trav, tasks, ledger, budgetFrom, spoils, losses>>
      BY <1>4, <2>2 DEF Open
    <3> QED
      BY <3>1, <3>2, <3>3, <3>4, <3>5, <3>6 DEF TypeOK
  <2> QED
    BY <2>1, <2>2
<1>5. ASSUME NEW r \in Runs, Reset(r)
      PROVE  TypeOK'
  <2>1. trav' \in Traversals
    <3>1. trav' = Restarted(pc[r] = "fresh")
      BY <1>5 DEF Reset
    <3> QED
      BY <3>1, RestartedFacts
  <2>2. mem' \in [Runs -> States]
    BY <1>5, AddressFacts, MemoryTypes DEF Reset
  <2>3. budgetFrom' \in 0 .. MaxHops
    BY <1>5, ConstantsAssumption DEF Reset, TypeOK
  <2> QED
    BY <1>5, <2>1, <2>2, <2>3 DEF Reset, Go, TypeOK
<1>6. ASSUME NEW r \in Runs, Repair(r)
      PROVE  TypeOK'
  <2>1. CASE trav # NoTraversal /\ trav.terminal # NoArtifact
    BY <1>6, <2>1, MemoryTypes DEF Repair, TypeOK, Traversals
  <2>2. CASE ~(trav # NoTraversal /\ trav.terminal # NoArtifact)
    BY <1>6, <2>2 DEF Repair, Go, TypeOK
  <2> QED
    BY <2>1, <2>2
<1>7. ASSUME NEW r \in Runs, Upsert(r)
      PROVE  TypeOK'
  BY <1>7 DEF Upsert, Go, TypeOK
<1>8. ASSUME NEW r \in Runs, BeginTask(r)
      PROVE  TypeOK'
  <2>1. trav \in Traversals /\ mem[r] \in States
    BY <1>8 DEF BeginTask, Enterable, TypeOK
  <2>2. mem[r].seq \in Stations /\ mem[r].input \in Ids
    BY <2>1 DEF States
  <2>3. trav' \in Traversals /\ trav'.pending.at \in Occurrences
    <3>1. CASE trav.pending = NoEntry
      <4>1. Next1(trav, mem[r].seq) <= MaxVisits
            /\ trav' = Allocated(trav, mem[r].seq, mem[r].input)
        BY <1>8, <3>1 DEF BeginTask
      <4> DEFINE s == mem[r].seq
                 a == mem[r].input
      <4>2. s \in Stations /\ a \in Ids /\ Next1(trav, s) <= MaxVisits
            /\ trav' = Allocated(trav, s, a)
        BY <2>2, <4>1
      <4> HIDE DEF s, a
      <4>3. trav' \in Traversals /\ trav'.pending = NextEntry(trav, s, a)
        BY <2>1, <4>2, AllocatedFacts
      <4>4. NextEntry(trav, s, a) \in Entries
        BY <2>1, <4>2, NextEntryFacts
      <4> QED
        BY <4>3, <4>4 DEF Entries
    <3>2. CASE trav.pending # NoEntry
      <4>1. trav' = trav
        BY <1>8, <3>2 DEF BeginTask
      <4>2. trav.pending \in Entries
        BY <2>1, <3>2 DEF Traversals
      <4> QED
        BY <2>1, <4>1, <4>2 DEF Entries
    <3> QED
      BY <3>1, <3>2
  <2>4. trav'.pending.at[2] \in 0 .. MaxVisits
    BY <2>3 DEF Occurrences
  <2>5. mem' \in [Runs -> States]
    <3>1. [mem[r] EXCEPT !.visit = trav'.pending.at[2]] \in States
      BY <2>1, <2>4 DEF States
    <3>2. mem' = [mem EXCEPT ![r] = [mem[r] EXCEPT !.visit = trav'.pending.at[2]]]
      BY <1>8 DEF BeginTask
    <3> QED
      BY <3>1, <3>2 DEF TypeOK
  <2>6. tasks' \subseteq Occurrences
    BY <1>8, <2>3 DEF BeginTask, TypeOK
  <2> QED
    BY <1>8, <2>3, <2>5, <2>6 DEF BeginTask, Go, TypeOK
<1>9. ASSUME NEW r \in Runs, Attempt(r)
      PROVE  TypeOK'
  BY <1>9 DEF Attempt, Go, TypeOK
<1>10. ASSUME NEW r \in Runs, Retry(r)
       PROVE  TypeOK'
  BY <1>10 DEF Retry, Go, TypeOK
<1>11. ASSUME NEW r \in Runs, Succeed(r)
       PROVE  TypeOK'
  <2>1. mem[r] \in States /\ trav # NoTraversal /\ trav' = Succeeding(r)
    BY <1>11 DEF Succeed, Succeeding, Owns, TypeOK
  <2>2. trav' \in Traversals
    BY <2>1, SucceedingFacts
  <2>3. Me(r) \in Ids
    BY <2>1, AddressFacts DEF Me, States
  <2>4. /\ art' \in [Ids -> Runs \cup {Nobody}] /\ kept' \subseteq {a \in Ids : art'[a] # Nobody}
        /\ row' \in {"succeeded", "running"} /\ final' \in Ids \cup {NoArtifact}
    BY <1>11, <2>3, ConstantsAssumption DEF Succeed, TypeOK
  <2>5. /\ mode' \in [Runs -> SUBSET Flags] /\ mem' \in [Runs -> States]
        /\ pc' \in [Runs -> Places]
    <3>1. CASE mem[r].seq + 1 = N
      BY <1>11, <3>1, MemoryTypes DEF Succeed
    <3>2. CASE mem[r].seq + 1 # N
      <4>1. Go(r, "begin") /\ Enter(r, mem[r].seq + 1, Me(r)) /\ UNCHANGED mode
        BY <1>11, <3>2 DEF Succeed
      <4>2. mem[r].seq + 1 \in Stations
        BY <2>1, <3>2, ConstantsAssumption DEF States, Stations
      <4> QED
        BY <2>3, <4>1, <4>2, MemoryTypes DEF Go, TypeOK
    <3> QED
      BY <3>1, <3>2
  <2> QED
    BY <1>11, <2>2, <2>4, <2>5 DEF Succeed, TypeOK
<1>12. ASSUME NEW r \in Runs, Tell(r)
       PROVE  TypeOK'
  BY <1>12, MemoryTypes DEF Tell, TypeOK
<1>13. ASSUME NEW r \in Runs, Fail(r)
       PROVE  TypeOK'
  BY <1>13, MemoryTypes DEF Fail, TypeOK
<1>14. ASSUME NEW r \in Runs, RetryAllTasks(r)
       PROVE  TypeOK'
  <2>1. 0 \in 0 .. END /\ Seed \in Ids
    BY AddressFacts
  <2>2. Transfer(r, "retry_all", 0, Seed) /\ UNCHANGED <<art, kept, budgetFrom, spoils, losses>>
    BY <1>14 DEF RetryAllTasks, Transfer
  <2> QED
    BY <2>1, <2>2, TransferTypes DEF TypeOK
<1>15. ASSUME NEW r \in Runs, NEW to \in 0 .. END, HandOver(r, to)
       PROVE  TypeOK'
  <2>1. mem[r].input \in Ids
    BY DEF TypeOK, States
  <2>2. Transfer(r, "forward", to, mem[r].input)
        /\ UNCHANGED <<art, kept, budgetFrom, spoils, losses>>
    BY <1>15 DEF HandOver, Transfer
  <2> QED
    BY <2>1, <2>2, TransferTypes DEF TypeOK
<1>16. ASSUME NEW r \in Runs, NEW op \in {"forward", "rewind"}, NEW to \in 0 .. END,
              HandOverPayload(r, op, to)
       PROVE  TypeOK'
  <2>1. Transfer(r, op, to, Payload) /\ UNCHANGED <<budgetFrom, spoils, losses>>
    BY <1>16 DEF HandOverPayload, Transfer
  <2>2. Payload \in Ids
    <3>1. Len(ledger) \in 0 .. MaxHops - 1
      BY <2>1, ConstantsAssumption DEF Transfer, TypeOK
    <3> QED
      BY <3>1, AddressFacts DEF Payload
  <2>3. art' \in [Ids -> Runs \cup {Nobody}] /\ kept' \subseteq {a \in Ids : art'[a] # Nobody}
    BY <1>16, <2>2, ConstantsAssumption DEF HandOverPayload, TypeOK
  <2> QED
    BY <2>1, <2>2, <2>3, TransferTypes DEF TypeOK
<1>17. ASSUME NEW r \in Runs, Raise(r)
       PROVE  TypeOK'
  BY <1>17, AddressFacts DEF Raise, Go, TypeOK
<1>18. ASSUME NEW r \in Runs, Recover(r)
       PROVE  TypeOK'
  BY <1>18, MemoryTypes DEF Recover, TypeOK
<1>19. ASSUME NEW r \in Runs, Die(r)
       PROVE  TypeOK'
  BY <1>19, MemoryTypes DEF Die, TypeOK
<1>20. ASSUME NEW a \in Ids, Spoil(a)
       PROVE  TypeOK'
  BY <1>20, ConstantsAssumption DEF Spoil, TypeOK
<1>21. CASE LoseTraversal
  BY <1>21, ConstantsAssumption DEF LoseTraversal, TypeOK
<1> QED
  BY <1>1, <1>2, <1>3, <1>4, <1>5, <1>6, <1>7, <1>8, <1>9, <1>10, <1>11, <1>12,
     <1>13, <1>14, <1>15, <1>16, <1>17, <1>18, <1>19, <1>20, <1>21 DEF Next, Opening, Working

\* Every variable keeps its type.
THEOREM TypeCorrect == Spec => []TypeOK
BY InitTypes, StepTypes, PTL DEF Spec

-----------------------------------------------------------------------------
(* Addresses *)

\* The counters of the traversal are not behind a task row or an output.
CountersCover ==
    trav # NoTraversal =>
        \A s \in Stations, v \in 0 .. MaxVisits :
            <<s, v>> \in tasks \/ Written(<<s, v>>) => v <= trav.counters[s]

\* The entry under way has a task row and has not ended.
PendingOpen ==
    trav # NoTraversal /\ trav.pending # NoEntry =>
        /\ trav.pending.at \in tasks /\ ~Written(trav.pending.at)
        /\ \A i \in 1 .. Len(ledger) : ledger[i].from # trav.pending.at

\* A transfer leaves a visit that was entered.
LedgerHasTasks == \A i \in 1 .. Len(ledger) : ledger[i].from \in tasks

\* The addresses of the payloads to come are unused.
PayloadsAhead == \A k \in Len(ledger) .. MaxHops - 1 : ~Written(<<N + k, 0>>)

AddressInv == CountersCover /\ PendingOpen /\ LedgerHasTasks /\ PayloadsAhead /\ OneOutcome

\* What AddressesAreFresh says of a step.
FreshStep ==
    /\ trav' # NoTraversal /\ trav'.pending # NoEntry =>
         \/ trav # NoTraversal /\ trav.pending = trav'.pending
         \/ trav'.pending.at \notin tasks /\ ~Written(trav'.pending.at)
    /\ \A a \in Ids \ {Seed} : Written(a) => art'[a] = art[a]

LEMMA InitAddresses == Init => AddressInv
<1> SUFFICES ASSUME Init
             PROVE  AddressInv
  OBVIOUS
<1>1. trav = NoTraversal /\ ledger = <<>> /\ Len(ledger) = 0 /\ \A a \in Ids : art[a] = Nobody
  BY DEF Init
<1>2. \A k \in 0 .. MaxHops - 1 : <<N + k, 0>> \in Ids
  BY AddressFacts
<1> QED
  BY <1>1, <1>2
  DEF AddressInv, CountersCover, PendingOpen, LedgerHasTasks, PayloadsAhead, OneOutcome, Written

\* A step that leaves the traversal, its tasks, the ledger and every artifact
\* but the seed alone.
LEMMA QuietStep ==
    ASSUME TypeOK, AddressInv, UNCHANGED <<trav, tasks, ledger>>,
           \A a \in Ids \ {Seed} : art'[a] = art[a]
    PROVE  AddressInv' /\ FreshStep
<1>1. \A o \in Occurrences : art'[o] = art[o]
  BY AddressFacts
<1>2. \A k \in 0 .. MaxHops - 1 : art'[<<N + k, 0>>] = art[<<N + k, 0>>]
  BY AddressFacts
<1>3. CountersCover'
  BY <1>1, AddressFacts DEF AddressInv, CountersCover, Written
<1>4. PendingOpen'
  BY <1>1 DEF AddressInv, PendingOpen, Written, TypeOK
<1>5. LedgerHasTasks'
  BY DEF AddressInv, LedgerHasTasks
<1>6. Len(ledger) \in Nat
  BY DEF TypeOK
<1>7. PayloadsAhead'
  BY <1>2, <1>6, ConstantsAssumption DEF AddressInv, PayloadsAhead, Written
<1>8. OneOutcome'
  <2>1. \A i \in 1 .. Len(ledger) : ledger[i].from \in Occurrences
    BY DEF AddressInv, LedgerHasTasks, TypeOK
  <2> QED
    BY <1>1, <2>1 DEF AddressInv, OneOutcome, Written
<1>9. FreshStep
  BY DEF FreshStep
<1> QED
  BY <1>3, <1>4, <1>5, <1>7, <1>8, <1>9 DEF AddressInv

\* The visit that is allocated was never used, and is covered from then on.
LEMMA AllocationStep ==
    ASSUME TypeOK, AddressInv, trav # NoTraversal,
           NEW t \in Traversals, t.counters = trav.counters,
           NEW s \in Stations, NEW a \in Ids, Next1(t, s) <= MaxVisits,
           trav' = Allocated(t, s, a), tasks' = tasks \cup {trav'.pending.at},
           \A o \in Occurrences : art'[o] = art[o],
           \A i \in 1 .. Len(ledger)' : ledger'[i].from \in tasks
    PROVE  /\ CountersCover' /\ PendingOpen' /\ LedgerHasTasks'
           /\ trav'.pending.at \notin tasks /\ ~Written(trav'.pending.at)
<1> DEFINE e == <<s, Next1(t, s)>>
<1>1. Next1(t, s) \in 0 .. MaxVisits /\ e \in Occurrences
  BY NextEntryFacts
<1>2. trav' # NoTraversal
  BY AllocatedFacts, ConstantsAssumption
<1>3. trav'.pending.at = e
  <2>1. trav'.pending = NextEntry(t, s, a)
    BY AllocatedFacts
  <2> QED
    BY <2>1 DEF NextEntry
<1>4. \A q \in Stations : trav'.counters[q] = IF q = s THEN Next1(t, s) ELSE t.counters[q]
  BY AllocatedFacts
<1>5. t.counters \in [Stations -> -1 .. MaxVisits]
  BY DEF Traversals
<1>6. \A q \in Stations, v \in 0 .. MaxVisits :
        <<q, v>> \in tasks \/ Written(<<q, v>>) => v <= t.counters[q]
  BY DEF AddressInv, CountersCover
<1>7. e \notin tasks /\ ~Written(e)
  BY <1>1, <1>5, <1>6, ConstantsAssumption DEF Next1
<1>8. CountersCover'
  <2> SUFFICES ASSUME NEW q \in Stations, NEW v \in 0 .. MaxVisits,
                      <<q, v>> \in tasks' \/ Written(<<q, v>>)'
               PROVE  v <= trav'.counters[q]
    BY DEF CountersCover
  <2>1. CASE <<q, v>> = e
    BY <1>1, <1>4, <2>1, ConstantsAssumption
  <2>2. CASE <<q, v>> # e
    <3>1. <<q, v>> \in tasks \/ Written(<<q, v>>)
      BY <1>3, <2>2, AddressFacts DEF Written
    <3>2. v <= t.counters[q]
      BY <1>6, <3>1
    <3>3. t.counters[q] <= trav'.counters[q]
      BY <1>1, <1>4, <1>5, ConstantsAssumption DEF Next1
    <3>4. trav'.counters[q] \in Int /\ t.counters[q] \in Int /\ v \in Int
      BY <1>1, <1>4, <1>5, ConstantsAssumption
    <3> QED
      BY <3>2, <3>3, <3>4
  <2> QED
    BY <2>1, <2>2
<1>9. PendingOpen'
  BY <1>1, <1>3, <1>7 DEF PendingOpen, Written
<1>10. LedgerHasTasks'
  BY DEF LedgerHasTasks
<1> QED
  BY <1>3, <1>7, <1>8, <1>9, <1>10

\* A transfer, whatever payload it stores.
LEMMA TransferStep ==
    ASSUME TypeOK, TypeOK', AddressInv, NEW r \in Runs,
           NEW op \in {"forward", "rewind", "retry_all"}, NEW to \in 0 .. END,
           NEW entry \in Ids, Transfer(r, op, to, entry),
           \A o \in Occurrences : art'[o] = art[o],
           \A k \in Len(ledger) + 1 .. MaxHops - 1 : art'[<<N + k, 0>>] = art[<<N + k, 0>>],
           \A a \in Ids \ {Seed} : Written(a) => art'[a] = art[a]
    PROVE  AddressInv' /\ FreshStep
<1> DEFINE u == Moved(r, op, to, entry)
           from == Me(r)
           len == Len(ledger)
           hop == [op |-> op, from |-> from, to |-> to, entry |-> entry,
                   version |-> trav.version + 1]
<1>1. /\ trav # NoTraversal /\ trav.pending # NoEntry /\ trav.pending.at = from
      /\ trav \in Traversals /\ len \in Nat /\ len < MaxHops
      /\ ledger' = Append(ledger, hop)
  BY DEF Transfer, Owns, TypeOK
<1>2. from \in tasks /\ ~Written(from) /\ \A i \in 1 .. len : ledger[i].from # from
  BY <1>1 DEF AddressInv, PendingOpen
<1>3. from \in Occurrences
  BY <1>2 DEF TypeOK
<1>4. /\ Len(ledger') = len + 1 /\ ledger'[len + 1].from = from
      /\ \A i \in 1 .. len : ledger'[i] = ledger[i]
  <2>1. hop.from = from
    OBVIOUS
  <2>2. ledger \in Seq(Handoffs)
    BY DEF TypeOK
  <2> HIDE DEF hop
  <2> QED
    BY <1>1, <2>1, <2>2
<1> HIDE DEF from, hop
<1>5. \A i \in 1 .. len + 1 : i \in 1 .. len \/ i = len + 1
  BY <1>1
<1>6. \A i \in 1 .. len : ledger[i].from \in tasks /\ ledger[i].from \in Occurrences
  BY DEF AddressInv, LedgerHasTasks, TypeOK
<1>7. \A i \in 1 .. len + 1 : ledger'[i].from \in tasks /\ ledger'[i].from \in Occurrences
  BY <1>2, <1>3, <1>4, <1>5, <1>6
<1>8. OneOutcome'
  <2>1. \A i \in 1 .. len + 1 : art'[ledger'[i].from] = Nobody
    <3>1. \A i \in 1 .. len + 1 : ~Written(ledger'[i].from)
      BY <1>2, <1>4, <1>5 DEF AddressInv, OneOutcome
    <3> QED
      BY <1>7, <3>1 DEF Written
  <2>2. ASSUME NEW i \in 1 .. len + 1, NEW j \in 1 .. i - 1
        PROVE  ledger'[j].from # ledger'[i].from
    <3>1. j \in 1 .. len
      BY <1>1
    <3>2. CASE i \in 1 .. len
      BY <1>4, <3>1, <3>2 DEF AddressInv, OneOutcome
    <3>3. CASE i = len + 1
      BY <1>2, <1>4, <3>1, <3>3
    <3> QED
      BY <1>5, <3>2, <3>3
  <2> HIDE DEF len
  <2> QED
    BY <1>4, <2>1, <2>2 DEF OneOutcome, Written
<1>9. PayloadsAhead'
  <2>1. \A k \in len .. MaxHops - 1 : ~Written(<<N + k, 0>>)
    BY DEF AddressInv, PayloadsAhead
  <2> SUFFICES ASSUME NEW k \in len + 1 .. MaxHops - 1
               PROVE  art'[<<N + k, 0>>] = Nobody
    BY <1>4 DEF PayloadsAhead, Written
  <2>2. k \in len .. MaxHops - 1
    BY <1>1, ConstantsAssumption
  <2> QED
    BY <2>1, <2>2 DEF Written
<1>10. CASE to = END
  <2>1. trav' = u /\ tasks' = tasks
    BY <1>10 DEF Transfer, Moved
  <2>2. u \in Traversals /\ u.pending = NoEntry /\ u.counters = trav.counters
    BY <1>1, MovedFacts
  <2> HIDE DEF u, len
  <2>3. CountersCover'
    BY <1>1, <2>1, <2>2, AddressFacts DEF AddressInv, CountersCover, Written
  <2>4. PendingOpen' /\ FreshStep
    BY <2>1, <2>2 DEF PendingOpen, FreshStep
  <2>5. LedgerHasTasks'
    BY <1>4, <1>7, <2>1 DEF LedgerHasTasks
  <2> QED
    BY <1>8, <1>9, <2>3, <2>4, <2>5 DEF AddressInv
<1>11. CASE to # END
  <2>1. /\ trav' = Allocated(u, to, entry) /\ tasks' = tasks \cup {trav'.pending.at}
        /\ Next1(trav, to) <= MaxVisits
    BY <1>11 DEF Transfer, Moved
  <2>2. u \in Traversals /\ u.counters = trav.counters
    BY <1>1, MovedFacts
  <2>3. to \in Stations
    BY <1>11, ConstantsAssumption DEF Stations, END
  <2>4. Next1(u, to) <= MaxVisits
    BY <2>1, <2>2 DEF Next1
  <2> HIDE DEF u
  <2>5. /\ CountersCover' /\ PendingOpen' /\ LedgerHasTasks'
        /\ trav'.pending.at \notin tasks /\ ~Written(trav'.pending.at)
    BY <1>1, <1>4, <1>7, <2>1, <2>2, <2>3, <2>4, AllocationStep
  <2> QED
    BY <1>8, <1>9, <2>5 DEF AddressInv, FreshStep
<1> QED
  BY <1>10, <1>11

LEMMA StepAddresses ==
    TypeOK /\ TypeOK' /\ AddressInv /\ [Next]_vars => AddressInv' /\ [FreshStep]_vars
<1> SUFFICES ASSUME TypeOK, TypeOK', AddressInv, [Next]_vars
             PROVE  AddressInv' /\ FreshStep
  OBVIOUS
<1> DEFINE Quiet == /\ UNCHANGED <<trav, tasks, ledger>>
                    /\ \A a \in Ids \ {Seed} : art'[a] = art[a]
<1>1. Quiet => AddressInv' /\ FreshStep
  BY QuietStep
<1>2. CASE UNCHANGED vars
  BY <1>1, <1>2 DEF vars, store
<1>3. ASSUME NEW r \in Runs,
             Start(r) \/ Skip(r) \/ Open(r) \/ Repair(r) \/ Upsert(r) \/ Attempt(r)
             \/ Retry(r) \/ Tell(r) \/ Fail(r) \/ Raise(r) \/ Recover(r) \/ Die(r)
      PROVE  AddressInv' /\ FreshStep
  <2>1. CASE Open(r)
    BY <1>1, <2>1 DEF Open, store, TypeOK
  <2>2. CASE Start(r) \/ Repair(r) \/ Upsert(r) \/ Attempt(r) \/ Fail(r) \/ Recover(r)
    BY <1>1, <2>2 DEF Start, Repair, Upsert, Attempt, Fail, Recover
  <2>3. CASE Skip(r) \/ Retry(r) \/ Tell(r) \/ Raise(r) \/ Die(r)
    BY <1>1, <2>3 DEF Skip, Retry, Tell, Raise, Die, store
  <2> QED
    BY <1>3, <2>1, <2>2, <2>3
<1>4. ASSUME NEW a \in Ids, Spoil(a)
      PROVE  AddressInv' /\ FreshStep
  BY <1>1, <1>4 DEF Spoil
<1>5. ASSUME NEW r \in Runs, Reset(r)
      PROVE  AddressInv' /\ FreshStep
  <2>1. trav' = Restarted(pc[r] = "fresh") /\ UNCHANGED <<tasks, art, ledger>>
    BY <1>5 DEF Reset
  <2> DEFINE f == pc[r] = "fresh"
             u == Restarted(f)
  <2>2. /\ u \in Traversals /\ u.pending = NoEntry
        /\ u.counters = IF trav = NoTraversal THEN Observed ELSE trav.counters
    BY RestartedFacts
  <2> HIDE DEF u
  <2>3. CountersCover'
    BY <2>1, <2>2, ObservedFacts DEF u, AddressInv, CountersCover, Written
  <2>4. trav'.pending = NoEntry
    BY <2>1, <2>2 DEF u
  <2>5. PendingOpen' /\ FreshStep
    BY <2>1, <2>4 DEF PendingOpen, FreshStep
  <2>6. LedgerHasTasks' /\ PayloadsAhead' /\ OneOutcome'
    BY <2>1 DEF AddressInv, LedgerHasTasks, PayloadsAhead, OneOutcome, Written
  <2> QED
    BY <2>3, <2>5, <2>6 DEF AddressInv
<1>6. ASSUME NEW r \in Runs, BeginTask(r)
      PROVE  AddressInv' /\ FreshStep
  <2>1. /\ trav # NoTraversal /\ trav \in Traversals /\ mem[r] \in States
        /\ UNCHANGED <<art, ledger>>
        /\ tasks' = tasks \cup {trav'.pending.at}
    BY <1>6 DEF BeginTask, Enterable, TypeOK
  <2>2. CASE trav.pending # NoEntry
    <3>1. trav' = trav /\ trav.pending.at \in tasks
      BY <1>6, <2>2 DEF BeginTask, Enterable
    <3>2. tasks' = tasks
      BY <2>1, <3>1
    <3> QED
      BY <1>1, <2>1, <3>1, <3>2
  <2>3. CASE trav.pending = NoEntry
    <3> DEFINE s == mem[r].seq
               a == mem[r].input
    <3>1. /\ s \in Stations /\ a \in Ids /\ Next1(trav, s) <= MaxVisits
          /\ trav' = Allocated(trav, s, a)
      BY <1>6, <2>1, <2>3 DEF BeginTask, States
    <3> HIDE DEF s, a
    <3>2. \A i \in 1 .. Len(ledger)' : ledger'[i].from \in tasks
      BY <2>1 DEF AddressInv, LedgerHasTasks
    <3>3. /\ CountersCover' /\ PendingOpen' /\ LedgerHasTasks'
          /\ trav'.pending.at \notin tasks /\ ~Written(trav'.pending.at)
      BY <2>1, <3>1, <3>2, AllocationStep
    <3>4. PayloadsAhead' /\ OneOutcome'
      BY <2>1 DEF AddressInv, PayloadsAhead, OneOutcome, Written
    <3> QED
      BY <2>1, <3>3, <3>4 DEF AddressInv, FreshStep
  <2> QED
    BY <2>2, <2>3
<1>7. ASSUME NEW r \in Runs, Succeed(r)
      PROVE  AddressInv' /\ FreshStep
  <2> DEFINE out == Me(r)
  <2>1. /\ trav # NoTraversal /\ trav.pending # NoEntry /\ trav.pending.at = out
        /\ UNCHANGED <<tasks, ledger>> /\ trav' = Succeeding(r)
        /\ art' = [art EXCEPT ![out] = r]
    BY <1>7 DEF Succeed, Succeeding, Owns
  <2>2. /\ out \in tasks /\ ~Written(out)
        /\ \A i \in 1 .. Len(ledger) : ledger[i].from # out
    BY <2>1 DEF AddressInv, PendingOpen
  <2>3. out \in Occurrences
    BY <2>2 DEF TypeOK
  <2>4. trav' \in Traversals /\ trav'.pending = NoEntry /\ trav'.counters = trav.counters
    BY <2>1, SucceedingFacts
  <2> HIDE DEF out
  <2>5. \A a \in Ids : a # out => art'[a] = art[a]
    BY <2>1 DEF TypeOK
  <2>6. FreshStep
    BY <2>2, <2>4, <2>5 DEF FreshStep
  <2>7. CountersCover'
    <3>1. \A s \in Stations, v \in 0 .. MaxVisits :
            <<s, v>> \in tasks \/ Written(<<s, v>>)' => <<s, v>> \in tasks \/ Written(<<s, v>>)
      BY <2>2, <2>5, AddressFacts DEF Written
    <3> QED
      BY <2>1, <2>4, <3>1 DEF AddressInv, CountersCover
  <2>8. PendingOpen' /\ LedgerHasTasks'
    BY <2>1, <2>4 DEF AddressInv, PendingOpen, LedgerHasTasks
  <2>9. PayloadsAhead'
    <3>1. Len(ledger) \in Nat
      BY DEF TypeOK
    <3>2. \A k \in Len(ledger) .. MaxHops - 1 : art'[<<N + k, 0>>] = art[<<N + k, 0>>]
      <4>1. \A k \in Len(ledger) .. MaxHops - 1 : k \in 0 .. MaxHops - 1
        BY <3>1, ConstantsAssumption
      <4> QED
        BY <2>3, <2>5, <4>1, AddressFacts
    <3> QED
      BY <2>1, <3>2 DEF AddressInv, PayloadsAhead, Written
  <2>10. OneOutcome'
    <3>1. \A i \in 1 .. Len(ledger) : ledger[i].from \in Ids
      BY AddressFacts DEF AddressInv, LedgerHasTasks, TypeOK
    <3> QED
      BY <2>1, <2>2, <2>5, <3>1 DEF AddressInv, OneOutcome, Written
  <2> QED
    BY <2>6, <2>7, <2>8, <2>9, <2>10 DEF AddressInv
<1>8. ASSUME NEW r \in Runs, RetryAllTasks(r)
      PROVE  AddressInv' /\ FreshStep
  <2>1. 0 \in 0 .. END /\ Seed \in Ids
    BY AddressFacts
  <2>2. Transfer(r, "retry_all", 0, Seed) /\ art' = art
    BY <1>8 DEF RetryAllTasks
  <2> QED
    BY <2>1, <2>2, TransferStep
<1>9. ASSUME NEW r \in Runs, NEW to \in 0 .. END, HandOver(r, to)
      PROVE  AddressInv' /\ FreshStep
  <2>1. mem[r].input \in Ids
    BY DEF TypeOK, States
  <2>2. Transfer(r, "forward", to, mem[r].input) /\ art' = art
    BY <1>9 DEF HandOver
  <2> QED
    BY <2>1, <2>2, TransferStep
<1>10. ASSUME NEW r \in Runs, NEW op \in {"forward", "rewind"}, NEW to \in 0 .. END,
              HandOverPayload(r, op, to)
       PROVE  AddressInv' /\ FreshStep
  <2> DEFINE len == Len(ledger)
  <2>1. Transfer(r, op, to, Payload) /\ art' = [art EXCEPT ![Payload] = r]
        /\ Payload = <<N + len, 0>>
    BY <1>10 DEF HandOverPayload, Payload
  <2>2. len \in 0 .. MaxHops - 1
    BY <2>1, ConstantsAssumption DEF Transfer, TypeOK
  <2>3. Payload \in Ids /\ Payload \notin Occurrences /\ ~Written(Payload)
    BY <2>1, <2>2, AddressFacts DEF AddressInv, PayloadsAhead
  <2>4. \A a \in Ids : a # Payload => art'[a] = art[a]
    BY <2>1 DEF TypeOK
  <2>5. \A o \in Occurrences : art'[o] = art[o]
    BY <2>3, <2>4, AddressFacts
  <2>6. \A k \in len + 1 .. MaxHops - 1 : art'[<<N + k, 0>>] = art[<<N + k, 0>>]
    <3>1. \A k \in len + 1 .. MaxHops - 1 : k \in 0 .. MaxHops - 1 /\ N + k # N + len
      BY <2>2, ConstantsAssumption
    <3> HIDE DEF len
    <3> QED
      BY <2>1, <2>4, <3>1, AddressFacts
  <2>7. \A a \in Ids \ {Seed} : Written(a) => art'[a] = art[a]
    BY <2>3, <2>4
  <2> QED
    BY <2>1, <2>3, <2>5, <2>6, <2>7, TransferStep
<1>11. CASE LoseTraversal
  BY <1>11 DEF LoseTraversal, AddressInv, CountersCover, PendingOpen, LedgerHasTasks,
               PayloadsAhead, OneOutcome, Written, FreshStep
<1> QED
  BY <1>2, <1>3, <1>4, <1>5, <1>6, <1>7, <1>8, <1>9, <1>10, <1>11 DEF Next, Opening, Working

\* The addresses stay in order.
LEMMA AddressesInvariant == Spec => [](TypeOK /\ AddressInv)
BY InitTypes, StepTypes, InitAddresses, StepAddresses, PTL DEF Spec

\* However often a pipeline is rewound, retried, restarted or robbed of its
\* record, no visit is allocated twice and no artifact is written twice.
THEOREM VisitsAreFresh == Spec => AddressesAreFresh
<1>1. TypeOK /\ TypeOK' /\ AddressInv /\ [Next]_vars => [FreshStep]_vars
  BY StepAddresses
<1>2. Spec => [][FreshStep]_vars
  BY <1>1, StepTypes, AddressesInvariant, PTL DEF Spec
<1> QED
  BY <1>2 DEF AddressesAreFresh, FreshStep

\* Of all the runs that execute a visit, one ends it, and in one way.
THEOREM OneOutcomePerVisit == Spec => []OneOutcome
<1>1. AddressInv => OneOutcome
  BY DEF AddressInv
<1> QED
  BY <1>1, AddressesInvariant, PTL

-----------------------------------------------------------------------------
(* The traversal *)

\* Where the input of the next entry comes from.
InputFollows ==
    trav # NoTraversal =>
        \/ trav.input = Seed /\ trav.cursor = 0
        \/ trav.cursor > 0 /\ trav.input = trav.active[trav.cursor - 1] /\ Written(trav.input)
        \/ ledger # <<>> /\ LET hop == ledger[Len(ledger)]
                            IN  /\ hop.version = trav.version
                                /\ hop.to = trav.cursor /\ hop.entry = trav.input

CutAtCursor ==
    trav # NoTraversal => \A s \in Stations : s >= trav.cursor => trav.active[s] = NoArtifact

\* The entry under way is of the task the traversal is at.
EntryAtCursor ==
    trav # NoTraversal /\ trav.pending # NoEntry => trav.pending.at[1] = trav.cursor

Executing(r) == pc[r] \in {"attempt", "running"}

\* The visit a run executes has a task row; and while it is the one under way,
\* the run works on its input.
VisitsEntered == \A r \in Runs : Executing(r) => Me(r) \in tasks
InputsAgree == \A r \in Runs : Executing(r) /\ Owns(r) => mem[r].input = trav.pending.input

FollowInv == InputFollows /\ CutAtCursor /\ EntryAtCursor /\ VisitsEntered /\ InputsAgree

LEMMA InitFollows == Init => FollowInv
BY DEF Init, FollowInv, InputFollows, CutAtCursor, EntryAtCursor, VisitsEntered, InputsAgree,
       Executing

\* A step of run r, seen by the others: a new entry is not one they execute.
LEMMA OthersFollow ==
    ASSUME TypeOK, FollowInv, FreshStep, tasks \subseteq tasks', NEW r \in Runs,
           \A q \in Runs : q # r => pc'[q] = pc[q] /\ mem'[q] = mem[q],
           Executing(r)' => Me(r)' \in tasks' /\ (Owns(r)' => mem'[r].input = trav'.pending.input)
    PROVE  VisitsEntered' /\ InputsAgree'
<1>1. ASSUME NEW q \in Runs, q # r, Executing(q)'
      PROVE  Me(q)' \in tasks' /\ (Owns(q)' => mem'[q].input = trav'.pending.input)
  <2>1. Executing(q) /\ Me(q)' = Me(q) /\ mem'[q] = mem[q]
    BY <1>1 DEF Executing, Me
  <2>2. Me(q) \in tasks
    BY <2>1 DEF FollowInv, VisitsEntered
  <2>3. ASSUME Owns(q)'
        PROVE  mem[q].input = trav'.pending.input
    <3>1. trav' # NoTraversal /\ trav'.pending # NoEntry /\ trav'.pending.at = Me(q)
      BY <2>1, <2>3 DEF Owns
    <3>2. trav # NoTraversal /\ trav.pending = trav'.pending
      BY <2>2, <3>1 DEF FreshStep
    <3>3. Owns(q)
      BY <3>1, <3>2 DEF Owns
    <3> QED
      BY <2>1, <3>2, <3>3 DEF FollowInv, InputsAgree
  <2> QED
    BY <2>1, <2>2, <2>3
<1>2. ASSUME NEW q \in Runs, Executing(q)'
      PROVE  Me(q)' \in tasks' /\ (Owns(q)' => mem'[q].input = trav'.pending.input)
  BY <1>1, <1>2
<1> QED
  BY <1>2 DEF VisitsEntered, InputsAgree

\* A step that leaves the traversal and the ledger alone.
LEMMA TraversalKept ==
    ASSUME FollowInv, UNCHANGED <<trav, ledger>>, TypeOK,
           \A a \in Ids : Written(a) => art'[a] # Nobody
    PROVE  InputFollows' /\ CutAtCursor' /\ EntryAtCursor'
<1>1. trav # NoTraversal => trav.input \in Ids
  BY DEF TypeOK, Traversals
<1> QED
  BY <1>1 DEF FollowInv, InputFollows, CutAtCursor, EntryAtCursor, Written

\* The new entry of a task is where the traversal already was.
LEMMA AllocationFollows ==
    ASSUME NEW t \in Traversals, NEW s \in Stations, NEW a \in Ids,
           Next1(t, s) <= MaxVisits, trav' = Allocated(t, s, a)
    PROVE  /\ trav'.pending.at[1] = trav'.cursor /\ trav'.cursor = s
           /\ trav'.pending.input = a /\ trav'.input = a
           /\ trav'.active = t.active /\ trav'.version = t.version
           /\ trav'.pending # NoEntry /\ trav' # NoTraversal
           /\ trav'.pending.at = <<s, Next1(t, s)>>
<1>1. /\ trav'.pending = NextEntry(t, s, a) /\ trav'.cursor = s /\ trav'.input = a
      /\ trav'.active = t.active /\ trav'.version = t.version /\ trav' \in Traversals
  BY AllocatedFacts
<1>2. NextEntry(t, s, a) \in Entries
  BY NextEntryFacts
<1>3. NextEntry(t, s, a).at = <<s, Next1(t, s)>> /\ NextEntry(t, s, a).input = a
  BY DEF NextEntry
<1>4. <<s, Next1(t, s)>>[1] = s
  OBVIOUS
<1> QED
  BY <1>1, <1>2, <1>3, <1>4, ConstantsAssumption

LEMMA TransferFollows ==
    ASSUME TypeOK, TypeOK', FollowInv, FreshStep, NEW r \in Runs,
           NEW op \in {"forward", "rewind", "retry_all"}, NEW to \in 0 .. END,
           NEW entry \in Ids, Transfer(r, op, to, entry)
    PROVE  FollowInv'
<1> DEFINE u == Moved(r, op, to, entry)
           seq == mem[r].seq
           len == Len(ledger)
           hop == [op |-> op, from |-> Me(r), to |-> to, entry |-> entry,
                   version |-> trav.version + 1]
<1>1. /\ trav # NoTraversal /\ trav.pending # NoEntry /\ trav.pending.at = Me(r)
      /\ trav \in Traversals /\ seq \in Stations /\ len \in Nat
      /\ ledger' = Append(ledger, hop) /\ Allows(op, seq, to)
  BY DEF Transfer, Owns, TypeOK, States
<1>2. trav.cursor = seq
  BY <1>1 DEF FollowInv, EntryAtCursor, Me
<1>3. /\ ledger' # <<>> /\ Len(ledger') = len + 1 /\ ledger'[len + 1].to = to
      /\ ledger'[len + 1].entry = entry /\ ledger'[len + 1].version = trav.version + 1
  <2>1. hop.to = to /\ hop.entry = entry /\ hop.version = trav.version + 1
    OBVIOUS
  <2>2. ledger \in Seq(Handoffs)
    BY DEF TypeOK
  <2> HIDE DEF hop
  <2>3. Len(ledger') = len + 1 /\ ledger'[len + 1] = hop
    BY <1>1, <2>2
  <2> QED
    BY <1>1, <2>1, <2>3
<1>4. /\ u \in Traversals /\ u.active = Active(op, seq, to) /\ u.pending = NoEntry
      /\ u.cursor = to /\ u.input = entry /\ u.version = trav.version + 1
      /\ u.counters = trav.counters
  BY <1>1, MovedFacts
<1>5. \A s \in Stations : s >= to => Active(op, seq, to)[s] = NoArtifact
  <2>1. trav.active \in [Stations -> Ids \cup {NoArtifact}]
    BY <1>1 DEF Traversals
  <2>2. CASE op = "forward"
    <3>1. <<seq, to>> \in Edges
      BY <1>1, <2>2 DEF Allows
    <3>2. seq < to
      BY <3>1, ConstantsAssumption
    <3>3. \A s \in Stations : s >= to => s >= seq /\ s # seq
      BY <1>1, <3>2, ConstantsAssumption DEF Stations
    <3> QED
      BY <1>1, <1>2, <2>1, <2>2, <3>3 DEF Active, FollowInv, CutAtCursor
  <2>3. CASE op # "forward"
    <3>1. \A s \in Stations : s >= to => ~(s < to)
      BY ConstantsAssumption DEF Stations, END
    <3> QED
      BY <2>3, <3>1 DEF Active
  <2> QED
    BY <2>2, <2>3
<1>6. to # END => to \in Stations /\ Next1(u, to) <= MaxVisits
  BY <1>4, ConstantsAssumption DEF Transfer, Stations, END, Next1
<1>7. /\ trav'.cursor = to /\ trav'.input = entry /\ trav'.active = Active(op, seq, to)
      /\ trav'.version = trav.version + 1
      /\ trav'.pending # NoEntry => trav'.pending.at[1] = to
  <2>1. trav' = IF to = END THEN u ELSE Allocated(u, to, entry)
    BY DEF Transfer, Moved
  <2> HIDE DEF u
  <2>2. CASE to = END
    BY <1>4, <2>1, <2>2
  <2>3. CASE to # END
    <3>1. trav' = Allocated(u, to, entry)
      BY <2>1, <2>3
    <3> QED
      BY <1>4, <1>6, <2>3, <3>1, AllocationFollows
  <2> QED
    BY <2>2, <2>3
<1>8. InputFollows'
  <2> HIDE DEF len, hop
  <2> QED
    BY <1>3, <1>7 DEF InputFollows
<1>9. CutAtCursor' /\ EntryAtCursor'
  BY <1>5, <1>7 DEF CutAtCursor, EntryAtCursor
<1>10. VisitsEntered' /\ InputsAgree'
  <2>1. tasks \subseteq tasks'
    BY DEF Transfer
  <2>2. /\ \A q \in Runs : q # r => pc'[q] = pc[q] /\ mem'[q] = mem[q]
        /\ ~Executing(r)'
    BY DEF Transfer, Done, Enter, Go, TypeOK, Executing
  <2> QED
    BY <2>1, <2>2, OthersFollow
<1> QED
  BY <1>8, <1>9, <1>10 DEF FollowInv

LEMMA StepFollows ==
    TypeOK /\ TypeOK' /\ AddressInv /\ FollowInv /\ [Next]_vars => FollowInv'
<1> SUFFICES ASSUME TypeOK, TypeOK', AddressInv, FollowInv, [Next]_vars
             PROVE  FollowInv'
  OBVIOUS
<1>1. CASE UNCHANGED vars
  BY <1>1 DEF vars, store, memory, FollowInv, InputFollows, CutAtCursor, EntryAtCursor,
              VisitsEntered, InputsAgree, Executing, Me, Owns, Written
<1>2. ASSUME Next
      PROVE  FreshStep
  <2>1. [FreshStep]_vars
    BY StepAddresses
  <2>2. UNCHANGED vars => FreshStep
    BY DEF vars, store, FreshStep
  <2> QED
    BY <2>1, <2>2
<1>3. ASSUME NEW r \in Runs,
             Start(r) \/ Skip(r) \/ Open(r) \/ Repair(r) \/ Upsert(r) \/ Tell(r) \/ Fail(r)
             \/ Raise(r) \/ Recover(r) \/ Die(r)
      PROVE  FollowInv'
  <2>1. FreshStep
    BY <1>2, <1>3 DEF Next, Opening, Working
  <2>2. UNCHANGED <<trav, ledger, tasks>> /\ \A a \in Ids : Written(a) => art'[a] # Nobody
    <3>1. CASE Open(r)
      BY <3>1, ConstantsAssumption DEF Open, store, TypeOK, Written
    <3>2. CASE Start(r) \/ Repair(r) \/ Upsert(r) \/ Fail(r) \/ Recover(r)
      BY <3>2 DEF Start, Repair, Upsert, Fail, Recover, Written
    <3>3. CASE Skip(r) \/ Tell(r) \/ Raise(r) \/ Die(r)
      BY <3>3 DEF Skip, Tell, Raise, Die, store, Written
    <3> QED
      BY <1>3, <3>1, <3>2, <3>3
  <2>3. /\ \A q \in Runs : q # r => pc'[q] = pc[q] /\ mem'[q] = mem[q]
        /\ ~Executing(r)'
    <3>1. CASE Open(r)
      BY <3>1 DEF Open, Go, Enter, Resumption, memory, TypeOK, Executing
    <3>2. CASE Start(r) \/ Upsert(r)
      BY <3>2 DEF Start, Upsert, Go, memory, TypeOK, Executing
    <3>3. CASE Repair(r) \/ Raise(r)
      BY <3>3 DEF Repair, Raise, Leave, Go, memory, TypeOK, Executing
    <3>4. CASE Skip(r) \/ Tell(r) \/ Fail(r) \/ Recover(r) \/ Die(r)
      BY <3>4 DEF Skip, Tell, Fail, Recover, Die, Leave, Go, TypeOK, Executing
    <3> QED
      BY <1>3, <3>1, <3>2, <3>3, <3>4
  <2>4. VisitsEntered' /\ InputsAgree'
    BY <2>1, <2>2, <2>3, OthersFollow
  <2> QED
    BY <2>2, <2>4, TraversalKept DEF FollowInv
<1>4. ASSUME NEW r \in Runs, Attempt(r) \/ Retry(r)
      PROVE  FollowInv'
  <2>1. UNCHANGED <<trav, ledger, tasks, art, mem>>
    BY <1>4 DEF Attempt, Retry, store, memory
  <2>2. Executing(r) /\ \A q \in Runs : Executing(q)' => Executing(q)
    BY <1>4 DEF Attempt, Retry, Go, TypeOK, Executing
  <2>3. VisitsEntered' /\ InputsAgree'
    BY <2>1, <2>2 DEF FollowInv, VisitsEntered, InputsAgree, Owns, Me
  <2> QED
    BY <2>1, <2>3, TraversalKept DEF FollowInv, Written
<1>5. ASSUME NEW r \in Runs, Reset(r)
      PROVE  FollowInv'
  <2>1. FreshStep
    BY <1>2, <1>5 DEF Next, Opening
  <2>2. /\ trav'.active = [s \in Stations |-> NoArtifact] /\ trav'.pending = NoEntry
        /\ trav'.cursor = 0 /\ trav'.input = Seed
    BY <1>5, RestartedFacts DEF Reset
  <2>3. InputFollows' /\ CutAtCursor' /\ EntryAtCursor'
    BY <2>2 DEF InputFollows, CutAtCursor, EntryAtCursor
  <2>4. /\ \A q \in Runs : q # r => pc'[q] = pc[q] /\ mem'[q] = mem[q]
        /\ ~Executing(r)' /\ tasks \subseteq tasks'
    BY <1>5 DEF Reset, Go, Enter, TypeOK, Executing
  <2> QED
    BY <2>1, <2>3, <2>4, OthersFollow DEF FollowInv
<1>6. ASSUME NEW r \in Runs, BeginTask(r)
      PROVE  FollowInv'
  <2>1. FreshStep
    BY <1>2, <1>6 DEF Next, Working
  <2> DEFINE s == mem[r].seq
             a == mem[r].input
  <2>2. /\ trav # NoTraversal /\ trav \in Traversals /\ s \in Stations /\ a \in Ids
        /\ trav.cursor = s /\ trav.input = a /\ UNCHANGED <<art, ledger>>
        /\ tasks' = tasks \cup {trav'.pending.at}
    BY <1>6 DEF BeginTask, Enterable, TypeOK, States
  <2>3. /\ trav' \in Traversals /\ trav'.cursor = trav.cursor /\ trav'.input = trav.input
        /\ trav'.active = trav.active /\ trav'.version = trav.version
        /\ trav'.pending \in Entries /\ trav'.pending.at[1] = s
        /\ trav'.pending.input = a
    <3>1. CASE trav.pending # NoEntry
      BY <1>6, <2>2, <3>1 DEF BeginTask, Enterable, Traversals
    <3>2. CASE trav.pending = NoEntry
      <4>1. Next1(trav, s) <= MaxVisits /\ trav' = Allocated(trav, s, a)
        BY <1>6, <3>2 DEF BeginTask
      <4> HIDE DEF s, a
      <4>2. /\ trav'.pending.at[1] = trav'.cursor /\ trav'.cursor = s
            /\ trav'.pending.input = a /\ trav'.input = a
            /\ trav'.active = trav.active /\ trav'.version = trav.version
            /\ trav'.pending # NoEntry /\ trav' # NoTraversal
        BY <2>2, <4>1, AllocationFollows
      <4>3. trav' \in Traversals /\ trav'.pending \in Entries
        BY <4>2 DEF TypeOK, Traversals
      <4> QED
        BY <2>2, <4>2, <4>3
    <3> QED
      BY <3>1, <3>2
  <2>4. InputFollows' /\ CutAtCursor' /\ EntryAtCursor'
    BY <2>2, <2>3 DEF FollowInv, InputFollows, CutAtCursor, EntryAtCursor, Written
  <2>5. /\ \A q \in Runs : q # r => pc'[q] = pc[q] /\ mem'[q] = mem[q]
        /\ mem'[r].seq = s /\ mem'[r].input = a /\ mem'[r].visit = trav'.pending.at[2]
    BY <1>6 DEF BeginTask, Go, TypeOK, States
  <2>6. Me(r)' = trav'.pending.at
    BY <2>3, <2>5 DEF Me, Entries, Occurrences
  <2>7. VisitsEntered' /\ InputsAgree'
    BY <2>1, <2>2, <2>3, <2>5, <2>6, OthersFollow
  <2> QED
    BY <2>4, <2>7 DEF FollowInv
<1>7. ASSUME NEW r \in Runs, Succeed(r)
      PROVE  FollowInv'
  <2>1. FreshStep
    BY <1>2, <1>7 DEF Next, Working
  <2> DEFINE out == Me(r)
             s == mem[r].seq
  <2>2. /\ trav # NoTraversal /\ trav \in Traversals /\ trav.pending # NoEntry
        /\ trav.pending.at = out /\ s \in Stations /\ out \in Ids
        /\ UNCHANGED <<tasks, ledger>> /\ trav' = Succeeding(r)
        /\ art' = [art EXCEPT ![out] = r]
    BY <1>7, AddressFacts DEF Succeed, Succeeding, Owns, TypeOK, States, Me
  <2>3. /\ trav'.active = [trav.active EXCEPT ![s] = out] /\ trav'.pending = NoEntry
        /\ trav'.cursor = s + 1 /\ trav'.input = out
    BY <2>2, SucceedingFacts
  <2>4. trav.cursor = s /\ s \in Nat
    BY <2>2, ConstantsAssumption DEF FollowInv, EntryAtCursor, Me, Stations
  <2>5. trav.active \in [Stations -> Ids \cup {NoArtifact}]
    BY <2>2 DEF Traversals
  <2>6. trav'.active[s] = out /\ \A q \in Stations : q # s => trav'.active[q] = trav.active[q]
    BY <2>2, <2>3, <2>5
  <2>7. InputFollows'
    <3>1. trav'.cursor > 0 /\ trav'.cursor - 1 = s
      BY <2>3, <2>4
    <3>2. art'[out] # Nobody
      BY <2>2, ConstantsAssumption DEF TypeOK
    <3> QED
      BY <2>3, <2>6, <3>1, <3>2 DEF InputFollows, Written
  <2>8. CutAtCursor'
    <3>1. \A q \in Stations : q >= s + 1 => q >= s /\ q # s
      BY <2>4, ConstantsAssumption DEF Stations
    <3> QED
      BY <2>2, <2>3, <2>4, <2>6, <3>1 DEF FollowInv, CutAtCursor
  <2>9. EntryAtCursor'
    BY <2>3 DEF EntryAtCursor
  <2>10. /\ \A q \in Runs : q # r => pc'[q] = pc[q] /\ mem'[q] = mem[q]
         /\ ~Executing(r)'
    BY <1>7 DEF Succeed, Done, Enter, Go, TypeOK, Executing
  <2>11. VisitsEntered' /\ InputsAgree'
    BY <2>1, <2>2, <2>10, OthersFollow
  <2> QED
    BY <2>7, <2>8, <2>9, <2>11 DEF FollowInv
<1>8. ASSUME NEW r \in Runs, RetryAllTasks(r)
      PROVE  FollowInv'
  <2>1. FreshStep
    BY <1>2, <1>8 DEF Next, Working
  <2>2. 0 \in 0 .. END /\ Seed \in Ids /\ Transfer(r, "retry_all", 0, Seed)
    BY <1>8, AddressFacts DEF RetryAllTasks
  <2> QED
    BY <2>1, <2>2, TransferFollows
<1>9. ASSUME NEW r \in Runs, NEW to \in 0 .. END, HandOver(r, to)
      PROVE  FollowInv'
  <2>1. FreshStep
    BY <1>2, <1>9 DEF Next, Working
  <2>2. mem[r].input \in Ids /\ Transfer(r, "forward", to, mem[r].input)
    BY <1>9 DEF HandOver, TypeOK, States
  <2> QED
    BY <2>1, <2>2, TransferFollows
<1>10. ASSUME NEW r \in Runs, NEW op \in {"forward", "rewind"}, NEW to \in 0 .. END,
              HandOverPayload(r, op, to)
       PROVE  FollowInv'
  <2>1. FreshStep
    BY <1>2, <1>10 DEF Next, Working
  <2>2. Transfer(r, op, to, Payload)
    BY <1>10 DEF HandOverPayload
  <2>3. Payload \in Ids
    <3>1. Len(ledger) \in 0 .. MaxHops - 1
      BY <2>2, ConstantsAssumption DEF Transfer, TypeOK
    <3> QED
      BY <3>1, AddressFacts DEF Payload
  <2> QED
    BY <2>1, <2>2, <2>3, TransferFollows
<1>11. ASSUME NEW a \in Ids, Spoil(a)
       PROVE  FollowInv'
  BY <1>11 DEF Spoil, memory, FollowInv, InputFollows, CutAtCursor, EntryAtCursor,
               VisitsEntered, InputsAgree, Executing, Me, Owns, Written
<1>12. CASE LoseTraversal
  BY <1>12 DEF LoseTraversal, memory, FollowInv, InputFollows, CutAtCursor, EntryAtCursor,
               VisitsEntered, InputsAgree, Executing, Me, Owns
<1> QED
  BY <1>1, <1>3, <1>4, <1>5, <1>6, <1>7, <1>8, <1>9, <1>10, <1>11, <1>12
  DEF Next, Opening, Working

LEMMA FollowInvariant == Spec => []FollowInv
BY InitFollows, StepFollows, AddressesInvariant, StepTypes, PTL DEF Spec

\* The next entry, and every run that may still end the one under way, work on
\* what this traversal made.
THEOREM RunsFollowTheTraversal == Spec => []FollowsTraversal
<1>1. FollowInv => FollowsTraversal
  BY DEF FollowInv, InputFollows, CutAtCursor, InputsAgree, Executing, FollowsTraversal
<1> QED
  BY <1>1, FollowInvariant, PTL

-----------------------------------------------------------------------------
(* The budget *)

\* The rows of the ledger that cost a handoff since the budget was renewed.
Spent == {i \in budgetFrom + 1 .. Len(ledger) : ledger[i].to # END}

BudgetInv ==
    /\ budgetFrom <= Len(ledger)
    /\ trav # NoTraversal => trav.handoffs <= Limit /\ trav.handoffs = Cardinality(Spent)

LEMMA BudgetUnchanged ==
    ASSUME BudgetInv, UNCHANGED <<ledger, budgetFrom>>,
           trav' # NoTraversal => trav # NoTraversal /\ trav'.handoffs = trav.handoffs
    PROVE  BudgetInv'
BY DEF BudgetInv, Spent

LEMMA AllocatedBudget ==
    ASSUME NEW t \in Traversals, NEW s \in Stations, NEW a \in Ids
    PROVE  Allocated(t, s, a).handoffs = t.handoffs
BY DEF Allocated, Traversals

LEMMA SpentFinite == TypeOK => IsFiniteSet(Spent)
<1> SUFFICES ASSUME TypeOK
             PROVE  IsFiniteSet(Spent)
  OBVIOUS
<1>1. budgetFrom + 1 \in Int /\ Len(ledger) \in Int
  BY ConstantsAssumption DEF TypeOK
<1>2. IsFiniteSet(budgetFrom + 1 .. Len(ledger))
  BY <1>1, FS_Interval
<1> QED
  BY <1>2, FS_Subset DEF Spent

LEMMA TransferBudget ==
    ASSUME TypeOK, BudgetInv, NEW r \in Runs,
           NEW op \in {"forward", "rewind", "retry_all"}, NEW to \in 0 .. END,
           NEW entry \in Ids, Transfer(r, op, to, entry)
    PROVE  BudgetInv'
<1> DEFINE u == Moved(r, op, to, entry)
           len == Len(ledger)
           from == budgetFrom
           hop == [op |-> op, from |-> Me(r), to |-> to, entry |-> entry,
                   version |-> trav.version + 1]
<1>1. /\ trav # NoTraversal /\ trav \in Traversals /\ WithinBudget(to)
      /\ len \in Nat /\ from \in Nat /\ from <= len /\ budgetFrom' = from
      /\ ledger' = Append(ledger, hop)
  BY DEF Transfer, Owns, TypeOK, BudgetInv
<1>2. /\ Len(ledger') = len + 1 /\ ledger'[len + 1].to = to
      /\ \A i \in 1 .. len : ledger'[i] = ledger[i]
  <2>1. hop.to = to
    OBVIOUS
  <2>2. ledger \in Seq(Handoffs)
    BY DEF TypeOK
  <2> HIDE DEF hop
  <2> QED
    BY <1>1, <2>1, <2>2
<1>3. /\ u \in Traversals
      /\ u.handoffs = IF to = END THEN trav.handoffs ELSE trav.handoffs + 1
  <2>1. u \in Traversals
    BY <1>1, MovedFacts
  <2> QED
    BY <1>1, <2>1 DEF Moved, Traversals
<1>4. trav'.handoffs = u.handoffs
  <2>1. trav' = IF to = END THEN u ELSE Allocated(u, to, entry)
    BY DEF Transfer, Moved
  <2>2. to # END => to \in Stations
    BY ConstantsAssumption DEF Stations, END
  <2> HIDE DEF u
  <2> QED
    BY <1>3, <2>1, <2>2, AllocatedBudget
<1>5. trav.handoffs \in Nat /\ trav.handoffs <= Limit /\ trav.handoffs = Cardinality(Spent)
  BY <1>1 DEF BudgetInv, Traversals
<1> HIDE DEF u, hop
<1>6. Spent' = {i \in from + 1 .. len + 1 : ledger'[i].to # END}
  BY <1>1, <1>2 DEF Spent
<1>7. \A i \in from + 1 .. len + 1 : (i \in from + 1 .. len /\ i \in 1 .. len) \/ i = len + 1
  BY <1>1
<1>8. CASE to = END
  <2>1. Spent' = Spent
    BY <1>1, <1>2, <1>6, <1>7, <1>8 DEF Spent
  <2> QED
    BY <1>1, <1>2, <1>3, <1>4, <1>5, <1>8, <2>1 DEF BudgetInv
<1>9. CASE to # END
  <2>1. Spent' = Spent \cup {len + 1} /\ len + 1 \notin Spent
    BY <1>1, <1>2, <1>6, <1>7, <1>9 DEF Spent
  <2>2. Cardinality(Spent') = Cardinality(Spent) + 1
    BY <2>1, SpentFinite, FS_AddElement
  <2>3. trav.handoffs < Limit
    BY <1>1, <1>9 DEF WithinBudget
  <2>4. trav'.handoffs = trav.handoffs + 1 /\ trav'.handoffs <= Limit
    BY <1>3, <1>4, <1>5, <1>9, <2>3, ConstantsAssumption
  <2> QED
    BY <1>1, <1>2, <1>5, <2>2, <2>4 DEF BudgetInv
<1> QED
  BY <1>8, <1>9

LEMMA StepBudget == TypeOK /\ BudgetInv /\ [Next]_vars => BudgetInv'
<1> SUFFICES ASSUME TypeOK, BudgetInv, [Next]_vars
             PROVE  BudgetInv'
  OBVIOUS
<1>1. CASE UNCHANGED vars
  BY <1>1, BudgetUnchanged DEF vars, store
<1>2. ASSUME NEW r \in Runs,
             Start(r) \/ Skip(r) \/ Open(r) \/ Repair(r) \/ Upsert(r) \/ Attempt(r)
             \/ Retry(r) \/ Tell(r) \/ Fail(r) \/ Raise(r) \/ Recover(r) \/ Die(r)
      PROVE  BudgetInv'
  <2>1. UNCHANGED <<trav, ledger, budgetFrom>>
    BY <1>2 DEF Start, Skip, Open, Repair, Upsert, Attempt, Retry, Tell, Fail, Raise, Recover,
                Die, store
  <2> QED
    BY <2>1, BudgetUnchanged
<1>3. ASSUME NEW r \in Runs, BeginTask(r)
      PROVE  BudgetInv'
  <2>1. /\ trav # NoTraversal /\ trav \in Traversals /\ mem[r].seq \in Stations
        /\ mem[r].input \in Ids /\ UNCHANGED <<ledger, budgetFrom>>
        /\ trav' = IF trav.pending = NoEntry THEN Allocated(trav, mem[r].seq, mem[r].input)
                   ELSE trav
    BY <1>3 DEF BeginTask, Enterable, TypeOK, States
  <2>2. trav'.handoffs = trav.handoffs
    BY <2>1, AllocatedBudget
  <2> QED
    BY <2>1, <2>2, BudgetUnchanged
<1>4. ASSUME NEW r \in Runs, Succeed(r)
      PROVE  BudgetInv'
  <2>1. /\ trav # NoTraversal /\ trav \in Traversals /\ UNCHANGED <<ledger, budgetFrom>>
        /\ trav' = Succeeding(r)
    BY <1>4 DEF Succeed, Succeeding, Owns, TypeOK
  <2>2. trav'.handoffs = trav.handoffs
    BY <2>1 DEF Succeeding, Traversals
  <2> QED
    BY <2>1, <2>2, BudgetUnchanged
<1>5. ASSUME NEW r \in Runs, Reset(r)
      PROVE  BudgetInv'
  <2> DEFINE renewed == pc[r] = "fresh" \/ trav = NoTraversal
  <2>1. /\ trav'.handoffs = IF renewed THEN 0 ELSE trav.handoffs
        /\ ledger' = ledger /\ budgetFrom' = IF renewed THEN Len(ledger) ELSE budgetFrom
    BY <1>5 DEF Reset, Restarted
  <2>2. CASE renewed
    <3>1. Spent' = {}
      BY <2>1, <2>2 DEF Spent, TypeOK
    <3>2. Cardinality(Spent') = 0
      BY <3>1, FS_EmptySet
    <3> QED
      BY <2>1, <2>2, <3>2, ConstantsAssumption DEF BudgetInv, TypeOK
  <2>3. CASE ~renewed
    BY <2>1, <2>3, BudgetUnchanged
  <2> QED
    BY <2>2, <2>3
<1>6. ASSUME NEW r \in Runs, RetryAllTasks(r)
      PROVE  BudgetInv'
  BY <1>6, AddressFacts, TransferBudget DEF RetryAllTasks
<1>7. ASSUME NEW r \in Runs, NEW to \in 0 .. END, HandOver(r, to)
      PROVE  BudgetInv'
  BY <1>7, TransferBudget DEF HandOver, TypeOK, States
<1>8. ASSUME NEW r \in Runs, NEW op \in {"forward", "rewind"}, NEW to \in 0 .. END,
             HandOverPayload(r, op, to)
      PROVE  BudgetInv'
  <2>1. Transfer(r, op, to, Payload)
    BY <1>8 DEF HandOverPayload
  <2>2. Payload \in Ids
    <3>1. Len(ledger) \in 0 .. MaxHops - 1
      BY <2>1, ConstantsAssumption DEF Transfer, TypeOK
    <3> QED
      BY <3>1, AddressFacts DEF Payload
  <2> QED
    BY <2>1, <2>2, TransferBudget
<1>9. ASSUME NEW a \in Ids, Spoil(a)
      PROVE  BudgetInv'
  BY <1>9, BudgetUnchanged DEF Spoil
<1>10. CASE LoseTraversal
  BY <1>10, BudgetUnchanged DEF LoseTraversal
<1> QED
  BY <1>1, <1>2, <1>3, <1>4, <1>5, <1>6, <1>7, <1>8, <1>9, <1>10 DEF Next, Opening, Working

\* Restarts, rewinds and resets for a lost payload included, a pipeline never
\* transfers more often than its budget allows.
THEOREM BudgetIsKept == Spec => []BudgetKept
<1>1. Init => BudgetInv
  BY DEF Init, BudgetInv
<1>2. BudgetInv => BudgetKept
  BY DEF BudgetInv, BudgetKept, Spent
<1> QED
  BY <1>1, <1>2, InitTypes, StepTypes, StepBudget, PTL DEF Spec

=============================================================================
