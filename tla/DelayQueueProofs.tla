-------------------------- MODULE DelayQueueProofs --------------------------
(***************************************************************************)
(* That the delay queue hands over what it removes and sleeps past no      *)
(* deadline, for any number of items, any delays, any room and any bounds. *)
(***************************************************************************)
EXTENDS DelayQueue, FiniteSetTheorems, WellFoundedInduction, TLAPS

(***************************************************************************)
(* The order of the heap: entries are told apart by seq, so a nonempty     *)
(* heap has one head.                                                      *)
(***************************************************************************)

HeapOrdered ==
    /\ \A e, f \in heap : e.seq = f.seq => e = f
    /\ \A e \in heap : e.seq <= pushed

\* A nonempty set of naturals has a least element.
LEMMA Least ==
    ASSUME NEW S, S \subseteq Nat, S # {}
    PROVE  \E m \in S : \A n \in S : m <= n
<1>1. PICK m \in S : \A n \in S : <<n, m>> \notin OpToRel(<, Nat)
  BY NatLessThanWellFounded, WFMin
<1>2. ASSUME NEW n \in S
      PROVE  m <= n
  <2>1. m \in Nat /\ n \in Nat /\ ~(n < m)
    BY <1>1 DEF OpToRel
  <2> QED
    BY <2>1
<1> QED
  BY <1>2

\* Head1 is an entry that no other comes before.
LEMMA HeadFacts ==
    ASSUME TypeOK, heap # {}
    PROVE  Head1 \in heap /\ \A f \in heap : Before(Head1, f)
<1> DEFINE Ats == {e.at : e \in heap}
<1>1. Ats \subseteq Nat /\ Ats # {}
  BY DEF TypeOK, Entries, Deadline
<1>2. PICK a \in Ats : \A b \in Ats : a <= b
  BY <1>1, Least
<1> DEFINE Seqs == {e.seq : e \in {e \in heap : e.at = a}}
<1>3. Seqs \subseteq Nat /\ Seqs # {}
  BY <1>2, ConstantsAssumption DEF TypeOK, Entries
<1>4. PICK s \in Seqs : \A t \in Seqs : s <= t
  BY <1>3, Least
<1>5. PICK e \in heap : e.at = a /\ e.seq = s
  BY <1>4
<1>6. ASSUME NEW f \in heap
      PROVE  Before(e, f)
  <2>1. a <= f.at /\ a \in Nat /\ f.at \in Nat
    BY <1>1, <1>2
  <2>2. CASE f.at = a
    BY <1>4, <1>5, <2>2 DEF Before
  <2>3. CASE f.at # a
    BY <1>5, <2>1, <2>3 DEF Before
  <2> QED
    BY <2>2, <2>3
<1> QED
  BY <1>5, <1>6 DEF Head1

\* An entry that no other comes before is the head.
LEMMA HeadIsUnique ==
    ASSUME TypeOK, HeapOrdered, NEW e \in heap, \A f \in heap : Before(e, f)
    PROVE  Head1 = e
<1>1. Head1 \in heap /\ Before(Head1, e) /\ Before(e, Head1)
  BY HeadFacts
<1>2. Head1.seq = e.seq
  BY <1>1 DEF Before, TypeOK, Entries, Deadline
<1> QED
  BY <1>1, <1>2 DEF HeapOrdered

-----------------------------------------------------------------------------
(* Type correctness, with what the counter says of the heap. *)

\* A push adds an entry that is due no earlier than now, behind its equals.
LEMMA PushedEntry ==
    ASSUME TypeOK, NEW i \in Items, NEW d \in Delays, pushed < MaxPushes
    PROVE  LET e == [at |-> ReadyAt(d), seq |-> pushed + 1, item |-> i]
           IN  e \in Entries /\ e.at >= now
<1>1. ReadyAt(d) \in Nat /\ ReadyAt(d) >= now
  BY ConstantsAssumption DEF ReadyAt, Max0, TypeOK
<1>2. pushed + 1 \in 1 .. MaxPushes
  BY ConstantsAssumption DEF TypeOK
<1> QED
  BY <1>1, <1>2 DEF Entries, Deadline

\* While the pump waits for room, the entry it hands over stays the head: it is
\* due, and what is pushed meanwhile is due no earlier and comes behind it.
HandsHead ==
    pump = "handing" => entry \in heap /\ entry.at <= now /\ \A f \in heap : Before(entry, f)

PumpInv == TypeOK /\ HeapOrdered /\ HandsHead /\ NeverOversleeps

LEMMA PumpInit == Init => PumpInv
<1> SUFFICES ASSUME Init
             PROVE  PumpInv
  OBVIOUS
<1>1. TypeOK
  <2>1. sink \in Seq(Items \cup {Fresh}) /\ Len(sink) <= Room
    BY ConstantsAssumption DEF Init
  <2>2. now \in 0 .. MaxNow /\ until \in Deadline /\ pushed \in 0 .. MaxPushes
    BY ConstantsAssumption DEF Init, Deadline
  <2> QED
    BY <2>1, <2>2 DEF Init, TypeOK
<1>2. HeapOrdered /\ HandsHead /\ NeverOversleeps
  BY DEF Init, HeapOrdered, HandsHead, NeverOversleeps
<1> QED
  BY <1>1, <1>2 DEF PumpInv

LEMMA PushKeeps ==
    ASSUME PumpInv, NEW i \in Items, NEW d \in Delays, Push(i, d)
    PROVE  PumpInv'
<1> USE DEF PumpInv
<1> DEFINE e == [at |-> ReadyAt(d), seq |-> pushed + 1, item |-> i]
<1>1. e \in Entries /\ e.at >= now
  BY PushedEntry DEF Push
<1>2. heap' = heap \cup {e} /\ e.seq = pushed' /\ pushed' = pushed + 1 /\ pushed \in Nat
  BY DEF Push, TypeOK
<1> HIDE DEF e
<1>3. TypeOK'
  BY <1>1, <1>2, ConstantsAssumption DEF Push, TypeOK, Wakes
<1>4. \A f \in heap : f.seq \in Nat /\ f.at \in Nat /\ f.seq <= pushed
  BY ConstantsAssumption DEF TypeOK, HeapOrdered, Entries, Deadline
<1>5. HeapOrdered'
  BY <1>2, <1>4 DEF HeapOrdered
<1>6. HandsHead'
  <2> SUFFICES ASSUME pump = "handing"
               PROVE  entry \in heap' /\ entry.at <= now /\ \A f \in heap' : Before(entry, f)
    BY DEF Push, HandsHead
  <2>1. entry \in heap /\ entry.at <= now /\ \A f \in heap : Before(entry, f)
    BY DEF HandsHead
  <2>2. e.at \in Nat /\ now \in Nat
    BY <1>1 DEF Entries, Deadline, TypeOK
  <2>3. Before(entry, e)
    BY <1>1, <1>2, <1>4, <2>1, <2>2 DEF Before
  <2> QED
    BY <1>2, <2>1, <2>3
<1>7. NeverOversleeps'
  BY DEF NeverOversleeps, Push, Wakes
<1> QED
  BY <1>3, <1>5, <1>6, <1>7

LEMMA PumpStep == PumpInv /\ [Next]_vars => PumpInv'
<1> SUFFICES ASSUME PumpInv, [Next]_vars
             PROVE  PumpInv'
  OBVIOUS
<1> USE DEF PumpInv
<1>1. ASSUME NEW i \in Items, NEW d \in Delays, Push(i, d)
      PROVE  PumpInv'
  BY <1>1, PushKeeps
<1>2. CASE Wait
  BY <1>2 DEF Wait, TypeOK, HeapOrdered, HandsHead, NeverOversleeps
<1>3. CASE Sleep
  <2>1. Head1 \in heap /\ Head1.at \in Nat /\ \A f \in heap : Head1.at <= f.at
    BY <1>3, HeadFacts DEF Sleep, Before, TypeOK, Entries, Deadline
  <2> QED
    BY <1>3, <2>1 DEF Sleep, TypeOK, HeapOrdered, HandsHead, NeverOversleeps, Deadline
<1>4. CASE Rouse
  BY <1>4 DEF Rouse, TypeOK, HeapOrdered, HandsHead, NeverOversleeps
<1>5. CASE Choose
  <2>1. Head1 \in heap /\ \A f \in heap : Before(Head1, f)
    BY <1>5, HeadFacts DEF Choose
  <2>2. TypeOK' /\ HeapOrdered' /\ NeverOversleeps'
    BY <1>5, <2>1 DEF Choose, TypeOK, HeapOrdered, NeverOversleeps
  <2>3. HandsHead'
    BY <1>5, <2>1 DEF Choose, HandsHead, Before
  <2> QED
    BY <2>2, <2>3
<1>6. CASE HandOver
  <2>1. entry \in Entries /\ entry.item \in Items \cup {Fresh}
    BY <1>6 DEF HandOver, HandsHead, TypeOK, Entries
  <2>2. sink' \in Seq(Items \cup {Fresh}) /\ Len(sink') <= Room
    BY <1>6, <2>1, ConstantsAssumption DEF HandOver, TypeOK
  <2>3. TypeOK' /\ HeapOrdered'
    BY <1>6, <2>2 DEF HandOver, TypeOK, HeapOrdered
  <2>4. HandsHead' /\ NeverOversleeps'
    BY <1>6 DEF HandOver, HandsHead, NeverOversleeps
  <2> QED
    BY <2>3, <2>4
<1>7. CASE Stop
  BY <1>7 DEF Stop, TypeOK, HeapOrdered, Entries, HandsHead, NeverOversleeps
<1>8. CASE Produce
  BY <1>8, ConstantsAssumption
     DEF Produce, TypeOK, HeapOrdered, HandsHead, NeverOversleeps, Before
<1>9. CASE Take
  <2>1. /\ Head(sink) \in Items \cup {Fresh}
        /\ sink' \in Seq(Items \cup {Fresh}) /\ Len(sink') <= Room
    BY <1>9, ConstantsAssumption DEF Take, TypeOK
  <2> QED
    BY <1>9, <2>1 DEF Take, TypeOK, HeapOrdered, HandsHead, NeverOversleeps, Before
<1>10. CASE Tick
  <2>1. TypeOK' /\ HeapOrdered' /\ NeverOversleeps'
    BY <1>10, ConstantsAssumption DEF Tick, TypeOK, HeapOrdered, NeverOversleeps
  <2>2. HandsHead'
    BY <1>10 DEF Tick, HandsHead, TypeOK, Entries, Deadline, Before
  <2> QED
    BY <2>1, <2>2
<1>11. CASE UNCHANGED vars
  BY <1>11 DEF vars, TypeOK, HeapOrdered, HandsHead, NeverOversleeps, Before
<1> QED
  BY <1>1, <1>2, <1>3, <1>4, <1>5, <1>6, <1>7, <1>8, <1>9, <1>10, <1>11 DEF Next, Pump

\* The heap, the work queue and the pump are always what scheduler.py keeps.
THEOREM TypeCorrect == Spec => []TypeOK
<1>1. PumpInv => TypeOK
  BY DEF PumpInv
<1> QED
  BY PumpInit, PumpStep, <1>1, PTL DEF Spec

\* The pump sleeps past no deadline: every push wakes it before it has looked
\* at the heap again (DelayQueue.push, interruptible_sleep).
THEOREM PumpWakesInTime == Spec => []NeverOversleeps
<1>1. PumpInv => NeverOversleeps
  BY DEF PumpInv
<1> QED
  BY PumpInit, PumpStep, <1>1, PTL DEF Spec

-----------------------------------------------------------------------------
(***************************************************************************)
(* Every item is in one place. Places are told apart pointwise; the counts *)
(* of HandedOverOnce follow at the end.                                    *)
(***************************************************************************)

Parked(i) == \E e \in heap : e.item = i
Queued(i) == \E k \in 1 .. Len(sink) : sink[k] = i

\* No place holds an item twice.
OnceEach ==
    /\ \A e, f \in heap : e.item = f.item => e = f
    /\ \A k, l \in 1 .. Len(sink) : sink[k] = sink[l] /\ sink[k] \in Items => k = l

\* No two places hold the same item.
Apart ==
    \A i \in Items :
        /\ Parked(i) => ~Queued(i) /\ i \notin held /\ i \notin drained
        /\ Queued(i) => i \notin held /\ i \notin drained
        /\ i \in held => i \notin drained

\* Some place holds it.
Kept == \A i \in Items : Parked(i) \/ Queued(i) \/ i \in held \/ i \in drained

Ended == pump # "stopped" => drained = {}

PlaceInv == PumpInv /\ OnceEach /\ Apart /\ Kept /\ Ended

LEMMA PlaceInit == Init => PlaceInv
<1> SUFFICES ASSUME Init
             PROVE  PlaceInv
  OBVIOUS
<1>1. heap = {} /\ Len(sink) = 0 /\ held = Items /\ drained = {}
  BY DEF Init
<1> QED
  BY <1>1, PumpInit DEF PlaceInv, OnceEach, Apart, Kept, Ended, Parked, Queued

\* What the work queue holds is unchanged but for one item at its end.
LEMMA Appended ==
    ASSUME NEW T, NEW s \in Seq(T), NEW x \in T
    PROVE  /\ Len(Append(s, x)) = Len(s) + 1 /\ Len(s) \in Nat
           /\ \A k \in 1 .. Len(s) : Append(s, x)[k] = s[k]
           /\ Append(s, x)[Len(s) + 1] = x
OBVIOUS

LEMMA PlaceStep == PlaceInv /\ [Next]_vars => PlaceInv'
<1> SUFFICES ASSUME PlaceInv, [Next]_vars
             PROVE  PlaceInv'
  OBVIOUS
<1> USE DEF PlaceInv
<1>0. PumpInv'
  BY PumpStep
<1> DEFINE Places == OnceEach /\ Apart /\ Kept /\ Ended
<1>1. ASSUME NEW i \in Items, NEW d \in Delays, Push(i, d)
      PROVE  Places'
  <2>1. PICK e \in {[at |-> ReadyAt(d), seq |-> pushed + 1, item |-> i]} : TRUE
    OBVIOUS
  <2>2. /\ heap' = heap \cup {e} /\ e.item = i /\ i \in held /\ held' = held \ {i}
        /\ sink' = sink /\ drained' = drained /\ pump' = pump
    BY <1>1, <2>1 DEF Push
  <2>3. ~Parked(i) /\ ~Queued(i) /\ i \notin drained
    BY <2>2 DEF Apart
  <2>4. \A j \in Items : (Parked(j)' <=> Parked(j) \/ j = i) /\ (Queued(j)' <=> Queued(j))
    BY <2>2 DEF Parked, Queued
  <2>5. OnceEach'
    BY <2>2, <2>3 DEF OnceEach, Parked
  <2>6. Apart' /\ Kept'
    BY <2>2, <2>3, <2>4 DEF Apart, Kept
  <2> QED
    BY <2>2, <2>5, <2>6 DEF Ended
<1>2. ASSUME HandOver
      PROVE  Places'
  <2>1. /\ pump = "handing" /\ pump' = "look" /\ sink' = Append(sink, entry.item)
        /\ held' = held /\ drained' = drained
    BY <1>2 DEF HandOver
  <2>2. entry \in heap /\ entry.item \in Items /\ Head1 = entry
    BY <2>1, HeadIsUnique DEF PumpInv, HandsHead, TypeOK, Entries
  <2>3. heap' = heap \ {entry}
    BY <1>2, <2>2 DEF HandOver
  <2> DEFINE i == entry.item
             n == Len(sink)
  <2>4. /\ Len(sink') = n + 1 /\ n \in Nat /\ sink'[n + 1] = i
        /\ \A k \in 1 .. n : sink'[k] = sink[k]
    BY <2>1, <2>2, Appended DEF PumpInv, TypeOK
  <2>5. Parked(i) /\ ~Queued(i) /\ i \notin held /\ i \notin drained
    BY <2>2 DEF Apart, Parked
  <2>6. \A j \in Items : Parked(j)' <=> Parked(j) /\ j # i
    BY <2>2, <2>3 DEF Parked, OnceEach
  <2>7. \A j \in Items : Queued(j)' <=> Queued(j) \/ j = i
    <3> SUFFICES ASSUME NEW j \in Items
                 PROVE  Queued(j)' <=> Queued(j) \/ j = i
      OBVIOUS
    <3>1. n + 1 \in 1 .. Len(sink') /\ 1 .. n \subseteq 1 .. Len(sink')
      BY <2>4
    <3>2. \A k \in 1 .. Len(sink') : k \in 1 .. n \/ k = n + 1
      BY <2>4
    <3> QED
      BY <2>4, <3>1, <3>2 DEF Queued
  <2>8. OnceEach'
    <3>1. \A e, f \in heap' : e.item = f.item => e = f
      BY <2>3 DEF OnceEach
    <3>2. ASSUME NEW k \in 1 .. Len(sink'), NEW l \in 1 .. Len(sink'),
                 sink'[k] = sink'[l], sink'[k] \in Items
          PROVE  k = l
      <4>1. (k \in 1 .. n \/ k = n + 1) /\ (l \in 1 .. n \/ l = n + 1)
        BY <2>4
      <4>2. \A m \in 1 .. n : sink[m] # i
        BY <2>5 DEF Queued
      <4> QED
        BY <2>4, <3>2, <4>1, <4>2 DEF OnceEach
    <3> QED
      BY <3>1, <3>2 DEF OnceEach
  <2> HIDE DEF i
  <2>9. Apart' /\ Kept'
    BY <2>1, <2>5, <2>6, <2>7 DEF Apart, Kept
  <2> QED
    BY <2>1, <2>8, <2>9 DEF Ended
<1>3. ASSUME Stop
      PROVE  Places'
  <2>1. /\ heap' = {} /\ drained' = {e.item : e \in heap} /\ drained = {}
        /\ sink' = sink /\ held' = held /\ pump' = "stopped"
    BY <1>3 DEF Stop, Ended
  <2>2. \A j \in Items :
          /\ ~Parked(j)' /\ (Queued(j)' <=> Queued(j))
          /\ j \in drained' <=> Parked(j)
    BY <2>1 DEF Parked, Queued
  <2>3. OnceEach'
    BY <2>1 DEF OnceEach
  <2>4. Apart' /\ Kept'
    BY <2>1, <2>2 DEF Apart, Kept
  <2> QED
    BY <2>1, <2>3, <2>4 DEF Ended
<1>4. ASSUME Produce
      PROVE  Places'
  <2> DEFINE n == Len(sink)
  <2>1. /\ sink' = Append(sink, Fresh) /\ heap' = heap /\ held' = held
        /\ drained' = drained /\ pump' = pump
    BY <1>4 DEF Produce
  <2>2. /\ Len(sink') = n + 1 /\ n \in Nat /\ sink'[n + 1] = Fresh
        /\ \A k \in 1 .. n : sink'[k] = sink[k]
    BY <2>1, Appended DEF PumpInv, TypeOK
  <2>3. \A k \in 1 .. Len(sink') : sink'[k] \in Items => k \in 1 .. n
    BY <2>2, ConstantsAssumption
  <2>4. 1 .. n \subseteq 1 .. Len(sink')
    BY <2>2
  <2> HIDE DEF n
  <2>5. \A j \in Items : (Parked(j)' <=> Parked(j)) /\ (Queued(j)' <=> Queued(j))
    BY <2>1, <2>2, <2>3, <2>4 DEF Parked, Queued, n
  <2>6. OnceEach'
    BY <2>1, <2>2, <2>3 DEF OnceEach, n
  <2>7. Apart' /\ Kept'
    BY <2>1, <2>5 DEF Apart, Kept
  <2> QED
    BY <2>1, <2>6, <2>7 DEF Ended
<1>5. ASSUME Take
      PROVE  Places'
  <2> DEFINE n == Len(sink)
  <2> PICK x \in {sink[1]} : TRUE
    OBVIOUS
  <2>1. /\ heap' = heap /\ drained' = drained /\ pump' = pump
        /\ held' = held \cup ({x} \ {Fresh}) /\ x \in Items \cup {Fresh}
    BY <1>5 DEF Take, PumpInv, TypeOK
  <2>2. /\ Len(sink') = n - 1 /\ n \in Nat /\ n > 0
        /\ \A k \in 1 .. n - 1 : sink'[k] = sink[k + 1]
    BY <1>5 DEF Take, PumpInv, TypeOK
  <2>3. \A k \in 1 .. n : k = 1 \/ (k - 1 \in 1 .. n - 1 /\ sink'[k - 1] = sink[k])
    BY <2>2
  <2>4. \A j \in Items : (Parked(j)' <=> Parked(j)) /\ (Queued(j) <=> Queued(j)' \/ j = x)
    <3>1. ASSUME NEW j \in Items, Queued(j)
          PROVE  Queued(j)' \/ j = x
      BY <2>2, <2>3, <3>1 DEF Queued
    <3>2. ASSUME NEW j \in Items, Queued(j)'
          PROVE  Queued(j)
      <4>1. PICK k \in 1 .. Len(sink') : sink'[k] = j
        BY <3>2 DEF Queued
      <4> QED
        BY <2>2, <4>1 DEF Queued
    <3>3. Queued(x)
      BY <2>2 DEF Queued
    <3> QED
      BY <2>1, <3>1, <3>2, <3>3 DEF Parked
  <2>5. ASSUME NEW j \in Items, j = x, Queued(j)'
        PROVE  FALSE
    <3> PICK k \in 1 .. Len(sink') : sink'[k] = x
      BY <2>5 DEF Queued
    <3>1. k + 1 \in 1 .. n /\ 1 \in 1 .. n /\ sink[k + 1] = x
      BY <2>2
    <3>2. k + 1 = 1
      BY <2>5, <3>1 DEF OnceEach
    <3> QED
      BY <3>2
  <2>6. OnceEach'
    <3>1. ASSUME NEW k \in 1 .. Len(sink'), NEW l \in 1 .. Len(sink'),
                 sink'[k] = sink'[l], sink'[k] \in Items
          PROVE  k = l
      <4>1. /\ k + 1 \in 1 .. n /\ l + 1 \in 1 .. n
            /\ sink[k + 1] = sink'[k] /\ sink[l + 1] = sink'[l]
        BY <2>2
      <4>2. k + 1 = l + 1
        BY <3>1, <4>1 DEF OnceEach
      <4> QED
        BY <4>2
    <3> QED
      BY <2>1, <3>1 DEF OnceEach
  <2>7. Apart' /\ Kept'
    BY <2>1, <2>4, <2>5, ConstantsAssumption DEF Apart, Kept
  <2> QED
    BY <2>1, <2>6, <2>7 DEF Ended
<1>6. ASSUME heap' = heap, sink' = sink, held' = held, drained' = drained,
             pump' = "stopped" <=> pump = "stopped"
      PROVE  Places'
  BY <1>6 DEF OnceEach, Apart, Kept, Ended, Parked, Queued
<1>7. ASSUME Wait \/ Sleep \/ Rouse \/ Choose \/ Tick \/ UNCHANGED vars
      PROVE  Places'
  BY <1>6, <1>7 DEF Wait, Sleep, Rouse, Choose, Tick, vars
<1> QED
  BY <1>0, <1>1, <1>2, <1>3, <1>4, <1>5, <1>7 DEF Next, Pump

\* An item counted pointwise is counted once.
LEMMA CountedOnce ==
    ASSUME PlaceInv, NEW i \in Items
    PROVE  Times(i)
<1> DEFINE H == {e \in heap : e.item = i}
           Q == {k \in 1 .. Len(sink) : sink[k] = i}
           W == {i} \cap held
           D == {i} \cap drained
<1> USE DEF PlaceInv
<1>1. (H = {} \/ \E e : H = {e}) /\ (H # {} <=> Parked(i))
  <2>1. \A e, f \in H : e = f
    BY DEF OnceEach
  <2> QED
    BY <2>1 DEF Parked
<1>2. (Q = {} \/ \E k : Q = {k}) /\ (Q # {} <=> Queued(i))
  <2>1. \A k, l \in Q : k = l
    BY DEF OnceEach
  <2> QED
    BY <2>1 DEF Queued
<1>3. (W = {} \/ W = {i}) /\ (W # {} <=> i \in held)
  OBVIOUS
<1>4. (D = {} \/ D = {i}) /\ (D # {} <=> i \in drained)
  OBVIOUS
<1> HIDE DEF H, Q, W, D
<1>5. /\ Cardinality(H) = IF Parked(i) THEN 1 ELSE 0
      /\ Cardinality(Q) = IF Queued(i) THEN 1 ELSE 0
      /\ Cardinality(W) = IF i \in held THEN 1 ELSE 0
      /\ Cardinality(D) = IF i \in drained THEN 1 ELSE 0
  <2>1. Cardinality({}) = 0 /\ \A x : Cardinality({x}) = 1
    BY FS_EmptySet, FS_Singleton
  <2> QED
    BY <1>1, <1>2, <1>3, <1>4, <2>1
<1>6. Cardinality(H) + Cardinality(Q) + Cardinality(W) + Cardinality(D) = 1
  BY <1>5 DEF Apart, Kept
<1> QED
  BY <1>6 DEF Times, H, Q, W, D

\* A pipeline that waits for its retry is handed over once and never lost: what
\* the pump removes after its wait for room is what it handed over, and a drain
\* gets back exactly the rest (DelayQueue.pump, push and drain).
THEOREM ParkedHandedOverOnce == Spec => []HandedOverOnce
<1>1. PlaceInv => HandedOverOnce
  <2> SUFFICES ASSUME PlaceInv
               PROVE  HandedOverOnce
    OBVIOUS
  <2>1. \A i \in Items : Times(i)
    BY CountedOnce
  <2>2. ASSUME pump = "handing"
        PROVE  entry \in heap /\ entry = Head1
    BY <2>2, HeadIsUnique DEF PlaceInv, PumpInv, HandsHead
  <2> QED
    BY <2>1, <2>2 DEF HandedOverOnce
<1> QED
  BY PlaceInit, PlaceStep, <1>1, PTL DEF Spec
=============================================================================
