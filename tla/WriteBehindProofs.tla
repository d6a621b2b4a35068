------------------------- MODULE WriteBehindProofs --------------------------
(***************************************************************************)
(* Proofs about WriteBehind, for any number of facts, any size of a batch, *)
(* and any number of processes and failing writes: it implements FactLog,  *)
(* and no commit overtakes the facts before it.                            *)
(***************************************************************************)
EXTENDS WriteBehind, SequenceTheorems, TLAPS

-----------------------------------------------------------------------------
(* Sequences *)

\* What is left of a sequence when its first records are dropped.
LEMMA DropFacts ==
    ASSUME NEW S, NEW s \in Seq(S), NEW n \in 0 .. Len(s)
    PROVE  /\ Drop(s, n) \in Seq(S) /\ Len(Drop(s, n)) = Len(s) - n
           /\ SubSeq(s, 1, n) \in Seq(S) /\ SubSeq(s, 1, n) \o Drop(s, n) = s
<1> DEFINE l == Len(s)
<1>1. l \in Nat /\ n \in Nat /\ n <= l
  BY LenProperties
<1>2. \A i \in 1 .. l : s[i] \in S
  BY ElementOfSeq
<1>3. /\ 1 \in 1 .. l + 1 /\ n \in 1 - 1 .. l /\ l \in n .. l
      /\ n + 1 \in Int /\ l \in Int /\ n \in Int
      /\ \A i \in n + 1 .. l : i \in 1 .. l
      /\ \A i \in 1 .. n : i \in 1 .. l
  BY <1>1
<1> HIDE DEF l
<1>4. SubSeq(s, 1, n) \in Seq(S)
  BY <1>2, <1>3, SubSeqProperties
<1>5. /\ SubSeq(s, n + 1, l) \in Seq(S)
      /\ Len(SubSeq(s, n + 1, l)) = IF n + 1 <= l THEN l - (n + 1) + 1 ELSE 0
  BY <1>2, <1>3, SubSeqProperties
<1>6. SubSeq(s, 1, n) \o SubSeq(s, n + 1, l) = SubSeq(s, 1, l)
  BY <1>3, ConcatAdjacentSubSeq DEF l
<1>7. SubSeq(s, 1, l) = s
  BY SubSeqFull DEF l
<1>8. (IF n + 1 <= l THEN l - (n + 1) + 1 ELSE 0) = l - n
  BY <1>1
<1>9. Drop(s, n) = SubSeq(s, n + 1, l)
  BY DEF Drop, l
<1> QED
  BY <1>4, <1>5, <1>6, <1>7, <1>8, <1>9 DEF l

LEMMA DropNothing ==
    ASSUME NEW S, NEW s \in Seq(S)
    PROVE  Drop(s, 0) = s
BY SubSeqFull DEF Drop

\* What is left begins with the record that is next.
LEMMA DropNext ==
    ASSUME NEW S, NEW s \in Seq(S), NEW n \in 0 .. Len(s) - 1
    PROVE  s[n + 1] \in S /\ Drop(s, n) = <<s[n + 1]>> \o Drop(s, n + 1)
<1> DEFINE l == Len(s)
<1>1. l \in Nat
  BY LenProperties
<1>2. n + 1 \in 1 .. l /\ l \in n + 1 .. l
  BY <1>1
<1>3. s[n + 1] \in S
  BY <1>2, ElementOfSeq
<1>4. SubSeq(s, n + 1, l) = <<s[n + 1]>> \o SubSeq(s, (n + 1) + 1, l)
  BY <1>2, SubSeqRecursiveFirst
<1> QED
  BY <1>3, <1>4 DEF Drop

\* The next record moves behind the rows: what was accepted is the same.
LEMMA MoveOne ==
    ASSUME NEW S, NEW rows \in Seq(S), NEW s \in Seq(S), NEW n \in 0 .. Len(s) - 1
    PROVE  Append(rows, s[n + 1]) \o Drop(s, n + 1) = rows \o Drop(s, n)
<1> DEFINE e == s[n + 1]
           d == Drop(s, n + 1)
<1>1. e \in S /\ Drop(s, n) = <<e>> \o d
  BY DropNext
<1>2. d \in Seq(S)
  <2>1. n + 1 \in 0 .. Len(s)
    BY LenProperties
  <2> QED
    BY <2>1, DropFacts
<1> HIDE DEF e, d
<1>3. Append(rows, e) = rows \o <<e>> /\ <<e>> \in Seq(S)
  BY <1>1, AppendIsConcat
<1>4. (rows \o <<e>>) \o d = rows \o (<<e>> \o d)
  BY <1>2, <1>3, ConcatAssociative
<1> QED
  BY <1>1, <1>3, <1>4 DEF e, d

\* Of two beginnings that are the same, what follows is the same.
LEMMA SameRest ==
    ASSUME NEW S, NEW p \in Seq(S), NEW s \in Seq(S), NEW t \in Seq(S), p \o s = p \o t
    PROVE  s = t
BY ConcatSimplifications

\* A new fact goes to the end of what the buffer holds beyond the rows.
LEMMA AddOne ==
    ASSUME NEW S, NEW s \in Seq(S), NEW n \in 0 .. Len(s), NEW f \in S
    PROVE  Drop(Append(s, f), n) = Append(Drop(s, n), f)
<1> DEFINE b == Append(s, f)
           d == Drop(s, n)
           p == SubSeq(s, 1, n)
           c == Drop(b, n)
           q == SubSeq(b, 1, n)
<1>1. b \in Seq(S) /\ Len(b) = Len(s) + 1 /\ b = s \o <<f>> /\ <<f>> \in Seq(S) /\ Len(s) \in Nat
  BY LenProperties, AppendProperties, AppendIsConcat
<1>2. d \in Seq(S) /\ p \in Seq(S) /\ p \o d = s
  BY DropFacts
<1> HIDE DEF b
<1>3. c \in Seq(S) /\ q \in Seq(S) /\ q \o c = b
  <2>1. n \in 0 .. Len(b)
    BY <1>1
  <2> QED
    BY <1>1, <2>1, DropFacts
<1>4. q = p
  <2>1. CASE n = 0
    BY <2>1, SubSeqEmpty
  <2>2. CASE n # 0
    <3>1. 1 \in 1 .. Len(s) /\ n \in 1 .. Len(s)
      BY <1>1, <2>2
    <3> QED
      BY <1>1, <3>1, SubSeqOfConcat1
  <2> QED
    BY <2>1, <2>2
<1> HIDE DEF c, d, p, q
<1>5. b = p \o (d \o <<f>>) /\ d \o <<f>> \in Seq(S)
  BY <1>1, <1>2, ConcatAssociative, ConcatProperties
<1>6. c = d \o <<f>>
  BY <1>2, <1>3, <1>4, <1>5, SameRest
<1>7. Append(d, f) = d \o <<f>>
  BY <1>2, AppendIsConcat
<1> QED
  BY <1>6, <1>7 DEF b, c, d

\* Records that left the buffer are dropped from it once.
LEMMA DropOneMore ==
    ASSUME NEW S, NEW s \in Seq(S), NEW n \in 0 .. Len(s) - 1
    PROVE  Drop(Drop(s, n), 1) = Drop(s, n + 1)
<1> DEFINE e == s[n + 1]
           c == Drop(s, n + 1)
           d == Drop(s, n)
           x == Drop(d, 1)
<1>1. Len(s) \in Nat /\ n \in 0 .. Len(s) /\ n + 1 \in 0 .. Len(s) /\ Len(s) - n \in Nat \ {0}
  BY LenProperties
<1>2. e \in S /\ d = <<e>> \o c
  BY DropNext
<1>3. c \in Seq(S)
  BY <1>1, DropFacts
<1>4. d \in Seq(S) /\ Len(d) = Len(s) - n
  BY <1>1, DropFacts
<1> HIDE DEF d, c, e
<1>5. <<e>> \in Seq(S) /\ Len(<<e>>) = 1
  BY <1>2
<1>6. x \in Seq(S) /\ SubSeq(d, 1, 1) \in Seq(S) /\ SubSeq(d, 1, 1) \o x = d
  <2>1. 1 \in 0 .. Len(d)
    BY <1>1, <1>4
  <2> QED
    BY <1>4, <2>1, DropFacts
<1>7. SubSeq(d, 1, 1) = <<e>>
  <2>1. SubSeq(<<e>> \o c, 1, 1) = SubSeq(<<e>>, 1, 1)
    BY <1>3, <1>5, SubSeqOfConcat1
  <2>2. SubSeq(<<e>>, 1, 1) = <<e>>
    BY <1>5, SubSeqFull
  <2> QED
    BY <1>2, <2>1, <2>2
<1> HIDE DEF x
<1>8. x = c
  BY <1>2, <1>3, <1>5, <1>6, <1>7, SameRest
<1> QED
  BY <1>8 DEF x, c, d

-----------------------------------------------------------------------------
(* Types, and what a flush under way may have written *)

\* The last parts say what CommitsBehindFacts rests on: records of a buffer are
\* rows already only during a flush or when nothing will be written again, and
\* no event is one while attempts wait.
BufferInv ==
    /\ TypeOK
    /\ call # Nothing => up /\ ~blocked
    /\ atomic => sent = None
    /\ up /\ ~blocked /\ call = Nothing => sent = None
    /\ sent["event"] > 0 => buffer["attempt"] = <<>>
    /\ ~behind

LEMMA KindFacts ==
    /\ Kinds = {"attempt", "event"} /\ "attempt" # "event"
    /\ None \in [Kinds -> Nat] /\ None["attempt"] = 0 /\ None["event"] = 0
    /\ Empty \in [Kinds -> Seq(Facts)] /\ Empty["attempt"] = <<>> /\ Empty["event"] = <<>>
    /\ \A k \in Kinds : None[k] <= Len(Empty[k])
BY DEF Kinds, None, Empty

\* The parts of BufferInv that need no argument of their own.
FlagTypes ==
    /\ atomic \in BOOLEAN /\ blocked \in BOOLEAN /\ up \in BOOLEAN
    /\ beating \in BOOLEAN /\ behind \in BOOLEAN
BoundTypes == processes \in 0 .. MaxProcesses /\ failures \in 0 .. MaxFailures

Rest ==
    /\ inner \in [Kinds -> Seq(Facts)] /\ buffer \in [Kinds -> Seq(Facts)]
    /\ sent \in [Kinds -> Nat] /\ \A k \in Kinds : sent[k] <= Len(buffer[k])
    /\ call \in Flushing \cup {Nothing}
    /\ call # Nothing => up /\ ~blocked
    /\ atomic => sent = None
    /\ up /\ ~blocked /\ call = Nothing => sent = None
    /\ sent["event"] > 0 => buffer["attempt"] = <<>>
    /\ ~behind

LEMMA Parts == BufferInv <=> FlagTypes /\ BoundTypes /\ Rest
BY Zenon DEF BufferInv, TypeOK, FlagTypes, BoundTypes, Rest

LEMMA StepFlags == FlagTypes /\ [Next]_vars => FlagTypes'
<1> SUFFICES ASSUME FlagTypes, [Next]_vars
             PROVE  FlagTypes'
  OBVIOUS
<1>1. \A what, left : left \in BOOLEAN /\ (Complete(what, left) \/ Raised(what)) =>
        up' \in BOOLEAN /\ behind' \in BOOLEAN
  BY Zenon DEF Complete, Raised, FlagTypes
<1>2. CASE UNCHANGED vars
  BY Zenon, <1>2 DEF vars, FlagTypes
<1>3. ASSUME NEW k \in Kinds, NEW f \in Facts, Record(k, f)
      PROVE  FlagTypes'
  BY Zenon, <1>3 DEF Record, FlagTypes
<1>4. ASSUME NEW what \in Flushing, Call(what)
      PROVE  FlagTypes'
  <2>1. (Pending > 0) \in BOOLEAN
    OBVIOUS
  <2> QED
    BY Zenon, <1>1, <1>4, <2>1 DEF Call, FlagTypes, Raised
<1>5. CASE WriteBatch
  <2>1. FALSE \in BOOLEAN
    OBVIOUS
  <2> QED
    BY Zenon, <1>1, <1>5, <2>1 DEF WriteBatch, FlagTypes
<1>6. ASSUME NEW k \in Kinds, Acknowledged(k)
      PROVE  FlagTypes'
  <2>1. (buffer'["attempt"] # <<>>) \in BOOLEAN
    OBVIOUS
  <2> QED
    BY Zenon, <1>1, <1>6, <2>1 DEF Acknowledged, FlagTypes
<1>7. CASE BatchFails
  BY Zenon, <1>7 DEF BatchFails, Raised, FlagTypes
<1>8. ASSUME NEW k \in Kinds, WriteOne(k)
      PROVE  FlagTypes'
  BY Zenon, <1>8 DEF WriteOne, FlagTypes
<1>9. ASSUME NEW k \in Kinds, WriteFails(k)
      PROVE  FlagTypes'
  BY Zenon, <1>9 DEF WriteFails, Raised, FlagTypes
<1>10. CASE Kill \/ Open \/ BeatRaises
  BY Zenon, <1>10 DEF Kill, Open, BeatRaises, FlagTypes
<1> QED
  BY <1>2, <1>3, <1>4, <1>5, <1>6, <1>7, <1>8, <1>9, <1>10 DEF Next, Beat, Flushing

LEMMA StepBounds == BoundTypes /\ [Next]_vars => BoundTypes'
<1> SUFFICES ASSUME BoundTypes, [Next]_vars
             PROVE  BoundTypes'
  OBVIOUS
<1> DEFINE Counted ==
             /\ processes' = processes \/ (processes < MaxProcesses /\ processes' = processes + 1)
             /\ failures' = failures \/ (failures < MaxFailures /\ failures' = failures + 1)
<1>1. Counted
  <2>1. CASE UNCHANGED vars
    BY <2>1 DEF vars
  <2>2. ASSUME NEW k \in Kinds, NEW f \in Facts,
               Record(k, f) \/ WriteOne(k) \/ Acknowledged(k) \/ WriteFails(k)
        PROVE  Counted
    BY <2>2 DEF Record, WriteOne, Acknowledged, WriteFails
  <2>3. ASSUME NEW k \in Kinds, WriteOne(k) \/ Acknowledged(k) \/ WriteFails(k)
        PROVE  Counted
    BY <2>3 DEF WriteOne, Acknowledged, WriteFails
  <2>4. ASSUME NEW what \in Flushing, Call(what)
        PROVE  Counted
    BY <2>4 DEF Call
  <2>5. CASE WriteBatch \/ BatchFails \/ BeatRaises \/ Kill \/ Open
    BY <2>5 DEF WriteBatch, BatchFails, BeatRaises, Kill, Open
  <2> QED
    BY <2>1, <2>2, <2>3, <2>4, <2>5 DEF Next, Beat, Flushing
<1> QED
  BY <1>1, ConstantsAssumption DEF BoundTypes

LEMMA CallFacts ==
    ASSUME BufferInv, NEW what \in Flushing
    PROVE  /\ what # Nothing
           /\ Raised(what) => call' = Nothing /\ (behind' <=> behind)
           /\ Complete(what, FALSE) => call' = Nothing /\ ~behind'
<1>1. what # Nothing
  BY ConstantsAssumption
<1> QED
  BY Zenon, <1>1 DEF Raised, Complete, BufferInv

LEMMA InitBuffer == Init => BufferInv
<1> SUFFICES ASSUME Init
             PROVE  BufferInv
  OBVIOUS
<1>1. TypeOK
  <2>1. FlagTypes
    BY Zenon DEF Init, FlagTypes
  <2>2. 0 \in 0 .. MaxProcesses /\ 0 \in 0 .. MaxFailures
    BY ConstantsAssumption
  <2>3. /\ inner \in [Kinds -> Seq(Facts)] /\ buffer \in [Kinds -> Seq(Facts)]
        /\ sent \in [Kinds -> Nat] /\ \A k \in Kinds : sent[k] <= Len(buffer[k])
    BY KindFacts DEF Init
  <2> QED
    BY <2>1, <2>2, <2>3 DEF Init, TypeOK, FlagTypes
<1> QED
  BY <1>1, KindFacts DEF Init, BufferInv

LEMMA StepBuffer == BufferInv /\ [Next]_vars => BufferInv'
<1> SUFFICES ASSUME BufferInv, [Next]_vars
             PROVE  Rest'
  <2>1. ASSUME BufferInv, [Next]_vars
        PROVE  FlagTypes' /\ BoundTypes'
    <3>1. FlagTypes /\ BoundTypes
      BY <2>1, Parts
    <3> QED
      BY <2>1, <3>1, StepFlags, StepBounds
  <2>2. FlagTypes' /\ BoundTypes' /\ Rest' => BufferInv'
    BY Zenon DEF BufferInv, TypeOK, FlagTypes, BoundTypes, Rest
  <2> QED
    BY <2>1, <2>2
<1> USE KindFacts
<1>0. Rest /\ FlagTypes
  BY Parts
<1>1. CASE UNCHANGED vars
  BY <1>0, <1>1 DEF vars, Rest
<1>2. ASSUME NEW k \in Kinds, NEW f \in Facts, Record(k, f)
      PROVE  Rest'
  <2>1. /\ buffer' \in [Kinds -> Seq(Facts)] /\ call' \in {"record", Nothing}
        /\ \A q \in Kinds : Len(buffer[q]) <= Len(buffer'[q])
    BY <1>0, <1>2 DEF Record, Rest
  <2>2. sent' = None /\ sent = None
    BY <1>0, <1>2 DEF Record, Rest
  <2>3. \A q \in Kinds : sent'[q] <= Len(buffer'[q])
    BY <2>1, <2>2 DEF None
  <2> QED
    BY <1>0, <1>2, <2>1, <2>2, <2>3 DEF Record, Rest, Flushing
<1>3. ASSUME NEW what \in Flushing, Call(what)
      PROVE  Rest'
  <2>1. CASE blocked
    BY <1>0, <1>3, <2>1, CallFacts DEF Call, Raised, Rest
  <2>2. CASE ~blocked /\ FlushesFirst(what)
    BY <1>0, <1>3, <2>2, CallFacts DEF Call, Rest
  <2>3. CASE ~blocked /\ ~FlushesFirst(what)
    <3>1. Complete(what, FALSE)
      <4>1. Complete(what, Pending > 0)
        BY <1>3, <2>3 DEF Call
      <4>2. (Pending > 0) = FALSE
        BY <2>3 DEF FlushesFirst
      <4> QED
        BY Zenon, <4>1, <4>2
    <3> QED
      BY <1>0, <1>3, <2>3, <3>1, CallFacts DEF Call, Rest
  <2> QED
    BY <2>1, <2>2, <2>3
<1>4. CASE WriteBatch
  <2>1. call \in Flushing /\ Complete(call, FALSE) /\ sent = None
    BY <1>0, <1>4 DEF WriteBatch, Rest
  <2>2. inner' \in [Kinds -> Seq(Facts)]
    BY <1>0, <1>4 DEF WriteBatch, Rest
  <2> QED
    BY <1>0, <1>4, <2>1, <2>2, CallFacts DEF WriteBatch, Rest
<1>5. CASE BatchFails
  <2>1. call \in Flushing /\ Raised(call)
    BY <1>0, <1>5 DEF BatchFails, Rest
  <2> QED
    BY <1>0, <1>5, <2>1, CallFacts, ConstantsAssumption DEF BatchFails, Rest
<1>6. ASSUME NEW k \in Kinds, WriteOne(k)
      PROVE  Rest'
  <2>1. buffer[k] \in Seq(Facts) /\ sent[k] \in Nat /\ sent[k] < Len(buffer[k])
    BY <1>0, <1>6 DEF WriteOne, Turn, Rest
  <2>2. buffer[k][sent[k] + 1] \in Facts
    <3>1. sent[k] + 1 \in 1 .. Len(buffer[k])
      BY <2>1
    <3> QED
      BY <2>1, <3>1, ElementOfSeq
  <2>3. inner' \in [Kinds -> Seq(Facts)]
    BY <1>0, <1>6, <2>2 DEF WriteOne, Rest
  <2>4. sent' \in [Kinds -> Nat] /\ \A q \in Kinds : sent'[q] <= Len(buffer[q])
    <3>1. sent \in [Kinds -> Nat] /\ \A q \in Kinds : sent[q] <= Len(buffer[q])
      BY <1>0 DEF Rest
    <3>2. sent' = [sent EXCEPT ![k] = sent[k] + 1]
      BY <1>6 DEF WriteOne
    <3>3. Len(buffer[k]) \in Nat
      BY <2>1
    <3>4. sent'[k] = sent[k] + 1 /\ \A q \in Kinds : q # k => sent'[q] = sent[q]
      BY <3>1, <3>2
    <3>5. sent[k] + 1 <= Len(buffer[k]) /\ sent[k] + 1 \in Nat
      BY <2>1, <3>3
    <3> QED
      BY <3>1, <3>2, <3>4, <3>5
  <2>5. sent'["event"] > 0 => buffer["attempt"] = <<>>
    BY <1>0, <1>6 DEF WriteOne, Turn, Rest
  <2> QED
    BY <1>0, <1>6, <2>3, <2>4, <2>5 DEF WriteOne, Turn, Rest
<1>7. ASSUME NEW k \in Kinds, Acknowledged(k)
      PROVE  Rest'
  <2>1. /\ buffer' \in [Kinds -> Seq(Facts)] /\ sent' \in [Kinds -> Nat]
        /\ buffer'[k] = <<>> /\ sent'[k] = 0
        /\ \A q \in Kinds : q # k => buffer'[q] = buffer[q] /\ sent'[q] = sent[q]
    BY <1>0, <1>7 DEF Acknowledged, Rest
  <2>2. \A q \in Kinds : sent'[q] <= Len(buffer'[q])
    BY <1>0, <2>1 DEF Rest
  <2>3. sent'["event"] > 0 => buffer'["attempt"] = <<>>
    BY <1>0, <2>1 DEF Rest
  <2>4. CASE buffer'["event"] # <<>>
    <3>1. UNCHANGED <<call, up, behind>>
      BY <1>7, <2>4 DEF Acknowledged
    <3> QED
      BY <1>0, <1>7, <2>1, <2>2, <2>3, <3>1 DEF Acknowledged, Rest
  <2>5. CASE buffer'["event"] = <<>>
    <3>1. buffer'["attempt"] = <<>>
      <4>1. CASE k = "attempt"
        BY <2>1, <4>1
      <4>2. CASE k = "event"
        <5>1. buffer["event"] # <<>> /\ sent["event"] = Len(buffer["event"])
          BY <1>7, <4>2 DEF Acknowledged
        <5>2. Len(buffer["event"]) > 0
          BY <1>0, <5>1, EmptySeq DEF Rest
        <5>3. buffer["attempt"] = <<>>
          BY <1>0, <5>1, <5>2 DEF Rest
        <5> QED
          BY <2>1, <4>2, <5>3
      <4> QED
        BY <4>1, <4>2
    <3>2. call \in Flushing /\ Complete(call, FALSE)
      BY <1>0, <1>7, <2>5, <3>1 DEF Acknowledged, Complete, Rest
    <3>3. sent' = None
      <4>1. \A q \in Kinds : buffer'[q] = <<>>
        BY <2>5, <3>1
      <4>2. \A q \in Kinds : sent'[q] = 0
        BY <2>1, <2>2, <4>1
      <4> QED
        BY <2>1, <4>2 DEF None
    <3> QED
      BY <1>0, <1>7, <2>1, <2>2, <2>3, <3>2, <3>3, CallFacts DEF Acknowledged, Rest
  <2> QED
    BY <2>4, <2>5
<1>8. ASSUME NEW k \in Kinds, WriteFails(k)
      PROVE  Rest'
  <2>1. buffer[k] \in Seq(Facts) /\ sent[k] \in Nat /\ sent[k] < Len(buffer[k])
    BY <1>0, <1>8 DEF WriteFails, Turn, Rest
  <2>2. buffer[k][sent[k] + 1] \in Facts
    <3>1. sent[k] + 1 \in 1 .. Len(buffer[k])
      BY <2>1
    <3> QED
      BY <2>1, <3>1, ElementOfSeq
  <2>3. /\ Drop(buffer[k], sent[k]) \in Seq(Facts)
        /\ Len(Drop(buffer[k], sent[k])) = Len(buffer[k]) - sent[k]
    <3>1. sent[k] \in 0 .. Len(buffer[k])
      BY <2>1
    <3> QED
      BY <2>1, <3>1, DropFacts
  <2>4. inner' \in [Kinds -> Seq(Facts)]
    BY <1>0, <1>8, <2>2 DEF WriteFails, Rest
  <2>5. /\ buffer' \in [Kinds -> Seq(Facts)] /\ buffer'[k] = Drop(buffer[k], sent[k])
        /\ sent' \in [Kinds -> Nat] /\ sent'[k] \in {0, 1}
        /\ \A q \in Kinds : q # k => buffer'[q] = buffer[q] /\ sent'[q] = sent[q]
    BY <1>0, <1>8, <2>3 DEF WriteFails, Rest
  <2>6. \A q \in Kinds : sent'[q] <= Len(buffer'[q])
    <3>1. sent'[k] <= Len(buffer'[k])
      <4>1. Len(buffer[k]) \in Nat
        BY <2>1
      <4>2. 1 <= Len(buffer[k]) - sent[k]
        BY <2>1, <4>1
      <4> QED
        BY <2>1, <2>3, <2>5, <4>1, <4>2
    <3>2. \A q \in Kinds : sent[q] <= Len(buffer[q])
      BY <1>0 DEF Rest
    <3> QED
      BY <2>5, <3>1, <3>2
  <2>7. sent'["event"] > 0 => buffer'["attempt"] = <<>>
    <3>1. CASE k = "event"
      BY <1>8, <2>5, <3>1 DEF WriteFails, Turn
    <3>2. CASE k = "attempt"
      <4>1. buffer["attempt"] # <<>>
        BY <2>1, <3>2, EmptySeq
      <4> QED
        BY <1>0, <2>5, <3>2, <4>1 DEF Rest
    <3> QED
      BY <3>1, <3>2
  <2>8. call \in Flushing /\ Raised(call) /\ blocked' /\ ~atomic
    BY <1>0, <1>8 DEF WriteFails, Turn, Rest
  <2> QED
    BY <1>0, <1>8, <2>4, <2>5, <2>6, <2>7, <2>8, CallFacts, ConstantsAssumption
    DEF WriteFails, Rest
<1>9. CASE Kill
  BY <1>0, <1>9 DEF Kill, Rest
<1>10. CASE Open
  BY <1>0, <1>10, ConstantsAssumption DEF Open, Rest
<1>11. CASE BeatRaises
  BY <1>0, <1>11, ConstantsAssumption DEF BeatRaises, Rest
<1> QED
  BY <1>1, <1>2, <1>3, <1>4, <1>5, <1>6, <1>7, <1>8, <1>9, <1>10, <1>11 DEF Next, Beat, Flushing

LEMMA BufferInvariant == Spec => []BufferInv
BY InitBuffer, StepBuffer, PTL DEF Spec

\* Every variable keeps its type.
THEOREM TypeCorrect == Spec => []TypeOK
<1>1. BufferInv => TypeOK
  BY DEF BufferInv
<1> QED
  BY <1>1, BufferInvariant, PTL

\* No commit of a handoff and no end of a run overtakes a fact.
THEOREM NothingOvertakesFacts == Spec => []CommitsBehindFacts
<1>1. BufferInv => CommitsBehindFacts
  BY DEF BufferInv, CommitsBehindFacts
<1> QED
  BY <1>1, BufferInvariant, PTL

-----------------------------------------------------------------------------
(* The log *)

\* What the buffer holds beyond the rows.
Beyond(k) == Drop(buffer[k], sent[k])

LEMMA BeyondFacts ==
    ASSUME BufferInv, NEW k \in Kinds
    PROVE  Beyond(k) \in Seq(Facts) /\ inner[k] \in Seq(Facts)
<1>1. buffer[k] \in Seq(Facts) /\ sent[k] \in Nat /\ sent[k] <= Len(buffer[k])
      /\ inner[k] \in Seq(Facts)
  BY DEF BufferInv, TypeOK
<1>2. sent[k] \in 0 .. Len(buffer[k])
  BY <1>1, LenProperties
<1> QED
  BY <1>1, <1>2, DropFacts DEF Beyond

\* Rows are only added, and are what was accepted first.
LEMMA PrefixFacts ==
    ASSUME NEW S, NEW s \in Seq(S), NEW t \in Seq(S)
    PROVE  Log!Begins(s, s \o t) /\ Log!Begins(s, s)
<1>1. /\ Len(s) \in Nat /\ Len(t) \in Nat /\ Len(s \o t) = Len(s) + Len(t)
      /\ \A i \in 1 .. Len(s) + Len(t) : (s \o t)[i] = IF i <= Len(s) THEN s[i] ELSE t[i - Len(s)]
  BY LenProperties, ConcatProperties
<1>2. \A i \in 1 .. Len(s) : i \in 1 .. Len(s) + Len(t) /\ i <= Len(s)
  BY <1>1
<1> QED
  BY <1>1, <1>2 DEF Log!Begins

\* A step that moves records from the buffer to the rows, or does nothing with them.
Moves ==
    \A k \in Kinds : /\ Log!Begins(inner[k], inner'[k])
                     /\ inner'[k] \o Beyond(k)' = inner[k] \o Beyond(k)

LEMMA MovesImplement ==
    ASSUME BufferInv, BufferInv', up, Moves
    PROVE  Log!LogNext
<1>1. /\ inner' \in [Kinds -> Seq(Facts)] /\ inner \in [Kinds -> Seq(Facts)]
  BY DEF BufferInv, TypeOK
<1>2. \A k \in Kinds : Beyond(k)' \in Seq(Facts)
  <2> SUFFICES ASSUME NEW k \in Kinds
               PROVE  Beyond(k)' \in Seq(Facts)
    OBVIOUS
  <2>1. buffer'[k] \in Seq(Facts) /\ sent'[k] \in Nat /\ sent'[k] <= Len(buffer'[k])
    BY DEF BufferInv, TypeOK
  <2>2. sent'[k] \in 0 .. Len(buffer'[k])
    BY <2>1, LenProperties
  <2> QED
    BY <2>1, <2>2, DropFacts DEF Beyond
<1>3. Accepted = [k \in Kinds |-> inner[k] \o Beyond(k)]
  BY DEF Accepted, Beyond
<1>4. Log!Grow
  <2>1. \A k \in Kinds : Log!Begins(inner'[k], inner'[k] \o Beyond(k)')
    BY <1>1, <1>2, PrefixFacts
  <2>2. \A k \in Kinds : Log!Begins(inner'[k], Accepted[k])
    BY <1>3, <2>1 DEF Moves
  <2> QED
    BY <1>1, <2>2 DEF Log!Grow, Moves
<1>5. CASE up'
  <2>1. Accepted' = [k \in Kinds |-> inner'[k] \o Beyond(k)']
    BY <1>5 DEF Accepted, Beyond
  <2>2. Accepted' = Accepted
    BY <1>3, <2>1 DEF Moves
  <2> QED
    BY <1>4, <2>2 DEF Log!LogNext, Log!Persist
<1>6. CASE ~up'
  <2>1. Accepted' = [k \in Kinds |-> inner'[k]]
    BY <1>6 DEF Accepted
  <2>2. Accepted' = inner'
    BY <1>1, <2>1
  <2> QED
    BY <1>4, <2>2 DEF Log!LogNext, Log!Lose
<1> QED
  BY <1>5, <1>6

\* A step that leaves buffer and rows alone moves nothing.
LEMMA NothingMoves ==
    ASSUME BufferInv, UNCHANGED <<inner, buffer, sent>>
    PROVE  Moves
<1>1. \A k \in Kinds : Log!Begins(inner[k], inner[k])
  BY BeyondFacts, PrefixFacts
<1> QED
  BY <1>1 DEF Moves, Beyond

\* One kind is written, the other left alone.
LEMMA OneKindMoves ==
    ASSUME BufferInv, NEW k \in Kinds,
           \A q \in Kinds : q # k => inner'[q] = inner[q] /\ Beyond(q)' = Beyond(q),
           Log!Begins(inner[k], inner'[k]),
           inner'[k] \o Beyond(k)' = inner[k] \o Beyond(k)
    PROVE  Moves
<1>1. \A q \in Kinds : Log!Begins(inner[q], inner[q])
  BY BeyondFacts, PrefixFacts
<1> QED
  BY <1>1 DEF Moves

LEMMA RowAdded ==
    ASSUME BufferInv, NEW k \in Kinds, sent[k] < Len(buffer[k]),
           inner'[k] = Append(inner[k], buffer[k][sent[k] + 1])
    PROVE  /\ Log!Begins(inner[k], inner'[k])
           /\ inner'[k] \o Drop(buffer[k], sent[k] + 1) = inner[k] \o Beyond(k)
<1> DEFINE rows == inner[k]
           s == buffer[k]
           n == sent[k]
<1>1. rows \in Seq(Facts) /\ s \in Seq(Facts) /\ n \in Nat /\ n < Len(s)
  BY DEF BufferInv, TypeOK
<1>2. inner'[k] = Append(rows, s[n + 1]) /\ Beyond(k) = Drop(s, n)
  BY DEF Beyond
<1> HIDE DEF rows, s, n
<1>3. n \in 0 .. Len(s) - 1
  BY <1>1, LenProperties
<1>4. s[n + 1] \in Facts
  BY <1>1, <1>3, DropNext
<1>5. Append(rows, s[n + 1]) = rows \o <<s[n + 1]>>
  BY <1>1, <1>4, AppendIsConcat
<1>6. Log!Begins(rows, inner'[k])
  <2>1. <<s[n + 1]>> \in Seq(Facts)
    BY <1>4
  <2> QED
    BY <1>1, <1>2, <1>5, <2>1, PrefixFacts
<1>7. inner'[k] \o Drop(s, n + 1) = rows \o Beyond(k)
  BY <1>1, <1>2, <1>3, MoveOne
<1> QED
  BY <1>6, <1>7 DEF rows, s, n

LEMMA StepLog ==
    BufferInv /\ BufferInv' /\ [Next]_vars => [Log!LogNext]_(Log!log)
<1> SUFFICES ASSUME BufferInv, BufferInv', [Next]_vars
             PROVE  Log!LogNext \/ (Accepted' = Accepted /\ inner' = inner)
  BY DEF Log!log
<1>1. CASE UNCHANGED vars
  BY <1>1 DEF vars, Accepted
<1>2. ASSUME NEW k \in Kinds, NEW f \in Facts, Record(k, f)
      PROVE  Log!LogNext
  <2>1. /\ up /\ up' /\ inner' = inner /\ sent' = sent
        /\ buffer \in [Kinds -> Seq(Facts)] /\ buffer' = [buffer EXCEPT ![k] = Append(buffer[k], f)]
    BY <1>2 DEF Record, BufferInv, TypeOK
  <2>2. Accepted = [q \in Kinds |-> inner[q] \o Drop(buffer[q], sent[q])]
    BY <2>1 DEF Accepted
  <2>3. Accepted' = [q \in Kinds |-> inner[q] \o Drop(buffer'[q], sent[q])]
    BY <2>1 DEF Accepted
  <2>4. inner[k] \o Drop(buffer'[k], sent[k]) = Append(inner[k] \o Drop(buffer[k], sent[k]), f)
    <3> DEFINE rows == inner[k]
               s == buffer[k]
               n == sent[k]
               d == Drop(s, n)
    <3>1. rows \in Seq(Facts) /\ s \in Seq(Facts) /\ n \in Nat /\ n <= Len(s)
      BY DEF BufferInv, TypeOK
    <3>2. buffer'[k] = Append(s, f)
      BY <2>1
    <3> HIDE DEF rows, s, n
    <3>3. n \in 0 .. Len(s)
      BY <3>1, LenProperties
    <3>4. Drop(Append(s, f), n) = Append(d, f) /\ d \in Seq(Facts)
      BY <3>1, <3>3, AddOne, DropFacts
    <3> HIDE DEF d
    <3>5. Append(d, f) = d \o <<f>> /\ <<f>> \in Seq(Facts)
      BY <3>4, AppendIsConcat
    <3>6. rows \o (d \o <<f>>) = (rows \o d) \o <<f>> /\ rows \o d \in Seq(Facts)
      BY <3>1, <3>4, <3>5, ConcatAssociative, ConcatProperties
    <3>7. Append(rows \o d, f) = (rows \o d) \o <<f>>
      BY <3>6, AppendIsConcat
    <3> QED
      BY <3>2, <3>4, <3>5, <3>6, <3>7 DEF rows, s, n, d
  <2>5. \A q \in Kinds : q # k => buffer'[q] = buffer[q]
    BY <2>1
  <2>6. Accepted' = [Accepted EXCEPT ![k] = Append(Accepted[k], f)]
    BY <2>2, <2>3, <2>4, <2>5
  <2> QED
    BY <2>1, <2>6 DEF Log!LogNext, Log!Accept
<1>3. ASSUME NEW what \in Flushing, Call(what)
      PROVE  Log!LogNext
  BY <1>3, NothingMoves, MovesImplement DEF Call
<1>4. CASE BatchFails \/ BeatRaises \/ Kill
  <2>1. up /\ UNCHANGED <<inner, buffer, sent>>
    BY <1>4 DEF BatchFails, BeatRaises, Kill, BufferInv
  <2> QED
    BY <2>1, NothingMoves, MovesImplement
<1>5. CASE WriteBatch
  <2>1. /\ up /\ sent = None /\ sent' = None /\ buffer' = Empty
        /\ inner' = [k \in Kinds |-> inner[k] \o buffer[k]]
    BY <1>5 DEF WriteBatch, BufferInv
  <2>2. ASSUME NEW k \in Kinds
        PROVE  /\ Log!Begins(inner[k], inner'[k])
               /\ inner'[k] \o Beyond(k)' = inner[k] \o Beyond(k)
    <3>1. buffer[k] \in Seq(Facts) /\ inner[k] \in Seq(Facts) /\ inner'[k] \in Seq(Facts)
      BY DEF BufferInv, TypeOK
    <3>2. Beyond(k) = Drop(buffer[k], 0) /\ Beyond(k)' = Drop(<<>>, 0)
      BY <2>1 DEF Beyond, None, Empty
    <3>3. Drop(buffer[k], 0) = buffer[k] /\ Drop(<<>>, 0) = <<>>
      BY <3>1, DropNothing, EmptySeq
    <3>4. inner'[k] = inner[k] \o buffer[k]
      BY <2>1
    <3>5. inner'[k] \o <<>> = inner'[k]
      BY <3>1, ConcatEmptySeq
    <3> QED
      BY <3>1, <3>2, <3>3, <3>4, <3>5, PrefixFacts
  <2>3. Moves
    BY <2>2 DEF Moves
  <2> QED
    BY <2>1, <2>3, MovesImplement
<1>6. ASSUME NEW k \in Kinds, WriteOne(k)
      PROVE  Log!LogNext
  <2>1. /\ up /\ sent[k] < Len(buffer[k]) /\ buffer' = buffer
        /\ inner'[k] = Append(inner[k], buffer[k][sent[k] + 1]) /\ sent'[k] = sent[k] + 1
        /\ \A q \in Kinds : q # k => inner'[q] = inner[q] /\ sent'[q] = sent[q]
    BY <1>6 DEF WriteOne, Turn, BufferInv, TypeOK
  <2>2. /\ Log!Begins(inner[k], inner'[k])
        /\ inner'[k] \o Drop(buffer[k], sent[k] + 1) = inner[k] \o Beyond(k)
    BY <2>1, RowAdded
  <2>3. Beyond(k)' = Drop(buffer[k], sent[k] + 1)
        /\ \A q \in Kinds : q # k => Beyond(q)' = Beyond(q)
    BY <2>1 DEF Beyond
  <2>4. Moves
    BY <2>1, <2>2, <2>3, OneKindMoves
  <2> QED
    BY <2>1, <2>4, MovesImplement
<1>7. ASSUME NEW k \in Kinds, Acknowledged(k)
      PROVE  Log!LogNext
  <2>1. /\ up /\ inner' = inner /\ sent[k] = Len(buffer[k]) /\ buffer'[k] = <<>> /\ sent'[k] = 0
        /\ \A q \in Kinds : q # k => buffer'[q] = buffer[q] /\ sent'[q] = sent[q]
        /\ buffer[k] \in Seq(Facts) /\ inner[k] \in Seq(Facts)
    BY <1>7 DEF Acknowledged, BufferInv, TypeOK
  <2>2. Beyond(k) = <<>>
    <3>1. Len(buffer[k]) \in Nat
      BY <2>1, LenProperties
    <3>2. Len(buffer[k]) + 1 \in Int /\ Len(buffer[k]) \in Int /\ Len(buffer[k]) < Len(buffer[k]) + 1
      BY <3>1
    <3> QED
      BY <2>1, <3>2, SubSeqEmpty DEF Beyond, Drop
  <2>3. Beyond(k)' = <<>>
    <3>1. Drop(<<>>, 0) = <<>>
      BY EmptySeq, DropNothing
    <3> QED
      BY <2>1, <3>1 DEF Beyond
  <2>4. \A q \in Kinds : q # k => Beyond(q)' = Beyond(q)
    BY <2>1 DEF Beyond
  <2>5. Log!Begins(inner[k], inner'[k])
    BY <2>1, EmptySeq, PrefixFacts
  <2>6. Moves
    BY <2>1, <2>2, <2>3, <2>4, <2>5, OneKindMoves
  <2> QED
    BY <2>1, <2>6, MovesImplement
<1>8. ASSUME NEW k \in Kinds, WriteFails(k)
      PROVE  Log!LogNext
  <2>1. /\ up /\ sent[k] < Len(buffer[k]) /\ buffer'[k] = Drop(buffer[k], sent[k])
        /\ \/ inner'[k] = Append(inner[k], buffer[k][sent[k] + 1]) /\ sent'[k] = 1
           \/ inner'[k] = inner[k] /\ sent'[k] = 0
        /\ \A q \in Kinds : q # k => /\ inner'[q] = inner[q] /\ sent'[q] = sent[q]
                                     /\ buffer'[q] = buffer[q]
        /\ buffer[k] \in Seq(Facts) /\ inner[k] \in Seq(Facts) /\ sent[k] \in Nat
    BY <1>8 DEF WriteFails, Turn, BufferInv, TypeOK
  <2>2. sent[k] \in 0 .. Len(buffer[k]) - 1
    BY <2>1, LenProperties
  <2>3. Log!Begins(inner[k], inner'[k]) /\ inner'[k] \o Beyond(k)' = inner[k] \o Beyond(k)
    <3>1. CASE inner'[k] = Append(inner[k], buffer[k][sent[k] + 1]) /\ sent'[k] = 1
      <4>1. Beyond(k)' = Drop(Drop(buffer[k], sent[k]), 1)
        BY <2>1, <3>1 DEF Beyond
      <4>2. Drop(Drop(buffer[k], sent[k]), 1) = Drop(buffer[k], sent[k] + 1)
        BY <2>1, <2>2, DropOneMore
      <4>3. /\ Log!Begins(inner[k], inner'[k])
            /\ inner'[k] \o Drop(buffer[k], sent[k] + 1) = inner[k] \o Beyond(k)
        BY <2>1, <3>1, RowAdded
      <4> QED
        BY <4>1, <4>2, <4>3
    <3>2. CASE inner'[k] = inner[k] /\ sent'[k] = 0
      <4>1. Beyond(k)' = Drop(Beyond(k), 0)
        BY <2>1, <3>2 DEF Beyond
      <4>2. Drop(Beyond(k), 0) = Beyond(k)
        BY BeyondFacts, DropNothing
      <4>3. Log!Begins(inner[k], inner'[k])
        BY <2>1, <3>2, EmptySeq, PrefixFacts
      <4> QED
        BY <3>2, <4>1, <4>2, <4>3
    <3> QED
      BY <2>1, <3>1, <3>2
  <2>4. \A q \in Kinds : q # k => Beyond(q)' = Beyond(q)
    BY <2>1 DEF Beyond
  <2>5. Moves
    BY <2>1, <2>3, <2>4, OneKindMoves
  <2> QED
    BY <2>1, <2>5, MovesImplement
<1>9. CASE Open
  <2>1. ~up /\ up' /\ inner' = inner /\ buffer' = Empty /\ sent' = None
    BY <1>9 DEF Open
  <2>2. \A k \in Kinds : inner[k] \o Drop(<<>>, 0) = inner[k]
    <3>1. Drop(<<>>, 0) = <<>>
      BY EmptySeq, DropNothing
    <3> QED
      BY <3>1, ConcatEmptySeq DEF BufferInv, TypeOK
  <2>3. Accepted' = Accepted
    BY <2>1, <2>2 DEF Accepted, Empty, None, BufferInv, TypeOK
  <2> QED
    BY <2>1, <2>3
<1> QED
  BY <1>1, <1>2, <1>3, <1>4, <1>5, <1>6, <1>7, <1>8, <1>9 DEF Next, Beat, Flushing

\* Each fact is written once and in order, however many batches fail, outcomes
\* stay unknown and processes are killed.
THEOREM BufferImplementsLog == Spec => ImplementsFactLog
<1>1. Init => Log!LogInit
  <2> SUFFICES ASSUME Init
               PROVE  Log!LogInit
    OBVIOUS
  <2>1. Accepted = [k \in Kinds |-> <<>> \o Drop(<<>>, 0)]
    BY KindFacts DEF Init, Accepted, Empty, None
  <2>2. <<>> \o Drop(<<>>, 0) = <<>>
    BY EmptySeq, DropNothing, ConcatEmptySeq
  <2> QED
    BY <2>1, <2>2 DEF Init, Empty, Log!LogInit
<1> QED
  BY <1>1, StepLog, BufferInvariant, PTL DEF Spec, ImplementsFactLog, Log!LogSpec

=============================================================================
