-------------------------- MODULE SimulationProofs --------------------------
(***************************************************************************)
(* The virtual clock (Simulation, benchmark/clock.py), for any number of   *)
(* workers and endpoints, any latencies, delays and policy, and a run that *)
(* may be cancelled at any time: its two counts stay right, and time moves *)
(* only when nothing else can run.                                         *)
(*                                                                         *)
(* The clock is a record that every step rewrites as a whole, so what its  *)
(* operators keep is stated first, of the record they are given.  Nothing  *)
(* of the pool enters the first theorem: it decides who is runnable, not   *)
(* who is counted.  The second is about the order of the ready queue, and  *)
(* the pool is what queues the waiters and the notifier of a cool-down.    *)
(***************************************************************************)
EXTENDS Simulation, FiniteSetTheorems, SequenceTheorems, WellFoundedInduction, TLAPS

-----------------------------------------------------------------------------
(* The clock and its timers. *)

Fields == {"ready", "timers", "fired", "parked", "blocked", "quiet", "armed", "workers", "now"}

Sleepers == {Runs(w) : w \in Workers} \cup {Notifier}
Timer(L) == [who : Sleepers, left : L]

\* A clock has its fields, and its timers are those of workers and of the notifier.
Clock(c) ==
  /\ c = [f \in Fields |-> c[f]]
  /\ \E L : c.timers \in Seq(Timer(L))
  /\ c.parked \in Int /\ c.blocked \in Int

Asleep(t) == {w \in Workers : \E i \in DOMAIN t : t[i].who = Runs(w)}

\* A worker sleeps once.
Once(t) ==
  \A i, j \in DOMAIN t : t[i].who = t[j].who /\ t[i].who # Notifier => i = j

\* The first of the two counts is right.
Parks(c) == Clock(c) /\ Once(c.timers) /\ c.parked = Cardinality(Asleep(c.timers))

\* What happens to the ready queue, the probe and the workers counts nobody.
Same(c, d) ==
  Clock(d) /\ d.timers = c.timers /\ d.parked = c.parked /\ d.blocked = c.blocked

LEMMA NamesApart ==
  /\ \A w \in Workers : Runs(w) # Notifier /\ Counted(Runs(w)) = 1
  /\ \A v, w \in Workers : Runs(v) = Runs(w) => v = w
  /\ Counted(Notifier) = 0
BY DEF Runs, Notifier, Counted

LEMMA AsleepFinite ==
  ASSUME NEW t
  PROVE  IsFiniteSet(Asleep(t)) /\ Cardinality(Asleep(t)) \in Nat
<1>1. Asleep(t) \subseteq Workers /\ IsFiniteSet(Workers)
  BY SimulationAssumption DEF Asleep
<1> QED
  BY <1>1, FS_Subset, FS_CardinalityType

\* A worker is asleep at one place, so counting the timers counts the workers.
LEMMA TimersAreWorkers ==
  ASSUME NEW L, NEW t \in Seq(Timer(L)), Once(t)
  PROVE  Cardinality({i \in DOMAIN t : Counted(t[i].who) = 1}) = Cardinality(Asleep(t))
<1> DEFINE I == {i \in DOMAIN t : Counted(t[i].who) = 1}
           at == [w \in Asleep(t) |-> CHOOSE i \in DOMAIN t : t[i].who = Runs(w)]
<1>1. \A w \in Asleep(t) : at[w] \in DOMAIN t /\ t[at[w]].who = Runs(w)
  BY DEF Asleep
<1>2. at \in [Asleep(t) -> I]
  BY <1>1, NamesApart DEF Asleep
<1>3. \A i \in I : \E w \in Asleep(t) : at[w] = i
  <2> SUFFICES ASSUME NEW i \in I
               PROVE  \E w \in Asleep(t) : at[w] = i
    OBVIOUS
  <2>1. PICK w \in Workers : t[i].who = Runs(w)
    BY DEF Counted
  <2>2. w \in Asleep(t)
    BY <2>1 DEF Asleep
  <2>3. at[w] = i
    BY <1>1, <2>1, <2>2, NamesApart DEF Once
  <2> QED
    BY <2>2, <2>3
<1>4. \A v, w \in Asleep(t) : at[v] = at[w] => v = w
  BY <1>1, NamesApart DEF Asleep
<1> HIDE DEF at, I
<1>5. at \in Bijection(Asleep(t), I)
  BY <1>2, <1>3, <1>4 DEF Bijection, Injection, Surjection, IsInjective
<1>6. ExistsBijection(Asleep(t), I)
  BY <1>5 DEF ExistsBijection
<1> QED
  BY <1>6, AsleepFinite, FS_Bijection DEF I

-----------------------------------------------------------------------------
(* Sequences with one element more, or one less. *)

LEMMA WiderSeq ==
  ASSUME NEW S, NEW T, S \subseteq T, NEW s \in Seq(S)
  PROVE  s \in Seq(T)
OBVIOUS

LEMMA Prefix ==
  ASSUME NEW S, NEW s \in Seq(S), NEW k \in 0 .. Len(s)
  PROVE  /\ SubSeq(s, 1, k) \in Seq(S) /\ Len(SubSeq(s, 1, k)) = k
         /\ \A i \in 1 .. k : SubSeq(s, 1, k)[i] = s[i]
<1>0. k \in Int /\ 1 \in Int /\ \A i \in 1 .. k : s[i] \in S
  OBVIOUS
<1>1. /\ SubSeq(s, 1, k) \in Seq(S)
      /\ Len(SubSeq(s, 1, k)) = IF 1 <= k THEN k - 1 + 1 ELSE 0
      /\ \A i \in 1 .. k - 1 + 1 : SubSeq(s, 1, k)[i] = s[1 + i - 1]
  BY <1>0, SubSeqProperties
<1>2. k - 1 + 1 = k /\ (1 <= k \/ k = 0) /\ \A i \in 1 .. k : 1 + i - 1 = i
  OBVIOUS
<1> QED
  BY <1>1, <1>2

LEMMA Suffix ==
  ASSUME NEW S, NEW s \in Seq(S), NEW k \in 0 .. Len(s)
  PROVE  LET r == SubSeq(s, k + 1, Len(s))
         IN  /\ r \in Seq(S) /\ Len(r) = Len(s) - k
             /\ \A i \in 1 .. Len(s) - k : r[i] = s[k + i]
<1> DEFINE n == Len(s)
<1>0. n \in Int /\ k + 1 \in Int /\ \A i \in k + 1 .. n : s[i] \in S
  OBVIOUS
<1>3. n \in Nat /\ k \in Nat /\ k <= n
  OBVIOUS
<1> HIDE DEF n
<1>1. /\ SubSeq(s, k + 1, n) \in Seq(S)
      /\ Len(SubSeq(s, k + 1, n)) = IF k + 1 <= n THEN n - (k + 1) + 1 ELSE 0
      /\ \A i \in 1 .. n - (k + 1) + 1 : SubSeq(s, k + 1, n)[i] = s[(k + 1) + i - 1]
  BY <1>0, SubSeqProperties
<1>2. /\ n - (k + 1) + 1 = n - k /\ (k + 1 <= n \/ n - k = 0)
      /\ \A i \in 1 .. n - k : (k + 1) + i - 1 = k + i
  BY <1>3
<1>4. /\ SubSeq(s, k + 1, n) \in Seq(S) /\ Len(SubSeq(s, k + 1, n)) = n - k
      /\ \A i \in 1 .. n - k : SubSeq(s, k + 1, n)[i] = s[k + i]
  BY <1>1, <1>2
<1> QED
  BY <1>4 DEF n

LEMMA Joined ==
  ASSUME NEW S, NEW a \in Seq(S), NEW b \in Seq(S)
  PROVE  /\ a \o b \in Seq(S) /\ Len(a \o b) = Len(a) + Len(b)
         /\ \A i \in 1 .. Len(a) : (a \o b)[i] = a[i]
         /\ \A i \in Len(a) + 1 .. Len(a) + Len(b) : (a \o b)[i] = b[i - Len(a)]
<1>1. /\ a \o b \in Seq(S) /\ Len(a \o b) = Len(a) + Len(b)
      /\ \A i \in 1 .. Len(a) + Len(b) :
           (a \o b)[i] = IF i <= Len(a) THEN a[i] ELSE b[i - Len(a)]
  BY ConcatProperties
<1>2. /\ \A i \in 1 .. Len(a) : i \in 1 .. Len(a) + Len(b) /\ i <= Len(a)
      /\ \A i \in Len(a) + 1 .. Len(a) + Len(b) :
           i \in 1 .. Len(a) + Len(b) /\ ~(i <= Len(a))
  OBVIOUS
<1> QED
  BY <1>1, <1>2

\* Element i of the longer sequence comes from element i, or i - 1, of the shorter.
LEMMA Inserted ==
  ASSUME NEW S, NEW s \in Seq(S), NEW e \in S, NEW k \in 0 .. Len(s),
         NEW r, r = InsertAt(s, k + 1, e)
  PROVE  /\ r \in Seq(S) /\ Len(r) = Len(s) + 1 /\ r[k + 1] = e
         /\ \A i \in 1 .. k : r[i] = s[i]
         /\ \A i \in k + 2 .. Len(s) + 1 : r[i] = s[i - 1]
<1> DEFINE n == Len(s)
           a == SubSeq(s, 1, k)
           b == SubSeq(s, k + 1, n)
<1>0. n \in Nat /\ k \in Nat /\ k <= n
  OBVIOUS
<1>1. a \in Seq(S) /\ Len(a) = k /\ \A i \in 1 .. k : a[i] = s[i]
  BY Prefix
<1>2. b \in Seq(S) /\ Len(b) = n - k /\ \A i \in 1 .. n - k : b[i] = s[k + i]
  BY Suffix
<1>3. r = a \o <<e>> \o b
  <2>1. InsertAt(s, k + 1, e) = SubSeq(s, 1, (k + 1) - 1) \o <<e>> \o SubSeq(s, k + 1, Len(s))
    BY Zenon DEF InsertAt
  <2>2. (k + 1) - 1 = k
    BY <1>0
  <2> QED
    BY <2>1, <2>2, Zenon
<1> HIDE DEF n, a, b
<1>4. a \o <<e>> = Append(a, e)
  BY <1>1
<1>5. /\ a \o <<e>> \in Seq(S) /\ Len(a \o <<e>>) = k + 1 /\ (a \o <<e>>)[k + 1] = e
      /\ \A i \in 1 .. k : (a \o <<e>>)[i] = s[i]
  BY <1>0, <1>1, <1>4
<1> DEFINE c == a \o <<e>>
<1>6. c \in Seq(S) /\ Len(c) = k + 1 /\ c[k + 1] = e /\ \A i \in 1 .. k : c[i] = s[i]
  BY <1>5
<1>7. r = c \o b
  BY <1>3
<1> HIDE DEF c
<1>8. /\ r \in Seq(S) /\ Len(r) = k + 1 + (n - k)
      /\ \A i \in 1 .. k + 1 : r[i] = c[i]
      /\ \A i \in k + 2 .. k + 1 + (n - k) : r[i] = b[i - (k + 1)]
  <2>1. /\ r \in Seq(S) /\ Len(r) = Len(c) + Len(b)
        /\ \A i \in 1 .. Len(c) : r[i] = c[i]
        /\ \A i \in Len(c) + 1 .. Len(c) + Len(b) : r[i] = b[i - Len(c)]
    <3>1. /\ c \o b \in Seq(S) /\ Len(c \o b) = Len(c) + Len(b)
          /\ \A i \in 1 .. Len(c) : (c \o b)[i] = c[i]
          /\ \A i \in Len(c) + 1 .. Len(c) + Len(b) : (c \o b)[i] = b[i - Len(c)]
      BY <1>2, <1>6, Joined
    <3> QED
      BY <1>7, <3>1
  <2>2. k + 1 + 1 = k + 2
    BY <1>0
  <2> QED
    BY <1>2, <1>6, <2>1, <2>2
<1>9. \A i \in k + 2 .. n + 1 : r[i] = s[i - 1]
  <2> SUFFICES ASSUME NEW i \in k + 2 .. n + 1
               PROVE  r[i] = s[i - 1]
    OBVIOUS
  <2>1. i \in k + 2 .. k + 1 + (n - k) /\ i - (k + 1) \in 1 .. n - k /\ k + (i - (k + 1)) = i - 1
    BY <1>0
  <2> QED
    BY <1>2, <1>8, <2>1
<1>10. k + 1 + (n - k) = n + 1 /\ k + 1 \in 1 .. k + 1 /\ 1 .. k \subseteq 1 .. k + 1
  BY <1>0
<1> QED
  BY <1>6, <1>8, <1>9, <1>10 DEF n

LEMMA Removed ==
  ASSUME NEW S, NEW s \in Seq(S), NEW k \in 1 .. Len(s)
  PROVE  LET r == RemoveAt(s, k)
         IN  /\ r \in Seq(S) /\ Len(r) = Len(s) - 1
             /\ \A i \in 1 .. k - 1 : r[i] = s[i]
             /\ \A i \in k .. Len(s) - 1 : r[i] = s[i + 1]
<1> DEFINE n == Len(s)
           a == SubSeq(s, 1, k - 1)
           b == SubSeq(s, k + 1, n)
           r == RemoveAt(s, k)
<1>0. n \in Nat /\ k \in Nat /\ 1 <= k /\ k <= n
  OBVIOUS
<1>1. a \in Seq(S) /\ Len(a) = k - 1 /\ \A i \in 1 .. k - 1 : a[i] = s[i]
  BY <1>0, Prefix, k - 1 \in 0 .. Len(s)
<1>2. b \in Seq(S) /\ Len(b) = n - k /\ \A i \in 1 .. n - k : b[i] = s[k + i]
  BY <1>0, Suffix, k \in 0 .. Len(s)
<1>3. r = a \o b
  BY DEF RemoveAt
<1> HIDE DEF n, a, b, r
<1>4. /\ r \in Seq(S) /\ Len(r) = k - 1 + (n - k)
      /\ \A i \in 1 .. k - 1 : r[i] = a[i]
      /\ \A i \in k .. k - 1 + (n - k) : r[i] = b[i - (k - 1)]
  <2>1. /\ r \in Seq(S) /\ Len(r) = Len(a) + Len(b)
        /\ \A i \in 1 .. Len(a) : r[i] = a[i]
        /\ \A i \in Len(a) + 1 .. Len(a) + Len(b) : r[i] = b[i - Len(a)]
    <3>1. a \in Seq(S) /\ b \in Seq(S)
      BY <1>1, <1>2
    <3> QED
      BY <1>3, <3>1, Joined
  <2>2. k - 1 + 1 = k
    BY <1>0
  <2> QED
    BY <1>1, <1>2, <2>1, <2>2
<1>5. \A i \in k .. n - 1 : r[i] = s[i + 1]
  <2> SUFFICES ASSUME NEW i \in k .. n - 1
               PROVE  r[i] = s[i + 1]
    OBVIOUS
  <2>1. i \in k .. k - 1 + (n - k) /\ i - (k - 1) \in 1 .. n - k /\ k + (i - (k - 1)) = i + 1
    BY <1>0
  <2> QED
    BY <1>2, <1>4, <2>1
<1>6. k - 1 + (n - k) = n - 1
  BY <1>0
<1> QED
  BY <1>1, <1>4, <1>5, <1>6 DEF n, r

-----------------------------------------------------------------------------
(* What becomes of the timers. *)

\* A timer more, wherever its deadline puts it.
LEMMA TimerAdded ==
  ASSUME NEW L, NEW t \in Seq(Timer(L)), NEW k \in 0 .. Len(t), NEW e \in Timer(L), Once(t),
         \A w \in Asleep(t) : Runs(w) # e.who, NEW s, s = InsertAt(t, k + 1, e)
  PROVE  /\ s \in Seq(Timer(L)) /\ Once(s)
         /\ Asleep(s) = Asleep(t) \cup {w \in Workers : Runs(w) = e.who}
<1> DEFINE n == Len(t)
<1>0. n \in Nat /\ k \in Nat /\ k <= n /\ DOMAIN t = 1 .. n
  OBVIOUS
<1>1. PICK p : p = e.who
  OBVIOUS
<1>2. \A i \in DOMAIN t : t[i] \in Timer(L)
  OBVIOUS
<1>3. \A i \in DOMAIN t : t[i].who \in Sleepers
  BY <1>2 DEF Timer
<1>4. /\ s \in Seq(Timer(L)) /\ Len(s) = n + 1 /\ s[k + 1] = e
      /\ \A i \in 1 .. k : s[i] = t[i]
      /\ \A i \in k + 2 .. n + 1 : s[i] = t[i - 1]
  <2>1. s \in Seq(Timer(L)) /\ Len(s) = Len(t) + 1 /\ s[k + 1] = e
    BY Inserted
  <2>2. \A i \in 1 .. k : s[i] = t[i]
    BY Inserted
  <2>3. \A i \in k + 2 .. Len(t) + 1 : s[i] = t[i - 1]
    BY Inserted
  <2> QED
    BY <2>1, <2>2, <2>3
<1> HIDE DEF n
<1>5. DOMAIN s = 1 .. n + 1
  BY <1>4
<1>6. \A i \in DOMAIN s :
        \/ i = k + 1 /\ s[i] = e
        \/ i <= k /\ i \in DOMAIN t /\ s[i] = t[i]
        \/ i > k + 1 /\ i - 1 \in DOMAIN t /\ s[i] = t[i - 1]
  BY <1>0, <1>4, <1>5
<1>7. /\ \A i \in DOMAIN t : i <= k => i \in DOMAIN s /\ s[i] = t[i]
      /\ \A i \in DOMAIN t : i > k => i + 1 \in DOMAIN s /\ s[i + 1] = t[i]
      /\ k + 1 \in DOMAIN s
  <2>1. /\ \A i \in DOMAIN t : i <= k => i \in DOMAIN s /\ i \in 1 .. k
        /\ \A i \in DOMAIN t : i > k =>
             i + 1 \in DOMAIN s /\ i + 1 \in k + 2 .. n + 1 /\ (i + 1) - 1 = i
        /\ k + 1 \in DOMAIN s
    BY <1>0, <1>5
  <2> QED
    BY <1>4, <2>1
<1>8. Asleep(s) = Asleep(t) \cup {w \in Workers : Runs(w) = p}
  <2>1. Asleep(s) \subseteq Asleep(t) \cup {w \in Workers : Runs(w) = p}
    BY <1>1, <1>6 DEF Asleep
  <2>2. {w \in Workers : Runs(w) = p} \subseteq Asleep(s)
    BY <1>1, <1>4, <1>7 DEF Asleep
  <2>3. \A i \in DOMAIN t : \E j \in DOMAIN s : s[j] = t[i]
    BY <1>0, <1>7
  <2>4. Asleep(t) \subseteq Asleep(s)
    BY <2>3 DEF Asleep
  <2> QED
    BY <2>1, <2>2, <2>4
<1>9. Once(s)
  <2>1. \A i \in DOMAIN t : t[i].who # Notifier => t[i].who # p
    BY <1>1, <1>3 DEF Asleep, Sleepers
  <2> SUFFICES ASSUME NEW i \in DOMAIN s, NEW j \in DOMAIN s, s[i].who = s[j].who,
                      s[i].who # Notifier
               PROVE  i = j
    BY DEF Once
  <2>2. i = k + 1 <=> j = k + 1
    BY <1>1, <1>6, <2>1
  <2>3. CASE i # k + 1 /\ j # k + 1
    <3>1. PICK x \in DOMAIN t : s[i] = t[x] /\ x = IF i <= k THEN i ELSE i - 1
      BY <1>0, <1>5, <1>6, <2>3
    <3>2. PICK y \in DOMAIN t : s[j] = t[y] /\ y = IF j <= k THEN j ELSE j - 1
      BY <1>0, <1>5, <1>6, <2>3
    <3>3. x = y
      BY <3>1, <3>2 DEF Once
    <3> QED
      BY <1>0, <1>5, <2>3, <3>1, <3>2, <3>3
  <2> QED
    BY <2>2, <2>3
<1> QED
  BY <1>1, <1>4, <1>8, <1>9

\* A timer less: its sleeper is awake, the others sleep on.
LEMMA TimerRemoved ==
  ASSUME NEW L, NEW t \in Seq(Timer(L)), Once(t), NEW k \in DOMAIN t
  PROVE  LET s == RemoveAt(t, k)
         IN  /\ s \in Seq(Timer(L)) /\ Once(s)
             /\ Asleep(s) = Asleep(t) \ {w \in Workers : Runs(w) = t[k].who}
<1> DEFINE n == Len(t)
           s == RemoveAt(t, k)
<1>0. n \in Nat /\ k \in 1 .. n /\ DOMAIN t = 1 .. n
  OBVIOUS
<1>1. /\ s \in Seq(Timer(L)) /\ Len(s) = n - 1
      /\ \A i \in 1 .. k - 1 : s[i] = t[i]
      /\ \A i \in k .. n - 1 : s[i] = t[i + 1]
  BY <1>0, Removed
<1> HIDE DEF s, n
<1>2. DOMAIN s = 1 .. n - 1
  BY <1>0, <1>1
<1>3. \A i \in DOMAIN s :
        \/ i < k /\ i \in DOMAIN t /\ s[i] = t[i]
        \/ i >= k /\ i + 1 \in DOMAIN t /\ s[i] = t[i + 1]
  BY <1>0, <1>1, <1>2
<1>4. \A i \in DOMAIN t \ {k} : \E j \in DOMAIN s : s[j] = t[i]
  <2> SUFFICES ASSUME NEW i \in DOMAIN t, i # k
               PROVE  \E j \in DOMAIN s : s[j] = t[i]
    OBVIOUS
  <2>1. CASE i < k
    BY <1>0, <1>1, <1>2, <2>1, i \in 1 .. k - 1
  <2>2. CASE i > k
    <3>1. i - 1 \in DOMAIN s /\ i - 1 \in k .. n - 1 /\ (i - 1) + 1 = i
      BY <1>0, <1>2, <2>2
    <3> QED
      BY <1>1, <3>1
  <2> QED
    BY <1>0, <2>1, <2>2
<1>5. \A i \in DOMAIN s : \E x \in DOMAIN t :
        s[i] = t[x] /\ x = (IF i < k THEN i ELSE i + 1) /\ x # k
  BY <1>0, <1>2, <1>3
<1>6. Once(s)
  <2> SUFFICES ASSUME NEW i \in DOMAIN s, NEW j \in DOMAIN s, s[i].who = s[j].who,
                      s[i].who # Notifier
               PROVE  i = j
    BY DEF Once
  <2>1. PICK x \in DOMAIN t : s[i] = t[x] /\ x = (IF i < k THEN i ELSE i + 1)
    BY <1>5
  <2>2. PICK y \in DOMAIN t : s[j] = t[y] /\ y = (IF j < k THEN j ELSE j + 1)
    BY <1>5
  <2>3. x = y
    BY <2>1, <2>2 DEF Once
  <2> QED
    BY <1>0, <1>2, <2>1, <2>2, <2>3
<1>7. Asleep(s) = Asleep(t) \ {w \in Workers : Runs(w) = t[k].who}
  <2>1. \A w \in Asleep(s) : w \in Asleep(t) /\ Runs(w) # t[k].who
    <3> SUFFICES ASSUME NEW w \in Asleep(s)
                 PROVE  w \in Asleep(t) /\ Runs(w) # t[k].who
      OBVIOUS
    <3>1. PICK i \in DOMAIN s : s[i].who = Runs(w)
      BY DEF Asleep
    <3>2. PICK x \in DOMAIN t : s[i] = t[x] /\ x # k
      BY <1>5
    <3>3. w \in Workers /\ Runs(w) # Notifier
      BY NamesApart DEF Asleep
    <3> QED
      BY <3>1, <3>2, <3>3 DEF Asleep, Once
  <2>2. \A w \in Asleep(t) : Runs(w) # t[k].who => w \in Asleep(s)
    <3> SUFFICES ASSUME NEW w \in Asleep(t), Runs(w) # t[k].who
                 PROVE  w \in Asleep(s)
      OBVIOUS
    <3>1. PICK i \in DOMAIN t : t[i].who = Runs(w)
      BY DEF Asleep
    <3>2. PICK j \in DOMAIN s : s[j] = t[i]
      BY <1>4, <3>1
    <3> QED
      BY <3>1, <3>2 DEF Asleep
  <2>3. Asleep(s) \subseteq Workers /\ Asleep(t) \subseteq Workers
    BY DEF Asleep
  <2> QED
    BY <2>1, <2>2, <2>3
<1> QED
  BY <1>1, <1>6, <1>7 DEF s

\* The timers due and those that are not share no worker.
LEMMA TimersSplit ==
  ASSUME NEW L, NEW t \in Seq(Timer(L)), Once(t), NEW n \in 0 .. Len(t)
  PROVE  LET due == SubSeq(t, 1, n)
             later == SubSeq(t, n + 1, Len(t))
         IN  /\ due \in Seq(Timer(L)) /\ later \in Seq(Timer(L))
             /\ Once(due) /\ Once(later)
             /\ Asleep(due) = Asleep(t) \ Asleep(later)
             /\ Asleep(later) \subseteq Asleep(t)
<1> DEFINE m == Len(t)
           due == SubSeq(t, 1, n)
           later == SubSeq(t, n + 1, m)
<1>0. m \in Nat /\ n \in Nat /\ n <= m /\ DOMAIN t = 1 .. m
  OBVIOUS
<1>1. due \in Seq(Timer(L)) /\ Len(due) = n /\ \A i \in 1 .. n : due[i] = t[i]
  BY Prefix
<1>2. later \in Seq(Timer(L)) /\ Len(later) = m - n /\ \A i \in 1 .. m - n : later[i] = t[n + i]
  BY Suffix
<1> HIDE DEF m, due, later
<1>3. DOMAIN due = 1 .. n /\ DOMAIN later = 1 .. m - n
  BY <1>0, <1>1, <1>2
<1>4. /\ \A i \in DOMAIN due : i \in DOMAIN t /\ i <= n /\ due[i] = t[i]
      /\ \A i \in DOMAIN later : n + i \in DOMAIN t /\ n + i > n /\ later[i] = t[n + i]
  <2>1. /\ \A i \in DOMAIN due : i \in DOMAIN t /\ i <= n
        /\ \A i \in DOMAIN later : n + i \in DOMAIN t /\ n + i > n
    BY <1>0, <1>3
  <2> QED
    BY <1>1, <1>2, <1>3, <2>1
<1>5. Once(due)
  BY <1>4 DEF Once
<1>6. Once(later)
  <2> SUFFICES ASSUME NEW i \in DOMAIN later, NEW j \in DOMAIN later,
                      later[i].who = later[j].who, later[i].who # Notifier
               PROVE  i = j
    BY DEF Once
  <2>1. n + i = n + j
    BY <1>4 DEF Once
  <2> QED
    BY <1>0, <1>3, <2>1
<1>7. \A i \in DOMAIN t :
        \/ i \in DOMAIN due /\ due[i] = t[i]
        \/ i - n \in DOMAIN later /\ later[i - n] = t[i]
  BY <1>0, <1>1, <1>2, <1>3, \A i \in DOMAIN t : n + (i - n) = i
<1>8. Asleep(later) \subseteq Asleep(t) /\ Asleep(due) \subseteq Asleep(t)
  BY <1>4 DEF Asleep
<1>9. Asleep(t) \subseteq Asleep(due) \cup Asleep(later)
  BY <1>7 DEF Asleep
<1>10. Asleep(due) \cap Asleep(later) = {}
  <2> SUFFICES ASSUME NEW w \in Workers, NEW i \in DOMAIN due, NEW j \in DOMAIN later,
                      due[i].who = Runs(w), later[j].who = Runs(w)
               PROVE  FALSE
    BY DEF Asleep
  <2>1. i = n + j
    BY <1>4, NamesApart DEF Once
  <2> QED
    BY <1>0, <1>3, <2>1
<1> QED
  BY <1>1, <1>2, <1>5, <1>6, <1>8, <1>9, <1>10 DEF due, later, m

-----------------------------------------------------------------------------
(* What the clock's operators keep. *)

LEMMA SameFacts ==
  ASSUME NEW c, NEW d, Clock(c), Same(c, d)
  PROVE  Parks(c) => Parks(d)
BY DEF Same, Parks

LEMMA ReadyFacts ==
  ASSUME NEW c, Clock(c), NEW x, NEW y, NEW z
  PROVE  /\ Same(c, [c EXCEPT !.ready = x])
         /\ Same(c, [c EXCEPT !.armed = x])
         /\ Same(c, [c EXCEPT !.quiet = x])
         /\ Same(c, [c EXCEPT !.workers = x])
         /\ Same(c, [c EXCEPT !.fired = x])
         /\ Same(c, [c EXCEPT !.quiet = x, !.armed = y, !.ready = z])
BY DEF Same, Clock, Fields

LEMMA ActivityFacts ==
  ASSUME NEW c, Clock(c)
  PROVE  Same(c, Activity(c))
BY ReadyFacts DEF Activity

LEMMA SameTwice ==
  ASSUME NEW c, NEW d, NEW e, Same(c, d), Same(d, e)
  PROVE  Same(c, e)
BY DEF Same

LEMMA BlockedFacts ==
  ASSUME NEW c, Parks(c)
  PROVE  /\ Parks(EnterBlocked(c)) /\ Parks(LeaveBlocked(c))
         /\ EnterBlocked(c).timers = c.timers /\ LeaveBlocked(c).timers = c.timers
         /\ EnterBlocked(c).blocked = c.blocked + 1
         /\ LeaveBlocked(c).blocked = c.blocked - 1
<1> SUFFICES ASSUME NEW n \in Int
             PROVE  LET d == Activity([c EXCEPT !.blocked = n])
                    IN  Parks(d) /\ d.timers = c.timers /\ d.blocked = n
  <2>1. c.blocked + 1 \in Int /\ c.blocked - 1 \in Int
    BY DEF Parks, Clock
  <2> QED
    BY <2>1 DEF EnterBlocked, LeaveBlocked
<1> DEFINE x == [c EXCEPT !.blocked = n]
<1>1. Clock(x) /\ x.timers = c.timers /\ x.parked = c.parked /\ x.blocked = n
  BY DEF Parks, Clock, Fields
<1> HIDE DEF x
<1>2. Same(x, Activity(x))
  BY <1>1, ActivityFacts
<1> QED
  BY <1>1, <1>2 DEF Parks, Same, x

LEMMA ChosenCount ==
  ASSUME NEW S, NEW t \in Seq(S), NEW I \in SUBSET DOMAIN t
  PROVE  Cardinality(I) \in 0 .. Len(t)
<1>1. Len(t) \in Nat /\ DOMAIN t = 1 .. Len(t)
  OBVIOUS
<1>2. IsFiniteSet(1 .. Len(t)) /\ Cardinality(1 .. Len(t)) = Len(t)
  <2>1. PICK n \in Nat : n = Len(t)
    BY <1>1
  <2>2. IsFiniteSet(1 .. n) /\ Cardinality(1 .. n) = IF 1 > n THEN 0 ELSE n - 1 + 1
    BY FS_Interval
  <2> QED
    BY <2>1, <2>2
<1>3. Cardinality(I) \in Nat /\ Cardinality(I) <= Len(t)
  BY <1>1, <1>2, FS_Subset, FS_CardinalityType
<1> QED
  BY <1>1, <1>3

\* Going to sleep counts a worker that was awake; the notifier is not counted.
LEMMA SleepFacts ==
  ASSUME NEW c, Parks(c), NEW p \in Sleepers, \A w \in Asleep(c.timers) : Runs(w) # p, NEW d
  PROVE  Parks(Sleep(c, p, d)) /\ Sleep(c, p, d).blocked = c.blocked
<1>0. Clock(c) /\ Once(c.timers) /\ c.parked = Cardinality(Asleep(c.timers))
  BY DEF Parks
<1>1. CASE d = 0
  <2>1. Same(c, Sleep(c, p, d))
    BY <1>0, <1>1, ReadyFacts DEF Sleep
  <2> QED
    BY <1>0, <2>1, SameFacts DEF Same
<1>2. CASE d # 0
  <2>1. PICK L : c.timers \in Seq(Timer(L)) /\ d \in L
    <3>1. PICK K : c.timers \in Seq(Timer(K))
      BY <1>0 DEF Clock
    <3>2. Timer(K) \subseteq Timer(K \cup {d})
      BY DEF Timer
    <3>3. c.timers \in Seq(Timer(K \cup {d}))
      BY <3>1, <3>2, WiderSeq
    <3> QED
      BY <3>3
  <2>2. PICK k \in 0 .. Len(c.timers) :
          k = Cardinality({i \in DOMAIN c.timers : c.timers[i].left <= d})
    BY <2>1, ChosenCount
  <2>3. PICK e, s : e = [who |-> p, left |-> d] /\ s = InsertAt(c.timers, k + 1, e)
    OBVIOUS
  <2>4. /\ s \in Seq(Timer(L)) /\ Once(s)
        /\ Asleep(s) = Asleep(c.timers) \cup {w \in Workers : Runs(w) = p}
    <3>1. e \in Timer(L) /\ e.who = p
      BY <2>1, <2>3 DEF Timer
    <3>2. \A w \in Asleep(c.timers) : Runs(w) # e.who
      BY <3>1
    <3>3. s = InsertAt(c.timers, k + 1, e)
      BY <2>3
    <3> QED
      BY <1>0, <2>1, <3>1, <3>2, <3>3, TimerAdded
  <2>5. Cardinality(Asleep(s)) = c.parked + Counted(p)
    <3>0. c.parked \in Int
      BY <1>0 DEF Clock
    <3>1. CASE p = Notifier
      <4>1. Asleep(s) = Asleep(c.timers)
        BY <2>4, <3>1, NamesApart
      <4> QED
        BY <1>0, <3>0, <3>1, <4>1, NamesApart
    <3>2. ASSUME NEW v \in Workers, p = Runs(v)
          PROVE  Cardinality(Asleep(s)) = c.parked + Counted(p)
      <4>1. {w \in Workers : Runs(w) = p} = {v} /\ v \notin Asleep(c.timers) /\ Counted(p) = 1
        BY <3>2, NamesApart
      <4>2. Asleep(s) = Asleep(c.timers) \cup {v}
        BY <2>4, <4>1
      <4>3. Cardinality(Asleep(c.timers) \cup {v}) = Cardinality(Asleep(c.timers)) + 1
        BY <4>1, AsleepFinite, FS_AddElement
      <4> QED
        BY <1>0, <4>1, <4>2, <4>3
    <3> QED
      BY <3>1, <3>2 DEF Sleepers
  <2>6. PICK x : x = [c EXCEPT !.timers = s, !.parked = c.parked + Counted(p)]
    OBVIOUS
  <2>7. /\ Clock(x) /\ x.timers = s /\ x.parked = Cardinality(Asleep(s))
        /\ x.blocked = c.blocked
    <3>1. c.parked + Counted(p) \in Int
      BY <1>0 DEF Clock, Counted
    <3> QED
      BY <1>0, <2>4, <2>5, <2>6, <3>1 DEF Clock, Fields
  <2>8. Sleep(c, p, d) = Activity(x)
    BY <1>2, <2>2, <2>3, <2>6 DEF Sleep
  <2>9. Same(x, Activity(x)) /\ Parks(x)
    BY <2>4, <2>7, ActivityFacts DEF Parks
  <2> QED
    BY <2>7, <2>8, <2>9, SameFacts DEF Same
<1> QED
  BY <1>1, <1>2

\* A sleep that ends leaves its sleeper awake, and its count given back.
LEMMA SleepEndsFacts ==
  ASSUME NEW c, Parks(c), NEW p \in Sleepers
  PROVE  LET d == SleepEnds(c, p)
         IN  /\ Parks(d) /\ d.blocked = c.blocked
             /\ Asleep(d.timers) = Asleep(c.timers) \ {w \in Workers : Runs(w) = p}
<1>0. Clock(c) /\ Once(c.timers) /\ c.parked = Cardinality(Asleep(c.timers))
  BY DEF Parks
<1>1. CASE \E i \in DOMAIN c.timers : c.timers[i].who = p
  <2>1. PICK L : c.timers \in Seq(Timer(L))
    BY <1>0 DEF Clock
  <2>2. TimerOf(c, p) \in DOMAIN c.timers /\ c.timers[TimerOf(c, p)].who = p
    BY <1>1 DEF TimerOf
  <2>3. PICK s : s = RemoveAt(c.timers, TimerOf(c, p))
    OBVIOUS
  <2>4. /\ s \in Seq(Timer(L)) /\ Once(s)
        /\ Asleep(s) = Asleep(c.timers) \ {w \in Workers : Runs(w) = p}
    BY <1>0, <2>1, <2>2, <2>3, TimerRemoved
  <2>5. Cardinality(Asleep(s)) = c.parked - Counted(p)
    <3>0. c.parked \in Int
      BY <1>0 DEF Clock
    <3>1. CASE p = Notifier
      <4>1. Asleep(s) = Asleep(c.timers)
        BY <2>4, <3>1, NamesApart
      <4> QED
        BY <1>0, <3>0, <3>1, <4>1, NamesApart
    <3>2. ASSUME NEW v \in Workers, p = Runs(v)
          PROVE  Cardinality(Asleep(s)) = c.parked - Counted(p)
      <4>1. {w \in Workers : Runs(w) = p} = {v} /\ Counted(p) = 1
        BY <3>2, NamesApart
      <4>2. v \in Asleep(c.timers)
        BY <2>2, <3>2 DEF Asleep
      <4>3. Asleep(s) = Asleep(c.timers) \ {v}
        BY <2>4, <4>1
      <4>4. Cardinality(Asleep(c.timers) \ {v}) = Cardinality(Asleep(c.timers)) - 1
        BY <4>2, AsleepFinite, FS_RemoveElement
      <4> QED
        BY <1>0, <4>1, <4>3, <4>4
    <3> QED
      BY <3>1, <3>2 DEF Sleepers
  <2>6. PICK x : x = [c EXCEPT !.timers = s, !.parked = c.parked - Counted(p)]
    OBVIOUS
  <2>7. /\ Clock(x) /\ x.timers = s /\ x.parked = Cardinality(Asleep(s))
        /\ x.blocked = c.blocked
    <3>1. c.parked - Counted(p) \in Int
      BY <1>0 DEF Clock, Counted
    <3> QED
      BY <1>0, <2>4, <2>5, <2>6, <3>1 DEF Clock, Fields
  <2>8. SleepEnds(c, p) = Activity(x)
    BY <1>1, <2>3, <2>6 DEF SleepEnds
  <2>9. Same(x, Activity(x)) /\ Parks(x)
    BY <2>4, <2>7, ActivityFacts DEF Parks
  <2> QED
    BY <2>4, <2>7, <2>8, <2>9, SameFacts DEF Same
<1>2. CASE ~ \E i \in DOMAIN c.timers : c.timers[i].who = p
  <2>1. Same(c, SleepEnds(c, p))
    BY <1>0, <1>2, ReadyFacts DEF SleepEnds
  <2>2. Asleep(c.timers) = Asleep(c.timers) \ {w \in Workers : Runs(w) = p}
    BY <1>2 DEF Asleep
  <2> QED
    BY <1>0, <2>1, <2>2, SameFacts DEF Same
<1> QED
  BY <1>1, <1>2

\* The driver gives back the count of every timer it fires.
LEMMA AdvanceFacts ==
  ASSUME NEW c, Parks(c)
  PROVE  Parks(Advance(c)) /\ Advance(c).blocked = c.blocked
<1>0. Clock(c) /\ Once(c.timers) /\ c.parked = Cardinality(Asleep(c.timers))
  BY DEF Parks
<1>1. PICK L : c.timers \in Seq(Timer(L))
  BY <1>0 DEF Clock
<1>2. PICK d : d = Deadline(c)
  OBVIOUS
<1>3. PICK n \in 0 .. Len(c.timers) : n = DueCount(c)
  BY <1>1, ChosenCount DEF DueCount
<1>4. PICK due, later : /\ due = SubSeq(c.timers, 1, n)
                        /\ later = SubSeq(c.timers, n + 1, Len(c.timers))
  OBVIOUS
<1>5. /\ due \in Seq(Timer(L)) /\ later \in Seq(Timer(L)) /\ Once(due) /\ Once(later)
      /\ Asleep(due) = Asleep(c.timers) \ Asleep(later)
      /\ Asleep(later) \subseteq Asleep(c.timers)
  BY <1>0, <1>1, <1>4, TimersSplit
<1>6. PICK s : s = [i \in DOMAIN later |-> [later[i] EXCEPT !.left = @ - d]]
  OBVIOUS
<1>7. /\ \E M : s \in Seq(Timer(M))
      /\ DOMAIN s = DOMAIN later
      /\ \A i \in DOMAIN s : s[i].who = later[i].who
  <2>1. PICK M : M = {l - d : l \in L}
    OBVIOUS
  <2>2. \A i \in DOMAIN later : later[i] \in Timer(L)
    BY <1>5
  <2>3. \A i \in DOMAIN later : [later[i] EXCEPT !.left = @ - d] \in Timer(M)
    BY <2>1, <2>2 DEF Timer
  <2>4. \A i \in DOMAIN later : [later[i] EXCEPT !.left = @ - d].who = later[i].who
    BY <2>2 DEF Timer
  <2>5. DOMAIN later = 1 .. Len(later) /\ Len(later) \in Nat
    BY <1>5
  <2>6. s \in Seq(Timer(M))
    BY <1>6, <2>3, <2>5
  <2> QED
    BY <1>6, <2>4, <2>6
<1>8. Asleep(s) = Asleep(later) /\ Once(s)
  <2>1. Asleep(s) = Asleep(later)
    BY <1>7 DEF Asleep
  <2>2. Once(s)
    BY <1>5, <1>7 DEF Once
  <2> QED
    BY <2>1, <2>2
<1>9. PICK g : g = Cardinality({i \in DOMAIN due : Counted(due[i].who) = 1})
  OBVIOUS
<1>10. c.parked - g = Cardinality(Asleep(s)) /\ c.parked - g \in Int
  <2>1. g = Cardinality(Asleep(due))
    BY <1>5, <1>9, TimersAreWorkers
  <2>2. IsFiniteSet(Asleep(later)) /\ IsFiniteSet(Asleep(c.timers))
    BY AsleepFinite
  <2>3. Asleep(c.timers) \cap Asleep(later) = Asleep(later)
    BY <1>5
  <2>4. Cardinality(Asleep(due)) = Cardinality(Asleep(c.timers)) - Cardinality(Asleep(later))
    <3>1. /\ IsFiniteSet(Asleep(c.timers) \ Asleep(later))
          /\ Cardinality(Asleep(c.timers) \ Asleep(later))
               = Cardinality(Asleep(c.timers)) - Cardinality(Asleep(c.timers) \cap Asleep(later))
      BY <2>2, FS_Difference
    <3> QED
      BY <1>5, <2>3, <3>1
  <2> QED
    BY <1>0, <1>8, <2>1, <2>4, AsleepFinite
<1>11. \E now, fired, ready :
         Advance(c) = Activity([c EXCEPT !.now = now, !.timers = s, !.fired = fired,
                                         !.parked = c.parked - g, !.ready = ready])
  <2>1. due = Due(c) /\ s = Pending(c)
    BY <1>2, <1>3, <1>4, <1>6, Zenon DEF Due, Pending
  <2> QED
    BY <1>9, <2>1, Zenon DEF Advance
<1>12. PICK now, fired, ready :
         Advance(c) = Activity([c EXCEPT !.now = now, !.timers = s, !.fired = fired,
                                         !.parked = c.parked - g, !.ready = ready])
  BY <1>11
<1>13. PICK x : x = [c EXCEPT !.now = now, !.timers = s, !.fired = fired,
                              !.parked = c.parked - g, !.ready = ready]
  OBVIOUS
<1>14. /\ Clock(x) /\ x.timers = s /\ x.parked = Cardinality(Asleep(s))
       /\ x.blocked = c.blocked
  BY <1>0, <1>7, <1>10, <1>13 DEF Clock, Fields
<1>15. Same(x, Activity(x)) /\ Parks(x)
  BY <1>8, <1>14, ActivityFacts DEF Parks
<1> QED
  BY <1>12, <1>13, <1>14, <1>15, SameFacts DEF Same

-----------------------------------------------------------------------------
(* The counts. *)

InStretch == {"claim", "enter", "acquire", "perform", "answer", "failed"}
InAcquire == {"acquire", "wait", "nap"}
Places == InStretch \cup {"start", "wait", "nap", "call", "retry", "done"}

\* How many workers an await of this kind blocks.
Blocks(here) == IF here \in InAcquire THEN 1 ELSE 0

Blocked == {w \in Workers : pc[w] \in InAcquire}

\* One worker is inside a stretch, the one that is running, and it is not asleep.
CountInv ==
  /\ pc \in [Workers -> Places] /\ running \in Workers \cup {Nobody}
  /\ \A w \in Workers : pc[w] \in InStretch => running = w
  /\ \A w \in Asleep(clock.timers) : running # w
  /\ Parks(clock)
  /\ clock.blocked = Cardinality(Blocked)

LEMMA BlockedChange ==
  ASSUME CountInv, NEW w \in Workers, NEW there \in Places, Goes(w, there)
  PROVE  Cardinality(Blocked') = Cardinality(Blocked) + Blocks(there) - Blocks(pc[w])
<1>0. IsFiniteSet(Blocked) /\ Cardinality(Blocked) \in Nat
  <2>1. Blocked \subseteq Workers
    BY DEF Blocked
  <2> QED
    BY <2>1, SimulationAssumption, FS_Subset, FS_CardinalityType
<1>1. pc'[w] = there /\ \A v \in Workers : v # w => pc'[v] = pc[v]
  BY DEF CountInv, Goes
<1>2. CASE there \in InAcquire
  <2>1. Blocked' = Blocked \cup {w}
    BY <1>1, <1>2 DEF Blocked
  <2>2. w \in Blocked <=> Blocks(pc[w]) = 1
    BY DEF Blocked, Blocks
  <2>3. Cardinality(Blocked \cup {w}) =
          IF w \in Blocked THEN Cardinality(Blocked) ELSE Cardinality(Blocked) + 1
    BY <1>0, FS_AddElement
  <2>4. Blocks(there) = 1 /\ Blocks(pc[w]) \in {0, 1}
    BY <1>2 DEF Blocks
  <2> QED
    BY <1>0, <2>1, <2>2, <2>3, <2>4
<1>3. CASE there \notin InAcquire
  <2>1. Blocked' = Blocked \ {w}
    BY <1>1, <1>3 DEF Blocked
  <2>2. w \in Blocked <=> Blocks(pc[w]) = 1
    BY DEF Blocked, Blocks
  <2>3. Cardinality(Blocked \ {w}) =
          IF w \in Blocked THEN Cardinality(Blocked) - 1 ELSE Cardinality(Blocked)
    BY <1>0, FS_RemoveElement
  <2>4. Blocks(there) = 0 /\ Blocks(pc[w]) \in {0, 1}
    BY <1>3 DEF Blocks
  <2> QED
    BY <1>0, <2>1, <2>2, <2>3, <2>4
<1> QED
  BY <1>2, <1>3

\* A step of a worker: the clock agrees with where it goes.
LEMMA WorkerMoves ==
  ASSUME CountInv, NEW w \in Workers, NEW there \in Places, Goes(w, there),
         running \in {w, Nobody}, running' \in {w, Nobody}, there \in InStretch => running' = w,
         Parks(clock'), clock'.blocked = clock.blocked + Blocks(there) - Blocks(pc[w]),
         running' = w => w \notin Asleep(clock'.timers)
  PROVE  CountInv'
<1>1. /\ pc' \in [Workers -> Places] /\ pc'[w] = there
      /\ \A v \in Workers : v # w => pc'[v] = pc[v]
  BY DEF CountInv, Goes
<1>2. clock'.blocked = Cardinality(Blocked')
  BY BlockedChange DEF CountInv
<1>3. Nobody \notin Workers
  BY SimulationAssumption
<1>4. \A v \in Workers : pc'[v] \in InStretch => running' = v
  BY <1>1, <1>3 DEF CountInv
<1>5. \A v \in Asleep(clock'.timers) : running' # v
  BY <1>3 DEF Asleep
<1> QED
  BY <1>1, <1>2, <1>4, <1>5 DEF CountInv

\* A step of the loop that is no worker's.
LEMMA NobodyMoves ==
  ASSUME CountInv, UNCHANGED <<running, pc>>, running = Nobody,
         Parks(clock'), clock'.blocked = clock.blocked
  PROVE  CountInv'
<1>1. \A v \in Asleep(clock'.timers) : running' # v
  BY SimulationAssumption DEF Asleep
<1> QED
  BY <1>1 DEF CountInv, Blocked

\* What returning a lease, waking and arming do to the clock.
LEMMA PoolFacts ==
  ASSUME NEW c, Clock(c), NEW p
  PROVE  /\ Same(c, Wakes(p, c)) /\ Same(c, Starts(p, c))
         /\ \A e, ok : Same(c, ReturnedLoop(p, e, ok, c))
<1>1. ASSUME NEW q, NEW d, Clock(d)
      PROVE  Same(d, Wakes(q, d)) /\ Same(d, Starts(q, d))
  <2>1. \A x : Same(d, [d EXCEPT !.ready = x])
    BY <1>1, ReadyFacts
  <2>2. Same(d, d)
    BY <1>1 DEF Same
  <2> QED
    BY <2>1, <2>2 DEF Wakes, Starts
<1>2. ASSUME NEW e, NEW ok
      PROVE  Same(c, ReturnedLoop(p, e, ok, c))
  <2>1. PICK q : ReturnedLoop(p, e, ok, c) = Starts(q, Wakes(q, c))
    BY DEF ReturnedLoop
  <2>2. Same(c, Wakes(q, c)) /\ Clock(Wakes(q, c))
    BY <1>1 DEF Same
  <2>3. Same(Wakes(q, c), Starts(q, Wakes(q, c)))
    BY <1>1, <2>2
  <2> QED
    BY <2>1, <2>2, <2>3, SameTwice
<1> QED
  BY <1>1, <1>2

LEMMA PoppedFacts ==
  ASSUME Parks(clock)
  PROVE  Parks(Popped) /\ Same(clock, Popped)
<1>1. Clock(clock)
  BY DEF Parks
<1>2. Same(clock, Popped)
  BY <1>1, ReadyFacts DEF Popped
<1> QED
  BY <1>1, <1>2, SameFacts

LEMMA RunsSleep == \A w \in Workers : Runs(w) \in Sleepers
BY DEF Sleepers

\* A worker's synchronous stretch.
LEMMA StretchCounts ==
  ASSUME CountInv, NEW w \in Workers, Stretch(w)
  PROVE  CountInv'
<1>0. /\ Parks(clock) /\ Clock(clock) /\ clock.blocked \in Int
      /\ \A x : Same(clock, [clock EXCEPT !.ready = x])
  <2>1. Parks(clock) /\ Clock(clock)
    BY DEF CountInv, Parks
  <2> QED
    BY <2>1, ReadyFacts DEF Clock
<1>1. running = w /\ pc[w] \in Places
  BY DEF Stretch, Claim, Ends, Enter, Acquire, WaitSlot, Nap, Unavailable, Refuse, Admit,
         Succeed, Fail, Retry, GiveUp, At, CountInv
<1>2. w \notin Asleep(clock.timers) /\ \A v \in Asleep(clock.timers) : Runs(v) # Runs(w)
  <2>1. w \notin Asleep(clock.timers)
    BY <1>1 DEF CountInv
  <2> QED
    BY <2>1, NamesApart DEF Asleep
<1>3. CASE Claim(w) \/ GiveUp(w)
  <2>1. \E there \in InStretch \ InAcquire :
          /\ Goes(w, there) /\ running' = w /\ clock' = clock /\ pc[w] \notin InAcquire
    BY <1>1, <1>3 DEF Claim, GiveUp, At, InStretch, InAcquire
  <2> QED
    BY <1>0, <1>1, <1>2, <2>1, WorkerMoves DEF Places, Blocks
<1>4. CASE Ends(w)
  <2>1. /\ Goes(w, "done") /\ running' = Nobody /\ Same(clock, clock') /\ pc[w] = "claim"
    BY <1>0, <1>4 DEF Ends, Awaits, At
  <2>2. Parks(clock') /\ clock'.blocked = clock.blocked
    BY <1>0, <2>1, SameFacts DEF Same
  <2>3. Blocks("done") = 0 /\ Blocks("claim") = 0 /\ "done" \in Places \ InStretch
    BY DEF Blocks, InAcquire, Places, InStretch
  <2> QED
    BY <1>0, <1>1, <2>1, <2>2, <2>3, WorkerMoves, SimulationAssumption
<1>5. CASE Enter(w)
  <2>1. /\ Goes(w, "acquire") /\ running' = w /\ clock' = EnterBlocked(clock)
        /\ pc[w] = "enter"
    BY <1>1, <1>5 DEF Enter, At
  <2>2. /\ Parks(clock') /\ clock'.blocked = clock.blocked + 1
        /\ clock'.timers = clock.timers
    BY <1>0, <2>1, BlockedFacts
  <2>3. Blocks("acquire") = 1 /\ Blocks("enter") = 0 /\ "acquire" \in Places
    BY DEF Blocks, InAcquire, Places, InStretch
  <2> QED
    BY <1>0, <1>1, <1>2, <2>1, <2>2, <2>3, WorkerMoves
<1>6. CASE Acquire(w) \/ Unavailable(w)
  <2>1. PICK there \in {"perform", "failed"} :
          /\ Goes(w, there) /\ running' = w /\ clock' = LeaveBlocked(clock)
          /\ pc[w] = "acquire"
    BY <1>1, <1>6 DEF Acquire, Unavailable, At
  <2>2. /\ Parks(clock') /\ clock'.blocked = clock.blocked - 1
        /\ clock'.timers = clock.timers
    BY <1>0, <2>1, BlockedFacts
  <2>3. Blocks("acquire") = 1 /\ Blocks(there) = 0 /\ there \in Places
    BY <2>1 DEF Blocks, InAcquire, Places, InStretch
  <2> QED
    BY <1>0, <1>1, <1>2, <2>1, <2>2, <2>3, WorkerMoves
<1>7. CASE WaitSlot(w)
  <2>1. Goes(w, "wait") /\ running' = Nobody /\ pc[w] = "acquire"
    BY <1>7 DEF WaitSlot, Awaits, At
  <2>2. Same(clock, clock')
    <3>1. Same(clock, clock) /\ \A p : Same(clock, Starts(p, clock))
      BY <1>0, PoolFacts DEF Same
    <3> QED
      BY <1>7, <3>1 DEF WaitSlot
  <2>3. Parks(clock') /\ clock'.blocked = clock.blocked
    BY <1>0, <2>2, SameFacts DEF Same
  <2>4. Blocks("acquire") = 1 /\ Blocks("wait") = 1 /\ "wait" \in Places \ InStretch
    BY DEF Blocks, InAcquire, Places, InStretch
  <2> QED
    BY <1>0, <1>1, <2>1, <2>3, <2>4, WorkerMoves, SimulationAssumption
<1>8. CASE Nap(w) \/ Admit(w) \/ Retry(w)
  <2>1. PICK there \in {"nap", "call", "retry"} :
          /\ Goes(w, there) /\ running' = Nobody
          /\ \E d : clock' = Sleep(clock, Runs(w), d)
          /\ \/ there = "nap" /\ pc[w] = "acquire"
             \/ there # "nap" /\ pc[w] \in {"perform", "failed"}
    BY <1>8 DEF Nap, Admit, Retry, Awaits, At
  <2>2. Parks(clock') /\ clock'.blocked = clock.blocked
    BY <1>0, <1>2, <2>1, SleepFacts, RunsSleep
  <2>3. Blocks(there) = Blocks(pc[w]) /\ Blocks(there) \in Int /\ there \in Places \ InStretch
    BY <2>1 DEF Blocks, InAcquire, Places, InStretch
  <2> QED
    BY <1>0, <1>1, <2>1, <2>2, <2>3, WorkerMoves, SimulationAssumption
<1>9. CASE Refuse(w) \/ Succeed(w) \/ Fail(w)
  <2>1. PICK there \in {"failed", "claim", "enter"} :
          /\ Goes(w, there) /\ running' = w /\ pc[w] \in {"perform", "answer"}
          /\ \E ok : clock' = ReturnedLoop(pool, lease[w], ok, clock)
    BY <1>1, <1>9 DEF Refuse, Succeed, Fail, Answered, At
  <2>2. Same(clock, clock')
    BY <1>0, <2>1, PoolFacts
  <2>3. Parks(clock') /\ clock'.blocked = clock.blocked /\ clock'.timers = clock.timers
    BY <1>0, <2>2, SameFacts DEF Same
  <2>4. Blocks(there) = 0 /\ Blocks(pc[w]) = 0 /\ there \in Places
    BY <2>1 DEF Blocks, InAcquire, Places, InStretch
  <2> QED
    BY <1>0, <1>1, <1>2, <2>1, <2>3, <2>4, WorkerMoves
<1> QED
  BY <1>3, <1>4, <1>5, <1>6, <1>7, <1>8, <1>9 DEF Stretch

\* A worker's await comes to its end.
LEMMA ResumeCounts ==
  ASSUME CountInv, NEW w \in Workers, Resume(w) \/ Unwind(w)
  PROVE  CountInv'
<1>0. /\ Parks(clock) /\ Parks(Popped) /\ Same(clock, Popped) /\ clock.blocked \in Int
      /\ running = Nobody /\ Nobody \notin Workers
  <2>1. Parks(clock) /\ clock.blocked \in Int
    BY DEF CountInv, Parks, Clock
  <2>2. running = Nobody
    BY DEF Resume, Unwind, Loop
  <2> QED
    BY <2>1, <2>2, PoppedFacts, SimulationAssumption
<1>1. pc[w] \in Places \ InStretch
  BY <1>0 DEF CountInv
<1>2. PICK c : c = SleepEnds(Popped, Runs(w))
  OBVIOUS
<1>3. Parks(c) /\ Clock(c) /\ c.blocked = clock.blocked /\ w \notin Asleep(c.timers)
  <2>1. /\ Parks(c) /\ c.blocked = Popped.blocked
        /\ Asleep(c.timers) = Asleep(Popped.timers) \ {v \in Workers : Runs(v) = Runs(w)}
    BY <1>0, <1>2, SleepEndsFacts, RunsSleep
  <2> QED
    BY <1>0, <2>1 DEF Same, Parks
<1>4. CASE Resume(w)
  <2>1. PICK there : there = After[pc[w]]
    OBVIOUS
  <2>2. Goes(w, there) /\ running' = w /\ clock' = c /\ pc[w] \in DOMAIN After
    BY <1>2, <1>4, <2>1 DEF Resume
  <2>3. /\ there \in Places /\ Blocks(there) = Blocks(pc[w]) /\ Blocks(there) \in Int
    <3>1. pc[w] \in {"start", "wait", "nap", "call", "retry"}
      BY <2>2 DEF After
    <3> QED
      BY <2>1, <3>1 DEF After, Blocks, InAcquire, Places, InStretch
  <2> QED
    BY <1>0, <1>3, <2>2, <2>3, WorkerMoves
<1>5. CASE Unwind(w)
  <2>1. PICK left : /\ left = CASE pc[w] \in {"wait", "nap"} -> LeaveBlocked(c)
                                [] pc[w] = "call" -> ReturnedLoop(pool, lease[w], FALSE, c)
                                [] OTHER -> c
                    /\ clock' = [left EXCEPT !.ready = Append(@, Gone(w))]
    BY <1>2, <1>5 DEF Unwind
  <2>2. Goes(w, "done") /\ running' = Nobody
    BY <1>0, <1>5 DEF Unwind
  <2>3. Parks(left) /\ left.blocked = clock.blocked - Blocks(pc[w])
    <3>1. CASE pc[w] \in {"wait", "nap"}
      BY <1>3, <2>1, <3>1, BlockedFacts DEF Blocks, InAcquire
    <3>2. CASE pc[w] = "call"
      <4>1. Same(c, left)
        BY <1>3, <2>1, <3>2, PoolFacts
      <4> QED
        BY <1>0, <1>3, <3>2, <4>1, SameFacts DEF Same, Blocks, InAcquire
    <3>3. CASE pc[w] \notin {"wait", "nap", "call"}
      <4>1. left = c /\ pc[w] \notin InAcquire
        BY <1>1, <2>1, <3>3 DEF InAcquire, InStretch
      <4> QED
        BY <1>0, <1>3, <4>1 DEF Blocks
    <3> QED
      BY <3>1, <3>2, <3>3
  <2>4. Same(left, clock') /\ Clock(left)
    BY <2>1, <2>3, ReadyFacts DEF Parks
  <2>5. Parks(clock') /\ clock'.blocked = clock.blocked - Blocks(pc[w])
    BY <2>3, <2>4, SameFacts DEF Same
  <2>6. Blocks("done") = 0 /\ "done" \in Places \ InStretch /\ Blocks(pc[w]) \in Int
    BY DEF Blocks, InAcquire, Places, InStretch
  <2>7. clock'.blocked = clock.blocked + Blocks("done") - Blocks(pc[w])
    BY <1>0, <2>5, <2>6
  <2> QED
    BY <1>0, <2>2, <2>5, <2>6, <2>7, WorkerMoves
<1> QED
  BY <1>4, <1>5

\* The rest of the loop, and what happens outside of it.
LEMMA LoopCounts ==
  ASSUME CountInv,
         \/ \E w \in Workers : RemoveWorker(w)
         \/ ProbeAgain \/ ProbeAdvances \/ NotifierSleeps \/ NotifierTells \/ Cancel
  PROVE  CountInv'
<1>0. /\ Parks(clock) /\ Clock(clock) /\ Parks(Popped) /\ Clock(Popped) /\ Same(clock, Popped)
      /\ running = Nobody /\ UNCHANGED <<running, pc>>
  <2>1. Parks(clock)
    BY DEF CountInv
  <2>2. running = Nobody /\ UNCHANGED <<running, pc>>
    BY DEF RemoveWorker, ProbeAgain, ProbeAdvances, NotifierSleeps, NotifierTells, Cancel, Loop
  <2> QED
    BY <2>1, <2>2, PoppedFacts DEF Parks
<1> SUFFICES Parks(clock') /\ clock'.blocked = clock.blocked
  BY <1>0, NobodyMoves
<1>1. ASSUME Same(Popped, clock')
      PROVE  Parks(clock') /\ clock'.blocked = clock.blocked
  BY <1>0, <1>1, SameFacts DEF Same
<1>2. ASSUME NEW w \in Workers, RemoveWorker(w)
      PROVE  Parks(clock') /\ clock'.blocked = clock.blocked
  <2>1. PICK x : x = [Popped EXCEPT !.workers = @ \ {w}]
    OBVIOUS
  <2>2. Same(Popped, x) /\ Clock(x)
    BY <1>0, <2>1, ReadyFacts DEF Same
  <2>3. clock' = Activity(x)
    BY <1>2, <2>1 DEF RemoveWorker
  <2> QED
    BY <1>1, <2>2, <2>3, ActivityFacts, SameTwice
<1>3. CASE ProbeAgain
  <2>1. PICK c : c = [Popped EXCEPT !.armed = FALSE]
    OBVIOUS
  <2>2. Same(Popped, c) /\ Clock(c)
    BY <1>0, <2>1, ReadyFacts DEF Same
  <2>3. Same(c, Activity(c)) /\ Clock(Activity(c))
    BY <2>2, ActivityFacts DEF Same
  <2>4. /\ \A q : Same(Activity(c), [Activity(c) EXCEPT !.quiet = q])
        /\ \A q : Same(c, [c EXCEPT !.quiet = q])
    BY <2>2, <2>3, ReadyFacts
  <2>5. \/ \E q : clock' = [Activity(c) EXCEPT !.quiet = q]
        \/ \E q : clock' = [c EXCEPT !.quiet = q]
    BY <1>3, <2>1 DEF ProbeAgain
  <2> QED
    BY <1>1, <2>2, <2>3, <2>4, <2>5, SameTwice
<1>4. CASE ProbeAdvances
  <2>1. PICK c : c = [Popped EXCEPT !.armed = FALSE]
    OBVIOUS
  <2>2. Same(Popped, c) /\ Parks(c)
    BY <1>0, <2>1, ReadyFacts, SameFacts
  <2>3. clock' = Advance(c)
    BY <1>4, <2>1 DEF ProbeAdvances
  <2> QED
    BY <1>0, <2>2, <2>3, AdvanceFacts DEF Same
<1>5. CASE NotifierSleeps
  <2>1. \A w \in Asleep(Popped.timers) : Runs(w) # Notifier
    BY NamesApart DEF Asleep
  <2>2. Notifier \in Sleepers
    BY DEF Sleepers
  <2> QED
    BY <1>0, <1>5, <2>1, <2>2, SleepFacts DEF NotifierSleeps, Same
<1>6. CASE NotifierTells
  <2>1. PICK c, p : c = SleepEnds(Popped, Notifier) /\ clock' = Starts(p, Wakes(p, c))
    BY <1>6 DEF NotifierTells
  <2>2. Parks(c) /\ Clock(c) /\ c.blocked = clock.blocked
    <3>1. Notifier \in Sleepers
      BY DEF Sleepers
    <3> QED
      BY <1>0, <2>1, <3>1, SleepEndsFacts DEF Same, Parks
  <2>3. Same(c, Wakes(p, c)) /\ Clock(Wakes(p, c))
    BY <2>2, PoolFacts DEF Same
  <2>4. Same(c, clock')
    BY <2>1, <2>3, PoolFacts, SameTwice
  <2> QED
    BY <2>2, <2>4, SameFacts DEF Same
<1>7. CASE Cancel
  <2>1. \A x : Same(clock, [clock EXCEPT !.ready = x])
    BY <1>0, ReadyFacts
  <2>2. Same(clock, clock')
    BY <1>7, <2>1 DEF Cancel
  <2> QED
    BY <1>0, <2>2, SameFacts DEF Same
<1> QED
  BY <1>2, <1>3, <1>4, <1>5, <1>6, <1>7

LEMMA CountInit == Init => CountInv
<1> SUFFICES ASSUME Init
             PROVE  CountInv
  OBVIOUS
<1>1. /\ clock.timers = <<>> /\ clock.parked = 0 /\ clock.blocked = 0
      /\ clock = [f \in Fields |-> clock[f]]
  BY DEF Init, Fields
<1>2. Asleep(clock.timers) = {} /\ Once(clock.timers)
  BY <1>1 DEF Asleep, Once
<1>3. \E L : clock.timers \in Seq(Timer(L))
  BY <1>1
<1>4. Blocked = {}
  BY DEF Init, Blocked, InAcquire
<1>5. Parks(clock) /\ clock.blocked = Cardinality(Blocked)
  BY <1>1, <1>2, <1>3, <1>4, FS_EmptySet DEF Parks, Clock
<1>6. pc \in [Workers -> Places] /\ \A w \in Workers : pc[w] \notin InStretch
  BY DEF Init, Places, InStretch
<1>7. running \in Workers \cup {Nobody}
  BY DEF Init
<1> QED
  BY <1>2, <1>5, <1>6, <1>7 DEF CountInv

LEMMA CountStep == CountInv /\ [Next]_vars => CountInv'
<1> SUFFICES ASSUME CountInv, [Next]_vars
             PROVE  CountInv'
  OBVIOUS
<1>1. CASE UNCHANGED vars
  BY <1>1 DEF vars, CountInv, Blocked
<1>2. CASE Finished
  BY <1>1, <1>2 DEF Finished
<1>3. CASE Supervise \/ WallBudget
  BY <1>3, LoopCounts DEF Supervise, WallBudget
<1>4. CASE LoopStep
  BY <1>4, StretchCounts, ResumeCounts, LoopCounts DEF LoopStep
<1> QED
  BY <1>1, <1>2, <1>3, <1>4 DEF Next

LEMMA CountsTimers == CountInv => CountsAgree
<1> SUFFICES ASSUME CountInv
             PROVE  CountsAgree
  OBVIOUS
<1>1. PICK L : clock.timers \in Seq(Timer(L))
  BY DEF CountInv, Parks, Clock
<1>2. Cardinality({i \in DOMAIN clock.timers : Counted(clock.timers[i].who) = 1})
        = Cardinality(Asleep(clock.timers))
  BY <1>1, TimersAreWorkers DEF CountInv, Parks
<1> QED
  BY <1>2 DEF CountsAgree, CountInv, Parks, Blocked, InAcquire

\* However a sleep or an acquire ends, by its deadline, by its turn or by the run's
\* cancellation, and in whatever order driver and sleeper see it, the clock's `_parked`
\* is the number of workers with a pending timer and `_blocked` that of the workers in
\* an acquire: neither count leaks, and time cannot move early or stand still for it.
THEOREM CountsStayRight == Spec => []CountsAgree
<1>1. Init => CountInv
  BY CountInit
<1>2. CountInv /\ [Next]_vars => CountInv'
  BY CountStep
<1>3. CountInv => CountsAgree
  BY CountsTimers
<1> QED
  BY <1>1, <1>2, <1>3, PTL DEF Spec

-----------------------------------------------------------------------------
(* Elements chosen by their indices. *)

\* A set of naturals has a least element.
LEMMA LeastNatural ==
  ASSUME NEW A, A \subseteq Nat, A # {}
  PROVE  \E m \in A : \A x \in A : m <= x
<1>1. \E m \in A : \A x \in A : ~ (<<x, m>> \in OpToRel(<, Nat))
  BY NatLessThanWellFounded, WFMin, Zenon
<1>2. PICK m \in A : \A x \in A : ~ (<<x, m>> \in OpToRel(<, Nat))
  BY <1>1
<1>3. \A x \in A : ~ (x < m)
  <2> SUFFICES ASSUME NEW x \in A, x < m
               PROVE  FALSE
    OBVIOUS
  <2>1. <<x, m>> \in OpToRel(<, Nat)
    BY DEF OpToRel
  <2> QED
    BY <1>2, <2>1
<1>4. \A x \in A : x \in Nat
  OBVIOUS
<1>5. \A x \in A : m <= x
  BY <1>3, <1>4
<1> QED
  BY <1>5

\* How many chosen indices come before i.
Below(I, i) == {j \in I : j < i}

\* Counting the chosen indices up to one of them and past it.
LEMMA BelowFinite ==
  ASSUME NEW I \in SUBSET Nat, IsFiniteSet(I), NEW i \in Nat
  PROVE  /\ IsFiniteSet(Below(I, i)) /\ Cardinality(Below(I, i)) \in Nat
         /\ i \in I => Cardinality(Below(I, i)) < Cardinality(I)
         /\ i \in I => Cardinality(Below(I, i + 1)) = Cardinality(Below(I, i)) + 1
         /\ i \notin I => Below(I, i + 1) = Below(I, i)
         /\ \A k \in Nat : i <= k => Cardinality(Below(I, i)) <= Cardinality(Below(I, k))
<1>0. /\ \A j \in I : j \in Int
      /\ \A j, k : j \in Below(I, k) <=> j \in I /\ j < k
  BY DEF Below
<1>1. \A k \in Nat : IsFiniteSet(Below(I, k)) /\ Cardinality(Below(I, k)) \in Nat
  <2>1. \A k \in Nat : Below(I, k) \subseteq I
    BY DEF Below
  <2> QED
    BY <2>1, FS_Subset, FS_CardinalityType
<1>2. ASSUME i \in I
      PROVE  Cardinality(Below(I, i)) < Cardinality(I)
  <2>1. Below(I, i) \subseteq I /\ Below(I, i) # I
    BY <1>0, <1>2
  <2> QED
    BY <2>1, FS_Subset, FS_CardinalityType
<1>3. ASSUME i \in I
      PROVE  Cardinality(Below(I, i + 1)) = Cardinality(Below(I, i)) + 1
  <2>1. Below(I, i + 1) = Below(I, i) \cup {i} /\ i \notin Below(I, i)
    <3>1. \A j \in I : (j < i + 1 <=> j < i \/ j = i) /\ ~(i < i)
      BY <1>0
    <3> QED
      BY <1>3, <3>1, Zenon DEF Below
  <2> QED
    BY <1>1, <2>1, FS_AddElement
<1>4. i \notin I => Below(I, i + 1) = Below(I, i)
  <2>1. \A j \in I : j # i => (j < i + 1 <=> j < i)
    BY <1>0
  <2>2. i \notin I => \A j \in I : j < i + 1 <=> j < i
    BY <2>1, Zenon
  <2> QED
    BY <2>2, Zenon DEF Below
<1>5. ASSUME NEW k \in Nat, i <= k
      PROVE  Cardinality(Below(I, i)) <= Cardinality(Below(I, k))
  <2>1. Below(I, i) \subseteq Below(I, k)
    <3>1. \A j \in I : j < i => j < k
      BY <1>0, <1>5
    <3> QED
      BY <3>1, Zenon DEF Below
  <2> QED
    BY <1>1, <2>1, FS_Subset
<1> QED
  BY <1>1, <1>2, <1>3, <1>4, <1>5

\* Every position of the shorter sequence has its index, and every index its position.
LEMMA ThoseIndices ==
  ASSUME NEW n \in Nat, NEW I \in SUBSET (1 .. n)
  PROVE  /\ IsFiniteSet(I) /\ I \in SUBSET Nat
         /\ \A k \in 1 .. Cardinality(I) : \E i \in I : Cardinality(Below(I, i)) = k - 1
         /\ \A i, j \in I : Cardinality(Below(I, i)) = Cardinality(Below(I, j)) => i = j
<1>0. /\ IsFiniteSet(I) /\ I \in SUBSET Nat /\ Cardinality(I) \in Nat
      /\ \A j \in I : j \in Nat /\ 1 <= j /\ j < n + 1
  <2>1. I \subseteq Nat /\ I \subseteq 1 .. n
    OBVIOUS
  <2>2. IsFiniteSet(1 .. n)
    BY FS_Interval
  <2>3. IsFiniteSet(I)
    BY <2>1, <2>2, FS_Subset
  <2> QED
    BY <2>1, <2>3, FS_CardinalityType
<1>1. ASSUME NEW k \in 1 .. Cardinality(I)
      PROVE  \E i \in I : Cardinality(Below(I, i)) = k - 1
  <2>1. PICK A : A = {m \in Nat : Cardinality(Below(I, m)) >= k}
    OBVIOUS
  <2>2. A # {}
    <3>1. \A j \in I : j < n + 1
      BY <1>0
    <3>2. Below(I, n + 1) = I
      BY <3>1, Zenon DEF Below
    <3>3. Cardinality(I) >= k /\ n + 1 \in Nat
      BY <1>0
    <3> QED
      BY <2>1, <3>2, <3>3
  <2>3. PICK m \in A : \A x \in A : m <= x
    BY <2>1, <2>2, LeastNatural
  <2>4. m \in Nat /\ m # 0
    <3>1. \A j \in I : ~(j < 0)
      BY <1>0
    <3>2. Below(I, 0) = {}
      BY <3>1, Zenon DEF Below
    <3> QED
      BY <1>0, <2>1, <2>3, <3>2, FS_EmptySet
  <2>5. PICK i \in Nat : m = i + 1
    BY <2>4, m - 1 \in Nat, m = (m - 1) + 1
  <2>6. ~(Cardinality(Below(I, i)) >= k) /\ Cardinality(Below(I, i)) \in Nat
    BY <1>0, <2>1, <2>3, <2>5, BelowFinite
  <2>7. Cardinality(Below(I, i + 1)) >= k
    BY <2>1, <2>3, <2>5
  <2>8. i \in I /\ Cardinality(Below(I, i + 1)) = Cardinality(Below(I, i)) + 1
    BY <1>0, <2>5, <2>6, <2>7, BelowFinite
  <2> QED
    BY <1>0, <2>6, <2>7, <2>8
<1>2. ASSUME NEW i \in I, NEW j \in I, i < j
      PROVE  Cardinality(Below(I, i)) # Cardinality(Below(I, j))
  <2>1. Cardinality(Below(I, i + 1)) = Cardinality(Below(I, i)) + 1 /\ i + 1 \in Nat /\ i + 1 <= j
    BY <1>0, <1>2, BelowFinite
  <2>2. Cardinality(Below(I, i + 1)) <= Cardinality(Below(I, j))
    BY <1>0, <2>1, BelowFinite
  <2> QED
    BY <1>0, <2>1, <2>2, BelowFinite
<1>3. \A i, j \in I : Cardinality(Below(I, i)) = Cardinality(Below(I, j)) => i = j
  <2> SUFFICES ASSUME NEW i \in I, NEW j \in I,
                      Cardinality(Below(I, i)) = Cardinality(Below(I, j)), i # j
               PROVE  FALSE
    OBVIOUS
  <2>1. i < j \/ j < i
    BY <1>0
  <2> QED
    BY <1>2, <2>1
<1> QED
  BY <1>0, <1>1, <1>3

\* Those(s, I) holds the elements of s at I, each once.
LEMMA ThoseFacts ==
  ASSUME NEW S, NEW s \in Seq(S), NEW I \in SUBSET DOMAIN s, NEW r, r = Those(s, I)
  PROVE  /\ r \in Seq(S)
         /\ \E at \in [DOMAIN r -> I] :
              /\ \A k \in DOMAIN r : r[k] = s[at[k]]
              /\ \A k, l \in DOMAIN r : at[k] = at[l] => k = l
              /\ \A i \in I : \E k \in DOMAIN r : at[k] = i
<1>0. Len(s) \in Nat /\ DOMAIN s = 1 .. Len(s)
  OBVIOUS
<1>1. /\ IsFiniteSet(I) /\ I \in SUBSET Nat
      /\ \A k \in 1 .. Cardinality(I) : \E i \in I : Cardinality(Below(I, i)) = k - 1
      /\ \A i, j \in I : Cardinality(Below(I, i)) = Cardinality(Below(I, j)) => i = j
  BY <1>0, ThoseIndices
<1>2. PICK n \in Nat : n = Cardinality(I)
  BY <1>1, FS_CardinalityType
<1>3. PICK at : at = [k \in 1 .. n |-> CHOOSE i \in I : Cardinality(Below(I, i)) = k - 1]
  OBVIOUS
<1>4. \A k \in 1 .. n : at[k] \in I /\ Cardinality(Below(I, at[k])) = k - 1
  BY <1>1, <1>2, <1>3
<1>5. r = [k \in 1 .. n |-> s[at[k]]]
  <2>1. r = [k \in 1 .. n |-> s[CHOOSE i \in I : Cardinality(Below(I, i)) = k - 1]]
    BY <1>2, Zenon DEF Those, Below
  <2>2. \A k \in 1 .. n : at[k] = CHOOSE i \in I : Cardinality(Below(I, i)) = k - 1
    BY <1>3, Zenon
  <2> QED
    BY <2>1, <2>2, Zenon
<1>6. r \in Seq(S) /\ DOMAIN r = 1 .. n
  <2>1. \A k \in 1 .. n : s[at[k]] \in S
    BY <1>4
  <2> QED
    BY <1>2, <1>5, <2>1
<1>7. \A k, l \in DOMAIN r : at[k] = at[l] => k = l
  BY <1>4, <1>6
<1>8. ASSUME NEW i \in I
      PROVE  \E k \in DOMAIN r : at[k] = i
  <2>1. PICK k : k = Cardinality(Below(I, i)) + 1
    OBVIOUS
  <2>2. k \in 1 .. n /\ k - 1 = Cardinality(Below(I, i))
    <3>1. Cardinality(Below(I, i)) \in Nat /\ Cardinality(Below(I, i)) < n
      BY <1>1, <1>2, BelowFinite
    <3> QED
      BY <1>2, <2>1, <3>1
  <2>3. at[k] = i
    BY <1>1, <1>4, <2>2
  <2> QED
    BY <1>6, <2>2, <2>3
<1>9. at \in [DOMAIN r -> I]
  BY <1>3, <1>4, <1>6
<1> QED
  BY <1>5, <1>6, <1>7, <1>8, <1>9

\* At most one place of s holds x.
Single(s, x) == \A i, j \in DOMAIN s : s[i] = x /\ s[j] = x => i = j

\* What Range holds, position by position.
LEMMA InRange ==
  ASSUME NEW S, NEW s \in Seq(S)
  PROVE  /\ \A x : x \in Range(s) <=> \E i \in DOMAIN s : s[i] = x
         /\ Range(s) \subseteq S
         /\ DOMAIN s = 1 .. Len(s) /\ Len(s) \in Nat
<1>1. \A x : x \in Range(s) <=> \E i \in DOMAIN s : s[i] = x
  BY Zenon DEF Range
<1>2. /\ DOMAIN s = 1 .. Len(s) /\ Len(s) \in Nat
      /\ \A i \in DOMAIN s : s[i] \in S
  OBVIOUS
<1> QED
  BY <1>1, <1>2

\* Choosing some elements keeps their sort, and what occurs once.
LEMMA Chosen ==
  ASSUME NEW S, NEW s \in Seq(S), NEW I \in SUBSET DOMAIN s, NEW r, r = Those(s, I)
  PROVE  /\ r \in Seq(S)
         /\ \A x : x \in Range(r) <=> \E i \in I : s[i] = x
         /\ \A x : Single(s, x) => Single(r, x)
<1>1. PICK at \in [DOMAIN r -> I] :
        /\ \A k \in DOMAIN r : r[k] = s[at[k]]
        /\ \A k, l \in DOMAIN r : at[k] = at[l] => k = l
        /\ \A i \in I : \E k \in DOMAIN r : at[k] = i
  BY ThoseFacts
<1>2. r \in Seq(S)
  BY ThoseFacts
<1>3. \A x : x \in Range(r) <=> \E i \in I : s[i] = x
  <2>1. \A x : x \in Range(r) <=> \E k \in DOMAIN r : r[k] = x
    BY <1>2, InRange
  <2>2. \A k \in DOMAIN r : at[k] \in I
    BY <1>1
  <2>3. ASSUME NEW x, x \in Range(r)
        PROVE  \E i \in I : s[i] = x
    <3>1. PICK k \in DOMAIN r : r[k] = x
      BY <2>1, <2>3
    <3> QED
      BY <1>1, <2>2, <3>1
  <2>4. ASSUME NEW i \in I
        PROVE  s[i] \in Range(r)
    <3>1. PICK k \in DOMAIN r : at[k] = i
      BY <1>1
    <3>2. r[k] = s[i]
      BY <1>1, <3>1
    <3> QED
      BY <2>1, <3>2
  <2> QED
    BY <2>3, <2>4
<1>4. ASSUME NEW x, Single(s, x)
      PROVE  Single(r, x)
  <2>1. \A k \in DOMAIN r : at[k] \in DOMAIN s
    BY <1>1
  <2> QED
    BY <1>1, <1>4, <2>1 DEF Single
<1> QED
  BY <1>2, <1>3, <1>4

\* A sequence of one element, and appending as concatenating.
LEMMA One ==
  ASSUME NEW S, NEW s \in Seq(S), NEW x \in S
  PROVE  /\ Append(s, x) = s \o <<x>> /\ <<x>> \in Seq(S)
         /\ \A y : y \in Range(<<x>>) <=> y = x
         /\ \A y : Single(<<x>>, y)
<1>1. Append(s, x) = s \o <<x>> /\ <<x>> \in Seq(S) /\ DOMAIN <<x>> = {1} /\ <<x>>[1] = x
  OBVIOUS
<1>2. \A y : y \in Range(<<x>>) <=> y = x
  BY <1>1, InRange
<1>3. \A y : Single(<<x>>, y)
  BY <1>1 DEF Single
<1> QED
  BY <1>1, <1>2, <1>3

\* r is s with b behind it.
Behind(r, s, b) ==
  /\ \A x : x \in Range(r) <=> x \in Range(s) \/ x \in Range(b)
  /\ \A x : Single(s, x) /\ x \notin Range(b) => Single(r, x)
  /\ \A x : Single(b, x) /\ x \notin Range(s) => Single(r, x)

\* Elements put behind those that are there.
LEMMA Added ==
  ASSUME NEW S, NEW s \in Seq(S), NEW b \in Seq(S), NEW r, r = s \o b
  PROVE  r \in Seq(S) /\ Behind(r, s, b)
<1>1. PICK m \in Nat, n \in Nat : m = Len(s) /\ n = Len(b)
  OBVIOUS
<1>2. /\ r \in Seq(S) /\ Len(r) = m + n
      /\ \A i \in 1 .. m : r[i] = s[i]
      /\ \A i \in m + 1 .. m + n : r[i] = b[i - m]
  BY <1>1, Joined
<1>3. DOMAIN r = 1 .. m + n /\ DOMAIN s = 1 .. m /\ DOMAIN b = 1 .. n
  BY <1>1, <1>2
<1>4. /\ \A i \in DOMAIN r : \/ i \in DOMAIN s /\ r[i] = s[i]
                            \/ (i > m /\ i - m \in DOMAIN b /\ r[i] = b[i - m])
      /\ \A i \in DOMAIN s : i \in DOMAIN r /\ r[i] = s[i]
      /\ \A i \in DOMAIN b : i + m \in DOMAIN r /\ r[i + m] = b[i]
  <2>1. \A i \in 1 .. m + n : i \in 1 .. m \/ (i > m /\ i \in m + 1 .. m + n /\ i - m \in 1 .. n)
    OBVIOUS
  <2>2. \A i \in 1 .. m : i \in 1 .. m + n
    OBVIOUS
  <2>3. \A i \in 1 .. n : i + m \in m + 1 .. m + n /\ i + m \in 1 .. m + n /\ (i + m) - m = i
    OBVIOUS
  <2>4. \A i \in 1 .. n : r[i + m] = b[i]
    BY <1>2, <2>3
  <2> QED
    BY <1>2, <1>3, <2>1, <2>2, <2>3, <2>4
<1>5. /\ \A x : x \in Range(r) <=> \E i \in DOMAIN r : r[i] = x
      /\ \A x : x \in Range(s) <=> \E i \in DOMAIN s : s[i] = x
      /\ \A x : x \in Range(b) <=> \E i \in DOMAIN b : b[i] = x
  BY Zenon DEF Range
<1>6. \A x : x \in Range(r) <=> x \in Range(s) \/ x \in Range(b)
  <2>1. ASSUME NEW i \in DOMAIN r
        PROVE  r[i] \in Range(s) \/ r[i] \in Range(b)
    BY <1>4, <1>5
  <2>2. ASSUME NEW i \in DOMAIN s
        PROVE  s[i] \in Range(r)
    BY <1>4, <1>5
  <2>3. ASSUME NEW i \in DOMAIN b
        PROVE  b[i] \in Range(r)
    BY <1>4, <1>5
  <2> QED
    BY <1>5, <2>1, <2>2, <2>3
<1>7. ASSUME NEW x, Single(s, x), x \notin Range(b)
      PROVE  Single(r, x)
  <2>1. \A i \in DOMAIN r : r[i] = x => i \in DOMAIN s /\ s[i] = x
    BY <1>4, <1>5, <1>7
  <2> QED
    BY <1>7, <2>1 DEF Single
<1>8. ASSUME NEW x, Single(b, x), x \notin Range(s)
      PROVE  Single(r, x)
  <2> SUFFICES ASSUME NEW i \in DOMAIN r, NEW j \in DOMAIN r, r[i] = x, r[j] = x
               PROVE  i = j
    BY DEF Single
  <2>1. /\ i - m \in DOMAIN b /\ b[i - m] = x
        /\ j - m \in DOMAIN b /\ b[j - m] = x
    BY <1>4, <1>5, <1>8, Zenon
  <2>2. i - m = j - m
    BY <1>8, <2>1, Zenon DEF Single
  <2>3. i \in Int /\ j \in Int
    BY <1>3
  <2> QED
    BY <2>2, <2>3
<1> QED
  BY <1>2, <1>6, <1>7, <1>8 DEF Behind

\* s is r with h before it.
Before(r, s, h) ==
  /\ \A x : x \in Range(s) <=> x = h \/ x \in Range(r)
  /\ \A x : Single(s, x) => Single(r, x) /\ (x = h => x \notin Range(r))

\* The head taken off.
LEMMA Taken ==
  ASSUME NEW S, NEW s \in Seq(S), s # <<>>, NEW r, r = Tail(s), NEW h, h = Head(s)
  PROVE  /\ r \in Seq(S) /\ h \in S /\ Len(r) = Len(s) - 1
         /\ \A i \in DOMAIN r : i + 1 \in DOMAIN s /\ r[i] = s[i + 1]
         /\ \A i \in DOMAIN s : i = 1 \/ (i - 1 \in DOMAIN r /\ r[i - 1] = s[i])
         /\ 1 \in DOMAIN s /\ s[1] = h
         /\ Before(r, s, h)
<1>1. PICK n \in Nat : n = Len(s) /\ n >= 1
  OBVIOUS
<1>2. /\ r \in Seq(S) /\ h \in S /\ Len(r) = n - 1 /\ DOMAIN s = 1 .. n /\ DOMAIN r = 1 .. n - 1
      /\ \A i \in 1 .. n - 1 : r[i] = s[i + 1]
      /\ s[1] = h
  BY <1>1
<1>3. /\ \A i \in DOMAIN r : i + 1 \in DOMAIN s /\ r[i] = s[i + 1] /\ i + 1 # 1
      /\ \A i \in DOMAIN s : i = 1 \/ (i - 1 \in DOMAIN r /\ r[i - 1] = s[i])
      /\ 1 \in DOMAIN s
  BY <1>1, <1>2
<1>4. /\ \A x : x \in Range(r) <=> \E i \in DOMAIN r : r[i] = x
      /\ \A x : x \in Range(s) <=> \E i \in DOMAIN s : s[i] = x
  BY Zenon DEF Range
<1>5. \A x : x \in Range(s) <=> x = h \/ x \in Range(r)
  <2>1. ASSUME NEW i \in DOMAIN s
        PROVE  s[i] = h \/ s[i] \in Range(r)
    BY <1>2, <1>3, <1>4
  <2>2. ASSUME NEW i \in DOMAIN r
        PROVE  r[i] \in Range(s)
    BY <1>3, <1>4
  <2>3. h \in Range(s)
    BY <1>2, <1>3, <1>4
  <2> QED
    BY <1>4, <2>1, <2>2, <2>3
<1>6. ASSUME NEW x, Single(s, x)
      PROVE  Single(r, x) /\ (x = h => x \notin Range(r))
  <2>1. x = h => x \notin Range(r)
    BY <1>2, <1>3, <1>4, <1>6 DEF Single
  <2>2. ASSUME NEW i \in DOMAIN r, NEW j \in DOMAIN r, r[i] = x, r[j] = x
        PROVE  i = j
    <3>1. i + 1 = j + 1
      BY <1>3, <1>6, <2>2, Zenon DEF Single
    <3> QED
      BY <1>2, <3>1
  <2> QED
    BY <2>1, <2>2 DEF Single
<1> QED
  BY <1>1, <1>2, <1>3, <1>5, <1>6 DEF Before

-----------------------------------------------------------------------------
(* The ready queue: the probe and the notifier are at one place each. *)

\* What can be queued.
Items == Sleepers \cup {Probe} \cup {Gone(w) : w \in Workers}

\* The notifier is asleep.
Naps(t) == \E i \in DOMAIN t : t[i].who = Notifier
\* It has one timer at most.
NapsOnce(t) == \A i, j \in DOMAIN t : t[i].who = Notifier /\ t[j].who = Notifier => i = j

\* No two kinds of callback are the same.
LEMMA ItemsApart ==
  /\ Probe \in Items /\ Notifier \in Items /\ Probe # Notifier
  /\ \A w \in Workers : /\ Runs(w) \in Items /\ Runs(w) # Probe /\ Runs(w) # Notifier
                        /\ Gone(w) \in Items /\ Gone(w) # Probe /\ Gone(w) # Notifier
                        /\ \A v \in Workers : Gone(w) # Runs(v)
  /\ Probe \notin Sleepers /\ Sleepers \subseteq Items
<1>1. /\ Probe # Notifier
      /\ \A w \in Workers : /\ Runs(w) # Probe /\ Runs(w) # Notifier
                            /\ Gone(w) # Probe /\ Gone(w) # Notifier
                            /\ \A v \in Workers : Gone(w) # Runs(v)
  BY DEF Probe, Notifier, Runs, Gone
<1> QED
  BY <1>1 DEF Items, Sleepers

\* A timer put in place, the notifier's only if it has none.
LEMMA NapAdded ==
  ASSUME NEW L, NEW t \in Seq(Timer(L)), NEW k \in 0 .. Len(t), NEW e \in Timer(L),
         NEW s, s = InsertAt(t, k + 1, e), NapsOnce(t), Naps(t) => e.who # Notifier
  PROVE  s \in Seq(Timer(L)) /\ NapsOnce(s) /\ (Naps(s) => Naps(t) \/ e.who = Notifier)
<1>1. PICK n \in Nat : n = Len(t) /\ k <= n /\ DOMAIN t = 1 .. n
  OBVIOUS
<1>2. /\ s \in Seq(Timer(L)) /\ Len(s) = n + 1 /\ s[k + 1] = e
      /\ \A i \in 1 .. k : s[i] = t[i]
      /\ \A i \in k + 2 .. n + 1 : s[i] = t[i - 1]
  <2>1. s \in Seq(Timer(L)) /\ Len(s) = Len(t) + 1 /\ s[k + 1] = e
    <3>1. e \in Timer(L) /\ s = InsertAt(t, k + 1, e)
      OBVIOUS
    <3> QED
      BY <3>1, Inserted
  <2>2. \A i \in 1 .. k : s[i] = t[i]
    BY Inserted
  <2>3. \A i \in k + 2 .. Len(t) + 1 : s[i] = t[i - 1]
    BY Inserted
  <2> QED
    BY <1>1, <2>1, <2>2, <2>3
<1>3. DOMAIN s = 1 .. n + 1
  BY <1>2
<1>4. \A i \in DOMAIN s :
        \/ i = k + 1 /\ s[i] = e
        \/ (\E x \in DOMAIN t : s[i] = t[x] /\ x = (IF i <= k THEN i ELSE i - 1) /\ i # k + 1)
  BY <1>1, <1>2, <1>3
<1>5. Naps(s) => Naps(t) \/ e.who = Notifier
  BY <1>4 DEF Naps
<1>6. NapsOnce(s)
  <2> SUFFICES ASSUME NEW i \in DOMAIN s, NEW j \in DOMAIN s,
                      s[i].who = Notifier, s[j].who = Notifier
               PROVE  i = j
    BY DEF NapsOnce
  <2>1. CASE e.who = Notifier
    BY <1>4, <2>1 DEF Naps
  <2>2. CASE e.who # Notifier
    <3>1. PICK x \in DOMAIN t : s[i] = t[x] /\ x = (IF i <= k THEN i ELSE i - 1) /\ i # k + 1
      BY <1>4, <2>2
    <3>2. PICK y \in DOMAIN t : s[j] = t[y] /\ y = (IF j <= k THEN j ELSE j - 1) /\ j # k + 1
      BY <1>4, <2>2
    <3>3. x = y
      BY <3>1, <3>2 DEF NapsOnce
    <3> QED
      BY <1>1, <1>3, <3>1, <3>2, <3>3
  <2> QED
    BY <2>1, <2>2
<1> QED
  BY <1>2, <1>5, <1>6

\* A timer taken out.
LEMMA NapRemoved ==
  ASSUME NEW L, NEW t \in Seq(Timer(L)), NEW k \in DOMAIN t, NEW s, s = RemoveAt(t, k), NapsOnce(t)
  PROVE  s \in Seq(Timer(L)) /\ NapsOnce(s) /\ (Naps(s) => Naps(t))
<1>1. PICK n \in Nat : n = Len(t) /\ k \in 1 .. n /\ DOMAIN t = 1 .. n
  OBVIOUS
<1>2. /\ s \in Seq(Timer(L)) /\ Len(s) = n - 1
      /\ \A i \in 1 .. k - 1 : s[i] = t[i]
      /\ \A i \in k .. n - 1 : s[i] = t[i + 1]
  BY <1>1, Removed
<1>3. DOMAIN s = 1 .. n - 1
  BY <1>1, <1>2
<1>4. \A i \in DOMAIN s : \E x \in DOMAIN t : s[i] = t[x] /\ x = (IF i < k THEN i ELSE i + 1)
  BY <1>1, <1>2, <1>3
<1>5. Naps(s) => Naps(t)
  BY <1>4 DEF Naps
<1>6. NapsOnce(s)
  <2> SUFFICES ASSUME NEW i \in DOMAIN s, NEW j \in DOMAIN s,
                      s[i].who = Notifier, s[j].who = Notifier
               PROVE  i = j
    BY DEF NapsOnce
  <2>1. PICK x \in DOMAIN t : s[i] = t[x] /\ x = (IF i < k THEN i ELSE i + 1)
    BY <1>4
  <2>2. PICK y \in DOMAIN t : s[j] = t[y] /\ y = (IF j < k THEN j ELSE j + 1)
    BY <1>4
  <2>3. x = y
    BY <2>1, <2>2 DEF NapsOnce
  <2> QED
    BY <1>1, <1>3, <2>1, <2>2, <2>3
<1> QED
  BY <1>2, <1>5, <1>6

\* The fields the order of the queue is about.
Shaped(c) ==
  /\ c = [f \in Fields |-> c[f]]
  /\ c.ready \in Seq(Items) /\ c.timers \in Seq(Timer(Int)) /\ c.quiet \in Nat

\* The probe is queued, once, exactly while the clock is armed.
ProbeOnce(c) ==
  Single(c.ready, Probe) /\ c.armed = IF Probe \in Range(c.ready) THEN TRUE ELSE FALSE

\* The notifier is at one place, in the queue or asleep, and fired only in the queue.
NotifierOnce(c) ==
  /\ Single(c.ready, Notifier) /\ NapsOnce(c.timers)
  /\ Notifier \in Range(c.ready) => ~Naps(c.timers)
  /\ Notifier \in c.fired => Notifier \in Range(c.ready)

\* What every step keeps of the clock.
Ordered(c) == Shaped(c) /\ ProbeOnce(c) /\ NotifierOnce(c)

\* The notifier lives: queued or asleep.
Present(c) == Notifier \in Range(c.ready) \/ Naps(c.timers)

\* What the counts, the set of workers and the time are does not matter to it.
LEMMA Counting ==
  ASSUME NEW c, Ordered(c), NEW n, NEW d,
         d \in {[c EXCEPT !.blocked = n], [c EXCEPT !.parked = n], [c EXCEPT !.workers = n],
               [c EXCEPT !.now = n]}
  PROVE  /\ Ordered(d) /\ d.quiet = c.quiet /\ d.fired = c.fired /\ (Present(d) => Present(c))
         /\ d.ready = c.ready /\ d.timers = c.timers
<1>1. /\ Shaped(d) /\ d.quiet = c.quiet /\ d.fired = c.fired /\ d.armed = c.armed
      /\ d.ready = c.ready /\ d.timers = c.timers
  BY DEF Ordered, Shaped, Fields
<1>2. ProbeOnce(d) /\ NotifierOnce(d) /\ (Present(d) => Present(c))
  BY <1>1, Zenon DEF Ordered, ProbeOnce, NotifierOnce, Present
<1> QED
  BY <1>1, <1>2 DEF Ordered

\* Callbacks queued behind the others, none of them the probe.
LEMMA Queued ==
  ASSUME NEW c, Ordered(c), NEW b \in Seq(Items), Probe \notin Range(b), Single(b, Notifier),
         Notifier \in Range(b) => ~Present(c), NEW d, d = [c EXCEPT !.ready = @ \o b]
  PROVE  /\ Ordered(d) /\ d.quiet = c.quiet /\ d.fired = c.fired /\ d.timers = c.timers
         /\ d.ready = c.ready \o b
         /\ Present(d) => Present(c) \/ Notifier \in Range(b)
<1>0. c.ready \in Seq(Items)
  BY DEF Ordered, Shaped
<1>1. PICK r : r = c.ready \o b
  OBVIOUS
<1>2. r \in Seq(Items) /\ Behind(r, c.ready, b)
  BY <1>0, <1>1, Added
<1>4. d = [c EXCEPT !.ready = r]
  BY <1>1
<1>5. /\ Shaped(d) /\ d.ready = r /\ d.quiet = c.quiet /\ d.fired = c.fired
      /\ d.timers = c.timers /\ d.armed = c.armed
  BY <1>2, <1>4 DEF Ordered, Shaped, Fields
<1>6. ProbeOnce(d)
  <2>1. Single(r, Probe) /\ (Probe \in Range(r) <=> Probe \in Range(c.ready))
    BY <1>2, Zenon DEF Ordered, ProbeOnce, Behind
  <2> QED
    BY <1>5, <2>1, Zenon DEF Ordered, ProbeOnce
<1>7. NotifierOnce(d) /\ (Present(d) => Present(c) \/ Notifier \in Range(b))
  <2>1. /\ Single(r, Notifier)
        /\ (Notifier \in Range(r) <=> Notifier \in Range(c.ready) \/ Notifier \in Range(b))
    BY <1>2 DEF Ordered, NotifierOnce, Behind, Present
  <2> QED
    BY <1>5, <2>1 DEF Ordered, NotifierOnce, Present
<1> QED
  BY <1>1, <1>5, <1>6, <1>7 DEF Ordered

\* _activity and _arm.
LEMMA ActivityOrdered ==
  ASSUME NEW c, Ordered(c), NEW d, d = Activity(c)
  PROVE  /\ Ordered(d) /\ d.quiet = 0 /\ d.fired = c.fired /\ d.timers = c.timers
         /\ Present(d) => Present(c)
         /\ Notifier \in Range(d.ready) => Notifier \in Range(c.ready)
         /\ d.ready = IF c.armed THEN c.ready ELSE c.ready \o <<Probe>>
<1>0. c.ready \in Seq(Items)
  BY DEF Ordered, Shaped
<1>1. PICK r : r = IF c.armed THEN c.ready ELSE c.ready \o <<Probe>>
  OBVIOUS
<1>2. d = [c EXCEPT !.quiet = 0, !.armed = TRUE, !.ready = r]
  <2>1. Append(c.ready, Probe) = c.ready \o <<Probe>>
    BY <1>0, One, ItemsApart
  <2> QED
    BY <1>1, <2>1, Zenon DEF Activity
<1>4. /\ r \in Seq(Items) /\ Probe \in Range(r)
      /\ (Notifier \in Range(r) <=> Notifier \in Range(c.ready))
      /\ Single(r, Probe) /\ Single(r, Notifier)
  <2>0. Single(c.ready, Probe) /\ Single(c.ready, Notifier)
    BY DEF Ordered, ProbeOnce, NotifierOnce
  <2>1. CASE c.armed
    <3>1. r = c.ready /\ Probe \in Range(c.ready)
      BY <1>1, <2>1, Zenon DEF Ordered, ProbeOnce
    <3> QED
      BY <1>0, <2>0, <3>1
  <2>2. CASE ~c.armed
    <3>0. r = c.ready \o <<Probe>> /\ Probe \notin Range(c.ready)
      BY <1>1, <2>2, Zenon DEF Ordered, ProbeOnce
    <3>1. /\ <<Probe>> \in Seq(Items) /\ (\A y : y \in Range(<<Probe>>) <=> y = Probe)
          /\ \A y : Single(<<Probe>>, y)
      BY <1>0, One, ItemsApart
    <3>2. r \in Seq(Items) /\ Behind(r, c.ready, <<Probe>>)
      BY <1>0, <3>0, <3>1, Added
    <3> QED
      BY <2>0, <3>0, <3>1, <3>2, ItemsApart DEF Behind
  <2> QED
    BY <2>1, <2>2
<1>3. /\ Shaped(d) /\ d.ready = r /\ d.quiet = 0 /\ d.fired = c.fired
      /\ d.timers = c.timers
  <2>1. PICK a : d = [c EXCEPT !.quiet = 0, !.armed = a, !.ready = r]
    BY <1>2, Zenon
  <2>2. c = [f \in Fields |-> c[f]] /\ c.timers \in Seq(Timer(Int))
    BY DEF Ordered, Shaped
  <2>3. /\ d = [f \in Fields |-> d[f]] /\ d.ready = r /\ d.quiet = 0 /\ d.fired = c.fired
        /\ d.timers = c.timers
    BY <2>1, <2>2 DEF Fields
  <2> QED
    BY <1>4, <2>2, <2>3 DEF Shaped
<1>5. ProbeOnce(d)
  <2>1. "armed" \in DOMAIN c
    BY DEF Ordered, Shaped, Fields
  <2>2. d.armed = TRUE
    BY <1>2, <2>1, Zenon
  <2> QED
    BY <1>3, <1>4, <2>2, Zenon DEF ProbeOnce
<1>6. NotifierOnce(d) /\ (Present(d) => Present(c))
  BY <1>3, <1>4 DEF Ordered, NotifierOnce, Present
<1> QED
  BY <1>1, <1>3, <1>4, <1>5, <1>6 DEF Ordered

\* The blocked() context, entered and left.
LEMMA BlockedOrdered ==
  ASSUME NEW c, Ordered(c), NEW d, d \in {EnterBlocked(c), LeaveBlocked(c)}
  PROVE  Ordered(d) /\ d.quiet = 0 /\ d.fired = c.fired /\ (Present(d) => Present(c))
<1>1. PICK n : d = Activity([c EXCEPT !.blocked = n])
  BY DEF EnterBlocked, LeaveBlocked
<1>2. PICK x : x = [c EXCEPT !.blocked = n]
  OBVIOUS
<1>3. Ordered(x) /\ x.fired = c.fired /\ (Present(x) => Present(c))
  BY <1>2, Counting
<1> QED
  BY <1>1, <1>2, <1>3, ActivityOrdered

-----------------------------------------------------------------------------
(* How quiet the queue is. *)

\* While the clock has been quiet for q probes, only what is in C is queued behind the
\* probe; for two, nothing is; for three, nothing but the probe is queued at all.
Quieter(s, q, C) ==
  q >= 1 => \E k \in DOMAIN s :
              /\ s[k] = Probe
              /\ \A j \in DOMAIN s : j > k => s[j] \in C
              /\ q >= 2 => k = Len(s) /\ \A j \in DOMAIN s : j < k => s[j] \in C
              /\ q >= 3 => k = 1

\* More may be queued.
LEMMA QuieterWider ==
  ASSUME NEW s, NEW q, NEW C, NEW D, C \subseteq D, Quieter(s, q, C)
  PROVE  Quieter(s, q, D)
BY Zenon DEF Quieter

\* Calm callbacks queued behind a probe that has been quiet once.
LEMMA QuieterAdded ==
  ASSUME NEW s \in Seq(Items), NEW b \in Seq(Items), NEW q \in {0, 1}, NEW C, Quieter(s, q, C),
         Range(b) \subseteq C, NEW r, r = s \o b
  PROVE  Quieter(r, q, C)
<1>1. CASE q = 0
  BY <1>1 DEF Quieter
<1>2. CASE q = 1
  <2>1. PICK m \in Nat, n \in Nat : m = Len(s) /\ n = Len(b)
    OBVIOUS
  <2>2. /\ Len(r) = m + n /\ r \in Seq(Items)
        /\ \A i \in 1 .. m : r[i] = s[i]
        /\ \A i \in m + 1 .. m + n : r[i] = b[i - m]
    BY <2>1, Joined
  <2>3. DOMAIN r = 1 .. m + n /\ DOMAIN s = 1 .. m /\ DOMAIN b = 1 .. n
    BY <2>1, <2>2
  <2>4. PICK k \in DOMAIN s : s[k] = Probe /\ \A j \in DOMAIN s : j > k => s[j] \in C
    BY <1>2 DEF Quieter
  <2>5. k \in DOMAIN r /\ r[k] = Probe
    BY <2>2, <2>3, <2>4
  <2>6. ASSUME NEW j \in DOMAIN r, j > k
        PROVE  r[j] \in C
    <3>1. CASE j <= m
      <4>1. j \in DOMAIN s /\ r[j] = s[j]
        BY <2>2, <2>3, <3>1
      <4> QED
        BY <2>4, <2>6, <4>1
    <3>2. CASE j > m
      <4>1. j - m \in DOMAIN b /\ j \in m + 1 .. m + n
        BY <2>3, <3>2
      <4>2. b[j - m] \in Range(b)
        BY <4>1 DEF Range
      <4> QED
        BY <2>2, <4>1, <4>2
    <3> QED
      BY <2>3, <3>1, <3>2
  <2> QED
    BY <1>2, <2>5, <2>6 DEF Quieter
<1> QED
  BY <1>1, <1>2

\* A callback at the head is taken: after two quiet probes, it was a calm one.
LEMMA QuieterTaken ==
  ASSUME NEW s \in Seq(Items), s # <<>>, Head(s) # Probe, NEW q \in Nat, NEW C, Quieter(s, q, C),
         NEW r, r = Tail(s)
  PROVE  Quieter(r, q, C) /\ (q >= 2 => Head(s) \in C /\ q < 3)
<1>1. CASE q = 0
  BY <1>1 DEF Quieter
<1>2. CASE q # 0
  <2>0. PICK h : h = Head(s)
    OBVIOUS
  <2>1. /\ r \in Seq(Items) /\ Len(r) = Len(s) - 1 /\ Len(s) \in Nat
        /\ \A i \in DOMAIN r : i + 1 \in DOMAIN s /\ r[i] = s[i + 1]
        /\ \A i \in DOMAIN s : i = 1 \/ (i - 1 \in DOMAIN r /\ r[i - 1] = s[i])
        /\ 1 \in DOMAIN s /\ s[1] = h
    BY <2>0, Taken
  <2>2. PICK k \in DOMAIN s :
          /\ s[k] = Probe
          /\ \A j \in DOMAIN s : j > k => s[j] \in C
          /\ q >= 2 => k = Len(s) /\ \A j \in DOMAIN s : j < k => s[j] \in C
          /\ q >= 3 => k = 1
    BY <1>2 DEF Quieter
  <2>3. k # 1 /\ k \in Nat /\ k > 1
    BY <2>0, <2>1, <2>2
  <2>4. k - 1 \in DOMAIN r /\ r[k - 1] = Probe
    BY <2>1, <2>2, <2>3
  <2>5. DOMAIN r = 1 .. Len(r)
    BY <2>1
  <2>6. \A j \in DOMAIN r : j > k - 1 => r[j] \in C
    BY <2>1, <2>2, <2>3, <2>5
  <2>7. q >= 2 => k - 1 = Len(r) /\ \A j \in DOMAIN r : j < k - 1 => r[j] \in C
    BY <2>1, <2>2, <2>3, <2>5
  <2>8. q >= 2 => h \in C /\ q < 3
    BY <2>1, <2>2, <2>3
  <2>9. q >= 3 => k - 1 = 1
    BY <2>2, <2>3
  <2> QED
    BY <2>0, <2>4, <2>6, <2>7, <2>8, <2>9 DEF Quieter
<1> QED
  BY <1>1, <1>2

\* The probe goes to the back, and one more is quiet.
LEMMA QuieterAgain ==
  ASSUME NEW s \in Seq(Items), s # <<>>, Head(s) = Probe, Single(s, Probe), NEW q \in Nat, NEW C,
         Quieter(s, q, C), NEW r, r = Tail(s) \o <<Probe>>
  PROVE  Quieter(r, q + 1, C) /\ (q >= 2 => \A x : x \in Range(s) <=> x = Probe)
<1>a. PICK t : t = Tail(s)
  OBVIOUS
<1>b. PICK n \in Nat : n = Len(s) /\ n >= 1
  OBVIOUS
<1>0. t = Tail(s) /\ n = Len(s) /\ n >= 1
  BY <1>a, <1>b
<1>1. /\ t \in Seq(Items) /\ Len(t) = n - 1 /\ DOMAIN s = 1 .. n
      /\ \A i \in DOMAIN t : i + 1 \in DOMAIN s /\ t[i] = s[i + 1]
      /\ s[1] = Probe
  BY <1>0
<1>2. r = Append(t, Probe)
  BY <1>0, <1>1
<1>3. /\ Len(r) = n /\ DOMAIN r = 1 .. n /\ r[n] = Probe
      /\ \A i \in DOMAIN r : i < n => i + 1 \in DOMAIN s /\ r[i] = s[i + 1]
  BY <1>0, <1>1, <1>2
<1>4. n \in DOMAIN r /\ \A j \in DOMAIN r : ~(j > n)
  BY <1>0, <1>3
<1>5. CASE q = 0
  <2>1. ~(q + 1 >= 2) /\ ~(q + 1 >= 3) /\ ~(q >= 2)
    BY <1>5
  <2> QED
    BY <1>3, <1>4, <2>1 DEF Quieter
<1>6. CASE q >= 1
  <2>1. PICK k \in DOMAIN s :
          /\ s[k] = Probe
          /\ \A j \in DOMAIN s : j > k => s[j] \in C
          /\ q >= 2 => k = Len(s)
    BY <1>6 DEF Quieter
  <2>2. k = 1
    <3>1. 1 \in DOMAIN s /\ s[1] = Probe
      BY <1>0, <1>1
    <3> QED
      BY <2>1, <3>1 DEF Single
  <2>3. \A j \in DOMAIN r : j < n => r[j] \in C
    <3> SUFFICES ASSUME NEW j \in DOMAIN r, j < n
                 PROVE  r[j] \in C
      OBVIOUS
    <3>1. j + 1 \in DOMAIN s /\ r[j] = s[j + 1] /\ j + 1 > 1
      BY <1>3
    <3> QED
      BY <2>1, <2>2, <3>1
  <2>4. q >= 2 => n = 1
    BY <1>0, <2>1, <2>2
  <2>5. q + 1 >= 3 => n = 1
    BY <2>4
  <2>6. q >= 2 => \A x : x \in Range(s) <=> x = Probe
    <3>1. \A x : x \in Range(s) <=> \E i \in DOMAIN s : s[i] = x
      BY Zenon DEF Range
    <3>2. q >= 2 => \A i \in DOMAIN s : i = 1
      BY <1>1, <2>4
    <3> QED
      BY <1>0, <1>1, <3>1, <3>2
  <2> QED
    BY <1>3, <1>4, <2>3, <2>5, <2>6 DEF Quieter
<1> QED
  BY <1>5, <1>6

-----------------------------------------------------------------------------
(* The pool, and what it queues. *)

\* A slot of the pool.
Slot == [active : Int, state : {"ready", "degraded", "dead"}, left : Nat, fails : Nat]

\* A slot that is degraded cools down for some time yet.
Pooled(p) ==
  /\ p \in [slots : [Endpoints -> Slot], waiters : Seq(Workers), woken : SUBSET Workers,
            notifier : Nat]
  /\ \A e \in Endpoints : p.slots[e].state = "degraded" => p.slots[e].left # 0

\* Arming the notifier changes nothing else of the pool.
LEMMA ArmedFacts ==
  ASSUME NEW p, Pooled(p), NEW q, q = Armed(p)
  PROVE  Pooled(q) /\ q.waiters = p.waiters /\ (NeedsNotifier(p) => q.notifier # 0)
         /\ (~NeedsNotifier(p) => q = p)
<1>1. CASE ~NeedsNotifier(p)
  BY <1>1 DEF Armed
<1>2. CASE NeedsNotifier(p)
  <2>1. Cooling(p) \subseteq Nat /\ Cooling(p) # {} /\ 0 \notin Cooling(p)
    BY <1>2 DEF Cooling, NeedsNotifier, Pooled, Slot
  <2>2. PICK n : n = CHOOSE d \in Cooling(p) : \A x \in Cooling(p) : d <= x
    OBVIOUS
  <2>3. \E d \in Cooling(p) : \A x \in Cooling(p) : d <= x
    BY <2>1, LeastNatural
  <2>4. n \in Cooling(p)
    BY <2>2, <2>3
  <2>5. n \in Nat /\ n # 0
    BY <2>1, <2>4
  <2>6. q = [p EXCEPT !.notifier = n]
    BY <1>2, <2>2, Zenon DEF Armed
  <2> QED
    BY <1>2, <2>5, <2>6 DEF Pooled
<1> QED
  BY <1>1, <1>2

\* From c to d, a queue that was quiet stays quiet.
Steady(c, d, C) ==
  /\ d.quiet = c.quiet
  /\ c.quiet < 2 /\ Quieter(c.ready, c.quiet, C) => Quieter(d.ready, d.quiet, C)

\* Queuing what is calm keeps the queue quiet.
LEMMA QueuedSteady ==
  ASSUME NEW c, Ordered(c), NEW b \in Seq(Items), NEW d, d.quiet = c.quiet, d.ready = c.ready \o b,
         NEW C, Range(b) \subseteq C
  PROVE  Steady(c, d, C)
<1>1. c.ready \in Seq(Items) /\ c.quiet \in Nat
  BY DEF Ordered, Shaped
<1>2. ASSUME c.quiet < 2, Quieter(c.ready, c.quiet, C)
      PROVE  Quieter(d.ready, d.quiet, C)
  <2>1. PICK q, s, r : q = c.quiet /\ s = c.ready /\ r = d.ready
    OBVIOUS
  <2>2. q \in {0, 1} /\ s \in Seq(Items) /\ r = s \o b /\ Quieter(s, q, C)
    BY <1>1, <1>2, <2>1
  <2>3. Quieter(r, q, C)
    BY <2>2, QuieterAdded
  <2> QED
    BY <2>1, <2>3
<1> QED
  BY <1>2 DEF Steady

\* _ensure_cooldown_notifier: a notifier is queued only if none lives.
LEMMA StartsFacts ==
  ASSUME NEW c, Ordered(c), NEW p, Pooled(p), Present(c) => p.notifier # 0,
         NEW C, Notifier \notin c.fired => Notifier \in C, NEW d, d = Starts(p, c),
         NEW q, q = Armed(p)
  PROVE  /\ Ordered(d) /\ d.fired = c.fired /\ Steady(c, d, C)
         /\ Pooled(q) /\ q.waiters = p.waiters /\ (Present(d) => q.notifier # 0)
<1>1. CASE ~NeedsNotifier(p)
  <2>1. d = c /\ q = p
    BY <1>1 DEF Starts, Armed
  <2> QED
    BY <2>1 DEF Steady
<1>2. CASE NeedsNotifier(p)
  <2>1. ~Present(c)
    BY <1>2 DEF NeedsNotifier
  <2>2. Notifier \in C
    BY <2>1 DEF Present, Ordered, NotifierOnce
  <2>3. PICK b : b = <<Notifier>>
    OBVIOUS
  <2>4. /\ b \in Seq(Items) /\ Probe \notin Range(b) /\ Single(b, Notifier) /\ Range(b) \subseteq C
        /\ Append(c.ready, Notifier) = c.ready \o b
    <3>1. c.ready \in Seq(Items)
      BY DEF Ordered, Shaped
    <3>2. /\ Append(c.ready, Notifier) = c.ready \o <<Notifier>> /\ <<Notifier>> \in Seq(Items)
          /\ \A y : y \in Range(<<Notifier>>) <=> y = Notifier
          /\ \A y : Single(<<Notifier>>, y)
      BY <3>1, One, ItemsApart
    <3> QED
      BY <2>2, <2>3, <3>2, ItemsApart
  <2>5. d = [c EXCEPT !.ready = @ \o b]
    BY <1>2, <2>4, Zenon DEF Starts
  <2>6. Ordered(d) /\ d.quiet = c.quiet /\ d.fired = c.fired /\ d.ready = c.ready \o b
    BY <2>1, <2>4, <2>5, Queued
  <2>7. Steady(c, d, C)
    BY <2>4, <2>6, QueuedSteady
  <2> QED
    BY <1>2, <2>6, <2>7, ArmedFacts
<1> QED
  BY <1>1, <1>2

\* _notify: only waiters are queued.
LEMMA WakesFacts ==
  ASSUME NEW c, Ordered(c), NEW p, Pooled(p), NEW C, \A v \in Range(p.waiters) : Runs(v) \in C,
         NEW d, d = Wakes(p, c)
  PROVE  Ordered(d) /\ d.fired = c.fired /\ Steady(c, d, C) /\ (Present(d) => Present(c))
<1>1. PICK I, a, b :
        /\ I = {i \in DOMAIN p.waiters : p.waiters[i] \notin p.woken}
        /\ a = Those(p.waiters, I)
        /\ b = [i \in DOMAIN a |-> Runs(a[i])]
  OBVIOUS
<1>2. d = [c EXCEPT !.ready = @ \o b]
  BY <1>1, Zenon DEF Wakes
<1>3. p.waiters \in Seq(Workers)
  BY DEF Pooled
<1>4. a \in Seq(Workers) /\ \A v \in Range(a) : v \in Range(p.waiters)
  <2>1. I \in SUBSET DOMAIN p.waiters
    BY <1>1
  <2>2. a \in Seq(Workers) /\ \A x : x \in Range(a) <=> \E i \in I : p.waiters[i] = x
    BY <1>1, <1>3, <2>1, Chosen
  <2>3. \A i \in I : p.waiters[i] \in Range(p.waiters)
    BY <2>1 DEF Range
  <2> QED
    BY <2>2, <2>3
<1>5. /\ b \in Seq(Items) /\ Range(b) \subseteq C /\ Probe \notin Range(b) /\ Notifier \notin Range(b)
  <2>1. DOMAIN b = DOMAIN a /\ DOMAIN a = 1 .. Len(a) /\ Len(a) \in Nat
    BY <1>1, <1>4
  <2>2. \A i \in DOMAIN b : a[i] \in Workers /\ a[i] \in Range(a) /\ b[i] = Runs(a[i])
    <3>1. \A i \in DOMAIN a : a[i] \in Range(a)
      BY Zenon DEF Range
    <3>2. \A i \in DOMAIN a : a[i] \in Workers
      BY <1>4
    <3> QED
      BY <1>1, <2>1, <3>1, <3>2
  <2>3. \A i \in DOMAIN b : b[i] \in Items /\ b[i] \in C /\ b[i] # Probe /\ b[i] # Notifier
    BY <1>4, <2>2, ItemsApart
  <2>4. b \in Seq(Items)
    <3>1. PICK n \in Nat : n = Len(a) /\ DOMAIN b = 1 .. n
      BY <2>1
    <3>2. b = [i \in 1 .. n |-> b[i]]
      BY <1>1, <2>1, <3>1, Zenon
    <3> QED
      BY <2>3, <3>1, <3>2
  <2> QED
    BY <2>3, <2>4 DEF Range
<1>6. Single(b, Notifier)
  BY <1>5 DEF Range, Single
<1>7. Ordered(d) /\ d.quiet = c.quiet /\ d.fired = c.fired /\ d.ready = c.ready \o b
      /\ (Present(d) => Present(c))
  BY <1>2, <1>5, <1>6, Queued
<1> QED
  BY <1>5, <1>7, QueuedSteady

\* The two together, as a release and the notifier do them.
LEMMA ToldFacts ==
  ASSUME NEW c, Ordered(c), NEW p, Pooled(p), Present(c) => p.notifier # 0,
         NEW C, Notifier \notin c.fired => Notifier \in C, \A v \in Range(p.waiters) : Runs(v) \in C,
         NEW d, d = Starts(p, Wakes(p, c)), NEW q, q = Armed(Told(p))
  PROVE  /\ Ordered(d) /\ d.fired = c.fired /\ Steady(c, d, C)
         /\ Pooled(q) /\ q.waiters = p.waiters /\ (Present(d) => q.notifier # 0)
<1>1. PICK t, w : t = Told(p) /\ w = Wakes(p, c)
  OBVIOUS
<1>2. Ordered(w) /\ w.fired = c.fired /\ Steady(c, w, C) /\ (Present(w) => Present(c))
  BY <1>1, WakesFacts
<1>3. /\ Pooled(t) /\ t.waiters = p.waiters /\ t.notifier = p.notifier /\ t.slots = p.slots
  <2>1. Range(p.waiters) \subseteq Workers
    <3>1. p.waiters \in Seq(Workers)
      BY DEF Pooled
    <3> QED
      BY <3>1, InRange
  <2> QED
    BY <1>1, <2>1 DEF Told, Pooled
<1>4. Starts(t, w) = Starts(p, w)
  BY <1>3, Zenon DEF Starts, NeedsNotifier, Cooling
<1>5. d = Starts(t, w) /\ q = Armed(t)
  BY <1>1, <1>4
<1>6. /\ Ordered(d) /\ d.fired = w.fired /\ Steady(w, d, C)
      /\ Pooled(q) /\ q.waiters = t.waiters /\ (Present(d) => q.notifier # 0)
  <2>1. Present(w) => t.notifier # 0
    BY <1>2, <1>3
  <2>2. Notifier \notin w.fired => Notifier \in C
    BY <1>2
  <2> QED
    BY <1>2, <1>3, <1>5, <2>1, <2>2, StartsFacts
<1> QED
  BY <1>2, <1>3, <1>6 DEF Steady

\* The report and the release of a lease.
LEMMA ReturnedFacts ==
  ASSUME NEW c, Ordered(c), NEW p, Pooled(p), Present(c) => p.notifier # 0,
         NEW C, Notifier \notin c.fired => Notifier \in C, \A v \in Range(p.waiters) : Runs(v) \in C,
         NEW e, NEW ok \in BOOLEAN, NEW d, d = ReturnedLoop(p, e, ok, c), NEW q, q = Returned(p, e, ok)
  PROVE  /\ Ordered(d) /\ d.fired = c.fired /\ Steady(c, d, C)
         /\ Pooled(q) /\ q.waiters = p.waiters /\ (Present(d) => q.notifier # 0)
<1>1. PICK r : r = GivenBack(p, e, ok)
  OBVIOUS
<1>2. Pooled(r) /\ r.waiters = p.waiters /\ r.notifier = p.notifier
  <2>1. ASSUME NEW s \in Slot, s.state = "degraded" => s.left # 0
        PROVE  Freed(s, ok) \in Slot /\ (Freed(s, ok).state = "degraded" => Freed(s, ok).left # 0)
    <3>1. PICK f : f = IF ok THEN 0 ELSE s.fails + 1
      OBVIOUS
    <3>2. f \in Nat /\ DeadAfter \in Nat /\ Cooldown \in Nat /\ Cooldown # 0 /\ DegradeAfter \in Nat
      BY <3>1, SimulationAssumption DEF Slot
    <3>3. PICK state : state = IF ok THEN "ready"
               ELSE IF f >= DeadAfter THEN "dead"
               ELSE IF f >= DegradeAfter THEN "degraded" ELSE s.state
      OBVIOUS
    <3>4. PICK g, l : /\ g = IF f > DeadAfter THEN DeadAfter ELSE f
                      /\ l = IF state # "degraded" THEN 0
                             ELSE IF f >= DegradeAfter THEN Cooldown ELSE s.left
      OBVIOUS
    <3>5. Reported(s, ok) = [s EXCEPT !.fails = g, !.state = state, !.left = l]
      BY <3>1, <3>3, <3>4, Zenon DEF Reported
    <3>6. g \in Nat /\ l \in Nat /\ state \in {"ready", "degraded", "dead"}
      BY <3>2, <3>3, <3>4 DEF Slot
    <3>7. state = "degraded" => l # 0
      BY <2>1, <3>2, <3>3, <3>4
    <3>8. PICK u : u = Freed(s, ok)
      OBVIOUS
    <3>9. u = [active |-> s.active - 1, state |-> state, left |-> l, fails |-> g]
      BY <3>5, <3>8 DEF Slot, Freed
    <3>10. s.active - 1 \in Int
      BY DEF Slot
    <3>11. u \in Slot /\ (u.state = "degraded" => u.left # 0)
      BY <3>6, <3>7, <3>9, <3>10 DEF Slot
    <3> QED
      BY <3>8, <3>11
  <2>2. PICK u : u = Freed(p.slots[e], ok)
    OBVIOUS
  <2>3. e \in Endpoints => u \in Slot /\ (u.state = "degraded" => u.left # 0)
    BY <2>1, <2>2 DEF Pooled
  <2>4. r = [p EXCEPT !.slots = [p.slots EXCEPT ![e] = u]]
    BY <1>1, <2>2, Zenon DEF GivenBack
  <2>5. [p.slots EXCEPT ![e] = u] \in [Endpoints -> Slot]
    BY <2>3 DEF Pooled
  <2> QED
    BY <2>3, <2>4, <2>5 DEF Pooled
<1>3. d = Starts(r, Wakes(r, c)) /\ q = Armed(Told(r))
  BY <1>1, Zenon DEF ReturnedLoop, Returned
<1> QED
  BY <1>2, <1>3, ToldFacts

-----------------------------------------------------------------------------
(* Sleeping, and the callbacks taken off the queue. *)

\* The clock with other timers.
Timed(c, t, n) == [c EXCEPT !.timers = t, !.parked = n]

\* Timers without a notifier that is queued.
LEMMA Retimed ==
  ASSUME NEW c, Ordered(c), NEW t \in Seq(Timer(Int)), NapsOnce(t),
         Notifier \in Range(c.ready) => ~Naps(t), NEW n, NEW d, d = Timed(c, t, n)
  PROVE  /\ Ordered(d) /\ d.quiet = c.quiet /\ d.fired = c.fired /\ d.ready = c.ready
         /\ Present(d) => Present(c) \/ Naps(t)
<1>1. /\ Shaped(d) /\ d.quiet = c.quiet /\ d.fired = c.fired /\ d.ready = c.ready
      /\ d.timers = t /\ d.armed = c.armed
  BY DEF Ordered, Shaped, Fields, Timed
<1>2. ProbeOnce(d) /\ NotifierOnce(d) /\ (Present(d) => Present(c) \/ Naps(t))
  BY <1>1, Zenon DEF Ordered, ProbeOnce, NotifierOnce, Present
<1> QED
  BY <1>1, <1>2 DEF Ordered

\* sleep(): a delay stirs the clock, a delay of zero only queues the sleeper.
LEMMA SleepOrdered ==
  ASSUME NEW c, Ordered(c), NEW p \in Sleepers, NEW n \in Nat, p = Notifier => n # 0 /\ ~Present(c),
         NEW d, d = Sleep(c, p, n)
  PROVE  /\ Ordered(d) /\ d.fired = c.fired /\ (Present(d) => Present(c) \/ p = Notifier)
         /\ (n # 0 => d.quiet = 0)
         /\ d.quiet = 0 \/ \A C : p \in C => Steady(c, d, C)
<1>1. CASE n = 0
  <2>1. PICK b : b = <<p>>
    OBVIOUS
  <2>2. p \in Items /\ p # Probe /\ p # Notifier
    BY <1>1, ItemsApart
  <2>3. c.ready \in Seq(Items)
    BY DEF Ordered, Shaped
  <2>4. /\ b \in Seq(Items) /\ Append(c.ready, p) = c.ready \o b
        /\ (\A y : y \in Range(b) <=> y = p) /\ (\A y : Single(b, y))
    BY <2>1, <2>2, <2>3, One
  <2>5. d = [c EXCEPT !.ready = @ \o b]
    BY <1>1, <2>4, Zenon DEF Sleep
  <2>6. Probe \notin Range(b) /\ Notifier \notin Range(b) /\ Single(b, Notifier)
    BY <2>2, <2>4
  <2>7. /\ Ordered(d) /\ d.quiet = c.quiet /\ d.fired = c.fired /\ d.ready = c.ready \o b
        /\ (Present(d) => Present(c))
    BY <2>4, <2>5, <2>6, Queued
  <2>8. ASSUME NEW C, p \in C
        PROVE  Steady(c, d, C)
    <3>1. Range(b) \subseteq C
      BY <2>4, <2>8
    <3> QED
      BY <2>4, <2>7, <3>1, QueuedSteady
  <2> QED
    BY <1>1, <2>7, <2>8
<1>2. CASE n # 0
  <2>1. PICK t : t = c.timers
    OBVIOUS
  <2>2. t \in Seq(Timer(Int)) /\ NapsOnce(t) /\ (Notifier \in Range(c.ready) => ~Naps(t))
    BY <2>1 DEF Ordered, Shaped, NotifierOnce
  <2>3. PICK k \in 0 .. Len(t) : k = Cardinality({i \in DOMAIN t : t[i].left <= n})
    BY <2>2, ChosenCount
  <2>4. PICK e, s : e = [who |-> p, left |-> n] /\ s = InsertAt(t, k + 1, e)
    OBVIOUS
  <2>5. e \in Timer(Int) /\ e.who = p
    BY <2>4 DEF Timer
  <2>6. Naps(t) => e.who # Notifier
    BY <2>1, <2>5 DEF Present
  <2>7. s \in Seq(Timer(Int)) /\ NapsOnce(s) /\ (Naps(s) => Naps(t) \/ p = Notifier)
    BY <2>2, <2>4, <2>5, <2>6, NapAdded
  <2>8. Notifier \in Range(c.ready) => ~Naps(s)
    BY <2>1, <2>2, <2>7 DEF Present
  <2>9. PICK m, x : m = c.parked + Counted(p) /\ x = Timed(c, s, m)
    OBVIOUS
  <2>10. Ordered(x) /\ x.fired = c.fired /\ (Present(x) => Present(c) \/ Naps(s))
    <3>1. s \in Seq(Timer(Int)) /\ NapsOnce(s) /\ x = Timed(c, s, m)
      BY <2>7, <2>9
    <3> QED
      BY <2>8, <3>1, Retimed
  <2>11. d = Activity(x)
    BY <1>2, <2>1, <2>3, <2>4, <2>9, Zenon DEF Sleep, Timed
  <2>12. Ordered(d) /\ d.quiet = 0 /\ d.fired = x.fired /\ (Present(d) => Present(x))
    BY <2>10, <2>11, ActivityOrdered
  <2> QED
    BY <2>1, <2>7, <2>10, <2>12 DEF Present
<1> QED
  BY <1>1, <1>2

\* A worker's sleep ends, by its deadline or before.
LEMMA SleepEndsOrdered ==
  ASSUME NEW c, Ordered(c), NEW w \in Workers, NEW d, d = SleepEnds(c, Runs(w))
  PROVE  /\ Ordered(d) /\ d.fired \subseteq c.fired /\ (Present(d) => Present(c))
         /\ d.quiet = 0 \/ (d.quiet = c.quiet /\ d.ready = c.ready)
<1>1. PICK t : t = c.timers
  OBVIOUS
<1>2. t \in Seq(Timer(Int)) /\ NapsOnce(t) /\ (Notifier \in Range(c.ready) => ~Naps(t))
  BY <1>1 DEF Ordered, Shaped, NotifierOnce
<1>3. CASE \E i \in DOMAIN t : t[i].who = Runs(w)
  <2>1. PICK k \in DOMAIN t : k = TimerOf(c, Runs(w))
    BY <1>1, <1>3 DEF TimerOf
  <2>2. PICK s : s = RemoveAt(t, k)
    OBVIOUS
  <2>3. s \in Seq(Timer(Int)) /\ NapsOnce(s) /\ (Naps(s) => Naps(t))
    BY <1>2, <2>2, NapRemoved
  <2>4. PICK m, x : m = c.parked - Counted(Runs(w)) /\ x = Timed(c, s, m)
    OBVIOUS
  <2>5. Ordered(x) /\ x.fired = c.fired /\ (Present(x) => Present(c) \/ Naps(s))
    <3>1. Notifier \in Range(c.ready) => ~Naps(s)
      BY <1>2, <2>3
    <3>2. s \in Seq(Timer(Int)) /\ NapsOnce(s) /\ x = Timed(c, s, m)
      BY <2>3, <2>4
    <3> QED
      BY <3>1, <3>2, Retimed
  <2>6. d = Activity(x)
    BY <1>1, <1>3, <2>1, <2>2, <2>4, Zenon DEF SleepEnds, Timed
  <2>7. Ordered(d) /\ d.quiet = 0 /\ d.fired = x.fired /\ (Present(d) => Present(x))
    BY <2>5, <2>6, ActivityOrdered
  <2> QED
    BY <1>1, <2>3, <2>5, <2>7 DEF Present
<1>4. CASE ~ \E i \in DOMAIN t : t[i].who = Runs(w)
  <2>1. PICK f : f = c.fired \ {Runs(w)}
    OBVIOUS
  <2>2. d = [c EXCEPT !.fired = f]
    BY <1>1, <1>4, <2>1, Zenon DEF SleepEnds
  <2>3. /\ Shaped(d) /\ d.quiet = c.quiet /\ d.fired = f /\ d.ready = c.ready
        /\ d.timers = c.timers /\ d.armed = c.armed
    BY <2>2 DEF Ordered, Shaped, Fields
  <2>4. ProbeOnce(d) /\ (Present(d) => Present(c))
    BY <2>3, Zenon DEF Ordered, ProbeOnce, Present
  <2>5. f \subseteq c.fired
    BY <2>1
  <2>6. NotifierOnce(d)
    BY <2>3, <2>5, Zenon DEF Ordered, NotifierOnce
  <2> QED
    BY <2>3, <2>4, <2>5, <2>6 DEF Ordered
<1> QED
  BY <1>3, <1>4

\* The callback at the head is taken, unless it is the probe or the notifier.
LEMMA PoppedOrdered ==
  ASSUME Ordered(clock), clock.ready # <<>>, Next1 # Probe, Next1 # Notifier
  PROVE  /\ Ordered(Popped) /\ Popped.fired = clock.fired /\ (Present(Popped) => Present(clock))
         /\ Popped.quiet = clock.quiet
         /\ \A C : Quieter(clock.ready, clock.quiet, C) =>
                     /\ Quieter(Popped.ready, Popped.quiet, C)
                     /\ clock.quiet >= 2 => Next1 \in C /\ clock.quiet < 3
<1>1. PICK s, r, h : s = clock.ready /\ r = Tail(s) /\ h = Head(s)
  OBVIOUS
<1>2. s \in Seq(Items) /\ s # <<>> /\ clock.quiet \in Nat /\ h = Next1
  BY <1>1 DEF Ordered, Shaped, Next1
<1>3. r \in Seq(Items) /\ Before(r, s, h)
  BY <1>1, <1>2, Taken
<1>4. Popped = [clock EXCEPT !.ready = r]
  BY <1>1, Zenon DEF Popped
<1>5. /\ Shaped(Popped) /\ Popped.quiet = clock.quiet /\ Popped.fired = clock.fired
      /\ Popped.ready = r /\ Popped.timers = clock.timers /\ Popped.armed = clock.armed
  BY <1>3, <1>4 DEF Ordered, Shaped, Fields
<1>6. (Probe \in Range(s) <=> Probe \in Range(r)) /\ (Notifier \in Range(s) <=> Notifier \in Range(r))
  BY <1>2, <1>3 DEF Before
<1>7. ProbeOnce(Popped)
  <2>1. Single(s, Probe) /\ clock.armed = IF Probe \in Range(s) THEN TRUE ELSE FALSE
    BY <1>1, Zenon DEF Ordered, ProbeOnce
  <2> QED
    BY <1>3, <1>5, <1>6, <2>1, Zenon DEF ProbeOnce, Before
<1>8. NotifierOnce(Popped) /\ (Present(Popped) => Present(clock))
  <2>1. /\ Single(s, Notifier) /\ NapsOnce(clock.timers)
        /\ Notifier \in Range(s) => ~Naps(clock.timers)
        /\ Notifier \in clock.fired => Notifier \in Range(s)
    BY <1>1, Zenon DEF Ordered, NotifierOnce
  <2>2. Single(r, Notifier)
    BY <1>3, <2>1 DEF Before
  <2> QED
    BY <1>1, <1>5, <1>6, <2>1, <2>2, Zenon DEF NotifierOnce, Present
<1>9. ASSUME NEW C, Quieter(clock.ready, clock.quiet, C)
      PROVE  /\ Quieter(Popped.ready, Popped.quiet, C)
             /\ clock.quiet >= 2 => Next1 \in C /\ clock.quiet < 3
  <2>1. Quieter(r, clock.quiet, C) /\ (clock.quiet >= 2 => Head(s) \in C /\ clock.quiet < 3)
    BY <1>1, <1>2, <1>9, QuieterTaken
  <2> QED
    BY <1>1, <1>2, <1>5, <2>1
<1> QED
  BY <1>5, <1>7, <1>8, <1>9 DEF Ordered

\* The count of quiet probes does not matter to the order.
LEMMA Requieted ==
  ASSUME NEW c, Ordered(c), NEW n \in Nat, NEW d, d = [c EXCEPT !.quiet = n]
  PROVE  /\ Ordered(d) /\ d.quiet = n /\ d.fired = c.fired /\ d.ready = c.ready
         /\ Present(d) => Present(c)
<1>1. /\ Shaped(d) /\ d.quiet = n /\ d.fired = c.fired /\ d.ready = c.ready
      /\ d.timers = c.timers /\ d.armed = c.armed
  BY DEF Ordered, Shaped, Fields
<1>2. ProbeOnce(d) /\ NotifierOnce(d) /\ (Present(d) => Present(c))
  BY <1>1, Zenon DEF Ordered, ProbeOnce, NotifierOnce, Present
<1> QED
  BY <1>1, <1>2 DEF Ordered

\* The probe at the head is taken, and the clock no longer armed.
LEMMA ProbeTaken ==
  ASSUME Ordered(clock), clock.ready # <<>>, Next1 = Probe, NEW c, c = [Popped EXCEPT !.armed = FALSE]
  PROVE  /\ Ordered(c) /\ ~c.armed /\ c.quiet = clock.quiet /\ c.fired = clock.fired
         /\ c.timers = clock.timers /\ c.ready = Tail(clock.ready)
         /\ Present(c) => Present(clock)
<1>1. PICK s, r, h : s = clock.ready /\ r = Tail(s) /\ h = Head(s)
  OBVIOUS
<1>2. s \in Seq(Items) /\ s # <<>> /\ clock.quiet \in Nat /\ h = Probe
  BY <1>1 DEF Ordered, Shaped, Next1
<1>3. r \in Seq(Items) /\ Before(r, s, h)
  BY <1>1, <1>2, Taken
<1>4. c = [clock EXCEPT !.ready = r, !.armed = FALSE]
  BY <1>1, Zenon DEF Popped
<1>5. PICK a : c = [clock EXCEPT !.ready = r, !.armed = a]
  BY <1>4, Zenon
<1>6. /\ Shaped(c) /\ c.quiet = clock.quiet /\ c.fired = clock.fired
      /\ c.ready = r /\ c.timers = clock.timers
  <2>1. clock = [f \in Fields |-> clock[f]] /\ clock.timers \in Seq(Timer(Int)) /\ clock.quiet \in Nat
    BY DEF Ordered, Shaped
  <2>2. /\ c = [f \in Fields |-> c[f]] /\ c.quiet = clock.quiet /\ c.fired = clock.fired
        /\ c.ready = r /\ c.timers = clock.timers
    BY <1>5, <2>1 DEF Fields
  <2> QED
    BY <1>3, <2>1, <2>2 DEF Shaped
<1>7. c.armed = FALSE
  <2>1. "armed" \in DOMAIN clock
    BY DEF Ordered, Shaped, Fields
  <2> QED
    BY <1>4, <2>1, Zenon
<1>8. Single(s, Probe) /\ Single(s, Notifier)
  BY <1>1, Zenon DEF Ordered, ProbeOnce, NotifierOnce
<1>9. /\ Probe \notin Range(r) /\ Single(r, Probe) /\ Single(r, Notifier)
      /\ (Notifier \in Range(r) <=> Notifier \in Range(s))
  BY <1>2, <1>3, <1>8, ItemsApart DEF Before
<1>10. ProbeOnce(c)
  BY <1>6, <1>7, <1>9, Zenon DEF ProbeOnce
<1>11. NotifierOnce(c) /\ (Present(c) => Present(clock))
  <2>1. /\ NapsOnce(clock.timers) /\ (Notifier \in Range(s) => ~Naps(clock.timers))
        /\ Notifier \in clock.fired => Notifier \in Range(s)
    BY <1>1, Zenon DEF Ordered, NotifierOnce
  <2> QED
    BY <1>1, <1>6, <1>9, <2>1 DEF NotifierOnce, Present
<1>12. c.ready = Tail(clock.ready) /\ ~c.armed
  BY <1>1, <1>6, <1>7, Zenon
<1> QED
  BY <1>6, <1>10, <1>11, <1>12 DEF Ordered

\* What the probe does when time does not move.
Probed(c) == IF Quiet(c) THEN [Activity(c) EXCEPT !.quiet = c.quiet + 1] ELSE [c EXCEPT !.quiet = 0]

\* The probe that does not advance: the queue is as quiet as it was, and once more.
LEMMA ProbeAgainOrdered ==
  ASSUME Ordered(clock), ProbeAgain
  PROVE  /\ Ordered(clock') /\ clock'.fired = clock.fired /\ (Present(clock') => Present(clock))
         /\ \A C : Quieter(clock.ready, clock.quiet, C) => Quieter(clock'.ready, clock'.quiet, C)
<1>1. clock.ready # <<>> /\ Next1 = Probe
  BY DEF ProbeAgain, Loop
<1>2. PICK c : c = [Popped EXCEPT !.armed = FALSE]
  OBVIOUS
<1>3. /\ Ordered(c) /\ ~c.armed /\ c.quiet = clock.quiet /\ c.fired = clock.fired
      /\ c.timers = clock.timers /\ c.ready = Tail(clock.ready)
      /\ Present(c) => Present(clock)
  BY <1>1, <1>2, ProbeTaken
<1>4. clock' = IF Quiet(c) THEN [Activity(c) EXCEPT !.quiet = c.quiet + 1] ELSE [c EXCEPT !.quiet = 0]
  <2>1. clock' = Probed([Popped EXCEPT !.armed = FALSE])
    BY DEF ProbeAgain, Probed
  <2>2. clock' = Probed(c)
    BY <1>2, <2>1, Zenon
  <2> QED
    BY <2>2 DEF Probed
<1>5. PICK q \in Nat : q = clock.quiet
  BY DEF Ordered, Shaped
<1>6. CASE Quiet(c)
  <2>1. PICK a : a = Activity(c)
    OBVIOUS
  <2>2. /\ Ordered(a) /\ a.fired = c.fired /\ (Present(a) => Present(c))
        /\ a.ready = c.ready \o <<Probe>>
    BY <1>3, <2>1, ActivityOrdered
  <2>3. clock' = [a EXCEPT !.quiet = q + 1] /\ q + 1 \in Nat
    BY <1>3, <1>4, <1>5, <1>6, <2>1
  <2>4. /\ Ordered(clock') /\ clock'.quiet = q + 1 /\ clock'.fired = a.fired /\ clock'.ready = a.ready
        /\ Present(clock') => Present(a)
    BY <2>2, <2>3, Requieted
  <2>5. ASSUME NEW C, Quieter(clock.ready, clock.quiet, C)
        PROVE  Quieter(clock'.ready, clock'.quiet, C)
    <3>1. PICK s, r : s = clock.ready /\ r = Tail(s) \o <<Probe>>
      OBVIOUS
    <3>2. s \in Seq(Items) /\ s # <<>> /\ Head(s) = Probe /\ Single(s, Probe)
      BY <1>1, <3>1 DEF Ordered, Shaped, ProbeOnce, Next1
    <3>3. Quieter(r, q + 1, C)
      BY <1>5, <2>5, <3>1, <3>2, QuieterAgain
    <3> QED
      BY <1>3, <2>2, <2>4, <3>1, <3>3
  <2> QED
    BY <1>3, <2>2, <2>4, <2>5
<1>7. CASE ~Quiet(c)
  <2>1. clock' = [c EXCEPT !.quiet = 0]
    BY <1>4, <1>7
  <2>2. /\ Ordered(clock') /\ clock'.quiet = 0 /\ clock'.fired = c.fired
        /\ Present(clock') => Present(c)
    BY <1>3, <2>1, Requieted
  <2> QED
    BY <1>3, <2>2 DEF Quieter
<1> QED
  BY <1>6, <1>7

\* _advance wakes the notifier at most once, and stirs the clock.
LEMMA AdvanceOrdered ==
  ASSUME NEW c, Ordered(c), c.timers # <<>>, NEW d, d = Advance(c)
  PROVE  Ordered(d) /\ d.quiet = 0 /\ (Present(d) => Present(c))
<1>1. PICK t : t = c.timers
  OBVIOUS
<1>2. t \in Seq(Timer(Int)) /\ t # <<>> /\ NapsOnce(t) /\ c.ready \in Seq(Items)
  BY <1>1 DEF Ordered, Shaped, NotifierOnce
<1>3. PICK l : l = Deadline(c)
  OBVIOUS
<1>4. l \in Int
  <2>1. t[1] \in Timer(Int)
    BY <1>2
  <2> QED
    BY <1>1, <1>3, <2>1 DEF Deadline, Timer
<1>5. PICK n \in 0 .. Len(t) : n = DueCount(c)
  BY <1>1, <1>2, ChosenCount DEF DueCount
<1>6. PICK due, later, s : /\ due = SubSeq(t, 1, n) /\ later = SubSeq(t, n + 1, Len(t))
                           /\ s = [i \in DOMAIN later |-> [later[i] EXCEPT !.left = @ - l]]
  OBVIOUS
<1>7. due = Due(c) /\ s = Pending(c)
  BY <1>1, <1>3, <1>5, <1>6, Zenon DEF Due, Pending
<1>8. /\ due \in Seq(Timer(Int)) /\ Len(due) = n
      /\ \A i \in 1 .. n : due[i] = t[i]
  BY <1>2, <1>6, Prefix
<1>9. /\ later \in Seq(Timer(Int)) /\ Len(later) = Len(t) - n
      /\ \A i \in 1 .. Len(t) - n : later[i] = t[n + i]
  BY <1>2, <1>6, Suffix
<1>10. DOMAIN due = 1 .. n /\ DOMAIN later = 1 .. Len(t) - n /\ DOMAIN t = 1 .. Len(t) /\ Len(t) \in Nat
  BY <1>2, <1>8, <1>9
<1>11. /\ \A i \in DOMAIN due : i \in DOMAIN t /\ due[i] = t[i] /\ i <= n
       /\ \A i \in DOMAIN later : n + i \in DOMAIN t /\ later[i] = t[n + i] /\ i > 0
  BY <1>8, <1>9, <1>10
<1>12. /\ s \in Seq(Timer(Int)) /\ DOMAIN s = DOMAIN later
       /\ \A i \in DOMAIN s : s[i].who = later[i].who
  <2>1. \A i \in DOMAIN later : later[i] \in Timer(Int)
    BY <1>9
  <2>2. \A i \in DOMAIN later : [later[i] EXCEPT !.left = @ - l] \in Timer(Int)
    BY <1>4, <2>1 DEF Timer
  <2>3. \A i \in DOMAIN later : [later[i] EXCEPT !.left = @ - l].who = later[i].who
    BY <2>1 DEF Timer
  <2>4. s \in Seq(Timer(Int))
    <3>1. PICK m \in Nat : DOMAIN later = 1 .. m
      BY <1>9
    <3>2. DOMAIN s = 1 .. m /\ \A i \in 1 .. m : s[i] = [later[i] EXCEPT !.left = @ - l]
      BY <1>6, <3>1, Zenon
    <3>3. s = [i \in 1 .. m |-> s[i]]
      BY <1>6, <3>1, Zenon
    <3> QED
      BY <2>2, <3>1, <3>2, <3>3
  <2> QED
    BY <1>6, <2>3, <2>4
<1>13. /\ NapsOnce(s) /\ (Naps(s) => Naps(t))
       /\ \A i \in DOMAIN due : due[i].who = Notifier => ~Naps(s) /\ Naps(t)
  <2>1. Naps(s) => Naps(t)
    BY <1>11, <1>12 DEF Naps
  <2>2. ASSUME NEW i \in DOMAIN s, NEW j \in DOMAIN s, s[i].who = Notifier, s[j].who = Notifier
        PROVE  i = j
    <3>1. /\ n + i \in DOMAIN t /\ t[n + i].who = Notifier
          /\ n + j \in DOMAIN t /\ t[n + j].who = Notifier
      BY <1>11, <1>12, <2>2
    <3>2. n + i = n + j
      BY <1>2, <3>1, Zenon DEF NapsOnce
    <3>3. i \in Int /\ j \in Int
      BY <1>10, <1>12
    <3> QED
      BY <3>2, <3>3
  <2>3. ASSUME NEW i \in DOMAIN due, due[i].who = Notifier
        PROVE  ~Naps(s) /\ Naps(t)
    <3>1. \A j \in DOMAIN s : s[j].who # Notifier
      <4> SUFFICES ASSUME NEW j \in DOMAIN s, s[j].who = Notifier
                   PROVE  FALSE
        OBVIOUS
      <4>1. n + j \in DOMAIN t /\ t[n + j].who = Notifier
        BY <1>11, <1>12
      <4>2. i \in DOMAIN t /\ t[i].who = Notifier /\ i <= n
        BY <1>11, <2>3
      <4>3. n + j = i
        BY <1>2, <4>1, <4>2, Zenon DEF NapsOnce
      <4>4. j \in Int /\ j > 0
        BY <1>10, <1>11, <1>12
      <4> QED
        BY <1>10, <4>2, <4>3, <4>4
    <3> QED
      BY <1>11, <2>3, <3>1 DEF Naps
  <2> QED
    BY <2>1, <2>2, <2>3 DEF NapsOnce
<1>14. PICK I, woken, b : /\ I = {i \in DOMAIN due : due[i].who \notin Range(c.ready)}
                          /\ woken = Those(due, I)
                          /\ b = [i \in DOMAIN woken |-> woken[i].who]
  OBVIOUS
<1>15. woken = Woken(c)
  BY <1>7, <1>14, Zenon DEF Woken
<1>16. PICK at \in [DOMAIN woken -> I] :
         /\ \A k \in DOMAIN woken : woken[k] = due[at[k]]
         /\ \A k, m \in DOMAIN woken : at[k] = at[m] => k = m
         /\ \A i \in I : \E k \in DOMAIN woken : at[k] = i
  <2>1. I \in SUBSET DOMAIN due /\ due \in Seq(Timer(Int)) /\ woken = Those(due, I)
    BY <1>8, <1>14
  <2>2. \E at \in [DOMAIN woken -> I] :
         /\ \A k \in DOMAIN woken : woken[k] = due[at[k]]
         /\ \A k, m \in DOMAIN woken : at[k] = at[m] => k = m
         /\ \A i \in I : \E k \in DOMAIN woken : at[k] = i
    BY <2>1, ThoseFacts
  <2> QED
    BY <2>2
<1>17. /\ b \in Seq(Items) /\ Probe \notin Range(b)
       /\ Single(b, Notifier)
       /\ \A x : x \in Range(b) <=> \E i \in I : due[i].who = x
  <2>1. woken \in Seq(Timer(Int))
    <3>1. I \in SUBSET DOMAIN due
      BY <1>14
    <3> QED
      BY <1>8, <1>14, <3>1, ThoseFacts
  <2>2. \A i \in DOMAIN b : /\ b[i] = due[at[i]].who /\ at[i] \in I /\ at[i] \in DOMAIN due
                            /\ b[i] \in Sleepers
    <3>1. \A i \in DOMAIN woken : woken[i].who \in Sleepers
      <4>1. \A i \in DOMAIN woken : woken[i] \in Timer(Int)
        BY <2>1
      <4> QED
        BY <4>1 DEF Timer
    <3> QED
      BY <1>14, <1>16, <3>1
  <2>3. b \in Seq(Items)
    <3>1. PICK m \in Nat : DOMAIN woken = 1 .. m
      BY <2>1
    <3>2. b = [i \in 1 .. m |-> b[i]] /\ DOMAIN b = 1 .. m
      BY <1>14, <3>1, Zenon
    <3> QED
      BY <2>2, <3>1, <3>2, ItemsApart
  <2>4. Probe \notin Range(b)
    BY <2>2, ItemsApart DEF Range
  <2>5. Single(b, Notifier)
    <3> SUFFICES ASSUME NEW i \in DOMAIN b, NEW j \in DOMAIN b, b[i] = Notifier, b[j] = Notifier
                 PROVE  i = j
      BY DEF Single
    <3>1. at[i] = at[j]
      BY <1>2, <1>11, <2>2 DEF NapsOnce
    <3> QED
      BY <1>14, <1>16, <3>1
  <2>6. \A x : x \in Range(b) <=> \E i \in DOMAIN b : b[i] = x
    BY Zenon DEF Range
  <2>7. ASSUME NEW i \in I
        PROVE  \E k \in DOMAIN b : b[k] = due[i].who
    <3>1. PICK k \in DOMAIN woken : at[k] = i
      BY <1>16
    <3> QED
      BY <1>14, <2>2, <3>1
  <2> QED
    BY <2>2, <2>3, <2>4, <2>5, <2>6, <2>7
<1>18. PICK r : r = c.ready \o b
  OBVIOUS
<1>19. r \in Seq(Items) /\ Behind(r, c.ready, b)
  BY <1>2, <1>17, <1>18, Added
<1>20. PICK f : f = c.fired \cup {due[i].who : i \in DOMAIN due}
  OBVIOUS
<1>21. PICK now, g, x : /\ x = [c EXCEPT !.now = now, !.timers = s, !.fired = f, !.parked = g,
                                           !.ready = r]
                        /\ d = Activity(x)
  <2>1. /\ due = Due(c) /\ s = Pending(c)
        /\ c.ready \o [i \in DOMAIN Woken(c) |-> Woken(c)[i].who] = r
        /\ c.fired \cup {Due(c)[i].who : i \in DOMAIN Due(c)} = f
    BY <1>7, <1>14, <1>15, <1>18, <1>20, Zenon
  <2>2. PICK now, g : /\ now = IF c.now + Deadline(c) > Horizon THEN Horizon ELSE c.now + Deadline(c)
                      /\ g = c.parked - Cardinality({i \in DOMAIN Due(c) : Counted(Due(c)[i].who) = 1})
    OBVIOUS
  <2>3. Advance(c) = Activity([c EXCEPT !.now = now, !.timers = s, !.fired = f, !.parked = g,
                                        !.ready = r])
    BY <2>1, <2>2, Zenon DEF Advance
  <2> QED
    BY <2>3, Zenon
<1>22. /\ Shaped(x) /\ x.fired = f /\ x.ready = r /\ x.timers = s /\ x.armed = c.armed
  <2>1. c = [y \in Fields |-> c[y]] /\ c.quiet \in Nat
    BY DEF Ordered, Shaped
  <2>2. /\ x = [y \in Fields |-> x[y]] /\ x.quiet = c.quiet /\ x.fired = f
        /\ x.ready = r /\ x.timers = s /\ x.armed = c.armed
    BY <1>21, <2>1 DEF Fields
  <2> QED
    BY <1>12, <1>19, <2>1, <2>2 DEF Shaped
<1>23. /\ NotifierOnce(c) /\ Single(c.ready, Probe)
       /\ c.armed = IF Probe \in Range(c.ready) THEN TRUE ELSE FALSE
  BY Zenon DEF Ordered, ProbeOnce
<1>24. ProbeOnce(x)
  <2>1. Single(r, Probe) /\ (Probe \in Range(r) <=> Probe \in Range(c.ready))
    BY <1>17, <1>19, <1>23 DEF Behind
  <2> QED
    BY <1>22, <1>23, <2>1, Zenon DEF ProbeOnce
<1>25. Notifier \in Range(b) <=> \E i \in DOMAIN due : due[i].who = Notifier
  <2>1. Notifier \in Range(c.ready) => ~Naps(t)
    BY <1>1, <1>23 DEF NotifierOnce
  <2>2. ASSUME NEW i \in DOMAIN due, due[i].who = Notifier
        PROVE  i \in I
    BY <1>13, <1>14, <2>1, <2>2
  <2> QED
    BY <1>14, <1>17, <2>2
<1>26. NotifierOnce(x) /\ (Present(x) => Present(c))
  <2>1. /\ Single(c.ready, Notifier) /\ (Notifier \in Range(c.ready) => ~Naps(t))
        /\ Notifier \in c.fired => Notifier \in Range(c.ready)
    BY <1>1, <1>23 DEF NotifierOnce
  <2>2. Notifier \in Range(r) <=> Notifier \in Range(c.ready) \/ Notifier \in Range(b)
    BY <1>19 DEF Behind
  <2>3. Notifier \in Range(b) => ~Naps(s) /\ Naps(t)
    BY <1>13, <1>25
  <2>4. Single(r, Notifier)
    BY <1>17, <1>19, <2>1, <2>3 DEF Behind
  <2>5. Notifier \in f => Notifier \in Range(r)
    BY <1>20, <1>25, <2>1, <2>2
  <2>6. Notifier \in Range(r) => ~Naps(s)
    BY <1>13, <2>1, <2>2, <2>3
  <2>7. NotifierOnce(x)
    BY <1>13, <1>22, <2>4, <2>5, <2>6 DEF NotifierOnce
  <2> QED
    BY <1>1, <1>13, <1>22, <2>2, <2>3, <2>7 DEF Present
<1>27. Ordered(x)
  BY <1>22, <1>24, <1>26 DEF Ordered
<1> QED
  BY <1>21, <1>26, <1>27, ActivityOrdered

\* The notifier is taken off the queue, and its sleep is over.
LEMMA NotifierTaken ==
  ASSUME Ordered(clock), clock.ready # <<>>, Next1 = Notifier,
         NEW f, f \subseteq clock.fired, Notifier \notin f, NEW c, c = [Popped EXCEPT !.fired = f]
  PROVE  /\ Ordered(c) /\ ~Present(c) /\ c.quiet = clock.quiet /\ c.fired = f
         /\ \A C : Quieter(clock.ready, clock.quiet, C) =>
                     /\ Quieter(c.ready, c.quiet, C)
                     /\ clock.quiet >= 2 => Notifier \in C
<1>1. PICK s, r, h : s = clock.ready /\ r = Tail(s) /\ h = Head(s)
  OBVIOUS
<1>2. s \in Seq(Items) /\ s # <<>> /\ clock.quiet \in Nat /\ h = Notifier /\ h # Probe
  BY <1>1, ItemsApart DEF Ordered, Shaped, Next1
<1>3. r \in Seq(Items) /\ Before(r, s, h)
  BY <1>1, <1>2, Taken
<1>4. c = [clock EXCEPT !.ready = r, !.fired = f]
  BY <1>1, Zenon DEF Popped
<1>5. /\ Shaped(c) /\ c.quiet = clock.quiet /\ c.fired = f
      /\ c.ready = r /\ c.timers = clock.timers /\ c.armed = clock.armed
  BY <1>3, <1>4 DEF Ordered, Shaped, Fields
<1>6. Probe \in Range(s) <=> Probe \in Range(r)
  BY <1>2, <1>3 DEF Before
<1>7. ProbeOnce(c)
  <2>1. Single(s, Probe) /\ clock.armed = IF Probe \in Range(s) THEN TRUE ELSE FALSE
    BY <1>1, Zenon DEF Ordered, ProbeOnce
  <2> QED
    BY <1>3, <1>5, <1>6, <2>1, Zenon DEF ProbeOnce, Before
<1>8. NotifierOnce(c) /\ ~Present(c)
  <2>1. /\ Single(s, Notifier) /\ NapsOnce(clock.timers)
        /\ Notifier \in Range(s) => ~Naps(clock.timers)
    BY <1>1, Zenon DEF Ordered, NotifierOnce
  <2>2. Single(r, Notifier) /\ Notifier \notin Range(r) /\ Notifier \in Range(s)
    BY <1>2, <1>3, <2>1 DEF Before
  <2> QED
    BY <1>5, <2>1, <2>2, Zenon DEF NotifierOnce, Present
<1>9. ASSUME NEW C, Quieter(clock.ready, clock.quiet, C)
      PROVE  Quieter(c.ready, c.quiet, C) /\ (clock.quiet >= 2 => Notifier \in C)
  <2>1. Quieter(r, clock.quiet, C) /\ (clock.quiet >= 2 => Head(s) \in C)
    BY <1>1, <1>2, <1>9, QuieterTaken
  <2> QED
    BY <1>1, <1>2, <1>5, <2>1
<1> QED
  BY <1>5, <1>7, <1>8, <1>9 DEF Ordered

\* The notifier goes to sleep for the cool-down.
LEMMA NotifierSleepsOrdered ==
  ASSUME Ordered(clock), Pooled(pool), Present(clock) => pool.notifier # 0, NotifierSleeps
  PROVE  /\ Ordered(clock') /\ clock'.fired = clock.fired /\ clock'.quiet = 0
         /\ pool.notifier # 0
<1>1. /\ clock.ready # <<>> /\ Next1 = Notifier /\ Notifier \notin clock.fired
      /\ clock' = Sleep(Popped, Notifier, pool.notifier)
  BY DEF NotifierSleeps, Loop
<1>2. Present(clock)
  <2>1. PICK s : s = clock.ready
    OBVIOUS
  <2>2. s \in Seq(Items) /\ s # <<>> /\ Head(s) = Notifier
    BY <1>1, <2>1 DEF Ordered, Shaped, Next1
  <2>3. 1 \in DOMAIN s /\ s[1] = Notifier
    BY <2>2
  <2>4. Notifier \in Range(s)
    BY <2>3 DEF Range
  <2> QED
    BY <2>1, <2>4 DEF Present
<1>3. PICK c : c = Popped
  OBVIOUS
<1>4. PICK f : f = clock.fired
  OBVIOUS
<1>5. c = [Popped EXCEPT !.fired = f]
  BY <1>3, <1>4 DEF Popped, Ordered, Shaped, Fields
<1>6. Ordered(c) /\ ~Present(c) /\ c.fired = f
  BY <1>1, <1>4, <1>5, NotifierTaken
<1>7. pool.notifier \in Nat /\ pool.notifier # 0 /\ Notifier \in Sleepers
  BY <1>2 DEF Pooled, Sleepers
<1>8. PICK n : n = pool.notifier
  OBVIOUS
<1>9. n \in Nat /\ n # 0 /\ clock' = Sleep(c, Notifier, n)
  BY <1>1, <1>3, <1>7, <1>8
<1>10. Ordered(clock') /\ clock'.fired = c.fired /\ clock'.quiet = 0
  BY <1>6, <1>7, <1>9, SleepOrdered
<1> QED
  BY <1>4, <1>6, <1>7, <1>10

\* The notifier, woken, tells the waiters; the clock has not been quiet for two probes.
LEMMA NotifierTellsOrdered ==
  ASSUME Ordered(clock), Pooled(pool), NotifierTells,
         NEW C, Quieter(clock.ready, clock.quiet, C), \A v \in Range(pool.waiters) : Runs(v) \in C,
         Notifier \notin C,
         NEW D, C \subseteq D, Notifier \in D
  PROVE  /\ Ordered(clock') /\ Notifier \notin clock'.fired /\ clock'.fired \subseteq clock.fired
         /\ clock'.quiet = clock.quiet /\ Quieter(clock'.ready, clock'.quiet, D) /\ clock.quiet < 2
         /\ Pooled(pool') /\ pool'.waiters = pool.waiters
         /\ Present(clock') => pool'.notifier # 0
<1>1. PICK p : p = [pool EXCEPT !.notifier = 0]
  OBVIOUS
<1>2. /\ clock.ready # <<>> /\ Next1 = Notifier /\ Notifier \in clock.fired
      /\ clock' = Starts(p, Wakes(p, SleepEnds(Popped, Notifier)))
      /\ pool' = Armed(Told(p))
  BY <1>1, Zenon DEF NotifierTells, Loop
<1>3. Pooled(p) /\ p.waiters = pool.waiters
  BY <1>1 DEF Pooled
<1>4. PICK f : f = clock.fired \ {Notifier}
  OBVIOUS
<1>5. PICK c : c = [Popped EXCEPT !.fired = f]
  OBVIOUS
<1>6. /\ Ordered(c) /\ ~Present(c) /\ c.quiet = clock.quiet /\ c.fired = f
      /\ Quieter(c.ready, c.quiet, C) /\ ~(clock.quiet >= 2)
  <2>1. f \subseteq clock.fired /\ Notifier \notin f
    BY <1>4
  <2>2. /\ Ordered(c) /\ ~Present(c) /\ c.quiet = clock.quiet /\ c.fired = f
        /\ \A X : Quieter(clock.ready, clock.quiet, X) =>
                    /\ Quieter(c.ready, c.quiet, X)
                    /\ clock.quiet >= 2 => Notifier \in X
    BY <1>2, <1>5, <2>1, NotifierTaken
  <2>3. Quieter(c.ready, c.quiet, C) /\ (clock.quiet >= 2 => Notifier \in C)
    BY <2>2
  <2> QED
    BY <2>2, <2>3
<1>7. SleepEnds(Popped, Notifier) = c
  <2>1. PICK e : e = Popped
    OBVIOUS
  <2>2. e.timers = clock.timers /\ e.fired = clock.fired /\ c.timers = clock.timers
    BY <1>5, <2>1 DEF Popped, Ordered, Shaped, Fields
  <2>3. ~ \E i \in DOMAIN e.timers : e.timers[i].who = Notifier
    BY <1>6, <2>2 DEF Present, Naps
  <2>4. SleepEnds(e, Notifier) = [e EXCEPT !.fired = f]
    BY <1>4, <2>2, <2>3, Zenon DEF SleepEnds
  <2> QED
    BY <1>5, <2>1, <2>4, Zenon
<1>8. clock' = Starts(p, Wakes(p, c))
  BY <1>2, <1>7, Zenon
<1>9. Quieter(c.ready, c.quiet, D)
  BY <1>6, QuieterWider
<1>10. /\ Ordered(clock') /\ clock'.fired = c.fired /\ Steady(c, clock', D)
       /\ Pooled(pool') /\ pool'.waiters = p.waiters /\ (Present(clock') => pool'.notifier # 0)
  <2>1. Present(c) => p.notifier # 0
    BY <1>6
  <2>2. \A v \in Range(p.waiters) : Runs(v) \in D
    BY <1>3
  <2>3. Notifier \notin c.fired => Notifier \in D
    OBVIOUS
  <2> QED
    BY <1>2, <1>3, <1>6, <1>8, <2>1, <2>2, <2>3, ToldFacts
<1>11. clock.quiet \in Nat
  BY DEF Ordered, Shaped
<1> QED
  BY <1>3, <1>4, <1>6, <1>9, <1>10, <1>11 DEF Steady

-----------------------------------------------------------------------------
(* The invariant: what may be queued, by how long the clock has been quiet. *)

\* Where a worker is that has work to do which no time need pass for.
Deep == {"start", "call", "claim", "perform", "answer", "failed"}

\* What may be queued while the clock has been quiet: no notifier that has slept, and
\* no worker that comes out of a call.
CalmAt(fired, at) ==
  {x \in Items : /\ ~(x = Notifier /\ Notifier \in fired)
                 /\ \A w \in Workers : x = Runs(w) => at[w] \notin Deep}
Calm == CalmAt(clock.fired, pc)

\* The line of waiters, and who is in it.
InLine(s, at, alg) ==
  /\ \A w \in Range(s) : at[w] \in {"wait", "acquire"} /\ alg = "wait"
  /\ \A w \in Workers : at[w] = "wait" => w \in Range(s)
  /\ \A w \in Workers : at[w] = "nap" => alg # "wait"
Waits == InLine(pool.waiters, pc, algorithm)

\* How quiet the clock may have been when a worker runs.
Settled(q, w, at, s, alg) ==
  w # Nobody => /\ q >= 1 => at[w] # "perform"
                /\ q >= 2 => \/ at[w] = "enter"
                             \/ at[w] = "acquire" /\ (w \in Range(s) \/ alg # "wait")
                /\ q < 3
Settles == Settled(clock.quiet, running, pc, pool.waiters, algorithm)

\* The inductive invariant of a run that is not being cancelled.
TimeInv ==
  ~cancelled => /\ Ordered(clock) /\ Pooled(pool) /\ (Present(clock) => pool.notifier # 0)
                /\ Waits /\ Quieter(clock.ready, clock.quiet, Calm) /\ Settles

\* SetToSeq of a finite set is a sequence of it.
LEMMA InSequence ==
  ASSUME NEW S, IsFiniteSet(S), S # {}, NEW o, o = SetToSeq(S)
  PROVE  o \in Seq(S) /\ o # <<>>
<1>1. PICK n \in Nat : n = Cardinality(S)
  BY FS_CardinalityType
<1>2. n # 0
  BY <1>1, FS_EmptySet
<1>3. ExistsBijection(1 .. n, S)
  BY <1>1, FS_CardinalityType
<1>4. \E f \in [1 .. n -> S] : IsInjective(f)
  BY <1>3 DEF ExistsBijection, Bijection, Injection
<1>5. o = CHOOSE f \in [1 .. n -> S] : IsInjective(f)
  BY <1>1, Zenon DEF SetToSeq
<1>6. o \in [1 .. n -> S]
  BY <1>4, <1>5, Zenon
<1> QED
  BY <1>2, <1>6

\* It holds when the run starts.
LEMMA TimeInit == Init => TimeInv
<1> SUFFICES ASSUME Init
             PROVE  TimeInv
  OBVIOUS
<1>1. PICK o : o = SetToSeq(Workers)
  OBVIOUS
<1>2. o \in Seq(Workers) /\ o # <<>>
  BY <1>1, InSequence, SimulationAssumption
<1>3. PICK n \in Nat : n = Len(o) - 1 /\ DOMAIN o = 1 .. n + 1
  BY <1>2
<1>4. PICK a, b : a = <<Runs(o[1]), Probe>> /\ b = [i \in 1 .. n |-> Runs(o[i + 1])]
  OBVIOUS
<1>5. /\ clock = [ready |-> a \o b, timers |-> <<>>, fired |-> {}, parked |-> 0, blocked |-> 0,
                  quiet |-> 0, armed |-> TRUE, workers |-> Workers, now |-> 0]
      /\ running = Nobody /\ pc = [w \in Workers |-> "start"]
      /\ pool = [slots |-> [e \in Endpoints |->
                              [active |-> 0, state |-> "ready", left |-> 0, fails |-> 0]],
                 waiters |-> <<>>, woken |-> {}, notifier |-> 0]
  BY <1>1, <1>3, <1>4, Zenon DEF Init
<1>6. /\ a \in Seq(Items) /\ Range(a) = {Runs(o[1]), Probe} /\ Single(a, Probe)
      /\ Notifier \notin Range(a)
  <2>1. o[1] \in Workers
    BY <1>2
  <2>2. Runs(o[1]) \in Items /\ Runs(o[1]) # Probe /\ Runs(o[1]) # Notifier /\ Probe \in Items
        /\ Probe # Notifier
    BY <2>1, ItemsApart
  <2>3. DOMAIN a = {1, 2} /\ a[1] = Runs(o[1]) /\ a[2] = Probe /\ a \in Seq(Items)
    BY <1>4, <2>2
  <2> QED
    BY <2>2, <2>3 DEF Range, Single
<1>7. b \in Seq(Items) /\ Probe \notin Range(b) /\ Notifier \notin Range(b)
  <2>1. \A i \in 1 .. n : i + 1 \in DOMAIN o
    BY <1>3
  <2>2. \A i \in 1 .. n : o[i + 1] \in Workers
    BY <1>2, <2>1
  <2>3. \A i \in 1 .. n : b[i] \in Items /\ b[i] # Probe /\ b[i] # Notifier
    BY <1>4, <2>2, ItemsApart
  <2>4. b \in Seq(Items) /\ DOMAIN b = 1 .. n
    BY <1>4, <2>3
  <2> QED
    BY <2>3, <2>4 DEF Range
<1>8. PICK r : r = a \o b
  OBVIOUS
<1>9. r \in Seq(Items) /\ Behind(r, a, b)
  BY <1>6, <1>7, <1>8, Added
<1>10. /\ Single(r, Probe) /\ Probe \in Range(r) /\ Notifier \notin Range(r)
  BY <1>6, <1>7, <1>9 DEF Behind
<1>11. Single(r, Notifier)
  BY <1>10 DEF Single, Range
<1>12. /\ clock.ready = r /\ clock.timers = <<>> /\ clock.fired = {} /\ clock.quiet = 0
       /\ clock = [f \in Fields |-> clock[f]]
  BY <1>5, <1>8 DEF Fields
<1>13. clock.armed = TRUE
  BY <1>5, Zenon
<1>14. Ordered(clock) /\ ~Present(clock)
  <2>1. NapsOnce(clock.timers) /\ ~Naps(clock.timers)
    BY <1>12 DEF NapsOnce, Naps
  <2>2. Shaped(clock)
    BY <1>9, <1>12 DEF Shaped
  <2>3. ProbeOnce(clock)
    BY <1>10, <1>12, <1>13, Zenon DEF ProbeOnce
  <2>4. NotifierOnce(clock) /\ ~Present(clock)
    BY <1>10, <1>11, <1>12, <2>1 DEF NotifierOnce, Present
  <2> QED
    BY <2>2, <2>3, <2>4 DEF Ordered
<1>15. Pooled(pool)
  BY <1>5 DEF Pooled, Slot
<1>16. Waits
  BY <1>5 DEF Waits, InLine, Range
<1>17. Quieter(clock.ready, clock.quiet, Calm) /\ Settles
  BY <1>5, <1>12 DEF Quieter, Settles, Settled
<1> QED
  BY <1>14, <1>15, <1>16, <1>17 DEF TimeInv

-----------------------------------------------------------------------------
(* The steps of a worker. *)

\* A worker that moves does not make a calm callback less so.
LEMMA CalmKept ==
  ASSUME pc \in [Workers -> Places], NEW w \in Workers, NEW there, Goes(w, there),
         there \in Deep => pc[w] \in Deep, Notifier \in clock'.fired => Notifier \in clock.fired
  PROVE  Calm \subseteq Calm'
<1>1. \A v \in Workers : pc'[v] \in Deep => pc[v] \in Deep
  BY DEF Goes
<1> SUFFICES ASSUME NEW x \in CalmAt(clock.fired, pc)
             PROVE  x \in CalmAt(clock'.fired, pc')
  BY DEF Calm
<1> QED
  BY <1>1 DEF CalmAt

\* A worker that is not in line, or stays in it, goes elsewhere.
LEMMA LineKept ==
  ASSUME pc \in [Workers -> Places], Waits, NEW w \in Workers, NEW there, Goes(w, there),
         there \notin {"wait", "nap"}, there = "acquire" \/ pc[w] \notin {"wait", "acquire"},
         UNCHANGED algorithm, pool'.waiters = pool.waiters
  PROVE  Waits'
<1>1. pc'[w] = there /\ \A v \in Workers : v # w => pc'[v] = pc[v]
  BY DEF Goes
<1>2. \A v \in Range(pool.waiters) : pc[v] \in {"wait", "acquire"} /\ algorithm = "wait"
  BY DEF Waits, InLine
<1>3. \A v \in Range(pool.waiters) : pc'[v] \in {"wait", "acquire"}
  BY <1>2 DEF Goes
<1>4. \A v \in Workers : /\ pc'[v] = "wait" => v \in Range(pool.waiters)
                         /\ pc'[v] = "nap" => algorithm # "wait"
  BY <1>1 DEF Waits, InLine
<1> QED
  BY <1>2, <1>3, <1>4 DEF Waits, InLine

\* What a step leaves to show when it stirs the clock,
LEMMA Stirred ==
  ASSUME Ordered(clock'), Pooled(pool'), Present(clock') => pool'.notifier # 0, Waits',
         clock'.quiet = 0
  PROVE  TimeInv'
<1>1. Quieter(clock'.ready, clock'.quiet, Calm') /\ Settles'
  BY DEF Quieter, Settles, Settled
<1> QED
  BY <1>1 DEF TimeInv

\* and when it does not, and a worker has work to do.
LEMMA Silent ==
  ASSUME pc \in [Workers -> Places], TimeInv, ~cancelled, NEW w \in Workers, running = w,
         NEW there, Goes(w, there), there \in Deep => pc[w] \in Deep,
         Notifier \in clock'.fired => Notifier \in clock.fired,
         clock.quiet < 2, Steady(clock, clock', Calm'), there # "perform", running' \in {w, Nobody},
         Ordered(clock'), Pooled(pool'), Present(clock') => pool'.notifier # 0, Waits'
  PROVE  TimeInv'
<1>1. Quieter(clock.ready, clock.quiet, Calm')
  <2>1. Calm \subseteq Calm'
    BY CalmKept
  <2> QED
    BY <2>1, QuieterWider DEF TimeInv
<1>2. Quieter(clock'.ready, clock'.quiet, Calm') /\ clock'.quiet = clock.quiet
  BY <1>1 DEF Steady
<1>3. clock.quiet \in Nat
  BY DEF TimeInv, Ordered, Shaped
<1>4. pc'[w] # "perform"
  BY DEF Goes
<1>5. Settles'
  BY <1>2, <1>3, <1>4, SimulationAssumption DEF Settles, Settled
<1> QED
  BY <1>2, <1>5 DEF TimeInv

\* A clock left alone is steady.
LEMMA SameSteady ==
  ASSUME NEW C, clock' = clock
  PROVE  Steady(clock, clock', C)
BY DEF Steady

\* Who may run when.
LEMMA RunsWhen ==
  ASSUME CountInv, TimeInv, ~cancelled, NEW w \in Workers, running = w
  PROVE  /\ pc \in [Workers -> Places] /\ Ordered(clock) /\ Pooled(pool)
         /\ Present(clock) => pool.notifier # 0
         /\ Waits /\ clock.quiet \in Nat
         /\ pc[w] = "perform" => clock.quiet = 0
         /\ pc[w] \in Deep => clock.quiet < 2
         /\ pc[w] = "acquire" => \/ clock.quiet < 2
                                 \/ w \in Range(pool.waiters) \/ algorithm # "wait"
         /\ w # Nobody
<1>1. w # Nobody
  BY SimulationAssumption
<1>2. clock.quiet \in Nat /\ Settled(clock.quiet, w, pc, pool.waiters, algorithm)
  BY DEF TimeInv, Ordered, Shaped, Settles
<1> QED
  BY <1>1, <1>2 DEF CountInv, TimeInv, Settled, Deep

\* One lemma per step of a worker's stretch; each also fires no timer.
LEMMA ClaimTimes ==
  ASSUME CountInv, TimeInv, ~cancelled, NEW w \in Workers, Claim(w) \/ GiveUp(w)
  PROVE  TimeInv' /\ clock'.fired \subseteq clock.fired
<1>1. PICK there \in {"enter", "claim"} :
        /\ running = w /\ running' = w /\ Goes(w, there) /\ pc[w] \in {"claim", "failed"}
        /\ clock' = clock /\ pool' = pool /\ algorithm' = algorithm
  BY DEF Claim, GiveUp, At
<1>2. Waits'
  BY <1>1, RunsWhen, LineKept
<1>3. clock.quiet < 2
  BY <1>1, RunsWhen DEF Deep
<1>4. Steady(clock, clock', Calm')
  BY <1>1, SameSteady
<1>5. pc[w] \in Deep
  BY <1>1 DEF Deep
<1> QED
  BY <1>1, <1>2, <1>3, <1>4, <1>5, RunsWhen, Silent

LEMMA EndsTimes ==
  ASSUME CountInv, TimeInv, ~cancelled, NEW w \in Workers, Ends(w)
  PROVE  TimeInv' /\ clock'.fired \subseteq clock.fired
<1>1. /\ running = w /\ running' = Nobody /\ Goes(w, "done") /\ pc[w] = "claim"
      /\ clock' = [clock EXCEPT !.ready = Append(@, Gone(w))]
      /\ pool' = pool /\ algorithm' = algorithm
  BY DEF Ends, Awaits, At
<1>2. Waits' /\ pc[w] \in Deep /\ clock.quiet < 2 /\ Ordered(clock)
  BY <1>1, RunsWhen, LineKept DEF Deep
<1>3. PICK b : b = <<Gone(w)>>
  OBVIOUS
<1>4. Gone(w) \in Items /\ Gone(w) # Probe /\ Gone(w) # Notifier /\ \A v \in Workers : Gone(w) # Runs(v)
  BY ItemsApart
<1>5. clock.ready \in Seq(Items)
  BY <1>2 DEF Ordered, Shaped
<1>6. /\ b \in Seq(Items) /\ Append(clock.ready, Gone(w)) = clock.ready \o b
      /\ (\A y : y \in Range(b) <=> y = Gone(w)) /\ (\A y : Single(b, y))
  BY <1>3, <1>4, <1>5, One
<1>7. clock' = [clock EXCEPT !.ready = @ \o b]
  BY <1>1, <1>6, Zenon
<1>8. Probe \notin Range(b) /\ Notifier \notin Range(b) /\ Single(b, Notifier)
  BY <1>4, <1>6
<1>9. PICK d : d = clock'
  OBVIOUS
<1>10. d = [clock EXCEPT !.ready = @ \o b]
  BY <1>7, <1>9
<1>11. /\ Ordered(d) /\ d.quiet = clock.quiet /\ d.fired = clock.fired
       /\ d.ready = clock.ready \o b /\ (Present(d) => Present(clock))
  BY <1>2, <1>6, <1>8, <1>10, Queued
<1>12. Range(b) \subseteq Calm'
  <2>1. Gone(w) \in Calm'
    BY <1>4 DEF Calm, CalmAt
  <2> QED
    BY <1>6, <2>1
<1>13. Steady(clock, d, Calm')
  BY <1>2, <1>6, <1>11, <1>12, QueuedSteady
<1> QED
  BY <1>1, <1>2, <1>9, <1>11, <1>13, RunsWhen, Silent DEF Deep

LEMMA EnterTimes ==
  ASSUME CountInv, TimeInv, ~cancelled, NEW w \in Workers, Enter(w)
  PROVE  TimeInv' /\ clock'.fired \subseteq clock.fired
<1>1. /\ running = w /\ Goes(w, "acquire") /\ pc[w] = "enter" /\ clock' = EnterBlocked(clock)
      /\ pool' = pool /\ algorithm' = algorithm
  BY DEF Enter, At
<1>2. Waits'
  BY <1>1, RunsWhen, LineKept
<1>3. /\ Ordered(clock') /\ clock'.quiet = 0 /\ clock'.fired = clock.fired
      /\ Present(clock') => Present(clock)
  BY <1>1, RunsWhen, BlockedOrdered
<1> QED
  BY <1>1, <1>2, <1>3, RunsWhen, Stirred

\* Leaving the line.
LEMMA LeftOut ==
  ASSUME NEW S, NEW s \in Seq(S), NEW x, NEW r, r = Without(s, x)
  PROVE  r \in Seq(S) /\ \A y : y \in Range(r) <=> y \in Range(s) /\ y # x
<1>1. PICK I : I = {i \in DOMAIN s : s[i] # x}
  OBVIOUS
<1>2. I \in SUBSET DOMAIN s /\ r = Those(s, I)
  BY <1>1 DEF Without
<1>3. r \in Seq(S) /\ \A y : y \in Range(r) <=> \E i \in I : s[i] = y
  BY <1>2, Chosen
<1>4. \A y : y \in Range(s) <=> \E i \in DOMAIN s : s[i] = y
  BY InRange
<1> QED
  BY <1>1, <1>3, <1>4

LEMMA AcquireTimes ==
  ASSUME CountInv, TimeInv, ~cancelled, NEW w \in Workers, Acquire(w)
  PROVE  TimeInv' /\ clock'.fired \subseteq clock.fired
<1>0. /\ pc \in [Workers -> Places] /\ Ordered(clock) /\ Pooled(pool)
      /\ Present(clock) => pool.notifier # 0
      /\ Waits
  <2>1. running = w
    BY DEF Acquire, At
  <2> QED
    BY <2>1, RunsWhen
<1>1. PICK e \in Endpoints :
        /\ Goes(w, "perform") /\ pc[w] = "acquire" /\ clock' = LeaveBlocked(clock)
        /\ pool' = [pool EXCEPT !.slots[e].active = @ + 1, !.waiters = Without(@, w),
                                !.woken = @ \ {w}]
        /\ algorithm' = algorithm
  BY DEF Acquire, At
<1>2. PICK s : s = Without(pool.waiters, w)
  OBVIOUS
<1>3. s \in Seq(Workers) /\ \A v : v \in Range(s) <=> v \in Range(pool.waiters) /\ v # w
  <2>1. pool.waiters \in Seq(Workers)
    BY <1>0 DEF Pooled
  <2> QED
    BY <1>2, <2>1, LeftOut
<1>4. PICK u : u = [pool.slots[e] EXCEPT !.active = pool.slots[e].active + 1]
  OBVIOUS
<1>5. PICK g : g = pool.woken \ {w}
  OBVIOUS
<1>6. pool' = [pool EXCEPT !.slots = [pool.slots EXCEPT ![e] = u], !.waiters = s, !.woken = g]
  BY <1>1, <1>2, <1>4, <1>5
<1>7. u \in Slot /\ (u.state = "degraded" => u.left # 0)
  <2>1. pool.slots[e] \in Slot /\ (pool.slots[e].state = "degraded" => pool.slots[e].left # 0)
    BY <1>0 DEF Pooled
  <2> QED
    BY <1>4, <2>1 DEF Slot
<1>8. Pooled(pool') /\ pool'.waiters = s /\ pool'.notifier = pool.notifier
  <2>1. [pool.slots EXCEPT ![e] = u] \in [Endpoints -> Slot] /\ g \in SUBSET Workers
    BY <1>0, <1>5, <1>7 DEF Pooled
  <2> QED
    BY <1>0, <1>3, <1>6, <1>7, <2>1 DEF Pooled
<1>9. Waits'
  <2>1. pc'[w] = "perform" /\ \A v \in Workers : v # w => pc'[v] = pc[v]
    BY <1>0, <1>1 DEF Goes
  <2>2. \A v \in Range(pool.waiters) : v \in Workers
    BY <1>0, InRange DEF Pooled
  <2> QED
    BY <1>0, <1>1, <1>3, <1>8, <2>1, <2>2 DEF Waits, InLine
<1>10. /\ Ordered(clock') /\ clock'.quiet = 0 /\ clock'.fired = clock.fired
       /\ Present(clock') => Present(clock)
  BY <1>0, <1>1, BlockedOrdered
<1>11. TimeInv'
  BY <1>0, <1>8, <1>9, <1>10, Stirred
<1> QED
  BY <1>10, <1>11

LEMMA UnavailableTimes ==
  ASSUME CountInv, TimeInv, ~cancelled, NEW w \in Workers, Unavailable(w)
  PROVE  TimeInv' /\ clock'.fired \subseteq clock.fired
<1>1. /\ running = w /\ Goes(w, "failed") /\ pc[w] = "acquire" /\ clock' = LeaveBlocked(clock)
      /\ pool' = pool /\ algorithm' = algorithm /\ algorithm = "immediate"
  BY DEF Unavailable, At
<1>2. Waits'
  <2>1. pc'[w] = "failed" /\ \A v \in Workers : v # w => pc'[v] = pc[v]
    BY <1>1, RunsWhen DEF Goes
  <2>2. ~ \E v : v \in Range(pool.waiters)
    BY <1>1, RunsWhen DEF Waits, InLine
  <2> QED
    BY <1>1, <2>1, <2>2, RunsWhen DEF Waits, InLine
<1>3. /\ Ordered(clock') /\ clock'.quiet = 0 /\ clock'.fired = clock.fired
      /\ Present(clock') => Present(clock)
  BY <1>1, RunsWhen, BlockedOrdered
<1> QED
  BY <1>1, <1>2, <1>3, RunsWhen, Stirred

LEMMA NapTimes ==
  ASSUME CountInv, TimeInv, ~cancelled, NEW w \in Workers, Nap(w)
  PROVE  TimeInv' /\ clock'.fired \subseteq clock.fired
<1>1. PICK n \in Nat \ {0} :
        /\ running = w /\ Goes(w, "nap") /\ pc[w] = "acquire" /\ clock' = Sleep(clock, Runs(w), n)
        /\ pool' = pool /\ algorithm' = algorithm /\ algorithm = "backoff"
  BY SimulationAssumption DEF Nap, Awaits, At
<1>2. Waits'
  <2>1. pc'[w] = "nap" /\ \A v \in Workers : v # w => pc'[v] = pc[v]
    BY <1>1, RunsWhen DEF Goes
  <2>2. ~ \E v : v \in Range(pool.waiters)
    BY <1>1, RunsWhen DEF Waits, InLine
  <2> QED
    BY <1>1, <2>1, <2>2, RunsWhen DEF Waits, InLine
<1>3. /\ Ordered(clock') /\ clock'.quiet = 0 /\ clock'.fired = clock.fired
      /\ Present(clock') => Present(clock)
  <2>1. Runs(w) \in Sleepers /\ Runs(w) # Notifier
    BY RunsSleep, ItemsApart
  <2> QED
    BY <1>1, <2>1, RunsWhen, SleepOrdered
<1> QED
  BY <1>1, <1>2, <1>3, RunsWhen, Stirred

\* The clock did not see the notifier fire: it may be queued.
LEMMA NotifierCalm ==
  ASSUME NEW c, Notifier \in clock'.fired => Notifier \in c.fired
  PROVE  Notifier \notin c.fired => Notifier \in Calm'
BY ItemsApart DEF Calm, CalmAt

\* A waiter may be queued while it is quiet.
LEMMA WaitingCalm ==
  ASSUME NEW v \in Workers, pc'[v] \notin Deep
  PROVE  Runs(v) \in Calm'
BY ItemsApart, NamesApart DEF Calm, CalmAt, Runs

\* A worker waits, at its place in line or at the end of it.
LEMMA LineJoined ==
  ASSUME pc \in [Workers -> Places], Waits, NEW w \in Workers, Goes(w, "wait"),
         algorithm = "wait", UNCHANGED algorithm,
         NEW s, s = pool'.waiters, \A v : v \in Range(s) <=> v \in Range(pool.waiters) \/ v = w
  PROVE  Waits'
<1>1. pc'[w] = "wait" /\ \A v \in Workers : v # w => pc'[v] = pc[v]
  BY DEF Goes
<1>2. ASSUME NEW v \in Range(s)
      PROVE  pc'[v] \in {"wait", "acquire"}
  <2>1. v = w \/ pc[v] \in {"wait", "acquire"}
    BY <1>2 DEF Waits, InLine
  <2> QED
    BY <1>1, <2>1 DEF Goes
<1>3. ASSUME NEW v \in Workers, pc'[v] = "wait"
      PROVE  v \in Range(s)
  BY <1>1, <1>3 DEF Waits, InLine
<1>4. ASSUME NEW v \in Workers, pc'[v] = "nap"
      PROVE  FALSE
  BY <1>1, <1>4 DEF Waits, InLine
<1> QED
  BY <1>2, <1>3, <1>4 DEF Waits, InLine

LEMMA WaitSlotTimes ==
  ASSUME CountInv, TimeInv, ~cancelled, NEW w \in Workers, WaitSlot(w)
  PROVE  TimeInv' /\ clock'.fired \subseteq clock.fired
<1>0. /\ running = w /\ running' = Nobody /\ Goes(w, "wait") /\ pc[w] = "acquire"
      /\ algorithm' = algorithm /\ algorithm = "wait"
  BY DEF WaitSlot, Awaits, At
<1>1. /\ pc \in [Workers -> Places] /\ Ordered(clock) /\ Pooled(pool)
      /\ Present(clock) => pool.notifier # 0
      /\ Waits /\ clock.quiet \in Nat
      /\ clock.quiet < 2 \/ w \in Range(pool.waiters)
  BY <1>0, RunsWhen
<1>2. pc'[w] = "wait" /\ \A v \in Workers : v # w => pc'[v] = pc[v]
  BY <1>0, <1>1 DEF Goes
<1>3. /\ "wait" \notin Deep /\ "wait" # "perform" /\ pool.waiters \in Seq(Workers)
      /\ \A v \in Range(pool.waiters) : v \in Workers
  BY <1>1, InRange DEF Deep, Pooled
<1>4. PICK g : g = pool.woken \ {w}
  OBVIOUS
<1>5. CASE w \in Range(pool.waiters)
  <2>1. pool' = [pool EXCEPT !.waiters = pool.waiters, !.woken = g] /\ clock' = clock
    BY <1>4, <1>5 DEF WaitSlot
  <2>2. Pooled(pool') /\ pool'.waiters = pool.waiters /\ pool'.notifier = pool.notifier
    BY <1>1, <1>4, <2>1 DEF Pooled
  <2>3. Waits'
    <3>1. \A v : v \in Range(pool'.waiters) <=> v \in Range(pool.waiters) \/ v = w
      BY <1>5, <2>2
    <3> QED
      BY <1>0, <1>1, <3>1, LineJoined
  <2>4. Quieter(clock'.ready, clock'.quiet, Calm')
    <3>1. Calm \subseteq Calm'
      BY <1>0, <1>1, <1>3, <2>1, CalmKept
    <3> QED
      BY <2>1, <3>1, QuieterWider DEF TimeInv
  <2>5. Settles'
    BY <1>0 DEF Settles, Settled
  <2> QED
    BY <1>1, <2>1, <2>2, <2>3, <2>4, <2>5 DEF TimeInv
<1>6. CASE w \notin Range(pool.waiters)
  <2>1. PICK s : s = Append(pool.waiters, w)
    OBVIOUS
  <2>2. s \in Seq(Workers) /\ \A v : v \in Range(s) <=> v \in Range(pool.waiters) \/ v = w
    <3>1. PICK t, b : t = pool.waiters /\ b = <<w>>
      OBVIOUS
    <3>2. t \in Seq(Workers) /\ s = t \o b /\ b \in Seq(Workers) /\ \A y : y \in Range(b) <=> y = w
      BY <1>3, <2>1, <3>1, One
    <3>3. s \in Seq(Workers) /\ Behind(s, t, b)
      BY <3>2, Added
    <3> QED
      BY <3>1, <3>2, <3>3 DEF Behind
  <2>3. PICK p : p = [pool EXCEPT !.waiters = s, !.woken = g]
    OBVIOUS
  <2>4. pool' = Armed(p) /\ clock' = Starts(p, clock)
    BY <1>4, <1>6, <2>1, <2>3, Zenon DEF WaitSlot
  <2>5. Pooled(p) /\ p.waiters = s /\ p.notifier = pool.notifier
    BY <1>1, <1>4, <2>2, <2>3 DEF Pooled
  <2>6. PICK d : d = clock'
    OBVIOUS
  <2>7. PICK q : q = pool'
    OBVIOUS
  <2>8. PICK C : C = Calm' \cup {Notifier}
    OBVIOUS
  <2>9. /\ Ordered(d) /\ d.fired = clock.fired /\ Steady(clock, d, C)
        /\ Pooled(q) /\ q.waiters = p.waiters /\ (Present(d) => q.notifier # 0)
    <3>1. Present(clock) => p.notifier # 0
      BY <1>1, <2>5
    <3>2. Notifier \notin clock.fired => Notifier \in C
      BY <2>8
    <3>3. d = Starts(p, clock) /\ q = Armed(p)
      BY <2>4, <2>6, <2>7
    <3> QED
      BY <1>1, <2>5, <3>1, <3>2, <3>3, StartsFacts
  <2>10. Steady(clock, d, Calm')
    <3>1. Present(clock) => p.notifier # 0
      BY <1>1, <2>5
    <3>2. Notifier \notin clock.fired => Notifier \in Calm'
      BY <2>6, <2>9, NotifierCalm
    <3>3. d = Starts(p, clock) /\ q = Armed(p)
      BY <2>4, <2>6, <2>7
    <3> QED
      BY <1>1, <2>5, <3>1, <3>2, <3>3, StartsFacts
  <2>11. Waits'
    BY <1>0, <1>1, <2>2, <2>5, <2>7, <2>9, LineJoined
  <2>12. clock.quiet < 2
    BY <1>1, <1>6
  <2> QED
    BY <1>0, <1>1, <1>3, <2>6, <2>7, <2>9, <2>10, <2>11, <2>12, Silent
<1> QED
  BY <1>5, <1>6

LEMMA ReturnTimes ==
  ASSUME CountInv, TimeInv, ~cancelled, NEW w \in Workers, Refuse(w) \/ Succeed(w) \/ Fail(w)
  PROVE  TimeInv' /\ clock'.fired \subseteq clock.fired
<1>0. PICK there \in {"failed", "claim", "enter"}, ok \in BOOLEAN :
        /\ running = w /\ running' = w /\ Goes(w, there) /\ pc[w] \in {"perform", "answer"}
        /\ clock' = ReturnedLoop(pool, lease[w], ok, clock)
        /\ pool' = Returned(pool, lease[w], ok) /\ algorithm' = algorithm
  BY DEF Refuse, Succeed, Fail, Answered, At
<1>1. /\ pc \in [Workers -> Places] /\ Ordered(clock) /\ Pooled(pool)
      /\ Present(clock) => pool.notifier # 0
      /\ Waits /\ clock.quiet \in Nat /\ clock.quiet < 2
  BY <1>0, RunsWhen DEF Deep
<1>2. pc[w] \in Deep /\ there # "perform"
  BY <1>0 DEF Deep
<1>3. \A v \in Range(pool.waiters) : v \in Workers /\ pc'[v] \notin Deep
  <2>1. \A v \in Range(pool.waiters) : v \in Workers
    BY <1>1, InRange DEF Pooled
  <2>2. \A v \in Range(pool.waiters) : pc[v] \in {"wait", "acquire"}
    BY <1>1 DEF Waits, InLine
  <2>3. \A v \in Workers : v # w => pc'[v] = pc[v]
    BY <1>0, <1>1 DEF Goes
  <2> QED
    BY <1>0, <2>1, <2>2, <2>3 DEF Deep
<1>4. \A v \in Range(pool.waiters) : Runs(v) \in Calm'
  BY <1>3, WaitingCalm
<1>5. PICK d, q : d = clock' /\ q = pool'
  OBVIOUS
<1>6. d = ReturnedLoop(pool, lease[w], ok, clock) /\ q = Returned(pool, lease[w], ok)
  BY <1>0, <1>5
<1>7. d.fired = clock.fired
  <2>1. PICK C : C = Calm' \cup {Notifier}
    OBVIOUS
  <2>2. Notifier \in C /\ \A v \in Range(pool.waiters) : Runs(v) \in C
    BY <1>4, <2>1
  <2> QED
    BY <1>1, <1>6, <2>2, ReturnedFacts
<1>8. Notifier \notin clock.fired => Notifier \in Calm'
  BY <1>5, <1>7, NotifierCalm
<1>9. /\ Ordered(d) /\ d.fired = clock.fired /\ Steady(clock, d, Calm')
      /\ Pooled(q) /\ q.waiters = pool.waiters /\ (Present(d) => q.notifier # 0)
  BY <1>1, <1>4, <1>6, <1>8, ReturnedFacts
<1>10. Waits'
  BY <1>0, <1>1, <1>5, <1>9, LineKept
<1> QED
  BY <1>0, <1>1, <1>2, <1>5, <1>9, <1>10, Silent

LEMMA CallTimes ==
  ASSUME CountInv, TimeInv, ~cancelled, NEW w \in Workers, Admit(w) \/ Retry(w)
  PROVE  TimeInv' /\ clock'.fired \subseteq clock.fired
<1>0. PICK there \in {"call", "retry"}, n \in Nat :
        /\ running = w /\ running' = Nobody /\ Goes(w, there) /\ pc[w] \in {"perform", "failed"}
        /\ there = "call" => pc[w] = "perform"
        /\ clock' = Sleep(clock, Runs(w), n) /\ pool' = pool /\ algorithm' = algorithm
  BY SimulationAssumption DEF Admit, Retry, Awaits, At
<1>1. /\ pc \in [Workers -> Places] /\ Ordered(clock) /\ Pooled(pool)
      /\ Present(clock) => pool.notifier # 0
      /\ Waits /\ clock.quiet \in Nat /\ clock.quiet < 2
      /\ there = "call" => clock.quiet = 0
  BY <1>0, RunsWhen DEF Deep
<1>2. pc[w] \in Deep /\ there # "perform"
  BY <1>0 DEF Deep
<1>3. Waits'
  BY <1>0, <1>1, LineKept
<1>4. PICK d : d = clock'
  OBVIOUS
<1>5. /\ Ordered(d) /\ d.fired = clock.fired /\ (Present(d) => Present(clock))
      /\ d.quiet = 0 \/ \A C : Runs(w) \in C => Steady(clock, d, C)
  <2>1. Runs(w) \in Sleepers /\ Runs(w) # Notifier
    BY RunsSleep, ItemsApart
  <2> QED
    BY <1>0, <1>1, <1>4, <2>1, SleepOrdered
<1>6. CASE d.quiet = 0
  BY <1>0, <1>1, <1>3, <1>4, <1>5, <1>6, Stirred
<1>7. CASE d.quiet # 0
  <2>1. \A C : Runs(w) \in C => Steady(clock, d, C)
    BY <1>5, <1>7
  <2>2. clock.quiet # 0
    <3>1. Steady(clock, d, {Runs(w)})
      BY <2>1
    <3> QED
      BY <1>7, <3>1 DEF Steady
  <2>3. there = "retry"
    BY <1>0, <1>1, <2>2
  <2>4. Runs(w) \in Calm'
    <3>1. pc'[w] \notin Deep
      BY <1>0, <1>1, <2>3 DEF Goes, Deep
    <3> QED
      BY <3>1, WaitingCalm
  <2>5. Steady(clock, d, Calm')
    BY <2>1, <2>4
  <2> QED
    BY <1>0, <1>1, <1>2, <1>3, <1>4, <1>5, <2>5, Silent
<1> QED
  BY <1>6, <1>7

-----------------------------------------------------------------------------
(* The steps of the loop. *)

\* A worker's await ends; after two quiet probes it came from a wait, a nap or a backoff.
LEMMA ResumeTimes ==
  ASSUME CountInv, TimeInv, NEW w \in Workers, Resume(w)
  PROVE  TimeInv' /\ clock'.fired \subseteq clock.fired
<1>0. PICK there : there = After[pc[w]]
  OBVIOUS
<1>1. /\ ~cancelled /\ clock.ready # <<>> /\ Next1 = Runs(w) /\ pc[w] \in DOMAIN After
      /\ running' = w /\ clock' = SleepEnds(Popped, Runs(w)) /\ Goes(w, there)
      /\ pool' = pool /\ algorithm' = algorithm
  BY <1>0 DEF Resume, Loop
<1>2. /\ pc \in [Workers -> Places] /\ Ordered(clock) /\ Pooled(pool)
      /\ Present(clock) => pool.notifier # 0
      /\ Waits /\ Quieter(clock.ready, clock.quiet, Calm) /\ clock.quiet \in Nat
  BY <1>1 DEF TimeInv, CountInv, Ordered, Shaped
<1>3. /\ pc[w] \in {"start", "wait", "nap", "call", "retry"}
      /\ pc[w] = "start" => there = "claim"
      /\ pc[w] \in {"wait", "nap"} => there = "acquire"
      /\ pc[w] = "call" => there = "answer"
      /\ pc[w] = "retry" => there = "enter"
  BY <1>0, <1>1 DEF After
<1>4. Next1 # Probe /\ Next1 # Notifier
  BY <1>1, ItemsApart
<1>5. /\ Ordered(Popped) /\ Popped.fired = clock.fired /\ (Present(Popped) => Present(clock))
      /\ Popped.quiet = clock.quiet
      /\ \A C : Quieter(clock.ready, clock.quiet, C) =>
                  /\ Quieter(Popped.ready, Popped.quiet, C)
                  /\ clock.quiet >= 2 => Next1 \in C /\ clock.quiet < 3
  BY <1>1, <1>2, <1>4, PoppedOrdered
<1>6. PICK c, d : c = Popped /\ d = clock'
  OBVIOUS
<1>7. /\ Ordered(d) /\ d.fired \subseteq c.fired /\ (Present(d) => Present(c))
      /\ d.quiet = 0 \/ (d.quiet = c.quiet /\ d.ready = c.ready)
  <2>1. d = SleepEnds(c, Runs(w)) /\ Ordered(c)
    BY <1>1, <1>5, <1>6
  <2> QED
    BY <2>1, SleepEndsOrdered
<1>8. Waits'
  BY <1>1, <1>2, <1>3, LineKept
<1>9. CASE d.quiet = 0
  BY <1>1, <1>2, <1>5, <1>6, <1>7, <1>8, <1>9, Stirred
<1>10. CASE d.quiet = c.quiet /\ d.ready = c.ready
  <2>1. Calm \subseteq Calm'
    <3>1. there \in Deep => pc[w] \in Deep
      BY <1>3 DEF Deep
    <3>2. Notifier \in clock'.fired => Notifier \in clock.fired
      BY <1>5, <1>6, <1>7
    <3> QED
      BY <1>1, <1>2, <3>1, <3>2, CalmKept
  <2>2. Quieter(d.ready, d.quiet, Calm')
    <3>1. Quieter(clock.ready, clock.quiet, Calm')
      BY <1>2, <2>1, QuieterWider
    <3> QED
      BY <1>5, <1>6, <1>10, <3>1
  <2>3. clock.quiet >= 2 => Runs(w) \in Calm /\ clock.quiet < 3
    BY <1>1, <1>2, <1>5
  <2>4. clock.quiet >= 2 => pc[w] \notin Deep
    BY <2>3 DEF Calm, CalmAt
  <2>5. clock.quiet >= 2 => pc[w] \in {"wait", "nap", "retry"}
    BY <1>3, <2>4 DEF Deep
  <2>6. pc[w] = "wait" => w \in Range(pool.waiters)
    BY <1>2 DEF Waits, InLine
  <2>7. pc[w] = "nap" => algorithm # "wait"
    BY <1>2 DEF Waits, InLine
  <2>8. pc'[w] = there /\ there # "perform"
    BY <1>1, <1>2, <1>3 DEF Goes
  <2>9. clock'.quiet = clock.quiet
    BY <1>5, <1>6, <1>10
  <2>10. Settles'
    BY <1>1, <1>2, <1>3, <2>3, <2>5, <2>6, <2>7, <2>8, <2>9 DEF Settles, Settled
  <2> QED
    BY <1>1, <1>2, <1>5, <1>6, <1>7, <1>8, <2>2, <2>10 DEF TimeInv
<1> QED
  BY <1>7, <1>9, <1>10

\* The done-callback.
LEMMA RemoveTimes ==
  ASSUME CountInv, TimeInv, ~cancelled, NEW w \in Workers, RemoveWorker(w)
  PROVE  TimeInv' /\ clock'.fired \subseteq clock.fired
<1>1. /\ clock.ready # <<>> /\ Next1 = Gone(w) /\ pool' = pool /\ pc' = pc /\ algorithm' = algorithm
      /\ clock' = Activity([Popped EXCEPT !.workers = @ \ {w}])
  BY DEF RemoveWorker, Loop
<1>2. /\ Ordered(clock) /\ Pooled(pool) /\ (Present(clock) => pool.notifier # 0) /\ Waits
  BY DEF TimeInv
<1>3. Next1 # Probe /\ Next1 # Notifier
  BY <1>1, ItemsApart
<1>4. PICK c : c = Popped
  OBVIOUS
<1>5. Ordered(c) /\ c.fired = clock.fired /\ (Present(c) => Present(clock))
  BY <1>1, <1>2, <1>3, <1>4, PoppedOrdered
<1>6. PICK n, x : n = c.workers \ {w} /\ x = [c EXCEPT !.workers = n]
  OBVIOUS
<1>7. Ordered(x) /\ x.fired = c.fired /\ (Present(x) => Present(c)) /\ clock' = Activity(x)
  <2>1. Ordered(x) /\ x.fired = c.fired /\ (Present(x) => Present(c))
    <3>1. x \in {[c EXCEPT !.blocked = n], [c EXCEPT !.parked = n], [c EXCEPT !.workers = n],
                 [c EXCEPT !.now = n]}
      BY <1>6
    <3> QED
      BY <1>5, <3>1, Counting
  <2> QED
    BY <1>1, <1>4, <1>6, <2>1
<1>8. /\ Ordered(clock') /\ clock'.quiet = 0 /\ clock'.fired = x.fired
      /\ Present(clock') => Present(x)
  BY <1>7, ActivityOrdered
<1>9. Waits'
  BY <1>1, <1>2 DEF Waits
<1> QED
  BY <1>1, <1>2, <1>5, <1>7, <1>8, <1>9, Stirred

\* The probe, the cool-down's notifier, and the advance itself.
LEMMA ProbeAgainTimes ==
  ASSUME CountInv, TimeInv, ~cancelled, ProbeAgain
  PROVE  TimeInv' /\ clock'.fired = clock.fired
<1>1. /\ running' = Nobody /\ pool' = pool /\ pc' = pc /\ algorithm' = algorithm
  BY DEF ProbeAgain, Loop
<1>2. /\ Ordered(clock) /\ Pooled(pool) /\ (Present(clock) => pool.notifier # 0) /\ Waits
      /\ Quieter(clock.ready, clock.quiet, Calm)
  BY DEF TimeInv
<1>3. /\ Ordered(clock') /\ clock'.fired = clock.fired /\ (Present(clock') => Present(clock))
      /\ \A C : Quieter(clock.ready, clock.quiet, C) => Quieter(clock'.ready, clock'.quiet, C)
  BY <1>2, ProbeAgainOrdered
<1>4. Calm' = Calm
  BY <1>1, <1>3 DEF Calm
<1>5. Quieter(clock'.ready, clock'.quiet, Calm')
  BY <1>2, <1>3, <1>4
<1>6. Waits' /\ Settles'
  BY <1>1, <1>2 DEF Waits, Settles, Settled
<1> QED
  BY <1>1, <1>2, <1>3, <1>5, <1>6 DEF TimeInv

LEMMA ProbeAdvancesTimes ==
  ASSUME CountInv, TimeInv, ~cancelled, ProbeAdvances
  PROVE  TimeInv'
<1>0. /\ Ordered(clock) /\ Pooled(pool) /\ (Present(clock) => pool.notifier # 0) /\ Waits
  BY DEF TimeInv
<1>1. PICK c : c = [Popped EXCEPT !.armed = FALSE]
  OBVIOUS
<1>2. /\ clock.ready # <<>> /\ Next1 = Probe /\ clock' = Advance(c) /\ clock.timers # <<>>
      /\ pc' = pc /\ algorithm' = algorithm
  BY <1>1 DEF ProbeAdvances, Loop, IdleLongEnough, Quiet
<1>3. Ordered(c) /\ c.timers = clock.timers /\ (Present(c) => Present(clock))
  BY <1>0, <1>1, <1>2, ProbeTaken
<1>4. Ordered(clock') /\ clock'.quiet = 0 /\ (Present(clock') => Present(c))
  BY <1>2, <1>3, AdvanceOrdered
<1>5. PICK l : l = Deadline(clock)
  OBVIOUS
<1>6. l \in Int
  <2>1. PICK t : t = clock.timers
    OBVIOUS
  <2>2. t \in Seq(Timer(Int)) /\ t # <<>>
    BY <1>0, <1>2, <2>1 DEF Ordered, Shaped
  <2>3. t[1] \in Timer(Int)
    BY <2>2
  <2> QED
    BY <1>5, <2>1, <2>3 DEF Deadline, Timer
<1>7. PICK slots : slots = [e \in Endpoints |->
          IF pool.slots[e].state # "degraded" THEN pool.slots[e]
          ELSE IF pool.slots[e].left <= l THEN [pool.slots[e] EXCEPT !.state = "ready", !.left = 0]
          ELSE [pool.slots[e] EXCEPT !.left = pool.slots[e].left - l]]
  OBVIOUS
<1>8. pool' = [pool EXCEPT !.slots = slots]
  BY <1>5, <1>7 DEF ProbeAdvances
<1>9. ASSUME NEW e \in Endpoints
      PROVE  slots[e] \in Slot /\ (slots[e].state = "degraded" => slots[e].left # 0)
  <2>1. PICK s : s = pool.slots[e]
    OBVIOUS
  <2>2. s \in Slot
    BY <1>0, <2>1 DEF Pooled
  <2>3. slots[e] = IF s.state # "degraded" THEN s
                   ELSE IF s.left <= l THEN [s EXCEPT !.state = "ready", !.left = 0]
                   ELSE [s EXCEPT !.left = s.left - l]
    BY <1>7, <2>1
  <2>4. CASE s.state # "degraded"
    <3>1. slots[e] = s
      BY <2>3, <2>4
    <3> QED
      BY <2>2, <2>4, <3>1
  <2>5. CASE s.state = "degraded" /\ s.left <= l
    <3>1. slots[e] = [s EXCEPT !.state = "ready", !.left = 0]
      BY <2>3, <2>5
    <3>2. slots[e] = [active |-> s.active, state |-> "ready", left |-> 0, fails |-> s.fails]
      BY <2>2, <3>1 DEF Slot
    <3>3. s.active \in Int /\ s.fails \in Nat
      BY <2>2 DEF Slot
    <3> QED
      BY <3>2, <3>3 DEF Slot
  <2>6. CASE s.state = "degraded" /\ ~(s.left <= l)
    <3>1. slots[e] = [s EXCEPT !.left = s.left - l]
      BY <2>3, <2>6
    <3>2. s.left - l \in Nat /\ s.left - l # 0
      BY <1>6, <2>2, <2>6 DEF Slot
    <3> QED
      BY <2>2, <3>1, <3>2 DEF Slot
  <2> QED
    BY <2>4, <2>5, <2>6
<1>10. Pooled(pool') /\ pool'.waiters = pool.waiters /\ pool'.notifier = pool.notifier
  <2>1. slots \in [Endpoints -> Slot]
    BY <1>7, <1>9
  <2> QED
    BY <1>0, <1>8, <1>9, <2>1 DEF Pooled
<1>11. Waits'
  BY <1>0, <1>2, <1>10 DEF Waits
<1> QED
  BY <1>0, <1>3, <1>4, <1>10, <1>11, Stirred

LEMMA NotifierTimes ==
  ASSUME CountInv, TimeInv, ~cancelled, NotifierSleeps \/ NotifierTells
  PROVE  TimeInv' /\ clock'.fired \subseteq clock.fired
<1>0. /\ Ordered(clock) /\ Pooled(pool) /\ (Present(clock) => pool.notifier # 0) /\ Waits
      /\ Quieter(clock.ready, clock.quiet, Calm)
  BY DEF TimeInv
<1>1. /\ running' = Nobody /\ pc' = pc /\ algorithm' = algorithm
  BY DEF NotifierSleeps, NotifierTells, Loop
<1>2. CASE NotifierSleeps
  <2>1. /\ Ordered(clock') /\ clock'.fired = clock.fired /\ clock'.quiet = 0
        /\ pool.notifier # 0
    BY <1>0, <1>2, NotifierSleepsOrdered
  <2>2. pool' = pool
    BY <1>2 DEF NotifierSleeps
  <2>3. Waits'
    BY <1>0, <1>1, <2>2 DEF Waits
  <2> QED
    BY <1>0, <2>1, <2>2, <2>3, Stirred
<1>3. CASE NotifierTells
  <2>1. PICK D : D = Calm \cup {Notifier}
    OBVIOUS
  <2>2. Notifier \notin Calm
    BY <1>3 DEF NotifierTells, Calm, CalmAt
  <2>3. \A v \in Range(pool.waiters) : Runs(v) \in Calm
    <3>1. ASSUME NEW v \in Range(pool.waiters)
          PROVE  Runs(v) \in Calm
      <4>1. v \in Workers /\ pc[v] \notin Deep
        BY <1>0, InRange DEF Pooled, Waits, InLine, Deep
      <4> QED
        BY <4>1, ItemsApart, NamesApart DEF Calm, CalmAt
    <3> QED
      BY <3>1
  <2>4. /\ Ordered(clock') /\ Notifier \notin clock'.fired /\ clock'.fired \subseteq clock.fired
        /\ clock'.quiet = clock.quiet /\ Quieter(clock'.ready, clock'.quiet, D) /\ clock.quiet < 2
        /\ Pooled(pool') /\ pool'.waiters = pool.waiters
        /\ Present(clock') => pool'.notifier # 0
    BY <1>0, <1>3, <2>1, <2>2, <2>3, NotifierTellsOrdered
  <2>5. D \subseteq Calm'
    <3>1. Calm \subseteq Calm'
      BY <1>1, <2>4 DEF Calm, CalmAt
    <3>2. Notifier \in Calm'
      BY <2>4, ItemsApart DEF Calm, CalmAt
    <3> QED
      BY <2>1, <3>1, <3>2
  <2>6. Quieter(clock'.ready, clock'.quiet, Calm')
    BY <2>4, <2>5, QuieterWider
  <2>7. Waits' /\ Settles'
    BY <1>0, <1>1, <2>4 DEF Waits, Settles, Settled
  <2> QED
    BY <2>4, <2>6, <2>7 DEF TimeInv
<1> QED
  BY <1>2, <1>3

-----------------------------------------------------------------------------
(* Time moves only when nothing else can. *)

\* When time may move, only the probe is left.
LEMMA AdvanceSound ==
  ASSUME IdleTicks >= 3, CountInv, TimeInv, ~cancelled, ProbeAdvances
  PROVE  Range(clock.ready) = {Probe}
<1>1. PICK s, q : s = clock.ready /\ q = clock.quiet
  OBVIOUS
<1>2. /\ s # <<>> /\ Head(s) = Probe /\ s \in Seq(Items) /\ Single(s, Probe) /\ q \in Nat
      /\ Quieter(s, q, Calm)
  BY <1>1 DEF ProbeAdvances, Loop, Next1, TimeInv, Ordered, Shaped, ProbeOnce
<1>3. q >= 2
  <2>1. q + 1 >= IdleTicks /\ IdleTicks \in Nat
    BY <1>1, SimulationAssumption DEF ProbeAdvances, IdleLongEnough
  <2> QED
    BY <1>2, <2>1
<1>4. \A x : x \in Range(s) <=> x = Probe
  BY <1>2, <1>3, QuieterAgain
<1> QED
  BY <1>1, <1>4

\* A worker's stretch.
LEMMA StretchTimes ==
  ASSUME CountInv, TimeInv, ~cancelled, NEW w \in Workers, Stretch(w)
  PROVE  TimeInv' /\ clock'.fired \subseteq clock.fired
BY ClaimTimes, EndsTimes, EnterTimes, AcquireTimes, UnavailableTimes, NapTimes, WaitSlotTimes,
   ReturnTimes, CallTimes DEF Stretch

\* A cancelled run stays cancelled: the rest is about runs that are not.
LEMMA CancelledStays == cancelled /\ [Next]_vars => cancelled'
BY DEF Next, vars, LoopStep, Stretch, Claim, Ends, Enter, Acquire, WaitSlot, Nap, Unavailable,
       Refuse, Admit, Succeed, Fail, Retry, GiveUp, Resume, Unwind, RemoveWorker, ProbeAgain,
       ProbeAdvances, NotifierSleeps, NotifierTells, Supervise, WallBudget, Cancel, Finished

\* Every step keeps the invariant, and only the probe fires timers.
LEMMA TimeStep ==
  ASSUME CountInv, TimeInv, [Next]_vars
  PROVE  /\ TimeInv'
         /\ ~cancelled /\ clock'.fired \ clock.fired # {} => ProbeAdvances
<1>1. CASE cancelled
  BY <1>1, CancelledStays DEF TimeInv
<1>2. CASE ~cancelled
  <2>1. CASE UNCHANGED vars \/ Finished
    <3>1. UNCHANGED vars
      BY <2>1 DEF Finished
    <3>2. /\ clock' = clock /\ pool' = pool /\ pc' = pc /\ running' = running
          /\ algorithm' = algorithm /\ cancelled' = cancelled
      BY <3>1 DEF vars
    <3> QED
      BY <3>2 DEF TimeInv, Waits, Calm, Settles
  <2>2. CASE Supervise \/ WallBudget
    <3>1. Cancel /\ cancelled'
      BY <2>2 DEF Supervise, WallBudget, Cancel
    <3>2. clock'.fired = clock.fired
      <4>1. "fired" \in DOMAIN clock
        BY <1>2 DEF TimeInv, Ordered, Shaped, Fields
      <4> QED
        BY <3>1, <4>1 DEF Cancel
    <3> QED
      BY <3>1, <3>2 DEF TimeInv
  <2>3. ASSUME NEW w \in Workers, Stretch(w) \/ Resume(w) \/ Unwind(w) \/ RemoveWorker(w)
        PROVE  TimeInv' /\ clock'.fired \subseteq clock.fired
    <3>1. ~Unwind(w)
      BY <1>2 DEF Unwind
    <3> QED
      BY <1>2, <2>3, <3>1, StretchTimes, ResumeTimes, RemoveTimes
  <2>4. CASE ProbeAgain \/ NotifierSleeps \/ NotifierTells
    BY <1>2, <2>4, ProbeAgainTimes, NotifierTimes
  <2>5. CASE ProbeAdvances
    BY <1>2, <2>5, ProbeAdvancesTimes
  <2> QED
    BY <2>1, <2>2, <2>3, <2>4, <2>5 DEF Next, LoopStep
<1> QED
  BY <1>1, <1>2

\* Simulated time moves only when nothing in the program could run without it: the
\* clock's driver, seeing every worker parked or blocked for idle_ticks probes of the
\* event loop, fires timers only when the probe is all that is queued, so no released
\* waiter, no worker about to call and no cool-down's notifier is overtaken.  Three
\* probes are what this takes (the harness's VirtualClock waits for sixteen).
THEOREM TimeMovesSoundly ==
  ASSUME IdleTicks >= 3
  PROVE  Spec => SoundAdvance
<1>1. Init => CountInv /\ TimeInv
  BY CountInit, TimeInit
<1>2. CountInv /\ TimeInv /\ [Next]_vars => CountInv' /\ TimeInv'
  BY CountStep, TimeStep
<1>3. CountInv /\ TimeInv /\ [Next]_vars =>
        [~cancelled /\ clock'.fired \ clock.fired # {} => Range(clock.ready) = {Probe}]_vars
  <2> SUFFICES ASSUME CountInv, TimeInv, [Next]_vars, ~cancelled, clock'.fired \ clock.fired # {}
               PROVE  Range(clock.ready) = {Probe}
    OBVIOUS
  <2>1. ProbeAdvances
    BY TimeStep
  <2> QED
    BY <2>1, AdvanceSound
<1> QED
  BY <1>1, <1>2, <1>3, PTL DEF Spec, SoundAdvance

=============================================================================
