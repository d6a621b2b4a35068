----------------------------- MODULE SuiteProofs -----------------------------
(***************************************************************************)
(* Proofs about Suite, for any number of invocations, experiments and      *)
(* pipelines, every selection, limit and layout, and any number of crashes.*)
(*                                                                         *)
(* What a run tells of a pipeline (OutcomesTold) rests on three facts that *)
(* must be carried along: at most one living invocation is past the writer *)
(* lock (OneWriter); a worker's hand, the row and the run's own outcome    *)
(* speak of the same thing while it is at work (InHand, RowOwned); and the *)
(* stream of a source hands each pipeline out once (Fed), so an admission  *)
(* never meets an outcome that is there already.                           *)
(***************************************************************************)
EXTENDS Suite, FiniteSetTheorems, TLAPS

Phases == {"idle", "refused", "creating", "manifest", "open", "registered", "recover",
           "prepare", "produce", "stopping", "interrupted", "completed", "ended", "crashed"}
Outcomes == {None, "pending", "running", "succeeded", "failed", "interrupted", "skipped"}

Stream == [exp : Experiments, seen : Nat]
Known == [exhausted : BOOLEAN, error : BOOLEAN, limited : BOOLEAN, known : BOOLEAN]
Row == [state : Outcomes, run : Invocations \cup {0}]

\* What the variables hold that the proofs speak of.
Types ==
    /\ phase \in [Invocations -> Phases]
    /\ rows \in [Pipelines -> Row]
    /\ outcome \in [Invocations -> [Pipelines -> Outcomes]]
    /\ did \in [Invocations -> [Pipelines -> Outcomes]]
    /\ hand \in [Invocations -> [Pipelines -> {None, "queued", "begun", "tried"}]]
    /\ admitting \in [Invocations -> Pipelines \cup {None}]
    /\ streams \in [Invocations -> Seq(Stream)]
    /\ selected \in [Invocations -> SUBSET Experiments]
    /\ source \in [Invocations -> [Experiments -> Known]]
    /\ count \in [Invocations -> Nat] /\ limit \in [Invocations -> Nat]
    /\ buffer \in [Invocations -> SUBSET (Invocations \X Pipelines)]

\* The writer lock: at most one living invocation is past Open.
OneWriter == \A r, x \in Invocations : Holds(r) /\ Holds(x) => r = x

\* What a worker holds is open in the run's own account; once begun, the row
\* is the run's and says so; an attempt is on disk or in a buffer.
HandAt(r, p) ==
    /\ hand[r][p] # None => phase[r] \in {"produce", "stopping"}
    /\ hand[r][p] = "queued" => outcome[r][p] = "pending" /\ did[r][p] = "pending"
    /\ hand[r][p] \in {"begun", "tried"} =>
         /\ outcome[r][p] = "running" /\ did[r][p] = "running"
         /\ rows[p].state = "running" /\ rows[p].run = r
    /\ hand[r][p] = "tried" => <<r, p>> \in facts \cup buffer[r]
InHand == \A r \in Invocations, p \in Pipelines : HandAt(r, p)

\* A row that says running has a worker at it, or its run was killed.
RowOwned == \A p \in Pipelines :
    rows[p].state = "running" =>
      /\ rows[p].run \in Invocations
      /\ did[rows[p].run][p] = "running"
      /\ hand[rows[p].run][p] \in {"begun", "tried"} \/ In(rows[p].run, "crashed")

\* The pipeline between the two halves of admit() has no outcome yet.
Admission == \A r \in Invocations :
    admitting[r] # None => In(r, "produce") /\ outcome[r][admitting[r]] = None

\* Nothing is known of a pipeline before the run produces.
Untold == \A r \in Invocations, p \in Pipelines :
    outcome[r][p] # None =>
      phase[r] \in {"produce", "stopping", "interrupted", "completed", "ended", "crashed"}

\* The k-th pipeline of e was handed out by the stream of run r, or was not.
Handed(r, e, k) ==
    /\ <<r, Source[e][k]>> \in admitted
    /\ outcome[r][Source[e][k]] # None \/ admitting[r] = Source[e][k]
Ahead(r, e, k) == outcome[r][Source[e][k]] = None /\ admitting[r] # Source[e][k]

\* Each source left is read once, from its front: what it has yielded was
\* admitted, and nothing behind that was.
StreamAt(r, e, n) ==
    /\ n <= Len(Source[e])
    /\ \A k \in 1 .. Len(Source[e]) :
         /\ k <= n => Handed(r, e, k)
         /\ n < k => Ahead(r, e, k)
FeedAt(r) ==
    /\ \A i, j \in DOMAIN streams[r] : streams[r][i].exp = streams[r][j].exp => i = j
    /\ \A i \in DOMAIN streams[r], e \in Experiments, n \in Nat :
         streams[r][i].exp = e /\ streams[r][i].seen = n => StreamAt(r, e, n)
Fed == \A r \in Invocations : FeedAt(r)

\* A source known to have ended left nothing behind.
Exhausted == \A r \in Invocations, e \in Experiments :
    source[r][e].exhausted =>
      \A p \in Range(Source[e]) : <<r, p>> \in admitted /\ outcome[r][p] # None

-----------------------------------------------------------------------------
(* Facts about the operators *)

\* prepare() queues the selected experiments once each.
LEMMA OrderFacts ==
    ASSUME NEW S, IsFiniteSet(S)
    PROVE  /\ SetToSeq(S) \in Seq(S)
           /\ \A i, j \in DOMAIN SetToSeq(S) : SetToSeq(S)[i] = SetToSeq(S)[j] => i = j
<1>1. Cardinality(S) \in Nat /\ ExistsBijection(1 .. Cardinality(S), S)
  BY FS_CardinalityType
<1>2. \E f \in [1 .. Cardinality(S) -> S] : IsInjective(f)
  BY <1>1 DEF ExistsBijection, Bijection, Injection
<1>3. SetToSeq(S) \in [1 .. Cardinality(S) -> S] /\ IsInjective(SetToSeq(S))
  BY <1>2 DEF SetToSeq
<1> QED
  BY <1>1, <1>3 DEF IsInjective

\* The producer takes the first stream and puts it back at the end, or drops it.
LEMMA TailFacts ==
    ASSUME NEW S, NEW s \in Seq(S), s # <<>>
    PROVE  \A i \in DOMAIN Tail(s) : i \in Nat /\ i + 1 \in DOMAIN s /\ Tail(s)[i] = s[i + 1]
OBVIOUS

\* Append(Tail(s), x) is the rotation of the deque by one source.
LEMMA RotateFacts ==
    ASSUME NEW S, NEW s \in Seq(S), s # <<>>, NEW x \in S
    PROVE  /\ Tail(s) \in Seq(S) /\ Append(Tail(s), x) \in Seq(S)
           /\ Head(s) \in S /\ Head(s) = s[1] /\ 1 \in DOMAIN s
OBVIOUS

\* Every pipeline belongs to one experiment.
LEMMA EidFacts ==
    ASSUME NEW p \in Pipelines
    PROVE  Eid(p) \in Experiments /\ p \in Range(Source[Eid(p)])
BY DEF Pipelines, Eid

\* What a source yields is a pipeline, each position another one, and no
\* other source yields it.
LEMMA SourceFacts ==
    ASSUME NEW e \in Experiments
    PROVE  /\ Len(Source[e]) \in Nat /\ DOMAIN Source[e] = 1 .. Len(Source[e])
           /\ \A k \in 1 .. Len(Source[e]) : Source[e][k] \in Pipelines
           /\ \A k, l \in 1 .. Len(Source[e]) : Source[e][k] = Source[e][l] => k = l
           /\ \A d \in Experiments : d # e =>
                \A k \in 1 .. Len(Source[e]), l \in 1 .. Len(Source[d]) :
                  Source[e][k] # Source[d][l]
           /\ \A p \in Range(Source[e]) : \E k \in 1 .. Len(Source[e]) : p = Source[e][k]
<1>1. Source[e] \in Seq(Pipelines)
  BY SuiteAssumption
<1>2. \A k, l \in DOMAIN Source[e] : Source[e][k] = Source[e][l] => k = l
  BY SuiteAssumption DEF IsInjective
<1>3. ASSUME NEW d \in Experiments, d # e,
             NEW k \in DOMAIN Source[e], NEW l \in DOMAIN Source[d]
      PROVE  Source[e][k] # Source[d][l]
  <2>1. Source[e][k] \in Range(Source[e]) /\ Source[d][l] \in Range(Source[d])
    BY <1>3 DEF Range
  <2>2. Range(Source[d]) \cap Range(Source[e]) = {}
    BY <1>3, SuiteAssumption
  <2> QED
    BY <2>1, <2>2
<1>4. ASSUME NEW d \in Experiments
      PROVE  Source[d] \in Seq(Pipelines)
  BY SuiteAssumption
<1> QED
  BY <1>1, <1>2, <1>3, <1>4 DEF Range

\* A call on a child flushes buffers; it loses no fact.
LEMMA RoutesFacts ==
    ASSUME NEW r \in Invocations, NEW e, NEW flush, Types, Routes(r, e, flush)
    PROVE  /\ buffer' \in [Invocations -> SUBSET (Invocations \X Pipelines)]
           /\ facts \subseteq facts'
           /\ facts \cup buffer[r] = facts' \cup buffer'[r]
           /\ \A x \in Invocations : x # r => buffer'[x] = buffer[x]
           /\ \A f \in buffer[r] : Handle(Eid(f[2])) \in flush => f \in facts'
BY DEF Types, Routes, Buffered

-----------------------------------------------------------------------------
(* The types *)

\* The streams that prepare() queues: nothing read yet.
Fresh(S) == [i \in DOMAIN SetToSeq(S) |-> [exp |-> SetToSeq(S)[i], seen |-> 0]]

\* One stream per selected experiment, at its front.
LEMMA FreshFacts ==
    ASSUME NEW S \in SUBSET Experiments
    PROVE  /\ Fresh(S) \in Seq(Stream)
           /\ \A i, j \in DOMAIN Fresh(S) : Fresh(S)[i].exp = Fresh(S)[j].exp => i = j
           /\ \A i \in DOMAIN Fresh(S) : Fresh(S)[i].seen = 0
<1>1. IsFiniteSet(S)
  BY SuiteAssumption, FS_Subset
<1> DEFINE o == SetToSeq(S)
<1>2. o \in Seq(S) /\ \A i, j \in DOMAIN o : o[i] = o[j] => i = j
  BY <1>1, OrderFacts
<1>3. o \in Seq(Experiments)
  BY <1>2
<1> HIDE DEF o
<1>4. [i \in DOMAIN o |-> [exp |-> o[i], seen |-> 0]] \in Seq(Stream)
  <2>1. \A i \in DOMAIN o : [exp |-> o[i], seen |-> 0] \in Stream
    BY <1>3 DEF Stream
  <2>2. Len(o) \in Nat /\ DOMAIN o = 1 .. Len(o)
    BY <1>3
  <2> QED
    BY <2>1, <2>2
<1> QED
  BY <1>2, <1>4 DEF o, Fresh

\* The values that the actions write have their types.
LEMMA TypeFacts ==
    /\ <<>> \in Seq(Stream)
    /\ Unknown \in Known /\ [Unknown EXCEPT !.known = TRUE] \in Known
    /\ [Unknown EXCEPT !.known = TRUE, !.exhausted = TRUE] \in Known
    /\ [Unknown EXCEPT !.known = TRUE, !.error = TRUE] \in Known
    /\ Absent \in Row
    /\ \A r \in Invocations, s \in Outcomes : [state |-> s, run |-> r] \in Row
    /\ \A o \in Row, s \in Outcomes : [o EXCEPT !.state = s] \in Row
    /\ \A o \in Row : o.state \in Outcomes /\ o.run \in Invocations \cup {0}
<1>1. <<>> \in Seq(Stream)
  OBVIOUS
<1>2. /\ Unknown \in Known /\ [Unknown EXCEPT !.known = TRUE] \in Known
      /\ [Unknown EXCEPT !.known = TRUE, !.exhausted = TRUE] \in Known
      /\ [Unknown EXCEPT !.known = TRUE, !.error = TRUE] \in Known
  BY DEF Known, Unknown
<1>3. Absent \in Row
  BY DEF Row, Absent, Outcomes
<1>4. \A r \in Invocations, s \in Outcomes : [state |-> s, run |-> r] \in Row
  BY DEF Row
<1>5. ASSUME NEW o \in Row, NEW s \in Outcomes
      PROVE  [o EXCEPT !.state = s] \in Row /\ o.state \in Outcomes /\ o.run \in Invocations \cup {0}
  BY DEF Row
<1>6. \A o \in Row : o.state \in Outcomes /\ o.run \in Invocations \cup {0}
  BY DEF Row
<1> QED
  BY <1>1, <1>2, <1>3, <1>4, <1>5, <1>6

\* A write of rows and the trigger that follows it keep both typed.
LEMMA WritesType ==
    ASSUME Types, NEW new \in [Pipelines -> Row], Writes(new)
    PROVE  rows' \in [Pipelines -> Row] /\ outcome' \in [Invocations -> [Pipelines -> Outcomes]]
<1>1. \A p \in Pipelines : new[p].state \in Outcomes
  BY TypeFacts
<1>2. outcome \in [Invocations -> [Pipelines -> Outcomes]]
  BY DEF Types
<1> QED
  BY <1>1, <1>2 DEF Writes, Traced

\* So does source_state.
LEMMA SourceStateType ==
    ASSUME Types, NEW r \in Invocations, NEW exps, NEW how \in Known, SourceState(r, exps, how)
    PROVE  source' \in [Invocations -> [Experiments -> Known]]
BY DEF Types, SourceState

\* The types hold at the start.
LEMMA TypesInit == Init => Types
BY TypeFacts DEF Init, Types, Phases, Outcomes, None

\* Every step keeps the types.
LEMMA TypesStep ==
    ASSUME Types, [Next]_vars
    PROVE  Types'
<1>1. ASSUME NEW r \in Invocations,
             \/ CreateCatalog(r) \/ Publish(r) \/ RefuseRoot(r) \/ Open(r)
             \/ Register(r) \/ InterruptRuns(r)
             \/ \E e \in Experiments : CreateChild(r, e)
      PROVE  Types'
  BY <1>1 DEF Types, CreateCatalog, Publish, RefuseRoot, Open, Register, InterruptRuns, CreateChild,
              Goes, disk, memory, Phases
<1>2. ASSUME NEW r \in Invocations, NEW exps \in Selections, NEW resume \in BOOLEAN,
             NEW n \in Limits, Start(r, exps, resume, n)
      PROVE  Types'
  BY <1>2, SuiteAssumption DEF Types, Start, Goes, Phases
<1>3. ASSUME NEW r \in Invocations, NEW e \in Experiments, InterruptStale(r, e)
      PROVE  Types'
  <2> DEFINE new == [x \in Pipelines |->
                     IF Eid(x) = e /\ rows[x].state = "running" /\ rows[x].run # r
                     THEN [rows[x] EXCEPT !.state = "interrupted"] ELSE rows[x]]
  <2>1. new \in [Pipelines -> Row]
    BY TypeFacts DEF Types, Outcomes
  <2>2. Writes(new)
    BY <1>3 DEF InterruptStale
  <2>3. rows' \in [Pipelines -> Row] /\ outcome' \in [Invocations -> [Pipelines -> Outcomes]]
    BY <2>1, <2>2, WritesType
  <2>4. buffer' \in [Invocations -> SUBSET (Invocations \X Pipelines)]
    BY <1>3, RoutesFacts DEF InterruptStale, Delegates
  <2> QED
    BY <1>3, <2>3, <2>4 DEF Types, InterruptStale
<1>4. ASSUME NEW r \in Invocations, Prepare(r)
      PROVE  Types'
  <2>1. streams' \in [Invocations -> Seq(Stream)]
    <3>1. Fresh(selected[r]) \in Seq(Stream)
      BY FreshFacts DEF Types
    <3>2. streams' = [streams EXCEPT ![r] = Fresh(selected[r])]
      BY <1>4 DEF Prepare, Fresh
    <3> QED
      BY <3>1, <3>2 DEF Types
  <2>2. source' \in [Invocations -> [Experiments -> Known]]
    BY <1>4, TypeFacts DEF Types, Prepare
  <2> QED
    BY <1>4, <2>1, <2>2 DEF Types, Prepare, Goes, Phases
<1>5. ASSUME NEW r \in Invocations, AdmitCatalog(r)
      PROVE  Types'
  <2>1. streams[r] \in Seq(Stream) /\ streams[r] # <<>>
    BY <1>5 DEF Types, AdmitCatalog, Pulls
  <2>2. First(r) \in Stream
    BY <2>1, RotateFacts DEF Types, First
  <2>3. Source[First(r).exp][First(r).seen + 1] \in Pipelines
    BY <1>5, <2>2, SourceFacts DEF AdmitCatalog, Stream
  <2>4. [exp |-> First(r).exp, seen |-> First(r).seen + 1] \in Stream
    BY <2>2 DEF Stream
  <2>5. streams' \in [Invocations -> Seq(Stream)]
    BY <1>5, <2>1, <2>4, RotateFacts DEF Types, AdmitCatalog
  <2>6. count' \in [Invocations -> Nat] /\ admitting' \in [Invocations -> Pipelines \cup {None}]
    BY <1>5, <2>3 DEF Types, AdmitCatalog
  <2> QED
    BY <1>5, <2>5, <2>6 DEF Types, AdmitCatalog
<1>6. ASSUME NEW r \in Invocations, AdmitChild(r)
      PROVE  Types'
  <2>1. admitting[r] \in Pipelines
    BY <1>6 DEF Types, AdmitChild
  <2>2. buffer' \in [Invocations -> SUBSET (Invocations \X Pipelines)]
    BY <1>6, RoutesFacts DEF Types, AdmitChild, Delegates
  <2>3. rows' \in [Pipelines -> Row]
    BY <1>6, <2>1, TypeFacts DEF Types, AdmitChild, Outcomes
  <2>4. outcome' \in [Invocations -> [Pipelines -> Outcomes]]
    BY <1>6, <2>1 DEF Types, AdmitChild, AdmissionState, Outcomes
  <2>5. did' \in [Invocations -> [Pipelines -> Outcomes]]
    BY <1>6, <2>1 DEF Types, AdmitChild, Outcomes
  <2> QED
    BY <1>6, <2>2, <2>3, <2>4, <2>5 DEF Types, AdmitChild
<1>7. ASSUME NEW r \in Invocations, SourceEnds(r)
      PROVE  Types'
  <2>1. streams' \in [Invocations -> Seq(Stream)]
    BY <1>7, RotateFacts DEF Types, SourceEnds, Pulls, Drops
  <2>2. source' \in [Invocations -> [Experiments -> Known]]
    BY <1>7, TypeFacts, SourceStateType DEF SourceEnds
  <2> QED
    BY <1>7, <2>1, <2>2 DEF Types, SourceEnds
<1>8. ASSUME NEW r \in Invocations, SourceFails(r)
      PROVE  Types'
  <2>1. streams' \in [Invocations -> Seq(Stream)]
    BY <1>8, RotateFacts DEF Types, SourceFails, Pulls, Drops
  <2>2. source' \in [Invocations -> [Experiments -> Known]]
    BY <1>8, TypeFacts, SourceStateType DEF SourceFails
  <2> QED
    BY <1>8, <2>1, <2>2 DEF Types, SourceFails
<1>9. ASSUME NEW r \in Invocations, NEW p \in Pipelines, Skip(r, p)
      PROVE  Types'
  <2>1. /\ buffer' \in [Invocations -> SUBSET (Invocations \X Pipelines)]
        /\ UNCHANGED <<rows, Unroutine>>
    BY <1>9, RoutesFacts DEF Skip, Delegates
  <2>2. /\ outcome' \in [Invocations -> [Pipelines -> Outcomes]]
        /\ did' \in [Invocations -> [Pipelines -> Outcomes]]
        /\ hand' \in [Invocations -> [Pipelines -> {None, "queued", "begun", "tried"}]]
    BY <1>9 DEF Types, Skip, Outcomes
  <2> QED
    BY <2>1, <2>2 DEF Types, Unroutine
<1>10. ASSUME NEW r \in Invocations, NEW p \in Pipelines, Begin(r, p)
      PROVE  Types'
  <2> DEFINE new == [rows EXCEPT ![p] = [state |-> "running", run |-> r]]
  <2>1. new \in [Pipelines -> Row]
    BY TypeFacts DEF Types, Outcomes
  <2>2. Writes(new)
    BY <1>10 DEF Begin
  <2>3. rows' \in [Pipelines -> Row] /\ outcome' \in [Invocations -> [Pipelines -> Outcomes]]
    BY <2>1, <2>2, WritesType
  <2>4. buffer' \in [Invocations -> SUBSET (Invocations \X Pipelines)]
    BY <1>10, RoutesFacts DEF Begin, Delegates
  <2> QED
    BY <1>10, <2>3, <2>4 DEF Types, Begin, Unroutine, Outcomes
<1>11. ASSUME NEW r \in Invocations, NEW p \in Pipelines, Attempt(r, p)
      PROVE  Types'
  BY <1>11 DEF Types, Attempt, Unroutine, Buffered
<1>12. ASSUME NEW r \in Invocations, NEW p \in Pipelines,
             NEW s \in {"succeeded", "failed", "interrupted"}, Finish(r, p, s)
      PROVE  Types'
  <2> DEFINE new == [rows EXCEPT ![p].state = s]
  <2>1. new \in [Pipelines -> Row]
    BY TypeFacts DEF Types, Outcomes
  <2>2. Writes(new)
    BY <1>12 DEF Finish
  <2>3. rows' \in [Pipelines -> Row] /\ outcome' \in [Invocations -> [Pipelines -> Outcomes]]
    BY <2>1, <2>2, WritesType
  <2>4. buffer' \in [Invocations -> SUBSET (Invocations \X Pipelines)]
    BY <1>12, RoutesFacts DEF Finish
  <2> QED
    BY <1>12, <2>3, <2>4 DEF Types, Finish, Unroutine, Outcomes
<1>13. ASSUME NEW r \in Invocations, Stop(r)
      PROVE  Types'
  BY <1>13 DEF Types, Stop, Goes, disk, Phases
<1>14. ASSUME NEW r \in Invocations, CloseSources(r)
      PROVE  Types'
  <2>1. source' \in [Invocations -> [Experiments -> Known]]
    <3>1. CloseState(r) \in Known
      <4>1. (count[r] >= limit[r]) \in BOOLEAN
        BY DEF Types
      <4> QED
        BY <4>1 DEF CloseState, Cut, Known, Unknown
    <3> QED
      BY <1>14, <3>1, SourceStateType DEF CloseSources
  <2>2. streams' \in [Invocations -> Seq(Stream)]
    BY <1>14, TypeFacts DEF Types, CloseSources
  <2> QED
    BY <1>14, <2>1, <2>2 DEF Types, CloseSources, Goes, Phases
<1>15. ASSUME NEW r \in Invocations, FinishRun(r)
      PROVE  Types'
  BY <1>15, TypeFacts DEF Types, FinishRun, Goes, Forgets, Phases, None
<1>16. ASSUME NEW r \in Invocations, Crash(r)
      PROVE  Types'
  BY <1>16, TypeFacts DEF Types, Crash, Goes, Forgets, disk, Phases, None
<1>17. ASSUME NEW r \in Invocations, NEW e \in Experiments, Flush(r, e)
      PROVE  Types'
  BY <1>17 DEF Types, Flush, Unroutine, Buffered
<1>18. CASE UNCHANGED vars
  BY <1>18 DEF Types, vars, disk, memory
<1> QED
  <2>1. ASSUME NEW r \in Invocations, Step(r)
        PROVE  Types'
    BY <2>1, <1>1, <1>2, <1>3, <1>4, <1>5, <1>6, <1>7, <1>8, <1>9,
       <1>10, <1>11, <1>12, <1>13, <1>14, <1>15, <1>16, <1>17 DEF Step
  <2> QED
    BY <2>1, <1>18 DEF Next

\* The variables have their types in every reachable state.
LEMMA TypesHold == Spec => []Types
<1> QED
  BY TypesInit, TypesStep, PTL DEF Spec

-----------------------------------------------------------------------------
(* The writer lock *)

\* A step lets an invocation past the lock only if it is free.
LEMMA OneWriterStep ==
    ASSUME Types, OneWriter, [Next]_vars
    PROVE  OneWriter'
<1> DEFINE Enters(r) == /\ LockFree(r)
                        /\ \A x \in Invocations : x # r => phase'[x] = phase[x]
<1>1. ASSUME NEW r \in Invocations,
             \/ CreateCatalog(r) \/ Publish(r) \/ RefuseRoot(r) \/ Register(r)
             \/ InterruptRuns(r) \/ Prepare(r) \/ Stop(r) \/ CloseSources(r)
             \/ FinishRun(r) \/ Crash(r)
             \/ \E exps \in Selections, resume \in BOOLEAN, n \in Limits : Start(r, exps, resume, n)
      PROVE  \A x \in Invocations : Holds(x)' => Holds(x)
  <2> DEFINE Leads(t) == phase' = [phase EXCEPT ![r] = t]
  <2>1. CASE CreateCatalog(r) \/ Publish(r) \/ RefuseRoot(r) \/ Crash(r)
    <3>1. Leads("creating") \/ Leads("manifest") \/ Leads("refused") \/ Leads("crashed")
      BY <2>1 DEF CreateCatalog, Publish, RefuseRoot, Crash, Goes
    <3> QED
      BY <3>1 DEF Types, Holds, Alive
  <2>2. CASE \/ Register(r) \/ InterruptRuns(r) \/ Prepare(r) \/ Stop(r)
             \/ \E exps \in Selections, resume \in BOOLEAN, n \in Limits : Start(r, exps, resume, n)
    <3>1. Holds(r) /\ \E t : Leads(t)
      BY <2>2 DEF Register, InterruptRuns, Prepare, Stop, Start, Goes, Holds, Alive, In
    <3> QED
      BY <3>1 DEF Types, Holds, Alive
  <2>3. CASE CloseSources(r) \/ FinishRun(r)
    <3>1. Holds(r) /\ \E t : Leads(t)
      BY <2>3 DEF CloseSources, FinishRun, Produced, Goes, Holds, Alive, In
    <3> QED
      BY <3>1 DEF Types, Holds, Alive
  <2> QED
    BY <1>1, <2>1, <2>2, <2>3
<1>2. ASSUME NEW r \in Invocations, Open(r)
      PROVE  \A x \in Invocations : Holds(x)' => Holds(x) \/ (x = r /\ Enters(r))
  BY <1>2 DEF Types, Holds, Alive, In, Goes, Open
<1>3. ASSUME NEW r \in Invocations,
             \/ \E e \in Experiments : CreateChild(r, e) \/ InterruptStale(r, e) \/ Flush(r, e)
             \/ AdmitCatalog(r) \/ AdmitChild(r) \/ SourceEnds(r) \/ SourceFails(r)
             \/ \E p \in Pipelines : \/ Skip(r, p) \/ Begin(r, p) \/ Attempt(r, p)
                                     \/ \E s \in {"succeeded", "failed", "interrupted"} : Finish(r, p, s)
      PROVE  phase' = phase
  BY <1>3 DEF CreateChild, InterruptStale, Flush, AdmitCatalog, AdmitChild, SourceEnds, SourceFails,
              Skip, Begin, Attempt, Finish, Unroutine, memory
<1>4. CASE \A x \in Invocations : Holds(x)' => Holds(x)
  BY <1>4 DEF OneWriter
<1>5. CASE phase' = phase
  BY <1>5 DEF OneWriter, Holds, Alive
<1>6. ASSUME NEW r \in Invocations, Open(r)
      PROVE  OneWriter'
  <2> SUFFICES ASSUME NEW x \in Invocations, NEW y \in Invocations, Holds(x)', Holds(y)'
               PROVE  x = y
    BY DEF OneWriter
  <2>1. \A z \in Invocations : z # r => (Holds(z)' => Holds(z))
    BY <1>2, <1>6
  <2>2. CASE Holds(r)
    BY <2>1, <2>2 DEF OneWriter
  <2>3. CASE Holds(r)' /\ ~Holds(r)
    <3>1. LockFree(r)
      BY <1>2, <1>6, <2>3
    <3> QED
      BY <2>1, <3>1 DEF LockFree
  <2>4. CASE ~Holds(r)'
    BY <2>1, <2>4 DEF OneWriter
  <2> QED
    BY <2>2, <2>3, <2>4
<1>7. CASE UNCHANGED vars
  BY <1>7, <1>5 DEF vars, memory
<1> QED
  <2>1. ASSUME NEW r \in Invocations, Step(r)
        PROVE  OneWriter'
    BY <2>1, <1>1, <1>3, <1>4, <1>5, <1>6 DEF Step
  <2> QED
    BY <2>1, <1>7 DEF Next

\* A run that writes is the only one with a worker at something.
LEMMA OnlyWriter ==
    ASSUME OneWriter, InHand, NEW r \in Invocations, Holds(r),
           NEW x \in Invocations, NEW p \in Pipelines, hand[x][p] # None
    PROVE  x = r
<1>1. phase[x] \in {"produce", "stopping"}
  BY DEF InHand, HandAt
<1>2. Holds(x)
  BY <1>1 DEF Holds, Alive
<1> QED
  BY <1>2 DEF OneWriter

-----------------------------------------------------------------------------
(* The steps of one invocation *)

Early == {"idle", "refused", "creating", "manifest", "open", "registered", "recover", "prepare"}
Late == Phases \ Early

\* What the rest of the invariant says, beside the types and the lock.
Accounts == InHand /\ RowOwned /\ Admission /\ Untold /\ Fed /\ Exhausted /\ OutcomesTold
SuiteInv == Types /\ OneWriter /\ Accounts

\* The feed of a run is kept by every step that admits nothing and tells of no
\* pipeline for the first time.
LEMMA FeedKept ==
    ASSUME SuiteInv, NEW r \in Invocations,
           UNCHANGED <<admitted, source>>,
           \A x \in Invocations, p \in Pipelines : outcome'[x][p] = None <=> outcome[x][p] = None,
           \A x \in Invocations \ {r} :
             phase'[x] = phase[x] /\ admitting'[x] = admitting[x] /\ streams'[x] = streams[x],
           \/ admitting'[r] = admitting[r] /\ streams'[r] = streams[r]
           \/ admitting'[r] = None /\ streams'[r] = <<>>,
           phase'[r] = phase[r] \/ phase[r] \in Early
             \/ (admitting'[r] = None /\ phase'[r] \in Late)
    PROVE  Admission' /\ Untold' /\ Fed' /\ Exhausted'
<1> USE DEF SuiteInv, Accounts
<1>1. \A x \in Invocations : admitting[x] \in Pipelines \cup {None}
  BY DEF Types
<1>2. Admission'
  BY <1>1 DEF Admission, In, Early
<1>3. Untold'
  BY DEF Untold, Late, Phases, Early
<1>4. Exhausted'
  <2>1. \A e \in Experiments : \A p \in Range(Source[e]) : p \in Pipelines
    BY DEF Pipelines
  <2> QED
    BY <2>1 DEF Exhausted
<1>5. Fed'
  <2> SUFFICES ASSUME NEW x \in Invocations PROVE FeedAt(x)'
    BY DEF Fed
  <2>1. CASE streams'[x] = <<>>
    BY <2>1 DEF FeedAt
  <2>2. CASE streams'[x] = streams[x] /\ admitting'[x] = admitting[x]
    <3>1. ASSUME NEW e \in Experiments, NEW k \in 1 .. Len(Source[e])
          PROVE  (Handed(x, e, k) => Handed(x, e, k)') /\ (Ahead(x, e, k) => Ahead(x, e, k)')
      <4>1. Source[e][k] \in Pipelines
        BY SourceFacts
      <4> QED
        BY <2>2, <4>1 DEF Handed, Ahead
    <3>2. \A e \in Experiments, n \in Nat : StreamAt(x, e, n) => StreamAt(x, e, n)'
      BY <3>1 DEF StreamAt
    <3>3. FeedAt(x)
      BY DEF Fed
    <3> QED
      BY <2>2, <3>2, <3>3 DEF FeedAt
  <2> QED
    BY <2>1, <2>2
<1> QED
  BY <1>2, <1>3, <1>4, <1>5

\* What a worker holds stays as it is when the step does not touch it.
LEMMA HandKept ==
    ASSUME NEW x \in Invocations, NEW q \in Pipelines, HandAt(x, q),
           hand'[x][q] = None \/ (hand'[x][q] = hand[x][q] /\ phase'[x] \in {phase[x], "stopping"}),
           outcome'[x][q] = outcome[x][q], did'[x][q] = did[x][q], rows'[q] = rows[q],
           facts \cup buffer[x] \subseteq facts' \cup buffer'[x]
    PROVE  HandAt(x, q)'
BY DEF HandAt, None

\* OutcomesTold of one run and pipeline.
ToldAt(r, p) ==
    /\ \/ outcome[r][p] = did[r][p]
       \/ (outcome[r][p] = "interrupted" /\ did[r][p] = "running" /\ In(r, "crashed"))
    /\ outcome[r][p] \in {"succeeded", "failed"} /\ ~In(r, "crashed")
         => <<r, p>> \in facts \cup buffer[r]

\* OutcomesTold is ToldAt of every run and pipeline.
LEMMA ToldIs ==
    /\ OutcomesTold <=> \A r \in Invocations, p \in Pipelines : ToldAt(r, p)
    /\ OutcomesTold' <=> \A r \in Invocations, p \in Pipelines : ToldAt(r, p)'
BY DEF OutcomesTold, ToldAt

\* What is told stays told when the step does not touch it.
LEMMA ToldKept ==
    ASSUME NEW x \in Invocations, NEW q \in Pipelines, ToldAt(x, q),
           outcome'[x][q] = outcome[x][q], did'[x][q] = did[x][q],
           facts \cup buffer[x] \subseteq facts' \cup buffer'[x] \/ In(x, "crashed")',
           In(x, "crashed") => In(x, "crashed")'
    PROVE  ToldAt(x, q)'
BY DEF ToldAt

\* Before it produces, an invocation has told nothing: its phase may change.
LEMMA EarlyStep ==
    ASSUME SuiteInv, NEW r \in Invocations, phase[r] \in Early,
           phase' = phase \/ \E t \in Early : phase' = [phase EXCEPT ![r] = t],
           UNCHANGED <<rows, outcome, did, hand, admitting, streams, source, admitted,
                       facts, buffer>>
    PROVE  Accounts'
<1>1. /\ Types /\ InHand /\ RowOwned /\ OutcomesTold
      /\ \A x \in Invocations : phase'[x] = phase[x] \/ (x = r /\ phase'[x] \in Early)
  BY DEF SuiteInv, Accounts, Types
<1>2. InHand'
  <2> SUFFICES ASSUME NEW x \in Invocations, NEW q \in Pipelines PROVE HandAt(x, q)'
    BY DEF InHand
  <2>1. HandAt(x, q)
    BY <1>1 DEF InHand
  <2>2. hand[x][q] = None \/ phase'[x] = phase[x]
    BY <1>1, <2>1 DEF HandAt, Early
  <2> QED
    BY <2>1, <2>2, HandKept
<1>3. RowOwned'
  BY <1>1 DEF RowOwned, InHand, HandAt, Early, In
<1>4. OutcomesTold'
  <2>1. ASSUME NEW x \in Invocations, NEW q \in Pipelines PROVE ToldAt(x, q)'
    <3>1. In(x, "crashed") => In(x, "crashed")'
      BY <1>1 DEF In, Early
    <3> QED
      BY <1>1, <3>1, ToldIs, ToldKept
  <2> QED
    BY <2>1, ToldIs
<1>5. Admission' /\ Untold' /\ Fed' /\ Exhausted'
  BY <1>1, FeedKept
<1> QED
  BY <1>2, <1>3, <1>4, <1>5 DEF Accounts

\* Killed, an invocation forgets what it held; its row stays as it was.
LEMMA CrashStep ==
    ASSUME SuiteInv, NEW r \in Invocations, Crash(r)
    PROVE  Accounts'
<1>1. /\ Types /\ InHand /\ RowOwned /\ OutcomesTold
      /\ UNCHANGED <<rows, outcome, did, facts, admitted, source>>
      /\ \A p \in Pipelines : hand'[r][p] = None
      /\ \A x \in Invocations \ {r} : /\ hand'[x] = hand[x] /\ buffer'[x] = buffer[x]
                                      /\ admitting'[x] = admitting[x] /\ streams'[x] = streams[x]
                                      /\ phase'[x] = phase[x]
      /\ phase'[r] = "crashed" /\ admitting'[r] = None /\ streams'[r] = <<>>
  BY DEF SuiteInv, Accounts, Types, Crash, Forgets, Goes, disk
<1>2. InHand'
  <2> SUFFICES ASSUME NEW x \in Invocations, NEW q \in Pipelines PROVE HandAt(x, q)'
    BY DEF InHand
  <2>1. CASE x = r
    BY <1>1, <2>1 DEF HandAt, None
  <2>2. CASE x # r
    BY <1>1, <2>2, HandKept DEF InHand
  <2> QED
    BY <2>1, <2>2
<1>3. RowOwned'
  BY <1>1 DEF RowOwned, In
<1>4. OutcomesTold'
  <2>1. ASSUME NEW x \in Invocations, NEW q \in Pipelines PROVE ToldAt(x, q)'
    <3>1. In(x, "crashed") => In(x, "crashed")'
      BY <1>1 DEF In
    <3>2. facts \cup buffer[x] \subseteq facts' \cup buffer'[x] \/ In(x, "crashed")'
      BY <1>1 DEF In
    <3> QED
      BY <1>1, <3>1, <3>2, ToldIs, ToldKept
  <2> QED
    BY <2>1, ToldIs
<1>5. Admission' /\ Untold' /\ Fed' /\ Exhausted'
  BY <1>1, FeedKept DEF Late, Phases, Early
<1> QED
  BY <1>2, <1>3, <1>4, <1>5 DEF Accounts

\* A run that ends holds nothing any more, and flushes what it buffers.
LEMMA FinishRunStep ==
    ASSUME SuiteInv, NEW r \in Invocations, FinishRun(r)
    PROVE  Accounts'
<1>1. /\ Types /\ InHand /\ RowOwned /\ OutcomesTold
      /\ phase[r] \in {"interrupted", "completed"}
      /\ UNCHANGED <<rows, outcome, did, admitted, source>> /\ facts' = facts \cup buffer[r]
      /\ \A p \in Pipelines : hand'[r][p] = None
      /\ \A x \in Invocations \ {r} : /\ hand'[x] = hand[x] /\ buffer'[x] = buffer[x]
                                      /\ admitting'[x] = admitting[x] /\ streams'[x] = streams[x]
                                      /\ phase'[x] = phase[x]
      /\ phase'[r] = "ended" /\ admitting'[r] = None /\ streams'[r] = <<>>
  BY DEF SuiteInv, Accounts, Types, FinishRun, Forgets, Goes
<1>2. InHand'
  <2> SUFFICES ASSUME NEW x \in Invocations, NEW q \in Pipelines PROVE HandAt(x, q)'
    BY DEF InHand
  <2>1. CASE x = r
    BY <1>1, <2>1 DEF HandAt, None
  <2>2. CASE x # r
    BY <1>1, <2>2, HandKept DEF InHand
  <2> QED
    BY <2>1, <2>2
<1>3. RowOwned'
  <2>1. \A p \in Pipelines : rows[p].state = "running" => rows[p].run # r
    BY <1>1 DEF RowOwned, InHand, HandAt, In, None
  <2> QED
    BY <1>1, <2>1 DEF RowOwned, In
<1>4. OutcomesTold'
  <2>1. ASSUME NEW x \in Invocations, NEW q \in Pipelines PROVE ToldAt(x, q)'
    <3>1. In(x, "crashed") => In(x, "crashed")'
      BY <1>1 DEF In
    <3> QED
      BY <1>1, <3>1, ToldIs, ToldKept
  <2> QED
    BY <2>1, ToldIs
<1>5. Admission' /\ Untold' /\ Fed' /\ Exhausted'
  BY <1>1, FeedKept DEF Late, Phases, Early
<1> QED
  BY <1>2, <1>3, <1>4, <1>5 DEF Accounts

\* A stop drops what no worker has begun; its outcome stays pending.
LEMMA StopStep ==
    ASSUME SuiteInv, NEW r \in Invocations, Stop(r)
    PROVE  Accounts'
<1>1. /\ Types /\ InHand /\ RowOwned /\ OutcomesTold
      /\ UNCHANGED <<rows, outcome, did, admitted, source, facts, buffer, admitting, streams>>
      /\ \A p \in Pipelines : hand'[r][p] = IF hand[r][p] = "queued" THEN None ELSE hand[r][p]
      /\ \A x \in Invocations \ {r} : hand'[x] = hand[x] /\ phase'[x] = phase[x]
      /\ phase[r] = "produce" /\ phase'[r] = "stopping" /\ admitting'[r] = None
  BY DEF SuiteInv, Accounts, Types, Stop, Goes, disk, In
<1>2. InHand'
  <2> SUFFICES ASSUME NEW x \in Invocations, NEW q \in Pipelines PROVE HandAt(x, q)'
    BY DEF InHand
  <2> QED
    BY <1>1, HandKept DEF InHand
<1>3. RowOwned'
  BY <1>1 DEF RowOwned, In, None
<1>4. OutcomesTold'
  <2>1. ASSUME NEW x \in Invocations, NEW q \in Pipelines PROVE ToldAt(x, q)'
    <3>1. In(x, "crashed") => In(x, "crashed")'
      BY <1>1 DEF In
    <3> QED
      BY <1>1, <3>1, ToldIs, ToldKept
  <2> QED
    BY <2>1, ToldIs
<1>5. Admission' /\ Untold' /\ Fed' /\ Exhausted'
  BY <1>1, FeedKept DEF Late, Phases, Early
<1> QED
  BY <1>2, <1>3, <1>4, <1>5 DEF Accounts

\* A worker skips a pipeline that an earlier run completed.
LEMMA SkipStep ==
    ASSUME SuiteInv, NEW r \in Invocations, NEW p \in Pipelines, Skip(r, p)
    PROVE  Accounts'
<1>1. /\ Types /\ InHand /\ RowOwned /\ OutcomesTold
      /\ UNCHANGED <<rows, phase, admitted, source, admitting, streams>>
      /\ hand[r][p] = "queued" /\ rows[p].state = "succeeded"
      /\ \A x \in Invocations, q \in Pipelines :
           /\ hand'[x][q] = IF x = r /\ q = p THEN None ELSE hand[x][q]
           /\ did'[x][q] = IF x = r /\ q = p THEN "skipped" ELSE did[x][q]
  BY DEF SuiteInv, Accounts, Types, Skip, Unroutine
<1>2. outcome[r][p] = "pending"
  BY <1>1 DEF InHand, HandAt
<1>3. \A x \in Invocations, q \in Pipelines :
        outcome'[x][q] = IF x = r /\ q = p THEN "skipped" ELSE outcome[x][q]
  BY <1>1, <1>2 DEF Types, Skip
<1>4. /\ facts \subseteq facts' /\ facts \cup buffer[r] = facts' \cup buffer'[r]
      /\ \A x \in Invocations : x # r => buffer'[x] = buffer[x]
  BY <1>1, RoutesFacts DEF Skip, Delegates
<1>5. InHand'
  <2> SUFFICES ASSUME NEW x \in Invocations, NEW q \in Pipelines PROVE HandAt(x, q)'
    BY DEF InHand
  <2>1. CASE x = r /\ q = p
    BY <1>1, <2>1 DEF HandAt, None
  <2>2. CASE ~(x = r /\ q = p)
    <3>1. facts \cup buffer[x] \subseteq facts' \cup buffer'[x]
      BY <1>4
    <3> QED
      BY <1>1, <1>3, <2>2, <3>1, HandKept DEF InHand
  <2> QED
    BY <2>1, <2>2
<1>6. RowOwned'
  BY <1>1 DEF RowOwned, In
<1>7. OutcomesTold'
  <2> SUFFICES ASSUME NEW x \in Invocations, NEW q \in Pipelines PROVE ToldAt(x, q)'
    BY ToldIs
  <2>1. CASE x = r /\ q = p
    BY <1>1, <1>3, <2>1 DEF ToldAt
  <2>2. CASE ~(x = r /\ q = p)
    BY <1>1, <1>3, <1>4, <2>2, ToldIs, ToldKept DEF In
  <2> QED
    BY <2>1, <2>2
<1>8. Admission' /\ Untold' /\ Fed' /\ Exhausted'
  BY <1>1, <1>2, <1>3, FeedKept DEF None
<1> QED
  BY <1>5, <1>6, <1>7, <1>8 DEF Accounts

\* A worker opens a pipeline: the row becomes the run's.
LEMMA BeginStep ==
    ASSUME SuiteInv, NEW r \in Invocations, NEW p \in Pipelines, Begin(r, p)
    PROVE  Accounts'
<1>1. /\ Types /\ OneWriter /\ InHand /\ RowOwned /\ OutcomesTold
      /\ UNCHANGED <<phase, admitted, source, admitting, streams>>
      /\ hand[r][p] = "queued" /\ Alive(r)
      /\ rows' = [rows EXCEPT ![p] = [state |-> "running", run |-> r]]
      /\ \A x \in Invocations, q \in Pipelines :
           /\ hand'[x][q] = IF x = r /\ q = p THEN "begun" ELSE hand[x][q]
           /\ did'[x][q] = IF x = r /\ q = p THEN "running" ELSE did[x][q]
  BY DEF SuiteInv, Accounts, Types, Begin, Unroutine, Works, Writes
<1>2. outcome[r][p] = "pending" /\ did[r][p] = "pending" /\ phase[r] \in {"produce", "stopping"}
  BY <1>1 DEF InHand, HandAt, None
<1>3. Holds(r)
  BY <1>1, <1>2 DEF Holds
<1>4. rows[p].state = "running" => rows[p].run # r
  BY <1>1, <1>2 DEF RowOwned
<1>5. \A x \in Invocations, q \in Pipelines :
        outcome'[x][q] = IF x = r /\ q = p THEN "running" ELSE outcome[x][q]
  <2> DEFINE new == [rows EXCEPT ![p] = [state |-> "running", run |-> r]]
  <2>1. /\ new[p].state = "running" /\ new[p].run = r
        /\ \A q \in Pipelines : q # p => new[q] = rows[q]
    BY <1>1 DEF Types
  <2>2. new[p] # rows[p]
    BY <1>4, <2>1
  <2>3. \A x \in Invocations, q \in Pipelines : outcome'[x][q] =
          IF new[q] # rows[q] /\ new[q].run = x /\ outcome[x][q] \in {"pending", "running"}
          THEN new[q].state ELSE outcome[x][q]
    BY DEF Begin, Writes, Traced
  <2> HIDE DEF new
  <2> QED
    BY <1>2, <2>1, <2>2, <2>3
<1>6. /\ facts \subseteq facts' /\ facts \cup buffer[r] = facts' \cup buffer'[r]
      /\ \A x \in Invocations : x # r => buffer'[x] = buffer[x]
  BY <1>1, RoutesFacts DEF Begin, Delegates
<1>7. \A x \in Invocations : hand[x][p] \in {"begun", "tried"} => FALSE
  <2> SUFFICES ASSUME NEW x \in Invocations, hand[x][p] \in {"begun", "tried"}
               PROVE  FALSE
    OBVIOUS
  <2>1. x = r
    BY <1>1, <1>3, OnlyWriter DEF None
  <2> QED
    BY <1>1, <2>1
<1>8. /\ rows'[p].state = "running" /\ rows'[p].run = r
      /\ \A q \in Pipelines : q # p => rows'[q] = rows[q]
  BY <1>1 DEF Types
<1>9. InHand'
  <2> SUFFICES ASSUME NEW x \in Invocations, NEW q \in Pipelines PROVE HandAt(x, q)'
    BY DEF InHand
  <2>1. CASE x = r /\ q = p
    BY <1>1, <1>2, <1>5, <1>8, <2>1 DEF HandAt, None
  <2>2. CASE q # p
    <3>1. facts \cup buffer[x] \subseteq facts' \cup buffer'[x]
      BY <1>6
    <3> QED
      BY <1>1, <1>5, <1>8, <2>2, <3>1, HandKept DEF InHand
  <2>3. CASE x # r /\ q = p
    BY <1>1, <1>5, <1>7, <2>3 DEF HandAt, InHand
  <2> QED
    BY <2>1, <2>2, <2>3
<1>10. RowOwned'
  <2> SUFFICES ASSUME NEW q \in Pipelines, rows'[q].state = "running"
               PROVE  /\ rows'[q].run \in Invocations
                      /\ did'[rows'[q].run][q] = "running"
                      /\ \/ hand'[rows'[q].run][q] \in {"begun", "tried"}
                         \/ In(rows'[q].run, "crashed")
    BY <1>1 DEF RowOwned, In
  <2>1. CASE q = p
    BY <1>1, <1>8, <2>1
  <2>2. CASE q # p
    BY <1>1, <1>8, <2>2 DEF RowOwned
  <2> QED
    BY <2>1, <2>2
<1>11. OutcomesTold'
  <2> SUFFICES ASSUME NEW x \in Invocations, NEW q \in Pipelines PROVE ToldAt(x, q)'
    BY ToldIs
  <2>1. CASE x = r /\ q = p
    BY <1>1, <1>5, <2>1 DEF ToldAt
  <2>2. CASE ~(x = r /\ q = p)
    BY <1>1, <1>5, <1>6, <2>2, ToldIs, ToldKept DEF In
  <2> QED
    BY <2>1, <2>2
<1>12. Admission' /\ Untold' /\ Fed' /\ Exhausted'
  BY <1>1, <1>2, <1>5, FeedKept DEF None
<1> QED
  BY <1>9, <1>10, <1>11, <1>12 DEF Accounts

\* An attempt is a fact of the child, buffered there.
LEMMA AttemptStep ==
    ASSUME SuiteInv, NEW r \in Invocations, NEW p \in Pipelines, Attempt(r, p)
    PROVE  Accounts'
<1>1. /\ Types /\ InHand /\ RowOwned /\ OutcomesTold
      /\ UNCHANGED <<rows, outcome, did, phase, admitted, source, admitting, streams>>
      /\ hand[r][p] = "begun"
      /\ \A x \in Invocations, q \in Pipelines :
           hand'[x][q] = IF x = r /\ q = p THEN "tried" ELSE hand[x][q]
  BY DEF SuiteInv, Accounts, Types, Attempt, Unroutine
<1>2. /\ facts \subseteq facts' /\ facts \cup buffer[r] \subseteq facts' \cup buffer'[r]
      /\ <<r, p>> \in buffer'[r]
      /\ \A x \in Invocations : x # r => buffer'[x] = buffer[x]
  BY <1>1 DEF Types, Attempt
<1>3. InHand'
  <2> SUFFICES ASSUME NEW x \in Invocations, NEW q \in Pipelines PROVE HandAt(x, q)'
    BY DEF InHand
  <2>1. CASE x = r /\ q = p
    BY <1>1, <1>2, <2>1 DEF HandAt, InHand, None
  <2>2. CASE ~(x = r /\ q = p)
    <3>1. facts \cup buffer[x] \subseteq facts' \cup buffer'[x]
      BY <1>2
    <3> QED
      BY <1>1, <2>2, <3>1, HandKept DEF InHand
  <2> QED
    BY <2>1, <2>2
<1>4. RowOwned'
  BY <1>1 DEF RowOwned, In
<1>5. OutcomesTold'
  BY <1>1, <1>2, ToldIs, ToldKept DEF In
<1>6. Admission' /\ Untold' /\ Fed' /\ Exhausted'
  BY <1>1, FeedKept
<1> QED
  BY <1>3, <1>4, <1>5, <1>6 DEF Accounts

\* A worker settles a pipeline: the row is still the run's, and its attempt is
\* on disk or still buffered.
LEMMA FinishStep ==
    ASSUME SuiteInv, NEW r \in Invocations, NEW p \in Pipelines,
           NEW s \in {"succeeded", "failed", "interrupted"}, Finish(r, p, s)
    PROVE  Accounts'
<1>1. /\ Types /\ InHand /\ RowOwned /\ OutcomesTold
      /\ UNCHANGED <<phase, admitted, source, admitting, streams>>
      /\ hand[r][p] = "tried"
      /\ rows' = [rows EXCEPT ![p].state = s]
      /\ \A x \in Invocations, q \in Pipelines :
           /\ hand'[x][q] = IF x = r /\ q = p THEN None ELSE hand[x][q]
           /\ did'[x][q] = IF x = r /\ q = p THEN s ELSE did[x][q]
  BY DEF SuiteInv, Accounts, Types, Finish, Unroutine, Works, Writes
<1>2. /\ outcome[r][p] = "running" /\ did[r][p] = "running"
      /\ rows[p].state = "running" /\ rows[p].run = r
      /\ <<r, p>> \in facts \cup buffer[r]
  BY <1>1 DEF InHand, HandAt, None
<1>3. /\ rows'[p].state = s /\ rows'[p].run = r
      /\ \A q \in Pipelines : q # p => rows'[q] = rows[q]
  BY <1>1, <1>2 DEF Types, Row
<1>4. \A x \in Invocations, q \in Pipelines :
        outcome'[x][q] = IF x = r /\ q = p THEN s ELSE outcome[x][q]
  <2>1. rows'[p] # rows[p]
    BY <1>2, <1>3
  <2>2. \A x \in Invocations, q \in Pipelines : outcome'[x][q] =
          IF rows'[q] # rows[q] /\ rows'[q].run = x /\ outcome[x][q] \in {"pending", "running"}
          THEN rows'[q].state ELSE outcome[x][q]
    BY DEF Finish, Writes, Traced
  <2> QED
    BY <1>2, <1>3, <2>1, <2>2
<1>5. /\ facts \subseteq facts' /\ facts \cup buffer[r] = facts' \cup buffer'[r]
      /\ \A x \in Invocations : x # r => buffer'[x] = buffer[x]
  BY <1>1, RoutesFacts DEF Finish
<1>6. <<r, p>> \in facts' \cup buffer'[r]
  BY <1>2, <1>5
<1>7. InHand'
  <2> SUFFICES ASSUME NEW x \in Invocations, NEW q \in Pipelines PROVE HandAt(x, q)'
    BY DEF InHand
  <2>1. CASE x = r /\ q = p
    BY <1>1, <2>1 DEF HandAt, None
  <2>2. CASE q # p
    <3>1. facts \cup buffer[x] \subseteq facts' \cup buffer'[x]
      BY <1>5
    <3> QED
      BY <1>1, <1>3, <1>4, <2>2, <3>1, HandKept DEF InHand
  <2>3. CASE x # r /\ q = p
    BY <1>1, <1>2, <1>4, <2>3 DEF HandAt, InHand
  <2> QED
    BY <2>1, <2>2, <2>3
<1>8. RowOwned'
  <2> SUFFICES ASSUME NEW q \in Pipelines, rows'[q].state = "running"
               PROVE  /\ rows'[q].run \in Invocations
                      /\ did'[rows'[q].run][q] = "running"
                      /\ \/ hand'[rows'[q].run][q] \in {"begun", "tried"}
                         \/ In(rows'[q].run, "crashed")
    BY <1>1 DEF RowOwned, In
  <2>1. q # p
    BY <1>3
  <2> QED
    BY <1>1, <1>3, <2>1 DEF RowOwned
<1>9. OutcomesTold'
  <2> SUFFICES ASSUME NEW x \in Invocations, NEW q \in Pipelines PROVE ToldAt(x, q)'
    BY ToldIs
  <2>1. CASE x = r /\ q = p
    BY <1>1, <1>4, <1>6, <2>1 DEF ToldAt
  <2>2. CASE ~(x = r /\ q = p)
    BY <1>1, <1>4, <1>5, <2>2, ToldIs, ToldKept DEF In
  <2> QED
    BY <2>1, <2>2
<1>10. Admission' /\ Untold' /\ Fed' /\ Exhausted'
  BY <1>1, <1>2, <1>4, FeedKept DEF None
<1> QED
  BY <1>7, <1>8, <1>9, <1>10 DEF Accounts

\* A resume closes the rows of runs that were killed; every row that another
\* run left running is one of those, for only the writer's workers hold any.
LEMMA InterruptStaleStep ==
    ASSUME SuiteInv, NEW r \in Invocations, NEW e \in Experiments, InterruptStale(r, e)
    PROVE  Accounts'
<1> DEFINE Stale(q) == Eid(q) = e /\ rows[q].state = "running" /\ rows[q].run # r
<1>1. /\ Types /\ OneWriter /\ InHand /\ RowOwned /\ OutcomesTold
      /\ UNCHANGED <<phase, admitted, source, admitting, streams, hand, did>>
      /\ phase[r] = "recover"
      /\ rows' = [q \in Pipelines |->
                   IF Stale(q) THEN [rows[q] EXCEPT !.state = "interrupted"] ELSE rows[q]]
  BY DEF SuiteInv, Accounts, Types, InterruptStale, Writes, In
<1>2. \A x \in Invocations, q \in Pipelines : hand[x][q] = None
  <2> SUFFICES ASSUME NEW x \in Invocations, NEW q \in Pipelines, hand[x][q] # None
               PROVE  FALSE
    OBVIOUS
  <2>1. Holds(r)
    BY <1>1 DEF Holds, Alive
  <2>2. x = r
    BY <1>1, <2>1, OnlyWriter
  <2> QED
    BY <1>1, <2>2 DEF InHand, HandAt
<1>3. \A q \in Pipelines : Stale(q) =>
        /\ rows[q].run \in Invocations /\ did[rows[q].run][q] = "running"
        /\ In(rows[q].run, "crashed")
  BY <1>1, <1>2 DEF RowOwned, None
<1>4. ASSUME NEW q \in Pipelines
      PROVE  /\ Stale(q) => rows'[q].state = "interrupted" /\ rows'[q].run = rows[q].run
             /\ ~Stale(q) => rows'[q] = rows[q]
  BY <1>1 DEF Types, Row
<1>5. \A x \in Invocations, q \in Pipelines : outcome'[x][q] =
        IF Stale(q) /\ rows[q].run = x /\ outcome[x][q] \in {"pending", "running"}
        THEN "interrupted" ELSE outcome[x][q]
  <2>1. \A x \in Invocations, q \in Pipelines : outcome'[x][q] =
          IF rows'[q] # rows[q] /\ rows'[q].run = x /\ outcome[x][q] \in {"pending", "running"}
          THEN rows'[q].state ELSE outcome[x][q]
    BY DEF InterruptStale, Writes, Traced
  <2>2. \A q \in Pipelines : Stale(q) <=> rows'[q] # rows[q]
    BY <1>4
  <2> QED
    BY <1>4, <2>1, <2>2
<1> HIDE DEF Stale
<1>6. \A x \in Invocations : facts \cup buffer[x] \subseteq facts' \cup buffer'[x]
  BY <1>1, RoutesFacts DEF InterruptStale, Delegates
<1>7. InHand'
  BY <1>1, <1>2 DEF InHand, HandAt, None
<1>8. RowOwned'
  BY <1>1, <1>4 DEF RowOwned, In, Stale
<1>9. OutcomesTold'
  <2> SUFFICES ASSUME NEW x \in Invocations, NEW q \in Pipelines PROVE ToldAt(x, q)'
    BY ToldIs
  <2>1. CASE outcome'[x][q] = outcome[x][q]
    BY <1>1, <1>6, <2>1, ToldIs, ToldKept DEF In
  <2>2. CASE outcome'[x][q] # outcome[x][q]
    <3>1. Stale(q) /\ rows[q].run = x /\ outcome'[x][q] = "interrupted"
      BY <1>5, <2>2
    <3> QED
      BY <1>1, <1>3, <3>1 DEF ToldAt, In
  <2> QED
    BY <2>1, <2>2
<1>10. Admission' /\ Untold' /\ Fed' /\ Exhausted'
  BY <1>1, <1>5, FeedKept DEF None
<1> QED
  BY <1>7, <1>8, <1>9, <1>10 DEF Accounts

-----------------------------------------------------------------------------
(* The steps of the producer *)

\* A step that touches neither rows, outcomes nor hands and loses no fact keeps
\* what they say, whatever it does with the sources.
LEMMA WorkKept ==
    ASSUME SuiteInv, NEW r \in Invocations,
           UNCHANGED <<rows, outcome, did, hand>>,
           \A x \in Invocations : facts \cup buffer[x] \subseteq facts' \cup buffer'[x],
           \A x \in Invocations : \/ phase'[x] = phase[x]
                                  \/ phase[x] # "crashed" /\ \A p \in Pipelines : hand[x][p] = None
    PROVE  InHand' /\ RowOwned' /\ OutcomesTold'
<1>1. InHand /\ RowOwned /\ OutcomesTold
  BY DEF SuiteInv, Accounts
<1>2. \A x \in Invocations : In(x, "crashed") => In(x, "crashed")'
  BY DEF In
<1>3. InHand'
  <2> SUFFICES ASSUME NEW x \in Invocations, NEW q \in Pipelines PROVE HandAt(x, q)'
    BY DEF InHand
  <2>1. CASE phase'[x] = phase[x]
    BY <1>1, <2>1, HandKept DEF InHand
  <2>2. CASE hand[x][q] = None
    BY <2>2 DEF HandAt, None
  <2> QED
    BY <2>1, <2>2
<1>4. RowOwned'
  BY <1>1, <1>2 DEF RowOwned
<1>5. OutcomesTold'
  BY <1>1, <1>2, ToldIs, ToldKept
<1> QED
  BY <1>3, <1>4, <1>5

\* No source becomes exhausted, no outcome is lost.
LEMMA ExhaustedKept ==
    ASSUME Exhausted, UNCHANGED outcome, admitted \subseteq admitted',
           \A x \in Invocations, e \in Experiments :
             source'[x][e].exhausted => source[x][e].exhausted
    PROVE  Exhausted'
BY DEF Exhausted

\* One stream of a run whose feed is not touched.
LEMMA StreamKept ==
    ASSUME Types, Fed, NEW x \in Invocations, streams'[x] = streams[x],
           admitting'[x] = admitting[x], outcome'[x] = outcome[x], admitted \subseteq admitted'
    PROVE  FeedAt(x)'
<1>1. \A e \in Experiments, n \in Nat : StreamAt(x, e, n) => StreamAt(x, e, n)'
  BY DEF StreamAt, Handed, Ahead
<1> QED
  BY <1>1 DEF Fed, FeedAt

\* The sources are opened, nothing of them read.
LEMMA PrepareStep ==
    ASSUME SuiteInv, NEW r \in Invocations, Prepare(r)
    PROVE  Accounts'
<1>1. /\ Types /\ InHand /\ Admission /\ Untold /\ Fed /\ Exhausted
      /\ UNCHANGED <<rows, outcome, did, hand, facts, buffer, admitted, admitting>>
      /\ phase[r] = "prepare" /\ phase'[r] = "produce"
      /\ streams'[r] = Fresh(selected[r])
      /\ \A x \in Invocations \ {r} : phase'[x] = phase[x] /\ streams'[x] = streams[x]
  BY DEF SuiteInv, Accounts, Types, Prepare, Goes, In, Fresh
<1>2. /\ \A p \in Pipelines : outcome[r][p] = None /\ hand[r][p] = None
      /\ admitting[r] = None
  <2>1. \A p \in Pipelines : outcome[r][p] = None
    BY <1>1 DEF Untold
  <2>2. \A p \in Pipelines : hand[r][p] = None
    <3> SUFFICES ASSUME NEW p \in Pipelines PROVE hand[r][p] = None
      OBVIOUS
    <3>1. HandAt(r, p)
      BY <1>1 DEF InHand
    <3> QED
      BY <1>1, <3>1 DEF HandAt
  <2>3. admitting[r] = None
    BY <1>1 DEF Admission, In
  <2> QED
    BY <2>1, <2>2, <2>3
<1>3. InHand' /\ RowOwned' /\ OutcomesTold'
  BY <1>1, <1>2, WorkKept
<1>4. Admission' /\ Untold'
  BY <1>1, <1>2 DEF Admission, Untold, In
<1>5. Exhausted'
  <2>1. \A x \in Invocations, e \in Experiments : source'[x][e].exhausted => source[x][e].exhausted
    BY <1>1 DEF Types, Prepare, Unknown
  <2> QED
    BY <1>1, <2>1, ExhaustedKept
<1>6. Fed'
  <2> SUFFICES ASSUME NEW x \in Invocations PROVE FeedAt(x)'
    BY DEF Fed
  <2>1. CASE x # r
    BY <1>1, <2>1, StreamKept
  <2>2. CASE x = r
    <3>1. selected[r] \in SUBSET Experiments
      BY <1>1 DEF Types
    <3>2. /\ Fresh(selected[r]) \in Seq(Stream)
          /\ \A i, j \in DOMAIN Fresh(selected[r]) :
               Fresh(selected[r])[i].exp = Fresh(selected[r])[j].exp => i = j
          /\ \A i \in DOMAIN Fresh(selected[r]) : Fresh(selected[r])[i].seen = 0
      BY <3>1, FreshFacts
    <3>3. ASSUME NEW e \in Experiments
          PROVE  StreamAt(r, e, 0)'
      <4>1. Len(Source[e]) \in Nat /\ \A k \in 1 .. Len(Source[e]) : Source[e][k] \in Pipelines
        BY SourceFacts
      <4>2. None \notin Pipelines
        BY SuiteAssumption
      <4> QED
        BY <1>1, <1>2, <4>1, <4>2 DEF StreamAt, Ahead
    <3> QED
      BY <1>1, <2>2, <3>2, <3>3 DEF FeedAt
  <2> QED
    BY <2>1, <2>2
<1> QED
  BY <1>3, <1>4, <1>5, <1>6 DEF Accounts

\* What the producer is about to read: the first stream, as far as it got, and
\* the other sources, all distinct; between admissions all handed out is told.
LEMMA PullFacts ==
    ASSUME SuiteInv, NEW r \in Invocations, Pulls(r)
    PROVE  /\ streams[r] \in Seq(Stream) /\ streams[r] # <<>> /\ admitting[r] = None
           /\ phase[r] = "produce"
           /\ First(r) = streams[r][1] /\ 1 \in DOMAIN streams[r]
           /\ First(r).exp \in Experiments /\ First(r).seen \in Nat
           /\ \A i, j \in DOMAIN streams[r] : streams[r][i].exp = streams[r][j].exp => i = j
           /\ \A i \in DOMAIN streams[r] :
                streams[r][i].exp \in Experiments /\ streams[r][i].seen \in Nat
           /\ FeedAt(r)
           /\ \A e \in Experiments : \A k \in 1 .. Len(Source[e]) :
                Handed(r, e, k) => outcome[r][Source[e][k]] # None
<1>1. /\ streams[r] \in Seq(Stream) /\ streams[r] # <<>> /\ admitting[r] = None
      /\ phase[r] = "produce"
  BY DEF SuiteInv, Types, Pulls, In
<1>2. /\ First(r) = streams[r][1] /\ 1 \in DOMAIN streams[r]
      /\ \A i \in DOMAIN streams[r] : streams[r][i] \in Stream
  BY <1>1, RotateFacts DEF First
<1>3. \A i \in DOMAIN streams[r] : streams[r][i].exp \in Experiments /\ streams[r][i].seen \in Nat
  BY <1>2 DEF Stream
<1>4. \A e \in Experiments : \A k \in 1 .. Len(Source[e]) :
        Handed(r, e, k) => outcome[r][Source[e][k]] # None
  <2>1. \A e \in Experiments : \A k \in 1 .. Len(Source[e]) : Source[e][k] # None
    BY SourceFacts, SuiteAssumption
  <2> QED
    BY <1>1, <2>1 DEF Handed
<1> QED
  BY <1>1, <1>2, <1>3, <1>4 DEF SuiteInv, Accounts, Fed, FeedAt

\* What handing out the next pipeline of e does to every source of the run.
LEMMA HandOut ==
    ASSUME NEW r \in Invocations, NEW e \in Experiments, NEW n \in Nat, n < Len(Source[e]),
           StreamAt(r, e, n), outcome'[r] = outcome[r],
           \A d \in Experiments : \A k \in 1 .. Len(Source[d]) :
             Handed(r, d, k) => outcome[r][Source[d][k]] # None,
           admitted' = admitted \cup {<<r, Source[e][n + 1]>>},
           admitting'[r] = Source[e][n + 1]
    PROVE  /\ StreamAt(r, e, n + 1)'
           /\ \A d \in Experiments, m \in Nat : d # e /\ StreamAt(r, d, m) => StreamAt(r, d, m)'
<1> DEFINE p == Source[e][n + 1]
<1>1. Len(Source[e]) \in Nat /\ n + 1 \in 1 .. Len(Source[e])
  BY SourceFacts
<1>2. \A k \in 1 .. Len(Source[e]) : k # n + 1 => p # Source[e][k]
  BY <1>1, SourceFacts
<1>3. \A d \in Experiments : d # e => \A k \in 1 .. Len(Source[d]) : p # Source[d][k]
  BY <1>1, SourceFacts
<1>4. StreamAt(r, e, n + 1)'
  <2>1. ASSUME NEW k \in 1 .. Len(Source[e]), k <= n + 1
        PROVE  Handed(r, e, k)'
    <3>1. CASE k = n + 1
      BY <3>1 DEF Handed
    <3>2. CASE k # n + 1
      <4>1. Handed(r, e, k)
        BY <2>1, <3>2 DEF StreamAt
      <4> QED
        BY <4>1 DEF Handed
    <3> QED
      BY <3>1, <3>2
  <2>2. ASSUME NEW k \in 1 .. Len(Source[e]), n + 1 < k
        PROVE  Ahead(r, e, k)'
    <3>1. Ahead(r, e, k) /\ k # n + 1
      BY <2>2 DEF StreamAt
    <3> QED
      BY <1>2, <3>1 DEF Ahead
  <2> QED
    BY <1>1, <2>1, <2>2 DEF StreamAt
<1>5. ASSUME NEW d \in Experiments, d # e, NEW k \in 1 .. Len(Source[d])
      PROVE  (Handed(r, d, k) => Handed(r, d, k)') /\ (Ahead(r, d, k) => Ahead(r, d, k)')
  BY <1>3, <1>5 DEF Handed, Ahead
<1>6. ASSUME NEW d \in Experiments, NEW m \in Nat, d # e, StreamAt(r, d, m)
      PROVE  StreamAt(r, d, m)'
  BY <1>5, <1>6 DEF StreamAt
<1> QED
  BY <1>4, <1>6

\* The first stream hands out its next pipeline, which has no outcome.
LEMMA AdmitCatalogStep ==
    ASSUME SuiteInv, NEW r \in Invocations, AdmitCatalog(r)
    PROVE  Accounts'
<1>1. /\ Types /\ Admission /\ Untold /\ Fed /\ Exhausted /\ Pulls(r)
  BY DEF SuiteInv, Accounts, AdmitCatalog
<1>2. PICK e \in Experiments, n \in Nat : First(r).exp = e /\ First(r).seen = n
  BY <1>1, PullFacts
<1> DEFINE p == Source[e][n + 1]
           next == [exp |-> e, seen |-> n + 1]
<1>3. /\ UNCHANGED <<rows, outcome, did, hand, facts, buffer, phase, source>>
      /\ admitted' = admitted \cup {<<r, p>>} /\ n < Len(Source[e])
      /\ admitting'[r] = p /\ streams'[r] = Append(Tail(streams[r]), next)
      /\ \A x \in Invocations \ {r} : streams'[x] = streams[x] /\ admitting'[x] = admitting[x]
  BY <1>1, <1>2 DEF Types, AdmitCatalog
<1>4. /\ streams[r] \in Seq(Stream) /\ streams[r] # <<>> /\ admitting[r] = None
      /\ phase[r] = "produce" /\ streams[r][1].exp = e /\ streams[r][1].seen = n
      /\ 1 \in DOMAIN streams[r] /\ FeedAt(r)
      /\ \A i, j \in DOMAIN streams[r] : streams[r][i].exp = streams[r][j].exp => i = j
      /\ \A d \in Experiments : \A k \in 1 .. Len(Source[d]) :
           Handed(r, d, k) => outcome[r][Source[d][k]] # None
  BY <1>1, <1>2, PullFacts
<1>5. StreamAt(r, e, n)
  BY <1>4 DEF FeedAt
<1>6. Len(Source[e]) \in Nat /\ n + 1 \in 1 .. Len(Source[e]) /\ p \in Pipelines
  BY <1>3, SourceFacts
<1>7. outcome[r][p] = None
  BY <1>5, <1>6 DEF StreamAt, Ahead
<1>8. InHand' /\ RowOwned' /\ OutcomesTold'
  BY <1>3, WorkKept
<1>9. Admission' /\ Untold'
  BY <1>1, <1>3, <1>4, <1>7 DEF Admission, Untold, In
<1>10. Exhausted'
  BY <1>1, <1>3, ExhaustedKept
<1>11. FeedAt(r)'
  <2>1. /\ StreamAt(r, e, n + 1)'
        /\ \A d \in Experiments, m \in Nat : d # e /\ StreamAt(r, d, m) => StreamAt(r, d, m)'
    BY <1>3, <1>4, <1>5, HandOut
  <2>2. next \in Stream /\ next.exp = e /\ next.seen = n + 1
    BY DEF Stream
  <2> DEFINE l == Len(streams[r])
  <2>3. /\ l \in Nat /\ DOMAIN streams[r] = 1 .. l /\ DOMAIN streams'[r] = 1 .. l
        /\ \A i \in 1 .. l :
             IF i = l THEN streams'[r][i] = next ELSE streams'[r][i] = streams[r][i + 1]
    BY <1>3, <1>4, <2>2
  <2>4. \A i \in 1 .. l : IF i = l THEN streams'[r][i].exp = streams[r][1].exp
                                   ELSE streams'[r][i].exp = streams[r][i + 1].exp
    BY <1>4, <2>2, <2>3
  <2>5. ASSUME NEW i \in 1 .. l, NEW j \in 1 .. l, streams'[r][i].exp = streams'[r][j].exp
        PROVE  i = j
    <3> DEFINE old(k) == IF k = l THEN 1 ELSE k + 1
    <3>1. old(i) \in 1 .. l /\ old(j) \in 1 .. l /\ (old(i) = old(j) => i = j)
      BY <2>3
    <3>2. streams[r][old(i)].exp = streams[r][old(j)].exp
      BY <2>4, <2>5
    <3> HIDE DEF old
    <3>3. old(i) = old(j)
      BY <1>4, <2>3, <3>1, <3>2
    <3> QED
      BY <3>1, <3>3
  <2>6. ASSUME NEW i \in 1 .. l, NEW d \in Experiments, NEW m \in Nat,
               streams'[r][i].exp = d, streams'[r][i].seen = m
        PROVE  StreamAt(r, d, m)'
    <3>1. CASE i = l
      <4>1. d = e /\ m = n + 1
        BY <2>2, <2>3, <2>6, <3>1
      <4> QED
        BY <2>1, <4>1
    <3>2. CASE i # l
      <4>1. i + 1 \in 1 .. l /\ i + 1 # 1 /\ streams'[r][i] = streams[r][i + 1]
        BY <2>3, <3>2
      <4>2. StreamAt(r, d, m)
        BY <1>4, <2>3, <2>6, <4>1 DEF FeedAt
      <4>3. d # e
        BY <1>4, <2>3, <2>6, <4>1
      <4> QED
        BY <2>1, <4>2, <4>3
    <3> QED
      BY <3>1, <3>2
  <2> QED
    BY <2>3, <2>5, <2>6 DEF FeedAt
<1>12. Fed'
  BY <1>1, <1>3, <1>11, StreamKept DEF Fed
<1> QED
  BY <1>8, <1>9, <1>10, <1>12 DEF Accounts

\* One source is dropped: what the others handed out stays so.
LEMMA DropKept ==
    ASSUME SuiteInv, NEW r \in Invocations, Pulls(r), UNCHANGED <<outcome, admitting, admitted>>,
           streams' = [streams EXCEPT ![r] = Tail(@)]
    PROVE  Fed'
<1>1. Types /\ Fed
  BY DEF SuiteInv, Accounts
<1>2. /\ streams[r] \in Seq(Stream) /\ streams[r] # <<>> /\ FeedAt(r)
      /\ \A i, j \in DOMAIN streams[r] : streams[r][i].exp = streams[r][j].exp => i = j
  BY PullFacts
<1>3. /\ streams'[r] = Tail(streams[r])
      /\ \A x \in Invocations \ {r} : streams'[x] = streams[x]
  BY <1>1 DEF Types
<1>4. \A i \in DOMAIN streams'[r] :
        i \in Nat /\ i + 1 \in DOMAIN streams[r] /\ streams'[r][i] = streams[r][i + 1]
  <2>1. \A i \in DOMAIN Tail(streams[r]) :
          i \in Nat /\ i + 1 \in DOMAIN streams[r] /\ Tail(streams[r])[i] = streams[r][i + 1]
    BY <1>2, TailFacts
  <2> QED
    BY <1>3, <2>1
<1>5. \A e \in Experiments, n \in Nat : StreamAt(r, e, n) => StreamAt(r, e, n)'
  BY DEF StreamAt, Handed, Ahead
<1>6. FeedAt(r)'
  <2>1. ASSUME NEW i \in DOMAIN streams'[r], NEW j \in DOMAIN streams'[r],
               streams'[r][i].exp = streams'[r][j].exp
        PROVE  i = j
    <3>1. i + 1 = j + 1
      BY <1>2, <1>4, <2>1
    <3> QED
      BY <1>4, <3>1
  <2>2. ASSUME NEW i \in DOMAIN streams'[r], NEW e \in Experiments, NEW n \in Nat,
               streams'[r][i].exp = e, streams'[r][i].seen = n
        PROVE  StreamAt(r, e, n)'
    <3>1. /\ i + 1 \in DOMAIN streams[r]
          /\ streams[r][i + 1].exp = e /\ streams[r][i + 1].seen = n
      BY <1>4, <2>2
    <3>2. StreamAt(r, e, n)
      BY <1>2, <3>1 DEF FeedAt
    <3> QED
      BY <1>5, <3>2
  <2> QED
    BY <2>1, <2>2 DEF FeedAt
<1> QED
  BY <1>1, <1>3, <1>6, StreamKept DEF Fed

\* A source ends when all it yields has been admitted.
LEMMA SourceEndsStep ==
    ASSUME SuiteInv, NEW r \in Invocations, SourceEnds(r)
    PROVE  Accounts'
<1>1. Types /\ Admission /\ Untold /\ Exhausted /\ Pulls(r)
  BY DEF SuiteInv, Accounts, SourceEnds
<1>2. PICK e \in Experiments, n \in Nat : First(r).exp = e /\ First(r).seen = n
  BY <1>1, PullFacts
<1>3. /\ UNCHANGED <<rows, outcome, did, hand, facts, buffer, phase, admitted, admitting>>
      /\ n = Len(Source[e]) /\ streams' = [streams EXCEPT ![r] = Tail(@)]
      /\ \A x \in Invocations, d \in Experiments :
           source'[x][d].exhausted => source[x][d].exhausted \/ (x = r /\ d = e)
  BY <1>1, <1>2 DEF Types, SourceEnds, SourceState, Drops
<1>4. StreamAt(r, e, n)
  BY <1>1, <1>2, PullFacts DEF FeedAt
<1>5. \A p \in Range(Source[e]) : <<r, p>> \in admitted /\ outcome[r][p] # None
  <2>1. ASSUME NEW k \in 1 .. Len(Source[e])
        PROVE  Handed(r, e, k) /\ outcome[r][Source[e][k]] # None
    BY <1>1, <1>3, <1>4, PullFacts DEF StreamAt
  <2>2. ASSUME NEW p \in Range(Source[e])
        PROVE  <<r, p>> \in admitted /\ outcome[r][p] # None
    <3>1. PICK k \in 1 .. Len(Source[e]) : p = Source[e][k]
      BY SourceFacts
    <3> QED
      BY <2>1, <3>1 DEF Handed
  <2> QED
    BY <2>2
<1>6. InHand' /\ RowOwned' /\ OutcomesTold'
  BY <1>3, WorkKept
<1>7. Admission' /\ Untold'
  BY <1>1, <1>3 DEF Admission, Untold, In
<1>8. Exhausted'
  BY <1>1, <1>3, <1>5 DEF Exhausted
<1>9. Fed'
  BY <1>1, <1>3, DropKept
<1> QED
  BY <1>6, <1>7, <1>8, <1>9 DEF Accounts

\* A source that raises is never known to have ended.
LEMMA SourceFailsStep ==
    ASSUME SuiteInv, NEW r \in Invocations, SourceFails(r)
    PROVE  Accounts'
<1>1. Types /\ Admission /\ Untold /\ Exhausted /\ Pulls(r)
  BY DEF SuiteInv, Accounts, SourceFails
<1>2. /\ UNCHANGED <<rows, outcome, did, hand, facts, buffer, phase, admitted, admitting>>
      /\ streams' = [streams EXCEPT ![r] = Tail(@)]
      /\ \A x \in Invocations, d \in Experiments : source'[x][d].exhausted => source[x][d].exhausted
  BY <1>1 DEF Types, SourceFails, SourceState, Drops, Unknown
<1>3. InHand' /\ RowOwned' /\ OutcomesTold'
  BY <1>2, WorkKept
<1>4. Admission' /\ Untold'
  BY <1>1, <1>2 DEF Admission, Untold, In
<1>5. Exhausted'
  BY <1>1, <1>2, ExhaustedKept
<1>6. Fed'
  BY <1>1, <1>2, DropKept
<1> QED
  BY <1>3, <1>4, <1>5, <1>6 DEF Accounts

\* Nor is one that is closed before it ended.
LEMMA CloseSourcesStep ==
    ASSUME SuiteInv, NEW r \in Invocations, CloseSources(r)
    PROVE  Accounts'
<1>1. /\ Types /\ Admission /\ Untold /\ Fed /\ Exhausted /\ InHand
      /\ UNCHANGED <<rows, outcome, did, hand, facts, buffer, admitted, admitting>>
      /\ phase[r] \in {"produce", "stopping"} /\ phase'[r] \in {"interrupted", "completed"}
      /\ phase[r] = "produce" => admitting[r] = None
      /\ \A p \in Pipelines : hand[r][p] = None
      /\ streams'[r] = <<>>
      /\ \A x \in Invocations \ {r} : phase'[x] = phase[x] /\ streams'[x] = streams[x]
  BY DEF SuiteInv, Accounts, Types, CloseSources, Produced, Drained, Goes, In
<1>2. admitting[r] = None
  BY <1>1 DEF Admission, In
<1>3. \A x \in Invocations, d \in Experiments : source'[x][d].exhausted => source[x][d].exhausted
  BY <1>1 DEF Types, CloseSources, SourceState, CloseState, Cut, Unknown
<1>4. InHand' /\ RowOwned' /\ OutcomesTold'
  BY <1>1, WorkKept
<1>5. Admission' /\ Untold'
  BY <1>1, <1>2 DEF Admission, Untold, In
<1>6. Exhausted'
  BY <1>1, <1>3, ExhaustedKept
<1>7. Fed'
  <2>1. FeedAt(r)'
    BY <1>1 DEF FeedAt
  <2> QED
    BY <1>1, <2>1, StreamKept DEF Fed
<1> QED
  BY <1>4, <1>5, <1>6, <1>7 DEF Accounts

\* The pipeline gets its outcome, row and place in the queue.
LEMMA AdmitChildStep ==
    ASSUME SuiteInv, NEW r \in Invocations, AdmitChild(r)
    PROVE  Accounts'
<1>1. PICK p \in Pipelines : admitting[r] = p
  BY DEF SuiteInv, Types, AdmitChild
<1>2. /\ Types /\ InHand /\ RowOwned /\ Admission /\ Untold /\ Fed /\ Exhausted /\ OutcomesTold
      /\ UNCHANGED <<phase, admitted, source, streams>>
      /\ phase[r] = "produce"
      /\ admitting'[r] = None /\ \A x \in Invocations \ {r} : admitting'[x] = admitting[x]
      /\ \A x \in Invocations, q \in Pipelines :
           /\ hand'[x][q] = IF x = r /\ q = p THEN "queued" ELSE hand[x][q]
           /\ did'[x][q] = IF x = r /\ q = p THEN "pending" ELSE did[x][q]
      /\ \A q \in Pipelines :
           rows'[q] = rows[q] \/ (rows[q].state = None /\ rows'[q].state = "pending")
  BY <1>1 DEF SuiteInv, Accounts, Types, AdmitChild, In, Absent
<1>3. p # None /\ outcome[r][p] = None
  BY <1>1, <1>2, SuiteAssumption DEF Admission
<1>4. did[r][p] = None
  BY <1>2, <1>3, ToldIs DEF ToldAt, None
<1>5. \A x \in Invocations, q \in Pipelines :
        outcome'[x][q] = IF x = r /\ q = p THEN "pending" ELSE outcome[x][q]
  BY <1>1, <1>2, <1>3 DEF Types, AdmitChild, AdmissionState
<1>6. /\ facts \subseteq facts' /\ facts \cup buffer[r] = facts' \cup buffer'[r]
      /\ \A x \in Invocations : x # r => buffer'[x] = buffer[x]
  BY <1>2, RoutesFacts DEF AdmitChild, Delegates
<1>7. InHand'
  <2> SUFFICES ASSUME NEW x \in Invocations, NEW q \in Pipelines PROVE HandAt(x, q)'
    BY DEF InHand
  <2>1. CASE x = r /\ q = p
    BY <1>2, <1>5, <2>1 DEF HandAt, None
  <2>2. CASE ~(x = r /\ q = p)
    <3>1. facts \cup buffer[x] \subseteq facts' \cup buffer'[x]
      BY <1>6
    <3>2. CASE rows'[q] = rows[q]
      BY <1>2, <1>5, <2>2, <3>1, <3>2, HandKept DEF InHand
    <3>3. CASE rows[q].state = None
      BY <1>2, <1>5, <2>2, <3>1, <3>3 DEF InHand, HandAt, None
    <3> QED
      BY <1>2, <3>2, <3>3
  <2> QED
    BY <2>1, <2>2
<1>8. RowOwned'
  <2> SUFFICES ASSUME NEW q \in Pipelines, rows'[q].state = "running"
               PROVE  /\ rows'[q].run \in Invocations
                      /\ did'[rows'[q].run][q] = "running"
                      /\ \/ hand'[rows'[q].run][q] \in {"begun", "tried"}
                         \/ In(rows'[q].run, "crashed")
    BY <1>2 DEF RowOwned, In
  <2>1. rows'[q] = rows[q]
    BY <1>2
  <2>2. /\ rows[q].run \in Invocations /\ did[rows[q].run][q] = "running"
        /\ hand[rows[q].run][q] \in {"begun", "tried"} \/ In(rows[q].run, "crashed")
    BY <1>2, <2>1 DEF RowOwned
  <2>3. ~(rows[q].run = r /\ q = p)
    BY <1>4, <2>2 DEF None
  <2> QED
    BY <1>2, <2>1, <2>2, <2>3
<1>9. OutcomesTold'
  <2> SUFFICES ASSUME NEW x \in Invocations, NEW q \in Pipelines PROVE ToldAt(x, q)'
    BY ToldIs
  <2>1. CASE x = r /\ q = p
    BY <1>2, <1>5, <2>1 DEF ToldAt
  <2>2. CASE ~(x = r /\ q = p)
    BY <1>2, <1>5, <1>6, <2>2, ToldIs, ToldKept DEF In
  <2> QED
    BY <2>1, <2>2
<1>10. Admission' /\ Untold'
  <2>1. Admission'
    <3> SUFFICES ASSUME NEW x \in Invocations, admitting'[x] # None
                 PROVE  In(x, "produce") /\ outcome'[x][admitting'[x]] = None
      BY <1>2 DEF Admission, In
    <3>1. x # r /\ admitting'[x] = admitting[x] /\ admitting[x] \in Pipelines
      BY <1>2 DEF Types
    <3> QED
      BY <1>2, <1>5, <3>1 DEF Admission
  <2>2. Untold'
    BY <1>2, <1>5 DEF Untold
  <2> QED
    BY <2>1, <2>2
<1>11. Exhausted'
  <2>1. \A e \in Experiments : \A q \in Range(Source[e]) : q \in Pipelines
    BY DEF Pipelines
  <2> QED
    BY <1>2, <1>5, <2>1 DEF Exhausted, None
<1>12. Fed'
  <2>1. ASSUME NEW x \in Invocations, NEW e \in Experiments, NEW k \in 1 .. Len(Source[e])
        PROVE  (Handed(x, e, k) => Handed(x, e, k)') /\ (Ahead(x, e, k) => Ahead(x, e, k)')
    <3>1. Source[e][k] \in Pipelines /\ Source[e][k] # None
      BY SourceFacts, SuiteAssumption
    <3>2. CASE x # r
      BY <1>2, <1>5, <3>1, <3>2 DEF Handed, Ahead
    <3>3. CASE x = r
      BY <1>1, <1>2, <1>5, <3>1, <3>3 DEF Handed, Ahead, None
    <3> QED
      BY <3>2, <3>3
  <2>2. \A x \in Invocations, e \in Experiments, n \in Nat : StreamAt(x, e, n) => StreamAt(x, e, n)'
    BY <2>1 DEF StreamAt
  <2> QED
    BY <1>2, <2>2 DEF Fed, FeedAt
<1> QED
  BY <1>7, <1>8, <1>9, <1>10, <1>11, <1>12 DEF Accounts

\* A child's batch is written: what was buffered is on disk.
LEMMA FlushStep ==
    ASSUME SuiteInv, NEW r \in Invocations, NEW e \in Experiments, Flush(r, e)
    PROVE  Accounts'
<1>1. /\ Admission /\ Untold /\ Fed /\ Exhausted
      /\ UNCHANGED <<rows, outcome, did, hand, phase, admitted, source, admitting, streams>>
  BY DEF SuiteInv, Accounts, Flush, Unroutine
<1>2. \A x \in Invocations : facts \cup buffer[x] \subseteq facts' \cup buffer'[x]
  BY DEF SuiteInv, Types, Flush, Buffered
<1>3. InHand' /\ RowOwned' /\ OutcomesTold'
  BY <1>1, <1>2, WorkKept
<1>4. Admission' /\ Untold' /\ Fed' /\ Exhausted'
  BY <1>1, FeedKept
<1> QED
  BY <1>3, <1>4 DEF Accounts

-----------------------------------------------------------------------------
(* The theorems *)

\* The invariant holds at the start.
LEMMA SuiteInvInit == Init => SuiteInv
<1> SUFFICES ASSUME Init PROVE SuiteInv
  OBVIOUS
<1>1. Types
  BY TypesInit
<1>2. OneWriter /\ InHand /\ RowOwned
  BY DEF Init, OneWriter, Holds, Alive, InHand, HandAt, RowOwned, Absent, None
<1>3. Admission /\ Untold /\ Fed /\ Exhausted /\ OutcomesTold
  BY DEF Init, Admission, Untold, Fed, FeedAt, Exhausted, OutcomesTold, Unknown, None
<1> QED
  BY <1>1, <1>2, <1>3 DEF SuiteInv, Accounts

\* Every step keeps it.
LEMMA SuiteInvStep ==
    ASSUME SuiteInv, [Next]_vars
    PROVE  SuiteInv'
<1>1. Types' /\ OneWriter'
  BY TypesStep, OneWriterStep DEF SuiteInv
<1>2. ASSUME NEW r \in Invocations,
             \/ CreateCatalog(r) \/ Publish(r) \/ RefuseRoot(r) \/ Open(r) \/ Register(r)
             \/ InterruptRuns(r)
      PROVE  Accounts'
  <2>1. /\ phase[r] \in Early
        /\ \E t \in Early : phase' = [phase EXCEPT ![r] = t]
        /\ UNCHANGED <<rows, outcome, did, hand, admitting, streams, source, admitted, facts, buffer>>
    BY <1>2 DEF CreateCatalog, Publish, RefuseRoot, Open, Register, InterruptRuns, Starting,
                In, Goes, disk, memory, Early
  <2> QED
    BY <2>1, EarlyStep
<1>3. ASSUME NEW r \in Invocations, NEW exps \in Selections, NEW resume \in BOOLEAN,
             NEW n \in Limits, Start(r, exps, resume, n)
      PROVE  Accounts'
  <2>1. /\ phase[r] \in Early
        /\ \E t \in Early : phase' = [phase EXCEPT ![r] = t]
        /\ UNCHANGED <<rows, outcome, did, hand, admitting, streams, source, admitted, facts, buffer>>
    BY <1>3 DEF Start, In, Goes, Early
  <2> QED
    BY <2>1, EarlyStep
<1>4. ASSUME NEW r \in Invocations, NEW e \in Experiments, CreateChild(r, e)
      PROVE  Accounts'
  <2>1. /\ phase[r] \in Early /\ phase' = phase
        /\ UNCHANGED <<rows, outcome, did, hand, admitting, streams, source, admitted, facts, buffer>>
    BY <1>4 DEF CreateChild, In, memory, Early
  <2> QED
    BY <2>1, EarlyStep
<1>5. ASSUME NEW r \in Invocations, Step(r)
      PROVE  Accounts'
  <2>1. ASSUME NEW e \in Experiments, CreateChild(r, e) \/ InterruptStale(r, e) \/ Flush(r, e)
        PROVE  Accounts'
    BY <1>4, <2>1, InterruptStaleStep, FlushStep
  <2>2. ASSUME NEW p \in Pipelines,
               \/ Skip(r, p) \/ Begin(r, p) \/ Attempt(r, p)
               \/ \E s \in {"succeeded", "failed", "interrupted"} : Finish(r, p, s)
        PROVE  Accounts'
    BY <2>2, SkipStep, BeginStep, AttemptStep, FinishStep
  <2>3. CASE \/ Prepare(r) \/ AdmitCatalog(r) \/ AdmitChild(r) \/ SourceEnds(r) \/ SourceFails(r)
             \/ Stop(r) \/ CloseSources(r) \/ FinishRun(r) \/ Crash(r)
    BY <2>3, PrepareStep, AdmitCatalogStep, AdmitChildStep, SourceEndsStep, SourceFailsStep,
       StopStep, CloseSourcesStep, FinishRunStep, CrashStep
  <2> QED
    BY <1>2, <1>3, <1>5, <2>1, <2>2, <2>3 DEF Step
<1>6. CASE UNCHANGED vars
  <2>1. /\ UNCHANGED <<rows, outcome, did, hand, admitting, streams, source, admitted, facts>>
        /\ UNCHANGED <<buffer, phase>>
    BY <1>6 DEF vars, disk, memory
  <2>2. InHand' /\ RowOwned' /\ OutcomesTold'
    BY <2>1 DEF SuiteInv, Accounts, InHand, HandAt, RowOwned, OutcomesTold, In
  <2>3. Admission' /\ Untold' /\ Exhausted'
    BY <2>1 DEF SuiteInv, Accounts, Admission, Untold, Exhausted, In
  <2>4. Fed'
    BY <2>1, StreamKept DEF SuiteInv, Accounts, Fed
  <2> QED
    BY <1>1, <2>2, <2>3, <2>4 DEF SuiteInv, Accounts
<1> QED
  BY <1>1, <1>5, <1>6 DEF Next, SuiteInv

\* It holds in every reachable state.
LEMMA SuiteInvHolds == Spec => []SuiteInv
<1> QED
  BY SuiteInvInit, SuiteInvStep, PTL DEF Spec

\* Whatever runs start, stop or are killed, and in whatever layout: the outcome
\* a run keeps of a pipeline is what that run's worker did with it, and the
\* attempt behind a verdict is on disk or in the batch of a run that was not
\* killed (the trigger of the pipelines table, admit() and emit_event, the
\* eviction in _child and finish_run of store/suite.py).
THEOREM OutcomesAreTold == Spec => []OutcomesTold
<1>1. SuiteInv => OutcomesTold
  BY DEF SuiteInv, Accounts
<1> QED
  BY <1>1, SuiteInvHolds, PTL

\* An experiment that a reader computes to be complete has every pipeline of
\* its source done: exhausted is known only when all of it was admitted, and
\* every admission has an outcome by then.
THEOREM CompletedAreWhole == Spec => []CompletedIsWhole
<1>1. SuiteInv => CompletedIsWhole
  <2> SUFFICES ASSUME SuiteInv, NEW r \in Invocations, NEW e \in Experiments,
                      ExperimentState(r, e) = "completed", NEW p \in Range(Source[e])
               PROVE  outcome[r][p] \in {"succeeded", "skipped"}
    BY DEF CompletedIsWhole
  <2>1. /\ source[r][e].exhausted
        /\ Counted(r, e) \cap {"failed", "pending", "running", "interrupted", "canceled"} = {}
    BY DEF ExperimentState
  <2>2. <<r, p>> \in admitted /\ outcome[r][p] # None
    BY <2>1 DEF SuiteInv, Accounts, Exhausted
  <2>3. outcome[r][p] \in Counted(r, e)
    BY <2>2 DEF Counted
  <2>4. outcome[r][p] \in Outcomes
    <3>1. p \in Pipelines
      BY DEF Pipelines
    <3> QED
      BY <3>1 DEF SuiteInv, Types
  <2> QED
    BY <2>1, <2>2, <2>3, <2>4 DEF Outcomes
<1> QED
  BY <1>1, SuiteInvHolds, PTL

\* A pipeline that a living run has begun is changed by that run alone.
\* interrupt_stale closes every running row of another run, whether or not it
\* still beats: that this hits only the dead is the writer lock's doing.
THEOREM LiveAreUntouched == Spec => LiveUntouched
<1> DEFINE Touch == \A p \in Pipelines :
             LET owner == rows[p].run
             IN  rows[p].state = "running" /\ Alive(owner) /\ rows'[p] # rows[p]
                   => did'[owner][p] # did[owner][p]
<1>1. ASSUME SuiteInv, [Next]_vars
      PROVE  Touch
  <2> SUFFICES ASSUME NEW p \in Pipelines, rows[p].state = "running", Alive(rows[p].run),
                      rows'[p] # rows[p]
               PROVE  did'[rows[p].run][p] # did[rows[p].run][p]
    OBVIOUS
  <2> DEFINE owner == rows[p].run
  <2>1. Types /\ OneWriter /\ InHand /\ RowOwned
    BY <1>1 DEF SuiteInv, Accounts
  <2>2. owner \in Invocations /\ did[owner][p] = "running" /\ hand[owner][p] \in {"begun", "tried"}
    BY <2>1 DEF RowOwned, Alive, In
  <2> HIDE DEF owner
  <2>3. ASSUME NEW r \in Invocations, Holds(r)
        PROVE  owner = r
    BY <2>1, <2>2, <2>3, OnlyWriter DEF None
  <2>4. ASSUME NEW r \in Invocations, NEW e \in Experiments, InterruptStale(r, e)
        PROVE  FALSE
    <3>1. Holds(r)
      BY <2>4 DEF InterruptStale, In, Holds, Alive
    <3>2. rows'[p] # rows[p] => rows[p].run # r
      BY <2>4 DEF InterruptStale, Writes
    <3> QED
      BY <2>3, <3>1, <3>2 DEF owner
  <2>5. ASSUME NEW r \in Invocations, AdmitChild(r)
        PROVE  FALSE
    BY <2>1, <2>5 DEF Types, AdmitChild, Absent, None
  <2>6. ASSUME NEW r \in Invocations, NEW q \in Pipelines, Begin(r, q)
        PROVE  FALSE
    <3>1. q = p /\ hand[r][p] = "queued"
      BY <2>1, <2>6 DEF Types, Begin, Writes
    <3>2. Holds(r)
      BY <2>1, <2>6, <3>1 DEF InHand, HandAt, None, Begin, Works, Holds
    <3> QED
      BY <2>2, <2>3, <3>1, <3>2
  <2>7. ASSUME NEW r \in Invocations, NEW q \in Pipelines,
               NEW s \in {"succeeded", "failed", "interrupted"}, Finish(r, q, s)
        PROVE  did'[owner][p] # did[owner][p]
    <3>1. q = p /\ hand[r][p] = "tried"
      BY <2>1, <2>7 DEF Types, Finish, Writes
    <3>2. Holds(r)
      BY <2>1, <2>7, <3>1 DEF InHand, HandAt, None, Finish, Works, Holds
    <3>3. did'[r][p] = s
      BY <2>1, <2>7, <3>1 DEF Types, Finish
    <3> QED
      BY <2>2, <2>3, <3>2, <3>3
  <2>8. ASSUME NEW r \in Invocations, Step(r), rows' # rows
        PROVE  \/ \E e \in Experiments : InterruptStale(r, e)
               \/ AdmitChild(r)
               \/ \E q \in Pipelines : \/ Begin(r, q)
                                       \/ \E s \in {"succeeded", "failed", "interrupted"} : Finish(r, q, s)
    <3>1. CASE \/ CreateCatalog(r) \/ Publish(r) \/ RefuseRoot(r) \/ Open(r) \/ Register(r)
               \/ \E exps \in Selections, resume \in BOOLEAN, n \in Limits : Start(r, exps, resume, n)
               \/ \E e \in Experiments : CreateChild(r, e)
               \/ InterruptRuns(r) \/ Prepare(r)
      BY <2>8, <3>1 DEF CreateCatalog, Publish, RefuseRoot, Open, Register, Start, CreateChild,
                        InterruptRuns, Prepare, disk
    <3>2. CASE \/ AdmitCatalog(r) \/ SourceEnds(r) \/ SourceFails(r)
               \/ \E q \in Pipelines : Skip(r, q) \/ Attempt(r, q)
               \/ \E e \in Experiments : Flush(r, e)
               \/ Stop(r) \/ CloseSources(r) \/ FinishRun(r) \/ Crash(r)
      BY <2>8, <3>2 DEF AdmitCatalog, SourceEnds, SourceFails, Skip, Attempt, Flush, Stop,
                        CloseSources, FinishRun, Crash, disk
    <3> QED
      BY <2>8, <3>1, <3>2 DEF Step
  <2>9. rows' # rows
    OBVIOUS
  <2>10. ~UNCHANGED vars
    BY <2>9 DEF vars, disk
  <2> QED
    BY <1>1, <2>4, <2>5, <2>6, <2>7, <2>8, <2>9, <2>10 DEF Next, owner
<1> QED
  BY <1>1, SuiteInvHolds, PTL DEF Spec, LiveUntouched
=============================================================================
