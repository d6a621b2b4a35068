---------------------------- MODULE WriteBehind -----------------------------
(***************************************************************************)
(* The write-behind store (src/pyattacker/store/writebehind.py): attempts  *)
(* and events are buffered and written in batches, everything else goes to *)
(* the inner store at once, some of it after a flush. The inner store      *)
(* takes a batch in one transaction (write_facts of the SQLite store), or  *)
(* one record at a time; any write of it may raise, and the process may be *)
(* killed between two of them.                                             *)
(*                                                                         *)
(* Abstractions: a fact is a number. When the interval makes a flush due   *)
(* is open. A read, a handoff's commit, interrupt_stale and finish_run     *)
(* stand for all calls that flush first; writes of state that do not flush *)
(* touch none of these variables.                                          *)
(***************************************************************************)
EXTENDS Integers, Sequences

CONSTANTS Facts, BatchSize, MaxProcesses, MaxFailures, Nothing

Kinds == {"attempt", "event"}
Flushing == {"record", "beat", "read", "handoff", "finish", "close"}

ASSUME ConstantsAssumption ==
    /\ BatchSize \in Nat \ {0} /\ MaxProcesses \in Nat /\ MaxFailures \in Nat
    /\ Facts \subseteq Nat /\ Nothing \notin Flushing

VARIABLES
    atomic,     \* the inner store has write_facts
    inner,      \* rows of the inner store, of each kind
    buffer,     \* _attempts and _events
    sent,       \* how many of the buffer's first records are rows already
    blocked,    \* _write_error is set
    call,       \* what the flush under way was called for
    up,         \* the process runs and the store is open
    beating,    \* the runner's heartbeat loop has not ended
    behind,     \* history: facts accepted before the newest durable commit, not written by then
    processes, failures     \* bounds

vars == <<atomic, inner, buffer, sent, blocked, call, up, beating, behind, processes, failures>>

None == [k \in Kinds |-> 0]
Empty == [k \in Kinds |-> <<>>]
Range1(s) == {s[i] : i \in 1 .. Len(s)}
Seen == UNION {Range1(inner[k]) \cup Range1(buffer[k]) : k \in Kinds}
Pending == Len(buffer["attempt"]) + Len(buffer["event"])

TypeOK ==
    /\ atomic \in BOOLEAN /\ blocked \in BOOLEAN /\ up \in BOOLEAN
    /\ beating \in BOOLEAN /\ behind \in BOOLEAN
    /\ inner \in [Kinds -> Seq(Facts)] /\ buffer \in [Kinds -> Seq(Facts)]
    /\ sent \in [Kinds -> Nat] /\ \A k \in Kinds : sent[k] <= Len(buffer[k])
    /\ call \in Flushing \cup {Nothing}
    /\ processes \in 0 .. MaxProcesses /\ failures \in 0 .. MaxFailures

Init ==
    /\ atomic \in BOOLEAN
    /\ inner = Empty /\ buffer = Empty /\ sent = None
    /\ blocked = FALSE /\ call = Nothing /\ up = TRUE /\ beating = TRUE /\ behind = FALSE
    /\ processes = 0 /\ failures = 0

Drop(s, n) == SubSeq(s, n + 1, Len(s))

\* What the call does after its flush; `left' says whether facts were left.
Complete(what, left) ==
    /\ call' = Nothing
    /\ up' = (what # "close")
    /\ behind' = IF what \in {"handoff", "finish"} THEN left ELSE behind

\* What a call does that raises: close() closes the inner store all the same.
Raised(what) == call' = Nothing /\ up' = (what # "close") /\ UNCHANGED behind

\* Mutation of FlushesFirst: the commit of a handoff is merely forwarded.
FlushesFirstButHandoffs(what) == Pending > 0 /\ what # "handoff"

\* Mutation of FlushesFirst: only a full batch is written.
FlushesFirstWhenFull(what) == Pending >= BatchSize

\* flush() has something to write.
FlushesFirst(what) == Pending > 0

-----------------------------------------------------------------------------
(* Calls. *)

\* record_attempt and emit_event: buffered, then perhaps flushed.
Record(k, f) ==
    /\ up /\ call = Nothing /\ ~blocked /\ f \notin Seen
    /\ \A g \in Facts \ Seen : f <= g
    /\ buffer' = [buffer EXCEPT ![k] = Append(@, f)]
    /\ call' \in IF Pending + 1 >= BatchSize THEN {"record"} ELSE {"record", Nothing}
    /\ UNCHANGED <<atomic, beating, inner, sent, blocked, up, behind, processes, failures>>

\* A call that flushes first. While it is blocked it raises.
Call(what) ==
    /\ up /\ call = Nothing
    /\ IF blocked THEN Raised(what)
       ELSE IF FlushesFirst(what) THEN call' = what /\ UNCHANGED <<up, behind>>
       ELSE Complete(what, Pending > 0)
    /\ UNCHANGED <<atomic, beating, inner, buffer, sent, blocked, processes, failures>>

-----------------------------------------------------------------------------
(* Flushing. *)

WriteBatch ==
    /\ call # Nothing /\ atomic
    /\ inner' = [k \in Kinds |-> inner[k] \o buffer[k]]
    /\ buffer' = Empty /\ UNCHANGED sent
    /\ Complete(call, FALSE)
    /\ UNCHANGED <<atomic, beating, blocked, processes, failures>>

\* The batch is rolled back and kept.
BatchFails ==
    /\ call # Nothing /\ atomic /\ failures < MaxFailures
    /\ failures' = failures + 1
    /\ Raised(call)
    /\ UNCHANGED <<atomic, beating, inner, buffer, sent, blocked, processes>>

\* Without write_facts: attempts first, then events.
Turn(k) ==
    /\ call # Nothing /\ ~atomic /\ sent[k] < Len(buffer[k])
    /\ k = "event" => buffer["attempt"] = <<>>

WriteOne(k) ==
    /\ Turn(k)
    /\ inner' = [inner EXCEPT ![k] = Append(@, buffer[k][sent[k] + 1])]
    /\ sent' = [sent EXCEPT ![k] = @ + 1]
    /\ UNCHANGED <<atomic, beating, buffer, blocked, call, up, behind, processes, failures>>

\* Everything of one kind was acknowledged; the last kind ends the flush.
Acknowledged(k) ==
    /\ call # Nothing /\ ~atomic /\ buffer[k] # <<>> /\ sent[k] = Len(buffer[k])
    /\ buffer' = [buffer EXCEPT ![k] = <<>>] /\ sent' = [sent EXCEPT ![k] = 0]
    /\ IF buffer'["event"] = <<>> THEN Complete(call, buffer'["attempt"] # <<>>)
       ELSE UNCHANGED <<call, up, behind>>
    /\ UNCHANGED <<atomic, beating, inner, blocked, processes, failures>>

\* Mutation of WriteFails: the next flush tries the record again.
WriteFailsAndRetries(k) ==
    /\ Turn(k) /\ failures < MaxFailures
    /\ failures' = failures + 1
    /\ \E landed \in BOOLEAN :
        inner' = IF landed THEN [inner EXCEPT ![k] = Append(@, buffer[k][sent[k] + 1])] ELSE inner
    /\ buffer' = [buffer EXCEPT ![k] = Drop(@, sent[k])]
    /\ sent' = [sent EXCEPT ![k] = 0]
    /\ Raised(call)
    /\ UNCHANGED <<atomic, beating, blocked, processes>>

\* A record's write raises: whether it landed is not known. What was
\* acknowledged leaves the buffer, and nothing is ever written again.
WriteFails(k) ==
    /\ Turn(k) /\ failures < MaxFailures
    /\ failures' = failures + 1
    /\ \E landed \in BOOLEAN :
        /\ inner' = IF landed THEN [inner EXCEPT ![k] = Append(@, buffer[k][sent[k] + 1])]
                    ELSE inner
        /\ sent' = [sent EXCEPT ![k] = IF landed THEN 1 ELSE 0]
    /\ buffer' = [buffer EXCEPT ![k] = Drop(@, sent[k])]
    /\ blocked' = TRUE
    /\ Raised(call)
    /\ UNCHANGED <<atomic, beating, processes>>

-----------------------------------------------------------------------------
(* The process. *)

Kill ==
    /\ up
    /\ up' = FALSE /\ call' = Nothing
    /\ UNCHANGED <<atomic, beating, inner, buffer, sent, blocked, behind, processes, failures>>

\* A new process wraps the store anew.
Open ==
    /\ ~up /\ processes < MaxProcesses
    /\ processes' = processes + 1
    /\ up' = TRUE /\ beating' = TRUE /\ blocked' = FALSE
    /\ buffer' = Empty /\ sent' = None
    /\ UNCHANGED <<atomic, inner, call, behind, failures>>

\* The heartbeat's flush may fail and the loop goes on (_flush_store); if the
\* heartbeat's own write raises, the loop is over for the rest of the run.
Beat == beating /\ Call("beat")

BeatRaises ==
    /\ up /\ call = Nothing /\ beating /\ failures < MaxFailures
    /\ failures' = failures + 1
    /\ beating' = FALSE
    /\ UNCHANGED <<atomic, inner, buffer, sent, blocked, call, up, behind, processes>>

Next ==
    \/ \E k \in Kinds : \E f \in Facts : Record(k, f)
    \/ Beat \/ BeatRaises \/ \E what \in {"read", "handoff", "finish", "close"} : Call(what)
    \/ WriteBatch \/ BatchFails
    \/ \E k \in Kinds : WriteOne(k) \/ Acknowledged(k) \/ WriteFails(k)
    \/ Kill \/ Open

Spec == Init /\ [][Next]_vars

\* The heartbeat flushes every few seconds, and a flush under way goes on.
FairSpec ==
    /\ Spec
    /\ WF_vars(Beat)
    /\ WF_vars(WriteBatch)
    /\ WF_vars(\E k \in Kinds : WriteOne(k) \/ Acknowledged(k))

-----------------------------------------------------------------------------
(* Properties. *)

\* What was accepted: the rows, and what the buffer holds beyond them.
Accepted == [k \in Kinds |-> IF up THEN inner[k] \o Drop(buffer[k], sent[k]) ELSE inner[k]]

Log == INSTANCE FactLog WITH accepted <- Accepted, durable <- inner

\* Each fact is written once and in order, after a failed flush, an unknown
\* outcome and a crash too; a crash loses only the end.
ImplementsFactLog == Log!LogSpec

\* No handoff and no end of a run is durable before the facts that were
\* recorded earlier: a crash right after it loses none of its trail.
CommitsBehindFacts == ~behind

\* Nothing stays in the buffer: it is written, unless an unknown outcome blocks
\* it for good, the process ends, or the heartbeat loop has.
BufferDrains == Pending > 0 ~> (Pending = 0 \/ blocked \/ ~up \/ ~beating)
=============================================================================
