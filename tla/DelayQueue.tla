----------------------------- MODULE DelayQueue -----------------------------
(***************************************************************************)
(* The delay queue and its pump (src/pyattacker/scheduler.py): pipelines   *)
(* that wait for a retry are kept in a heap by deadline, and a pump hands  *)
(* the due ones to the runner's bounded work queue. Between choosing an    *)
(* entry and removing it the pump waits for room, and meanwhile workers    *)
(* push more entries.                                                      *)
(*                                                                         *)
(* Abstractions: time is a number that never goes back; the sleep that a   *)
(* push interrupts is one wait for either (interruptible_sleep). Fresh     *)
(* pipelines take room in the work queue and leave it again.               *)
(***************************************************************************)
EXTENDS Integers, Sequences, FiniteSets

CONSTANTS
    Items,
    Delays,             \* what a push is asked for; a policy may compute less than zero
    Room,               \* maxsize of the work queue
    MaxNow, MaxPushes,  \* bounds
    Nothing, Fresh

ASSUME ConstantsAssumption ==
    /\ Delays \subseteq Int /\ Room \in Nat \ {0}
    /\ MaxNow \in Nat /\ MaxPushes \in Nat
    /\ Nothing \notin Items /\ Fresh \notin Items

VARIABLES
    now,
    heap,       \* entries; which is the head follows from deadline and seq
    pushed,     \* the counter that orders entries of one deadline
    wake,       \* the event
    sink,       \* the runner's work queue
    pump,       \* where the pump is
    entry,      \* the entry it hands over
    until,      \* the deadline it sleeps for
    held,       \* items that a worker executes
    drained     \* items that the shutdown got back

vars == <<now, heap, pushed, wake, sink, pump, entry, until, held, drained>>

Deadline == Nat
Entries == [at : Deadline, seq : 1 .. MaxPushes, item : Items]

TypeOK ==
    /\ now \in 0 .. MaxNow /\ until \in Deadline
    /\ heap \subseteq Entries /\ pushed \in 0 .. MaxPushes
    /\ wake \in BOOLEAN
    /\ sink \in Seq(Items \cup {Fresh}) /\ Len(sink) <= Room
    /\ pump \in {"look", "idle", "asleep", "handing", "stopped"}
    /\ entry \in Entries \cup {Nothing}
    /\ held \subseteq Items /\ drained \subseteq Items

Init ==
    /\ now = 0 /\ until = 0 /\ heap = {} /\ pushed = 0 /\ wake = FALSE /\ sink = <<>>
    /\ pump = "look" /\ entry = Nothing /\ held = Items /\ drained = {}

Before(e, f) == e.at < f.at \/ (e.at = f.at /\ e.seq <= f.seq)
Head1 == CHOOSE e \in heap : \A f \in heap : Before(e, f)

Max0(d) == IF d > 0 THEN d ELSE 0

\* Mutation of ReadyAt: a delay below zero is taken as it is.
ReadyAtUnclamped(d) == IF now + d > 0 THEN now + d ELSE 0

ReadyAt(d) == now + Max0(d)

\* Mutation of Wakes: only the first entry wakes the pump.
WakesIfEmpty == wake \/ heap = {}

Wakes == TRUE

Push(i, d) ==
    /\ i \in held /\ pushed < MaxPushes
    /\ held' = held \ {i}
    /\ pushed' = pushed + 1
    /\ heap' = heap \cup {[at |-> ReadyAt(d), seq |-> pushed + 1, item |-> i]}
    /\ wake' = Wakes
    /\ UNCHANGED <<now, sink, pump, entry, until, drained>>

-----------------------------------------------------------------------------
(* The pump. *)

Wait ==
    /\ pump = "look" /\ heap = {}
    /\ wake' = FALSE /\ pump' = "idle"
    /\ UNCHANGED <<now, heap, pushed, sink, entry, until, held, drained>>

Sleep ==
    /\ pump = "look" /\ heap # {} /\ Head1.at > now
    /\ wake' = FALSE /\ pump' = "asleep" /\ until' = Head1.at
    /\ UNCHANGED <<now, heap, pushed, sink, entry, held, drained>>

Rouse ==
    /\ pump \in {"idle", "asleep"}
    /\ wake \/ (pump = "asleep" /\ now >= until)
    /\ pump' = "look"
    /\ UNCHANGED <<now, heap, pushed, wake, sink, entry, until, held, drained>>

Choose ==
    /\ pump = "look" /\ heap # {} /\ Head1.at <= now
    /\ entry' = Head1 /\ pump' = "handing"
    /\ UNCHANGED <<now, heap, pushed, wake, sink, until, held, drained>>

\* The entry goes out, then whatever is the head by now is removed.
HandOver ==
    /\ pump = "handing" /\ Len(sink) < Room
    /\ sink' = Append(sink, entry.item)
    /\ heap' = heap \ {Head1}
    /\ pump' = "look" /\ entry' = Nothing
    /\ UNCHANGED <<now, pushed, wake, until, held, drained>>

\* The run ends: the pump is cancelled wherever it waits, the rest comes back.
Stop ==
    /\ pump # "stopped"
    /\ pump' = "stopped" /\ entry' = Nothing
    /\ drained' = {e.item : e \in heap} /\ heap' = {}
    /\ UNCHANGED <<now, pushed, wake, sink, until, held>>

-----------------------------------------------------------------------------
(* Around it. *)

Produce ==
    /\ Len(sink) < Room
    /\ sink' = Append(sink, Fresh)
    /\ UNCHANGED <<now, heap, pushed, wake, pump, entry, until, held, drained>>

\* A worker takes the next pipeline.
Take ==
    /\ sink # <<>>
    /\ sink' = Tail(sink)
    /\ held' = held \cup ({Head(sink)} \ {Fresh})
    /\ UNCHANGED <<now, heap, pushed, wake, pump, entry, until, drained>>

Tick ==
    /\ now < MaxNow
    /\ now' = now + 1
    /\ UNCHANGED <<heap, pushed, wake, sink, pump, entry, until, held, drained>>

Pump == Wait \/ Sleep \/ Rouse \/ Choose \/ HandOver
Next ==
    \/ \E i \in Items, d \in Delays : Push(i, d)
    \/ Pump \/ Stop \/ Produce \/ Take \/ Tick

Spec == Init /\ [][Next]_vars

-----------------------------------------------------------------------------
(* Properties. *)

Times(i) ==
    /\ Cardinality({e \in heap : e.item = i}) + Cardinality({k \in 1 .. Len(sink) : sink[k] = i})
       + Cardinality({i} \cap held) + Cardinality({i} \cap drained) = 1

\* A parked pipeline is in one place, handed over once and never lost, whatever
\* is pushed while the pump waits for room and whenever it is cancelled. What
\* it removes is what it handed over.
HandedOverOnce ==
    /\ \A i \in Items : Times(i)
    /\ pump = "handing" => entry \in heap /\ entry = Head1

\* The pump sleeps past no deadline: an entry that is due before the one it
\* waits for has woken it.
NeverOversleeps ==
    /\ pump = "asleep" => wake \/ \A e \in heap : until <= e.at
    /\ pump = "idle" => wake \/ heap = {}
=============================================================================
