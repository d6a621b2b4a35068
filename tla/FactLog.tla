------------------------------ MODULE FactLog -------------------------------
(***************************************************************************)
(* What a store that buffers its append-only facts promises, whatever      *)
(* fails: of each kind, the facts that are on disk are the first ones that *)
(* were accepted, in their order, each once; a process that dies loses no  *)
(* more than the rest.                                                     *)
(***************************************************************************)
EXTENDS Integers, Sequences

CONSTANTS Kinds, Facts

VARIABLES accepted, durable

log == <<accepted, durable>>

Begins(s, t) == Len(s) <= Len(t) /\ \A i \in 1 .. Len(s) : s[i] = t[i]

LogInit == accepted = [k \in Kinds |-> <<>>] /\ durable = [k \in Kinds |-> <<>>]

Accept ==
    /\ \E k \in Kinds, f \in Facts : accepted' = [accepted EXCEPT ![k] = Append(@, f)]
    /\ UNCHANGED durable

Grow ==
    /\ durable' \in [Kinds -> Seq(Facts)]
    /\ \A k \in Kinds : Begins(durable[k], durable'[k]) /\ Begins(durable'[k], accepted[k])

\* Any number of facts, of any kind.
Persist == Grow /\ UNCHANGED accepted

\* The process ends, with a last write or without.
Lose == Grow /\ accepted' = durable'

LogNext == Accept \/ Persist \/ Lose

LogSpec == LogInit /\ [][LogNext]_log
=============================================================================
