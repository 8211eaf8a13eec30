------------------------ MODULE ImplicitCommandHandler ------------------------
(***************************************************************************)
(* The queue of implicit commands: what a command makes happen later (the  *)
(* end of a refresh, an auto-precharge, a delayed power-down entry).  An   *)
(* entry is a record with a field time; the queue is kept sorted by it,    *)
(* and entries of equal time stay in the order they were added.            *)
(***************************************************************************)
EXTENDS Integers, Sequences

Sorted(q) == \A i, j \in 1..Len(q) : i < j => q[i].time <= q[j].time

\* Faulty variants of UpperBound: push_back, and std::lower_bound.
AtTheBack(q, t) == Len(q)
LowerBound(q, t) ==
    CHOOSE k \in 0..Len(q) : /\ \A i \in 1..k : q[i].time < t
                             /\ \A i \in (k + 1)..Len(q) : q[i].time >= t

\* std::upper_bound: how many entries come before a new one of time t.
UpperBound(q, t) ==
    CHOOSE k \in 0..Len(q) : /\ \A i \in 1..k : q[i].time <= t
                             /\ \A i \in (k + 1)..Len(q) : q[i].time > t

\* addImplicitCommand called for each entry of es, all of time t, in turn.
AddAll(q, es, t) ==
    LET k == UpperBound(q, t)
    IN  [i \in 1..(Len(q) + Len(es)) |->
            IF i <= k THEN q[i]
            ELSE IF i <= k + Len(es) THEN es[i - k] ELSE q[i - Len(es)]]

\* addImplicitCommand
Add(q, e) == AddAll(q, <<e>>, e.time)

\* The loop condition of processImplicitCommandQueue(t).
Due(q, t) == q # <<>> /\ Head(q).time <= t
=============================================================================
