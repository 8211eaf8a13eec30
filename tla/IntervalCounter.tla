--------------------------- MODULE IntervalCounter ---------------------------
(***************************************************************************)
(* util::interval_counter: the stopwatch every cycle statistic is kept in. *)
(* It accumulates the length of the intervals closed so far (count) and    *)
(* remembers the last one: start and end are std::optional in the code,    *)
(* NoTime here when they have no value.                                    *)
(***************************************************************************)
EXTENDS Integers

NoTime == -1
Time == Nat
Interval == [count : Nat, start : Time \cup {NoTime}, end : Time \cup {NoTime}]

NewInterval == [count |-> 0, start |-> NoTime, end |-> NoTime]

IsOpen(i) == i.start # NoTime /\ i.end = NoTime

\* std::optional::value_or(0)
GetStart(i) == IF i.start = NoTime THEN 0 ELSE i.start
GetEnd(i) == IF i.end = NoTime THEN 0 ELSE i.end

\* What is counted when the interval still open is cut at time t.
GetCountAt(i, t) ==
    IF IsOpen(i) /\ t > i.start THEN i.count + (t - i.start) ELSE i.count

\* Faulty variants of CloseInterval: one does not look whether the interval is
\* open, one subtracts the wrong way round.
CloseAnyway(i, t) == [i EXCEPT !.end = t, !.count = i.count + (t - GetStart(i))]
CloseBackwards(i, t) ==
    IF IsOpen(i)
    THEN [i EXCEPT !.end = t, !.count = i.count + (i.start - t)]
    ELSE i

\* Closing an interval that is not open does nothing.
CloseInterval(i, t) ==
    IF IsOpen(i)
    THEN [i EXCEPT !.end = t, !.count = i.count + (t - i.start)]
    ELSE i

\* Starting throws away whatever interval was open.
StartInterval(i, t) == [i EXCEPT !.start = t, !.end = NoTime]

StartIfNotRunning(i, t) == IF IsOpen(i) THEN i ELSE StartInterval(i, t)
=============================================================================
