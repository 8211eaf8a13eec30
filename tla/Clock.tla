-------------------------------- MODULE Clock --------------------------------
(***************************************************************************)
(* util::Clock: a clock or strobe that runs now and then.  Its statistics  *)
(* are four equal numbers (of low and high half periods and of the two     *)
(* edges), kept here as one: the periods.                                  *)
(***************************************************************************)
EXTENDS Integers

NewClock(stopped) == [running |-> ~stopped, last_start |-> 0, periods |-> 0]

\* count: an odd number of half periods is rounded down, in each run.
count(duration, dataRate) == (duration * dataRate) \div 2

\* The assertions of start and stop.
Startable(c) == ~c.running
Stoppable(c, t) == c.running /\ c.last_start < t

start(c, t) == [c EXCEPT !.running = TRUE, !.last_start = t]
\* A faulty variant of stop: only the last run is kept.
stopOnce(c, t, dataRate) ==
    [c EXCEPT !.running = FALSE, !.periods = count(t - c.last_start, dataRate)]

\* A faulty variant of stop: the clock is not marked as stopped.
stopRunning(c, t, dataRate) == [c EXCEPT !.periods = @ + count(t - c.last_start, dataRate)]

stop(c, t, dataRate) ==
    [c EXCEPT !.running = FALSE, !.periods = @ + count(t - c.last_start, dataRate)]

\* get_stats_at
PeriodsAt(c, t, dataRate) ==
    c.periods + (IF c.running THEN count(t - c.last_start, dataRate) ELSE 0)

\* serialize, and deserialize into a new clock.
RestoredClock(new, c) ==
    [new EXCEPT !.running = c.running, !.last_start = IF c.running THEN c.last_start ELSE @,
                !.periods = c.periods]
=============================================================================
