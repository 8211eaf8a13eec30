---------------------------- MODULE TogglingHandle ----------------------------
(***************************************************************************)
(* TogglingHandle: instead of the data, only the length of the bursts is   *)
(* kept, and the statistics are estimated from it with a toggling rate and *)
(* a duty cycle.  Times are in slots.  The rates are given in quarters,    *)
(* which the doubles of the code hold exactly.                             *)
(***************************************************************************)
EXTENDS Bus

NewHandle(enabled) ==
    [last_length |-> 0, last_load |-> 0, handled |-> TRUE,   \* last_burst
     enableflag |-> enabled, count |-> 0,
     disable_timestamp |-> 0, disable_time |-> 0]

\* What the burst that is not handled yet has contributed by t.
Running(h, t) ==
    IF h.handled THEN 0
    ELSE IF t < h.last_load + h.last_length THEN t - h.last_load ELSE h.last_length

\* disable: the rest of a burst is lost.
disableHandle(h, t) ==
    IF h.enableflag
    THEN [h EXCEPT !.count = @ + Running(h, t), !.handled = TRUE,
                   !.disable_timestamp = t, !.enableflag = FALSE]
    ELSE h

\* A faulty variant of enableHandle: only the last time off is kept.
enableOnce(h, t) ==
    IF h.enableflag THEN h
    ELSE [h EXCEPT !.disable_time = t - h.disable_timestamp, !.enableflag = TRUE]

\* enable
enableHandle(h, t) ==
    IF h.enableflag THEN h
    ELSE [h EXCEPT !.disable_time = @ + (t - h.disable_timestamp), !.enableflag = TRUE]

incCountBurstLength(h, t, n) ==
    LET counted == [h EXCEPT !.count = IF h.handled THEN @ ELSE @ + h.last_length]
    IN  IF h.enableflag
        THEN [counted EXCEPT !.last_length = n, !.last_load = t, !.handled = FALSE]
        ELSE [counted EXCEPT !.handled = TRUE]

\* The slots before t in which a burst was running.
busySlots(h, t) == h.count + (IF h.enableflag THEN Running(h, t) ELSE 0)

\* The slots before t in which the handle was disabled.
offSlots(h, t) == h.disable_time + (IF h.enableflag THEN 0 ELSE t - h.disable_timestamp)

\* A faulty variant of idleSlots: the slots of the bursts are idle ones too.
idleSlotsOfAll(h, t) == t - offSlots(h, t)

idleSlots(h, t) == t - offSlots(h, t) - busySlots(h, t)

\* get_stats: each product is rounded down to whole slots, then scaled by the
\* width.
estimate(h, t, togglingRate, dutyCycle, idle) ==
    LET busy == busySlots(h, t)
        idles(pattern) == IF idle = pattern THEN idleSlots(h, t) ELSE 0
        width == Cardinality(Lines)
        toggles == width * ((busy * togglingRate) \div 8)
    IN  [ones |-> width * ((busy * dutyCycle) \div 4 + idles(Lines)),
         zeroes |-> width * ((busy * (4 - dutyCycle)) \div 4 + idles({})),
         ones_to_zeroes |-> toggles, zeroes_to_ones |-> toggles]

\* serialize, and deserialize into a new handle; the rates are saved as well.
RestoredHandle(new, h) ==
    [new EXCEPT !.last_length = h.last_length, !.last_load = h.last_load, !.handled = h.handled,
                !.enableflag = h.enableflag, !.count = h.count,
                !.disable_timestamp = h.disable_timestamp, !.disable_time = h.disable_time]
=============================================================================
