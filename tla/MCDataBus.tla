------------------------------ MODULE MCDataBus ------------------------------
(***************************************************************************)
(* DataBus beside the waveform of its lines, for TLC: what the code counts *)
(* step by step is compared with what is counted over the whole waveform.  *)
(***************************************************************************)
EXTENDS DataBus

CONSTANT Nothing

ASSUME NothingAssumption == \A pattern \in Pattern : pattern # Nothing

VARIABLES
    carried,   \* what a burst has put on the lines, by direction and slot
    mode       \* the mode in each slot

MCIdlePattern == [d \in Dirs |-> IF d = "read" THEN Lines ELSE {}]
MCTogglingRate == [d \in Dirs |-> IF d = "read" THEN 2 ELSE 4]
MCDutyCycle == [d \in Dirs |-> IF d = "read" THEN 1 ELSE 2]
MCBursts == {<<>>, <<{1}, {1, 2}>>, <<{}, {2}, {1}>>}

Slots == 0..((MaxTime + 2) * DataRate)

MCInit ==
    /\ DataBusInit
    /\ carried = [d \in Dirs |-> [n \in Slots |-> Nothing]]
    /\ mode = [n \in Slots |-> busType]

\* The burst on the lines from slot s: its last pattern goes first.
Play(wave, s, burst) ==
    [n \in Slots |-> IF n \in s..(s + Len(burst) - 1) THEN burst[Len(burst) - (n - s)]
                     ELSE wave[n]]

MCLoad(d, t, burst, given) ==
    /\ Load(d, t, burst, given)
    /\ carried' = IF busType = "Bus" /\ ~given THEN carried
                  ELSE [carried EXCEPT ![d] = Play(@, t * DataRate, burst)]
    /\ UNCHANGED mode

\* The rest of a burst is not seen in the new mode.
MCSwitch(t) ==
    /\ enableBus(t) \/ enableTogglingRate(t)
    /\ mode' = [n \in Slots |-> IF n < t * DataRate THEN mode[n] ELSE busType']
    /\ carried' = [d \in Dirs |-> [n \in Slots |->
                      IF n < t * DataRate \/ busType' = busType THEN carried[d][n] ELSE Nothing]]

MCNext == \E t \in now..MaxTime :
    \/ MCSwitch(t)
    \/ \E d \in Dirs, burst \in Bursts, given \in BOOLEAN : MCLoad(d, t, burst, given)

MCSpec == MCInit /\ [][MCNext]_<<vars, carried, mode>>
-----------------------------------------------------------------------------
\* The clock cycles a caller may ask the statistics of.
Askable == now..(MaxTime + 2)

\* The lines in slot n, and before it; they are idle where nobody looks.
Line(d, n) == IF carried[d][n] = Nothing THEN IdlePattern[d] ELSE carried[d][n]
LineBefore(d, n) ==
    IF n > 0 /\ mode[n - 1] = "Bus" THEN Line(d, n - 1) ELSE IdlePattern[d]

\* The slots before s in mode m.
In(m, s) == {n \in 0..(s - 1) : mode[n] = m}

WaveStats(d, s) ==
    Total([n \in Slots |-> IF mode[n] = "Bus" THEN diff(LineBefore(d, n), Line(d, n)) ELSE NoStats],
          0, s)

Transitions(stats) == <<stats.ones_to_zeroes, stats.zeroes_to_ones>>

\* get_stats gives the transitions of the waveform, whenever it is asked, also
\* within a burst and after a change of mode; and the ones and zeroes too,
\* unless the bus was switched on while the simulation ran.
SwitchedOn == \E n \in Slots \ {0} : mode[n] = "Bus" /\ mode[n - 1] # "Bus"
BusCounted ==
    \A d \in Dirs, t \in Askable :
        LET stats == get_stats(bus[d], t * DataRate)
            wave == WaveStats(d, t * DataRate)
        IN  Transitions(stats) = Transitions(wave) /\ (SwitchedOn \/ stats = wave)

\* In mode TogglingRate every slot is either one of a burst or idle, across
\* changes of mode: bursts cut short by one count as far as they came.
HandleCounted ==
    \A d \in Dirs, t \in Askable :
        LET seen == In("TogglingRate", t * DataRate)
            busy == {n \in seen : carried[d][n] # Nothing}
        IN  /\ busySlots(handle[d], t * DataRate) = Cardinality(busy)
            /\ idleSlots(handle[d], t * DataRate) = Cardinality(seen \ busy)

\* The estimate accounts for every slot of every line, but for one that
\* rounding may lose, and has each line change at most once a busy slot.
EstimateCoversSlots ==
    \A d \in Dirs, t \in Askable :
        LET stats == estimate(handle[d], t * DataRate, TogglingRate[d], DutyCycle[d], IdlePattern[d])
            seen == Cardinality(Lines) * Cardinality(In("TogglingRate", t * DataRate))
        IN  /\ stats.ones + stats.zeroes \in {seen, seen - Cardinality(Lines)}
            /\ stats.ones_to_zeroes + stats.zeroes_to_ones
                  <= Cardinality(Lines) * busySlots(handle[d], t * DataRate)
=============================================================================
