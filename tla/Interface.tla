------------------------------ MODULE Interface ------------------------------
(***************************************************************************)
(* What the interfaces of the five standards have in common: a command     *)
(* bus with its encoder, the data bus with its strobes, the clock and, in  *)
(* some standards, DBI with a pin for each chunk of a beat, the write      *)
(* clock, and the pre- and postambles of each rank.  A command is a record *)
(* [type, time, rank, address, data]: the data is a sequence of entries,   *)
(* empty when the command comes without it.  `now' is m_last_command_time. *)
(***************************************************************************)
EXTENDS DataBus, DBI, Clock, CommandPattern, SequencesExt

CONSTANTS
    CommandLines, CommandRate,  \* the lines and the slots per cycle of the command bus
    IdleHigh,       \* whether all buses and pins idle high, or all low
    Width,          \* the entries of a beat; DBI inverts each on its own
    BurstLength,    \* memSpec.burstLength: the beats of a burst without data
    BeatScale,      \* the beats of the real bus that a beat stands for
    StrobeRate,     \* of the strobes: dqsBusRate in DDR5, else the data rate
    WckRate, WckAlwaysOn,   \* of the write clock
    Ranks

Cmd == INSTANCE Bus WITH Lines <- CommandLines

\* What its constants are taken to be.
InterfaceAssumption ==
    /\ Lines = (1..Width) \X Bits /\ IdlePattern = [d \in Dirs |-> IF IdleHigh THEN Lines ELSE {}]
    /\ CommandRate \in {1, 2} /\ DataRate = 2

VARIABLES
    cmdBus, encoder,
    dqs,        \* the data strobes, by direction
    wck, clock,
    dbi,        \* [enabled, last], the last burst by direction
    pins,       \* dbiread and dbiwrite
    access,     \* RankInterface: where the last burst ended, and the seamless ones
    meta        \* m_formatter.m_metaData

lines == <<cmdBus, bus, handle, busType>>
strobes == <<dqs, wck, clock>>
dbiVars == <<dbi, pins>>
interfaceVars == <<lines, now, encoder, strobes, dbiVars, access, meta>>

Config == DBIConfig(Width, 1, IdleHigh)
NoWidth == DBIConfig(0, 2, IdleHigh)   \* LPDDR6: a chunk is two entries

IdleCommand == IF IdleHigh THEN CommandLines ELSE {}
NewPins == [d \in Dirs |-> [p \in 1..Width |-> NewPin(IdleHigh)]]
NewDBIState == [enabled |-> FALSE, last |-> [d \in Dirs |-> NoBurst]]

InterfaceInit(settings) ==
    /\ DataBusInit
    /\ cmdBus = Cmd!NewBus(IdleCommand, TRUE)
    /\ encoder = NewEncoder(settings)
    /\ dqs = [d \in Dirs |-> NewClock(TRUE)] /\ wck = NewClock(~WckAlwaysOn)
    /\ clock = NewClock(FALSE)
    /\ dbi = NewDBIState /\ pins = NewPins
    /\ access = [r \in Ranks |-> [d \in Dirs |-> [end |-> 0, seamless |-> 0]]]
    /\ meta = {}
-----------------------------------------------------------------------------
\* handleCommandBus; the assertion of load is the caller's to keep.
handleCommandBus(t, words) ==
    LET s == t * CommandRate
    IN  /\ EndTime(cmdBus) <= s /\ (s > cmdBus.last_load \/ s = 0)
        /\ cmdBus' = Cmd!load(cmdBus, s, Reverse(words))

\* The beats of the data bus, one entry beside the other.
Beats(data) ==
    [n \in 1..(Len(data) \div Width) |->
        UNION {{p} \X data[(n - 1) * Width + p] : p \in 1..Width}]

length(cmd) == IF cmd.data = <<>> THEN BurstLength ELSE Len(cmd.data) \div Width

\* Only in mode Bus is there data to compute the inversions of.
UsesDBI(cmd) == dbi.enabled /\ busType = "Bus" /\ cmd.data # <<>>

\* handleDBIInterface: what is driven instead of the data.
Driven(cmd, config) ==
    IF UsesDBI(cmd) THEN invertChunk(cmd.data, Inversions(cmd.data, config), config) ELSE cmd.data

\* handleDBIPinChange: the levels pin p is set to, each with the time of the load.
\* The reset of the burst before comes first.
PinLevels(cmd, d, p) ==
    LET s == cmd.time * DataRate
        inverted == Inversions(cmd.data, Config)
        level(n) == IdleHigh # inverted[(n - 1) * Width + p]
    IN  (IF p \in ResetPins(dbi.last[d], s, Config) THEN <<IdleHigh>> ELSE <<>>)
            \o [n \in 1..length(cmd) |-> level(n)]

Set(pin, s, levels) ==
    LET after[n \in 0..Len(levels)] == IF n = 0 THEN pin ELSE set(after[n - 1], s, levels[n])
    IN  after[Len(levels)]

updateDBI(cmd, d, config) ==
    IF ~UsesDBI(cmd) THEN UNCHANGED dbiVars
    ELSE LET s == cmd.time * DataRate
         IN  /\ dbi' = [dbi EXCEPT !.last[d] = Updated(@, s, cmd.data, config, BurstLength)]
             /\ pins' = IF config.width = 0 THEN pins
                        ELSE [pins EXCEPT ![d] =
                                 [p \in 1..Width |-> Set(@[p], s, PinLevels(cmd, d, p))]]

\* The data of a command, as beats of the bus.  Without data the strobes of mode
\* Bus would fail an assertion, as the length of the burst is 0.
loadData(cmd, d, beats) ==
    /\ cmd.data = <<>> => busType = "TogglingRate"
    /\ Load(d, cmd.time, IF cmd.data = <<>> THEN [n \in 1..BurstLength |-> {}] ELSE beats, TRUE)

\* handleDQs: start, and stop at the end of the burst.
Strobed(strobe, t, n, rate) == stop(start(strobe, t), t + n \div DataRate, rate)

handleDQs(t, d, n) ==
    /\ Startable(dqs[d]) /\ Stoppable(start(dqs[d], t), t + n \div DataRate)
    /\ dqs' = [dqs EXCEPT ![d] = Strobed(@, t, n, StrobeRate)]

\* The write clock runs during every burst, or always.
handleWck(t, n) ==
    wck' = IF WckAlwaysOn THEN wck ELSE Strobed(wck, t, n, WckRate)

\* A command that only loads the command bus.
busCommand(cmd, words) ==
    /\ cmd.time >= now /\ now' = cmd.time
    /\ handleCommandBus(cmd.time, words)
    /\ UNCHANGED <<bus, handle, busType, encoder, strobes, dbiVars, access, meta>>

\* endOfSimulation: the time is in cycles here, and in slots in updateDBI.
endOfSimulation(t, config) ==
    LET reset(d, p) ==
            IF config.width # 0 /\ p \in ResetPins(dbi.last[d], t, config)
            THEN set(pins[d][p], t, IdleHigh) ELSE pins[d][p]
    IN  /\ t >= now /\ now' = t
        /\ pins' = [d \in Dirs |-> [p \in 1..Width |-> reset(d, p)]]
        /\ dbi' = [dbi EXCEPT !.last = [d \in Dirs |-> Reset(@[d], t, config)]]
        /\ UNCHANGED <<lines, encoder, strobes, access, meta>>

\* The extension DBI; the switch takes effect with the next burst.
enableDBI(on) ==
    /\ dbi' = [dbi EXCEPT !.enabled = on]
    /\ UNCHANGED <<lines, now, encoder, strobes, pins, access, meta>>
-----------------------------------------------------------------------------
\* getWindowStats; the lines come in pairs, and the strobes of x16 twice.
CommandBusStats(t) == Cmd!get_stats(cmdBus, t * CommandRate)
PinTotal(d, t) == Total([p \in 1..Width |-> PinStats(pins[d][p], t * 2)], 1, Width + 1)

\* The statistics of n periods.
ClockStats(n) == [ones |-> n, zeroes |-> n, ones_to_zeroes |-> n, zeroes_to_ones |-> n]

WindowStats(t, strobePairs) ==
    [commandBus |-> CommandBusStats(t),
     data |-> [d \in Dirs |-> get_stats(bus[d], t * DataRate)],
     toggling |-> [d \in Dirs |-> estimate(handle[d], t * DataRate, TogglingRate[d],
                                           DutyCycle[d], IdlePattern[d])],
     clock |-> ClockStats(2 * PeriodsAt(clock, t, 2)),
     wck |-> ClockStats(2 * PeriodsAt(wck, t, WckRate)),
     dqs |-> [d \in Dirs |-> ClockStats(strobePairs * 2 * PeriodsAt(dqs[d], t, StrobeRate))],
     dbi |-> [d \in Dirs |-> PinTotal(d, t)],
     seamless |-> [r \in Ranks |-> [d \in Dirs |-> access[r][d].seamless]]]

\* serialize, and deserialize into a new interface: what every standard keeps.
RestoreLines(settings) ==
    /\ cmdBus' = RestoredBus(Cmd!NewBus(IdleCommand, TRUE), cmdBus)
    /\ RestoreDataBus
    /\ encoder' = RestoredEncoder(NewEncoder(settings), encoder)
    /\ dqs' = [d \in Dirs |-> RestoredClock(NewClock(TRUE), dqs[d])]
    /\ wck' = RestoredClock(NewClock(~WckAlwaysOn), wck)
    /\ clock' = RestoredClock(NewClock(FALSE), clock)
    /\ meta' = {}

\* The standards whose serialize leaves the DBI and its pins out.
RestoreWithoutDBI(settings) ==
    /\ RestoreLines(settings)
    /\ dbi' = NewDBIState /\ pins' = NewPins
    /\ UNCHANGED access
=============================================================================
