----------------------------- MODULE MCInterface -----------------------------
(***************************************************************************)
(* The interfaces of the five standards, for TLC, beside a history of the  *)
(* commands: what an interface counts step by step is compared with what   *)
(* its lines carry over the whole time.                                    *)
(***************************************************************************)
EXTENDS DataBus, DBI, Clock, CommandPattern, SequencesExt

CONSTANTS
    Width, WckRate, WckAlwaysOn, Ranks,
    Standards, Types,       \* the standards and the commands without data
    impedances, tCK, tWCK, NumDQsPairs, prePostamble, Modulus,  \* of the energy
    dqsBusRate,             \* of the strobes of DDR5
    MaxCalls                \* bound: the calls of an interface

VARIABLES
    cmdBus, encoder, dqs, wck, clock, dbi, pins, access, meta,
    standard,
    sent,       \* the commands so far: [cmd, words, dbi], what a new encoder
                \* makes of each, and whether DBI was on
    odd,        \* what has happened to DBI: a pin was "reset" with the next burst,
                \* pins were "lost" in a restore, inversions are "missing"
    calls

interfaceVars == <<vars, cmdBus, encoder, dqs, wck, clock, dbi, pins, access, meta>>
mcVars == <<interfaceVars, standard, sent, odd, calls>>

MCBits == 1..3
MCLines == {1, 2} \X MCBits
MCSpecial == {<<1, 3>>, <<2, 1>>, <<2, 3>>}
High == [d \in Dirs |-> Lines]
Low == [d \in Dirs |-> {}]
MCTogglingRate == [d \in Dirs |-> 2]
MCBursts == {<<>>}

\* Each kind of lines has a power and an energy of its own, so that none is taken
\* for another; some are not terminated.
MCImpedances ==
    [ck |-> [termination |-> TRUE, P |-> 1, dyn_E |-> 3],
     wck |-> [termination |-> TRUE, P |-> 5, dyn_E |-> 7],
     ca |-> [termination |-> TRUE, P |-> 11, dyn_E |-> 13],
     rdq |-> [termination |-> TRUE, P |-> 17, dyn_E |-> 19],
     wdq |-> [termination |-> TRUE, P |-> 23, dyn_E |-> 29],
     rdqs |-> [termination |-> FALSE, P |-> 31, dyn_E |-> 37],
     wdqs |-> [termination |-> TRUE, P |-> 41, dyn_E |-> 43],
     rdbi |-> [termination |-> TRUE, P |-> 47, dyn_E |-> 53],
     wdbi |-> [termination |-> FALSE, P |-> 59, dyn_E |-> 61]]
MCPrePostamble ==
    [read |-> [zeroes |-> 1, zeroes_to_ones |-> 1], write |-> [zeroes |-> 1, zeroes_to_ones |-> 2]]

DDR4 == INSTANCE DDR4Interface WITH
    CommandLines <- 1..5, CommandRate <- 1, IdleHigh <- TRUE, IdlePattern <- High,
    StrobeRate <- DataRate, BeatScale <- 2, BurstLength <- 4
DDR5 == INSTANCE DDR5Interface WITH
    CommandLines <- 1..6, CommandRate <- 1, IdleHigh <- TRUE, IdlePattern <- High,
    StrobeRate <- dqsBusRate, BeatScale <- 8, BurstLength <- 2
LPDDR4 == INSTANCE LPDDR4Interface WITH
    CommandLines <- 1..3, CommandRate <- 1, IdleHigh <- FALSE, IdlePattern <- Low,
    StrobeRate <- DataRate, BeatScale <- 4, BurstLength <- 4
LPDDR5 == INSTANCE LPDDR5Interface WITH
    CommandLines <- 1..4, CommandRate <- 2, IdleHigh <- FALSE, IdlePattern <- Low,
    StrobeRate <- DataRate, BeatScale <- 8, BurstLength <- 2, BankArch <- "MBG"
LPDDR6 == INSTANCE LPDDR6Interface WITH
    CommandLines <- 1..4, CommandRate <- 2, IdleHigh <- FALSE, IdlePattern <- Low,
    StrobeRate <- DataRate, BeatScale <- 6, BurstLength <- 4, Special <- MCSpecial

Calculation == INSTANCE InterfaceEnergy WITH dataRate <- DataRate

ASSUME InterfaceAssumptions ==
    /\ Dirs = {"read", "write"} /\ Width \in Nat \ {0}
    /\ WckRate \in Nat /\ WckAlwaysOn \in BOOLEAN /\ dqsBusRate \in Nat \ {0}
    /\ LPDDR6!EntriesPerBurst \in Nat \ {0}
    /\ Calculation!ExactPeriods
    /\ DDR4!InterfaceAssumption /\ DDR5!InterfaceAssumption /\ LPDDR4!InterfaceAssumption
    /\ LPDDR5!InterfaceAssumption /\ LPDDR6!InterfaceAssumption

\* The number of beats on each pin that its storage holds.
Capacity == CASE standard = "DDR4" -> 8 \div 2 [] standard = "LPDDR4" -> 32 \div 4 [] OTHER -> 32 \div 8

IdleLevel == standard \in {"DDR4", "DDR5"}

\* Data of n entries, with the beats inverted here and there, or at the end.
Entry(i, n, kind) ==
    CASE kind = "late" -> IF (2 * i > n) = IdleLevel THEN {} ELSE Bits
      [] kind = "mixed" /\ i % 2 = 0 -> {1}
      [] kind = "mixed" /\ i % 4 = 1 -> {2}
      [] kind = "mixed" /\ i % 4 = 3 -> {1, 3}
Filled(n, kind) == [i \in 1..n |-> Entry(i, n, kind)]

Short == CASE standard = "LPDDR6" -> 6 [] standard = "LPDDR4" -> 8 [] OTHER -> 4
Address == {"BA0", "C0", "C2", "C3", "C4", "C10", "R2", "R14"}
Command(type, t, r, data) ==
    [type |-> type, time |-> t, rank |-> r, address |-> Address, data |-> data]

\* The data commands; the more of them the more they can differ in.  Only DDR4
\* tells ranks apart, by the bursts, whatever their data.
DataCommands(t) ==
    LET of(type, n, kind) == Command(type, t, 1, Filled(n, kind))
    IN  IF busType = "TogglingRate"
        THEN {Command(type, t, 1, <<>>) : type \in {"RD", "WR"}} \union {of("RD", 2 * Short, "late")}
        ELSE IF dbi.enabled
        THEN {of("RD", Short, "mixed"), of("RD", Short, "late"), of("RD", 2 * Short, "late"),
              of("WR", Short, "mixed")}
        ELSE {of(type, n, "late") : type \in {"RD", "WR"}, n \in {Short, 2 * Short}}
                \union {Command("RD", t, r, Filled(Short, "mixed")) :
                            r \in IF standard = "DDR4" THEN Ranks \ {1} ELSE {}}

Commands(t) ==
    DataCommands(t)
        \union {Command(type, t, 1, <<>>) :
                    type \in (IF dbi.enabled THEN {} ELSE Types) \union {"END_OF_SIMULATION"}}

\* The times to the next command; a data command of LPDDR4 takes four cycles.
Gaps == IF standard = "LPDDR4" THEN {0, 4, 5} ELSE 0..3

MCInit ==
    /\ standard \in Standards
    /\ \/ standard = "DDR4" /\ DDR4!DDR4Init
       \/ standard = "DDR5" /\ DDR5!DDR5Init
       \/ standard = "LPDDR4" /\ LPDDR4!LPDDR4Init
       \/ standard = "LPDDR5" /\ LPDDR5!LPDDR5Init
       \/ standard = "LPDDR6" /\ LPDDR6!LPDDR6Init
    /\ sent = <<>> /\ odd = {} /\ calls = 0

doCommand(cmd) ==
    \/ standard = "DDR4" /\ DDR4!doCommand(cmd)
    \/ standard = "DDR5" /\ DDR5!doCommand(cmd)
    \/ standard = "LPDDR4" /\ LPDDR4!doCommand(cmd)
    \/ standard = "LPDDR5" /\ LPDDR5!doCommand(cmd)
    \/ standard = "LPDDR6" /\ LPDDR6!doCommand(cmd)

Direction(cmd) == IF cmd.type \in {"RD", "RDA"} THEN "read" ELSE "write"
IsDataCommand(cmd) == cmd.type \in {"RD", "RDA", "WR", "WRA"}

\* The beats a data command has on the data bus; without data, and with what
\* LPDDR6 adds.
BeatsOf(cmd) ==
    IF cmd.data = <<>> THEN IF standard \in {"DDR5", "LPDDR5"} THEN 2 ELSE 4
    ELSE IF standard = "LPDDR6" THEN (Len(cmd.data) \div LPDDR6!EntriesPerBurst) * 4
    ELSE Len(cmd.data) \div Width

\* What a command puts on the command bus, from a new encoder that knows no
\* other command.
FreshWords(cmd) ==
    LET d == Direction(cmd)
        n == BeatsOf(cmd)
        data == IsDataCommand(cmd)
    IN  CASE standard = "DDR4" ->
                LET e == NewEncoder(DDR4!InitSettings)
                IN  DDR4!Encode(IF data THEN updateSettings(e, DDR4!Overrides(n, d)) ELSE e, cmd)
          [] standard = "DDR5" ->
                LET e == NewEncoder(DDR5!InitSettings)
                    h == IF d = "write" THEN "H" ELSE "L"
                    o == [C2 |-> h, C3 |-> IF n = 1 THEN "L" ELSE h]
                    long == [C2 |-> h, C3 |-> h, C10 |-> "L"]
                IN  DDR5!Encode(IF data THEN updateSettings(e, IF n = 4 THEN long ELSE o) ELSE e, cmd)
          [] standard = "LPDDR4" ->
                LET e == NewEncoder(LPDDR4!InitSettings)
                    o == [C2 |-> "L", C3 |-> "L", BL |-> "L"]
                    long == [C2 |-> "L", C3 |-> "L", C4 |-> "L", BL |-> "H"]
                IN  LPDDR4!Encode(IF data THEN updateSettings(e, IF n = 8 THEN long ELSE o) ELSE e, cmd)
          [] standard = "LPDDR5" ->
                LPDDR5!Encode(NewEncoder(IF data /\ n = 4 THEN [C0 |-> "L"] ELSE <<>>), cmd)
          [] standard = "LPDDR6" ->
                LPDDR6!Encode([NewEncoder(<<>>) EXCEPT !.burstLength = n], cmd)

HasWords(cmd) ==
    cmd.type # "END_OF_SIMULATION" /\ (standard = "LPDDR4" => cmd.type \notin LPDDR4!PowerDowns)

\* The code throws when a burst does not fit, and the caller ends the simulation
\* with END_OF_SIMULATION.
Overflow == \E d \in Dirs : \E p \in 1..Width : Len(pins[d][p].burst) > Capacity
Ended == sent # <<>> /\ Last(sent).cmd.type = "END_OF_SIMULATION"

HasPins == standard \in {"DDR4", "LPDDR4", "LPDDR5"}

\* What a burst with DBI has led to.
Oddities(cmd) ==
    LET d == Direction(cmd)
        last == dbi'.last[d]
    IN  {o \in {"reset", "missing"} :
            CASE o = "reset" -> HasPins /\ \E p \in 1..Width : Len(pins'[d][p].burst) # BeatsOf(cmd)
              [] o = "missing" -> standard = "LPDDR6" /\ last.size < last.chunks}

MCCommand(cmd) ==
    /\ ~Overflow /\ ~Ended
    /\ doCommand(cmd)
    /\ sent' = Append(sent, [cmd |-> cmd, dbi |-> DDR4!UsesDBI(cmd),
                             words |-> IF HasWords(cmd) THEN FreshWords(cmd) ELSE <<>>])
    /\ odd' = odd \union (IF IsDataCommand(cmd) /\ DDR4!UsesDBI(cmd) THEN Oddities(cmd) ELSE {})
    /\ UNCHANGED standard

\* The front end of DDR5 has no extension DBI, LPDDR6 alone has MetaData.
MCSwitch ==
    /\ busType = "Bus" /\ ~Overflow /\ ~Ended
    /\ \/ standard # "DDR5" /\ DDR4!enableDBI(~dbi.enabled)
       \/ standard = "LPDDR6" /\ meta = {} /\ LPDDR6!setMetaData({<<0, 0>>, <<0, 2>>, <<1, 1>>})
    /\ UNCHANGED <<standard, sent, odd>>

MCRestore ==
    /\ sent # <<>> /\ ~Overflow /\ ~Ended
    /\ \/ standard = "DDR4" /\ DDR4!Restore
       \/ standard = "DDR5" /\ DDR5!Restore
       \/ standard = "LPDDR4" /\ LPDDR4!Restore
       \/ standard = "LPDDR5" /\ LPDDR5!Restore
       \/ standard = "LPDDR6" /\ LPDDR6!Restore
    /\ odd' = odd \union IF pins' # pins THEN {"lost"} ELSE {}
    /\ UNCHANGED <<standard, sent>>

\* What is set before the first command is no call.
MCNext ==
    /\ calls < MaxCalls
    /\ \/ \E gap \in Gaps : \E cmd \in Commands(now + gap) : MCCommand(cmd)
       \/ MCSwitch
       \/ MCRestore
    /\ calls' = IF sent' = <<>> THEN 0 ELSE calls + 1

MCSpec == MCInit /\ [][MCNext]_mcVars
-----------------------------------------------------------------------------
\* The times a caller may ask the statistics of.
Askable == {now, now + 1, now + 5}

SentIn(d) == {i \in DOMAIN sent : IsDataCommand(sent[i].cmd) /\ Direction(sent[i].cmd) = d}

\* getWindowStats, of the interface there is.
Window(t) ==
    CASE standard = "DDR4" -> DDR4!WindowStats(t, 1)
      [] standard = "DDR5" -> DDR5!WindowStats(t, 1)
      [] standard = "LPDDR4" -> LPDDR4!WindowStats(t, 1)
      [] standard = "LPDDR5" -> LPDDR5!WindowStats(t, 1)
      [] standard = "LPDDR6" -> LPDDR6!WindowStats(t, 1)

CommandBusStats(t) ==
    CASE standard = "DDR4" -> DDR4!CommandBusStats(t)
      [] standard = "DDR5" -> DDR5!CommandBusStats(t)
      [] standard = "LPDDR4" -> LPDDR4!CommandBusStats(t)
      [] standard = "LPDDR5" -> LPDDR5!CommandBusStats(t)
      [] standard = "LPDDR6" -> LPDDR6!CommandBusStats(t)

CommandSlots == IF standard \in {"LPDDR5", "LPDDR6"} THEN 2 ELSE 1
CommandWidth == CASE standard = "DDR4" -> 5 [] standard = "DDR5" -> 6
                  [] standard = "LPDDR4" -> 3 [] OTHER -> 4

\* The lines of the command bus in slot s.
CommandIn(s) ==
    LET begin(i) == sent[i].cmd.time * CommandSlots
        on(i) == begin(i) <= s /\ s < begin(i) + Len(sent[i].words)
    IN  IF \E i \in DOMAIN sent : on(i)
        THEN LET i == CHOOSE k \in DOMAIN sent : on(k) IN sent[i].words[s - begin(i) + 1]
        ELSE IF IdleLevel THEN 1..CommandWidth ELSE {}

CommandWave(end) ==
    LET level(s) == IF s < 0 THEN CommandIn(0 - CommandSlots) ELSE CommandIn(s)
        slot(s) == [diff(level(s - 1), level(s)) EXCEPT !.zeroes = CommandWidth - Cardinality(level(s))]
    IN  Total([s \in Nat |-> slot(s)], 0, end)

\* The command bus carries each command as if it were the only one: the burst
\* length it announces is its own, whatever bursts came before, with whatever
\* overrides; and it is counted right whenever the statistics are asked.
CommandBusCounted ==
    \A t \in Askable : CommandBusStats(t) = CommandWave(t * CommandSlots)

\* The levels of pin p in slot s: those of a burst with DBI, or idle.
PinIn(d, p, s) ==
    LET begin(i) == sent[i].cmd.time * 2
        on(i) == sent[i].dbi /\ begin(i) <= s /\ s < begin(i) + BeatsOf(sent[i].cmd)
        ones(i) == Cardinality(sent[i].cmd.data[(s - begin(i)) * 2 + p])
    IN  IF \E i \in SentIn(d) : on(i)
        THEN LET i == CHOOSE k \in SentIn(d) : on(k)
             IN  ones(i) >= 2
        ELSE IdleLevel

PinWave(d, p, end) ==
    LET level(s) == IF s < 0 THEN IdleLevel ELSE PinIn(d, p, s)
    IN  Total([s \in Nat |-> Plus(Held(level(s), 1), Change(level(s - 1), level(s)))], 0, end)

\* The pins of DBI are counted as their waveform has it, across bursts that
\* follow each other at once or later, and within a burst; as long as no pin had
\* to be reset with the next burst (PinBurstFits), or was left out of a restore.
PinCounted ==
    HasPins /\ odd = {} /\ (\E i \in DOMAIN sent : sent[i].dbi) =>
        \A d \in Dirs, p \in 1..Width, t \in Askable :
            PinStats(pins[d][p], t * 2) = PinWave(d, p, t * 2)

\* The last command of each direction, if any.
LastIn(d) == IF SentIn(d) = {} THEN 0 ELSE CHOOSE i \in SentIn(d) : \A k \in SentIn(d) : k <= i

\* What a reader of the bus takes beat n of a burst to carry on the lines of
\* entry p, with what the pin of DBI says in the same beat.
ReadEntry(d, i, n, p) ==
    LET bits == {b \in Bits : <<p, b>> \in bus[d].burst[n]}
        levels == pins[d][p].burst
        inverted == sent[i].dbi /\ levels[Len(levels) - BeatsOf(sent[i].cmd) + n] # IdleLevel
    IN  IF inverted THEN Bits \ bits ELSE bits

\* The same of LPDDR6, where the fourth beat of each four carries the inversions.
\* The bus was given the last beat first.
ReadBit(d, i, b, n, line) ==
    LET beats == bus[d].burst
        beat(k) == beats[Len(beats) + 1 - (b * 4 + k)]
        index == LPDDR6!DataIndex(n, line)
        inversion == CHOOSE l \in MCSpecial : LPDDR6!Before(l, MCSpecial) = index \div 6
    IN  (line \in beat(n)) # (inversion \in beat(4))

Recovered(d) ==
    LET i == LastIn(d)
        cmd == sent[i].cmd
    IN  i = 0 \/ busType # "Bus" \/ Ended \/
        IF standard = "LPDDR6"
        THEN \A b \in 0..(BeatsOf(cmd) \div 4 - 1), n \in 1..4 :
                \A line \in LPDDR6!DataLines(n) :
                    ReadBit(d, i, b, n, line) =
                        LPDDR6!DataBit(cmd.data, b * 18 + LPDDR6!DataIndex(n, line))
        ELSE \A n \in 1..BeatsOf(cmd), p \in 1..Width :
                ReadEntry(d, i, n, p) = cmd.data[(n - 1) * 2 + p]

\* A reader of the bus who undoes what DBI says has the data of the command,
\* whatever bursts came before, at once or later, even if a pin was reset with
\* this one; as long as LPDDR6 had room for the inversions, and the pins were
\* not left out of a restore.
DataRecovered == odd \subseteq {"reset"} => \A d \in Dirs : Recovered(d)

HasWck == standard \in {"LPDDR5", "LPDDR6"}

\* The slots in a cycle of the strobes.
DqsRate == IF standard = "DDR5" THEN dqsBusRate ELSE 2

\* The half periods that the strobe and the write clock run for a burst: whole
\* periods, rounded down.
StrobeHalves(cmd) == 2 * (((BeatsOf(cmd) \div 2) * DqsRate) \div 2)
WckHalves(cmd) == 2 * (((BeatsOf(cmd) \div 2) * WckRate) \div 2)

\* The statistics of a clock that runs for each of some commands.
RunFor(some, halves(_)) ==
    Total([i \in Nat |-> IF i \in some THEN DDR4!ClockStats(halves(sent[i].cmd)) ELSE NoStats],
          1, Len(sent) + 1)

StrobeWave(d) == RunFor(IF d = "read" \/ ~HasWck THEN SentIn(d) ELSE {}, StrobeHalves)
WckWave(t) ==
    IF WckAlwaysOn THEN DDR4!ClockStats(2 * ((t * WckRate) \div 2))
    ELSE RunFor(IF HasWck THEN {i \in DOMAIN sent : IsDataCommand(sent[i].cmd)} ELSE {}, WckHalves)

\* A strobe of a standard that has it runs for the beats of its bursts, in DDR5 at
\* a rate of its own, the write clock for each burst or all the time, a whole number
\* of periods in each run, rounded down;
\* all of a burst is counted as soon as it is loaded, and no burst is lost in a
\* restore.
StrobesCounted ==
    \A t \in Askable :
        /\ \A d \in Dirs : Window(t).dqs[d] = StrobeWave(d)
        /\ Window(t).wck = WckWave(t)

\* The bursts of a rank and direction, where one ends, and those that begin where
\* an earlier one has ended, or with the simulation.
Own(r, d) == {i \in SentIn(d) : sent[i].cmd.rank = r}
BurstEnd(cmd) == cmd.time + BeatsOf(cmd) \div 2
SeamlessBursts(r, d) ==
    {i \in Own(r, d) : \/ \E k \in Own(r, d) : k < i /\ BurstEnd(sent[k].cmd) = sent[i].cmd.time
                       \/ sent[i].cmd.time = 0 /\ \A k \in Own(r, d) : k >= i}

\* DDR4 counts a burst as seamless when it begins where the one before of its
\* rank and direction has ended, whatever the other ranks do in between; and
\* the first as well, if it begins with the simulation.
SeamlessCounted ==
    standard = "DDR4" =>
        \A r \in Ranks, d \in Dirs :
            Window(now).seamless[r][d] = Cardinality(SeamlessBursts(r, d))

\* calculateEnergy of the statistics at t; rank_total counts no bursts, as nothing
\* but the core would count them.
Energy(t) ==
    LET stats == [bursts |-> [r \in Ranks |-> [d \in Dirs |-> 0]]] @@ Window(t)
    IN  CASE standard = "DDR4" -> Calculation!calculateEnergyDDR4(stats)
          [] standard = "DDR5" -> Calculation!calculateEnergyDDR5(stats)
          [] standard = "LPDDR4" -> Calculation!calculateEnergyLPDDR4(stats)
          [] standard = "LPDDR5" -> Calculation!calculateEnergyLPDDR5(stats)
          [] standard = "LPDDR6" -> Calculation!calculateEnergyLPDDR6(stats)

\* That of the pre- and postambles of DDR4 in it, which the code adds to the strobes.
AmbleEnergy(t) ==
    IF standard = "DDR4"
    THEN Calculation!calcPrePostambleEnergy(
             [bursts |-> [r \in Ranks |-> [d \in Dirs |-> 0]]] @@ Window(t))
    ELSE [controller |-> Calculation!NoEnergy, dram |-> Calculation!NoEnergy]

\* What lines of a kind take that are at the level of their termination for n
\* units of time, and rise so many times.
Taken(kind, n, unit, rises) ==
    LET line == impedances[kind]
    IN  rises * line.dyn_E + (IF line.termination THEN n * unit * line.P ELSE 0)

\* The same of a waveform with so many slots in a cycle.
TakenBy(kind, wave, slots) ==
    Taken(kind, IF IdleLevel THEN wave.zeroes ELSE wave.ones, tCK \div slots, wave.zeroes_to_ones)

\* The energy is that of the lines over the time simulated, each at its own rate,
\* on the side that drives them: the command bus by the commands, the clock, the
\* strobes by the beats, the pins by the inversions, and the data as counted.
EnergyMetered ==
    odd = {} =>
        LET t == now + 2
            energy == Energy(t)
            ambles == AmbleEnergy(t)
            window == Window(t)
            pinwave(d) == Total([p \in 1..Width |-> PinWave(d, p, t * 2)], 1, Width + 1)
            driven(d, dq, strobe, pin) ==
                TakenBy(dq, window.data[d], 2) + TakenBy(dq, window.toggling[d], 2)
                + Taken(strobe, StrobeWave(d).ones, tCK \div DqsRate, StrobeWave(d).ones)
                + (IF HasPins THEN TakenBy(pin, pinwave(d), 2) ELSE 0)
        IN  /\ energy.dram.staticEnergy + energy.dram.dynamicEnergy
                - ambles.dram.staticEnergy - ambles.dram.dynamicEnergy
                  = driven("read", "rdq", "rdqs", "rdbi")
            /\ energy.controller.staticEnergy + energy.controller.dynamicEnergy
                - ambles.controller.staticEnergy - ambles.controller.dynamicEnergy
                  = driven("write", "wdq", "wdqs", "wdbi")
                    + TakenBy("ca", CommandWave(t * CommandSlots), CommandSlots)
                    + Taken("ck", 2 * t, tCK \div 2, 2 * t)
                    + Taken("wck", WckWave(t).ones, tWCK \div 2, WckWave(t).ones)

KeepsStatistics == \A t \in Askable : Window(t)' = Window(t)

\* An interface that was saved and restored gives the same statistics at once,
\* if its standard saves DBI with it, or DBI was not used.
RestoredSame ==
    [][MCRestore /\ ~(standard \in {"LPDDR4", "LPDDR5"} /\ pins # LPDDR4!NewPins) =>
          KeepsStatistics]_mcVars

\* The types, and what the storages hold of each other.
InterfaceTypeOK ==
    /\ now \in Nat /\ dbi.enabled \in BOOLEAN
    /\ \A d \in Dirs :
          /\ dbi.last[d].size <= Len(dbi.last[d].inversions)
          /\ dbi.last[d].chunks <= Len(dbi.last[d].inversions)
          /\ DOMAIN pins[d] = 1..Width
          /\ \A p \in 1..Width : pins[d][p].burst \in Seq(BOOLEAN) /\ pins[d][p].stats \in Stats
          /\ bus[d].stats \in Stats /\ bus[d].burst \in Seq(Pattern)
          /\ dqs[d].periods \in Nat /\ ~dqs[d].running
    /\ wck.periods \in Nat /\ clock.periods \in Nat
    /\ cmdBus.last_load >= cmdBus.load_time
-----------------------------------------------------------------------------
\* What the storage of a pin says with an assertion: a burst fits in it.
PinBurstFits ==
    \A d \in Dirs, p \in 1..Width : Len(pins[d][p].burst) <= Capacity
=============================================================================
