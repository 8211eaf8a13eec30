--------------------------- MODULE InterfaceProofs ---------------------------
(***************************************************************************)
(* What the interfaces count, for any commands, lines, ranks and rates:    *)
(* the strobes, the write clock, the seamless bursts and the command bus;  *)
(* and that what they serialize is all that their statistics depend on.    *)
(***************************************************************************)
EXTENDS MCInterface, BusLemmas

ClockSet == [running : BOOLEAN, last_start : Nat, periods : Nat]
ClockStats(n) == [ones |-> n, zeroes |-> n, ones_to_zeroes |-> n, zeroes_to_ones |-> n]
PeriodStats(n) == ClockStats(2 * n)

\* The commands an interface is given: any type, with any data, at any time.
CommandSet ==
    [type : STRING, time : Nat, rank : Ranks, address : SUBSET STRING, data : Seq(SUBSET Bits)]

IsSequence(s) == \E S : s \in Seq(S)

Sendable(cmd) == cmd.time \in Nat /\ Len(cmd.data) \in Nat

\* A clock after a run of n cycles from t on.
Ran(c, t, n, rate) == stop(start(c, t), t + n, rate)

\* What a data command and the others make of the strobes.
StrobesOf(cmd) ==
    /\ now' = cmd.time
    /\ dqs' = IF IsDataCommand(cmd) /\ (Direction(cmd) = "read" \/ ~HasWck)
              THEN [dqs EXCEPT ![Direction(cmd)] = Ran(@, cmd.time, BeatsOf(cmd) \div 2, DqsRate)]
              ELSE dqs
    /\ wck' = IF IsDataCommand(cmd) /\ HasWck /\ ~WckAlwaysOn
              THEN Ran(wck, cmd.time, BeatsOf(cmd) \div 2, WckRate)
              ELSE wck

-----------------------------------------------------------------------------
(* What the five interfaces do with the strobes                            *)

LEMMA DDR4Strobes ==
    ASSUME NEW cmd, standard = "DDR4", DDR4!doCommand(cmd)
    PROVE  StrobesOf(cmd)
<1>1. DataRate = 2 /\ DqsRate = IF standard = "DDR5" THEN dqsBusRate ELSE 2
  BY InterfaceAssumptions DEF InterfaceAssumptions, DDR4!InterfaceAssumption, DqsRate
<1>2. ~HasWck /\ BeatsOf(cmd) = DDR4!length(cmd)
  BY DEF HasWck, BeatsOf, DDR4!length
<1>3. ASSUME NEW d, DDR4!handleData(cmd, d)
      PROVE  /\ now' = cmd.time /\ wck' = wck
             /\ dqs' = [dqs EXCEPT ![d] = Ran(@, cmd.time, BeatsOf(cmd) \div 2, DqsRate)]
  BY <1>1, <1>2, <1>3
     DEF DDR4!handleData, DDR4!loadData, DDR4!Load, DDR4!handleDQs, DDR4!Strobed,
         DDR4!stop, DDR4!start, DDR4!count, Ran, stop, start, count
<1>4. CASE cmd.type \in {"RD", "RDA"} /\ DDR4!handleData(cmd, "read")
  <2>1. IsDataCommand(cmd) /\ Direction(cmd) = "read"
    BY <1>4 DEF IsDataCommand, Direction
  <2> QED BY <1>2, <1>3, <1>4, <2>1 DEF StrobesOf
<1>5. CASE cmd.type \in {"WR", "WRA"} /\ DDR4!handleData(cmd, "write")
  <2>1. IsDataCommand(cmd) /\ Direction(cmd) = "write"
    BY <1>5 DEF IsDataCommand, Direction
  <2> QED BY <1>2, <1>3, <1>5, <2>1 DEF StrobesOf
<1>6. CASE cmd.type \notin {"RD", "RDA", "WR", "WRA"} /\ DDR4!busCommand(cmd, DDR4!Encode(encoder, cmd))
  BY <1>6 DEF DDR4!busCommand, DDR4!strobes, IsDataCommand, StrobesOf
<1>7. CASE cmd.type = "END_OF_SIMULATION" /\ DDR4!endOfSimulation(cmd.time, DDR4!Config)
  BY <1>7 DEF DDR4!endOfSimulation, DDR4!strobes, IsDataCommand, StrobesOf
<1> QED BY <1>4, <1>5, <1>6, <1>7 DEF DDR4!doCommand

LEMMA DDR5Strobes ==
    ASSUME NEW cmd, standard = "DDR5", DDR5!doCommand(cmd)
    PROVE  StrobesOf(cmd)
<1>1. DataRate = 2 /\ DqsRate = IF standard = "DDR5" THEN dqsBusRate ELSE 2
  BY InterfaceAssumptions DEF InterfaceAssumptions, DDR4!InterfaceAssumption, DqsRate
<1>2. ~HasWck /\ BeatsOf(cmd) = DDR5!length(cmd)
  BY DEF HasWck, BeatsOf, DDR5!length
<1>3. ASSUME NEW d, DDR5!handleData(cmd, d)
      PROVE  /\ now' = cmd.time /\ wck' = wck
             /\ dqs' = [dqs EXCEPT ![d] = Ran(@, cmd.time, BeatsOf(cmd) \div 2, DqsRate)]
  BY <1>1, <1>2, <1>3
     DEF DDR5!handleData, DDR5!loadData, DDR5!Load, DDR5!handleDQs, DDR5!Strobed,
         DDR5!stop, DDR5!start, DDR5!count, Ran, stop, start, count
<1>4. CASE cmd.type \in {"RD", "RDA"} /\ DDR5!handleData(cmd, "read")
  <2>1. IsDataCommand(cmd) /\ Direction(cmd) = "read"
    BY <1>4 DEF IsDataCommand, Direction
  <2> QED BY <1>2, <1>3, <1>4, <2>1 DEF StrobesOf
<1>5. CASE cmd.type \in {"WR", "WRA"} /\ DDR5!handleData(cmd, "write")
  <2>1. IsDataCommand(cmd) /\ Direction(cmd) = "write"
    BY <1>5 DEF IsDataCommand, Direction
  <2> QED BY <1>2, <1>3, <1>5, <2>1 DEF StrobesOf
<1>6. CASE cmd.type \notin {"RD", "RDA", "WR", "WRA"} /\ DDR5!busCommand(cmd, DDR5!Encode(encoder, cmd))
  BY <1>6 DEF DDR5!busCommand, DDR5!strobes, IsDataCommand, StrobesOf
<1>7. CASE cmd.type = "END_OF_SIMULATION" /\ now' = cmd.time /\ UNCHANGED DDR5!strobes
  BY <1>7 DEF DDR5!strobes, IsDataCommand, StrobesOf
<1> QED BY <1>4, <1>5, <1>6, <1>7 DEF DDR5!doCommand

LEMMA LPDDR4Strobes ==
    ASSUME NEW cmd, standard = "LPDDR4", LPDDR4!doCommand(cmd)
    PROVE  StrobesOf(cmd)
<1>1. DataRate = 2 /\ DqsRate = IF standard = "DDR5" THEN dqsBusRate ELSE 2
  BY InterfaceAssumptions DEF InterfaceAssumptions, DDR4!InterfaceAssumption, DqsRate
<1>2. ~HasWck /\ BeatsOf(cmd) = LPDDR4!length(cmd)
  BY DEF HasWck, BeatsOf, LPDDR4!length
<1>3. ASSUME NEW d, LPDDR4!handleData(cmd, d)
      PROVE  /\ now' = cmd.time /\ wck' = wck
             /\ dqs' = [dqs EXCEPT ![d] = Ran(@, cmd.time, BeatsOf(cmd) \div 2, DqsRate)]
  BY <1>1, <1>2, <1>3
     DEF LPDDR4!handleData, LPDDR4!loadData, LPDDR4!Load, LPDDR4!handleDQs, LPDDR4!Strobed,
         LPDDR4!stop, LPDDR4!start, LPDDR4!count, Ran, stop, start, count
<1>4. CASE cmd.type \in {"RD", "RDA"} /\ LPDDR4!handleData(cmd, "read")
  <2>1. IsDataCommand(cmd) /\ Direction(cmd) = "read"
    BY <1>4 DEF IsDataCommand, Direction
  <2> QED BY <1>2, <1>3, <1>4, <2>1 DEF StrobesOf
<1>5. CASE cmd.type \in {"WR", "WRA"} /\ LPDDR4!handleData(cmd, "write")
  <2>1. IsDataCommand(cmd) /\ Direction(cmd) = "write"
    BY <1>5 DEF IsDataCommand, Direction
  <2> QED BY <1>2, <1>3, <1>5, <2>1 DEF StrobesOf
<1>6. CASE cmd.type \notin {"RD", "RDA", "WR", "WRA"} /\ LPDDR4!busCommand(cmd, LPDDR4!Encode(encoder, cmd))
  BY <1>6 DEF LPDDR4!busCommand, LPDDR4!strobes, IsDataCommand, StrobesOf
<1>7. CASE cmd.type = "END_OF_SIMULATION" /\ LPDDR4!endOfSimulation(cmd.time, LPDDR4!Config)
  BY <1>7 DEF LPDDR4!endOfSimulation, LPDDR4!strobes, IsDataCommand, StrobesOf
<1>8. CASE cmd.type \in LPDDR4!PowerDowns /\ now' = cmd.time /\ UNCHANGED LPDDR4!strobes
  BY <1>8 DEF LPDDR4!PowerDowns, LPDDR4!strobes, IsDataCommand, StrobesOf
<1> QED BY <1>4, <1>5, <1>6, <1>7, <1>8 DEF LPDDR4!doCommand

LEMMA LPDDR5Strobes ==
    ASSUME NEW cmd, standard = "LPDDR5", LPDDR5!doCommand(cmd)
    PROVE  StrobesOf(cmd)
<1>1. DataRate = 2 /\ DqsRate = IF standard = "DDR5" THEN dqsBusRate ELSE 2
  BY InterfaceAssumptions DEF InterfaceAssumptions, DDR4!InterfaceAssumption, DqsRate
<1>2. HasWck /\ BeatsOf(cmd) = LPDDR5!length(cmd)
  BY DEF HasWck, BeatsOf, LPDDR5!length
<1>3. ASSUME NEW d, LPDDR5!handleData(cmd, d)
      PROVE  /\ now' = cmd.time
             /\ wck' = IF WckAlwaysOn THEN wck
                       ELSE Ran(wck, cmd.time, BeatsOf(cmd) \div 2, WckRate)
             /\ d = "read" => dqs' = [dqs EXCEPT ![d] = Ran(@, cmd.time, BeatsOf(cmd) \div 2, DqsRate)]
             /\ d # "read" => dqs' = dqs
  <2>1. now' = cmd.time
    BY <1>3 DEF LPDDR5!handleData, LPDDR5!loadData, LPDDR5!Load
  <2>2. wck' = IF WckAlwaysOn THEN wck
               ELSE Ran(wck, cmd.time, BeatsOf(cmd) \div 2, WckRate)
    BY <1>1, <1>2, <1>3
       DEF LPDDR5!handleData, LPDDR5!handleWck, LPDDR5!Strobed, LPDDR5!stop, LPDDR5!start,
           LPDDR5!count, Ran, stop, start, count
  <2>3. IF d = "read" THEN LPDDR5!handleDQs(cmd.time, d, BeatsOf(cmd)) ELSE dqs' = dqs
    BY <1>2, <1>3 DEF LPDDR5!handleData
  <2>4. d = "read" => dqs' = [dqs EXCEPT ![d] = Ran(@, cmd.time, BeatsOf(cmd) \div 2, DqsRate)]
    BY <1>1, <2>3
       DEF LPDDR5!handleDQs, LPDDR5!Strobed, LPDDR5!stop, LPDDR5!start, LPDDR5!count, Ran, stop, start,
           count
  <2> QED BY <2>1, <2>2, <2>3, <2>4
<1>4. CASE cmd.type \in {"RD", "RDA"} /\ LPDDR5!handleData(cmd, "read")
  <2>1. IsDataCommand(cmd) /\ Direction(cmd) = "read"
    BY <1>4 DEF IsDataCommand, Direction
  <2> QED BY <1>2, <1>3, <1>4, <2>1 DEF StrobesOf
<1>5. CASE cmd.type \in {"WR", "WRA"} /\ LPDDR5!handleData(cmd, "write")
  <2>1. IsDataCommand(cmd) /\ Direction(cmd) = "write"
    BY <1>5 DEF IsDataCommand, Direction
  <2> QED BY <1>2, <1>3, <1>5, <2>1 DEF StrobesOf
<1>6. CASE cmd.type \notin {"RD", "RDA", "WR", "WRA"} /\ LPDDR5!busCommand(cmd, LPDDR5!Encode(encoder, cmd))
  BY <1>6 DEF LPDDR5!busCommand, LPDDR5!strobes, IsDataCommand, StrobesOf
<1>7. CASE cmd.type = "END_OF_SIMULATION" /\ LPDDR5!endOfSimulation(cmd.time, LPDDR5!Config)
  BY <1>7 DEF LPDDR5!endOfSimulation, LPDDR5!strobes, IsDataCommand, StrobesOf
<1> QED BY <1>4, <1>5, <1>6, <1>7 DEF LPDDR5!doCommand

LEMMA LPDDR6Strobes ==
    ASSUME NEW cmd, standard = "LPDDR6", LPDDR6!doCommand(cmd)
    PROVE  StrobesOf(cmd)
<1>1. DataRate = 2 /\ DqsRate = IF standard = "DDR5" THEN dqsBusRate ELSE 2
  BY InterfaceAssumptions DEF InterfaceAssumptions, DDR4!InterfaceAssumption, DqsRate
<1>2. HasWck /\ BeatsOf(cmd) = LPDDR6!formattedLength(cmd)
  BY DEF HasWck, BeatsOf, LPDDR6!formattedLength, LPDDR6!ShortBurst
<1>3. ASSUME NEW d, LPDDR6!handleData(cmd, d)
      PROVE  /\ now' = cmd.time
             /\ wck' = IF WckAlwaysOn THEN wck
                       ELSE Ran(wck, cmd.time, BeatsOf(cmd) \div 2, WckRate)
             /\ d = "read" => dqs' = [dqs EXCEPT ![d] = Ran(@, cmd.time, BeatsOf(cmd) \div 2, DqsRate)]
             /\ d # "read" => dqs' = dqs
  <2>1. now' = cmd.time
    BY <1>3 DEF LPDDR6!handleData, LPDDR6!loadData, LPDDR6!Load
  <2>2. wck' = IF WckAlwaysOn THEN wck
               ELSE Ran(wck, cmd.time, BeatsOf(cmd) \div 2, WckRate)
    BY <1>1, <1>2, <1>3
       DEF LPDDR6!handleData, LPDDR6!handleWck, LPDDR6!Strobed, LPDDR6!stop, LPDDR6!start,
           LPDDR6!count, Ran, stop, start, count
  <2>3. IF d = "read" THEN LPDDR6!handleDQs(cmd.time, d, BeatsOf(cmd)) ELSE dqs' = dqs
    BY <1>2, <1>3 DEF LPDDR6!handleData
  <2>4. d = "read" => dqs' = [dqs EXCEPT ![d] = Ran(@, cmd.time, BeatsOf(cmd) \div 2, DqsRate)]
    BY <1>1, <2>3
       DEF LPDDR6!handleDQs, LPDDR6!Strobed, LPDDR6!stop, LPDDR6!start, LPDDR6!count, Ran, stop, start,
           count
  <2> QED BY <2>1, <2>2, <2>3, <2>4
<1>4. CASE cmd.type \in {"RD", "RDA"} /\ LPDDR6!handleData(cmd, "read")
  <2>1. IsDataCommand(cmd) /\ Direction(cmd) = "read"
    BY <1>4 DEF IsDataCommand, Direction
  <2> QED BY <1>2, <1>3, <1>4, <2>1 DEF StrobesOf
<1>5. CASE cmd.type \in {"WR", "WRA"} /\ LPDDR6!handleData(cmd, "write")
  <2>1. IsDataCommand(cmd) /\ Direction(cmd) = "write"
    BY <1>5 DEF IsDataCommand, Direction
  <2> QED BY <1>2, <1>3, <1>5, <2>1 DEF StrobesOf
<1>6. CASE cmd.type \notin {"RD", "RDA", "WR", "WRA"} /\ LPDDR6!busCommand(cmd, LPDDR6!Encode(encoder, cmd))
  BY <1>6 DEF LPDDR6!busCommand, LPDDR6!strobes, IsDataCommand, StrobesOf
<1>7. CASE cmd.type = "END_OF_SIMULATION" /\ LPDDR6!endOfSimulation(cmd.time, LPDDR6!NoWidth)
  BY <1>7 DEF LPDDR6!endOfSimulation, LPDDR6!strobes, IsDataCommand, StrobesOf
<1> QED BY <1>4, <1>5, <1>6, <1>7 DEF LPDDR6!doCommand

\* A command of any standard.
LEMMA CommandStrobes ==
    ASSUME NEW cmd, doCommand(cmd)
    PROVE  StrobesOf(cmd)
BY DDR4Strobes, DDR5Strobes, LPDDR4Strobes, LPDDR5Strobes, LPDDR6Strobes DEF doCommand

\* The switches leave the strobes alone.
LEMMA SwitchStrobes ==
    ASSUME MCSwitch
    PROVE  UNCHANGED <<now, dqs, wck, access, standard, sent>>
<1>1. CASE \E on : DDR4!enableDBI(on)
  BY <1>1 DEF MCSwitch, DDR4!enableDBI, DDR4!strobes
<1>2. CASE \E metaData : LPDDR6!setMetaData(metaData)
  BY <1>2 DEF MCSwitch, LPDDR6!setMetaData, LPDDR6!strobes
<1> QED BY <1>1, <1>2 DEF MCSwitch

\* A restore makes new clocks of the old ones.
LEMMA RestoreStrobes ==
    ASSUME MCRestore
    PROVE  /\ UNCHANGED <<now, access, standard, sent>>
           /\ dqs' = [d \in Dirs |-> RestoredClock(NewClock(TRUE), dqs[d])]
           /\ wck' = RestoredClock(NewClock(~WckAlwaysOn), wck)
<1>1. CASE DDR4!Restore
  BY <1>1 DEF MCRestore, DDR4!Restore, DDR4!RestoreLines, DDR4!RestoreDataBus, DDR4!RestoredClock,
              DDR4!NewClock, RestoredClock, NewClock
<1>2. CASE DDR5!Restore
  BY <1>2 DEF MCRestore, DDR5!Restore, DDR5!RestoreWithoutDBI, DDR5!RestoreLines,
              DDR5!RestoreDataBus, DDR5!RestoredClock, DDR5!NewClock, RestoredClock, NewClock
<1>3. CASE LPDDR4!Restore
  BY <1>3 DEF MCRestore, LPDDR4!Restore, LPDDR4!RestoreWithoutDBI, LPDDR4!RestoreLines,
              LPDDR4!RestoreDataBus, LPDDR4!RestoredClock, LPDDR4!NewClock, RestoredClock, NewClock
<1>4. CASE LPDDR5!Restore
  BY <1>4 DEF MCRestore, LPDDR5!Restore, LPDDR5!RestoreWithoutDBI, LPDDR5!RestoreLines,
              LPDDR5!RestoreDataBus, LPDDR5!RestoredClock, LPDDR5!NewClock, RestoredClock, NewClock
<1>5. CASE LPDDR6!Restore
  BY <1>5 DEF MCRestore, LPDDR6!Restore, LPDDR6!RestoreWithoutDBI, LPDDR6!RestoreLines,
              LPDDR6!RestoreDataBus, LPDDR6!RestoredClock, LPDDR6!NewClock, RestoredClock, NewClock
<1> QED BY <1>1, <1>2, <1>3, <1>4, <1>5 DEF MCRestore

\* At first.
LEMMA InitStrobes ==
    ASSUME MCInit
    PROVE  /\ now = 0 /\ sent = <<>> /\ standard \in Standards
           /\ dqs = [d \in Dirs |-> NewClock(TRUE)] /\ wck = NewClock(~WckAlwaysOn)
           /\ access = [r \in Ranks |-> [d \in Dirs |-> [end |-> 0, seamless |-> 0]]]
<1>1. CASE DDR4!DDR4Init
  BY <1>1 DEF MCInit, DDR4!DDR4Init, DDR4!InterfaceInit, DDR4!DataBusInit, DDR4!NewClock, NewClock
<1>2. CASE DDR5!DDR5Init
  BY <1>2 DEF MCInit, DDR5!DDR5Init, DDR5!InterfaceInit, DDR5!DataBusInit, DDR5!NewClock, NewClock
<1>3. CASE LPDDR4!LPDDR4Init
  BY <1>3 DEF MCInit, LPDDR4!LPDDR4Init, LPDDR4!InterfaceInit, LPDDR4!DataBusInit, LPDDR4!NewClock, NewClock
<1>4. CASE LPDDR5!LPDDR5Init
  BY <1>4 DEF MCInit, LPDDR5!LPDDR5Init, LPDDR5!InterfaceInit, LPDDR5!DataBusInit, LPDDR5!NewClock, NewClock
<1>5. CASE LPDDR6!LPDDR6Init
  BY <1>5 DEF MCInit, LPDDR6!LPDDR6Init, LPDDR6!InterfaceInit, LPDDR6!DataBusInit, LPDDR6!NewClock, NewClock
<1> QED BY <1>1, <1>2, <1>3, <1>4, <1>5 DEF MCInit

\* What the statistics say of the strobes.
LEMMA WindowStrobes ==
    ASSUME NEW t, standard \in {"DDR4", "DDR5", "LPDDR4", "LPDDR5", "LPDDR6"}
    PROVE  /\ Window(t).dqs = [d \in Dirs |-> PeriodStats(PeriodsAt(dqs[d], t, DqsRate))]
           /\ Window(t).wck = PeriodStats(PeriodsAt(wck, t, WckRate))
<1>0. DataRate = 2 /\ DqsRate = IF standard = "DDR5" THEN dqsBusRate ELSE 2
  BY InterfaceAssumptions DEF InterfaceAssumptions, DDR4!InterfaceAssumption, DqsRate
<1>1. CASE standard = "DDR4"
  BY <1>0, <1>1 DEF Window, DDR4!WindowStats, DDR4!ClockStats, PeriodStats, ClockStats, DDR4!PeriodsAt, PeriodsAt,
              DDR4!count, count
<1>2. CASE standard = "DDR5"
  BY <1>0, <1>2 DEF Window, DDR5!WindowStats, DDR5!ClockStats, PeriodStats, ClockStats, DDR5!PeriodsAt, PeriodsAt,
              DDR5!count, count
<1>3. CASE standard = "LPDDR4"
  BY <1>0, <1>3 DEF Window, LPDDR4!WindowStats, LPDDR4!ClockStats, PeriodStats, ClockStats, LPDDR4!PeriodsAt,
              PeriodsAt,
              LPDDR4!count, count
<1>4. CASE standard = "LPDDR5"
  BY <1>0, <1>4 DEF Window, LPDDR5!WindowStats, LPDDR5!ClockStats, PeriodStats, ClockStats, LPDDR5!PeriodsAt,
              PeriodsAt,
              LPDDR5!count, count
<1>5. CASE standard = "LPDDR6"
  BY <1>0, <1>5 DEF Window, LPDDR6!WindowStats, LPDDR6!ClockStats, PeriodStats, ClockStats, LPDDR6!PeriodsAt,
              PeriodsAt,
              LPDDR6!count, count
<1> QED BY <1>1, <1>2, <1>3, <1>4, <1>5
-----------------------------------------------------------------------------
(* Clocks, and the sums of what they run for                               *)

Adds(p, q, r) == r = p + q
SumTo(a, n) == Total(a, 1, n + 1)
Agree(a, b, n) == \A i \in 1..n : a[i] = b[i]

LEMMA RanIs ==
    ASSUME NEW c \in ClockSet, NEW t \in Nat, NEW n \in Nat, NEW rate \in Nat, ~c.running
    PROVE  /\ Ran(c, t, n, rate) \in ClockSet /\ ~Ran(c, t, n, rate).running
           /\ Adds(c.periods, count(n, rate), Ran(c, t, n, rate).periods)
<1>1. t + n - t = n /\ n * rate \in Nat /\ (n * rate) \div 2 \in Nat
  OBVIOUS
<1>2. start(c, t) \in ClockSet /\ start(c, t).last_start = t /\ start(c, t).periods = c.periods
  BY DEF start, ClockSet
<1> DEFINE s == start(c, t)
           more == (n * rate) \div 2
<1>3. s \in ClockSet /\ s.last_start = t /\ s.periods = c.periods /\ more \in Nat
  BY <1>1, <1>2
<1>4. count((t + n) - t, rate) = more
  BY <1>1 DEF count
<1> HIDE DEF s, more
<1>5. DOMAIN s = {"running", "last_start", "periods"}
  BY <1>3 DEF ClockSet
<1>6. stop(s, t + n, rate).running = FALSE /\ stop(s, t + n, rate).last_start = t
  BY <1>3, <1>5 DEF stop
<1>7. stop(s, t + n, rate).periods = c.periods + more
  BY <1>3, <1>4, <1>5 DEF stop
<1>8. stop(s, t + n, rate) \in ClockSet
  <2> DEFINE k == count((t + n) - s.last_start, rate)
  <2>1. k \in Nat
    BY <1>3, <1>4
  <2> HIDE DEF k
  <2> DEFINE u == [s EXCEPT !.running = FALSE]
             v == [u EXCEPT !.periods = s.periods + k]
  <2>2. u \in ClockSet
    BY <1>3 DEF ClockSet
  <2>3. s.periods + k \in Nat
    <3>1. s.periods \in Nat
      BY <1>3 DEF ClockSet
    <3> QED BY <2>1, <3>1
  <2> HIDE DEF u
  <2>4. v \in ClockSet
    BY <2>2, <2>3 DEF ClockSet
  <2>5. stop(s, t + n, rate) = v
    BY DEF stop, k, u
  <2> QED BY <2>4, <2>5
<1>9. more = count(n, rate)
  BY DEF more, count
<1> QED BY <1>6, <1>7, <1>8, <1>9 DEF s, Ran, Adds

LEMMA NewClockIs ==
    ASSUME NEW stopped \in BOOLEAN
    PROVE  /\ NewClock(stopped) \in ClockSet /\ NewClock(stopped).running = ~stopped
           /\ NewClock(stopped).last_start = 0 /\ NewClock(stopped).periods = 0
BY DEF NewClock, ClockSet

LEMMA RestoredIs ==
    ASSUME NEW c \in ClockSet, NEW stopped \in BOOLEAN
    PROVE  /\ RestoredClock(NewClock(stopped), c) \in ClockSet
           /\ RestoredClock(NewClock(stopped), c).running = c.running
           /\ c.running => RestoredClock(NewClock(stopped), c).last_start = c.last_start
           /\ RestoredClock(NewClock(stopped), c).periods = c.periods
BY DEF RestoredClock, NewClock, ClockSet

LEMMA ClockStatsAre ==
    ASSUME NEW n \in Nat
    PROVE  /\ ClockStats(n) \in Stats /\ DDR4!ClockStats(n) = ClockStats(n)
           /\ ClockStats(0) = NoStats
BY DEF ClockStats, DDR4!ClockStats, Stats, NoStats

LEMMA ClockStatsAdd ==
    ASSUME NEW m \in Nat, NEW n \in Nat
    PROVE  Plus(ClockStats(2 * m), ClockStats(2 * n)) = ClockStats(2 * (m + n))
<1>1. 2 * m \in Nat /\ 2 * n \in Nat /\ 2 * (m + n) = 2 * m + 2 * n
  OBVIOUS
<1> QED BY <1>1 DEF ClockStats, Plus, NoStats

LEMMA Appended ==
    ASSUME NEW s, NEW e, IsSequence(s)
    PROVE  /\ IsSequence(Append(s, e)) /\ Len(s) \in Nat /\ Len(Append(s, e)) = Len(s) + 1
           /\ DOMAIN s = 1..Len(s) /\ DOMAIN Append(s, e) = 1..(Len(s) + 1)
           /\ Append(s, e)[Len(s) + 1] = e
           /\ \A i \in 1..Len(s) : Append(s, e)[i] = s[i]
<1>1. PICK S : s \in Seq(S)
  BY DEF IsSequence
<1>2. s \in Seq(S \cup {e}) /\ e \in S \cup {e}
  BY <1>1
<1>3. Append(s, e) \in Seq(S \cup {e})
  BY <1>2
<1> QED BY <1>2, <1>3 DEF IsSequence

\* One more command adds its own statistics to the sum.
LEMMA SumOfOneMore ==
    ASSUME NEW n \in Nat, NEW a, NEW b, Agree(a, b, n), NEW m, Adds(n, 1, m)
    PROVE  SumTo(b, m) = Plus(SumTo(a, n), b[m])
<1>1. m = n + 1 /\ 1 \in Nat /\ n + 1 \in Nat /\ 1 <= n + 1 /\ (n + 1) - 1 = n
  BY DEF Adds
<1>2. Total(b, 1, m + 1) = Plus(Total(b, 1, m), b[m])
  BY <1>1, TotalSteps
<1>3. Total(a, 1, m) = Total(b, 1, m)
  <2>1. \A i \in 1..(m - 1) : a[i] = b[i]
    BY <1>1 DEF Agree
  <2> QED BY <1>1, <2>1, TotalAgrees
<1> QED BY <1>1, <1>2, <1>3 DEF SumTo

-----------------------------------------------------------------------------
(* The strobes and the write clock                                         *)

\* What the sums are made of.
StrobeRuns(d) ==
    [i \in Nat |-> IF i \in (IF d = "read" \/ ~HasWck THEN SentIn(d) ELSE {})
                   THEN DDR4!ClockStats(StrobeHalves(sent[i].cmd)) ELSE NoStats]
WckRuns ==
    [i \in Nat |-> IF i \in (IF HasWck THEN {k \in DOMAIN sent : IsDataCommand(sent[k].cmd)} ELSE {})
                   THEN DDR4!ClockStats(WckHalves(sent[i].cmd)) ELSE NoStats]

\* Between commands the strobes stand still, having run for the bursts so far;
\* a write clock that is always on has run from the start.
StrobesInv ==
    /\ now \in Nat /\ IsSequence(sent)
    /\ standard \in {"DDR4", "DDR5", "LPDDR4", "LPDDR5", "LPDDR6"}
    /\ dqs \in [Dirs -> ClockSet] /\ wck \in ClockSet
    /\ \A d \in Dirs : /\ ~dqs[d].running
                       /\ SumTo(StrobeRuns(d), Len(sent)) = PeriodStats(dqs[d].periods)
    /\ IF WckAlwaysOn THEN wck.running /\ wck.last_start = 0 /\ wck.periods = 0
       ELSE ~wck.running /\ SumTo(WckRuns, Len(sent)) = PeriodStats(wck.periods)

LEMMA StrobesInvCounts ==
    ASSUME StrobesInv
    PROVE  StrobesCounted
<1> SUFFICES ASSUME NEW t \in Askable
             PROVE  /\ \A d \in Dirs : Window(t).dqs[d] = StrobeWave(d)
                    /\ Window(t).wck = WckWave(t)
  BY DEF StrobesCounted
<1>1. t \in Nat
  BY DEF StrobesInv, Askable
<1>6. standard \in {"DDR4", "DDR5", "LPDDR4", "LPDDR5", "LPDDR6"}
  BY DEF StrobesInv
<1>7. /\ Window(t).dqs = [d \in Dirs |-> PeriodStats(PeriodsAt(dqs[d], t, DqsRate))]
      /\ Window(t).wck = PeriodStats(PeriodsAt(wck, t, WckRate))
  BY <1>6, WindowStrobes
<1>2. ASSUME NEW d \in Dirs
      PROVE  Window(t).dqs[d] = StrobeWave(d)
  <2>1. StrobeWave(d) = SumTo(StrobeRuns(d), Len(sent))
    BY DEF StrobeWave, RunFor, StrobeRuns, SumTo
  <2>2. PeriodsAt(dqs[d], t, DqsRate) = dqs[d].periods + 0 /\ dqs[d].periods \in Nat
    BY DEF StrobesInv, PeriodsAt, ClockSet
  <2>3. Window(t).dqs[d] = PeriodStats(PeriodsAt(dqs[d], t, DqsRate))
    BY <1>7
  <2>4. PeriodsAt(dqs[d], t, DqsRate) = dqs[d].periods
    BY <2>2
  <2>5. SumTo(StrobeRuns(d), Len(sent)) = PeriodStats(dqs[d].periods)
    BY DEF StrobesInv
  <2> QED BY <2>1, <2>3, <2>4, <2>5
<1>3. Window(t).wck = PeriodStats(PeriodsAt(wck, t, WckRate))
  BY <1>7
<1>4. CASE WckAlwaysOn
  <2>1. WckRate \in Nat
    BY InterfaceAssumptions DEF InterfaceAssumptions
  <2>2. t - 0 = t /\ (t * WckRate) \div 2 \in Nat
    BY <1>1, <2>1
  <2>3. PeriodsAt(wck, t, WckRate) = 0 + (t * WckRate) \div 2
    BY <1>4, <2>2 DEF StrobesInv, PeriodsAt, count
  <2>4. WckWave(t) = ClockStats(2 * ((t * WckRate) \div 2))
    BY <1>4 DEF WckWave, ClockStats, DDR4!ClockStats
  <2>6. PeriodStats((t * WckRate) \div 2) = ClockStats(2 * ((t * WckRate) \div 2))
    BY DEF PeriodStats
  <2>5. 0 + (t * WckRate) \div 2 = (t * WckRate) \div 2
    BY <2>2
  <2> QED BY <1>2, <1>3, <2>3, <2>4, <2>5, <2>6
<1>5. CASE ~WckAlwaysOn
  <2>1. WckWave(t) = SumTo(WckRuns, Len(sent))
    BY <1>5 DEF WckWave, RunFor, WckRuns, SumTo
  <2>2. PeriodsAt(wck, t, WckRate) = wck.periods + 0 /\ wck.periods \in Nat
    BY <1>5 DEF StrobesInv, PeriodsAt, ClockSet
  <2>3. PeriodsAt(wck, t, WckRate) = wck.periods
    BY <2>2
  <2>4. SumTo(WckRuns, Len(sent)) = PeriodStats(wck.periods)
    BY <1>5 DEF StrobesInv
  <2> QED BY <1>2, <1>3, <2>1, <2>3, <2>4
<1> QED BY <1>4, <1>5

LEMMA InitStrobesInv ==
    ASSUME MCInit
    PROVE  StrobesInv
<1>1. now \in Nat /\ IsSequence(sent) /\ Len(sent) = 0
  <2>1. sent = <<>> /\ <<>> \in Seq({})
    BY InitStrobes
  <2> QED BY <2>1, InitStrobes DEF IsSequence
<1>2. standard \in {"DDR4", "DDR5", "LPDDR4", "LPDDR5", "LPDDR6"}
  BY DEF MCInit
<1>3. dqs \in [Dirs -> ClockSet] /\ \A d \in Dirs : ~dqs[d].running /\ dqs[d].periods = 0
  BY InitStrobes, NewClockIs
<1>4. /\ wck \in ClockSet /\ wck.last_start = 0 /\ wck.periods = 0
      /\ wck.running <=> WckAlwaysOn
  <2>1. WckAlwaysOn \in BOOLEAN
    BY InterfaceAssumptions DEF InterfaceAssumptions
  <2>2. wck = NewClock(~WckAlwaysOn)
    BY InitStrobes
  <2> QED BY <2>1, <2>2, NewClockIs
<1>5. \A a : SumTo(a, Len(sent)) = PeriodStats(0)
  <2>1. Len(sent) + 1 = 1 /\ 1 \in Nat /\ 2 * 0 = 0
    BY <1>1
  <2> QED BY <2>1, TotalSteps, ClockStatsAre DEF PeriodStats, SumTo
<1>6. \A d \in Dirs : SumTo(StrobeRuns(d), Len(sent)) = PeriodStats(dqs[d].periods)
  BY <1>3, <1>5
<1>7. SumTo(WckRuns, Len(sent)) = PeriodStats(wck.periods)
  BY <1>4, <1>5
<1> QED BY <1>1, <1>2, <1>3, <1>4, <1>6, <1>7 DEF StrobesInv

LEMMA BeatsTyped ==
    ASSUME NEW cmd, Len(cmd.data) \in Nat
    PROVE  BeatsOf(cmd) \in Nat /\ BeatsOf(cmd) \div 2 \in Nat
<1>1. Width \in Nat \ {0} /\ LPDDR6!EntriesPerBurst \in Nat \ {0}
  BY InterfaceAssumptions DEF InterfaceAssumptions
<1> DEFINE n == Len(cmd.data)
           w == Width
           x == LPDDR6!EntriesPerBurst
<1>2. n \div w \in Nat /\ (n \div x) * 4 \in Nat
  <2>1. n \in Nat /\ w \in Nat \ {0} /\ x \in Nat \ {0}
    BY <1>1
  <2> HIDE DEF n, w, x
  <2> QED BY <2>1
<1>3. BeatsOf(cmd) \in Nat
  BY <1>2 DEF BeatsOf
<1> QED BY <1>3

\* A burst adds the same to a clock and to the sum of what it runs for.
LEMMA RunAdds ==
    ASSUME NEW n \in Nat, NEW a, NEW b, Agree(a, b, n), NEW m, Adds(n, 1, m),
           NEW p \in Nat, NEW q \in Nat, NEW r, Adds(p, q, r),
           SumTo(a, n) = PeriodStats(p), b[m] = PeriodStats(q)
    PROVE  SumTo(b, m) = PeriodStats(r)
<1>1. SumTo(b, m) = Plus(PeriodStats(p), PeriodStats(q))
  BY SumOfOneMore
<1> QED BY <1>1, ClockStatsAdd DEF PeriodStats, Adds

LEMMA CommandStrobesInv ==
    ASSUME StrobesInv, NEW cmd, Sendable(cmd), doCommand(cmd), UNCHANGED standard,
           NEW e, e.cmd = cmd, sent' = Append(sent, e)
    PROVE  StrobesInv'
<1> DEFINE n == Len(sent)
           m == Len(sent')
           k == BeatsOf(cmd) \div 2
<1>1. /\ n \in Nat /\ DOMAIN sent = 1..n /\ DOMAIN sent' = 1..m
      /\ sent'[m] = e /\ \A i \in 1..n : sent'[i] = sent[i]
      /\ m = n + 1 /\ IsSequence(sent')
  <2>1. IsSequence(sent)
    BY DEF StrobesInv
  <2>2. /\ Len(sent) \in Nat /\ DOMAIN sent = 1..Len(sent) /\ DOMAIN sent' = 1..(Len(sent) + 1)
        /\ sent'[Len(sent) + 1] = e /\ \A i \in 1..Len(sent) : sent'[i] = sent[i]
        /\ Len(sent') = Len(sent) + 1 /\ IsSequence(sent')
    BY <2>1, Appended
  <2> QED BY <2>2
<1>0. Adds(n, 1, m)
  BY <1>1 DEF Adds
<1>2. k \in Nat /\ cmd.time \in Nat /\ WckRate \in Nat /\ DqsRate \in Nat
  BY BeatsTyped, InterfaceAssumptions DEF Sendable, InterfaceAssumptions, DqsRate
<1>3. StrobesOf(cmd)
  BY CommandStrobes
<1>4. HasWck' = HasWck /\ DqsRate' = DqsRate /\ \A c : BeatsOf(c)' = BeatsOf(c)
  BY DEF HasWck, DqsRate, BeatsOf
<1>5. ASSUME NEW d \in Dirs
      PROVE  /\ dqs'[d] \in ClockSet /\ ~dqs'[d].running
             /\ SumTo(StrobeRuns(d)', m) = PeriodStats(dqs'[d].periods)
  <2> DEFINE a == StrobeRuns(d)
             b == StrobeRuns(d)'
             p == dqs[d].periods
             q == count(k, DqsRate)
  <2>1. Agree(a, b, n)
    BY <1>1, <1>4 DEF Agree, StrobeRuns, StrobeHalves, SentIn, IsDataCommand, Direction, DDR4!ClockStats
  <2>2. p \in Nat /\ SumTo(a, n) = PeriodStats(p) /\ ~dqs[d].running /\ dqs[d] \in ClockSet
    BY DEF StrobesInv, ClockSet
  <2>3. CASE IsDataCommand(cmd) /\ Direction(cmd) = d /\ (d = "read" \/ ~HasWck)
    <3>1. dqs'[d] = Ran(dqs[d], cmd.time, k, DqsRate)
      BY <1>3, <2>3 DEF StrobesOf, StrobesInv
    <3>2. /\ dqs'[d] \in ClockSet /\ ~dqs'[d].running /\ Adds(p, q, dqs'[d].periods)
      <4> HIDE DEF k
      <4> QED BY <1>2, <2>2, <3>1, RanIs
    <3>3. q \in Nat
      BY <1>2 DEF count
    <3>4. m \in SentIn(d)'
      BY <1>1, <2>3 DEF SentIn, IsDataCommand, Direction
    <3>5. b[m] = DDR4!ClockStats(2 * q)
      BY <1>1, <1>4, <2>3, <3>4 DEF StrobeRuns, StrobeHalves, DDR4!ClockStats, count
    <3> HIDE DEF q
    <3>6. b[m] = PeriodStats(q)
      BY <3>3, <3>5 DEF PeriodStats, ClockStats, DDR4!ClockStats
    <3> DEFINE sum == dqs'[d].periods
    <3>8. Adds(p, q, sum)
      BY <3>2
    <3> HIDE DEF a, b, p, n, m, sum
    <3>7. SumTo(b, m) = PeriodStats(sum)
      BY <1>0, <3>8, <1>1, <2>1, <2>2, <3>3, <3>6, RunAdds
    <3> QED BY <3>2, <3>7 DEF b, m, sum
  <2>4. CASE ~(IsDataCommand(cmd) /\ Direction(cmd) = d /\ (d = "read" \/ ~HasWck))
    <3>1. dqs'[d] = dqs[d]
      BY <1>3, <2>4 DEF StrobesOf, StrobesInv
    <3>2. b[m] = NoStats
      BY <1>1, <1>4, <2>4 DEF StrobeRuns, SentIn, IsDataCommand, Direction
    <3>3. b[m] = PeriodStats(0) /\ Adds(p, 0, p)
      BY <2>2, <3>2, ClockStatsAre DEF PeriodStats, Adds
    <3> HIDE DEF a, b, p, n, m
    <3>4. SumTo(b, m) = PeriodStats(p)
      BY <1>0, <1>1, <2>1, <2>2, <3>3, 0 \in Nat, RunAdds
    <3> QED BY <2>2, <3>1, <3>3, <3>4 DEF b, p, m
  <2> QED BY <2>3, <2>4
<1>6. dqs' \in [Dirs -> ClockSet]
  <2>1. DOMAIN dqs' = Dirs /\ dqs' = [d \in Dirs |-> dqs'[d]]
    BY <1>3 DEF StrobesOf, StrobesInv
  <2> QED BY <1>5, <2>1
<1>7. /\ wck' \in ClockSet
      /\ IF WckAlwaysOn THEN wck'.running /\ wck'.last_start = 0 /\ wck'.periods = 0
         ELSE ~wck'.running /\ SumTo(WckRuns', m) = PeriodStats(wck'.periods)
  <2> DEFINE a == WckRuns
             b == WckRuns'
             p == wck.periods
             q == count(k, WckRate)
  <2>0. CASE WckAlwaysOn
    BY <1>3, <2>0 DEF StrobesOf, StrobesInv
  <2>1. Agree(a, b, n)
    BY <1>1, <1>4 DEF Agree, WckRuns, WckHalves, IsDataCommand, DDR4!ClockStats
  <2>2. ASSUME ~WckAlwaysOn
        PROVE  p \in Nat /\ SumTo(a, n) = PeriodStats(p) /\ ~wck.running /\ wck \in ClockSet
    BY <2>2 DEF StrobesInv, ClockSet
  <2>3. CASE IsDataCommand(cmd) /\ HasWck /\ ~WckAlwaysOn
    <3>1. wck' = Ran(wck, cmd.time, k, WckRate)
      BY <1>3, <2>3 DEF StrobesOf
    <3>2. /\ wck' \in ClockSet /\ ~wck'.running /\ Adds(p, q, wck'.periods)
      BY <1>2, <2>2, <2>3, <3>1, RanIs
    <3>3. q \in Nat
      BY <1>2 DEF count
    <3>4. b[m] = DDR4!ClockStats(2 * q)
      BY <1>1, <1>4, <2>3 DEF WckRuns, WckHalves, DDR4!ClockStats, count
    <3> HIDE DEF q
    <3>5. b[m] = PeriodStats(q)
      BY <3>3, <3>4 DEF PeriodStats, ClockStats, DDR4!ClockStats
    <3> DEFINE sum == wck'.periods
    <3>7. Adds(p, q, sum)
      BY <3>2
    <3> HIDE DEF a, b, p, n, m, sum
    <3>6. SumTo(b, m) = PeriodStats(sum)
      BY <1>0, <3>7, <1>1, <2>1, <2>2, <2>3, <3>3, <3>5, RunAdds
    <3> QED BY <2>3, <3>2, <3>6 DEF b, m, sum
  <2>4. CASE ~(IsDataCommand(cmd) /\ HasWck) /\ ~WckAlwaysOn
    <3>1. wck' = wck
      BY <1>3, <2>4 DEF StrobesOf
    <3>2. b[m] = NoStats
      BY <1>1, <1>4, <2>4 DEF WckRuns
    <3>3. b[m] = PeriodStats(0) /\ Adds(p, 0, p)
      BY <2>2, <2>4, <3>2, ClockStatsAre DEF PeriodStats, Adds
    <3> HIDE DEF a, b, p, n, m
    <3>4. SumTo(b, m) = PeriodStats(p)
      BY <1>0, <1>1, <2>1, <2>2, <2>4, <3>3, 0 \in Nat, RunAdds
    <3> QED BY <2>2, <2>4, <3>1, <3>3, <3>4 DEF b, p, m
  <2> QED BY <2>0, <2>3, <2>4
<1>8. now' \in Nat
  BY <1>2, <1>3 DEF StrobesOf
<1> QED BY <1>1, <1>5, <1>6, <1>7, <1>8 DEF StrobesInv

LEMMA RestoreStrobesInv ==
    ASSUME StrobesInv, MCRestore
    PROVE  StrobesInv'
<1>1. /\ UNCHANGED <<now, standard, sent>>
      /\ dqs' = [d \in Dirs |-> RestoredClock(NewClock(TRUE), dqs[d])]
      /\ wck' = RestoredClock(NewClock(~WckAlwaysOn), wck)
  BY RestoreStrobes
<1>2. HasWck' = HasWck /\ DqsRate' = DqsRate /\ \A c : BeatsOf(c)' = BeatsOf(c)
  BY <1>1 DEF HasWck, DqsRate, BeatsOf
<1>3. (~WckAlwaysOn) \in BOOLEAN
  BY InterfaceAssumptions DEF InterfaceAssumptions
<1>4. \A d \in Dirs : dqs'[d] \in ClockSet /\ ~dqs'[d].running /\ dqs'[d].periods = dqs[d].periods
  BY <1>1, RestoredIs DEF StrobesInv
<1>5. /\ wck' \in ClockSet /\ wck'.running = wck.running /\ wck'.periods = wck.periods
      /\ wck.running => wck'.last_start = wck.last_start
  BY <1>1, <1>3, RestoredIs DEF StrobesInv
<1>6. \A d : StrobeRuns(d)' = StrobeRuns(d)
  BY <1>1, <1>2 DEF StrobeRuns, StrobeHalves, SentIn, IsDataCommand, Direction, DDR4!ClockStats
<1>7. WckRuns' = WckRuns
  BY <1>1, <1>2 DEF WckRuns, WckHalves, IsDataCommand, DDR4!ClockStats
<1>8. dqs' \in [Dirs -> ClockSet]
  BY <1>1, <1>4
<1> QED BY <1>1, <1>4, <1>5, <1>6, <1>7, <1>8 DEF StrobesInv

LEMMA SameStrobesInv ==
    ASSUME StrobesInv, UNCHANGED <<now, dqs, wck, standard, sent>>
    PROVE  StrobesInv'
<1>1. HasWck' = HasWck /\ DqsRate' = DqsRate /\ \A c : BeatsOf(c)' = BeatsOf(c)
  BY DEF HasWck, DqsRate, BeatsOf
<1>2. \A d : StrobeRuns(d)' = StrobeRuns(d)
  BY <1>1 DEF StrobeRuns, StrobeHalves, SentIn, IsDataCommand, Direction, DDR4!ClockStats
<1>3. WckRuns' = WckRuns
  BY <1>1 DEF WckRuns, WckHalves, IsDataCommand, DDR4!ClockStats
<1> QED BY <1>2, <1>3 DEF StrobesInv
-----------------------------------------------------------------------------
(* The steps, with any commands                                            *)

\* A command that is sent, a switch, a restore, or none.
Step ==
    \/ \E cmd : Sendable(cmd) /\ MCCommand(cmd)
    \/ MCSwitch
    \/ MCRestore
    \/ UNCHANGED mcVars

LEMMA StrobesStep ==
    ASSUME StrobesInv, Step
    PROVE  StrobesInv'
<1>1. ASSUME NEW cmd, Sendable(cmd), MCCommand(cmd)
      PROVE  StrobesInv'
  <2> DEFINE e == [cmd |-> cmd, dbi |-> DDR4!UsesDBI(cmd),
                   words |-> IF HasWords(cmd) THEN FreshWords(cmd) ELSE <<>>]
  <2>1. doCommand(cmd) /\ UNCHANGED standard /\ sent' = Append(sent, e)
    BY <1>1 DEF MCCommand
  <2>2. e.cmd = cmd
    OBVIOUS
  <2> HIDE DEF e
  <2> QED BY <1>1, <2>1, <2>2, CommandStrobesInv
<1>2. CASE MCSwitch
  BY <1>2, SwitchStrobes, SameStrobesInv
<1>3. CASE MCRestore
  BY <1>3, RestoreStrobesInv
<1>4. CASE UNCHANGED mcVars
  BY <1>4, SameStrobesInv DEF mcVars, interfaceVars, vars
<1> QED BY <1>1, <1>2, <1>3, <1>4 DEF Step

LEMMA FilledLength ==
    ASSUME NEW n \in Nat, NEW kind
    PROVE  Len(Filled(n, kind)) \in Nat
<1> DEFINE f == Filled(n, kind)
           S == {f[i] : i \in 1..n}
<1>1. f = [i \in 1..n |-> f[i]]
  BY DEF Filled
<1> HIDE DEF f
<1>2. f \in [1..n -> S]
  BY <1>1
<1>3. f \in Seq(S)
  BY <1>2
<1> QED BY <1>3 DEF f

\* The commands that TLC sends are such commands.
LEMMA CommandsSendable ==
    ASSUME NEW t \in Nat, NEW cmd \in Commands(t)
    PROVE  Sendable(cmd)
<1>1. Short \in Nat /\ 2 * Short \in Nat
  BY DEF Short
<1>2. \A type, r, data : Command(type, t, r, data).time = t /\ Command(type, t, r, data).data = data
  BY DEF Command
<1>3. Len(<<>>) \in Nat
  OBVIOUS
<1>4. \A type, r : Sendable(Command(type, t, r, <<>>))
  BY <1>2, <1>3 DEF Sendable
<1>5. \A type, r, kind : \A n \in {Short, 2 * Short} : Sendable(Command(type, t, r, Filled(n, kind)))
  BY <1>1, <1>2, FilledLength DEF Sendable
<1>6. \A c \in DataCommands(t) : Sendable(c)
  BY <1>4, <1>5 DEF DataCommands
<1> QED BY <1>4, <1>6 DEF Commands

LEMMA NextIsStep ==
    ASSUME now \in Nat, [MCNext]_mcVars
    PROVE  Step
<1>1. ASSUME NEW gap \in Gaps, NEW cmd \in Commands(now + gap), MCCommand(cmd)
      PROVE  Step
  <2>1. now + gap \in Nat
    BY DEF Gaps
  <2> QED BY <1>1, <2>1, CommandsSendable DEF Step
<1> QED BY <1>1 DEF MCNext, Step
-----------------------------------------------------------------------------
(* Bursts that follow each other at once                                   *)

\* What a command makes of where the bursts of DDR4 end.
AccessOf(cmd) ==
    LET d == Direction(cmd)
    IN  IF ~IsDataCommand(cmd) THEN access' = access
        ELSE /\ cmd.time >= access[cmd.rank][d].end
             /\ access' = [access EXCEPT ![cmd.rank][d] =
                    [end |-> cmd.time + BeatsOf(cmd) \div 2,
                     seamless |-> access[cmd.rank][d].seamless
                                     + (IF cmd.time = access[cmd.rank][d].end THEN 1 ELSE 0)]]

LEMMA DDR4Access ==
    ASSUME NEW cmd, standard = "DDR4", DDR4!doCommand(cmd)
    PROVE  AccessOf(cmd)
<1>1. DataRate = 2
  BY InterfaceAssumptions DEF InterfaceAssumptions, DDR4!InterfaceAssumption
<1>2. BeatsOf(cmd) = DDR4!length(cmd)
  BY DEF BeatsOf, DDR4!length
<1>3. ASSUME NEW d, DDR4!handleData(cmd, d)
      PROVE  /\ cmd.time >= access[cmd.rank][d].end
             /\ access' = [access EXCEPT ![cmd.rank][d] =
                    [end |-> cmd.time + BeatsOf(cmd) \div 2,
                     seamless |-> access[cmd.rank][d].seamless
                                     + (IF cmd.time = access[cmd.rank][d].end THEN 1 ELSE 0)]]
  BY <1>1, <1>2, <1>3 DEF DDR4!handleData, DDR4!handlePrePostamble
<1>4. CASE cmd.type \in {"RD", "RDA"} /\ DDR4!handleData(cmd, "read")
  <2>1. IsDataCommand(cmd) /\ Direction(cmd) = "read"
    BY <1>4 DEF IsDataCommand, Direction
  <2> QED BY <1>3, <1>4, <2>1 DEF AccessOf
<1>5. CASE cmd.type \in {"WR", "WRA"} /\ DDR4!handleData(cmd, "write")
  <2>1. IsDataCommand(cmd) /\ Direction(cmd) = "write"
    BY <1>5 DEF IsDataCommand, Direction
  <2> QED BY <1>3, <1>5, <2>1 DEF AccessOf
<1>6. CASE cmd.type \notin {"RD", "RDA", "WR", "WRA"} /\ DDR4!busCommand(cmd, DDR4!Encode(encoder, cmd))
  BY <1>6 DEF DDR4!busCommand, IsDataCommand, AccessOf
<1>7. CASE cmd.type = "END_OF_SIMULATION" /\ DDR4!endOfSimulation(cmd.time, DDR4!Config)
  BY <1>7 DEF DDR4!endOfSimulation, IsDataCommand, AccessOf
<1> QED BY <1>4, <1>5, <1>6, <1>7 DEF DDR4!doCommand

AccessSet == [end : Nat, seamless : Nat]

\* The last burst of a rank and direction ends where access says, and the
\* seamless ones are counted.
Followed(r, d) ==
    /\ \A k \in Own(r, d) : BurstEnd(sent[k].cmd) <= access[r][d].end
    /\ Own(r, d) = {} => access[r][d].end = 0
    /\ Own(r, d) # {} => \E k \in Own(r, d) : BurstEnd(sent[k].cmd) = access[r][d].end
    /\ access[r][d].seamless = Cardinality(SeamlessBursts(r, d))

SeamlessInv ==
    /\ IsSequence(sent)
    /\ \A i \in DOMAIN sent : Sendable(sent[i].cmd)
    /\ standard = "DDR4" =>
          /\ access \in [Ranks -> [Dirs -> AccessSet]]
          /\ \A r \in Ranks, d \in Dirs : Followed(r, d)

LEMMA BurstEndTyped ==
    ASSUME NEW cmd, Sendable(cmd)
    PROVE  cmd.time \in Nat /\ BurstEnd(cmd) \in Nat /\ BurstEnd(cmd) >= cmd.time
BY BeatsTyped DEF Sendable, BurstEnd

LEMMA CommandFollowed ==
    ASSUME SeamlessInv, standard = "DDR4", UNCHANGED standard,
           NEW cmd, Sendable(cmd), AccessOf(cmd),
           NEW e, e.cmd = cmd, sent' = Append(sent, e),
           NEW r \in Ranks, NEW d \in Dirs
    PROVE  access'[r][d] \in AccessSet /\ Followed(r, d)'
<1> DEFINE n == Len(sent)
           m == Len(sent')
           last == access[r][d]
<1>1. /\ n \in Nat /\ DOMAIN sent = 1..n /\ DOMAIN sent' = 1..m
      /\ sent'[m] = e /\ \A i \in 1..n : sent'[i] = sent[i]
      /\ m = n + 1
  <2>1. IsSequence(sent)
    BY DEF SeamlessInv
  <2>2. /\ Len(sent) \in Nat /\ DOMAIN sent = 1..Len(sent) /\ DOMAIN sent' = 1..(Len(sent) + 1)
        /\ sent'[Len(sent) + 1] = e /\ \A i \in 1..Len(sent) : sent'[i] = sent[i]
        /\ Len(sent') = Len(sent) + 1
    BY <2>1, Appended
  <2> QED BY <2>2
<1>2. \A c : BeatsOf(c)' = BeatsOf(c) /\ BurstEnd(c)' = BurstEnd(c)
  BY DEF BeatsOf, BurstEnd
<1>3. last \in AccessSet /\ Followed(r, d)
  BY DEF SeamlessInv
<1>4. last.end \in Nat /\ last.seamless \in Nat
  BY <1>3 DEF AccessSet
<1>5. \A i \in 1..n : /\ sent[i].cmd.time \in Nat /\ BurstEnd(sent[i].cmd) \in Nat
                      /\ BurstEnd(sent[i].cmd) >= sent[i].cmd.time
  BY <1>1, BurstEndTyped DEF SeamlessInv
<1>6. cmd.time \in Nat /\ BurstEnd(cmd) \in Nat /\ BurstEnd(cmd) >= cmd.time
  BY BurstEndTyped
<1>7. Own(r, d) \subseteq 1..n
  BY <1>1 DEF Own, SentIn
<1>8. CASE IsDataCommand(cmd) /\ Direction(cmd) = d /\ cmd.rank = r
  <2>1. Own(r, d)' = Own(r, d) \cup {m}
    BY <1>1, <1>8 DEF Own, SentIn, IsDataCommand, Direction
  <2>2. last.end <= cmd.time /\ access'[r][d].end = BurstEnd(cmd)
    BY <1>8 DEF AccessOf, SeamlessInv, BurstEnd
  <2>3. access'[r][d].seamless = last.seamless + (IF cmd.time = last.end THEN 1 ELSE 0)
    BY <1>8 DEF AccessOf, SeamlessInv
  <2>4. access'[r][d] \in AccessSet
    BY <1>4, <1>6, <1>8, <2>2, <2>3 DEF AccessOf, SeamlessInv, AccessSet, BurstEnd
  <2>5. \A k \in Own(r, d)' : BurstEnd(sent'[k].cmd) <= BurstEnd(cmd)
    BY <1>1, <1>3, <1>4, <1>5, <1>6, <1>7, <2>1, <2>2 DEF Followed
  <2>6. m \in Own(r, d)' /\ BurstEnd(sent'[m].cmd) = BurstEnd(cmd)
    BY <1>1, <2>1
  <2>7. m \in SeamlessBursts(r, d)' <=> cmd.time = last.end
    <3>1. m \in SeamlessBursts(r, d)' <=>
              \/ \E k \in Own(r, d) : BurstEnd(sent[k].cmd) = cmd.time
              \/ cmd.time = 0 /\ Own(r, d) = {}
      BY <1>1, <1>2, <1>7, <2>1 DEF SeamlessBursts
    <3>2. CASE Own(r, d) = {}
      BY <1>3, <3>1, <3>2 DEF Followed
    <3>3. CASE Own(r, d) # {}
      BY <1>3, <1>4, <1>5, <1>6, <1>7, <2>2, <3>1, <3>3 DEF Followed
    <3> QED BY <3>2, <3>3
  <2>8. \A i \in 1..n : i \in SeamlessBursts(r, d)' <=> i \in SeamlessBursts(r, d)
    BY <1>1, <1>2, <1>7, <2>1 DEF SeamlessBursts
  <2>9. SeamlessBursts(r, d) \subseteq 1..n /\ SeamlessBursts(r, d)' \subseteq 1..n \cup {m}
    BY <1>7, <2>1 DEF SeamlessBursts
  <2>10. IsFiniteSet(SeamlessBursts(r, d)) /\ Cardinality(SeamlessBursts(r, d)) = last.seamless
    <3>1. IsFiniteSet(1..n)
      BY <1>1, FS_Interval
    <3>2. IsFiniteSet(SeamlessBursts(r, d))
      BY <2>9, <3>1, FS_Subset
    <3> QED BY <1>3, <3>2 DEF Followed
  <2>11. Cardinality(SeamlessBursts(r, d)') = last.seamless + (IF cmd.time = last.end THEN 1 ELSE 0)
    <3>1. m \notin 1..n
      BY <1>1
    <3>2. CASE cmd.time = last.end
      <4>1. SeamlessBursts(r, d)' = SeamlessBursts(r, d) \cup {m}
        BY <2>7, <2>8, <2>9, <3>2
      <4>2. m \notin SeamlessBursts(r, d)
        BY <2>9, <3>1
      <4> QED BY <2>10, <3>2, <4>1, <4>2, FS_AddElement
    <3>3. CASE cmd.time # last.end
      <4>1. SeamlessBursts(r, d)' = SeamlessBursts(r, d)
        BY <2>7, <2>8, <2>9, <3>1, <3>3
      <4> QED BY <1>4, <2>10, <3>3, <4>1
    <3> QED BY <3>2, <3>3
  <2> QED BY <1>2, <2>2, <2>3, <2>4, <2>5, <2>6, <2>11 DEF Followed
<1>9. CASE ~(IsDataCommand(cmd) /\ Direction(cmd) = d /\ cmd.rank = r)
  <2>1. Own(r, d)' = Own(r, d)
    BY <1>1, <1>9 DEF Own, SentIn, IsDataCommand, Direction
  <2>2. access'[r][d] = last
    BY <1>9 DEF AccessOf, SeamlessInv
  <2>3. SeamlessBursts(r, d)' = SeamlessBursts(r, d)
    BY <1>1, <1>2, <1>7, <2>1 DEF SeamlessBursts
  <2>4. \A k \in Own(r, d) : sent'[k] = sent[k]
    BY <1>1, <1>7
  <2> QED BY <1>2, <1>3, <2>1, <2>2, <2>3, <2>4 DEF Followed
<1> QED BY <1>8, <1>9

LEMMA CommandSeamlessInv ==
    ASSUME SeamlessInv, UNCHANGED standard, NEW cmd, Sendable(cmd), doCommand(cmd),
           NEW e, e.cmd = cmd, sent' = Append(sent, e)
    PROVE  SeamlessInv'
<1>1. IsSequence(sent') /\ \A i \in DOMAIN sent' : Sendable(sent'[i].cmd)
  <2>1. IsSequence(sent)
    BY DEF SeamlessInv
  <2>2. /\ Len(sent) \in Nat /\ DOMAIN sent = 1..Len(sent) /\ DOMAIN sent' = 1..(Len(sent) + 1)
        /\ sent'[Len(sent) + 1] = e /\ \A i \in 1..Len(sent) : sent'[i] = sent[i]
        /\ IsSequence(sent')
    BY <2>1, Appended
  <2>3. \A i \in 1..(Len(sent) + 1) : i \in 1..Len(sent) \/ i = Len(sent) + 1
    BY <2>2
  <2> QED BY <2>2, <2>3 DEF SeamlessInv
<1>2. ASSUME standard = "DDR4"
      PROVE  /\ access' \in [Ranks -> [Dirs -> AccessSet]]
             /\ \A r \in Ranks, d \in Dirs : Followed(r, d)'
  <2>1. AccessOf(cmd)
    BY <1>2, DDR4Access DEF doCommand
  <2>2. \A r \in Ranks, d \in Dirs : access'[r][d] \in AccessSet /\ Followed(r, d)'
    BY <1>2, <2>1, CommandFollowed
  <2>3. access' = [r \in Ranks |-> [d \in Dirs |-> access'[r][d]]]
    BY <1>2, <2>1 DEF AccessOf, SeamlessInv
  <2> QED BY <2>2, <2>3
<1> QED BY <1>1, <1>2 DEF SeamlessInv

LEMMA SameSeamlessInv ==
    ASSUME SeamlessInv, UNCHANGED <<standard, sent, access>>
    PROVE  SeamlessInv'
<1>1. \A c : BeatsOf(c)' = BeatsOf(c) /\ BurstEnd(c)' = BurstEnd(c)
  BY DEF BeatsOf, BurstEnd
<1>2. \A r, d : Own(r, d)' = Own(r, d)
  BY DEF Own, SentIn, IsDataCommand, Direction
<1>3. \A r, d : SeamlessBursts(r, d)' = SeamlessBursts(r, d)
  BY <1>1, <1>2 DEF SeamlessBursts
<1>4. \A r, d : Followed(r, d)' <=> Followed(r, d)
  BY <1>1, <1>2, <1>3 DEF Followed
<1> QED BY <1>4 DEF SeamlessInv, Sendable

LEMMA InitSeamlessInv ==
    ASSUME MCInit
    PROVE  SeamlessInv
<1>1. sent = <<>> /\ access = [r \in Ranks |-> [d \in Dirs |-> [end |-> 0, seamless |-> 0]]]
  BY InitStrobes
<1>2. <<>> \in Seq({}) /\ DOMAIN <<>> = {}
  OBVIOUS
<1>3. [end |-> 0, seamless |-> 0] \in AccessSet
  BY DEF AccessSet
<1>4. \A r, d : Own(r, d) = {} /\ SeamlessBursts(r, d) = {}
  BY <1>1, <1>2 DEF Own, SentIn, SeamlessBursts
<1>5. \A r \in Ranks, d \in Dirs : Followed(r, d)
  BY <1>1, <1>4, FS_EmptySet DEF Followed
<1>6. access \in [Ranks -> [Dirs -> AccessSet]]
  BY <1>1, <1>3
<1> QED BY <1>1, <1>2, <1>5, <1>6 DEF SeamlessInv, IsSequence

LEMMA SeamlessStep ==
    ASSUME SeamlessInv, Step
    PROVE  SeamlessInv'
<1>1. ASSUME NEW cmd, Sendable(cmd), MCCommand(cmd)
      PROVE  SeamlessInv'
  <2> DEFINE e == [cmd |-> cmd, dbi |-> DDR4!UsesDBI(cmd),
                   words |-> IF HasWords(cmd) THEN FreshWords(cmd) ELSE <<>>]
  <2>1. doCommand(cmd) /\ UNCHANGED standard /\ sent' = Append(sent, e)
    BY <1>1 DEF MCCommand
  <2>2. e.cmd = cmd
    OBVIOUS
  <2> HIDE DEF e
  <2> QED BY <1>1, <2>1, <2>2, CommandSeamlessInv
<1>2. CASE MCSwitch
  BY <1>2, SwitchStrobes, SameSeamlessInv
<1>3. CASE MCRestore
  BY <1>3, RestoreStrobes, SameSeamlessInv
<1>4. CASE UNCHANGED mcVars
  BY <1>4, SameSeamlessInv DEF mcVars, interfaceVars
<1> QED BY <1>1, <1>2, <1>3, <1>4 DEF Step

LEMMA SeamlessInvCounts ==
    ASSUME SeamlessInv
    PROVE  SeamlessCounted
<1> SUFFICES ASSUME standard = "DDR4", NEW r \in Ranks, NEW d \in Dirs
             PROVE  Window(now).seamless[r][d] = Cardinality(SeamlessBursts(r, d))
  BY DEF SeamlessCounted
<1>1. Window(now).seamless = [x \in Ranks |-> [y \in Dirs |-> access[x][y].seamless]]
  BY DEF Window, DDR4!WindowStats
<1>2. Followed(r, d)
  BY DEF SeamlessInv
<1> QED BY <1>1, <1>2 DEF Followed
-----------------------------------------------------------------------------
(* Saving and restoring                                                    *)

\* The lines between bursts, of every standard.
IdleLines == IF IdleLevel THEN Lines ELSE {}

\* The fields that a bus, a handle and a pin have, and what they idle at.
IsRecord(r, fields) == DOMAIN r = fields /\ r = [x \in fields |-> r[x]]
IsPending(p) == IsRecord(p, {"isPending", "time", "stats"})
BusFields == {"idle", "stats", "burst", "load_time", "last_load", "enableflag", "pending", "last_pattern"}
IsBus(b, idle) == IsRecord(b, BusFields) /\ b.idle = idle /\ IsPending(b.pending)
IsHandle(h) ==
    IsRecord(h, {"last_length", "last_load", "handled", "enableflag", "count",
                 "disable_timestamp", "disable_time"})
PinFields == {"last_state", "idle", "init_load", "last_set", "burst", "load_time", "pending", "stats"}
IsPin(pin, idle) == IsRecord(pin, PinFields) /\ pin.idle = idle /\ IsPending(pin.pending)

\* Records of the same fields are equal when their fields are.
LEMMA SameRecord ==
    ASSUME NEW fields, NEW a, NEW b, IsRecord(a, fields), IsRecord(b, fields), \A f \in fields : a[f] = b[f]
    PROVE  a = b
BY DEF IsRecord

\* A pending statistic stays one, and serialize writes all of it.
LEMMA PendingShape ==
    /\ \A t, s : IsPending([isPending |-> TRUE, time |-> t, stats |-> s])
    /\ \A p : IsPending(p) => IsPending([p EXCEPT !.isPending = FALSE])
    /\ \A p : IsPending(p) => [isPending |-> p.isPending, time |-> p.time, stats |-> p.stats] = p
<1>1. \A t, s : IsPending([isPending |-> TRUE, time |-> t, stats |-> s])
  BY DEF IsPending, IsRecord
<1>2. \A p : IsPending(p) => IsPending([p EXCEPT !.isPending = FALSE])
  BY DEF IsPending, IsRecord
<1>3. \A p : IsPending(p) => [isPending |-> p.isPending, time |-> p.time, stats |-> p.stats] = p
  BY DEF IsPending, IsRecord
<1> QED BY <1>1, <1>2, <1>3

\* A load keeps the fields of a bus.
LEMMA DDR4LoadShape ==
    ASSUME NEW b, NEW idle, IsBus(b, idle), NEW s, NEW burst
    PROVE  IsBus(DDR4!load(b, s, burst), idle)
<1>1. IsBus(DDR4!Counted(b, s), idle)
  BY PendingShape DEF IsBus, DDR4!Counted, DDR4!Cleared, IsRecord, BusFields
<1>2. IsBus(DDR4!Loaded(DDR4!Counted(b, s), s, burst), idle)
  BY <1>1, PendingShape DEF IsBus, DDR4!Loaded, DDR4!Pending, IsRecord, BusFields
<1> QED BY <1>1, <1>2 DEF DDR4!load

\* A burst keeps the fields of a toggling handle.
LEMMA DDR4HandleShape ==
    ASSUME NEW h, IsHandle(h), NEW s, NEW n
    PROVE  IsHandle(DDR4!incCountBurstLength(h, s, n))
BY DEF IsHandle, IsRecord, DDR4!incCountBurstLength

\* A level that is set keeps the fields of a pin.
LEMMA DDR4PinShape ==
    ASSUME NEW pin, NEW idle, IsPin(pin, idle), NEW s, NEW level
    PROVE  IsPin(DDR4!set(pin, s, level), idle)
BY PendingShape DEF IsPin, IsRecord, PinFields, DDR4!set, DDR4!Pending, DDR4!Cleared

\* The pins after each of the levels a burst sets them to.
Setting(pin, s, levels, k, f) ==
    f = [n \in 0..k |-> IF n = 0 THEN pin ELSE DDR4!set(f[n - 1], s, levels[n])]

\* The recursion is well defined, as there is no least number of levels for which it is not.
LEMMA SettingExists ==
    ASSUME NEW pin, NEW s, NEW levels, NEW k \in Nat
    PROVE  \E f : Setting(pin, s, levels, k, f)
<1> DEFINE S == {m \in Nat : ~\E f : Setting(pin, s, levels, m, f)}
<1> SUFFICES ASSUME S # {} PROVE FALSE
  OBVIOUS
<1>1. PICK m \in S : \A n \in S : m <= n
  <2>1. S \subseteq Nat
    OBVIOUS
  <2> HIDE DEF S
  <2> QED BY <2>1, Least
<1>2. CASE m = 0
  <2> DEFINE f == [n \in 0..0 |-> pin]
  <2>1. f = [n \in 0..0 |-> IF n = 0 THEN pin ELSE DDR4!set(f[n - 1], s, levels[n])]
    OBVIOUS
  <2> HIDE DEF f
  <2>2. Setting(pin, s, levels, 0, f)
    BY <2>1 DEF Setting
  <2> QED BY <1>1, <1>2, <2>2
<1>3. CASE m # 0
  <2>1. m - 1 \in Nat /\ m \in Nat /\ m - 1 \notin S
    BY <1>1, <1>3
  <2>2. PICK f : Setting(pin, s, levels, m - 1, f)
    BY <2>1
  <2> DEFINE g == [n \in 0..m |-> IF n = m THEN DDR4!set(f[m - 1], s, levels[m]) ELSE f[n]]
             h == [n \in 0..m |-> IF n = 0 THEN pin ELSE DDR4!set(g[n - 1], s, levels[n])]
  <2>3. \A n \in 0..m : n # 0 => n - 1 \in 0..m /\ n - 1 # m
    BY <2>1
  <2>4. \A n \in 0..m : n # m => n \in 0..(m - 1)
    BY <2>1
  <2>5. \A n \in 0..m : n # 0 => g[n - 1] = f[n - 1]
    BY <2>3
  <2>6. \A n \in 0..(m - 1) : f[n] = IF n = 0 THEN pin ELSE DDR4!set(f[n - 1], s, levels[n])
    BY <2>2 DEF Setting
  <2>7. \A n \in 0..m : g[n] = h[n]
    BY <1>3, <2>4, <2>5, <2>6
  <2>8. g = h
    BY <2>7
  <2>9. Setting(pin, s, levels, m, g)
    <3> HIDE DEF g
    <3> QED BY <2>8 DEF Setting
  <2> QED BY <1>1, <2>9
<1> QED BY <1>2, <1>3

\* A burst of levels keeps the fields of a pin.
LEMMA DDR4SetShape ==
    ASSUME NEW pin, NEW idle, IsPin(pin, idle), NEW s, NEW levels, Len(levels) \in Nat
    PROVE  IsPin(DDR4!Set(pin, s, levels), idle)
<1>1. PICK f : Setting(pin, s, levels, Len(levels), f) /\ DDR4!Set(pin, s, levels) = f[Len(levels)]
  <2>1. PICK g : Setting(pin, s, levels, Len(levels), g)
    BY SettingExists
  <2> DEFINE after == CHOOSE g_1 : g_1 = [n \in 0..Len(levels) |->
                          IF n = 0 THEN pin ELSE DDR4!set(g_1[n - 1], s, levels[n])]
  <2>2. Setting(pin, s, levels, Len(levels), after)
    BY <2>1 DEF Setting
  <2>3. DDR4!Set(pin, s, levels) = after[Len(levels)]
    BY DEF DDR4!Set
  <2> HIDE DEF after
  <2> QED BY <2>2, <2>3
<1> DEFINE S == {n \in 0..Len(levels) : ~IsPin(f[n], idle)}
<1>2. ASSUME S # {} PROVE FALSE
  <2>1. PICK m \in S : \A n \in S : m <= n
    <3>1. S \subseteq Nat
      OBVIOUS
    <3> HIDE DEF S
    <3> QED BY <1>2, <3>1, Least
  <2>2. f[m] = IF m = 0 THEN pin ELSE DDR4!set(f[m - 1], s, levels[m])
    BY <1>1, <2>1 DEF Setting
  <2>3. m # 0 => m - 1 \in 0..Len(levels) /\ m - 1 \notin S
    BY <2>1
  <2>4. m # 0 => IsPin(f[m - 1], idle)
    BY <2>3
  <2>5. IsPin(f[m], idle)
    BY <2>2, <2>4, DDR4PinShape
  <2> QED BY <2>1, <2>5
<1>3. IsPin(f[Len(levels)], idle)
  BY <1>2
<1> QED BY <1>1, <1>3

\* The same of the other standards.
LEMMA DDR5LoadShape ==
    ASSUME NEW b, NEW idle, IsBus(b, idle), NEW s, NEW burst
    PROVE  IsBus(DDR5!load(b, s, burst), idle)
<1>1. IsBus(DDR5!Counted(b, s), idle)
  BY PendingShape DEF IsBus, DDR5!Counted, DDR5!Cleared, IsRecord, BusFields
<1>2. IsBus(DDR5!Loaded(DDR5!Counted(b, s), s, burst), idle)
  BY <1>1, PendingShape DEF IsBus, DDR5!Loaded, DDR5!Pending, IsRecord, BusFields
<1> QED BY <1>1, <1>2 DEF DDR5!load

LEMMA DDR5HandleShape ==
    ASSUME NEW h, IsHandle(h), NEW s, NEW n
    PROVE  IsHandle(DDR5!incCountBurstLength(h, s, n))
BY DEF IsHandle, IsRecord, DDR5!incCountBurstLength

LEMMA LPDDR4LoadShape ==
    ASSUME NEW b, NEW idle, IsBus(b, idle), NEW s, NEW burst
    PROVE  IsBus(LPDDR4!load(b, s, burst), idle)
<1>1. IsBus(LPDDR4!Counted(b, s), idle)
  BY PendingShape DEF IsBus, LPDDR4!Counted, LPDDR4!Cleared, IsRecord, BusFields
<1>2. IsBus(LPDDR4!Loaded(LPDDR4!Counted(b, s), s, burst), idle)
  BY <1>1, PendingShape DEF IsBus, LPDDR4!Loaded, LPDDR4!Pending, IsRecord, BusFields
<1> QED BY <1>1, <1>2 DEF LPDDR4!load

LEMMA LPDDR4HandleShape ==
    ASSUME NEW h, IsHandle(h), NEW s, NEW n
    PROVE  IsHandle(LPDDR4!incCountBurstLength(h, s, n))
BY DEF IsHandle, IsRecord, LPDDR4!incCountBurstLength

LEMMA LPDDR5LoadShape ==
    ASSUME NEW b, NEW idle, IsBus(b, idle), NEW s, NEW burst
    PROVE  IsBus(LPDDR5!load(b, s, burst), idle)
<1>1. IsBus(LPDDR5!Counted(b, s), idle)
  BY PendingShape DEF IsBus, LPDDR5!Counted, LPDDR5!Cleared, IsRecord, BusFields
<1>2. IsBus(LPDDR5!Loaded(LPDDR5!Counted(b, s), s, burst), idle)
  BY <1>1, PendingShape DEF IsBus, LPDDR5!Loaded, LPDDR5!Pending, IsRecord, BusFields
<1> QED BY <1>1, <1>2 DEF LPDDR5!load

LEMMA LPDDR5HandleShape ==
    ASSUME NEW h, IsHandle(h), NEW s, NEW n
    PROVE  IsHandle(LPDDR5!incCountBurstLength(h, s, n))
BY DEF IsHandle, IsRecord, LPDDR5!incCountBurstLength

LEMMA LPDDR6LoadShape ==
    ASSUME NEW b, NEW idle, IsBus(b, idle), NEW s, NEW burst
    PROVE  IsBus(LPDDR6!load(b, s, burst), idle)
<1>1. IsBus(LPDDR6!Counted(b, s), idle)
  BY PendingShape DEF IsBus, LPDDR6!Counted, LPDDR6!Cleared, IsRecord, BusFields
<1>2. IsBus(LPDDR6!Loaded(LPDDR6!Counted(b, s), s, burst), idle)
  BY <1>1, PendingShape DEF IsBus, LPDDR6!Loaded, LPDDR6!Pending, IsRecord, BusFields
<1> QED BY <1>1, <1>2 DEF LPDDR6!load

LEMMA LPDDR6HandleShape ==
    ASSUME NEW h, IsHandle(h), NEW s, NEW n
    PROVE  IsHandle(LPDDR6!incCountBurstLength(h, s, n))
BY DEF IsHandle, IsRecord, LPDDR6!incCountBurstLength

\* What a command leaves of the buses and handles.
BusesMove ==
    /\ bus' = bus \/ \E d \in Dirs : \E b : IsBus(b, IdleLines) /\ bus' = [bus EXCEPT ![d] = b]
    /\ handle' = handle \/ \E d \in Dirs : \E h : IsHandle(h) /\ handle' = [handle EXCEPT ![d] = h]
    /\ clock' = clock

BusesKept ==
    /\ IsRecord(bus, Dirs) /\ \A d \in Dirs : IsBus(bus[d], IdleLines)
    /\ IsRecord(handle, Dirs) /\ \A d \in Dirs : IsHandle(handle[d])
    /\ clock = NewClock(FALSE)

\* Such a step keeps the fields of the buses and handles.
LEMMA BusesMoved ==
    ASSUME BusesKept, BusesMove, UNCHANGED standard
    PROVE  BusesKept'
<1>1. IdleLines' = IdleLines
  BY DEF IdleLines, IdleLevel
<1>2. IsRecord(bus, Dirs)' /\ \A d \in Dirs : IsBus(bus'[d], IdleLines)
  BY DEF BusesKept, BusesMove, IsRecord
<1>3. IsRecord(handle, Dirs)' /\ \A d \in Dirs : IsHandle(handle'[d])
  BY DEF BusesKept, BusesMove, IsRecord
<1> QED BY <1>1, <1>2, <1>3 DEF BusesKept, BusesMove, IsBus, IsHandle

LEMMA DDR4Buses ==
    ASSUME BusesKept, NEW cmd, DDR4!doCommand(cmd)
    PROVE  BusesMove
<1>1. ASSUME NEW d \in Dirs, DDR4!handleData(cmd, d)
      PROVE  BusesMove
  <2>1. PICK s, burst : /\ clock' = clock
                        /\ DDR4!loadBus(d, s, burst, TRUE) \/ DDR4!loadHandle(d, s, burst)
    BY <1>1 DEF DDR4!handleData, DDR4!loadData, DDR4!Load
  <2>2. bus' = bus \/ bus' = [bus EXCEPT ![d] = DDR4!load(bus[d], s, burst)]
    BY <2>1 DEF DDR4!loadBus, DDR4!loadHandle
  <2>3. handle' = handle \/ handle' = [handle EXCEPT ![d] = DDR4!incCountBurstLength(handle[d], s, Len(burst))]
    BY <2>1 DEF DDR4!loadBus, DDR4!loadHandle
  <2>4. IsBus(DDR4!load(bus[d], s, burst), IdleLines) /\ IsHandle(DDR4!incCountBurstLength(handle[d], s, Len(burst)))
    BY DDR4LoadShape, DDR4HandleShape DEF BusesKept
  <2> QED BY <2>1, <2>2, <2>3, <2>4 DEF BusesMove
<1>2. "read" \in Dirs /\ "write" \in Dirs
  BY InterfaceAssumptions DEF InterfaceAssumptions
<1>3. ASSUME NEW words, DDR4!busCommand(cmd, words)
      PROVE  BusesMove
  BY <1>3 DEF DDR4!busCommand, DDR4!strobes, BusesMove
<1>4. CASE UNCHANGED DDR4!lines /\ UNCHANGED DDR4!strobes
  BY <1>4 DEF DDR4!lines, DDR4!strobes, BusesMove
<1> QED BY <1>1, <1>2, <1>3, <1>4 DEF DDR4!doCommand, DDR4!endOfSimulation

LEMMA DDR5Buses ==
    ASSUME BusesKept, NEW cmd, DDR5!doCommand(cmd)
    PROVE  BusesMove
<1>1. ASSUME NEW d \in Dirs, DDR5!handleData(cmd, d)
      PROVE  BusesMove
  <2>1. PICK s, burst : /\ clock' = clock
                        /\ DDR5!loadBus(d, s, burst, TRUE) \/ DDR5!loadHandle(d, s, burst)
    BY <1>1 DEF DDR5!handleData, DDR5!loadData, DDR5!Load
  <2>2. bus' = bus \/ bus' = [bus EXCEPT ![d] = DDR5!load(bus[d], s, burst)]
    BY <2>1 DEF DDR5!loadBus, DDR5!loadHandle
  <2>3. handle' = handle \/ handle' = [handle EXCEPT ![d] = DDR5!incCountBurstLength(handle[d], s, Len(burst))]
    BY <2>1 DEF DDR5!loadBus, DDR5!loadHandle
  <2>4. IsBus(DDR5!load(bus[d], s, burst), IdleLines) /\ IsHandle(DDR5!incCountBurstLength(handle[d], s, Len(burst)))
    BY DDR5LoadShape, DDR5HandleShape DEF BusesKept
  <2> QED BY <2>1, <2>2, <2>3, <2>4 DEF BusesMove
<1>2. "read" \in Dirs /\ "write" \in Dirs
  BY InterfaceAssumptions DEF InterfaceAssumptions
<1>3. ASSUME NEW words, DDR5!busCommand(cmd, words)
      PROVE  BusesMove
  BY <1>3 DEF DDR5!busCommand, DDR5!strobes, BusesMove
<1>4. CASE UNCHANGED DDR5!lines /\ UNCHANGED DDR5!strobes
  BY <1>4 DEF DDR5!lines, DDR5!strobes, BusesMove
<1> QED BY <1>1, <1>2, <1>3, <1>4 DEF DDR5!doCommand, DDR5!endOfSimulation

LEMMA LPDDR4Buses ==
    ASSUME BusesKept, NEW cmd, LPDDR4!doCommand(cmd)
    PROVE  BusesMove
<1>1. ASSUME NEW d \in Dirs, LPDDR4!handleData(cmd, d)
      PROVE  BusesMove
  <2>1. PICK s, burst : /\ clock' = clock
                        /\ LPDDR4!loadBus(d, s, burst, TRUE) \/ LPDDR4!loadHandle(d, s, burst)
    BY <1>1 DEF LPDDR4!handleData, LPDDR4!loadData, LPDDR4!Load
  <2>2. bus' = bus \/ bus' = [bus EXCEPT ![d] = LPDDR4!load(bus[d], s, burst)]
    BY <2>1 DEF LPDDR4!loadBus, LPDDR4!loadHandle
  <2>3. handle' = handle \/ handle' = [handle EXCEPT ![d] = LPDDR4!incCountBurstLength(handle[d], s, Len(burst))]
    BY <2>1 DEF LPDDR4!loadBus, LPDDR4!loadHandle
  <2>4. IsBus(LPDDR4!load(bus[d], s, burst), IdleLines) /\ IsHandle(LPDDR4!incCountBurstLength(handle[d], s, Len(burst)))
    BY LPDDR4LoadShape, LPDDR4HandleShape DEF BusesKept
  <2> QED BY <2>1, <2>2, <2>3, <2>4 DEF BusesMove
<1>2. "read" \in Dirs /\ "write" \in Dirs
  BY InterfaceAssumptions DEF InterfaceAssumptions
<1>3. ASSUME NEW words, LPDDR4!busCommand(cmd, words)
      PROVE  BusesMove
  BY <1>3 DEF LPDDR4!busCommand, LPDDR4!strobes, BusesMove
<1>4. CASE UNCHANGED LPDDR4!lines /\ UNCHANGED LPDDR4!strobes
  BY <1>4 DEF LPDDR4!lines, LPDDR4!strobes, BusesMove
<1> QED BY <1>1, <1>2, <1>3, <1>4 DEF LPDDR4!doCommand, LPDDR4!endOfSimulation

LEMMA LPDDR5Buses ==
    ASSUME BusesKept, NEW cmd, LPDDR5!doCommand(cmd)
    PROVE  BusesMove
<1>1. ASSUME NEW d \in Dirs, LPDDR5!handleData(cmd, d)
      PROVE  BusesMove
  <2>1. PICK s, burst : /\ clock' = clock
                        /\ LPDDR5!loadBus(d, s, burst, TRUE) \/ LPDDR5!loadHandle(d, s, burst)
    BY <1>1 DEF LPDDR5!handleData, LPDDR5!loadData, LPDDR5!Load
  <2>2. bus' = bus \/ bus' = [bus EXCEPT ![d] = LPDDR5!load(bus[d], s, burst)]
    BY <2>1 DEF LPDDR5!loadBus, LPDDR5!loadHandle
  <2>3. handle' = handle \/ handle' = [handle EXCEPT ![d] = LPDDR5!incCountBurstLength(handle[d], s, Len(burst))]
    BY <2>1 DEF LPDDR5!loadBus, LPDDR5!loadHandle
  <2>4. IsBus(LPDDR5!load(bus[d], s, burst), IdleLines) /\ IsHandle(LPDDR5!incCountBurstLength(handle[d], s, Len(burst)))
    BY LPDDR5LoadShape, LPDDR5HandleShape DEF BusesKept
  <2> QED BY <2>1, <2>2, <2>3, <2>4 DEF BusesMove
<1>2. "read" \in Dirs /\ "write" \in Dirs
  BY InterfaceAssumptions DEF InterfaceAssumptions
<1>3. ASSUME NEW words, LPDDR5!busCommand(cmd, words)
      PROVE  BusesMove
  BY <1>3 DEF LPDDR5!busCommand, LPDDR5!strobes, BusesMove
<1>4. CASE UNCHANGED LPDDR5!lines /\ UNCHANGED LPDDR5!strobes
  BY <1>4 DEF LPDDR5!lines, LPDDR5!strobes, BusesMove
<1> QED BY <1>1, <1>2, <1>3, <1>4 DEF LPDDR5!doCommand, LPDDR5!endOfSimulation

LEMMA LPDDR6Buses ==
    ASSUME BusesKept, NEW cmd, LPDDR6!doCommand(cmd)
    PROVE  BusesMove
<1>1. ASSUME NEW d \in Dirs, LPDDR6!handleData(cmd, d)
      PROVE  BusesMove
  <2>1. PICK s, burst : /\ clock' = clock
                        /\ LPDDR6!loadBus(d, s, burst, TRUE) \/ LPDDR6!loadHandle(d, s, burst)
    BY <1>1 DEF LPDDR6!handleData, LPDDR6!loadData, LPDDR6!Load
  <2>2. bus' = bus \/ bus' = [bus EXCEPT ![d] = LPDDR6!load(bus[d], s, burst)]
    BY <2>1 DEF LPDDR6!loadBus, LPDDR6!loadHandle
  <2>3. handle' = handle \/ handle' = [handle EXCEPT ![d] = LPDDR6!incCountBurstLength(handle[d], s, Len(burst))]
    BY <2>1 DEF LPDDR6!loadBus, LPDDR6!loadHandle
  <2>4. IsBus(LPDDR6!load(bus[d], s, burst), IdleLines) /\ IsHandle(LPDDR6!incCountBurstLength(handle[d], s, Len(burst)))
    BY LPDDR6LoadShape, LPDDR6HandleShape DEF BusesKept
  <2> QED BY <2>1, <2>2, <2>3, <2>4 DEF BusesMove
<1>2. "read" \in Dirs /\ "write" \in Dirs
  BY InterfaceAssumptions DEF InterfaceAssumptions
<1>3. ASSUME NEW words, LPDDR6!busCommand(cmd, words)
      PROVE  BusesMove
  BY <1>3 DEF LPDDR6!busCommand, LPDDR6!strobes, BusesMove
<1>4. CASE UNCHANGED LPDDR6!lines /\ UNCHANGED LPDDR6!strobes
  BY <1>4 DEF LPDDR6!lines, LPDDR6!strobes, BusesMove
<1> QED BY <1>1, <1>2, <1>3, <1>4 DEF LPDDR6!doCommand, LPDDR6!endOfSimulation

\* The pins of DDR4 can be restored; DDR5 and LPDDR6 have none that are used.
PinsKept ==
    /\ standard = "DDR4" =>
          /\ IsRecord(pins, Dirs)
          /\ \A d \in Dirs : /\ IsRecord(pins[d], 1..Width)
                             /\ \A p \in 1..Width : IsPin(pins[d][p], TRUE)
    /\ standard = "DDR5" => pins = DDR5!NewPins
    /\ standard = "LPDDR6" => pins = LPDDR6!NewPins

\* The pins of DDR4 after a step that leaves each of them, or sets it.
PinsMove ==
    \/ pins' = pins
    \/ \E f : /\ pins' = [d \in Dirs |-> [p \in 1..Width |-> f[d][p]]]
              /\ \A d \in Dirs, p \in 1..Width : IsPin(f[d][p], TRUE)
    \/ \E d \in Dirs : \E f : /\ pins' = [pins EXCEPT ![d] = [p \in 1..Width |-> f[p]]]
                              /\ \A p \in 1..Width : IsPin(f[p], TRUE)

\* Such a step keeps the fields of the pins.
LEMMA PinsMoved ==
    ASSUME PinsKept, PinsMove, UNCHANGED standard, standard = "DDR4"
    PROVE  PinsKept'
<1>1. CASE pins' = pins
  BY <1>1 DEF PinsKept
<1>2. ASSUME NEW f, pins' = [d \in Dirs |-> [p \in 1..Width |-> f[d][p]]],
             \A d \in Dirs, p \in 1..Width : IsPin(f[d][p], TRUE)
      PROVE  PinsKept'
  BY <1>2 DEF PinsKept, IsRecord
<1>3. ASSUME NEW d \in Dirs, NEW f, pins' = [pins EXCEPT ![d] = [p \in 1..Width |-> f[p]]],
             \A p \in 1..Width : IsPin(f[p], TRUE)
      PROVE  PinsKept'
  <2>1. IsRecord(pins, Dirs)'
    BY <1>3 DEF PinsKept, IsRecord
  <2>2. pins'[d] = [p \in 1..Width |-> f[p]] /\ \A e \in Dirs : e # d => pins'[e] = pins[e]
    BY <1>3 DEF PinsKept, IsRecord
  <2>3. IsRecord(pins'[d], 1..Width) /\ \A p \in 1..Width : pins'[d][p] = f[p]
    BY <2>2 DEF IsRecord
  <2> QED BY <1>3, <2>1, <2>2, <2>3 DEF PinsKept
<1> QED BY <1>1, <1>2, <1>3 DEF PinsMove

\* A burst sets a pin to as many levels as it has beats, and one to reset it.
LEMMA DDR4Levels ==
    ASSUME NEW cmd, Sendable(cmd), cmd.data # <<>>, NEW d, NEW p
    PROVE  Len(DDR4!PinLevels(cmd, d, p)) \in Nat
<1>1. DDR4!length(cmd) \in Nat
  <2>1. Len(cmd.data) \in Nat /\ Width \in Nat \ {0}
    BY InterfaceAssumptions DEF Sendable, InterfaceAssumptions
  <2>2. Len(cmd.data) \div Width \in Nat
    BY <2>1, Division
  <2> QED BY <2>2 DEF DDR4!length
<1> DEFINE n == DDR4!length(cmd)
           inverted == DDR4!Inversions(cmd.data, DDR4!Config)
           levels == [i \in 1..n |-> TRUE # inverted[(i - 1) * Width + p]]
           first == IF p \in DDR4!ResetPins(dbi.last[d], cmd.time * DataRate, DDR4!Config)
                    THEN <<TRUE>> ELSE <<>>
<1>2. DDR4!PinLevels(cmd, d, p) = first \o levels
  BY DEF DDR4!PinLevels
<1>3. levels \in Seq(BOOLEAN)
  <2>1. \A i \in 1..n : levels[i] \in BOOLEAN
    OBVIOUS
  <2>2. levels \in [1..n -> BOOLEAN]
    BY <2>1
  <2> HIDE DEF levels
  <2> QED BY <1>1, <2>2
<1>4. first \in Seq(BOOLEAN)
  <2>1. <<TRUE>> \in Seq(BOOLEAN) /\ <<>> \in Seq(BOOLEAN)
    OBVIOUS
  <2>2. first = <<TRUE>> \/ first = <<>>
    OBVIOUS
  <2> HIDE DEF first
  <2> QED BY <2>1, <2>2
<1> HIDE DEF first, levels
<1> QED BY <1>2, <1>3, <1>4

\* What the commands of each standard do with the pins.
LEMMA DDR4Pins ==
    ASSUME PinsKept, standard = "DDR4", NEW cmd, Sendable(cmd), DDR4!doCommand(cmd)
    PROVE  PinsMove
<1>1. ASSUME NEW d \in Dirs, DDR4!handleData(cmd, d)
      PROVE  PinsMove
  <2>1. DDR4!updateDBI(cmd, d, DDR4!Config)
    BY <1>1 DEF DDR4!handleData
  <2>2. DDR4!Config.width # 0
    BY InterfaceAssumptions DEF InterfaceAssumptions, DDR4!Config, DDR4!DBIConfig
  <2>3. CASE ~DDR4!UsesDBI(cmd)
    BY <2>1, <2>3 DEF DDR4!updateDBI, DDR4!dbiVars, PinsMove
  <2>4. CASE DDR4!UsesDBI(cmd)
    <3> DEFINE f == [p \in 1..Width |->
                        DDR4!Set(pins[d][p], cmd.time * DataRate, DDR4!PinLevels(cmd, d, p))]
    <3>1. pins' = [pins EXCEPT ![d] = [p \in 1..Width |-> f[p]]]
      BY <2>1, <2>2, <2>4 DEF DDR4!updateDBI
    <3>2. ASSUME NEW p \in 1..Width
          PROVE  IsPin(f[p], TRUE)
      <4>1. Len(DDR4!PinLevels(cmd, d, p)) \in Nat
        BY <2>4, DDR4Levels DEF DDR4!UsesDBI
      <4>2. IsPin(pins[d][p], TRUE)
        BY DEF PinsKept
      <4> QED BY <4>1, <4>2, DDR4SetShape
    <3> HIDE DEF f
    <3> QED BY <3>1, <3>2 DEF PinsMove
  <2> QED BY <2>3, <2>4
<1>2. "read" \in Dirs /\ "write" \in Dirs
  BY InterfaceAssumptions DEF InterfaceAssumptions
<1>3. ASSUME NEW words, DDR4!busCommand(cmd, words)
      PROVE  PinsMove
  BY <1>3 DEF DDR4!busCommand, DDR4!dbiVars, PinsMove
<1>4. CASE DDR4!endOfSimulation(cmd.time, DDR4!Config)
  <2> DEFINE resets(d, p) ==
                 DDR4!Config.width # 0 /\ p \in DDR4!ResetPins(dbi.last[d], cmd.time, DDR4!Config)
             f == [d \in Dirs |-> [p \in 1..Width |->
                      IF resets(d, p) THEN DDR4!set(pins[d][p], cmd.time, TRUE)
                      ELSE pins[d][p]]]
  <2>1. pins' = [d \in Dirs |-> [p \in 1..Width |->
                   IF resets(d, p) THEN DDR4!set(pins[d][p], cmd.time, TRUE) ELSE pins[d][p]]]
    BY <1>4 DEF DDR4!endOfSimulation
  <2>2. \A d \in Dirs, p \in 1..Width :
          f[d][p] = IF resets(d, p) THEN DDR4!set(pins[d][p], cmd.time, TRUE) ELSE pins[d][p]
    OBVIOUS
  <2>3. ASSUME NEW d \in Dirs, NEW p \in 1..Width
        PROVE  IsPin(f[d][p], TRUE)
    <3>1. f[d][p] = DDR4!set(pins[d][p], cmd.time, TRUE) \/ f[d][p] = pins[d][p]
      BY <2>2
    <3>2. IsPin(pins[d][p], TRUE)
      BY DEF PinsKept
    <3>3. IsPin(DDR4!set(pins[d][p], cmd.time, TRUE), TRUE)
      BY <3>2, DDR4PinShape
    <3> HIDE DEF f
    <3> QED BY <3>1, <3>2, <3>3
  <2> HIDE DEF f, resets
  <2>4. pins' = [d \in Dirs |-> [p \in 1..Width |-> f[d][p]]]
    BY <2>1, <2>2
  <2> QED BY <2>3, <2>4 DEF PinsMove
<1> QED BY <1>1, <1>2, <1>3, <1>4 DEF DDR4!doCommand

LEMMA DDR5Pins ==
    ASSUME NEW cmd, DDR5!doCommand(cmd)
    PROVE  pins' = pins
BY DEF DDR5!doCommand, DDR5!handleData, DDR5!busCommand, DDR5!dbiVars

LEMMA LPDDR6Pins ==
    ASSUME pins = LPDDR6!NewPins, NEW cmd, LPDDR6!doCommand(cmd)
    PROVE  pins' = pins
<1>1. LPDDR6!NoWidth.width = 0
  BY DEF LPDDR6!NoWidth, LPDDR6!DBIConfig
<1>2. ASSUME NEW d, LPDDR6!handleData(cmd, d)
      PROVE  pins' = pins
  <2>1. LPDDR6!updateDBI(cmd, d, LPDDR6!NoWidth)
    BY <1>2 DEF LPDDR6!handleData
  <2> QED BY <1>1, <2>1 DEF LPDDR6!updateDBI, LPDDR6!dbiVars
<1>3. ASSUME NEW words, LPDDR6!busCommand(cmd, words)
      PROVE  pins' = pins
  BY <1>3 DEF LPDDR6!busCommand, LPDDR6!dbiVars
<1>4. CASE LPDDR6!endOfSimulation(cmd.time, LPDDR6!NoWidth)
  <2>1. pins' = [d \in Dirs |-> [p \in 1..Width |-> pins[d][p]]]
    BY <1>1, <1>4 DEF LPDDR6!endOfSimulation
  <2> QED BY <2>1 DEF LPDDR6!NewPins
<1> QED BY <1>2, <1>3, <1>4 DEF LPDDR6!doCommand

\* The pins keep their fields whatever command comes.
LEMMA CommandPins ==
    ASSUME PinsKept, NEW cmd, Sendable(cmd), doCommand(cmd), UNCHANGED standard
    PROVE  PinsKept'
<1>1. CASE standard = "DDR4"
  BY <1>1, DDR4Pins, PinsMoved DEF doCommand
<1>2. CASE standard = "DDR5"
  BY <1>2, DDR5Pins DEF doCommand, PinsKept, DDR5!NewPins
<1>3. CASE standard = "LPDDR6"
  BY <1>3, LPDDR6Pins DEF doCommand, PinsKept, LPDDR6!NewPins
<1>4. CASE standard \notin {"DDR4", "DDR5", "LPDDR6"}
  BY <1>4 DEF PinsKept
<1> QED BY <1>1, <1>2, <1>3, <1>4

\* What is said of pins and buses holds as long as they stay as they are.
LEMMA PinsSame ==
    ASSUME PinsKept, UNCHANGED <<standard, pins>>
    PROVE  PinsKept'
BY DEF PinsKept, DDR5!NewPins, LPDDR6!NewPins

LEMMA BusesSame ==
    ASSUME BusesKept, UNCHANGED <<standard, bus, handle, clock>>
    PROVE  BusesKept'
BY BusesMoved DEF BusesMove

\* What is saved of the buses and handles is all there is to know of them.
LEMMA DDR4BusesRestored ==
    ASSUME BusesKept, standard = "DDR4", DDR4!Restore
    PROVE  UNCHANGED <<bus, handle, clock>>
<1>1. /\ bus' = [d \in Dirs |-> DDR4!RestoredBus(DDR4!NewBus(IdleLines, TRUE), bus[d])]
      /\ handle' = [d \in Dirs |-> DDR4!RestoredHandle(DDR4!NewHandle(FALSE), handle[d])]
      /\ clock' = DDR4!RestoredClock(DDR4!NewClock(FALSE), clock)
  BY DEF DDR4!Restore, DDR4!RestoreLines, DDR4!RestoreDataBus, IdleLines, IdleLevel, High, Low
<1>2. ASSUME NEW b, IsBus(b, IdleLines)
      PROVE  DDR4!RestoredBus(DDR4!NewBus(IdleLines, TRUE), b) = b
  <2>1. DDR4!RestoredPending(b.pending) = b.pending
    BY <1>2, PendingShape DEF IsBus, DDR4!RestoredPending
  <2>2. IsRecord(DDR4!NewBus(IdleLines, TRUE), BusFields) /\ DDR4!NewBus(IdleLines, TRUE).idle = IdleLines
    <3>1. DOMAIN DDR4!NewBus(IdleLines, TRUE) = BusFields
      BY DEF DDR4!NewBus, BusFields
    <3>2. DDR4!NewBus(IdleLines, TRUE) = [x \in BusFields |-> DDR4!NewBus(IdleLines, TRUE)[x]]
      BY <3>1 DEF DDR4!NewBus
    <3>3. DDR4!NewBus(IdleLines, TRUE).idle = IdleLines
      BY DEF DDR4!NewBus
    <3> QED BY <3>1, <3>2, <3>3 DEF IsRecord
  <2>3. PICK new, x : new = DDR4!NewBus(IdleLines, TRUE) /\ x = DDR4!RestoredBus(new, b)
    OBVIOUS
  <2>4. IsRecord(new, BusFields) /\ new.idle = IdleLines
    BY <2>2, <2>3
  <2>5. IsRecord(b, BusFields) /\ b.idle = IdleLines
    BY <1>2 DEF IsBus
  <2>6. IsRecord(x, BusFields)
    BY <2>3, <2>4 DEF DDR4!RestoredBus, IsRecord
  <2>7. /\ x.idle = b.idle /\ x.stats = b.stats /\ x.burst = b.burst /\ x.load_time = b.load_time
        /\ x.last_load = b.last_load /\ x.enableflag = b.enableflag /\ x.pending = b.pending
        /\ x.last_pattern = b.last_pattern
    BY <2>1, <2>3, <2>4, <2>5 DEF DDR4!RestoredBus, IsRecord, BusFields
  <2>8. \A f \in BusFields : x[f] = b[f]
    BY <2>7 DEF BusFields
  <2>9. x = b
    BY <2>5, <2>6, <2>8, SameRecord
  <2> QED BY <2>3, <2>9
<1>3. ASSUME NEW h, IsHandle(h)
      PROVE  DDR4!RestoredHandle(DDR4!NewHandle(FALSE), h) = h
  BY <1>3 DEF IsHandle, IsRecord, DDR4!RestoredHandle, DDR4!NewHandle
<1>4. bus' = bus
  BY <1>1, <1>2 DEF BusesKept, IsRecord
<1>5. handle' = handle
  BY <1>1, <1>3 DEF BusesKept, IsRecord
<1>6. clock' = clock
  BY <1>1 DEF BusesKept, NewClock, DDR4!NewClock, DDR4!RestoredClock
<1> QED BY <1>4, <1>5, <1>6

\* What is saved of the buses and handles is all there is to know of them.
LEMMA DDR5BusesRestored ==
    ASSUME BusesKept, standard = "DDR5", DDR5!Restore
    PROVE  UNCHANGED <<bus, handle, clock>>
<1>1. /\ bus' = [d \in Dirs |-> DDR5!RestoredBus(DDR5!NewBus(IdleLines, TRUE), bus[d])]
      /\ handle' = [d \in Dirs |-> DDR5!RestoredHandle(DDR5!NewHandle(FALSE), handle[d])]
      /\ clock' = DDR5!RestoredClock(DDR5!NewClock(FALSE), clock)
  BY DEF DDR5!Restore, DDR5!RestoreWithoutDBI, DDR5!RestoreLines, DDR5!RestoreDataBus, IdleLines, IdleLevel, High, Low
<1>2. ASSUME NEW b, IsBus(b, IdleLines)
      PROVE  DDR5!RestoredBus(DDR5!NewBus(IdleLines, TRUE), b) = b
  <2>1. DDR5!RestoredPending(b.pending) = b.pending
    BY <1>2, PendingShape DEF IsBus, DDR5!RestoredPending
  <2>2. IsRecord(DDR5!NewBus(IdleLines, TRUE), BusFields) /\ DDR5!NewBus(IdleLines, TRUE).idle = IdleLines
    <3>1. DOMAIN DDR5!NewBus(IdleLines, TRUE) = BusFields
      BY DEF DDR5!NewBus, BusFields
    <3>2. DDR5!NewBus(IdleLines, TRUE) = [x \in BusFields |-> DDR5!NewBus(IdleLines, TRUE)[x]]
      BY <3>1 DEF DDR5!NewBus
    <3>3. DDR5!NewBus(IdleLines, TRUE).idle = IdleLines
      BY DEF DDR5!NewBus
    <3> QED BY <3>1, <3>2, <3>3 DEF IsRecord
  <2>3. PICK new, x : new = DDR5!NewBus(IdleLines, TRUE) /\ x = DDR5!RestoredBus(new, b)
    OBVIOUS
  <2>4. IsRecord(new, BusFields) /\ new.idle = IdleLines
    BY <2>2, <2>3
  <2>5. IsRecord(b, BusFields) /\ b.idle = IdleLines
    BY <1>2 DEF IsBus
  <2>6. IsRecord(x, BusFields)
    BY <2>3, <2>4 DEF DDR5!RestoredBus, IsRecord
  <2>7. /\ x.idle = b.idle /\ x.stats = b.stats /\ x.burst = b.burst /\ x.load_time = b.load_time
        /\ x.last_load = b.last_load /\ x.enableflag = b.enableflag /\ x.pending = b.pending
        /\ x.last_pattern = b.last_pattern
    BY <2>1, <2>3, <2>4, <2>5 DEF DDR5!RestoredBus, IsRecord, BusFields
  <2>8. \A f \in BusFields : x[f] = b[f]
    BY <2>7 DEF BusFields
  <2>9. x = b
    BY <2>5, <2>6, <2>8, SameRecord
  <2> QED BY <2>3, <2>9
<1>3. ASSUME NEW h, IsHandle(h)
      PROVE  DDR5!RestoredHandle(DDR5!NewHandle(FALSE), h) = h
  BY <1>3 DEF IsHandle, IsRecord, DDR5!RestoredHandle, DDR5!NewHandle
<1>4. bus' = bus
  BY <1>1, <1>2 DEF BusesKept, IsRecord
<1>5. handle' = handle
  BY <1>1, <1>3 DEF BusesKept, IsRecord
<1>6. clock' = clock
  BY <1>1 DEF BusesKept, NewClock, DDR5!NewClock, DDR5!RestoredClock
<1> QED BY <1>4, <1>5, <1>6

\* What is saved of the buses and handles is all there is to know of them.
LEMMA LPDDR4BusesRestored ==
    ASSUME BusesKept, standard = "LPDDR4", LPDDR4!Restore
    PROVE  UNCHANGED <<bus, handle, clock>>
<1>1. /\ bus' = [d \in Dirs |-> LPDDR4!RestoredBus(LPDDR4!NewBus(IdleLines, TRUE), bus[d])]
      /\ handle' = [d \in Dirs |-> LPDDR4!RestoredHandle(LPDDR4!NewHandle(FALSE), handle[d])]
      /\ clock' = LPDDR4!RestoredClock(LPDDR4!NewClock(FALSE), clock)
  BY DEF LPDDR4!Restore, LPDDR4!RestoreWithoutDBI, LPDDR4!RestoreLines, LPDDR4!RestoreDataBus, IdleLines, IdleLevel, High, Low
<1>2. ASSUME NEW b, IsBus(b, IdleLines)
      PROVE  LPDDR4!RestoredBus(LPDDR4!NewBus(IdleLines, TRUE), b) = b
  <2>1. LPDDR4!RestoredPending(b.pending) = b.pending
    BY <1>2, PendingShape DEF IsBus, LPDDR4!RestoredPending
  <2>2. IsRecord(LPDDR4!NewBus(IdleLines, TRUE), BusFields) /\ LPDDR4!NewBus(IdleLines, TRUE).idle = IdleLines
    <3>1. DOMAIN LPDDR4!NewBus(IdleLines, TRUE) = BusFields
      BY DEF LPDDR4!NewBus, BusFields
    <3>2. LPDDR4!NewBus(IdleLines, TRUE) = [x \in BusFields |-> LPDDR4!NewBus(IdleLines, TRUE)[x]]
      BY <3>1 DEF LPDDR4!NewBus
    <3>3. LPDDR4!NewBus(IdleLines, TRUE).idle = IdleLines
      BY DEF LPDDR4!NewBus
    <3> QED BY <3>1, <3>2, <3>3 DEF IsRecord
  <2>3. PICK new, x : new = LPDDR4!NewBus(IdleLines, TRUE) /\ x = LPDDR4!RestoredBus(new, b)
    OBVIOUS
  <2>4. IsRecord(new, BusFields) /\ new.idle = IdleLines
    BY <2>2, <2>3
  <2>5. IsRecord(b, BusFields) /\ b.idle = IdleLines
    BY <1>2 DEF IsBus
  <2>6. IsRecord(x, BusFields)
    BY <2>3, <2>4 DEF LPDDR4!RestoredBus, IsRecord
  <2>7. /\ x.idle = b.idle /\ x.stats = b.stats /\ x.burst = b.burst /\ x.load_time = b.load_time
        /\ x.last_load = b.last_load /\ x.enableflag = b.enableflag /\ x.pending = b.pending
        /\ x.last_pattern = b.last_pattern
    BY <2>1, <2>3, <2>4, <2>5 DEF LPDDR4!RestoredBus, IsRecord, BusFields
  <2>8. \A f \in BusFields : x[f] = b[f]
    BY <2>7 DEF BusFields
  <2>9. x = b
    BY <2>5, <2>6, <2>8, SameRecord
  <2> QED BY <2>3, <2>9
<1>3. ASSUME NEW h, IsHandle(h)
      PROVE  LPDDR4!RestoredHandle(LPDDR4!NewHandle(FALSE), h) = h
  BY <1>3 DEF IsHandle, IsRecord, LPDDR4!RestoredHandle, LPDDR4!NewHandle
<1>4. bus' = bus
  BY <1>1, <1>2 DEF BusesKept, IsRecord
<1>5. handle' = handle
  BY <1>1, <1>3 DEF BusesKept, IsRecord
<1>6. clock' = clock
  BY <1>1 DEF BusesKept, NewClock, LPDDR4!NewClock, LPDDR4!RestoredClock
<1> QED BY <1>4, <1>5, <1>6

\* What is saved of the buses and handles is all there is to know of them.
LEMMA LPDDR5BusesRestored ==
    ASSUME BusesKept, standard = "LPDDR5", LPDDR5!Restore
    PROVE  UNCHANGED <<bus, handle, clock>>
<1>1. /\ bus' = [d \in Dirs |-> LPDDR5!RestoredBus(LPDDR5!NewBus(IdleLines, TRUE), bus[d])]
      /\ handle' = [d \in Dirs |-> LPDDR5!RestoredHandle(LPDDR5!NewHandle(FALSE), handle[d])]
      /\ clock' = LPDDR5!RestoredClock(LPDDR5!NewClock(FALSE), clock)
  BY DEF LPDDR5!Restore, LPDDR5!RestoreWithoutDBI, LPDDR5!RestoreLines, LPDDR5!RestoreDataBus, IdleLines, IdleLevel, High, Low
<1>2. ASSUME NEW b, IsBus(b, IdleLines)
      PROVE  LPDDR5!RestoredBus(LPDDR5!NewBus(IdleLines, TRUE), b) = b
  <2>1. LPDDR5!RestoredPending(b.pending) = b.pending
    BY <1>2, PendingShape DEF IsBus, LPDDR5!RestoredPending
  <2>2. IsRecord(LPDDR5!NewBus(IdleLines, TRUE), BusFields) /\ LPDDR5!NewBus(IdleLines, TRUE).idle = IdleLines
    <3>1. DOMAIN LPDDR5!NewBus(IdleLines, TRUE) = BusFields
      BY DEF LPDDR5!NewBus, BusFields
    <3>2. LPDDR5!NewBus(IdleLines, TRUE) = [x \in BusFields |-> LPDDR5!NewBus(IdleLines, TRUE)[x]]
      BY <3>1 DEF LPDDR5!NewBus
    <3>3. LPDDR5!NewBus(IdleLines, TRUE).idle = IdleLines
      BY DEF LPDDR5!NewBus
    <3> QED BY <3>1, <3>2, <3>3 DEF IsRecord
  <2>3. PICK new, x : new = LPDDR5!NewBus(IdleLines, TRUE) /\ x = LPDDR5!RestoredBus(new, b)
    OBVIOUS
  <2>4. IsRecord(new, BusFields) /\ new.idle = IdleLines
    BY <2>2, <2>3
  <2>5. IsRecord(b, BusFields) /\ b.idle = IdleLines
    BY <1>2 DEF IsBus
  <2>6. IsRecord(x, BusFields)
    BY <2>3, <2>4 DEF LPDDR5!RestoredBus, IsRecord
  <2>7. /\ x.idle = b.idle /\ x.stats = b.stats /\ x.burst = b.burst /\ x.load_time = b.load_time
        /\ x.last_load = b.last_load /\ x.enableflag = b.enableflag /\ x.pending = b.pending
        /\ x.last_pattern = b.last_pattern
    BY <2>1, <2>3, <2>4, <2>5 DEF LPDDR5!RestoredBus, IsRecord, BusFields
  <2>8. \A f \in BusFields : x[f] = b[f]
    BY <2>7 DEF BusFields
  <2>9. x = b
    BY <2>5, <2>6, <2>8, SameRecord
  <2> QED BY <2>3, <2>9
<1>3. ASSUME NEW h, IsHandle(h)
      PROVE  LPDDR5!RestoredHandle(LPDDR5!NewHandle(FALSE), h) = h
  BY <1>3 DEF IsHandle, IsRecord, LPDDR5!RestoredHandle, LPDDR5!NewHandle
<1>4. bus' = bus
  BY <1>1, <1>2 DEF BusesKept, IsRecord
<1>5. handle' = handle
  BY <1>1, <1>3 DEF BusesKept, IsRecord
<1>6. clock' = clock
  BY <1>1 DEF BusesKept, NewClock, LPDDR5!NewClock, LPDDR5!RestoredClock
<1> QED BY <1>4, <1>5, <1>6

\* What is saved of the buses and handles is all there is to know of them.
LEMMA LPDDR6BusesRestored ==
    ASSUME BusesKept, standard = "LPDDR6", LPDDR6!Restore
    PROVE  UNCHANGED <<bus, handle, clock>>
<1>1. /\ bus' = [d \in Dirs |-> LPDDR6!RestoredBus(LPDDR6!NewBus(IdleLines, TRUE), bus[d])]
      /\ handle' = [d \in Dirs |-> LPDDR6!RestoredHandle(LPDDR6!NewHandle(FALSE), handle[d])]
      /\ clock' = LPDDR6!RestoredClock(LPDDR6!NewClock(FALSE), clock)
  BY DEF LPDDR6!Restore, LPDDR6!RestoreWithoutDBI, LPDDR6!RestoreLines, LPDDR6!RestoreDataBus, IdleLines, IdleLevel, High, Low
<1>2. ASSUME NEW b, IsBus(b, IdleLines)
      PROVE  LPDDR6!RestoredBus(LPDDR6!NewBus(IdleLines, TRUE), b) = b
  <2>1. LPDDR6!RestoredPending(b.pending) = b.pending
    BY <1>2, PendingShape DEF IsBus, LPDDR6!RestoredPending
  <2>2. IsRecord(LPDDR6!NewBus(IdleLines, TRUE), BusFields) /\ LPDDR6!NewBus(IdleLines, TRUE).idle = IdleLines
    <3>1. DOMAIN LPDDR6!NewBus(IdleLines, TRUE) = BusFields
      BY DEF LPDDR6!NewBus, BusFields
    <3>2. LPDDR6!NewBus(IdleLines, TRUE) = [x \in BusFields |-> LPDDR6!NewBus(IdleLines, TRUE)[x]]
      BY <3>1 DEF LPDDR6!NewBus
    <3>3. LPDDR6!NewBus(IdleLines, TRUE).idle = IdleLines
      BY DEF LPDDR6!NewBus
    <3> QED BY <3>1, <3>2, <3>3 DEF IsRecord
  <2>3. PICK new, x : new = LPDDR6!NewBus(IdleLines, TRUE) /\ x = LPDDR6!RestoredBus(new, b)
    OBVIOUS
  <2>4. IsRecord(new, BusFields) /\ new.idle = IdleLines
    BY <2>2, <2>3
  <2>5. IsRecord(b, BusFields) /\ b.idle = IdleLines
    BY <1>2 DEF IsBus
  <2>6. IsRecord(x, BusFields)
    BY <2>3, <2>4 DEF LPDDR6!RestoredBus, IsRecord
  <2>7. /\ x.idle = b.idle /\ x.stats = b.stats /\ x.burst = b.burst /\ x.load_time = b.load_time
        /\ x.last_load = b.last_load /\ x.enableflag = b.enableflag /\ x.pending = b.pending
        /\ x.last_pattern = b.last_pattern
    BY <2>1, <2>3, <2>4, <2>5 DEF LPDDR6!RestoredBus, IsRecord, BusFields
  <2>8. \A f \in BusFields : x[f] = b[f]
    BY <2>7 DEF BusFields
  <2>9. x = b
    BY <2>5, <2>6, <2>8, SameRecord
  <2> QED BY <2>3, <2>9
<1>3. ASSUME NEW h, IsHandle(h)
      PROVE  LPDDR6!RestoredHandle(LPDDR6!NewHandle(FALSE), h) = h
  BY <1>3 DEF IsHandle, IsRecord, LPDDR6!RestoredHandle, LPDDR6!NewHandle
<1>4. bus' = bus
  BY <1>1, <1>2 DEF BusesKept, IsRecord
<1>5. handle' = handle
  BY <1>1, <1>3 DEF BusesKept, IsRecord
<1>6. clock' = clock
  BY <1>1 DEF BusesKept, NewClock, LPDDR6!NewClock, LPDDR6!RestoredClock
<1> QED BY <1>4, <1>5, <1>6

\* The pins that are saved, or were never used.
LEMMA PinsRestored ==
    ASSUME PinsKept, MCRestore, standard \in {"LPDDR4", "LPDDR5"} => pins = LPDDR4!NewPins
    PROVE  pins' = pins
<1>1. CASE standard = "DDR4" /\ DDR4!Restore
  <2>1. pins' = [d \in Dirs |-> [p \in 1..Width |-> DDR4!RestoredPin(DDR4!NewPin(TRUE), pins[d][p])]]
    BY <1>1 DEF DDR4!Restore, DDR4!NewPins
  <2>2. ASSUME NEW pin, IsPin(pin, TRUE)
        PROVE  DDR4!RestoredPin(DDR4!NewPin(TRUE), pin) = pin
    <3>1. DDR4!RestoredPending(pin.pending) = pin.pending
      BY <2>2, PendingShape DEF IsPin, DDR4!RestoredPending
    <3>2. IsRecord(DDR4!NewPin(TRUE), PinFields) /\ DDR4!NewPin(TRUE).idle = TRUE
      <4>1. DOMAIN DDR4!NewPin(TRUE) = PinFields
        BY DEF DDR4!NewPin, PinFields
      <4>2. DDR4!NewPin(TRUE) = [x \in PinFields |-> DDR4!NewPin(TRUE)[x]]
        BY <4>1 DEF DDR4!NewPin
      <4>3. DDR4!NewPin(TRUE).idle = TRUE
        BY DEF DDR4!NewPin
      <4> QED BY <4>1, <4>2, <4>3 DEF IsRecord
    <3>3. PICK new, x : new = DDR4!NewPin(TRUE) /\ x = DDR4!RestoredPin(new, pin)
      OBVIOUS
    <3>4. IsRecord(new, PinFields) /\ new.idle = TRUE
      BY <3>2, <3>3
    <3>5. IsRecord(pin, PinFields) /\ pin.idle = TRUE
      BY <2>2 DEF IsPin
    <3>6. IsRecord(x, PinFields)
      BY <3>3, <3>4 DEF DDR4!RestoredPin, IsRecord
    <3>7. /\ x.last_state = pin.last_state /\ x.idle = pin.idle /\ x.init_load = pin.init_load
          /\ x.last_set = pin.last_set /\ x.burst = pin.burst /\ x.load_time = pin.load_time
          /\ x.pending = pin.pending /\ x.stats = pin.stats
      BY <3>1, <3>3, <3>4, <3>5 DEF DDR4!RestoredPin, IsRecord, PinFields
    <3>8. \A f \in PinFields : x[f] = pin[f]
      BY <3>7 DEF PinFields
    <3>9. x = pin
      BY <3>5, <3>6, <3>8, SameRecord
    <3> QED BY <3>3, <3>9
  <2>3. \A d \in Dirs : pins'[d] = pins[d]
    BY <1>1, <2>1, <2>2 DEF PinsKept, IsRecord
  <2> QED BY <1>1, <2>1, <2>3 DEF PinsKept, IsRecord
<1>2. CASE standard = "DDR5" /\ DDR5!Restore
  BY <1>2 DEF DDR5!Restore, DDR5!RestoreWithoutDBI, PinsKept
<1>3. CASE standard = "LPDDR4" /\ LPDDR4!Restore
  BY <1>3 DEF LPDDR4!Restore, LPDDR4!RestoreWithoutDBI
<1>4. CASE standard = "LPDDR5" /\ LPDDR5!Restore
  <2>1. LPDDR5!NewPins = LPDDR4!NewPins
    BY DEF LPDDR5!NewPins, LPDDR4!NewPins, LPDDR5!NewPin, LPDDR4!NewPin, LPDDR5!Cleared, LPDDR4!Cleared,
           LPDDR5!Pending, LPDDR4!Pending, LPDDR5!NoStats, LPDDR4!NoStats
  <2> QED BY <1>4, <2>1 DEF LPDDR5!Restore, LPDDR5!RestoreWithoutDBI
<1>5. CASE standard = "LPDDR6" /\ LPDDR6!Restore
  BY <1>5 DEF LPDDR6!Restore, LPDDR6!RestoreWithoutDBI, PinsKept
<1> QED BY <1>1, <1>2, <1>3, <1>4, <1>5 DEF MCRestore

\* The same of the interface there is.
LEMMA BusesRestored ==
    ASSUME BusesKept, MCRestore
    PROVE  UNCHANGED <<bus, handle, clock>>
BY DDR4BusesRestored, DDR5BusesRestored, LPDDR4BusesRestored, LPDDR5BusesRestored, LPDDR6BusesRestored
   DEF MCRestore

\* What is said of the buses and pins holds at first, and is kept by every step.
LEMMA DDR4BusesInit ==
    ASSUME standard = "DDR4", DDR4!DDR4Init
    PROVE  BusesKept
<1>1. PICK on : /\ on \in BOOLEAN
                /\ bus = [d \in Dirs |-> DDR4!NewBus(IdleLines, on)]
  BY DEF DDR4!DDR4Init, DDR4!InterfaceInit, DDR4!DataBusInit, IdleLines, IdleLevel, High, Low
<1>2. handle = [d \in Dirs |-> DDR4!NewHandle(busType = "TogglingRate")]
  BY DEF DDR4!DDR4Init, DDR4!InterfaceInit, DDR4!DataBusInit
<1>3. clock = NewClock(FALSE)
  BY DEF DDR4!DDR4Init, DDR4!InterfaceInit, DDR4!NewClock, NewClock
<1>4. IsBus(DDR4!NewBus(IdleLines, on), IdleLines)
  <2>1. \A t, s : IsPending(DDR4!Cleared(DDR4!Pending(t, s))) /\ IsPending(DDR4!Pending(t, s))
    BY PendingShape DEF DDR4!Cleared, DDR4!Pending
  <2> QED BY <2>1 DEF DDR4!NewBus, IsBus, IsRecord, BusFields
<1>5. \A x : IsHandle(DDR4!NewHandle(x))
  BY DEF IsHandle, IsRecord, DDR4!NewHandle
<1> QED BY <1>1, <1>2, <1>3, <1>4, <1>5 DEF BusesKept, IsRecord

LEMMA DDR5BusesInit ==
    ASSUME standard = "DDR5", DDR5!DDR5Init
    PROVE  BusesKept
<1>1. PICK on : /\ on \in BOOLEAN
                /\ bus = [d \in Dirs |-> DDR5!NewBus(IdleLines, on)]
  BY DEF DDR5!DDR5Init, DDR5!InterfaceInit, DDR5!DataBusInit, IdleLines, IdleLevel, High, Low
<1>2. handle = [d \in Dirs |-> DDR5!NewHandle(busType = "TogglingRate")]
  BY DEF DDR5!DDR5Init, DDR5!InterfaceInit, DDR5!DataBusInit
<1>3. clock = NewClock(FALSE)
  BY DEF DDR5!DDR5Init, DDR5!InterfaceInit, DDR5!NewClock, NewClock
<1>4. IsBus(DDR5!NewBus(IdleLines, on), IdleLines)
  <2>1. \A t, s : IsPending(DDR5!Cleared(DDR5!Pending(t, s))) /\ IsPending(DDR5!Pending(t, s))
    BY PendingShape DEF DDR5!Cleared, DDR5!Pending
  <2> QED BY <2>1 DEF DDR5!NewBus, IsBus, IsRecord, BusFields
<1>5. \A x : IsHandle(DDR5!NewHandle(x))
  BY DEF IsHandle, IsRecord, DDR5!NewHandle
<1> QED BY <1>1, <1>2, <1>3, <1>4, <1>5 DEF BusesKept, IsRecord

LEMMA LPDDR4BusesInit ==
    ASSUME standard = "LPDDR4", LPDDR4!LPDDR4Init
    PROVE  BusesKept
<1>1. PICK on : /\ on \in BOOLEAN
                /\ bus = [d \in Dirs |-> LPDDR4!NewBus(IdleLines, on)]
  BY DEF LPDDR4!LPDDR4Init, LPDDR4!InterfaceInit, LPDDR4!DataBusInit, IdleLines, IdleLevel, High, Low
<1>2. handle = [d \in Dirs |-> LPDDR4!NewHandle(busType = "TogglingRate")]
  BY DEF LPDDR4!LPDDR4Init, LPDDR4!InterfaceInit, LPDDR4!DataBusInit
<1>3. clock = NewClock(FALSE)
  BY DEF LPDDR4!LPDDR4Init, LPDDR4!InterfaceInit, LPDDR4!NewClock, NewClock
<1>4. IsBus(LPDDR4!NewBus(IdleLines, on), IdleLines)
  <2>1. \A t, s : IsPending(LPDDR4!Cleared(LPDDR4!Pending(t, s))) /\ IsPending(LPDDR4!Pending(t, s))
    BY PendingShape DEF LPDDR4!Cleared, LPDDR4!Pending
  <2> QED BY <2>1 DEF LPDDR4!NewBus, IsBus, IsRecord, BusFields
<1>5. \A x : IsHandle(LPDDR4!NewHandle(x))
  BY DEF IsHandle, IsRecord, LPDDR4!NewHandle
<1> QED BY <1>1, <1>2, <1>3, <1>4, <1>5 DEF BusesKept, IsRecord

LEMMA LPDDR5BusesInit ==
    ASSUME standard = "LPDDR5", LPDDR5!LPDDR5Init
    PROVE  BusesKept
<1>1. PICK on : /\ on \in BOOLEAN
                /\ bus = [d \in Dirs |-> LPDDR5!NewBus(IdleLines, on)]
  BY DEF LPDDR5!LPDDR5Init, LPDDR5!InterfaceInit, LPDDR5!DataBusInit, IdleLines, IdleLevel, High, Low
<1>2. handle = [d \in Dirs |-> LPDDR5!NewHandle(busType = "TogglingRate")]
  BY DEF LPDDR5!LPDDR5Init, LPDDR5!InterfaceInit, LPDDR5!DataBusInit
<1>3. clock = NewClock(FALSE)
  BY DEF LPDDR5!LPDDR5Init, LPDDR5!InterfaceInit, LPDDR5!NewClock, NewClock
<1>4. IsBus(LPDDR5!NewBus(IdleLines, on), IdleLines)
  <2>1. \A t, s : IsPending(LPDDR5!Cleared(LPDDR5!Pending(t, s))) /\ IsPending(LPDDR5!Pending(t, s))
    BY PendingShape DEF LPDDR5!Cleared, LPDDR5!Pending
  <2> QED BY <2>1 DEF LPDDR5!NewBus, IsBus, IsRecord, BusFields
<1>5. \A x : IsHandle(LPDDR5!NewHandle(x))
  BY DEF IsHandle, IsRecord, LPDDR5!NewHandle
<1> QED BY <1>1, <1>2, <1>3, <1>4, <1>5 DEF BusesKept, IsRecord

LEMMA LPDDR6BusesInit ==
    ASSUME standard = "LPDDR6", LPDDR6!LPDDR6Init
    PROVE  BusesKept
<1>1. PICK on : /\ on \in BOOLEAN
                /\ bus = [d \in Dirs |-> LPDDR6!NewBus(IdleLines, on)]
  BY DEF LPDDR6!LPDDR6Init, LPDDR6!InterfaceInit, LPDDR6!DataBusInit, IdleLines, IdleLevel, High, Low
<1>2. handle = [d \in Dirs |-> LPDDR6!NewHandle(busType = "TogglingRate")]
  BY DEF LPDDR6!LPDDR6Init, LPDDR6!InterfaceInit, LPDDR6!DataBusInit
<1>3. clock = NewClock(FALSE)
  BY DEF LPDDR6!LPDDR6Init, LPDDR6!InterfaceInit, LPDDR6!NewClock, NewClock
<1>4. IsBus(LPDDR6!NewBus(IdleLines, on), IdleLines)
  <2>1. \A t, s : IsPending(LPDDR6!Cleared(LPDDR6!Pending(t, s))) /\ IsPending(LPDDR6!Pending(t, s))
    BY PendingShape DEF LPDDR6!Cleared, LPDDR6!Pending
  <2> QED BY <2>1 DEF LPDDR6!NewBus, IsBus, IsRecord, BusFields
<1>5. \A x : IsHandle(LPDDR6!NewHandle(x))
  BY DEF IsHandle, IsRecord, LPDDR6!NewHandle
<1> QED BY <1>1, <1>2, <1>3, <1>4, <1>5 DEF BusesKept, IsRecord

LEMMA InitKept ==
    ASSUME MCInit
    PROVE  BusesKept /\ PinsKept
<1>1. BusesKept
  BY DDR4BusesInit, DDR5BusesInit, LPDDR4BusesInit, LPDDR5BusesInit, LPDDR6BusesInit DEF MCInit
<1>2. CASE standard = "DDR4" /\ DDR4!DDR4Init
  <2>1. pins = [d \in Dirs |-> [p \in 1..Width |-> DDR4!NewPin(TRUE)]]
    BY <1>2 DEF DDR4!DDR4Init, DDR4!InterfaceInit, DDR4!NewPins
  <2>2. IsPin(DDR4!NewPin(TRUE), TRUE)
    <3>1. \A t, s : IsPending(DDR4!Cleared(DDR4!Pending(t, s)))
      BY PendingShape DEF DDR4!Cleared, DDR4!Pending
    <3> QED BY <3>1 DEF DDR4!NewPin, IsPin, IsRecord, PinFields
  <2>3. \A d \in Dirs : IsRecord(pins[d], 1..Width) /\ \A p \in 1..Width : pins[d][p] = DDR4!NewPin(TRUE)
    BY <2>1 DEF IsRecord
  <2> QED BY <1>1, <1>2, <2>1, <2>2, <2>3 DEF PinsKept, IsRecord
<1>3. CASE standard = "DDR5" /\ DDR5!DDR5Init
  BY <1>1, <1>3 DEF DDR5!DDR5Init, DDR5!InterfaceInit, PinsKept
<1>4. CASE standard = "LPDDR6" /\ LPDDR6!LPDDR6Init
  BY <1>1, <1>4 DEF LPDDR6!LPDDR6Init, LPDDR6!InterfaceInit, PinsKept
<1>5. CASE standard \notin {"DDR4", "DDR5", "LPDDR6"}
  BY <1>1, <1>5 DEF PinsKept
<1> QED BY <1>1, <1>2, <1>3, <1>4, <1>5 DEF MCInit

LEMMA KeptStep ==
    ASSUME BusesKept, PinsKept, Step
    PROVE  BusesKept' /\ PinsKept'
<1>1. ASSUME NEW cmd, Sendable(cmd), MCCommand(cmd)
      PROVE  BusesKept' /\ PinsKept'
  <2>1. doCommand(cmd) /\ UNCHANGED standard
    BY <1>1 DEF MCCommand
  <2>2. BusesMove
    BY <2>1, DDR4Buses, DDR5Buses, LPDDR4Buses, LPDDR5Buses, LPDDR6Buses DEF doCommand
  <2> QED BY <1>1, <2>1, <2>2, BusesMoved, CommandPins
<1>2. CASE MCSwitch
  <2>1. UNCHANGED <<standard, pins, bus, handle, clock>>
    BY <1>2 DEF MCSwitch, DDR4!enableDBI, DDR4!lines, DDR4!strobes, LPDDR6!setMetaData, LPDDR6!lines,
                LPDDR6!strobes, LPDDR6!dbiVars
  <2> QED BY <2>1, BusesSame, PinsSame
<1>3. CASE MCRestore
  <2>1. UNCHANGED <<standard, bus, handle, clock>>
    BY <1>3, BusesRestored DEF MCRestore
  <2>2. CASE standard \in {"LPDDR4", "LPDDR5"}
    BY <2>1, <2>2, BusesSame DEF PinsKept
  <2>3. CASE standard \notin {"LPDDR4", "LPDDR5"}
    BY <1>3, <2>1, <2>3, BusesSame, PinsSame, PinsRestored
  <2> QED BY <2>2, <2>3
<1>4. CASE UNCHANGED mcVars
  <2>1. UNCHANGED <<standard, pins, bus, handle, clock>>
    BY <1>4 DEF mcVars, interfaceVars, vars
  <2> QED BY <2>1, BusesSame, PinsSame
<1> QED BY <1>1, <1>2, <1>3, <1>4 DEF Step

\* The statistics are those of the buses, the pins, the bursts, and the periods of the clocks.
ClocksAlike(t) ==
    /\ \A r : PeriodsAt(wck', t, r) = PeriodsAt(wck, t, r)
    /\ \A d \in Dirs : \A r : PeriodsAt(dqs'[d], t, r) = PeriodsAt(dqs[d], t, r)
    /\ clock' = clock

\* An interface with the same buses, pins and clocks gives the same statistics.
LEMMA DDR4WindowSame ==
    ASSUME NEW t, UNCHANGED <<cmdBus, bus, handle, pins, access>>, ClocksAlike(t)
    PROVE  DDR4!WindowStats(t, 1)' = DDR4!WindowStats(t, 1)
<1>1. \A c, r : DDR4!PeriodsAt(c, t, r) = PeriodsAt(c, t, r)
  BY DEF DDR4!PeriodsAt, PeriodsAt, DDR4!count, count
<1>2. /\ \A r : DDR4!PeriodsAt(wck', t, r) = DDR4!PeriodsAt(wck, t, r)
      /\ \A r : DDR4!PeriodsAt(clock', t, r) = DDR4!PeriodsAt(clock, t, r)
      /\ \A d \in Dirs : \A r : DDR4!PeriodsAt(dqs'[d], t, r) = DDR4!PeriodsAt(dqs[d], t, r)
  BY <1>1 DEF ClocksAlike
<1>3. DDR4!CommandBusStats(t)' = DDR4!CommandBusStats(t)
  BY DEF DDR4!CommandBusStats
<1>4. [d \in Dirs |-> DDR4!PinTotal(d, t)]' = [d \in Dirs |-> DDR4!PinTotal(d, t)]
  BY DEF DDR4!PinTotal
<1> QED BY <1>2, <1>3, <1>4 DEF DDR4!WindowStats

LEMMA DDR5WindowSame ==
    ASSUME NEW t, UNCHANGED <<cmdBus, bus, handle, pins, access>>, ClocksAlike(t)
    PROVE  DDR5!WindowStats(t, 1)' = DDR5!WindowStats(t, 1)
<1>1. \A c, r : DDR5!PeriodsAt(c, t, r) = PeriodsAt(c, t, r)
  BY DEF DDR5!PeriodsAt, PeriodsAt, DDR5!count, count
<1>2. /\ \A r : DDR5!PeriodsAt(wck', t, r) = DDR5!PeriodsAt(wck, t, r)
      /\ \A r : DDR5!PeriodsAt(clock', t, r) = DDR5!PeriodsAt(clock, t, r)
      /\ \A d \in Dirs : \A r : DDR5!PeriodsAt(dqs'[d], t, r) = DDR5!PeriodsAt(dqs[d], t, r)
  BY <1>1 DEF ClocksAlike
<1>3. DDR5!CommandBusStats(t)' = DDR5!CommandBusStats(t)
  BY DEF DDR5!CommandBusStats
<1>4. [d \in Dirs |-> DDR5!PinTotal(d, t)]' = [d \in Dirs |-> DDR5!PinTotal(d, t)]
  BY DEF DDR5!PinTotal
<1> QED BY <1>2, <1>3, <1>4 DEF DDR5!WindowStats

LEMMA LPDDR4WindowSame ==
    ASSUME NEW t, UNCHANGED <<cmdBus, bus, handle, pins, access>>, ClocksAlike(t)
    PROVE  LPDDR4!WindowStats(t, 1)' = LPDDR4!WindowStats(t, 1)
<1>1. \A c, r : LPDDR4!PeriodsAt(c, t, r) = PeriodsAt(c, t, r)
  BY DEF LPDDR4!PeriodsAt, PeriodsAt, LPDDR4!count, count
<1>2. /\ \A r : LPDDR4!PeriodsAt(wck', t, r) = LPDDR4!PeriodsAt(wck, t, r)
      /\ \A r : LPDDR4!PeriodsAt(clock', t, r) = LPDDR4!PeriodsAt(clock, t, r)
      /\ \A d \in Dirs : \A r : LPDDR4!PeriodsAt(dqs'[d], t, r) = LPDDR4!PeriodsAt(dqs[d], t, r)
  BY <1>1 DEF ClocksAlike
<1>3. LPDDR4!CommandBusStats(t)' = LPDDR4!CommandBusStats(t)
  BY DEF LPDDR4!CommandBusStats
<1>4. [d \in Dirs |-> LPDDR4!PinTotal(d, t)]' = [d \in Dirs |-> LPDDR4!PinTotal(d, t)]
  BY DEF LPDDR4!PinTotal
<1> QED BY <1>2, <1>3, <1>4 DEF LPDDR4!WindowStats

LEMMA LPDDR5WindowSame ==
    ASSUME NEW t, UNCHANGED <<cmdBus, bus, handle, pins, access>>, ClocksAlike(t)
    PROVE  LPDDR5!WindowStats(t, 1)' = LPDDR5!WindowStats(t, 1)
<1>1. \A c, r : LPDDR5!PeriodsAt(c, t, r) = PeriodsAt(c, t, r)
  BY DEF LPDDR5!PeriodsAt, PeriodsAt, LPDDR5!count, count
<1>2. /\ \A r : LPDDR5!PeriodsAt(wck', t, r) = LPDDR5!PeriodsAt(wck, t, r)
      /\ \A r : LPDDR5!PeriodsAt(clock', t, r) = LPDDR5!PeriodsAt(clock, t, r)
      /\ \A d \in Dirs : \A r : LPDDR5!PeriodsAt(dqs'[d], t, r) = LPDDR5!PeriodsAt(dqs[d], t, r)
  BY <1>1 DEF ClocksAlike
<1>3. LPDDR5!CommandBusStats(t)' = LPDDR5!CommandBusStats(t)
  BY DEF LPDDR5!CommandBusStats
<1>4. [d \in Dirs |-> LPDDR5!PinTotal(d, t)]' = [d \in Dirs |-> LPDDR5!PinTotal(d, t)]
  BY DEF LPDDR5!PinTotal
<1> QED BY <1>2, <1>3, <1>4 DEF LPDDR5!WindowStats

LEMMA LPDDR6WindowSame ==
    ASSUME NEW t, UNCHANGED <<cmdBus, bus, handle, pins, access>>, ClocksAlike(t)
    PROVE  LPDDR6!WindowStats(t, 1)' = LPDDR6!WindowStats(t, 1)
<1>1. \A c, r : LPDDR6!PeriodsAt(c, t, r) = PeriodsAt(c, t, r)
  BY DEF LPDDR6!PeriodsAt, PeriodsAt, LPDDR6!count, count
<1>2. /\ \A r : LPDDR6!PeriodsAt(wck', t, r) = LPDDR6!PeriodsAt(wck, t, r)
      /\ \A r : LPDDR6!PeriodsAt(clock', t, r) = LPDDR6!PeriodsAt(clock, t, r)
      /\ \A d \in Dirs : \A r : LPDDR6!PeriodsAt(dqs'[d], t, r) = LPDDR6!PeriodsAt(dqs[d], t, r)
  BY <1>1 DEF ClocksAlike
<1>3. LPDDR6!CommandBusStats(t)' = LPDDR6!CommandBusStats(t)
  BY DEF LPDDR6!CommandBusStats
<1>4. [d \in Dirs |-> LPDDR6!PinTotal(d, t)]' = [d \in Dirs |-> LPDDR6!PinTotal(d, t)]
  BY DEF LPDDR6!PinTotal
<1> QED BY <1>2, <1>3, <1>4 DEF LPDDR6!WindowStats

\* A clock restores what it counted; where it last started matters only while it runs.
LEMMA RestoredAlike ==
    ASSUME NEW new, DOMAIN new = {"running", "last_start", "periods"}, NEW c, NEW t, NEW r
    PROVE  PeriodsAt(RestoredClock(new, c), t, r) = PeriodsAt(c, t, r)
<1>1. /\ RestoredClock(new, c).running = c.running /\ RestoredClock(new, c).periods = c.periods
      /\ c.running => RestoredClock(new, c).last_start = c.last_start
  BY DEF RestoredClock
<1> QED BY <1>1 DEF PeriodsAt

LEMMA NewClockFields ==
    ASSUME NEW x
    PROVE  DOMAIN NewClock(x) = {"running", "last_start", "periods"}
BY DEF NewClock

-----------------------------------------------------------------------------
(* What the command bus carries                                            *)

StandardSet == {"DDR4", "DDR5", "LPDDR4", "LPDDR5", "LPDDR6"}

CommandPatterns == SUBSET (1..CommandWidth)

\* When a command begins on the bus, and the slots it takes.
Begin(i) == sent[i].cmd.time * CommandSlots
On(i, n) == Begin(i) <= n /\ n < Begin(i) + Len(sent[i].words)

IdleLevels == IF IdleLevel THEN 1..CommandWidth ELSE {}
CommandLevels == [n \in Nat |-> CommandIn(n)]

\* The commands so far are over by a slot, and none had the bus at the time of another.
SentBefore(end) ==
    /\ IsSequence(sent)
    /\ \A i \in DOMAIN sent :
          /\ sent[i].cmd.time \in Nat /\ sent[i].words \in Seq(CommandPatterns)
          /\ sent[i].words = <<>> \/ Begin(i) + Len(sent[i].words) <= end
    /\ \A n \in Nat : \A i, j \in DOMAIN sent : On(i, n) /\ On(j, n) => i = j

LEMMA BeginTyped ==
    ASSUME NEW end, SentBefore(end), NEW i \in DOMAIN sent
    PROVE  /\ Begin(i) \in Nat /\ Len(sent[i].words) \in Nat /\ sent[i].words \in Seq(CommandPatterns)
           /\ \A n \in Nat : On(i, n) => sent[i].words[n - Begin(i) + 1] \in CommandPatterns
<1>1. sent[i].cmd.time \in Nat /\ sent[i].words \in Seq(CommandPatterns)
  BY DEF SentBefore
<1>2. Begin(i) \in Nat
  BY <1>1 DEF Begin, CommandSlots
<1>3. Len(sent[i].words) \in Nat
  BY <1>1
<1>4. ASSUME NEW n \in Nat, On(i, n) PROVE sent[i].words[n - Begin(i) + 1] \in CommandPatterns
  <2>1. n - Begin(i) + 1 \in 1..Len(sent[i].words)
    BY <1>2, <1>3, <1>4 DEF On
  <2> QED BY <1>1, <2>1
<1> QED BY <1>1, <1>2, <1>3, <1>4

\* What the lines carry while a command is on, and else.
CommandsCarried ==
    /\ \A n \in Nat, i \in DOMAIN sent : On(i, n) => CommandIn(n) = sent[i].words[n - Begin(i) + 1]
    /\ \A n \in Nat : (\A i \in DOMAIN sent : ~On(i, n)) => CommandIn(n) = IdleLevels
    /\ CommandIn(0 - CommandSlots) = IdleLevels

AlwaysCarried == \A end : SentBefore(end) => CommandsCarried

LEMMA CommandInIs == AlwaysCarried
<1> SUFFICES ASSUME NEW end, SentBefore(end) PROVE CommandsCarried
  BY DEF AlwaysCarried
<1>1. ASSUME NEW n
      PROVE  CommandIn(n) = IF \E i \in DOMAIN sent : On(i, n)
                            THEN LET i == CHOOSE k \in DOMAIN sent : On(k, n)
                                 IN sent[i].words[n - Begin(i) + 1]
                            ELSE IdleLevels
  BY DEF CommandIn, On, Begin, IdleLevels
<1>2. ASSUME NEW n \in Nat, NEW i \in DOMAIN sent, On(i, n)
      PROVE  CommandIn(n) = sent[i].words[n - Begin(i) + 1]
  <2> DEFINE k == CHOOSE j \in DOMAIN sent : On(j, n)
  <2>1. k \in DOMAIN sent /\ On(k, n)
    BY <1>2
  <2>2. CommandIn(n) = sent[k].words[n - Begin(k) + 1]
    BY <1>1, <1>2
  <2> HIDE DEF k
  <2>3. k = i
    BY <1>2, <2>1 DEF SentBefore
  <2> QED BY <2>2, <2>3
<1>3. ASSUME NEW n \in Nat, \A i \in DOMAIN sent : ~On(i, n)
      PROVE  CommandIn(n) = IdleLevels
  BY <1>1, <1>3
<1>4. CommandIn(0 - CommandSlots) = IdleLevels
  <2>1. \A i \in DOMAIN sent : ~On(i, 0 - CommandSlots)
    <3> TAKE i \in DOMAIN sent
    <3>1. Begin(i) \in Nat /\ 0 - CommandSlots < 0
      BY BeginTyped DEF CommandSlots
    <3> QED BY <3>1 DEF On, CommandSlots
  <2> QED BY <1>1, <2>1
<1> QED BY <1>2, <1>3, <1>4 DEF CommandsCarried

LEMMA LevelsTyped ==
    ASSUME NEW end, SentBefore(end)
    PROVE  IdleLevels \in CommandPatterns /\ CommandLevels \in [Nat -> CommandPatterns]
<1>1. IdleLevels \in CommandPatterns
  BY DEF IdleLevels, CommandPatterns
<1>2. ASSUME NEW n \in Nat PROVE CommandIn(n) \in CommandPatterns
  <2>1. CASE \A i \in DOMAIN sent : ~On(i, n)
    BY <1>1, <2>1, CommandInIs DEF AlwaysCarried, CommandsCarried
  <2>2. CASE \E i \in DOMAIN sent : On(i, n)
    <3>1. PICK i \in DOMAIN sent : On(i, n)
      BY <2>2
    <3>2. CommandIn(n) = sent[i].words[n - Begin(i) + 1]
      BY <3>1, CommandInIs DEF AlwaysCarried, CommandsCarried
    <3> QED BY <3>1, <3>2, BeginTyped
  <2> QED BY <2>1, <2>2
<1> QED BY <1>1, <1>2 DEF CommandLevels

\* What get_stats is compared with is the sum over this wave.
LEMMA CommandWaveIs ==
    ASSUME NEW end, SentBefore(end), NEW u
    PROVE  CommandWave(u) = Total([n \in Nat |->
               LET high == IF n = 0 THEN IdleLevels ELSE CommandLevels[n - 1]
                   low == CommandLevels[n]
               IN  [ones |-> Cardinality(low), zeroes |-> CommandWidth - Cardinality(low),
                    ones_to_zeroes |-> Cardinality(high \ low),
                    zeroes_to_ones |-> Cardinality(low \ high)]], 0, u)
<1> DEFINE level(n) == IF n < 0 THEN CommandIn(0 - CommandSlots) ELSE CommandIn(n)
           slot(n) == [diff(level(n - 1), level(n)) EXCEPT !.zeroes = CommandWidth - Cardinality(level(n))]
           high(n) == IF n = 0 THEN IdleLevels ELSE CommandLevels[n - 1]
           low(n) == CommandLevels[n]
           other(n) == [ones |-> Cardinality(low(n)), zeroes |-> CommandWidth - Cardinality(low(n)),
                        ones_to_zeroes |-> Cardinality(high(n) \ low(n)),
                        zeroes_to_ones |-> Cardinality(low(n) \ high(n))]
<1>1. CommandWave(u) = Total([n \in Nat |-> slot(n)], 0, u)
  BY DEF CommandWave
<1>2. ASSUME NEW n \in Nat PROVE slot(n) = other(n)
  <2>1. level(n) = low(n)
    BY DEF CommandLevels
  <2>2. level(n - 1) = high(n)
    <3>1. CASE n = 0
      BY <3>1, CommandInIs DEF AlwaysCarried, CommandsCarried
    <3>2. CASE n # 0
      BY <3>2 DEF CommandLevels
    <3> QED BY <3>1, <3>2
  <2> HIDE DEF level, high, low
  <2>3. slot(n) = [diff(high(n), low(n)) EXCEPT !.zeroes = CommandWidth - Cardinality(low(n))]
    BY <2>1, <2>2
  <2> QED BY <2>3 DEF diff
<1>3. [n \in Nat |-> slot(n)] = [n \in Nat |-> other(n)]
  BY <1>2
<1> QED BY <1>1, <1>3

\* A command after the others is on after them.
LEMMA LevelsAfter ==
    ASSUME NEW end \in Nat, SentBefore(end), UNCHANGED standard,
           NEW e, sent' = Append(sent, e), e.cmd.time \in Nat,
           NEW s, s = e.cmd.time * CommandSlots,
           NEW w, w = e.words, w \in Seq(CommandPatterns),
           w # <<>> => s >= end
    PROVE  /\ w # <<>> => /\ CommandLevels' = LoadedWave(CommandLevels, IdleLevels, s, Reverse(w))
                         /\ SentBefore(s + Len(w))'
           /\ w = <<>> => CommandLevels' = CommandLevels /\ SentBefore(end)'
<1> DEFINE n == Len(sent)
<1>0. PICK m : m = Len(sent')
  OBVIOUS
<1>1. /\ n \in Nat /\ DOMAIN sent = 1..n /\ DOMAIN sent' = 1..m
      /\ sent'[m] = e /\ \A i \in 1..n : sent'[i] = sent[i]
      /\ m = n + 1 /\ IsSequence(sent')
  <2>1. IsSequence(sent)
    BY DEF SentBefore
  <2> QED BY <1>0, <2>1, Appended
<1>2. \A i \in 1..m : i \in 1..n \/ i = m
  BY <1>1
<1>3. s \in Nat /\ Len(w) \in Nat
  BY DEF CommandSlots
<1>4. CommandSlots' = CommandSlots /\ CommandWidth' = CommandWidth /\ IdleLevels' = IdleLevels
      /\ CommandPatterns' = CommandPatterns
  BY DEF CommandSlots, CommandWidth, IdleLevels, IdleLevel, CommandPatterns
<1>5. Begin(m)' = s /\ \A i \in 1..n : Begin(i)' = Begin(i)
  BY <1>1, <1>4 DEF Begin
<1>6. /\ \A u : On(m, u)' <=> s <= u /\ u < s + Len(w)
      /\ \A u : \A i \in 1..n : On(i, u)' <=> On(i, u)
  BY <1>1, <1>5 DEF On
<1>7. \A u \in Nat : \A i \in 1..n : On(i, u) /\ On(m, u)' => FALSE
  <2> SUFFICES ASSUME NEW u \in Nat, NEW i \in 1..n, On(i, u), On(m, u)' PROVE FALSE
    OBVIOUS
  <2>1. s <= u /\ w # <<>>
    BY <1>3, <1>6
  <2>2. Begin(i) \in Nat /\ Len(sent[i].words) \in Nat /\ u < Begin(i) + Len(sent[i].words)
    BY <1>1, BeginTyped DEF On
  <2>3. sent[i].words # <<>>
    <3>1. Begin(i) <= u
      BY DEF On
    <3> QED BY <2>2, <3>1
  <2>4. Begin(i) + Len(sent[i].words) <= end
    BY <1>1, <2>3 DEF SentBefore
  <2> QED BY <1>3, <2>1, <2>2, <2>4
<1>8. \A u \in Nat : \A i, j \in 1..m : On(i, u)' /\ On(j, u)' => i = j
  <2>1. \A u \in Nat : \A i, j \in 1..n : On(i, u) /\ On(j, u) => i = j
    BY <1>1 DEF SentBefore
  <2> QED BY <1>2, <1>6, <1>7, <2>1
<1>9. \A i \in 1..m : sent'[i].cmd.time \in Nat /\ sent'[i].words \in Seq(CommandPatterns')
  BY <1>1, <1>2, <1>4 DEF SentBefore
<1>10. \A i \in 1..n : sent'[i].words = <<>> \/ Begin(i)' + Len(sent'[i].words) <= end
  BY <1>1, <1>5 DEF SentBefore
<1>11. w = <<>> => SentBefore(end)'
  BY <1>1, <1>2, <1>8, <1>9, <1>10 DEF SentBefore
<1>12. ASSUME w # <<>> PROVE SentBefore(s + Len(w))'
  <2>1. \A i \in 1..m : sent'[i].words = <<>> \/ Begin(i)' + Len(sent'[i].words) <= s + Len(w)
    <3> TAKE i \in 1..m
    <3>1. CASE i = m
      BY <1>1, <1>3, <1>5, <3>1
    <3>2. CASE i \in 1..n
      <4>1. Begin(i)' \in Nat /\ Len(sent'[i].words) \in Nat
        BY <1>1, <1>5, <3>2, BeginTyped
      <4> QED BY <1>3, <1>10, <1>12, <3>2, <4>1
    <3> QED BY <1>2, <3>1, <3>2
  <2> QED BY <1>1, <1>3, <1>8, <1>9, <2>1 DEF SentBefore
<1>13. PICK later \in Nat : SentBefore(later)'
  BY <1>3, <1>11, <1>12
<1>14. ASSUME NEW u \in Nat
       PROVE  CommandIn(u)' = IF w # <<>> /\ s <= u /\ u < s + Len(w) THEN w[u - s + 1] ELSE CommandIn(u)
  <2>1. /\ \A i \in DOMAIN sent' : On(i, u)' => CommandIn(u)' = sent'[i].words[u - Begin(i)' + 1]
        /\ (\A i \in DOMAIN sent' : ~On(i, u)') => CommandIn(u)' = IdleLevels'
    <3>1. AlwaysCarried'
      BY CommandInIs, PTL
    <3> QED BY <1>13, <3>1 DEF AlwaysCarried, CommandsCarried
  <2>2. CASE On(m, u)'
    <3>1. CommandIn(u)' = w[u - s + 1]
      BY <1>1, <1>5, <2>1, <2>2
    <3>2. w # <<>>
      BY <1>3, <1>6, <2>2
    <3> QED BY <1>6, <2>2, <3>1, <3>2
  <2>3. CASE ~On(m, u)'
    <3>1. ~(s <= u /\ u < s + Len(w))
      BY <1>6, <2>3
    <3>2. CASE \E i \in 1..n : On(i, u)
      <4>1. PICK i \in 1..n : On(i, u)
        BY <3>2
      <4>2. CommandIn(u) = sent[i].words[u - Begin(i) + 1]
        BY <1>1, <4>1, CommandInIs DEF AlwaysCarried, CommandsCarried
      <4>3. i \in 1..m /\ On(i, u)'
        BY <1>1, <1>6, <4>1
      <4>4. CommandIn(u)' = sent'[i].words[u - Begin(i)' + 1]
        BY <1>1, <2>1, <4>3
      <4> QED BY <1>1, <1>5, <3>1, <4>1, <4>2, <4>4
    <3>3. CASE \A i \in 1..n : ~On(i, u)
      <4>1. \A i \in 1..m : ~On(i, u)'
        BY <1>2, <1>6, <2>3, <3>3
      <4>2. CommandIn(u) = IdleLevels
        BY <1>1, <3>3, CommandInIs DEF AlwaysCarried, CommandsCarried
      <4> QED BY <1>1, <1>4, <2>1, <3>1, <4>1, <4>2
    <3> QED BY <3>2, <3>3
  <2> QED BY <2>2, <2>3
<1>15. ASSUME w = <<>> PROVE CommandLevels' = CommandLevels
  BY <1>14, <1>15 DEF CommandLevels
<1>16. ASSUME w # <<>> PROVE CommandLevels' = LoadedWave(CommandLevels, IdleLevels, s, Reverse(w))
  <2>1. Len(Reverse(w)) = Len(w) /\ \A k \in 1..Len(w) : Reverse(w)[k] = w[Len(w) - k + 1]
    BY <1>3 DEF Reverse
  <2>2. ASSUME NEW u \in Nat, u >= s + Len(w) PROVE CommandIn(u) = IdleLevels
    <3>1. \A i \in DOMAIN sent : ~On(i, u)
      <4> TAKE i \in DOMAIN sent
      <4>1. Begin(i) \in Nat /\ Len(sent[i].words) \in Nat
        BY BeginTyped
      <4>2. sent[i].words = <<>> \/ Begin(i) + Len(sent[i].words) <= end
        BY DEF SentBefore
      <4> QED BY <1>3, <1>16, <2>2, <4>1, <4>2 DEF On
    <3> QED BY <3>1, CommandInIs DEF AlwaysCarried, CommandsCarried
  <2>3. ASSUME NEW u \in Nat
        PROVE  CommandIn(u)' = IF u < s THEN CommandLevels[u]
                   ELSE IF u < s + Len(Reverse(w)) THEN Reverse(w)[Len(Reverse(w)) - (u - s)]
                   ELSE IdleLevels
    <3>1. CASE u < s
      BY <1>3, <1>14, <3>1 DEF CommandLevels
    <3>2. CASE u >= s /\ u < s + Len(w)
      <4> DEFINE l == Len(w)
                 k == u - s
      <4>1. l \in Nat /\ k \in Nat /\ k < l
        BY <1>3, <3>2
      <4>2. CommandIn(u)' = w[k + 1]
        BY <1>14, <1>16, <3>2
      <4>3. Len(Reverse(w)) = l /\ \A x \in 1..l : Reverse(w)[x] = w[l - x + 1]
        BY <2>1
      <4>4. ~(u < s) /\ u < s + l
        BY <1>3, <3>2
      <4> HIDE DEF l, k
      <4>5. l - k \in 1..l /\ l - (l - k) + 1 = k + 1
        BY <4>1
      <4>6. Reverse(w)[l - k] = w[k + 1]
        BY <4>3, <4>5
      <4>7. Reverse(w)[Len(Reverse(w)) - (u - s)] = w[k + 1]
        BY <4>3, <4>6 DEF k
      <4> QED BY <4>2, <4>3, <4>4, <4>7
    <3>3. CASE u >= s + Len(w)
      BY <1>3, <1>14, <2>1, <2>2, <3>3
    <3> QED BY <1>3, <3>1, <3>2, <3>3
  <2> QED BY <2>3 DEF CommandLevels, LoadedWave
<1> QED BY <1>11, <1>12, <1>15, <1>16

-----------------------------------------------------------------------------
(* What a command puts on the command bus                                  *)

DataTypes == {"RD", "RDA", "WR", "WRA"}

\* A pattern of n lines, none of which carries any of some descriptors.
PatternOf(p, n, none) ==
    /\ Len(p) \in Nat \ {0} /\ DOMAIN p = 1..Len(p)
    /\ \A w \in 1..Len(p) : DOMAIN p[w] = 1..n /\ \A l \in 1..n : p[w][l] \notin none

\* What is overridden for the length of a burst.
DDR4Overrides == {"C0", "C1", "C2"}
DDR5Overrides == {"C2", "C3", "C10"}
LPDDR4Overrides == {"C2", "C3", "C4", "BL"}
LPDDR5Overrides == {"C0"}
LPDDR6Overrides == {"C0", "BL"}

LEMMA DDR4Patterns ==
    ASSUME NEW type \in DOMAIN DDR4!Patterns
    PROVE  PatternOf(DDR4!Patterns[type], 5, IF type \in DataTypes THEN {} ELSE DDR4Overrides)
<1> USE DEF PatternOf, DDR4Overrides, DDR4!Patterns, DDR4!Deselect
<1>1. \A t \in {"RD", "RDA", "WR", "WRA"} : PatternOf(DDR4!Patterns[t], 5, {})
  OBVIOUS
<1>2. \A t \in {"ACT", "PRE", "PREA", "REFA"} : PatternOf(DDR4!Patterns[t], 5, DDR4Overrides)
  OBVIOUS
<1>3. \A t \in {"SREFEN", "PDEA", "PDEP", "PDXA"} : PatternOf(DDR4!Patterns[t], 5, DDR4Overrides)
  OBVIOUS
<1>4. PatternOf(DDR4!Patterns["PDXP"], 5, DDR4Overrides)
  OBVIOUS
<1>5. PatternOf(DDR4!Patterns["SREFEX"], 5, DDR4Overrides)
  OBVIOUS
<1> HIDE DEF PatternOf, DDR4Overrides, DDR4!Patterns, DDR4!Deselect
<1>6. type \in {"ACT", "PRE", "PREA", "REFA", "RD", "RDA", "WR", "WRA", "SREFEN", "SREFEX",
                "PDEA", "PDEP", "PDXA", "PDXP"}
  BY DEF DDR4!Patterns
<1> QED BY <1>1, <1>2, <1>3, <1>4, <1>5, <1>6 DEF DataTypes

LEMMA DDR5Patterns ==
    ASSUME NEW type \in DOMAIN DDR5!Patterns
    PROVE  PatternOf(DDR5!Patterns[type], 6, IF type \in DataTypes THEN {} ELSE DDR5Overrides)
<1> USE DEF PatternOf, DDR5Overrides, DDR5!Patterns, DDR5!PowerDownExit
<1>1. \A t \in {"RD", "RDA", "WR", "WRA"} : PatternOf(DDR5!Patterns[t], 6, {})
  OBVIOUS
<1>2. \A t \in {"ACT", "PRE", "PRESB", "REFSB"} : PatternOf(DDR5!Patterns[t], 6, DDR5Overrides)
  OBVIOUS
<1>3. \A t \in {"REFA", "PREA", "SREFEN", "PDEA"} : PatternOf(DDR5!Patterns[t], 6, DDR5Overrides)
  OBVIOUS
<1>4. \A t \in {"PDEP", "PDXA", "PDXP", "NOP"} : PatternOf(DDR5!Patterns[t], 6, DDR5Overrides)
  OBVIOUS
<1> HIDE DEF PatternOf, DDR5Overrides, DDR5!Patterns, DDR5!PowerDownExit
<1>5. type \in {"ACT", "PRE", "RD", "RDA", "WR", "WRA", "PRESB", "REFSB", "REFA", "PREA",
                "SREFEN", "PDEA", "PDEP", "PDXA", "PDXP", "NOP"}
  BY DEF DDR5!Patterns
<1> QED BY <1>1, <1>2, <1>3, <1>4, <1>5 DEF DataTypes

LEMMA LPDDR4Patterns ==
    ASSUME NEW type \in DOMAIN LPDDR4!Patterns
    PROVE  PatternOf(LPDDR4!Patterns[type], 3, IF type \in DataTypes THEN {} ELSE LPDDR4Overrides)
<1> USE DEF PatternOf, LPDDR4Overrides, LPDDR4!Patterns, LPDDR4!Column
<1>1. PatternOf(LPDDR4!Patterns["RD"], 3, {})
  OBVIOUS
<1>2. PatternOf(LPDDR4!Patterns["RDA"], 3, {})
  OBVIOUS
<1>3. PatternOf(LPDDR4!Patterns["WR"], 3, {})
  OBVIOUS
<1>4. PatternOf(LPDDR4!Patterns["WRA"], 3, {})
  OBVIOUS
<1>5. PatternOf(LPDDR4!Patterns["ACT"], 3, LPDDR4Overrides)
  OBVIOUS
<1>6. PatternOf(LPDDR4!Patterns["PRE"], 3, LPDDR4Overrides)
  OBVIOUS
<1>7. PatternOf(LPDDR4!Patterns["PREA"], 3, LPDDR4Overrides)
  OBVIOUS
<1>8. PatternOf(LPDDR4!Patterns["REFB"], 3, LPDDR4Overrides)
  OBVIOUS
<1>9. PatternOf(LPDDR4!Patterns["REFA"], 3, LPDDR4Overrides)
  OBVIOUS
<1>10. PatternOf(LPDDR4!Patterns["SREFEN"], 3, LPDDR4Overrides)
  OBVIOUS
<1>11. PatternOf(LPDDR4!Patterns["SREFEX"], 3, LPDDR4Overrides)
  OBVIOUS
<1> HIDE DEF PatternOf, LPDDR4Overrides, LPDDR4!Patterns, LPDDR4!Column
<1>12. type \in {"ACT", "PRE", "PREA", "REFB", "RD", "RDA", "WR", "WRA", "REFA", "SREFEN",
                "SREFEX"}
  BY DEF LPDDR4!Patterns
<1> QED BY <1>1, <1>2, <1>3, <1>4, <1>5, <1>6, <1>7, <1>8, <1>9, <1>10, <1>11, <1>12 DEF
       DataTypes

LEMMA LPDDR5Patterns ==
    ASSUME NEW type \in DOMAIN LPDDR5!Patterns
    PROVE  PatternOf(LPDDR5!Patterns[type], 4, IF type \in DataTypes THEN {} ELSE LPDDR5Overrides)
<1>1. LPDDR5!Patterns = LPDDR5!AllPatterns
  BY DEF LPDDR5!Patterns
<1> USE DEF PatternOf, LPDDR5Overrides, LPDDR5!AllPatterns, LPDDR5!Third, LPDDR5!Fourth,
       LPDDR5!Column, LPDDR5!Enter, LPDDR5!Exit, LPDDR5!RefreshBank
<1>2. PatternOf(LPDDR5!AllPatterns["RD"], 4, {})
  OBVIOUS
<1>3. PatternOf(LPDDR5!AllPatterns["RDA"], 4, {})
  OBVIOUS
<1>4. PatternOf(LPDDR5!AllPatterns["WR"], 4, {})
  OBVIOUS
<1>5. PatternOf(LPDDR5!AllPatterns["WRA"], 4, {})
  OBVIOUS
<1>6. PatternOf(LPDDR5!AllPatterns["ACT"], 4, LPDDR5Overrides)
  OBVIOUS
<1>7. PatternOf(LPDDR5!AllPatterns["PRE"], 4, LPDDR5Overrides)
  OBVIOUS
<1>8. PatternOf(LPDDR5!AllPatterns["PREA"], 4, LPDDR5Overrides)
  OBVIOUS
<1>9. PatternOf(LPDDR5!AllPatterns["REFB"], 4, LPDDR5Overrides)
  OBVIOUS
<1>10. PatternOf(LPDDR5!AllPatterns["REFA"], 4, LPDDR5Overrides)
  OBVIOUS
<1>11. PatternOf(LPDDR5!AllPatterns["SREFEN"], 4, LPDDR5Overrides)
  OBVIOUS
<1>12. PatternOf(LPDDR5!AllPatterns["PDEA"], 4, LPDDR5Overrides)
  OBVIOUS
<1>13. PatternOf(LPDDR5!AllPatterns["PDEP"], 4, LPDDR5Overrides)
  OBVIOUS
<1>14. PatternOf(LPDDR5!AllPatterns["DSMEN"], 4, LPDDR5Overrides)
  OBVIOUS
<1>15. PatternOf(LPDDR5!AllPatterns["SREFEX"], 4, LPDDR5Overrides)
  OBVIOUS
<1>16. PatternOf(LPDDR5!AllPatterns["PDXA"], 4, LPDDR5Overrides)
  OBVIOUS
<1>17. PatternOf(LPDDR5!AllPatterns["PDXP"], 4, LPDDR5Overrides)
  OBVIOUS
<1>18. PatternOf(LPDDR5!AllPatterns["DSMEX"], 4, LPDDR5Overrides)
  OBVIOUS
<1>19. PatternOf(LPDDR5!AllPatterns["REFP2B"], 4, LPDDR5Overrides)
  OBVIOUS
<1> HIDE DEF PatternOf, LPDDR5Overrides, LPDDR5!AllPatterns, LPDDR5!Third, LPDDR5!Fourth,
       LPDDR5!Column, LPDDR5!Enter, LPDDR5!Exit, LPDDR5!RefreshBank
<1>20. type \in {"ACT", "PRE", "PREA", "REFB", "REFA", "RD", "RDA", "WR", "WRA", "SREFEN",
                "PDEA", "PDEP", "DSMEN", "SREFEX", "PDXA", "PDXP", "DSMEX", "REFP2B"}
  BY <1>1 DEF LPDDR5!AllPatterns
<1> QED BY <1>1, <1>2, <1>3, <1>4, <1>5, <1>6, <1>7, <1>8, <1>9, <1>10, <1>11, <1>12, <1>13,
       <1>14, <1>15, <1>16, <1>17, <1>18, <1>19, <1>20 DEF DataTypes

LEMMA LPDDR6Patterns ==
    ASSUME NEW type \in DOMAIN LPDDR6!Patterns
    PROVE  PatternOf(LPDDR6!Patterns[type], 4, IF type \in DataTypes THEN {} ELSE LPDDR6Overrides)
<1> USE DEF PatternOf, LPDDR6Overrides, LPDDR6!Patterns, LPDDR6!Simple, LPDDR6!Exit,
       LPDDR6!Banks, LPDDR6!NoBanks, LPDDR6!Column, LPDDR6!Read, LPDDR6!Write
<1>1. PatternOf(LPDDR6!Patterns["RD"], 4, {})
  OBVIOUS
<1>2. PatternOf(LPDDR6!Patterns["RDA"], 4, {})
  OBVIOUS
<1>3. PatternOf(LPDDR6!Patterns["WR"], 4, {})
  OBVIOUS
<1>4. PatternOf(LPDDR6!Patterns["WRA"], 4, {})
  OBVIOUS
<1>5. PatternOf(LPDDR6!Patterns["NOP"], 4, LPDDR6Overrides)
  OBVIOUS
<1>6. PatternOf(LPDDR6!Patterns["PDEA"], 4, LPDDR6Overrides)
  OBVIOUS
<1>7. PatternOf(LPDDR6!Patterns["PDEP"], 4, LPDDR6Overrides)
  OBVIOUS
<1>8. PatternOf(LPDDR6!Patterns["PDXA"], 4, LPDDR6Overrides)
  OBVIOUS
<1>9. PatternOf(LPDDR6!Patterns["PDXP"], 4, LPDDR6Overrides)
  OBVIOUS
<1>10. PatternOf(LPDDR6!Patterns["SREFEN"], 4, LPDDR6Overrides)
  OBVIOUS
<1>11. PatternOf(LPDDR6!Patterns["SREFEX"], 4, LPDDR6Overrides)
  OBVIOUS
<1>12. PatternOf(LPDDR6!Patterns["PRE"], 4, LPDDR6Overrides)
  OBVIOUS
<1>13. PatternOf(LPDDR6!Patterns["PREA"], 4, LPDDR6Overrides)
  OBVIOUS
<1>14. PatternOf(LPDDR6!Patterns["REFDB"], 4, LPDDR6Overrides)
  OBVIOUS
<1>15. PatternOf(LPDDR6!Patterns["REFA"], 4, LPDDR6Overrides)
  OBVIOUS
<1>16. PatternOf(LPDDR6!Patterns["ACT"], 4, LPDDR6Overrides)
  OBVIOUS
<1> HIDE DEF PatternOf, LPDDR6Overrides, LPDDR6!Patterns, LPDDR6!Simple, LPDDR6!Exit,
       LPDDR6!Banks, LPDDR6!NoBanks, LPDDR6!Column, LPDDR6!Read, LPDDR6!Write
<1>17. type \in {"NOP", "PDEA", "PDEP", "PDXA", "PDXP", "SREFEN", "SREFEX", "PRE", "PREA",
                "REFDB", "REFA", "ACT", "WR", "WRA", "RD", "RDA"}
  BY DEF LPDDR6!Patterns
<1> QED BY <1>1, <1>2, <1>3, <1>4, <1>5, <1>6, <1>7, <1>8, <1>9, <1>10, <1>11, <1>12, <1>13,
       <1>14, <1>15, <1>16, <1>17 DEF DataTypes

SameBut(high, other, none) == \A d : d \notin none => (d \in high <=> d \in other)

\* Patterns look the same to encoders that agree on the descriptors they have.
LEMMA WordsAre ==
    ASSUME NEW p, NEW n, NEW none, PatternOf(p, n, none),
           NEW high, NEW other, SameBut(high, other, none)
    PROVE  /\ Words(p, high) = Words(p, other)
           /\ Words(p, high) \in Seq(SUBSET (1..n)) /\ Words(p, high) # <<>>
<1> DEFINE word(w, h) == {line \in DOMAIN p[w] : p[w][line] \in h}
<1>1. Len(p) \in Nat \ {0} /\ DOMAIN p = 1..Len(p)
  BY DEF PatternOf
<1>2. \A w \in 1..Len(p) : word(w, high) = word(w, other) /\ word(w, high) \in SUBSET (1..n)
  BY DEF PatternOf, SameBut
<1>3. Words(p, high) = [w \in 1..Len(p) |-> word(w, high)]
      /\ Words(p, other) = [w \in 1..Len(p) |-> word(w, other)]
  BY <1>1 DEF Words
<1> HIDE DEF word
<1>4. Words(p, high) \in [1..Len(p) -> SUBSET (1..n)]
  BY <1>2, <1>3
<1>5. Words(p, high) \in Seq(SUBSET (1..n)) /\ Len(Words(p, high)) = Len(p)
  BY <1>1, <1>4
<1> QED BY <1>1, <1>2, <1>3, <1>5

\* Settings that are alike but for some descriptors.
AgreeBut(f, g, none) ==
    \A d : d \notin none => (d \in DOMAIN f <=> d \in DOMAIN g) /\ (d \in DOMAIN f => f[d] = g[d])

\* Settings as they were at first, but for what is overridden.
Knows(f, first, over) ==
    /\ DOMAIN first \subseteq DOMAIN f /\ DOMAIN f \subseteq DOMAIN first \cup over
    /\ \A d \in DOMAIN first : f[d] = first[d]

LEMMA KnowsAgrees ==
    ASSUME NEW f, NEW first, NEW over, Knows(f, first, over)
    PROVE  AgreeBut(f, first, over)
BY DEF Knows, AgreeBut

\* Overriding all that is ever overridden, or all but what is removed, leaves
\* nothing of the bursts before.
LEMMA AssignedKnows ==
    ASSUME NEW f, NEW first, NEW over, Knows(f, first, over), DOMAIN first \cap over = {},
           NEW new, NEW g, DOMAIN new \subseteq over,
           \/ g = f /\ DOMAIN new = over
           \/ g = Restrict(f, DOMAIN f \ (over \ DOMAIN new))
    PROVE  /\ Knows(Assigned(g, new), first, over)
           /\ AgreeBut(Assigned(g, new), Assigned(first, new), {})
<1>1. DOMAIN Assigned(g, new) = DOMAIN g \cup DOMAIN new
      /\ DOMAIN Assigned(first, new) = DOMAIN first \cup DOMAIN new
  BY DEF Assigned
<1>2. /\ \A d \in DOMAIN g \cup DOMAIN new : Assigned(g, new)[d] = IF d \in DOMAIN new THEN new[d] ELSE g[d]
      /\ \A d \in DOMAIN first \cup DOMAIN new :
             Assigned(first, new)[d] = IF d \in DOMAIN new THEN new[d] ELSE first[d]
  BY DEF Assigned
<1>3. /\ DOMAIN g \cup DOMAIN new = DOMAIN first \cup DOMAIN new
      /\ \A d \in DOMAIN first : d \in DOMAIN g /\ g[d] = first[d]
  BY DEF Knows, Restrict
<1> QED BY <1>1, <1>2, <1>3 DEF Knows, AgreeBut

EncoderKnows ==
    /\ DOMAIN encoder = {"settings", "burstLength"}
    /\ standard = "DDR4" => Knows(encoder.settings, DDR4!InitSettings, DDR4Overrides)
    /\ standard = "DDR5" => Knows(encoder.settings, DDR5!InitSettings, DDR5Overrides)
    /\ standard = "LPDDR4" => Knows(encoder.settings, LPDDR4!InitSettings, LPDDR4Overrides)
    /\ standard = "LPDDR5" => Knows(encoder.settings, LPDDR5!InitSettings, LPDDR5Overrides)

LEMMA DDR4Words ==
    ASSUME NEW cmd, cmd.type \in DOMAIN DDR4!Patterns, NEW e, NEW f,
           AgreeBut(e.settings, f.settings, IF cmd.type \in DataTypes THEN {} ELSE DDR4Overrides)
    PROVE  /\ DDR4!Encode(e, cmd) = DDR4!Encode(f, cmd)
           /\ DDR4!Encode(e, cmd) \in Seq(SUBSET (1..5)) /\ DDR4!Encode(e, cmd) # <<>>
<1> DEFINE p == DDR4!Patterns[cmd.type]
           none == IF cmd.type \in DataTypes THEN {} ELSE DDR4Overrides
           high(x) == {d \in DDR4!Descriptors(p) : DDR4!Bit(x, d, cmd.address)}
<1>1. PatternOf(p, 5, none)
  BY DDR4Patterns
<1>2. DDR4!Encode(e, cmd) = Words(p, high(e)) /\ DDR4!Encode(f, cmd) = Words(p, high(f))
  BY DEF DDR4!Encode, DDR4!Words, Words
<1>3. \A d : d \notin none => (DDR4!Bit(e, d, cmd.address) <=> DDR4!Bit(f, d, cmd.address))
  BY DEF AgreeBut, DDR4!Bit
<1> DEFINE g == high(e)
           h == high(f)
<1>4. SameBut(g, h, none)
  BY <1>3 DEF SameBut
<1> HIDE DEF p, none, g, h
<1>5. Words(p, g) = Words(p, h) /\ Words(p, g) \in Seq(SUBSET (1..5)) /\ Words(p, g) # <<>>
  BY <1>1, <1>4, WordsAre
<1> QED BY <1>2, <1>5 DEF g, h

LEMMA DDR5Words ==
    ASSUME NEW cmd, cmd.type \in DOMAIN DDR5!Patterns, NEW e, NEW f,
           AgreeBut(e.settings, f.settings, IF cmd.type \in DataTypes THEN {} ELSE DDR5Overrides)
    PROVE  /\ DDR5!Encode(e, cmd) = DDR5!Encode(f, cmd)
           /\ DDR5!Encode(e, cmd) \in Seq(SUBSET (1..6)) /\ DDR5!Encode(e, cmd) # <<>>
<1> DEFINE p == DDR5!Patterns[cmd.type]
           none == IF cmd.type \in DataTypes THEN {} ELSE DDR5Overrides
           high(x) == {d \in DDR5!Descriptors(p) : DDR5!Bit(x, d, cmd.address)}
<1>1. PatternOf(p, 6, none)
  BY DDR5Patterns
<1>2. DDR5!Encode(e, cmd) = Words(p, high(e)) /\ DDR5!Encode(f, cmd) = Words(p, high(f))
  BY DEF DDR5!Encode, DDR5!Words, Words
<1>3. \A d : d \notin none => (DDR5!Bit(e, d, cmd.address) <=> DDR5!Bit(f, d, cmd.address))
  BY DEF AgreeBut, DDR5!Bit
<1> DEFINE g == high(e)
           h == high(f)
<1>4. SameBut(g, h, none)
  BY <1>3 DEF SameBut
<1> HIDE DEF p, none, g, h
<1>5. Words(p, g) = Words(p, h) /\ Words(p, g) \in Seq(SUBSET (1..6)) /\ Words(p, g) # <<>>
  BY <1>1, <1>4, WordsAre
<1> QED BY <1>2, <1>5 DEF g, h

LEMMA LPDDR4Words ==
    ASSUME NEW cmd, cmd.type \in DOMAIN LPDDR4!Patterns, NEW e, NEW f,
           AgreeBut(e.settings, f.settings, IF cmd.type \in DataTypes THEN {} ELSE LPDDR4Overrides)
    PROVE  /\ LPDDR4!Encode(e, cmd) = LPDDR4!Encode(f, cmd)
           /\ LPDDR4!Encode(e, cmd) \in Seq(SUBSET (1..3)) /\ LPDDR4!Encode(e, cmd) # <<>>
<1> DEFINE p == LPDDR4!Patterns[cmd.type]
           none == IF cmd.type \in DataTypes THEN {} ELSE LPDDR4Overrides
           high(x) == {d \in LPDDR4!Descriptors(p) : LPDDR4!Bit(x, d, cmd.address)}
<1>1. PatternOf(p, 3, none)
  BY LPDDR4Patterns
<1>2. LPDDR4!Encode(e, cmd) = Words(p, high(e)) /\ LPDDR4!Encode(f, cmd) = Words(p, high(f))
  BY DEF LPDDR4!Encode, LPDDR4!Words, Words
<1>3. \A d : d \notin none => (LPDDR4!Bit(e, d, cmd.address) <=> LPDDR4!Bit(f, d, cmd.address))
  BY DEF AgreeBut, LPDDR4!Bit
<1> DEFINE g == high(e)
           h == high(f)
<1>4. SameBut(g, h, none)
  BY <1>3 DEF SameBut
<1> HIDE DEF p, none, g, h
<1>5. Words(p, g) = Words(p, h) /\ Words(p, g) \in Seq(SUBSET (1..3)) /\ Words(p, g) # <<>>
  BY <1>1, <1>4, WordsAre
<1> QED BY <1>2, <1>5 DEF g, h

LEMMA LPDDR5Words ==
    ASSUME NEW cmd, cmd.type \in DOMAIN LPDDR5!Patterns, NEW e, NEW f,
           AgreeBut(e.settings, f.settings, IF cmd.type \in DataTypes THEN {} ELSE LPDDR5Overrides)
    PROVE  /\ LPDDR5!Encode(e, cmd) = LPDDR5!Encode(f, cmd)
           /\ LPDDR5!Encode(e, cmd) \in Seq(SUBSET (1..4)) /\ LPDDR5!Encode(e, cmd) # <<>>
<1> DEFINE p == LPDDR5!Patterns[cmd.type]
           none == IF cmd.type \in DataTypes THEN {} ELSE LPDDR5Overrides
           high(x) == {d \in LPDDR5!Descriptors(p) : LPDDR5!Bit(x, d, cmd.address)}
<1>1. PatternOf(p, 4, none)
  BY LPDDR5Patterns
<1>2. LPDDR5!Encode(e, cmd) = Words(p, high(e)) /\ LPDDR5!Encode(f, cmd) = Words(p, high(f))
  BY DEF LPDDR5!Encode, LPDDR5!Words, Words
<1>3. \A d : d \notin none => (LPDDR5!Bit(e, d, cmd.address) <=> LPDDR5!Bit(f, d, cmd.address))
  BY DEF AgreeBut, LPDDR5!Bit
<1> DEFINE g == high(e)
           h == high(f)
<1>4. SameBut(g, h, none)
  BY <1>3 DEF SameBut
<1> HIDE DEF p, none, g, h
<1>5. Words(p, g) = Words(p, h) /\ Words(p, g) \in Seq(SUBSET (1..4)) /\ Words(p, g) # <<>>
  BY <1>1, <1>4, WordsAre
<1> QED BY <1>2, <1>5 DEF g, h

LEMMA LPDDR6Words ==
    ASSUME NEW cmd, cmd.type \in DOMAIN LPDDR6!Patterns, NEW e, NEW f,
           cmd.type \in DataTypes => e.burstLength = f.burstLength
    PROVE  /\ LPDDR6!Encode(e, cmd) = LPDDR6!Encode(f, cmd)
           /\ LPDDR6!Encode(e, cmd) \in Seq(SUBSET (1..4)) /\ LPDDR6!Encode(e, cmd) # <<>>
<1> DEFINE p == LPDDR6!Patterns[cmd.type]
           none == IF cmd.type \in DataTypes THEN {} ELSE LPDDR6Overrides
           high(x) == {d \in LPDDR6!Descriptors(p) : LPDDR6!BitLPDDR6(x, d, cmd.address, LPDDR6!ShortBurst)}
<1>1. PatternOf(p, 4, none)
  BY LPDDR6Patterns
<1>2. LPDDR6!Encode(e, cmd) = Words(p, high(e)) /\ LPDDR6!Encode(f, cmd) = Words(p, high(f))
  BY DEF LPDDR6!Encode, LPDDR6!Words, Words
<1>3. \A d : d \notin none => (LPDDR6!BitLPDDR6(e, d, cmd.address, LPDDR6!ShortBurst)
      <=> LPDDR6!BitLPDDR6(f, d, cmd.address, LPDDR6!ShortBurst))
  BY DEF LPDDR6!BitLPDDR6, LPDDR6Overrides
<1> DEFINE g == high(e)
           h == high(f)
<1>4. SameBut(g, h, none)
  BY <1>3 DEF SameBut
<1> HIDE DEF p, none, g, h
<1>5. Words(p, g) = Words(p, h) /\ Words(p, g) \in Seq(SUBSET (1..4)) /\ Words(p, g) # <<>>
  BY <1>1, <1>4, WordsAre
<1> QED BY <1>2, <1>5 DEF g, h

-----------------------------------------------------------------------------
(* The command bus                                                         *)

\* The command buses by their number of lines.
Three == INSTANCE BusLemmas WITH Lines <- 1..3
Four == INSTANCE BusLemmas WITH Lines <- 1..4
Five == INSTANCE BusLemmas WITH Lines <- 1..5
Six == INSTANCE BusLemmas WITH Lines <- 1..6

LEMMA LinesFinite ==
    /\ IsFiniteSet(1..3) /\ IsFiniteSet(1..4) /\ IsFiniteSet(1..5) /\ IsFiniteSet(1..6)
    /\ Three!IsFiniteSet(1..3) /\ Four!IsFiniteSet(1..4)
    /\ Five!IsFiniteSet(1..5) /\ Six!IsFiniteSet(1..6)
<1>1. 1 \in Int /\ 3 \in Int /\ 4 \in Int /\ 5 \in Int /\ 6 \in Int
  OBVIOUS
<1>2. IsFiniteSet(1..3) /\ IsFiniteSet(1..4) /\ IsFiniteSet(1..5) /\ IsFiniteSet(1..6)
  BY <1>1, FS_Interval
<1>3. Three!IsFiniteSet(1..3)
  BY <1>2 DEF Three!IsFiniteSet, IsFiniteSet
<1>4. Four!IsFiniteSet(1..4)
  BY <1>2 DEF Four!IsFiniteSet, IsFiniteSet
<1>5. Five!IsFiniteSet(1..5)
  BY <1>2 DEF Five!IsFiniteSet, IsFiniteSet
<1>6. Six!IsFiniteSet(1..6)
  BY <1>2 DEF Six!IsFiniteSet, IsFiniteSet
<1> QED BY <1>2, <1>3, <1>4, <1>5, <1>6

\* The command bus of an interface is one of these.
LEMMA DDR4BusAlike ==
    /\ \A b, t : DDR4!Cmd!get_stats(b, t) = Five!get_stats(b, t)
    /\ \A b, t, w : DDR4!Cmd!load(b, t, w) = Five!load(b, t, w)
    /\ \A b : DDR4!Cmd!NewBus(b, TRUE) = Five!NewBus(b, TRUE)
<1>1. DDR4!Cmd!NoStats = Five!NoStats /\ \A x, y : DDR4!Cmd!Plus(x, y) = Five!Plus(x, y)
      /\ DDR4!Cmd!Times(x, y) = Five!Times(x, y)
BY DEF DDR4!Cmd!NoStats, Five!NoStats, DDR4!Cmd!Plus, Five!Plus, DDR4!Cmd!Times, Five!Times
<1>2. \A x, y : DDR4!Cmd!diff(x, y) = Five!diff(x, y)
BY DEF DDR4!Cmd!diff, Five!diff, DDR4!Cmd!Cardinality, Five!Cardinality, DDR4!Cmd!IsFiniteSet,
       Five!IsFiniteSet
<1>3. \A b, t : DDR4!Cmd!At(b, t) = Five!At(b, t) /\ DDR4!Cmd!EndTime(b) = Five!EndTime(b)
BY DEF DDR4!Cmd!At, Five!At, DDR4!Cmd!EndTime, Five!EndTime
<1>4. \A f, m, n : DDR4!Cmd!Total(f, m, n) = Five!Total(f, m, n)
BY DEF DDR4!Cmd!Total, Five!Total, DDR4!Cmd!NoStats, Five!NoStats, DDR4!Cmd!Plus, Five!Plus
<1>5. \A b, t : DDR4!Cmd!BurstStats(b, t) = Five!BurstStats(b, t)
BY <1>2, <1>3, <1>4 DEF DDR4!Cmd!BurstStats, Five!BurstStats
<1>6. \A b : DDR4!Cmd!BurstToIdle(b) = Five!BurstToIdle(b) /\ DDR4!Cmd!idle_stats(b) = Five!idle_stats(b)
BY <1>1, <1>2, <1>3 DEF DDR4!Cmd!BurstToIdle, Five!BurstToIdle, DDR4!Cmd!idle_stats,
       Five!idle_stats
<1>7. \A b, t : DDR4!Cmd!advance_stats(b, t) = Five!advance_stats(b, t)
BY <1>1, <1>3, <1>5, <1>6 DEF DDR4!Cmd!advance_stats, Five!advance_stats
<1>8. \A b, t : DDR4!Cmd!get_stats(b, t) = Five!get_stats(b, t)
BY <1>1, <1>7 DEF DDR4!Cmd!get_stats, Five!get_stats
<1>9. \A p, t, s : DDR4!Cmd!Cleared(p) = Five!Cleared(p) /\ DDR4!Cmd!Pending(t, s) = Five!Pending(t, s)
  BY DEF DDR4!Cmd!Cleared, Five!Cleared, DDR4!Cmd!Pending, Five!Pending
<1>10. \A b, t : DDR4!Cmd!Counted(b, t) = Five!Counted(b, t)
BY <1>1, <1>3, <1>7, <1>9 DEF DDR4!Cmd!Counted, Five!Counted
<1>11. \A b, t, w : DDR4!Cmd!Loaded(b, t, w) = Five!Loaded(b, t, w)
BY <1>2, <1>3, <1>9 DEF DDR4!Cmd!Loaded, Five!Loaded
<1>12. \A b, t, w : DDR4!Cmd!load(b, t, w) = Five!load(b, t, w)
BY <1>10, <1>11 DEF DDR4!Cmd!load, Five!load
<1>13. \A b : DDR4!Cmd!NewBus(b, TRUE) = Five!NewBus(b, TRUE)
BY <1>1, <1>2, <1>9 DEF DDR4!Cmd!NewBus, Five!NewBus
<1> QED BY <1>8, <1>12, <1>13

LEMMA DDR5BusAlike ==
    /\ \A b, t : DDR5!Cmd!get_stats(b, t) = Six!get_stats(b, t)
    /\ \A b, t, w : DDR5!Cmd!load(b, t, w) = Six!load(b, t, w)
    /\ \A b : DDR5!Cmd!NewBus(b, TRUE) = Six!NewBus(b, TRUE)
<1>1. DDR5!Cmd!NoStats = Six!NoStats /\ \A x, y : DDR5!Cmd!Plus(x, y) = Six!Plus(x, y)
      /\ DDR5!Cmd!Times(x, y) = Six!Times(x, y)
BY DEF DDR5!Cmd!NoStats, Six!NoStats, DDR5!Cmd!Plus, Six!Plus, DDR5!Cmd!Times, Six!Times
<1>2. \A x, y : DDR5!Cmd!diff(x, y) = Six!diff(x, y)
BY DEF DDR5!Cmd!diff, Six!diff, DDR5!Cmd!Cardinality, Six!Cardinality, DDR5!Cmd!IsFiniteSet,
       Six!IsFiniteSet
<1>3. \A b, t : DDR5!Cmd!At(b, t) = Six!At(b, t) /\ DDR5!Cmd!EndTime(b) = Six!EndTime(b)
BY DEF DDR5!Cmd!At, Six!At, DDR5!Cmd!EndTime, Six!EndTime
<1>4. \A f, m, n : DDR5!Cmd!Total(f, m, n) = Six!Total(f, m, n)
BY DEF DDR5!Cmd!Total, Six!Total, DDR5!Cmd!NoStats, Six!NoStats, DDR5!Cmd!Plus, Six!Plus
<1>5. \A b, t : DDR5!Cmd!BurstStats(b, t) = Six!BurstStats(b, t)
BY <1>2, <1>3, <1>4 DEF DDR5!Cmd!BurstStats, Six!BurstStats
<1>6. \A b : DDR5!Cmd!BurstToIdle(b) = Six!BurstToIdle(b) /\ DDR5!Cmd!idle_stats(b) = Six!idle_stats(b)
BY <1>1, <1>2, <1>3 DEF DDR5!Cmd!BurstToIdle, Six!BurstToIdle, DDR5!Cmd!idle_stats,
       Six!idle_stats
<1>7. \A b, t : DDR5!Cmd!advance_stats(b, t) = Six!advance_stats(b, t)
BY <1>1, <1>3, <1>5, <1>6 DEF DDR5!Cmd!advance_stats, Six!advance_stats
<1>8. \A b, t : DDR5!Cmd!get_stats(b, t) = Six!get_stats(b, t)
BY <1>1, <1>7 DEF DDR5!Cmd!get_stats, Six!get_stats
<1>9. \A p, t, s : DDR5!Cmd!Cleared(p) = Six!Cleared(p) /\ DDR5!Cmd!Pending(t, s) = Six!Pending(t, s)
  BY DEF DDR5!Cmd!Cleared, Six!Cleared, DDR5!Cmd!Pending, Six!Pending
<1>10. \A b, t : DDR5!Cmd!Counted(b, t) = Six!Counted(b, t)
BY <1>1, <1>3, <1>7, <1>9 DEF DDR5!Cmd!Counted, Six!Counted
<1>11. \A b, t, w : DDR5!Cmd!Loaded(b, t, w) = Six!Loaded(b, t, w)
BY <1>2, <1>3, <1>9 DEF DDR5!Cmd!Loaded, Six!Loaded
<1>12. \A b, t, w : DDR5!Cmd!load(b, t, w) = Six!load(b, t, w)
BY <1>10, <1>11 DEF DDR5!Cmd!load, Six!load
<1>13. \A b : DDR5!Cmd!NewBus(b, TRUE) = Six!NewBus(b, TRUE)
BY <1>1, <1>2, <1>9 DEF DDR5!Cmd!NewBus, Six!NewBus
<1> QED BY <1>8, <1>12, <1>13

LEMMA LPDDR4BusAlike ==
    /\ \A b, t : LPDDR4!Cmd!get_stats(b, t) = Three!get_stats(b, t)
    /\ \A b, t, w : LPDDR4!Cmd!load(b, t, w) = Three!load(b, t, w)
    /\ \A b : LPDDR4!Cmd!NewBus(b, TRUE) = Three!NewBus(b, TRUE)
<1>1. LPDDR4!Cmd!NoStats = Three!NoStats /\ \A x, y : LPDDR4!Cmd!Plus(x, y) = Three!Plus(x, y)
      /\ LPDDR4!Cmd!Times(x, y) = Three!Times(x, y)
BY DEF LPDDR4!Cmd!NoStats, Three!NoStats, LPDDR4!Cmd!Plus, Three!Plus, LPDDR4!Cmd!Times,
       Three!Times
<1>2. \A x, y : LPDDR4!Cmd!diff(x, y) = Three!diff(x, y)
BY DEF LPDDR4!Cmd!diff, Three!diff, LPDDR4!Cmd!Cardinality, Three!Cardinality,
       LPDDR4!Cmd!IsFiniteSet, Three!IsFiniteSet
<1>3. \A b, t : LPDDR4!Cmd!At(b, t) = Three!At(b, t) /\ LPDDR4!Cmd!EndTime(b) = Three!EndTime(b)
BY DEF LPDDR4!Cmd!At, Three!At, LPDDR4!Cmd!EndTime, Three!EndTime
<1>4. \A f, m, n : LPDDR4!Cmd!Total(f, m, n) = Three!Total(f, m, n)
BY DEF LPDDR4!Cmd!Total, Three!Total, LPDDR4!Cmd!NoStats, Three!NoStats, LPDDR4!Cmd!Plus,
       Three!Plus
<1>5. \A b, t : LPDDR4!Cmd!BurstStats(b, t) = Three!BurstStats(b, t)
BY <1>2, <1>3, <1>4 DEF LPDDR4!Cmd!BurstStats, Three!BurstStats
<1>6. \A b : LPDDR4!Cmd!BurstToIdle(b) = Three!BurstToIdle(b)
      /\ LPDDR4!Cmd!idle_stats(b) = Three!idle_stats(b)
BY <1>1, <1>2, <1>3 DEF LPDDR4!Cmd!BurstToIdle, Three!BurstToIdle, LPDDR4!Cmd!idle_stats,
       Three!idle_stats
<1>7. \A b, t : LPDDR4!Cmd!advance_stats(b, t) = Three!advance_stats(b, t)
BY <1>1, <1>3, <1>5, <1>6 DEF LPDDR4!Cmd!advance_stats, Three!advance_stats
<1>8. \A b, t : LPDDR4!Cmd!get_stats(b, t) = Three!get_stats(b, t)
BY <1>1, <1>7 DEF LPDDR4!Cmd!get_stats, Three!get_stats
<1>9. \A p, t, s : LPDDR4!Cmd!Cleared(p) = Three!Cleared(p)
      /\ LPDDR4!Cmd!Pending(t, s) = Three!Pending(t, s)
  BY DEF LPDDR4!Cmd!Cleared, Three!Cleared, LPDDR4!Cmd!Pending, Three!Pending
<1>10. \A b, t : LPDDR4!Cmd!Counted(b, t) = Three!Counted(b, t)
BY <1>1, <1>3, <1>7, <1>9 DEF LPDDR4!Cmd!Counted, Three!Counted
<1>11. \A b, t, w : LPDDR4!Cmd!Loaded(b, t, w) = Three!Loaded(b, t, w)
BY <1>2, <1>3, <1>9 DEF LPDDR4!Cmd!Loaded, Three!Loaded
<1>12. \A b, t, w : LPDDR4!Cmd!load(b, t, w) = Three!load(b, t, w)
BY <1>10, <1>11 DEF LPDDR4!Cmd!load, Three!load
<1>13. \A b : LPDDR4!Cmd!NewBus(b, TRUE) = Three!NewBus(b, TRUE)
BY <1>1, <1>2, <1>9 DEF LPDDR4!Cmd!NewBus, Three!NewBus
<1> QED BY <1>8, <1>12, <1>13

LEMMA LPDDR5BusAlike ==
    /\ \A b, t : LPDDR5!Cmd!get_stats(b, t) = Four!get_stats(b, t)
    /\ \A b, t, w : LPDDR5!Cmd!load(b, t, w) = Four!load(b, t, w)
    /\ \A b : LPDDR5!Cmd!NewBus(b, TRUE) = Four!NewBus(b, TRUE)
<1>1. LPDDR5!Cmd!NoStats = Four!NoStats /\ \A x, y : LPDDR5!Cmd!Plus(x, y) = Four!Plus(x, y)
      /\ LPDDR5!Cmd!Times(x, y) = Four!Times(x, y)
BY DEF LPDDR5!Cmd!NoStats, Four!NoStats, LPDDR5!Cmd!Plus, Four!Plus, LPDDR5!Cmd!Times,
       Four!Times
<1>2. \A x, y : LPDDR5!Cmd!diff(x, y) = Four!diff(x, y)
BY DEF LPDDR5!Cmd!diff, Four!diff, LPDDR5!Cmd!Cardinality, Four!Cardinality,
       LPDDR5!Cmd!IsFiniteSet, Four!IsFiniteSet
<1>3. \A b, t : LPDDR5!Cmd!At(b, t) = Four!At(b, t) /\ LPDDR5!Cmd!EndTime(b) = Four!EndTime(b)
BY DEF LPDDR5!Cmd!At, Four!At, LPDDR5!Cmd!EndTime, Four!EndTime
<1>4. \A f, m, n : LPDDR5!Cmd!Total(f, m, n) = Four!Total(f, m, n)
BY DEF LPDDR5!Cmd!Total, Four!Total, LPDDR5!Cmd!NoStats, Four!NoStats, LPDDR5!Cmd!Plus,
       Four!Plus
<1>5. \A b, t : LPDDR5!Cmd!BurstStats(b, t) = Four!BurstStats(b, t)
BY <1>2, <1>3, <1>4 DEF LPDDR5!Cmd!BurstStats, Four!BurstStats
<1>6. \A b : LPDDR5!Cmd!BurstToIdle(b) = Four!BurstToIdle(b)
      /\ LPDDR5!Cmd!idle_stats(b) = Four!idle_stats(b)
BY <1>1, <1>2, <1>3 DEF LPDDR5!Cmd!BurstToIdle, Four!BurstToIdle, LPDDR5!Cmd!idle_stats,
       Four!idle_stats
<1>7. \A b, t : LPDDR5!Cmd!advance_stats(b, t) = Four!advance_stats(b, t)
BY <1>1, <1>3, <1>5, <1>6 DEF LPDDR5!Cmd!advance_stats, Four!advance_stats
<1>8. \A b, t : LPDDR5!Cmd!get_stats(b, t) = Four!get_stats(b, t)
BY <1>1, <1>7 DEF LPDDR5!Cmd!get_stats, Four!get_stats
<1>9. \A p, t, s : LPDDR5!Cmd!Cleared(p) = Four!Cleared(p) /\ LPDDR5!Cmd!Pending(t, s) = Four!Pending(t, s)
  BY DEF LPDDR5!Cmd!Cleared, Four!Cleared, LPDDR5!Cmd!Pending, Four!Pending
<1>10. \A b, t : LPDDR5!Cmd!Counted(b, t) = Four!Counted(b, t)
BY <1>1, <1>3, <1>7, <1>9 DEF LPDDR5!Cmd!Counted, Four!Counted
<1>11. \A b, t, w : LPDDR5!Cmd!Loaded(b, t, w) = Four!Loaded(b, t, w)
BY <1>2, <1>3, <1>9 DEF LPDDR5!Cmd!Loaded, Four!Loaded
<1>12. \A b, t, w : LPDDR5!Cmd!load(b, t, w) = Four!load(b, t, w)
BY <1>10, <1>11 DEF LPDDR5!Cmd!load, Four!load
<1>13. \A b : LPDDR5!Cmd!NewBus(b, TRUE) = Four!NewBus(b, TRUE)
BY <1>1, <1>2, <1>9 DEF LPDDR5!Cmd!NewBus, Four!NewBus
<1> QED BY <1>8, <1>12, <1>13

LEMMA LPDDR6BusAlike ==
    /\ \A b, t : LPDDR6!Cmd!get_stats(b, t) = Four!get_stats(b, t)
    /\ \A b, t, w : LPDDR6!Cmd!load(b, t, w) = Four!load(b, t, w)
    /\ \A b : LPDDR6!Cmd!NewBus(b, TRUE) = Four!NewBus(b, TRUE)
<1>1. LPDDR6!Cmd!NoStats = Four!NoStats /\ \A x, y : LPDDR6!Cmd!Plus(x, y) = Four!Plus(x, y)
      /\ LPDDR6!Cmd!Times(x, y) = Four!Times(x, y)
BY DEF LPDDR6!Cmd!NoStats, Four!NoStats, LPDDR6!Cmd!Plus, Four!Plus, LPDDR6!Cmd!Times,
       Four!Times
<1>2. \A x, y : LPDDR6!Cmd!diff(x, y) = Four!diff(x, y)
BY DEF LPDDR6!Cmd!diff, Four!diff, LPDDR6!Cmd!Cardinality, Four!Cardinality,
       LPDDR6!Cmd!IsFiniteSet, Four!IsFiniteSet
<1>3. \A b, t : LPDDR6!Cmd!At(b, t) = Four!At(b, t) /\ LPDDR6!Cmd!EndTime(b) = Four!EndTime(b)
BY DEF LPDDR6!Cmd!At, Four!At, LPDDR6!Cmd!EndTime, Four!EndTime
<1>4. \A f, m, n : LPDDR6!Cmd!Total(f, m, n) = Four!Total(f, m, n)
BY DEF LPDDR6!Cmd!Total, Four!Total, LPDDR6!Cmd!NoStats, Four!NoStats, LPDDR6!Cmd!Plus,
       Four!Plus
<1>5. \A b, t : LPDDR6!Cmd!BurstStats(b, t) = Four!BurstStats(b, t)
BY <1>2, <1>3, <1>4 DEF LPDDR6!Cmd!BurstStats, Four!BurstStats
<1>6. \A b : LPDDR6!Cmd!BurstToIdle(b) = Four!BurstToIdle(b)
      /\ LPDDR6!Cmd!idle_stats(b) = Four!idle_stats(b)
BY <1>1, <1>2, <1>3 DEF LPDDR6!Cmd!BurstToIdle, Four!BurstToIdle, LPDDR6!Cmd!idle_stats,
       Four!idle_stats
<1>7. \A b, t : LPDDR6!Cmd!advance_stats(b, t) = Four!advance_stats(b, t)
BY <1>1, <1>3, <1>5, <1>6 DEF LPDDR6!Cmd!advance_stats, Four!advance_stats
<1>8. \A b, t : LPDDR6!Cmd!get_stats(b, t) = Four!get_stats(b, t)
BY <1>1, <1>7 DEF LPDDR6!Cmd!get_stats, Four!get_stats
<1>9. \A p, t, s : LPDDR6!Cmd!Cleared(p) = Four!Cleared(p) /\ LPDDR6!Cmd!Pending(t, s) = Four!Pending(t, s)
  BY DEF LPDDR6!Cmd!Cleared, Four!Cleared, LPDDR6!Cmd!Pending, Four!Pending
<1>10. \A b, t : LPDDR6!Cmd!Counted(b, t) = Four!Counted(b, t)
BY <1>1, <1>3, <1>7, <1>9 DEF LPDDR6!Cmd!Counted, Four!Counted
<1>11. \A b, t, w : LPDDR6!Cmd!Loaded(b, t, w) = Four!Loaded(b, t, w)
BY <1>2, <1>3, <1>9 DEF LPDDR6!Cmd!Loaded, Four!Loaded
<1>12. \A b, t, w : LPDDR6!Cmd!load(b, t, w) = Four!load(b, t, w)
BY <1>10, <1>11 DEF LPDDR6!Cmd!load, Four!load
<1>13. \A b : LPDDR6!Cmd!NewBus(b, TRUE) = Four!NewBus(b, TRUE)
BY <1>1, <1>2, <1>9 DEF LPDDR6!Cmd!NewBus, Four!NewBus
<1> QED BY <1>8, <1>12, <1>13

\* The same of the interface there is: a load, and what a bus has counted of a wave.
LoadCommand(b, s, burst) ==
    IF standard = "DDR4" THEN Five!load(b, s, burst)
    ELSE IF standard = "DDR5" THEN Six!load(b, s, burst)
    ELSE IF standard = "LPDDR4" THEN Three!load(b, s, burst)
    ELSE Four!load(b, s, burst)
CommandCounts(b, wave) ==
    IF standard = "DDR4" THEN Five!CountsWave(b, wave)
    ELSE IF standard = "DDR5" THEN Six!CountsWave(b, wave)
    ELSE IF standard = "LPDDR4" THEN Three!CountsWave(b, wave)
    ELSE Four!CountsWave(b, wave)

Loadable(b, s) == EndTime(b) <= s /\ (s > b.last_load \/ s = 0)

LEMMA CommandLoadCounts ==
    ASSUME standard \in StandardSet,
           NEW b, NEW wave \in [Nat -> CommandPatterns], CommandCounts(b, wave),
           NEW s \in Nat, Loadable(b, s), NEW burst \in Seq(CommandPatterns), burst # <<>>,
           NEW c, c = LoadCommand(b, s, burst)
    PROVE  /\ CommandCounts(c, LoadedWave(wave, b.idle, s, burst))
           /\ c.idle = b.idle /\ EndTime(c) = s + Len(burst) /\ c.last_load = s
<1>1. CASE standard = "DDR4"
  <2>1. CommandPatterns = Five!Pattern
        /\ LoadedWave(wave, b.idle, s, burst) = Five!LoadedWave(wave, b.idle, s, burst)
    BY <1>1 DEF CommandPatterns, CommandWidth, Five!Pattern, LoadedWave, Five!LoadedWave
  <2>2. Five!EndTime(b) <= s /\ (s > b.last_load \/ s = 0) /\ \A x : Five!EndTime(x) = EndTime(x)
    BY DEF Five!EndTime, EndTime, Loadable
  <2>3. Five!CountsWave(b, wave)
    BY <1>1 DEF CommandCounts
  <2>4. wave \in [Nat -> Five!Pattern] /\ burst \in Seq(Five!Pattern)
    BY <2>1
  <2>5. /\ Five!CountsWave(Five!load(b, s, burst), Five!LoadedWave(wave, b.idle, s, burst))
        /\ Five!load(b, s, burst).idle = b.idle
        /\ Five!EndTime(Five!load(b, s, burst)) = s + Len(burst)
        /\ Five!load(b, s, burst).last_load = s
    BY <2>2, <2>3, <2>4, Five!LoadCounts, LinesFinite
  <2> QED BY <1>1, <2>1, <2>2, <2>5 DEF CommandCounts, LoadCommand
<1>2. CASE standard = "DDR5"
  <2>1. CommandPatterns = Six!Pattern
        /\ LoadedWave(wave, b.idle, s, burst) = Six!LoadedWave(wave, b.idle, s, burst)
    BY <1>2 DEF CommandPatterns, CommandWidth, Six!Pattern, LoadedWave, Six!LoadedWave
  <2>2. Six!EndTime(b) <= s /\ (s > b.last_load \/ s = 0) /\ \A x : Six!EndTime(x) = EndTime(x)
    BY DEF Six!EndTime, EndTime, Loadable
  <2>3. Six!CountsWave(b, wave)
    BY <1>2 DEF CommandCounts
  <2>4. wave \in [Nat -> Six!Pattern] /\ burst \in Seq(Six!Pattern)
    BY <2>1
  <2>5. /\ Six!CountsWave(Six!load(b, s, burst), Six!LoadedWave(wave, b.idle, s, burst))
        /\ Six!load(b, s, burst).idle = b.idle
        /\ Six!EndTime(Six!load(b, s, burst)) = s + Len(burst)
        /\ Six!load(b, s, burst).last_load = s
    BY <2>2, <2>3, <2>4, Six!LoadCounts, LinesFinite
  <2> QED BY <1>2, <2>1, <2>2, <2>5 DEF CommandCounts, LoadCommand
<1>3. CASE standard = "LPDDR4"
  <2>1. CommandPatterns = Three!Pattern
        /\ LoadedWave(wave, b.idle, s, burst) = Three!LoadedWave(wave, b.idle, s, burst)
    BY <1>3 DEF CommandPatterns, CommandWidth, Three!Pattern, LoadedWave, Three!LoadedWave
  <2>2. Three!EndTime(b) <= s /\ (s > b.last_load \/ s = 0) /\ \A x : Three!EndTime(x) = EndTime(x)
    BY DEF Three!EndTime, EndTime, Loadable
  <2>3. Three!CountsWave(b, wave)
    BY <1>3 DEF CommandCounts
  <2>4. wave \in [Nat -> Three!Pattern] /\ burst \in Seq(Three!Pattern)
    BY <2>1
  <2>5. /\ Three!CountsWave(Three!load(b, s, burst), Three!LoadedWave(wave, b.idle, s, burst))
        /\ Three!load(b, s, burst).idle = b.idle
        /\ Three!EndTime(Three!load(b, s, burst)) = s + Len(burst)
        /\ Three!load(b, s, burst).last_load = s
    BY <2>2, <2>3, <2>4, Three!LoadCounts, LinesFinite
  <2> QED BY <1>3, <2>1, <2>2, <2>5 DEF CommandCounts, LoadCommand
<1>4. CASE standard \in {"LPDDR5", "LPDDR6"}
  <2>1. CommandPatterns = Four!Pattern
        /\ LoadedWave(wave, b.idle, s, burst) = Four!LoadedWave(wave, b.idle, s, burst)
    BY <1>4 DEF CommandPatterns, CommandWidth, Four!Pattern, LoadedWave, Four!LoadedWave
  <2>2. Four!EndTime(b) <= s /\ (s > b.last_load \/ s = 0) /\ \A x : Four!EndTime(x) = EndTime(x)
    BY DEF Four!EndTime, EndTime, Loadable
  <2>3. Four!CountsWave(b, wave)
    BY <1>4 DEF CommandCounts
  <2>4. wave \in [Nat -> Four!Pattern] /\ burst \in Seq(Four!Pattern)
    BY <2>1
  <2>5. /\ Four!CountsWave(Four!load(b, s, burst), Four!LoadedWave(wave, b.idle, s, burst))
        /\ Four!load(b, s, burst).idle = b.idle
        /\ Four!EndTime(Four!load(b, s, burst)) = s + Len(burst)
        /\ Four!load(b, s, burst).last_load = s
    BY <2>2, <2>3, <2>4, Four!LoadCounts, LinesFinite
  <2> QED BY <1>4, <2>1, <2>2, <2>5 DEF CommandCounts, LoadCommand
<1> QED BY <1>1, <1>2, <1>3, <1>4 DEF StandardSet

LEMMA CommandStatsAre ==
    ASSUME standard \in StandardSet, NEW end, SentBefore(end),
           cmdBus.idle = IdleLevels, CommandCounts(cmdBus, CommandLevels),
           NEW t \in Nat, t * CommandSlots >= cmdBus.last_load
    PROVE  CommandBusStats(t) = CommandWave(t * CommandSlots)
<1> DEFINE u == t * CommandSlots
           slots == [n \in Nat |->
               LET high == IF n = 0 THEN IdleLevels ELSE CommandLevels[n - 1]
                   low == CommandLevels[n]
               IN  [ones |-> Cardinality(low), zeroes |-> CommandWidth - Cardinality(low),
                    ones_to_zeroes |-> Cardinality(high \ low),
                    zeroes_to_ones |-> Cardinality(low \ high)]]
<1>0. CommandWave(u) = Total(slots, 0, u)
  BY CommandWaveIs
<1>5. u \in Nat /\ u >= cmdBus.last_load
  BY DEF CommandSlots
<1>6. CommandLevels \in [Nat -> CommandPatterns]
  BY LevelsTyped
<1>1. CASE standard = "DDR4"
  <2>1. CommandBusStats(t) = Five!get_stats(cmdBus, u)
    BY <1>1, DDR4BusAlike DEF CommandBusStats, CommandSlots, DDR4!CommandBusStats
  <2>2. Five!CountsWave(cmdBus, CommandLevels) /\ CommandLevels \in [Nat -> Five!Pattern]
    BY <1>1, <1>6 DEF CommandCounts, CommandPatterns, CommandWidth, Five!Pattern
  <2>3. Five!get_stats(cmdBus, u) = Five!Total(Five!WaveSlots(CommandLevels, cmdBus.idle), 0, u)
    <3> HIDE DEF u
    <3> QED BY <1>5, <2>2, Five!GetCounts, LinesFinite
  <2>4. \A S : Five!Cardinality(S) = Cardinality(S)
    BY DEF Five!Cardinality, Cardinality, Five!IsFiniteSet, IsFiniteSet
  <2>5. Cardinality(1..5) = CommandWidth
    <3>1. 1 \in Int /\ 5 \in Int
      OBVIOUS
    <3>2. Cardinality(1..5) = IF 1 > 5 THEN 0 ELSE 5 - 1 + 1
      BY <3>1, FS_Interval
    <3>3. Cardinality(1..5) = 5
      BY <3>2
    <3> QED BY <1>1, <3>3 DEF CommandWidth
  <2>6. Five!WaveSlots(CommandLevels, cmdBus.idle) = slots
    BY <2>4, <2>5 DEF Five!WaveSlots, Five!diff
  <2>7. Five!Total(slots, 0, u) = Total(slots, 0, u)
    BY DEF Five!Total, Five!NoStats, Five!Plus, Total, NoStats, Plus
  <2> QED BY <1>0, <2>1, <2>3, <2>6, <2>7
<1>2. CASE standard = "DDR5"
  <2>1. CommandBusStats(t) = Six!get_stats(cmdBus, u)
    BY <1>2, DDR5BusAlike DEF CommandBusStats, CommandSlots, DDR5!CommandBusStats
  <2>2. Six!CountsWave(cmdBus, CommandLevels) /\ CommandLevels \in [Nat -> Six!Pattern]
    BY <1>2, <1>6 DEF CommandCounts, CommandPatterns, CommandWidth, Six!Pattern
  <2>3. Six!get_stats(cmdBus, u) = Six!Total(Six!WaveSlots(CommandLevels, cmdBus.idle), 0, u)
    <3> HIDE DEF u
    <3> QED BY <1>5, <2>2, Six!GetCounts, LinesFinite
  <2>4. \A S : Six!Cardinality(S) = Cardinality(S)
    BY DEF Six!Cardinality, Cardinality, Six!IsFiniteSet, IsFiniteSet
  <2>5. Cardinality(1..6) = CommandWidth
    <3>1. 1 \in Int /\ 6 \in Int
      OBVIOUS
    <3>2. Cardinality(1..6) = IF 1 > 6 THEN 0 ELSE 6 - 1 + 1
      BY <3>1, FS_Interval
    <3>3. Cardinality(1..6) = 6
      BY <3>2
    <3> QED BY <1>2, <3>3 DEF CommandWidth
  <2>6. Six!WaveSlots(CommandLevels, cmdBus.idle) = slots
    BY <2>4, <2>5 DEF Six!WaveSlots, Six!diff
  <2>7. Six!Total(slots, 0, u) = Total(slots, 0, u)
    BY DEF Six!Total, Six!NoStats, Six!Plus, Total, NoStats, Plus
  <2> QED BY <1>0, <2>1, <2>3, <2>6, <2>7
<1>3. CASE standard = "LPDDR4"
  <2>1. CommandBusStats(t) = Three!get_stats(cmdBus, u)
    BY <1>3, LPDDR4BusAlike DEF CommandBusStats, CommandSlots, LPDDR4!CommandBusStats
  <2>2. Three!CountsWave(cmdBus, CommandLevels) /\ CommandLevels \in [Nat -> Three!Pattern]
    BY <1>3, <1>6 DEF CommandCounts, CommandPatterns, CommandWidth, Three!Pattern
  <2>3. Three!get_stats(cmdBus, u) = Three!Total(Three!WaveSlots(CommandLevels, cmdBus.idle), 0, u)
    <3> HIDE DEF u
    <3> QED BY <1>5, <2>2, Three!GetCounts, LinesFinite
  <2>4. \A S : Three!Cardinality(S) = Cardinality(S)
    BY DEF Three!Cardinality, Cardinality, Three!IsFiniteSet, IsFiniteSet
  <2>5. Cardinality(1..3) = CommandWidth
    <3>1. 1 \in Int /\ 3 \in Int
      OBVIOUS
    <3>2. Cardinality(1..3) = IF 1 > 3 THEN 0 ELSE 3 - 1 + 1
      BY <3>1, FS_Interval
    <3>3. Cardinality(1..3) = 3
      BY <3>2
    <3> QED BY <1>3, <3>3 DEF CommandWidth
  <2>6. Three!WaveSlots(CommandLevels, cmdBus.idle) = slots
    BY <2>4, <2>5 DEF Three!WaveSlots, Three!diff
  <2>7. Three!Total(slots, 0, u) = Total(slots, 0, u)
    BY DEF Three!Total, Three!NoStats, Three!Plus, Total, NoStats, Plus
  <2> QED BY <1>0, <2>1, <2>3, <2>6, <2>7
<1>4. CASE standard \in {"LPDDR5", "LPDDR6"}
  <2>1. CommandBusStats(t) = Four!get_stats(cmdBus, u)
    BY <1>4, LPDDR5BusAlike, LPDDR6BusAlike
       DEF CommandBusStats, CommandSlots, LPDDR5!CommandBusStats, LPDDR6!CommandBusStats
  <2>2. Four!CountsWave(cmdBus, CommandLevels) /\ CommandLevels \in [Nat -> Four!Pattern]
    BY <1>4, <1>6 DEF CommandCounts, CommandPatterns, CommandWidth, Four!Pattern
  <2>3. Four!get_stats(cmdBus, u) = Four!Total(Four!WaveSlots(CommandLevels, cmdBus.idle), 0, u)
    <3> HIDE DEF u
    <3> QED BY <1>5, <2>2, Four!GetCounts, LinesFinite
  <2>4. \A S : Four!Cardinality(S) = Cardinality(S)
    BY DEF Four!Cardinality, Cardinality, Four!IsFiniteSet, IsFiniteSet
  <2>5. Cardinality(1..4) = CommandWidth
    <3>1. 1 \in Int /\ 4 \in Int
      OBVIOUS
    <3>2. Cardinality(1..4) = IF 1 > 4 THEN 0 ELSE 4 - 1 + 1
      BY <3>1, FS_Interval
    <3>3. Cardinality(1..4) = 4
      BY <3>2
    <3> QED BY <1>4, <3>3 DEF CommandWidth
  <2>6. Four!WaveSlots(CommandLevels, cmdBus.idle) = slots
    BY <2>4, <2>5 DEF Four!WaveSlots, Four!diff
  <2>7. Four!Total(slots, 0, u) = Total(slots, 0, u)
    BY DEF Four!Total, Four!NoStats, Four!Plus, Total, NoStats, Plus
  <2> QED BY <1>0, <2>1, <2>3, <2>6, <2>7
<1> QED BY <1>1, <1>2, <1>3, <1>4 DEF StandardSet

\* What a command makes of the command bus and its encoder.
CommandBusOf(cmd) ==
    LET s == cmd.time * CommandSlots
        words == FreshWords(cmd)
    IN  /\ EncoderKnows'
        /\ cmd.time >= now
        /\ HasWords(cmd) => /\ words \in Seq(CommandPatterns) /\ words # <<>>
                            /\ Loadable(cmdBus, s)
                            /\ cmdBus' = LoadCommand(cmdBus, s, Reverse(words))
        /\ ~HasWords(cmd) => cmdBus' = cmdBus

LEMMA DDR4CommandBus ==
    ASSUME standard = "DDR4", UNCHANGED standard, EncoderKnows, NEW cmd, Sendable(cmd), DDR4!doCommand(cmd)
    PROVE  CommandBusOf(cmd)
<1> DEFINE n == BeatsOf(cmd)
           d == Direction(cmd)
           data == IsDataCommand(cmd)
           new == NewEncoder(DDR4!InitSettings)
           fresh == IF data THEN updateSettings(new, DDR4!Overrides(n, d)) ELSE new
           s == cmd.time * CommandSlots
<1>1. CommandSlots = 1 /\ CommandPatterns = SUBSET (1..5) /\ n \in Nat
  BY BeatsTyped DEF CommandSlots, CommandPatterns, CommandWidth
<1>2. \A words : DDR4!handleCommandBus(cmd.time, words) =>
          /\ Loadable(cmdBus, s)
          /\ cmdBus' = LoadCommand(cmdBus, s, Reverse(words))
  BY <1>1, DDR4BusAlike
     DEF DDR4!handleCommandBus, DDR4!EndTime, EndTime, DDR4!Reverse, Reverse, LoadCommand, Loadable
<1>3. FreshWords(cmd) = DDR4!Encode(fresh, cmd)
  BY DEF FreshWords
<1>4. HasWords(cmd) <=> cmd.type # "END_OF_SIMULATION"
  BY DEF HasWords
<1>5. DOMAIN encoder = {"settings", "burstLength"}
      /\ Knows(encoder.settings, DDR4!InitSettings, DDR4Overrides)
  BY DEF EncoderKnows
<1>6. ASSUME cmd.type \in DataTypes, DDR4!handleData(cmd, d)
      PROVE  CommandBusOf(cmd)
  <2> DEFINE e == DDR4!Overridden(encoder, n, d)
  <2>1. n = DDR4!length(cmd)
    BY DEF BeatsOf, DDR4!length
  <2>2. encoder' = e /\ DDR4!handleCommandBus(cmd.time, DDR4!Encode(e, cmd)) /\ cmd.time >= now
    BY <1>6, <2>1 DEF DDR4!handleData, DDR4!loadData, DDR4!Load
  <2>3. data /\ d \in {"read", "write"} /\ cmd.type \in DOMAIN DDR4!Patterns /\ HasWords(cmd)
    BY <1>4, <1>6 DEF DataTypes, IsDataCommand, Direction, DDR4!Patterns
  <2>4. EncoderKnows' /\ AgreeBut(e.settings, fresh.settings, {})
    <3> DEFINE o == DDR4!Overrides(n, d)
    <3>1. DOMAIN o = DDR4Overrides
      BY <2>3 DEF DDR4!Overrides, DDR4Overrides
    <3>2. DOMAIN DDR4!InitSettings \cap DDR4Overrides = {}
      BY DEF DDR4!InitSettings, DDR4Overrides
    <3>3. e.settings = Assigned(encoder.settings, o) /\ DOMAIN e = DOMAIN encoder
      BY <1>5 DEF DDR4!Overridden, DDR4!updateSettings, DDR4!Assigned, Assigned
    <3>4. fresh.settings = Assigned(DDR4!InitSettings, o)
      BY <2>3 DEF updateSettings, NewEncoder
    <3> HIDE DEF o, e, fresh
    <3>5. /\ Knows(Assigned(encoder.settings, o), DDR4!InitSettings, DDR4Overrides)
          /\ AgreeBut(Assigned(encoder.settings, o), Assigned(DDR4!InitSettings, o), {})
      BY <1>5, <3>1, <3>2, AssignedKnows
    <3> QED BY <1>5, <2>2, <3>3, <3>4, <3>5 DEF EncoderKnows
  <2> HIDE DEF e, fresh
  <2>5. /\ DDR4!Encode(e, cmd) = DDR4!Encode(fresh, cmd)
        /\ DDR4!Encode(e, cmd) \in Seq(SUBSET (1..5)) /\ DDR4!Encode(e, cmd) # <<>>
    BY <1>6, <2>3, <2>4, DDR4Words
  <2> QED BY <1>1, <1>2, <1>3, <2>2, <2>3, <2>4, <2>5 DEF CommandBusOf
<1>7. ASSUME cmd.type \in DOMAIN DDR4!Patterns \ DataTypes, DDR4!busCommand(cmd, DDR4!Encode(encoder, cmd))
      PROVE  CommandBusOf(cmd)
  <2>1. encoder' = encoder /\ DDR4!handleCommandBus(cmd.time, DDR4!Encode(encoder, cmd)) /\ cmd.time >= now
    BY <1>7 DEF DDR4!busCommand
  <2>2. cmd.type \in DOMAIN DDR4!Patterns /\ cmd.type \notin DataTypes /\ HasWords(cmd) /\ ~data
    BY <1>4, <1>7 DEF DataTypes, IsDataCommand, DDR4!Patterns
  <2>3. EncoderKnows'
    BY <2>1 DEF EncoderKnows
  <2>4. AgreeBut(encoder.settings, fresh.settings, DDR4Overrides)
    <3>1. fresh.settings = DDR4!InitSettings
      BY <2>2 DEF NewEncoder
    <3> QED BY <1>5, <3>1, KnowsAgrees
  <2> HIDE DEF fresh
  <2>5. /\ DDR4!Encode(encoder, cmd) = DDR4!Encode(fresh, cmd)
        /\ DDR4!Encode(encoder, cmd) \in Seq(SUBSET (1..5)) /\ DDR4!Encode(encoder, cmd) # <<>>
    BY <2>2, <2>4, DDR4Words
  <2> QED BY <1>1, <1>2, <1>3, <2>1, <2>2, <2>3, <2>5 DEF CommandBusOf
<1>8. ASSUME ~HasWords(cmd), cmd.time >= now, UNCHANGED <<cmdBus, encoder>>
      PROVE  CommandBusOf(cmd)
  BY <1>8 DEF CommandBusOf, EncoderKnows
<1>9. CASE cmd.type \in {"RD", "RDA"} /\ DDR4!handleData(cmd, "read")
  BY <1>6, <1>9 DEF Direction, DataTypes
<1>10. CASE cmd.type \in {"WR", "WRA"} /\ DDR4!handleData(cmd, "write")
  BY <1>6, <1>10 DEF Direction, DataTypes
<1>11. CASE cmd.type \in DOMAIN DDR4!Patterns \ {"RD", "RDA", "WR", "WRA"}
            /\ DDR4!busCommand(cmd, DDR4!Encode(encoder, cmd))
  BY <1>7, <1>11 DEF DataTypes
<1>12. CASE cmd.type = "END_OF_SIMULATION" /\ DDR4!endOfSimulation(cmd.time, DDR4!Config)
  BY <1>4, <1>8, <1>12 DEF DDR4!endOfSimulation, DDR4!lines
<1> QED BY <1>9, <1>10, <1>11, <1>12 DEF DDR4!doCommand

LEMMA DDR5CommandBus ==
    ASSUME standard = "DDR5", UNCHANGED standard, EncoderKnows, NEW cmd, Sendable(cmd), DDR5!doCommand(cmd)
    PROVE  CommandBusOf(cmd)
<1> DEFINE n == BeatsOf(cmd)
           d == Direction(cmd)
           data == IsDataCommand(cmd)
           new == NewEncoder(DDR5!InitSettings)
           h == IF d = "write" THEN "H" ELSE "L"
           o == [C2 |-> h, C3 |-> IF n = 1 THEN "L" ELSE h]
           long == [C2 |-> h, C3 |-> h, C10 |-> "L"]
           fresh == IF data THEN updateSettings(new, IF n = 4 THEN long ELSE o) ELSE new
           s == cmd.time * CommandSlots
<1>1. CommandSlots = 1 /\ CommandPatterns = SUBSET (1..6) /\ n \in Nat
  BY BeatsTyped DEF CommandSlots, CommandPatterns, CommandWidth
<1>2. \A words : DDR5!handleCommandBus(cmd.time, words) =>
          /\ Loadable(cmdBus, s)
          /\ cmdBus' = LoadCommand(cmdBus, s, Reverse(words))
  BY <1>1, DDR5BusAlike
     DEF DDR5!handleCommandBus, DDR5!EndTime, EndTime, DDR5!Reverse, Reverse, LoadCommand, Loadable
<1>3. FreshWords(cmd) = DDR5!Encode(fresh, cmd)
  BY DEF FreshWords
<1>4. HasWords(cmd) <=> cmd.type # "END_OF_SIMULATION"
  BY DEF HasWords
<1>5. DOMAIN encoder = {"settings", "burstLength"}
      /\ Knows(encoder.settings, DDR5!InitSettings, DDR5Overrides)
  BY DEF EncoderKnows
<1>6. ASSUME cmd.type \in DataTypes, DDR5!handleData(cmd, d)
      PROVE  CommandBusOf(cmd)
  <2> DEFINE e == DDR5!Overridden(encoder, n, d)
  <2>1. n = DDR5!length(cmd)
    BY DEF BeatsOf, DDR5!length
  <2>2. encoder' = e /\ DDR5!handleCommandBus(cmd.time, DDR5!Encode(e, cmd)) /\ cmd.time >= now
    BY <1>6, <2>1 DEF DDR5!handleData, DDR5!loadData, DDR5!Load
  <2>3. data /\ d \in {"read", "write"} /\ cmd.type \in DOMAIN DDR5!Patterns /\ HasWords(cmd)
    BY <1>4, <1>6 DEF DataTypes, IsDataCommand, Direction, DDR5!Patterns
  <2>4. EncoderKnows' /\ AgreeBut(e.settings, fresh.settings, {})
    <3> DEFINE g == IF n = 4 THEN encoder.settings
                    ELSE Restrict(encoder.settings, DOMAIN encoder.settings \ {"C10"})
               c == IF n = 4 THEN long ELSE o
    <3>1. /\ DOMAIN c \subseteq DDR5Overrides
          /\ IF n = 4 THEN DOMAIN c = DDR5Overrides ELSE DDR5Overrides \ DOMAIN c = {"C10"}
      BY DEF DDR5Overrides
    <3>2. DOMAIN DDR5!InitSettings \cap DDR5Overrides = {}
      BY DEF DDR5!InitSettings, DDR5Overrides
    <3>3. e.settings = Assigned(g, c) /\ DOMAIN e = DOMAIN encoder
      <4>1. CASE n = 4
        BY <1>5, <2>3, <4>1
           DEF DDR5!Overridden, DDR5!updateSettings, DDR5!Assigned, DDR5!removeSetting,
               DDR5!Restrict, Assigned, Restrict
      <4>2. CASE ~(n = 4)
        <5>1. n * 8 # 32 /\ (n * 8 # 8 <=> n # 1)
          BY <1>1, <4>2
        <5> HIDE DEF n
        <5> QED BY <1>5, <2>3, <4>2, <5>1
           DEF DDR5!Overridden, DDR5!updateSettings, DDR5!Assigned, DDR5!removeSetting,
               DDR5!Restrict, Assigned, Restrict
      <4> QED BY <4>1, <4>2
    <3>4. fresh.settings = Assigned(DDR5!InitSettings, c)
      BY <2>3 DEF updateSettings, NewEncoder
    <3>5. \/ g = encoder.settings /\ DOMAIN c = DDR5Overrides
          \/ g = Restrict(encoder.settings, DOMAIN encoder.settings \ (DDR5Overrides \ DOMAIN c))
      BY <3>1
    <3> HIDE DEF g, c, e, fresh
    <3>6. /\ Knows(Assigned(g, c), DDR5!InitSettings, DDR5Overrides)
          /\ AgreeBut(Assigned(g, c), Assigned(DDR5!InitSettings, c), {})
      BY <1>5, <3>1, <3>2, <3>5, AssignedKnows
    <3> QED BY <1>5, <2>2, <3>3, <3>4, <3>6 DEF EncoderKnows
  <2> HIDE DEF e, fresh
  <2>5. /\ DDR5!Encode(e, cmd) = DDR5!Encode(fresh, cmd)
        /\ DDR5!Encode(e, cmd) \in Seq(SUBSET (1..6)) /\ DDR5!Encode(e, cmd) # <<>>
    BY <1>6, <2>3, <2>4, DDR5Words
  <2> QED BY <1>1, <1>2, <1>3, <2>2, <2>3, <2>4, <2>5 DEF CommandBusOf
<1>7. ASSUME cmd.type \in DOMAIN DDR5!Patterns \ DataTypes, DDR5!busCommand(cmd, DDR5!Encode(encoder, cmd))
      PROVE  CommandBusOf(cmd)
  <2>1. encoder' = encoder /\ DDR5!handleCommandBus(cmd.time, DDR5!Encode(encoder, cmd)) /\ cmd.time >= now
    BY <1>7 DEF DDR5!busCommand
  <2>2. cmd.type \in DOMAIN DDR5!Patterns /\ cmd.type \notin DataTypes /\ HasWords(cmd) /\ ~data
    BY <1>4, <1>7 DEF DataTypes, IsDataCommand, DDR5!Patterns
  <2>3. EncoderKnows'
    BY <2>1 DEF EncoderKnows
  <2>4. AgreeBut(encoder.settings, fresh.settings, DDR5Overrides)
    <3>1. fresh.settings = DDR5!InitSettings
      BY <2>2 DEF NewEncoder
    <3> QED BY <1>5, <3>1, KnowsAgrees
  <2> HIDE DEF fresh
  <2>5. /\ DDR5!Encode(encoder, cmd) = DDR5!Encode(fresh, cmd)
        /\ DDR5!Encode(encoder, cmd) \in Seq(SUBSET (1..6)) /\ DDR5!Encode(encoder, cmd) # <<>>
    BY <2>2, <2>4, DDR5Words
  <2> QED BY <1>1, <1>2, <1>3, <2>1, <2>2, <2>3, <2>5 DEF CommandBusOf
<1>8. ASSUME ~HasWords(cmd), cmd.time >= now, UNCHANGED <<cmdBus, encoder>>
      PROVE  CommandBusOf(cmd)
  BY <1>8 DEF CommandBusOf, EncoderKnows
<1>9. CASE cmd.type \in {"RD", "RDA"} /\ DDR5!handleData(cmd, "read")
  BY <1>6, <1>9 DEF Direction, DataTypes
<1>10. CASE cmd.type \in {"WR", "WRA"} /\ DDR5!handleData(cmd, "write")
  BY <1>6, <1>10 DEF Direction, DataTypes
<1>11. CASE cmd.type \in DOMAIN DDR5!Patterns \ {"RD", "RDA", "WR", "WRA"}
            /\ DDR5!busCommand(cmd, DDR5!Encode(encoder, cmd))
  BY <1>7, <1>11 DEF DataTypes
<1>12. CASE cmd.type = "END_OF_SIMULATION" /\ cmd.time >= now /\ UNCHANGED <<DDR5!lines, encoder>>
  BY <1>4, <1>8, <1>12 DEF DDR5!lines
<1> QED BY <1>9, <1>10, <1>11, <1>12 DEF DDR5!doCommand

LEMMA LPDDR4CommandBus ==
    ASSUME standard = "LPDDR4", UNCHANGED standard, EncoderKnows, NEW cmd, Sendable(cmd),
           LPDDR4!doCommand(cmd)
    PROVE  CommandBusOf(cmd)
<1> DEFINE n == BeatsOf(cmd)
           d == Direction(cmd)
           data == IsDataCommand(cmd)
           new == NewEncoder(LPDDR4!InitSettings)
           o == [C2 |-> "L", C3 |-> "L", BL |-> "L"]
           long == [C2 |-> "L", C3 |-> "L", C4 |-> "L", BL |-> "H"]
           fresh == IF data THEN updateSettings(new, IF n = 8 THEN long ELSE o) ELSE new
           s == cmd.time * CommandSlots
<1>1. CommandSlots = 1 /\ CommandPatterns = SUBSET (1..3) /\ n \in Nat
  BY BeatsTyped DEF CommandSlots, CommandPatterns, CommandWidth
<1>2. \A words : LPDDR4!handleCommandBus(cmd.time, words) =>
          /\ Loadable(cmdBus, s)
          /\ cmdBus' = LoadCommand(cmdBus, s, Reverse(words))
  BY <1>1, LPDDR4BusAlike
     DEF LPDDR4!handleCommandBus, LPDDR4!EndTime, EndTime, LPDDR4!Reverse, Reverse, LoadCommand,
         Loadable
<1>3. FreshWords(cmd) = LPDDR4!Encode(fresh, cmd)
  BY DEF FreshWords
<1>4. HasWords(cmd) <=> cmd.type # "END_OF_SIMULATION" /\ cmd.type \notin LPDDR4!PowerDowns
  BY DEF HasWords
<1>5. DOMAIN encoder = {"settings", "burstLength"}
      /\ Knows(encoder.settings, LPDDR4!InitSettings, LPDDR4Overrides)
  BY DEF EncoderKnows
<1>6. ASSUME cmd.type \in DataTypes, LPDDR4!handleData(cmd, d)
      PROVE  CommandBusOf(cmd)
  <2> DEFINE e == LPDDR4!Overridden(encoder, n, d)
  <2>1. n = LPDDR4!length(cmd)
    BY DEF BeatsOf, LPDDR4!length
  <2>2. encoder' = e /\ LPDDR4!handleCommandBus(cmd.time, LPDDR4!Encode(e, cmd)) /\ cmd.time >= now
    BY <1>6, <2>1 DEF LPDDR4!handleData, LPDDR4!loadData, LPDDR4!Load
  <2>3. data /\ d \in {"read", "write"} /\ cmd.type \in DOMAIN LPDDR4!Patterns /\ HasWords(cmd)
    BY <1>4, <1>6 DEF DataTypes, IsDataCommand, Direction, LPDDR4!PowerDowns, LPDDR4!Patterns
  <2>4. EncoderKnows' /\ AgreeBut(e.settings, fresh.settings, {})
    <3> DEFINE g == IF n = 8 THEN encoder.settings
                    ELSE Restrict(encoder.settings, DOMAIN encoder.settings \ {"C4"})
               c == IF n = 8 THEN long ELSE o
    <3>1. /\ DOMAIN c \subseteq LPDDR4Overrides
          /\ IF n = 8 THEN DOMAIN c = LPDDR4Overrides ELSE LPDDR4Overrides \ DOMAIN c = {"C4"}
      BY DEF LPDDR4Overrides
    <3>2. DOMAIN LPDDR4!InitSettings \cap LPDDR4Overrides = {}
      BY DEF LPDDR4!InitSettings, LPDDR4Overrides
    <3>3. e.settings = Assigned(g, c) /\ DOMAIN e = DOMAIN encoder
      <4>1. CASE n = 8
        BY <1>5, <2>3, <4>1
           DEF LPDDR4!Overridden, LPDDR4!updateSettings, LPDDR4!Assigned, LPDDR4!removeSetting,
               LPDDR4!Restrict, Assigned, Restrict
      <4>2. CASE ~(n = 8)
        <5>1. n * 4 # 32 /\ (n * 8 # 8 <=> n # 1)
          BY <1>1, <4>2
        <5> HIDE DEF n
        <5> QED BY <1>5, <2>3, <4>2, <5>1
           DEF LPDDR4!Overridden, LPDDR4!updateSettings, LPDDR4!Assigned, LPDDR4!removeSetting,
               LPDDR4!Restrict, Assigned, Restrict
      <4> QED BY <4>1, <4>2
    <3>4. fresh.settings = Assigned(LPDDR4!InitSettings, c)
      BY <2>3 DEF updateSettings, NewEncoder
    <3>5. \/ g = encoder.settings /\ DOMAIN c = LPDDR4Overrides
          \/ g = Restrict(encoder.settings, DOMAIN encoder.settings \ (LPDDR4Overrides \ DOMAIN c))
      BY <3>1
    <3> HIDE DEF g, c, e, fresh
    <3>6. /\ Knows(Assigned(g, c), LPDDR4!InitSettings, LPDDR4Overrides)
          /\ AgreeBut(Assigned(g, c), Assigned(LPDDR4!InitSettings, c), {})
      BY <1>5, <3>1, <3>2, <3>5, AssignedKnows
    <3> QED BY <1>5, <2>2, <3>3, <3>4, <3>6 DEF EncoderKnows
  <2> HIDE DEF e, fresh
  <2>5. /\ LPDDR4!Encode(e, cmd) = LPDDR4!Encode(fresh, cmd)
        /\ LPDDR4!Encode(e, cmd) \in Seq(SUBSET (1..3)) /\ LPDDR4!Encode(e, cmd) # <<>>
    BY <1>6, <2>3, <2>4, LPDDR4Words
  <2> QED BY <1>1, <1>2, <1>3, <2>2, <2>3, <2>4, <2>5 DEF CommandBusOf
<1>7. ASSUME cmd.type \in DOMAIN LPDDR4!Patterns \ DataTypes,
             LPDDR4!busCommand(cmd, LPDDR4!Encode(encoder, cmd))
      PROVE  CommandBusOf(cmd)
  <2>1. encoder' = encoder /\ LPDDR4!handleCommandBus(cmd.time, LPDDR4!Encode(encoder, cmd))
        /\ cmd.time >= now
    BY <1>7 DEF LPDDR4!busCommand
  <2>2. cmd.type \in DOMAIN LPDDR4!Patterns /\ cmd.type \notin DataTypes /\ HasWords(cmd) /\ ~data
    BY <1>4, <1>7 DEF DataTypes, IsDataCommand, LPDDR4!PowerDowns, LPDDR4!Patterns
  <2>3. EncoderKnows'
    BY <2>1 DEF EncoderKnows
  <2>4. AgreeBut(encoder.settings, fresh.settings, LPDDR4Overrides)
    <3>1. fresh.settings = LPDDR4!InitSettings
      BY <2>2 DEF NewEncoder
    <3> QED BY <1>5, <3>1, KnowsAgrees
  <2> HIDE DEF fresh
  <2>5. /\ LPDDR4!Encode(encoder, cmd) = LPDDR4!Encode(fresh, cmd)
        /\ LPDDR4!Encode(encoder, cmd) \in Seq(SUBSET (1..3)) /\ LPDDR4!Encode(encoder, cmd) # <<>>
    BY <2>2, <2>4, LPDDR4Words
  <2> QED BY <1>1, <1>2, <1>3, <2>1, <2>2, <2>3, <2>5 DEF CommandBusOf
<1>8. ASSUME ~HasWords(cmd), cmd.time >= now, UNCHANGED <<cmdBus, encoder>>
      PROVE  CommandBusOf(cmd)
  BY <1>8 DEF CommandBusOf, EncoderKnows
<1>9. CASE cmd.type \in {"RD", "RDA"} /\ LPDDR4!handleData(cmd, "read")
  BY <1>6, <1>9 DEF Direction, DataTypes
<1>10. CASE cmd.type \in {"WR", "WRA"} /\ LPDDR4!handleData(cmd, "write")
  BY <1>6, <1>10 DEF Direction, DataTypes
<1>11. CASE cmd.type \in DOMAIN LPDDR4!Patterns \ {"RD", "RDA", "WR", "WRA"}
            /\ LPDDR4!busCommand(cmd, LPDDR4!Encode(encoder, cmd))
  BY <1>7, <1>11 DEF DataTypes
<1>12. CASE cmd.type = "END_OF_SIMULATION" /\ LPDDR4!endOfSimulation(cmd.time, LPDDR4!Config)
  BY <1>4, <1>8, <1>12 DEF LPDDR4!endOfSimulation, LPDDR4!lines
<1>13. CASE cmd.type \in LPDDR4!PowerDowns /\ cmd.time >= now /\ UNCHANGED <<LPDDR4!lines, encoder>>
  BY <1>4, <1>8, <1>13 DEF LPDDR4!lines
<1> QED BY <1>9, <1>10, <1>11, <1>12, <1>13 DEF LPDDR4!doCommand

LEMMA LPDDR5CommandBus ==
    ASSUME standard = "LPDDR5", UNCHANGED standard, EncoderKnows, NEW cmd, Sendable(cmd),
           LPDDR5!doCommand(cmd)
    PROVE  CommandBusOf(cmd)
<1> DEFINE n == BeatsOf(cmd)
           d == Direction(cmd)
           data == IsDataCommand(cmd)
           new == NewEncoder(LPDDR5!InitSettings)
           fresh == NewEncoder(IF data /\ n = 4 THEN [C0 |-> "L"] ELSE <<>>)
           s == cmd.time * CommandSlots
<1>1. CommandSlots = 2 /\ CommandPatterns = SUBSET (1..4) /\ n \in Nat
  BY BeatsTyped DEF CommandSlots, CommandPatterns, CommandWidth
<1>2. \A words : LPDDR5!handleCommandBus(cmd.time, words) =>
          /\ Loadable(cmdBus, s)
          /\ cmdBus' = LoadCommand(cmdBus, s, Reverse(words))
  BY <1>1, LPDDR5BusAlike
     DEF LPDDR5!handleCommandBus, LPDDR5!EndTime, EndTime, LPDDR5!Reverse, Reverse, LoadCommand,
         Loadable
<1>3. FreshWords(cmd) = LPDDR5!Encode(fresh, cmd)
  BY DEF FreshWords, LPDDR5!InitSettings
<1>4. HasWords(cmd) <=> cmd.type # "END_OF_SIMULATION"
  BY DEF HasWords
<1>5. DOMAIN encoder = {"settings", "burstLength"}
      /\ Knows(encoder.settings, LPDDR5!InitSettings, LPDDR5Overrides)
  BY DEF EncoderKnows
<1>6. ASSUME cmd.type \in DataTypes, LPDDR5!handleData(cmd, d)
      PROVE  CommandBusOf(cmd)
  <2> DEFINE e == LPDDR5!Overridden(encoder, n, d)
  <2>1. n = LPDDR5!length(cmd)
    BY DEF BeatsOf, LPDDR5!length
  <2>2. encoder' = e /\ LPDDR5!handleCommandBus(cmd.time, LPDDR5!Encode(e, cmd)) /\ cmd.time >= now
    BY <1>6, <2>1 DEF LPDDR5!handleData, LPDDR5!loadData, LPDDR5!Load
  <2>3. data /\ d \in {"read", "write"} /\ cmd.type \in DOMAIN LPDDR5!Patterns /\ HasWords(cmd)
    BY <1>4, <1>6 DEF DataTypes, IsDataCommand, Direction, LPDDR5!Patterns, LPDDR5!AllPatterns
  <2>4. EncoderKnows' /\ AgreeBut(e.settings, fresh.settings, {})
    <3>1. DOMAIN encoder.settings \subseteq {"C0"} /\ LPDDR5!InitSettings = <<>> /\ DOMAIN <<>> = {}
      BY <1>5 DEF Knows, LPDDR5!InitSettings, LPDDR5Overrides
    <3>2. CASE n = 4
      <4>1. e.settings = Assigned(encoder.settings, [C0 |-> "L"]) /\ DOMAIN e = DOMAIN encoder
        BY <1>5, <3>2 DEF LPDDR5!Overridden, LPDDR5!updateSettings, LPDDR5!Assigned, Assigned
      <4>2. DOMAIN e.settings = {"C0"} /\ e.settings["C0"] = "L"
        BY <3>1, <4>1 DEF Assigned
      <4>3. fresh.settings = [C0 |-> "L"]
        BY <2>3, <3>2 DEF NewEncoder
      <4> HIDE DEF e, fresh
      <4>4. Knows(e.settings, LPDDR5!InitSettings, LPDDR5Overrides)
        BY <3>1, <4>2 DEF Knows, LPDDR5Overrides
      <4> QED BY <1>5, <2>2, <4>1, <4>2, <4>3, <4>4 DEF EncoderKnows, AgreeBut
    <3>3. CASE n # 4
      <4>1. /\ e.settings = [x \in DOMAIN encoder.settings \ {"C0"} |-> encoder.settings[x]]
            /\ DOMAIN e = DOMAIN encoder
        BY <1>1, <1>5, <3>3 DEF LPDDR5!Overridden, LPDDR5!removeSetting, LPDDR5!Restrict
      <4>2. DOMAIN e.settings = {}
        BY <3>1, <4>1
      <4>3. fresh.settings = <<>>
        BY <3>3 DEF NewEncoder
      <4> HIDE DEF e, fresh
      <4>4. Knows(e.settings, LPDDR5!InitSettings, LPDDR5Overrides)
        BY <3>1, <4>2 DEF Knows
      <4> QED BY <1>5, <2>2, <3>1, <4>1, <4>2, <4>3, <4>4 DEF EncoderKnows, AgreeBut
    <3> QED BY <3>2, <3>3
  <2> HIDE DEF e, fresh
  <2>5. /\ LPDDR5!Encode(e, cmd) = LPDDR5!Encode(fresh, cmd)
        /\ LPDDR5!Encode(e, cmd) \in Seq(SUBSET (1..4)) /\ LPDDR5!Encode(e, cmd) # <<>>
    BY <1>6, <2>3, <2>4, LPDDR5Words
  <2> QED BY <1>1, <1>2, <1>3, <2>2, <2>3, <2>4, <2>5 DEF CommandBusOf
<1>7. ASSUME cmd.type \in DOMAIN LPDDR5!Patterns \ DataTypes,
             LPDDR5!busCommand(cmd, LPDDR5!Encode(encoder, cmd))
      PROVE  CommandBusOf(cmd)
  <2>1. encoder' = encoder /\ LPDDR5!handleCommandBus(cmd.time, LPDDR5!Encode(encoder, cmd))
        /\ cmd.time >= now
    BY <1>7 DEF LPDDR5!busCommand
  <2>2. cmd.type \in DOMAIN LPDDR5!Patterns /\ cmd.type \notin DataTypes /\ HasWords(cmd) /\ ~data
    BY <1>4, <1>7 DEF DataTypes, IsDataCommand, LPDDR5!Patterns, LPDDR5!AllPatterns
  <2>3. EncoderKnows'
    BY <2>1 DEF EncoderKnows
  <2>4. AgreeBut(encoder.settings, fresh.settings, LPDDR5Overrides)
    <3>1. fresh.settings = LPDDR5!InitSettings
      BY <2>2 DEF NewEncoder, LPDDR5!InitSettings
    <3> QED BY <1>5, <3>1, KnowsAgrees
  <2> HIDE DEF fresh
  <2>5. /\ LPDDR5!Encode(encoder, cmd) = LPDDR5!Encode(fresh, cmd)
        /\ LPDDR5!Encode(encoder, cmd) \in Seq(SUBSET (1..4)) /\ LPDDR5!Encode(encoder, cmd) # <<>>
    BY <2>2, <2>4, LPDDR5Words
  <2> QED BY <1>1, <1>2, <1>3, <2>1, <2>2, <2>3, <2>5 DEF CommandBusOf
<1>8. ASSUME ~HasWords(cmd), cmd.time >= now, UNCHANGED <<cmdBus, encoder>>
      PROVE  CommandBusOf(cmd)
  BY <1>8 DEF CommandBusOf, EncoderKnows
<1>9. CASE cmd.type \in {"RD", "RDA"} /\ LPDDR5!handleData(cmd, "read")
  BY <1>6, <1>9 DEF Direction, DataTypes
<1>10. CASE cmd.type \in {"WR", "WRA"} /\ LPDDR5!handleData(cmd, "write")
  BY <1>6, <1>10 DEF Direction, DataTypes
<1>11. CASE cmd.type \in DOMAIN LPDDR5!Patterns \ {"RD", "RDA", "WR", "WRA"}
            /\ LPDDR5!busCommand(cmd, LPDDR5!Encode(encoder, cmd))
  BY <1>7, <1>11 DEF DataTypes
<1>12. CASE cmd.type = "END_OF_SIMULATION" /\ LPDDR5!endOfSimulation(cmd.time, LPDDR5!Config)
  BY <1>4, <1>8, <1>12 DEF LPDDR5!endOfSimulation, LPDDR5!lines
<1> QED BY <1>9, <1>10, <1>11, <1>12 DEF LPDDR5!doCommand

LEMMA LPDDR6CommandBus ==
    ASSUME standard = "LPDDR6", UNCHANGED standard, EncoderKnows, NEW cmd, Sendable(cmd),
           LPDDR6!doCommand(cmd)
    PROVE  CommandBusOf(cmd)
<1> DEFINE n == BeatsOf(cmd)
           d == Direction(cmd)
           data == IsDataCommand(cmd)
           new == NewEncoder(LPDDR6!InitSettings)
           fresh == [NewEncoder(<<>>) EXCEPT !.burstLength = n]
           s == cmd.time * CommandSlots
<1>1. CommandSlots = 2 /\ CommandPatterns = SUBSET (1..4) /\ n \in Nat
  BY BeatsTyped DEF CommandSlots, CommandPatterns, CommandWidth
<1>2. \A words : LPDDR6!handleCommandBus(cmd.time, words) =>
          /\ Loadable(cmdBus, s)
          /\ cmdBus' = LoadCommand(cmdBus, s, Reverse(words))
  BY <1>1, LPDDR6BusAlike
     DEF LPDDR6!handleCommandBus, LPDDR6!EndTime, EndTime, LPDDR6!Reverse, Reverse, LoadCommand,
         Loadable
<1>3. FreshWords(cmd) = LPDDR6!Encode(fresh, cmd)
  BY DEF FreshWords
<1>4. HasWords(cmd) <=> cmd.type # "END_OF_SIMULATION"
  BY DEF HasWords
<1>5. DOMAIN encoder = {"settings", "burstLength"}
  BY DEF EncoderKnows
<1>6. ASSUME cmd.type \in DataTypes, LPDDR6!handleData(cmd, d)
      PROVE  CommandBusOf(cmd)
  <2> DEFINE e == LPDDR6!Overridden(encoder, n, d)
  <2>1. n = LPDDR6!formattedLength(cmd)
    BY DEF BeatsOf, LPDDR6!formattedLength, LPDDR6!ShortBurst
  <2>2. encoder' = e /\ LPDDR6!handleCommandBus(cmd.time, LPDDR6!Encode(e, cmd)) /\ cmd.time >= now
    BY <1>6, <2>1 DEF LPDDR6!handleData, LPDDR6!loadData, LPDDR6!Load
  <2>3. data /\ d \in {"read", "write"} /\ cmd.type \in DOMAIN LPDDR6!Patterns /\ HasWords(cmd)
    BY <1>4, <1>6 DEF DataTypes, IsDataCommand, Direction, LPDDR6!Patterns
  <2>4. EncoderKnows' /\ e.burstLength = fresh.burstLength
    BY <1>5, <2>2 DEF EncoderKnows, LPDDR6!Overridden, NewEncoder
  <2> HIDE DEF e, fresh
  <2>5. /\ LPDDR6!Encode(e, cmd) = LPDDR6!Encode(fresh, cmd)
        /\ LPDDR6!Encode(e, cmd) \in Seq(SUBSET (1..4)) /\ LPDDR6!Encode(e, cmd) # <<>>
    BY <1>6, <2>3, <2>4, LPDDR6Words
  <2> QED BY <1>1, <1>2, <1>3, <2>2, <2>3, <2>4, <2>5 DEF CommandBusOf
<1>7. ASSUME cmd.type \in DOMAIN LPDDR6!Patterns \ DataTypes,
             LPDDR6!busCommand(cmd, LPDDR6!Encode(encoder, cmd))
      PROVE  CommandBusOf(cmd)
  <2>1. encoder' = encoder /\ LPDDR6!handleCommandBus(cmd.time, LPDDR6!Encode(encoder, cmd))
        /\ cmd.time >= now
    BY <1>7 DEF LPDDR6!busCommand
  <2>2. cmd.type \in DOMAIN LPDDR6!Patterns /\ cmd.type \notin DataTypes /\ HasWords(cmd) /\ ~data
    BY <1>4, <1>7 DEF DataTypes, IsDataCommand, LPDDR6!Patterns
  <2>3. EncoderKnows'
    BY <2>1 DEF EncoderKnows
  <2>4. TRUE
    OBVIOUS
  <2> HIDE DEF fresh
  <2>5. /\ LPDDR6!Encode(encoder, cmd) = LPDDR6!Encode(fresh, cmd)
        /\ LPDDR6!Encode(encoder, cmd) \in Seq(SUBSET (1..4)) /\ LPDDR6!Encode(encoder, cmd) # <<>>
    BY <2>2, <2>4, LPDDR6Words
  <2> QED BY <1>1, <1>2, <1>3, <2>1, <2>2, <2>3, <2>5 DEF CommandBusOf
<1>8. ASSUME ~HasWords(cmd), cmd.time >= now, UNCHANGED <<cmdBus, encoder>>
      PROVE  CommandBusOf(cmd)
  BY <1>8 DEF CommandBusOf, EncoderKnows
<1>9. CASE cmd.type \in {"RD", "RDA"} /\ LPDDR6!handleData(cmd, "read")
  BY <1>6, <1>9 DEF Direction, DataTypes
<1>10. CASE cmd.type \in {"WR", "WRA"} /\ LPDDR6!handleData(cmd, "write")
  BY <1>6, <1>10 DEF Direction, DataTypes
<1>11. CASE cmd.type \in DOMAIN LPDDR6!Patterns \ {"RD", "RDA", "WR", "WRA"}
            /\ LPDDR6!busCommand(cmd, LPDDR6!Encode(encoder, cmd))
  BY <1>7, <1>11 DEF DataTypes
<1>12. CASE cmd.type = "END_OF_SIMULATION" /\ LPDDR6!endOfSimulation(cmd.time, LPDDR6!NoWidth)
  BY <1>4, <1>8, <1>12 DEF LPDDR6!endOfSimulation, LPDDR6!lines
<1> QED BY <1>9, <1>10, <1>11, <1>12 DEF LPDDR6!doCommand

-----------------------------------------------------------------------------
(* The command bus and the commands so far                                 *)

\* The command bus has counted what the commands so far have put on its lines,
\* and its encoder knows nothing of them but what the next burst overrides.
CommandInv ==
    /\ standard \in StandardSet /\ now \in Nat
    /\ EndTime(cmdBus) \in Nat /\ SentBefore(EndTime(cmdBus))
    /\ cmdBus.idle = IdleLevels /\ cmdBus.last_load <= now * CommandSlots
    /\ CommandCounts(cmdBus, CommandLevels)
    /\ EncoderKnows

LEMMA CommandBusTyped ==
    ASSUME NEW b, NEW wave, CommandCounts(b, wave)
    PROVE  b.last_load \in Nat /\ EndTime(b) \in Nat
<1>1. ASSUME Three!CountsWave(b, wave)
      PROVE  b.last_load \in Nat /\ EndTime(b) \in Nat
  <2>1. b \in Three!BusSet
    BY <1>1 DEF Three!CountsWave
  <2>2. b.last_load \in Nat /\ b.load_time \in Nat /\ b.burst \in Seq(Three!Pattern)
    BY <2>1 DEF Three!BusSet
  <2>3. Len(b.burst) \in Nat
    BY <2>2
  <2> QED BY <2>2, <2>3 DEF EndTime
<1>2. ASSUME Four!CountsWave(b, wave)
      PROVE  b.last_load \in Nat /\ EndTime(b) \in Nat
  <2>1. b \in Four!BusSet
    BY <1>2 DEF Four!CountsWave
  <2>2. b.last_load \in Nat /\ b.load_time \in Nat /\ b.burst \in Seq(Four!Pattern)
    BY <2>1 DEF Four!BusSet
  <2>3. Len(b.burst) \in Nat
    BY <2>2
  <2> QED BY <2>2, <2>3 DEF EndTime
<1>3. ASSUME Five!CountsWave(b, wave)
      PROVE  b.last_load \in Nat /\ EndTime(b) \in Nat
  <2>1. b \in Five!BusSet
    BY <1>3 DEF Five!CountsWave
  <2>2. b.last_load \in Nat /\ b.load_time \in Nat /\ b.burst \in Seq(Five!Pattern)
    BY <2>1 DEF Five!BusSet
  <2>3. Len(b.burst) \in Nat
    BY <2>2
  <2> QED BY <2>2, <2>3 DEF EndTime
<1>4. ASSUME Six!CountsWave(b, wave)
      PROVE  b.last_load \in Nat /\ EndTime(b) \in Nat
  <2>1. b \in Six!BusSet
    BY <1>4 DEF Six!CountsWave
  <2>2. b.last_load \in Nat /\ b.load_time \in Nat /\ b.burst \in Seq(Six!Pattern)
    BY <2>1 DEF Six!BusSet
  <2>3. Len(b.burst) \in Nat
    BY <2>2
  <2> QED BY <2>2, <2>3 DEF EndTime
<1> QED BY <1>1, <1>2, <1>3, <1>4 DEF CommandCounts

LEMMA CommandCountsSame ==
    ASSUME NEW b, NEW wave, UNCHANGED standard, CommandCounts(b, wave)
    PROVE  b = cmdBus' /\ wave = CommandLevels' => CommandCounts(cmdBus, CommandLevels)'
BY DEF CommandCounts

LEMMA CommandCommandInv ==
    ASSUME CommandInv, UNCHANGED standard, NEW cmd, Sendable(cmd), CommandBusOf(cmd), now' = cmd.time,
           NEW e, e.cmd = cmd, e.words = IF HasWords(cmd) THEN FreshWords(cmd) ELSE <<>>,
           sent' = Append(sent, e)
    PROVE  CommandInv'
<1>0. PICK s, w, end : s = cmd.time * CommandSlots /\ w = e.words /\ end = EndTime(cmdBus)
  OBVIOUS
<1>1. cmd.time \in Nat /\ s \in Nat /\ CommandSlots \in Nat /\ now \in Nat /\ cmd.time >= now
  BY <1>0 DEF Sendable, CommandSlots, CommandInv, CommandBusOf
<1>2. CommandSlots' = CommandSlots /\ IdleLevels' = IdleLevels
  BY DEF CommandSlots, IdleLevels, IdleLevel, CommandWidth
<1>3. end \in Nat /\ SentBefore(end) /\ EncoderKnows' /\ standard' \in StandardSet
  BY <1>0 DEF CommandInv, CommandBusOf
<1>4. CommandLevels \in [Nat -> CommandPatterns]
  BY <1>3, LevelsTyped
<1>5. CASE HasWords(cmd)
  <2>1. /\ w \in Seq(CommandPatterns) /\ w # <<>> /\ Loadable(cmdBus, s)
        /\ cmdBus' = LoadCommand(cmdBus, s, Reverse(w))
    BY <1>0, <1>5 DEF CommandBusOf
  <2>2. /\ CommandLevels' = LoadedWave(CommandLevels, IdleLevels, s, Reverse(w))
        /\ SentBefore(s + Len(w))'
    BY <1>0, <1>1, <1>3, <2>1, LevelsAfter DEF Loadable
  <2>3. Reverse(w) \in Seq(CommandPatterns) /\ Reverse(w) # <<>> /\ Len(Reverse(w)) = Len(w)
    <3>1. Len(w) \in Nat /\ Len(w) # 0
      BY <2>1
    <3>2. Reverse(w) = [i \in 1..Len(w) |-> w[(Len(w) - i) + 1]]
      BY DEF Reverse
    <3>3. \A i \in 1..Len(w) : (Len(w) - i) + 1 \in 1..Len(w)
      BY <3>1
    <3>4. Reverse(w) \in [1..Len(w) -> CommandPatterns]
      BY <2>1, <3>2, <3>3
    <3>5. Reverse(w) \in Seq(CommandPatterns) /\ Len(Reverse(w)) = Len(w)
      BY <3>1, <3>4
    <3> QED BY <3>1, <3>5
  <2> DEFINE c == LoadCommand(cmdBus, s, Reverse(w))
             levels == CommandLevels
             r == Reverse(w)
             b == cmdBus
  <2>4. /\ CommandCounts(c, LoadedWave(CommandLevels, cmdBus.idle, s, Reverse(w)))
        /\ c.idle = cmdBus.idle /\ EndTime(c) = s + Len(Reverse(w)) /\ c.last_load = s
    <3>1. standard \in StandardSet /\ CommandCounts(cmdBus, CommandLevels)
      BY DEF CommandInv
    <3>2. /\ s \in Nat /\ Loadable(b, s) /\ levels \in [Nat -> CommandPatterns]
          /\ CommandCounts(b, levels) /\ r \in Seq(CommandPatterns) /\ r # <<>>
      BY <1>1, <1>4, <2>1, <2>3, <3>1
    <3>3. c = LoadCommand(b, s, r)
      OBVIOUS
    <3> HIDE DEF c, levels, r, b
    <3>4. /\ CommandCounts(c, LoadedWave(levels, b.idle, s, r))
          /\ c.idle = b.idle /\ EndTime(c) = s + Len(r) /\ c.last_load = s
      BY <3>1, <3>2, <3>3, CommandLoadCounts
    <3> QED BY <3>4 DEF levels, r, b
  <2>5. cmdBus' = c
    BY <2>1
  <2> HIDE DEF c, levels, r, b
  <2>6. CommandCounts(cmdBus, CommandLevels)'
    BY <2>2, <2>4, <2>5, CommandCountsSame DEF CommandInv
  <2>7. EndTime(cmdBus)' = s + Len(w) /\ Len(w) \in Nat
    BY <2>1, <2>3, <2>4, <2>5 DEF EndTime
  <2>8. cmdBus'.idle = IdleLevels' /\ cmdBus'.last_load <= now' * CommandSlots'
    BY <1>0, <1>1, <1>2, <2>4, <2>5 DEF CommandInv
  <2>9. EndTime(cmdBus)' \in Nat /\ SentBefore(EndTime(cmdBus))'
    BY <1>1, <2>2, <2>7
  <2> QED BY <1>1, <1>3, <2>6, <2>8, <2>9 DEF CommandInv
<1>6. CASE ~HasWords(cmd)
  <2>1. w = <<>> /\ cmdBus' = cmdBus
    BY <1>0, <1>6 DEF CommandBusOf
  <2>2. CommandLevels' = CommandLevels /\ SentBefore(end)'
    <3>1. w \in Seq(CommandPatterns)
      <4>1. <<>> \in Seq(CommandPatterns)
        OBVIOUS
      <4> QED BY <2>1, <4>1
    <3> QED BY <1>0, <1>1, <1>3, <2>1, <3>1, LevelsAfter
  <2>3. CommandCounts(cmdBus, CommandLevels)'
    BY <2>1, <2>2, CommandCountsSame DEF CommandInv
  <2>4. cmdBus'.idle = IdleLevels' /\ cmdBus'.last_load <= now' * CommandSlots'
    <3>1. cmdBus.last_load \in Nat /\ cmdBus.last_load <= now * CommandSlots
      BY CommandBusTyped DEF CommandInv
    <3>2. now * CommandSlots <= cmd.time * CommandSlots
      BY <1>1 DEF CommandSlots
    <3>3. now * CommandSlots \in Nat
      BY <1>1 DEF CommandSlots
    <3> QED BY <1>1, <1>2, <2>1, <3>1, <3>2, <3>3 DEF CommandInv
  <2>5. EndTime(cmdBus)' = end
    BY <1>0, <2>1 DEF EndTime
  <2> QED BY <1>1, <1>3, <2>2, <2>3, <2>4, <2>5 DEF CommandInv
<1> QED BY <1>5, <1>6

LEMMA SameCommandInv ==
    ASSUME CommandInv, UNCHANGED <<standard, sent, cmdBus, now>>, EncoderKnows'
    PROVE  CommandInv'
<1>1. CommandSlots' = CommandSlots /\ IdleLevels' = IdleLevels /\ CommandPatterns' = CommandPatterns
  BY DEF CommandSlots, IdleLevels, IdleLevel, CommandWidth, CommandPatterns
<1>2. CommandLevels' = CommandLevels
  BY DEF CommandLevels, CommandIn, CommandSlots, IdleLevel, CommandWidth
<1>3. CommandCounts(cmdBus, CommandLevels)'
  BY <1>2, CommandCountsSame DEF CommandInv
<1>4. EndTime(cmdBus)' = EndTime(cmdBus) /\ \A i, n : Begin(i)' = Begin(i) /\ (On(i, n)' <=> On(i, n))
  BY DEF EndTime, Begin, On, CommandSlots
<1>5. \A end : SentBefore(end)' <=> SentBefore(end)
  BY <1>1, <1>4 DEF SentBefore
<1> QED BY <1>1, <1>3, <1>4, <1>5 DEF CommandInv

LEMMA SwitchCommandBus ==
    ASSUME CommandInv, MCSwitch
    PROVE  CommandInv'
<1>1. UNCHANGED <<standard, sent, cmdBus, encoder, now>>
  BY DEF MCSwitch, DDR4!enableDBI, DDR4!lines, LPDDR6!setMetaData, LPDDR6!lines
<1>2. EncoderKnows'
  BY <1>1 DEF CommandInv, EncoderKnows
<1> QED BY <1>1, <1>2, SameCommandInv

LEMMA DDR4RestoreCommandBus ==
    ASSUME CommandInv, standard = "DDR4", UNCHANGED standard, DDR4!Restore
    PROVE  UNCHANGED <<cmdBus, now>> /\ EncoderKnows'
<1>1. /\ cmdBus' = DDR4!RestoredBus(DDR4!Cmd!NewBus(DDR4!IdleCommand, TRUE), cmdBus) /\ now' = now
      /\ encoder' = DDR4!RestoredEncoder(DDR4!NewEncoder(DDR4!InitSettings), encoder)
  BY DEF DDR4!Restore, DDR4!RestoreLines, DDR4!RestoreDataBus
<1>2. cmdBus.idle = DDR4!IdleCommand /\ Five!CountsWave(cmdBus, CommandLevels)
  BY DEF CommandInv, CommandCounts, DDR4!IdleCommand, IdleLevels, IdleLevel, CommandWidth
<1>3. cmdBus \in Five!BusSet
  BY <1>2 DEF Five!CountsWave
<1>4. Five!RestoredBus(Five!NewBus(cmdBus.idle, TRUE), cmdBus) = cmdBus
  BY <1>3, Five!RestoredBusIs, LinesFinite
<1>5. cmdBus' = cmdBus
  BY <1>1, <1>2, <1>4, DDR4BusAlike
     DEF DDR4!RestoredBus, DDR4!RestoredPending, Five!RestoredBus, Five!RestoredPending
<1>6. DOMAIN encoder' = {"settings", "burstLength"} /\ encoder'.settings = encoder.settings
  BY <1>1 DEF DDR4!RestoredEncoder, DDR4!NewEncoder
<1>7. EncoderKnows'
  BY <1>6 DEF CommandInv, EncoderKnows
<1> QED BY <1>1, <1>5, <1>7

LEMMA DDR5RestoreCommandBus ==
    ASSUME CommandInv, standard = "DDR5", UNCHANGED standard, DDR5!Restore
    PROVE  UNCHANGED <<cmdBus, now>> /\ EncoderKnows'
<1>1. /\ cmdBus' = DDR5!RestoredBus(DDR5!Cmd!NewBus(DDR5!IdleCommand, TRUE), cmdBus) /\ now' = now
      /\ encoder' = DDR5!RestoredEncoder(DDR5!NewEncoder(DDR5!InitSettings), encoder)
  BY DEF DDR5!Restore, DDR5!RestoreWithoutDBI, DDR5!RestoreLines, DDR5!RestoreDataBus
<1>2. cmdBus.idle = DDR5!IdleCommand /\ Six!CountsWave(cmdBus, CommandLevels)
  BY DEF CommandInv, CommandCounts, DDR5!IdleCommand, IdleLevels, IdleLevel, CommandWidth
<1>3. cmdBus \in Six!BusSet
  BY <1>2 DEF Six!CountsWave
<1>4. Six!RestoredBus(Six!NewBus(cmdBus.idle, TRUE), cmdBus) = cmdBus
  BY <1>3, Six!RestoredBusIs, LinesFinite
<1>5. cmdBus' = cmdBus
  BY <1>1, <1>2, <1>4, DDR5BusAlike
     DEF DDR5!RestoredBus, DDR5!RestoredPending, Six!RestoredBus, Six!RestoredPending
<1>6. DOMAIN encoder' = {"settings", "burstLength"} /\ encoder'.settings = encoder.settings
  BY <1>1 DEF DDR5!RestoredEncoder, DDR5!NewEncoder
<1>7. EncoderKnows'
  BY <1>6 DEF CommandInv, EncoderKnows
<1> QED BY <1>1, <1>5, <1>7

LEMMA LPDDR4RestoreCommandBus ==
    ASSUME CommandInv, standard = "LPDDR4", UNCHANGED standard, LPDDR4!Restore
    PROVE  UNCHANGED <<cmdBus, now>> /\ EncoderKnows'
<1>1. /\ cmdBus' = LPDDR4!RestoredBus(LPDDR4!Cmd!NewBus(LPDDR4!IdleCommand, TRUE), cmdBus) /\ now' = now
      /\ encoder' = LPDDR4!RestoredEncoder(LPDDR4!NewEncoder(LPDDR4!InitSettings), encoder)
  BY DEF LPDDR4!Restore, LPDDR4!RestoreWithoutDBI, LPDDR4!RestoreLines, LPDDR4!RestoreDataBus
<1>2. cmdBus.idle = LPDDR4!IdleCommand /\ Three!CountsWave(cmdBus, CommandLevels)
  BY DEF CommandInv, CommandCounts, LPDDR4!IdleCommand, IdleLevels, IdleLevel, CommandWidth
<1>3. cmdBus \in Three!BusSet
  BY <1>2 DEF Three!CountsWave
<1>4. Three!RestoredBus(Three!NewBus(cmdBus.idle, TRUE), cmdBus) = cmdBus
  BY <1>3, Three!RestoredBusIs, LinesFinite
<1>5. cmdBus' = cmdBus
  BY <1>1, <1>2, <1>4, LPDDR4BusAlike
     DEF LPDDR4!RestoredBus, LPDDR4!RestoredPending, Three!RestoredBus, Three!RestoredPending
<1>6. DOMAIN encoder' = {"settings", "burstLength"} /\ encoder'.settings = encoder.settings
  BY <1>1 DEF LPDDR4!RestoredEncoder, LPDDR4!NewEncoder
<1>7. EncoderKnows'
  BY <1>6 DEF CommandInv, EncoderKnows
<1> QED BY <1>1, <1>5, <1>7

LEMMA LPDDR5RestoreCommandBus ==
    ASSUME CommandInv, standard = "LPDDR5", UNCHANGED standard, LPDDR5!Restore
    PROVE  UNCHANGED <<cmdBus, now>> /\ EncoderKnows'
<1>1. /\ cmdBus' = LPDDR5!RestoredBus(LPDDR5!Cmd!NewBus(LPDDR5!IdleCommand, TRUE), cmdBus) /\ now' = now
      /\ encoder' = LPDDR5!RestoredEncoder(LPDDR5!NewEncoder(LPDDR5!InitSettings), encoder)
  BY DEF LPDDR5!Restore, LPDDR5!RestoreWithoutDBI, LPDDR5!RestoreLines, LPDDR5!RestoreDataBus
<1>2. cmdBus.idle = LPDDR5!IdleCommand /\ Four!CountsWave(cmdBus, CommandLevels)
  BY DEF CommandInv, CommandCounts, LPDDR5!IdleCommand, IdleLevels, IdleLevel, CommandWidth
<1>3. cmdBus \in Four!BusSet
  BY <1>2 DEF Four!CountsWave
<1>4. Four!RestoredBus(Four!NewBus(cmdBus.idle, TRUE), cmdBus) = cmdBus
  BY <1>3, Four!RestoredBusIs, LinesFinite
<1>5. cmdBus' = cmdBus
  BY <1>1, <1>2, <1>4, LPDDR5BusAlike
     DEF LPDDR5!RestoredBus, LPDDR5!RestoredPending, Four!RestoredBus, Four!RestoredPending
<1>6. DOMAIN encoder' = {"settings", "burstLength"} /\ encoder'.settings = encoder.settings
  BY <1>1 DEF LPDDR5!RestoredEncoder, LPDDR5!NewEncoder
<1>7. EncoderKnows'
  BY <1>6 DEF CommandInv, EncoderKnows
<1> QED BY <1>1, <1>5, <1>7

LEMMA LPDDR6RestoreCommandBus ==
    ASSUME CommandInv, standard = "LPDDR6", UNCHANGED standard, LPDDR6!Restore
    PROVE  UNCHANGED <<cmdBus, now>> /\ EncoderKnows'
<1>1. /\ cmdBus' = LPDDR6!RestoredBus(LPDDR6!Cmd!NewBus(LPDDR6!IdleCommand, TRUE), cmdBus) /\ now' = now
      /\ encoder' = LPDDR6!RestoredEncoder(LPDDR6!NewEncoder(LPDDR6!InitSettings), encoder)
  BY DEF LPDDR6!Restore, LPDDR6!RestoreWithoutDBI, LPDDR6!RestoreLines, LPDDR6!RestoreDataBus
<1>2. cmdBus.idle = LPDDR6!IdleCommand /\ Four!CountsWave(cmdBus, CommandLevels)
  BY DEF CommandInv, CommandCounts, LPDDR6!IdleCommand, IdleLevels, IdleLevel, CommandWidth
<1>3. cmdBus \in Four!BusSet
  BY <1>2 DEF Four!CountsWave
<1>4. Four!RestoredBus(Four!NewBus(cmdBus.idle, TRUE), cmdBus) = cmdBus
  BY <1>3, Four!RestoredBusIs, LinesFinite
<1>5. cmdBus' = cmdBus
  BY <1>1, <1>2, <1>4, LPDDR6BusAlike
     DEF LPDDR6!RestoredBus, LPDDR6!RestoredPending, Four!RestoredBus, Four!RestoredPending
<1>6. DOMAIN encoder' = {"settings", "burstLength"} /\ encoder'.settings = encoder.settings
  BY <1>1 DEF LPDDR6!RestoredEncoder, LPDDR6!NewEncoder
<1>7. EncoderKnows'
  BY <1>6 DEF CommandInv, EncoderKnows
<1> QED BY <1>1, <1>5, <1>7

LEMMA RestoreCommandInv ==
    ASSUME CommandInv, MCRestore
    PROVE  CommandInv'
<1>1. UNCHANGED <<standard, sent>>
  BY DEF MCRestore
<1>2. UNCHANGED <<cmdBus, now>> /\ EncoderKnows'
  BY <1>1, DDR4RestoreCommandBus, DDR5RestoreCommandBus, LPDDR4RestoreCommandBus,
     LPDDR5RestoreCommandBus, LPDDR6RestoreCommandBus DEF MCRestore
<1> QED BY <1>1, <1>2, SameCommandInv

LEMMA InitSent ==
    ASSUME sent = <<>>
    PROVE  CommandLevels = [n \in Nat |-> IdleLevels]
<1>1. DOMAIN sent = {}
  OBVIOUS
<1>2. \A n \in Nat : CommandIn(n) = IdleLevels
  BY <1>1 DEF CommandIn, IdleLevels
<1> QED BY <1>2 DEF CommandLevels

LEMMA DDR4InitCommandBus ==
    ASSUME MCInit, standard = "DDR4", DDR4!DDR4Init
    PROVE  CommandCounts(cmdBus, [n \in Nat |-> IdleLevels]) /\ cmdBus.idle = IdleLevels
           /\ cmdBus.last_load = 0 /\ EndTime(cmdBus) = 0 /\ EncoderKnows
<1>1. cmdBus = Five!NewBus(DDR4!IdleCommand, TRUE)
  BY DDR4BusAlike DEF DDR4!DDR4Init, DDR4!InterfaceInit
<1>2. DDR4!IdleCommand = IdleLevels
  BY DEF DDR4!IdleCommand, IdleLevels, IdleLevel, CommandWidth
<1>3. IdleLevels \in Five!Pattern
  BY DEF IdleLevels, CommandWidth, Five!Pattern
<1>4. Five!CountsWave(Five!NewBus(IdleLevels, TRUE), [n \in Nat |-> IdleLevels])
  BY <1>3, Five!NewBusCounts, LinesFinite
<1>5. cmdBus.idle = IdleLevels /\ cmdBus.last_load = 0 /\ EndTime(cmdBus) = 0
  BY <1>1, <1>2 DEF Five!NewBus, EndTime
<1>6. encoder = DDR4!NewEncoder(DDR4!InitSettings)
  BY DEF DDR4!DDR4Init, DDR4!InterfaceInit
<1>7. EncoderKnows
  BY <1>6 DEF EncoderKnows, DDR4!NewEncoder, Knows
<1> QED BY <1>1, <1>2, <1>4, <1>5, <1>7 DEF CommandCounts

LEMMA DDR5InitCommandBus ==
    ASSUME MCInit, standard = "DDR5", DDR5!DDR5Init
    PROVE  CommandCounts(cmdBus, [n \in Nat |-> IdleLevels]) /\ cmdBus.idle = IdleLevels
           /\ cmdBus.last_load = 0 /\ EndTime(cmdBus) = 0 /\ EncoderKnows
<1>1. cmdBus = Six!NewBus(DDR5!IdleCommand, TRUE)
  BY DDR5BusAlike DEF DDR5!DDR5Init, DDR5!InterfaceInit
<1>2. DDR5!IdleCommand = IdleLevels
  BY DEF DDR5!IdleCommand, IdleLevels, IdleLevel, CommandWidth
<1>3. IdleLevels \in Six!Pattern
  BY DEF IdleLevels, CommandWidth, Six!Pattern
<1>4. Six!CountsWave(Six!NewBus(IdleLevels, TRUE), [n \in Nat |-> IdleLevels])
  BY <1>3, Six!NewBusCounts, LinesFinite
<1>5. cmdBus.idle = IdleLevels /\ cmdBus.last_load = 0 /\ EndTime(cmdBus) = 0
  BY <1>1, <1>2 DEF Six!NewBus, EndTime
<1>6. encoder = DDR5!NewEncoder(DDR5!InitSettings)
  BY DEF DDR5!DDR5Init, DDR5!InterfaceInit
<1>7. EncoderKnows
  BY <1>6 DEF EncoderKnows, DDR5!NewEncoder, Knows
<1> QED BY <1>1, <1>2, <1>4, <1>5, <1>7 DEF CommandCounts

LEMMA LPDDR4InitCommandBus ==
    ASSUME MCInit, standard = "LPDDR4", LPDDR4!LPDDR4Init
    PROVE  CommandCounts(cmdBus, [n \in Nat |-> IdleLevels]) /\ cmdBus.idle = IdleLevels
           /\ cmdBus.last_load = 0 /\ EndTime(cmdBus) = 0 /\ EncoderKnows
<1>1. cmdBus = Three!NewBus(LPDDR4!IdleCommand, TRUE)
  BY LPDDR4BusAlike DEF LPDDR4!LPDDR4Init, LPDDR4!InterfaceInit
<1>2. LPDDR4!IdleCommand = IdleLevels
  BY DEF LPDDR4!IdleCommand, IdleLevels, IdleLevel, CommandWidth
<1>3. IdleLevels \in Three!Pattern
  BY DEF IdleLevels, CommandWidth, Three!Pattern
<1>4. Three!CountsWave(Three!NewBus(IdleLevels, TRUE), [n \in Nat |-> IdleLevels])
  BY <1>3, Three!NewBusCounts, LinesFinite
<1>5. cmdBus.idle = IdleLevels /\ cmdBus.last_load = 0 /\ EndTime(cmdBus) = 0
  BY <1>1, <1>2 DEF Three!NewBus, EndTime
<1>6. encoder = LPDDR4!NewEncoder(LPDDR4!InitSettings)
  BY DEF LPDDR4!LPDDR4Init, LPDDR4!InterfaceInit
<1>7. EncoderKnows
  BY <1>6 DEF EncoderKnows, LPDDR4!NewEncoder, Knows
<1> QED BY <1>1, <1>2, <1>4, <1>5, <1>7 DEF CommandCounts

LEMMA LPDDR5InitCommandBus ==
    ASSUME MCInit, standard = "LPDDR5", LPDDR5!LPDDR5Init
    PROVE  CommandCounts(cmdBus, [n \in Nat |-> IdleLevels]) /\ cmdBus.idle = IdleLevels
           /\ cmdBus.last_load = 0 /\ EndTime(cmdBus) = 0 /\ EncoderKnows
<1>1. cmdBus = Four!NewBus(LPDDR5!IdleCommand, TRUE)
  BY LPDDR5BusAlike DEF LPDDR5!LPDDR5Init, LPDDR5!InterfaceInit
<1>2. LPDDR5!IdleCommand = IdleLevels
  BY DEF LPDDR5!IdleCommand, IdleLevels, IdleLevel, CommandWidth
<1>3. IdleLevels \in Four!Pattern
  BY DEF IdleLevels, CommandWidth, Four!Pattern
<1>4. Four!CountsWave(Four!NewBus(IdleLevels, TRUE), [n \in Nat |-> IdleLevels])
  BY <1>3, Four!NewBusCounts, LinesFinite
<1>5. cmdBus.idle = IdleLevels /\ cmdBus.last_load = 0 /\ EndTime(cmdBus) = 0
  BY <1>1, <1>2 DEF Four!NewBus, EndTime
<1>6. encoder = LPDDR5!NewEncoder(LPDDR5!InitSettings)
  BY DEF LPDDR5!LPDDR5Init, LPDDR5!InterfaceInit
<1>7. EncoderKnows
  BY <1>6 DEF EncoderKnows, LPDDR5!NewEncoder, Knows
<1> QED BY <1>1, <1>2, <1>4, <1>5, <1>7 DEF CommandCounts

LEMMA LPDDR6InitCommandBus ==
    ASSUME MCInit, standard = "LPDDR6", LPDDR6!LPDDR6Init
    PROVE  CommandCounts(cmdBus, [n \in Nat |-> IdleLevels]) /\ cmdBus.idle = IdleLevels
           /\ cmdBus.last_load = 0 /\ EndTime(cmdBus) = 0 /\ EncoderKnows
<1>1. cmdBus = Four!NewBus(LPDDR6!IdleCommand, TRUE)
  BY LPDDR6BusAlike DEF LPDDR6!LPDDR6Init, LPDDR6!InterfaceInit
<1>2. LPDDR6!IdleCommand = IdleLevels
  BY DEF LPDDR6!IdleCommand, IdleLevels, IdleLevel, CommandWidth
<1>3. IdleLevels \in Four!Pattern
  BY DEF IdleLevels, CommandWidth, Four!Pattern
<1>4. Four!CountsWave(Four!NewBus(IdleLevels, TRUE), [n \in Nat |-> IdleLevels])
  BY <1>3, Four!NewBusCounts, LinesFinite
<1>5. cmdBus.idle = IdleLevels /\ cmdBus.last_load = 0 /\ EndTime(cmdBus) = 0
  BY <1>1, <1>2 DEF Four!NewBus, EndTime
<1>6. encoder = LPDDR6!NewEncoder(LPDDR6!InitSettings)
  BY DEF LPDDR6!LPDDR6Init, LPDDR6!InterfaceInit
<1>7. EncoderKnows
  BY <1>6 DEF EncoderKnows, LPDDR6!NewEncoder, Knows
<1> QED BY <1>1, <1>2, <1>4, <1>5, <1>7 DEF CommandCounts

LEMMA InitCommandInv ==
    ASSUME MCInit
    PROVE  CommandInv
<1>1. standard \in StandardSet
  BY DEF MCInit, StandardSet
<1>2. /\ CommandCounts(cmdBus, [n \in Nat |-> IdleLevels]) /\ cmdBus.idle = IdleLevels
      /\ cmdBus.last_load = 0 /\ EndTime(cmdBus) = 0 /\ EncoderKnows
  BY DDR4InitCommandBus, DDR5InitCommandBus, LPDDR4InitCommandBus, LPDDR5InitCommandBus,
     LPDDR6InitCommandBus DEF MCInit
<1>3. now = 0 /\ sent = <<>>
  BY InitStrobes
<1>4. CommandLevels = [n \in Nat |-> IdleLevels]
  BY <1>3, InitSent
<1>5. SentBefore(0)
  <2>1. DOMAIN sent = {} /\ <<>> \in Seq({})
    BY <1>3
  <2> QED BY <1>3, <2>1 DEF SentBefore, IsSequence
<1>6. cmdBus.last_load <= now * CommandSlots
  BY <1>2, <1>3 DEF CommandSlots
<1> QED BY <1>1, <1>2, <1>3, <1>4, <1>5, <1>6 DEF CommandInv

LEMMA CommandStep ==
    ASSUME CommandInv, Step
    PROVE  CommandInv'
<1>1. ASSUME NEW cmd, Sendable(cmd), MCCommand(cmd)
      PROVE  CommandInv'
  <2> DEFINE e == [cmd |-> cmd, dbi |-> DDR4!UsesDBI(cmd),
                   words |-> IF HasWords(cmd) THEN FreshWords(cmd) ELSE <<>>]
  <2>1. doCommand(cmd) /\ UNCHANGED standard /\ sent' = Append(sent, e)
    BY <1>1 DEF MCCommand
  <2>2. CommandBusOf(cmd)
    BY <1>1, <2>1, DDR4CommandBus, DDR5CommandBus, LPDDR4CommandBus,
       LPDDR5CommandBus, LPDDR6CommandBus DEF doCommand, CommandInv
  <2>3. now' = cmd.time
    BY <2>1, CommandStrobes DEF StrobesOf
  <2>4. e.cmd = cmd /\ e.words = IF HasWords(cmd) THEN FreshWords(cmd) ELSE <<>>
    OBVIOUS
  <2> HIDE DEF e
  <2> QED BY <1>1, <2>1, <2>2, <2>3, <2>4, CommandCommandInv
<1>2. CASE MCSwitch
  BY <1>2, SwitchCommandBus
<1>3. CASE MCRestore
  BY <1>3, RestoreCommandInv
<1>4. CASE UNCHANGED mcVars
  <2>1. UNCHANGED <<standard, sent, cmdBus, encoder, now>>
    BY <1>4 DEF mcVars, interfaceVars, vars
  <2>2. EncoderKnows'
    BY <2>1 DEF CommandInv, EncoderKnows
  <2> QED BY <2>1, <2>2, SameCommandInv
<1> QED BY <1>1, <1>2, <1>3, <1>4 DEF Step

LEMMA CommandInvCounts ==
    ASSUME CommandInv
    PROVE  CommandBusCounted
<1> SUFFICES ASSUME NEW t \in Askable
             PROVE  CommandBusStats(t) = CommandWave(t * CommandSlots)
  BY DEF CommandBusCounted
<1>1. now \in Nat /\ t \in Nat /\ t >= now
  BY DEF CommandInv, Askable
<1>2. cmdBus.last_load \in Nat /\ cmdBus.last_load <= now * CommandSlots
  BY CommandBusTyped DEF CommandInv
<1>3. now * CommandSlots <= t * CommandSlots /\ now * CommandSlots \in Nat /\ t * CommandSlots \in Nat
  BY <1>1 DEF CommandSlots
<1>4. t * CommandSlots >= cmdBus.last_load
  BY <1>2, <1>3
<1> QED BY <1>1, <1>4, CommandStatsAre DEF CommandInv
\* A restore keeps the statistics.
LEMMA RestoreKeeps ==
    ASSUME StrobesInv, CommandInv, BusesKept, PinsKept, MCRestore,
           standard \in {"LPDDR4", "LPDDR5"} => pins = LPDDR4!NewPins
    PROVE  KeepsStatistics
<1> SUFFICES ASSUME NEW t \in Askable
             PROVE  Window(t)' = Window(t)
  BY DEF KeepsStatistics
<1>1. standard \in StandardSet /\ UNCHANGED <<standard, access>>
  BY RestoreStrobes DEF CommandInv
<1>2. UNCHANGED <<bus, handle, clock, pins>>
  BY BusesRestored, PinsRestored
<1>3. UNCHANGED cmdBus
  BY <1>1, DDR4RestoreCommandBus, DDR5RestoreCommandBus, LPDDR4RestoreCommandBus,
     LPDDR5RestoreCommandBus, LPDDR6RestoreCommandBus DEF MCRestore
<1>4. ClocksAlike(t)
  <2>1. /\ dqs' = [d \in Dirs |-> RestoredClock(NewClock(TRUE), dqs[d])]
        /\ wck' = RestoredClock(NewClock(~WckAlwaysOn), wck)
    BY RestoreStrobes
  <2>2. PICK new : new = NewClock(~WckAlwaysOn) /\ DOMAIN new = {"running", "last_start", "periods"}
    BY NewClockFields
  <2>3. \A r : PeriodsAt(wck', t, r) = PeriodsAt(wck, t, r)
    BY <2>1, <2>2, RestoredAlike
  <2>4. ASSUME NEW d \in Dirs, NEW r
        PROVE  PeriodsAt(dqs'[d], t, r) = PeriodsAt(dqs[d], t, r)
    <3>1. PICK c, on : c = dqs[d] /\ on = NewClock(TRUE) /\ dqs'[d] = RestoredClock(on, c)
      BY <2>1
    <3>2. DOMAIN on = {"running", "last_start", "periods"}
      BY <3>1, NewClockFields
    <3>3. PeriodsAt(RestoredClock(on, c), t, r) = PeriodsAt(c, t, r)
      BY <3>2, RestoredAlike
    <3> QED BY <3>1, <3>3
  <2> QED BY <1>2, <2>3, <2>4 DEF ClocksAlike
<1>5. CASE standard = "DDR4"
  BY <1>1, <1>2, <1>3, <1>4, <1>5, DDR4WindowSame DEF Window
<1>6. CASE standard = "DDR5"
  BY <1>1, <1>2, <1>3, <1>4, <1>6, DDR5WindowSame DEF Window
<1>7. CASE standard = "LPDDR4"
  BY <1>1, <1>2, <1>3, <1>4, <1>7, LPDDR4WindowSame DEF Window
<1>8. CASE standard = "LPDDR5"
  BY <1>1, <1>2, <1>3, <1>4, <1>8, LPDDR5WindowSame DEF Window
<1>9. CASE standard = "LPDDR6"
  BY <1>1, <1>2, <1>3, <1>4, <1>9, LPDDR6WindowSame DEF Window
<1> QED BY <1>1, <1>5, <1>6, <1>7, <1>8, <1>9 DEF StandardSet

-----------------------------------------------------------------------------
(* The theorems                                                            *)

\* Any commands, also those that TLC does not send, and as many as one likes.
FreeNext ==
    /\ (\E cmd \in CommandSet : MCCommand(cmd)) \/ MCSwitch \/ MCRestore
    /\ UNCHANGED calls
FreeSpec == MCInit /\ [][FreeNext]_mcVars

LEMMA FreeIsStep ==
    ASSUME [FreeNext]_mcVars
    PROVE  Step
<1>1. \A cmd \in CommandSet : Sendable(cmd)
  BY DEF CommandSet, Sendable
<1> QED BY <1>1 DEF FreeNext, Step

InterfaceInv == StrobesInv /\ SeamlessInv /\ CommandInv /\ BusesKept /\ PinsKept

\* What RestoredSame says of a step.
Restoring ==
    [MCRestore /\ ~(standard \in {"LPDDR4", "LPDDR5"} /\ pins # LPDDR4!NewPins) => KeepsStatistics]_mcVars

\* The invariant, which the properties follow from.
LEMMA InterfaceInvHolds ==
    /\ MCInit => InterfaceInv
    /\ InterfaceInv /\ ([MCNext]_mcVars \/ [FreeNext]_mcVars) => InterfaceInv'
    /\ InterfaceInv => StrobesCounted /\ SeamlessCounted /\ CommandBusCounted /\ Restoring
<1>1. ASSUME InterfaceInv, [MCNext]_mcVars \/ [FreeNext]_mcVars
      PROVE  InterfaceInv'
  <2>1. now \in Nat
    BY <1>1 DEF InterfaceInv, StrobesInv
  <2>2. Step
    BY <1>1, <2>1, NextIsStep, FreeIsStep
  <2> QED BY <1>1, <2>2, StrobesStep, SeamlessStep, CommandStep, KeptStep DEF InterfaceInv
<1>2. InterfaceInv => Restoring
  BY RestoreKeeps DEF InterfaceInv, Restoring
<1> QED BY <1>1, <1>2, InitStrobesInv, InitSeamlessInv, InitCommandInv, InitKept,
           StrobesInvCounts, SeamlessInvCounts, CommandInvCounts DEF InterfaceInv

\* The strobes and the write clock of every standard run for the beats of the
\* bursts (handleDQs, handleWCK), and all that was counted of them survives a
\* restore: in the runs of TLC, for any value of the constants.
THEOREM StrobesAreCounted == MCSpec => []StrobesCounted
BY InterfaceInvHolds, PTL DEF MCSpec

\* The same whatever data, times, addresses and ranks the commands have.
THEOREM StrobesOfAnyCommands == FreeSpec => []StrobesCounted
BY InterfaceInvHolds, PTL DEF FreeSpec

\* Of every rank and direction DDR4 counts as seamless the bursts that begin where
\* the one before has ended (handlePrePostamble): in the runs of TLC.
THEOREM SeamlessAreCounted == MCSpec => []SeamlessCounted
BY InterfaceInvHolds, PTL DEF MCSpec

\* The same of any commands.
THEOREM SeamlessOfAnyCommands == FreeSpec => []SeamlessCounted
BY InterfaceInvHolds, PTL DEF FreeSpec

\* The command bus carries each command as if it were the only one (handleOverrides,
\* the encoders, handleCommandBus), and is counted right whenever its statistics are
\* asked, across restores: in the runs of TLC.
THEOREM CommandBusIsCounted == MCSpec => []CommandBusCounted
BY InterfaceInvHolds, PTL DEF MCSpec

\* The same whatever data, times, addresses and ranks the commands have.
THEOREM CommandBusOfAnyCommands == FreeSpec => []CommandBusCounted
BY InterfaceInvHolds, PTL DEF FreeSpec

\* A saved and restored interface gives the statistics it would have given: what
\* serialize writes of the buses, handles, pins and clocks (BusInterface::serialize,
\* Pin::serialize) is all that getWindowStats reads of them.
THEOREM RestoresLoseNothing == MCSpec => RestoredSame
BY InterfaceInvHolds, PTL DEF MCSpec, RestoredSame, Restoring

\* The same after any commands.
THEOREM RestoresOfAnyCommandsLoseNothing == FreeSpec => RestoredSame
BY InterfaceInvHolds, PTL DEF FreeSpec, RestoredSame, Restoring
=============================================================================
