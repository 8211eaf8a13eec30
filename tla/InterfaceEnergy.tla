--------------------------- MODULE InterfaceEnergy ---------------------------
(***************************************************************************)
(* The energy of an interface: what InterfaceCalculation_<standard>        *)
(* makes of its statistics.  A line of a kind (impedances) takes the power *)
(* P, V^2/R_eq, while it is at the level its termination draws current at, *)
(* and the energy dyn_E at each rising edge.  Energies are integers here,  *)
(* and the periods of the clocks multiples of the rates they are divided   *)
(* by, so that nothing is rounded that the code computes in floating point.*)
(***************************************************************************)
EXTENDS Integers, SequencesExt

CONSTANTS
    impedances,     \* [termination, P, dyn_E] of each kind of lines
    dataRate,
    dqsBusRate,     \* of DDR5: the rate of its strobes
    tCK, tWCK,
    NumDQsPairs,    \* two in a DDR4 of 16 bits
    prePostamble,   \* of DDR4: [zeroes, zeroes_to_ones] by direction
    Modulus         \* the integers of the code are modulo this number

Kinds == {"ck", "wck", "ca", "rdq", "wdq", "rdqs", "wdqs", "rdbi", "wdbi"}

\* Nothing is rounded.
ExactPeriods == tCK % dataRate = 0 /\ tCK % dqsBusRate = 0 /\ tCK % 2 = 0 /\ tWCK % 2 = 0

NoEnergy == [dynamicEnergy |-> 0, staticEnergy |-> 0]

\* interface_energy_t and interface_energy_info_t, and their sums.
Plus(x, y) ==
    [dynamicEnergy |-> x.dynamicEnergy + y.dynamicEnergy,
     staticEnergy |-> x.staticEnergy + y.staticEnergy]
InfoPlus(x, y) ==
    [controller |-> Plus(x.controller, y.controller), dram |-> Plus(x.dram, y.dram)]
Controller(energy) == [controller |-> energy, dram |-> NoEnergy]
DRAM(energy) == [controller |-> NoEnergy, dram |-> energy]
Sum(infos) == FoldLeft(InfoPlus, Controller(NoEnergy), infos)

\* calc_static_energy and calc_dynamic_energy: n times a line at its level, for a
\* time t each.
calc_static_energy(kind, n, t) == impedances[kind].P * n * t
calc_dynamic_energy(kind, n) == impedances[kind].dyn_E * n

\* calcStaticTermination, for the lines that draw current at a level, with the
\* edges.
Terminated(kind, stats, level, t, rate) ==
    [staticEnergy |-> IF impedances[kind].termination
                      THEN calc_static_energy(kind, stats[level], t \div rate) ELSE 0,
     dynamicEnergy |-> calc_dynamic_energy(kind, stats.zeroes_to_ones)]

\* The clock, which is low for half of its period.
calcClockEnergy(stats, level) == Controller(Terminated("ck", stats.clock, level, tCK, 2))

\* The write clock of LPDDR5 and LPDDR6.
calcWClockEnergy(stats, level) == Controller(Terminated("wck", stats.wck, level, tWCK, 2))

\* The command bus, at one pattern per cycle or two.
calcCAEnergy(stats, level, rate) ==
    Controller(Terminated("ca", stats.commandBus, level, tCK, rate))

\* What both ends drive, the memory to be read and the controller to write.
ByDirection(reads, writes, stats, level, rate) ==
    InfoPlus(DRAM(Terminated(reads, stats["read"], level, tCK, rate)),
             Controller(Terminated(writes, stats["write"], level, tCK, rate)))

calcDQEnergy(stats, level) == ByDirection("rdq", "wdq", stats.data, level, dataRate)
calcDQEnergyTogglingRate(toggling, level) == ByDirection("rdq", "wdq", toggling, level, dataRate)
calcDBIEnergy(stats, level) == ByDirection("rdbi", "wdbi", stats.dbi, level, dataRate)
calcDQSEnergy(stats, level, rate) == ByDirection("rdqs", "wdqs", stats.dqs, level, rate)

\* The strobe of LPDDR5 and LPDDR6 is one of reads only.
calcReadDQSEnergy(stats, level) ==
    DRAM(Terminated("rdqs", stats.dqs["read"], level, tCK, dataRate))

\* DDR5 takes the resistance for the flag of the termination, and no resistance
\* is zero.
calcDQEnergyTogglingRateDDR5(toggling) ==
    LET Always(kind, stats) ==
            [staticEnergy |-> calc_static_energy(kind, stats.zeroes, tCK \div dataRate),
             dynamicEnergy |-> calc_dynamic_energy(kind, stats.zeroes_to_ones)]
    IN  InfoPlus(DRAM(Always("rdq", toggling["read"])), Controller(Always("wdq", toggling["write"])))

\* The pre- and postambles of DDR4, of every burst but the seamless ones: bursts is
\* what rank_total has of the reads or writes of all ranks, with auto-precharge or
\* without.
OfPrePostambles(kind, ambles, bursts, seamless) ==
    LET n == (bursts - seamless) % Modulus
    IN  IF ~impedances[kind].termination THEN NoEnergy
        ELSE [staticEnergy |-> calc_static_energy(kind, NumDQsPairs * ambles.zeroes * n, tCK),
              dynamicEnergy |-> calc_dynamic_energy(
                                    kind, (NumDQsPairs * ambles.zeroes_to_ones * n) % Modulus)]

calcPrePostambleEnergy(stats) ==
    LET total(count, d) == MapThenSumSet(LAMBDA r : count[r][d], DOMAIN count)
        energy(kind, d) ==
            OfPrePostambles(kind, prePostamble[d], total(stats.bursts, d), total(stats.seamless, d))
    IN  InfoPlus(DRAM(energy("rdqs", "read")), Controller(energy("wdqs", "write")))
-----------------------------------------------------------------------------
(* calculateEnergy of each standard                                        *)

calculateEnergyDDR4(stats) ==
    Sum(<<calcClockEnergy(stats, "zeroes"), calcPrePostambleEnergy(stats),
          calcDQSEnergy(stats, "zeroes", dataRate),
          calcDQEnergyTogglingRate(stats.toggling, "zeroes"),
          calcDQEnergy(stats, "zeroes"), calcCAEnergy(stats, "zeroes", 1),
          calcDBIEnergy(stats, "zeroes")>>)

calculateEnergyDDR5(stats) ==
    Sum(<<calcClockEnergy(stats, "zeroes"), calcDQSEnergy(stats, "zeroes", dqsBusRate),
          calcDQEnergy(stats, "zeroes"), calcDQEnergyTogglingRateDDR5(stats.toggling),
          calcCAEnergy(stats, "zeroes", 1)>>)

calculateEnergyLPDDR4(stats) ==
    Sum(<<calcClockEnergy(stats, "ones"), calcDQSEnergy(stats, "ones", dataRate),
          calcDQEnergyTogglingRate(stats.toggling, "ones"),
          calcDQEnergy(stats, "ones"), calcCAEnergy(stats, "ones", 1),
          calcDBIEnergy(stats, "ones")>>)

\* A faulty variant of calculateEnergyLPDDR5: a command bus of a single rate.
calculateEnergyLPDDR5SingleRate(stats) ==
    Sum(<<calcClockEnergy(stats, "ones"), calcWClockEnergy(stats, "ones"),
          calcReadDQSEnergy(stats, "ones"), calcDQEnergy(stats, "ones"),
          calcDQEnergyTogglingRate(stats.toggling, "ones"),
          calcCAEnergy(stats, "ones", 1), calcDBIEnergy(stats, "ones")>>)

calculateEnergyLPDDR5(stats) ==
    Sum(<<calcClockEnergy(stats, "ones"), calcWClockEnergy(stats, "ones"),
          calcReadDQSEnergy(stats, "ones"), calcDQEnergy(stats, "ones"),
          calcDQEnergyTogglingRate(stats.toggling, "ones"),
          calcCAEnergy(stats, "ones", 2), calcDBIEnergy(stats, "ones")>>)

calculateEnergyLPDDR6(stats) ==
    Sum(<<calcClockEnergy(stats, "ones"), calcWClockEnergy(stats, "ones"),
          calcReadDQSEnergy(stats, "ones"), calcDQEnergy(stats, "ones"),
          calcDQEnergyTogglingRate(stats.toggling, "ones"),
          calcCAEnergy(stats, "ones", 2)>>)

\* interface_energy_info_t::total
TotalEnergy(info) ==
    info.controller.dynamicEnergy + info.controller.staticEnergy
    + info.dram.dynamicEnergy + info.dram.staticEnergy
=============================================================================
