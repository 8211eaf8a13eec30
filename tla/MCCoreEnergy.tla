----------------------------- MODULE MCCoreEnergy -----------------------------
(***************************************************************************)
(* The cores of all standards with the energy that is calculated of their  *)
(* statistics, for TLC, beside a meter that reads the current of the power *)
(* states as time passes.                                                  *)
(***************************************************************************)
EXTENDS CoreProperties, CoreStats, FiniteSetsExt

CONSTANTS
    tRAS, tRCD, tRP, prechargeOffsetRD, prechargeOffsetWR,
    tRFC, tRFCsb, tRFCPB, tRFCAB, tRFCDB, tREFI,
    banksPerGroup, numberOfBankGroups, bank_arch, perTwoBankOffset, TwoBankModulus,
    numberOfDevices, memPowerSpec, rho, rhoUnit, burstLength, dataRate, tCK, tWCK

VARIABLES
    standard,
    meter      \* the background energy of the power states the ranks were in

DDR4 == INSTANCE DDR4Core
DDR5 == INSTANCE DDR5Core
LPDDR4 == INSTANCE LPDDR4Core
LPDDR5 == INSTANCE LPDDR5Core
LPDDR6 == INSTANCE LPDDR6Core
Calculation == INSTANCE CoreEnergy

\* A data sheet of two voltage domains.
MCPower ==
    [VDD |-> [v |-> 1, i0 |-> 26, i2N |-> 10, i3N |-> 22, i2P |-> 4, i3P |-> 6, i4R |-> 40,
              i4W |-> 44, i5 |-> 50, i5C |-> 60, i5PB |-> 30, i5PDB |-> 35, i6 |-> 3,
              i6DS |-> 1, iBeta |-> 28],
     VPP |-> [v |-> 2, i0 |-> 12, i2N |-> 2, i3N |-> 8, i2P |-> 1, i3P |-> 1, i4R |-> 9,
              i4W |-> 8, i5 |-> 20, i5C |-> 18, i5PB |-> 9, i5PDB |-> 11, i6 |-> 1,
              i6DS |-> 0, iBeta |-> 8]]

ASSUME EnergyAssumption ==
    /\ Calculation!ExactDivision
    /\ LPDDR4!RefreshAssumption /\ LPDDR5!RefreshAssumption /\ LPDDR6!RefreshAssumption

\* The background currents per voltage domain.
OfDDR == [d \in DOMAIN memPowerSpec |-> Calculation!CurrentsDDR(memPowerSpec[d])]
OfLPDDR == [d \in DOMAIN memPowerSpec |-> Calculation!CurrentsLPDDR(memPowerSpec[d])]
Currents == IF standard \in {"DDR4", "DDR5"} THEN OfDDR ELSE OfLPDDR

\* The energy of a device that takes current[d] of every domain d for t cycles,
\* times the devices of a rank.
Energy(current, t) ==
    numberOfDevices * t * tCK
        * MapThenSumSet(LAMBDA d : memPowerSpec[d].v * current[d], DOMAIN memPowerSpec)

\* The background current of rank r: that of its power state or, if it is not
\* powered down, of as many banks as are active.
Background(r) ==
    [d \in DOMAIN memPowerSpec |->
        LET p == memPowerSpec[d]
            c == Currents[d]
            k == Cardinality({b \in Banks : Active(bank[r][b])})
        IN  CASE rank[r].memState = "SREF" -> p.i6
              [] rank[r].memState = "DSM" -> p.i6DS
              [] rank[r].memState = "PDN_ACT" -> p.i3P
              [] rank[r].memState = "PDN_PRE" -> p.i2P
              [] OTHER -> IF k = 0 THEN p.i2N ELSE c.I_rho + k * (c.I_1 - c.I_rho)]

EnergyInit == Init /\ standard \in {"DDR4", "DDR5", "LPDDR4", "LPDDR5", "LPDDR6"} /\ meter = 0

Running ==
    \/ standard = "DDR4" /\ (DDR4!ExecuteImplicit \/ DDR4!Serve)
    \/ standard = "DDR5" /\ (DDR5!ExecuteImplicit \/ DDR5!Serve)
    \/ standard = "LPDDR4" /\ (LPDDR4!ExecuteImplicit \/ LPDDR4!Serve)
    \/ standard = "LPDDR5" /\ (LPDDR5!ExecuteImplicit \/ LPDDR5!Serve)
    \/ standard = "LPDDR6" /\ (LPDDR6!ExecuteImplicit \/ LPDDR6!Serve)

EnergyNext ==
    /\ \/ \E t \in now..MaxTime : Call(t)
       \/ Running
    /\ UNCHANGED standard
    /\ meter' = meter + MapThenSumSet(LAMBDA r : Energy(Background(r), now' - now), Ranks)

energyVars == <<vars, standard, meter>>
EnergySpec == EnergyInit /\ [][EnergyNext]_energyVars
-----------------------------------------------------------------------------
WindowStats ==
    CASE standard = "DDR4" -> WindowStatsDDR4(now)
      [] standard = "DDR5" -> WindowStatsDDR5(now)
      [] standard = "LPDDR4" -> WindowStatsLPDDR4(now)
      [] standard = "LPDDR5" -> WindowStatsLPDDR5(now)
      [] standard = "LPDDR6" -> WindowStatsLPDDR6(now)

calcEnergy(stats) ==
    CASE standard = "DDR4" -> Calculation!calcEnergyDDR4(stats)
      [] standard = "DDR5" -> Calculation!calcEnergyDDR5(stats)
      [] standard = "LPDDR4" -> Calculation!calcEnergyLPDDR4(stats)
      [] standard = "LPDDR5" -> Calculation!calcEnergyLPDDR5(stats)
      [] standard = "LPDDR6" -> Calculation!calcEnergyLPDDR6(stats)

\* The background energy calculated of the statistics is what the meter shows:
\* at every moment the rank takes the current of the power state it is in, shared
\* out between the banks and the rank without a rest.
BackgroundMetered ==
    phase = "idle" =>
    LET energy == calcEnergy(WindowStats)
        banks == Calculation!AggregatedBankEnergy(energy)
    IN  meter = banks.E_bg_act + banks.E_bg_pre
                + energy.shared.E_PDNA + energy.shared.E_PDNP
                + energy.shared.E_sref + energy.shared.E_dsm

\* The measurement loops of a data sheet: the current measured; what is counted,
\* over all banks, once and in every run; the cycles of a run with the rank active,
\* in that many banks, and precharged.
Loop(current, opened, count, banks, active, pre) ==
    [current |-> current, opened |-> opened, count |-> count,
     banks |-> banks, active |-> active, pre |-> pre]

OneOf(c) == {<<c, 1>>}
BurstCycles(t) == ((burstLength \div dataRate) * t) \div tCK

CommonLoops ==
    {Loop("i2N", 0, {}, 0, 0, 1),
     Loop("i0", 0, {<<"act", 1>>, <<"pre", 1>>}, 1, tRAS, tRP)}

\* Reads without a gap from k open banks, at a clock of period t.
ReadLoop(k, t) == Loop("i4R", k, {<<"reads", 1>>}, k, BurstCycles(t), 0)
WriteLoop(k, t) == Loop("i4W", k, {<<"writes", 1>>}, k, BurstCycles(t), 0)
AllBankLoop(t) == Loop("i5", 0, {<<"refAllBank", NumBanks>>}, NumBanks, t, 0)

\* A refresh of some banks in every eighth of tREFI.
SomeBanksLoop(current, c, k, t) ==
    Loop(current, 0, {<<c, k>>}, k, t, (tREFI \div 8) - t)

Loops ==
    CommonLoops \cup
    CASE standard = "DDR4" ->
            {AllBankLoop(tRFC), ReadLoop(NumBanks, tCK), WriteLoop(NumBanks, tCK)}
      [] standard = "DDR5" ->
            {AllBankLoop(tRFC), ReadLoop(NumBanks, tCK), WriteLoop(NumBanks, tCK),
             Loop("i5C", 0, {<<"refSameBank", numberOfBankGroups>>}, numberOfBankGroups, tRFCsb, 0)}
      [] standard = "LPDDR4" ->
            {AllBankLoop(tRFC), ReadLoop(1, tCK), WriteLoop(1, tCK),
             SomeBanksLoop("i5PB", "refPerBank", 1, tRFCPB)}
      [] standard = "LPDDR5" ->
            {AllBankLoop(tRFC), SomeBanksLoop("i5PB", "refPerBank", 1, tRFCPB),
             SomeBanksLoop("i5PB", "refPerTwoBanks", 2, tRFCPB)}
            \cup LET k == IF bank_arch = "MBG" THEN 2 ELSE 1
                 IN  {ReadLoop(k, tWCK), WriteLoop(k, tWCK)}
      [] standard = "LPDDR6" ->
            {AllBankLoop(tRFCAB), ReadLoop(2, tWCK), WriteLoop(2, tWCK),
             SomeBanksLoop("i5PDB", "refDualBanks", 2, tRFCDB)}

\* The statistics of rank r are those of n runs of a loop.
Ran(stats, r, loop, n) ==
    LET CountOf(c) ==
            IF \E k \in 1..NumBanks : <<c, k>> \in loop.count
            THEN CHOOSE k \in 1..NumBanks : <<c, k>> \in loop.count ELSE 0
        cycles == stats.rank_total[r]
    IN  /\ cycles.act = n * loop.active /\ cycles.pre = n * loop.pre
        /\ MapThenSumSet(LAMBDA b : stats.bank[r][b].cycles.act, Banks)
             = n * loop.active * loop.banks
        /\ \A c \in Counters :
             MapThenSumSet(LAMBDA b : stats.bank[r][b].counter[c], Banks)
                 = n * CountOf(c) + (IF c = "act" THEN loop.opened ELSE 0)

\* The currents are told apart as the data sheet measures them: a rank that ran a
\* measurement loop has taken the current measured, all the time.  The rows that
\* reads and writes find open were opened before, at a cost of their own.
DatasheetCurrents ==
    phase = "idle" =>
    LET stats == WindowStats
        energy == calcEnergy(stats)
    IN  \A loop \in Loops, n \in 1..MaxTime :
            n * (loop.active + loop.pre) = now /\ (\A r \in Ranks : Ran(stats, r, loop, n)) =>
                Calculation!Total(energy) =
                    Cardinality(Ranks) *
                    (Energy([d \in DOMAIN memPowerSpec |-> memPowerSpec[d][loop.current]], now)
                     + loop.opened * numberOfDevices
                        * MapThenSumSet(LAMBDA d :
                              Calculation!E_act(memPowerSpec[d], Currents[d], 1),
                              DOMAIN memPowerSpec))
=============================================================================
