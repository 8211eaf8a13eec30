------------------------------ MODULE CoreEnergy ------------------------------
(***************************************************************************)
(* The energy of a core: what Calculation_<standard>::calcEnergy makes of  *)
(* its statistics and of the currents of the data sheet.  Currents, volt-  *)
(* ages and times are integers here, and every division is one that leaves *)
(* no remainder (ExactDivision), so that nothing is rounded that the code  *)
(* computes in floating point.                                             *)
(***************************************************************************)
EXTENDS Integers, Functions

CONSTANTS
    NumRanks, NumBanks,             \* as in CoreState
    numberOfDevices, numberOfBankGroups,
    memPowerSpec,                   \* voltage and currents per voltage domain
    rho, rhoUnit,                   \* bwPowerFactRho is rho / rhoUnit
    burstLength, dataRate, bank_arch,
    tCK, tWCK,                      \* periods of the clocks
    tRAS, tRP, tRFC, tRFCsb, tRFCPB, tRFCAB, tRFCDB, tREFI  \* in periods tCK

Domains == DOMAIN memPowerSpec
N == NumBanks
Ranks == 0..(NumRanks - 1)
Banks == 0..(NumBanks - 1)

\* A faulty variant of I_theta: the precharge is not taken out.
I_thetaWithPrecharge(p) == (p.i0 * (tRP + tRAS)) \div tRAS

\* The current while a row is opened, so that a row cycle takes i0 in the mean.
I_theta(p) == (p.i0 * (tRP + tRAS) - p.iBeta * tRP) \div tRAS

\* The background currents: I_rho is shared by the active banks, I_1 and I_B are
\* those of one and of all active banks, I_k of k.  Of DDR the current of all
\* banks is in the data sheet, of LPDDR that of one.
CurrentsDDR(p) ==
    LET I_rho == (rho * (p.i3N - p.i2N)) \div rhoUnit + p.i2N
        I_1 == (p.i3N + (N - 1) * I_rho) \div N
    IN  [I_rho |-> I_rho, I_1 |-> I_1, I_B |-> p.i3N,
         I_BG |-> I_rho + (I_1 - I_rho) * numberOfBankGroups]

CurrentsLPDDR(p) ==
    LET t1 == N * rho
        t2 == rhoUnit - rho
        I_rho == (t1 * p.i3N + t2 * p.i2N) \div (t1 + t2)
    IN  [I_rho |-> I_rho, I_1 |-> p.i3N, I_B |-> I_rho + N * (p.i3N - I_rho),
         I_2 |-> p.i3N + (p.i3N - I_rho)]

\* The current of a refresh of one bank, or two, from the mean one over tREFI/8.
RefreshCurrent(p, i5, tRef) ==
    (i5 * (tREFI \div 8) - p.i2N * ((tREFI \div 8) - tRef)) \div tRef

\* No division of a current leaves a remainder.
ExactDivision ==
    /\ rhoUnit > rho /\ tREFI % 8 = 0 /\ burstLength % dataRate = 0 /\ tCK % 2 = 0
    /\ \A d \in Domains :
          LET p == memPowerSpec[d]
          IN  /\ rho * (p.i3N - p.i2N) % rhoUnit = 0
              /\ (p.i3N + (N - 1) * CurrentsDDR(p).I_rho) % N = 0
              /\ (N * rho * p.i3N + (rhoUnit - rho) * p.i2N) % (N * rho + rhoUnit - rho) = 0
              /\ (p.i0 * (tRP + tRAS) - p.iBeta * tRP) % tRAS = 0
              /\ p.i2N % N = 0 /\ tCK % N = 0 /\ tCK % numberOfBankGroups = 0
              /\ (p.i5PB - p.i2N) * (tREFI \div 8) % tRFCPB = 0
              /\ (p.i5PDB - p.i2N) * (tREFI \div 8) % tRFCDB = 0
-----------------------------------------------------------------------------
(* energy_info_t of a bank                                                 *)

E_pre(p, n) == p.v * (p.iBeta - p.i2N) * tRP * tCK * n
E_act(p, c, n) == p.v * (I_theta(p) - c.I_1) * tRAS * tCK * n

\* A faulty variant of E_BG_pre: not shared out among the banks.
E_BG_preOfRank(p, cycles) == p.v * p.i2N * cycles * tCK

E_BG_pre(p, cycles) == (p.v * p.i2N * cycles * tCK) \div N
E_BG_act_star(p, c, cycles) == p.v * (c.I_1 - c.I_rho) * cycles * tCK
E_BG_act_shared(p, c, cycles) == p.v * c.I_rho * cycles * tCK

\* n bursts at the current i above the background current, at a clock of period t.
E_burst(p, i, background, t, n) == p.v * (i - background) * (burstLength \div dataRate) * t * n

E_ref_ab(p, c, t, n) == (p.v * (p.i5 - c.I_B) * t * tCK * n) \div N
E_ref_sb(p, c, n) == (p.v * (p.i5C - c.I_BG) * tRFCsb * tCK * n) \div numberOfBankGroups
E_ref_pb(p, c, n) == p.v * (RefreshCurrent(p, p.i5PB, tRFCPB) - c.I_1) * tRFCPB * tCK * n
E_ref_p2b(p, c, n) ==
    (p.v * (RefreshCurrent(p, p.i5PB, tRFCPB) - c.I_2) * tRFCPB * tCK * n) \div 2
E_ref_db(p, c, n) ==
    (p.v * (RefreshCurrent(p, p.i5PDB, tRFCDB) - c.I_2) * tRFCDB * tCK * n) \div 2

NoInfo ==
    [E_act |-> 0, E_pre |-> 0, E_bg_act |-> 0, E_bg_pre |-> 0, E_RD |-> 0, E_WR |-> 0,
     E_RDA |-> 0, E_WRA |-> 0, E_pre_RDA |-> 0, E_pre_WRA |-> 0,
     E_ref_AB |-> 0, E_ref_PB |-> 0, E_ref_SB |-> 0, E_ref_2B |-> 0, E_ref_DB |-> 0]
NoShared == [E_sref |-> 0, E_PDNA |-> 0, E_PDNP |-> 0, E_dsm |-> 0, E_bg_act_shared |-> 0]

\* What all standards have in common; bk is what the statistics say of the bank,
\* rk of its rank, and background the current bursts are measured against.
BankInfo(p, c, bk, rk, background, t) ==
    [NoInfo EXCEPT
        !.E_act = E_act(p, c, bk.counter.act), !.E_pre = E_pre(p, bk.counter.pre),
        !.E_bg_act = E_BG_act_star(p, c, bk.cycles.act), !.E_bg_pre = E_BG_pre(p, rk.pre),
        !.E_RD = E_burst(p, p.i4R, background, t, bk.counter.reads),
        !.E_WR = E_burst(p, p.i4W, background, t, bk.counter.writes),
        !.E_RDA = E_burst(p, p.i4R, background, t, bk.counter.readAuto),
        !.E_WRA = E_burst(p, p.i4W, background, t, bk.counter.writeAuto),
        !.E_pre_RDA = E_pre(p, bk.counter.readAuto),
        !.E_pre_WRA = E_pre(p, bk.counter.writeAuto)]

\* What the standards have in common of a rank: energy_t but for the banks.
RankInfo(p, c, rk) ==
    [E_sref |-> p.v * p.i6 * rk.selfRefresh * tCK * numberOfDevices,
     E_PDNA |-> p.v * p.i3P * rk.powerDownAct * tCK * numberOfDevices,
     E_PDNP |-> p.v * p.i2P * rk.powerDownPre * tCK * numberOfDevices,
     E_dsm |-> 0,
     E_bg_act_shared |-> E_BG_act_shared(p, c, rk.act) * numberOfDevices]

\* energy_info_t::operator+=, and the += of the loops over voltage domains and ranks.
InfoPlus(x, y) ==
    [E_act |-> x.E_act + y.E_act, E_pre |-> x.E_pre + y.E_pre,
     E_bg_act |-> x.E_bg_act + y.E_bg_act, E_bg_pre |-> x.E_bg_pre + y.E_bg_pre,
     E_RD |-> x.E_RD + y.E_RD, E_WR |-> x.E_WR + y.E_WR,
     E_RDA |-> x.E_RDA + y.E_RDA, E_WRA |-> x.E_WRA + y.E_WRA,
     E_pre_RDA |-> x.E_pre_RDA + y.E_pre_RDA, E_pre_WRA |-> x.E_pre_WRA + y.E_pre_WRA,
     E_ref_AB |-> x.E_ref_AB + y.E_ref_AB, E_ref_PB |-> x.E_ref_PB + y.E_ref_PB,
     E_ref_SB |-> x.E_ref_SB + y.E_ref_SB, E_ref_2B |-> x.E_ref_2B + y.E_ref_2B,
     E_ref_DB |-> x.E_ref_DB + y.E_ref_DB]

SharedPlus(x, y) ==
    [E_sref |-> x.E_sref + y.E_sref, E_PDNA |-> x.E_PDNA + y.E_PDNA,
     E_PDNP |-> x.E_PDNP + y.E_PDNP, E_dsm |-> x.E_dsm + y.E_dsm,
     E_bg_act_shared |-> x.E_bg_act_shared + y.E_bg_act_shared]

InfoSum(f) == FoldFunction(InfoPlus, NoInfo, f)

\* energy_t: every device of a rank has the energies of its banks.
energy_t(ofBank, ofRank) ==
    [bank_energy |-> [k \in 0..(NumRanks * numberOfDevices * N - 1) |->
         InfoSum([d \in Domains |-> ofBank[d, k \div (numberOfDevices * N), k % N]])],
     shared |-> FoldFunction(SharedPlus, NoShared, ofRank)]

\* energy_info_t::total leaves out what precharges of auto-precharges take: it is
\* part of E_pre already.
InfoTotal(e) ==
    e.E_act + e.E_pre + e.E_bg_act + e.E_bg_pre + e.E_RD + e.E_WR + e.E_RDA + e.E_WRA
    + e.E_ref_AB + e.E_ref_PB + e.E_ref_SB + e.E_ref_2B + e.E_ref_DB

\* energy_t::total
Total(energy) ==
    InfoTotal(InfoSum(energy.bank_energy))
    + energy.shared.E_bg_act_shared + energy.shared.E_PDNA + energy.shared.E_PDNP
    + energy.shared.E_sref + energy.shared.E_dsm

\* energy_t::aggregated_bank_energy
AggregatedBankEnergy(energy) ==
    [InfoSum(energy.bank_energy) EXCEPT !.E_bg_act = @ + energy.shared.E_bg_act_shared]
-----------------------------------------------------------------------------
(* calcEnergy of each standard: the banks and ranks over all domains        *)

\* The deep sleep of LPDDR5 and LPDDR6 has a current of its own.
RankInfoDeepSleep(p, c, rk) ==
    [RankInfo(p, c, rk) EXCEPT !.E_dsm = p.v * p.i6DS * rk.deepSleepMode * tCK * numberOfDevices]

OfRanks(currents, stats) ==
    [d \in Domains, r \in Ranks |->
        RankInfo(memPowerSpec[d], currents[d], stats.rank_total[r])]

OfRanksAsleep(currents, stats) ==
    [d \in Domains, r \in Ranks |->
        RankInfoDeepSleep(memPowerSpec[d], currents[d], stats.rank_total[r])]

calcEnergyDDR4(stats) ==
    LET c == [d \in Domains |-> CurrentsDDR(memPowerSpec[d])]
        OfBank(p, cd, bk, rk) ==
            [BankInfo(p, cd, bk, rk, cd.I_B, tCK) EXCEPT
                !.E_ref_AB = E_ref_ab(p, cd, tRFC, bk.counter.refAllBank)]
    IN  energy_t([d \in Domains, r \in Ranks, b \in Banks |->
                     OfBank(memPowerSpec[d], c[d], stats.bank[r][b], stats.rank_total[r])],
                 OfRanks(c, stats))

calcEnergyDDR5(stats) ==
    LET c == [d \in Domains |-> CurrentsDDR(memPowerSpec[d])]
        OfBank(p, cd, bk, rk) ==
            [BankInfo(p, cd, bk, rk, cd.I_B, tCK) EXCEPT
                !.E_ref_AB = E_ref_ab(p, cd, tRFC, bk.counter.refAllBank),
                !.E_ref_SB = E_ref_sb(p, cd, bk.counter.refSameBank)]
    IN  energy_t([d \in Domains, r \in Ranks, b \in Banks |->
                     OfBank(memPowerSpec[d], c[d], stats.bank[r][b], stats.rank_total[r])],
                 OfRanks(c, stats))

calcEnergyLPDDR4(stats) ==
    LET c == [d \in Domains |-> CurrentsLPDDR(memPowerSpec[d])]
        OfBank(p, cd, bk, rk) ==
            [BankInfo(p, cd, bk, rk, cd.I_1, tCK) EXCEPT
                !.E_ref_AB = E_ref_ab(p, cd, tRFC, bk.counter.refAllBank),
                !.E_ref_PB = E_ref_pb(p, cd, bk.counter.refPerBank)]
    IN  energy_t([d \in Domains, r \in Ranks, b \in Banks |->
                     OfBank(memPowerSpec[d], c[d], stats.bank[r][b], stats.rank_total[r])],
                 OfRanks(c, stats))

\* With bank groups, two banks are read or written in turn.
calcEnergyLPDDR5(stats) ==
    LET c == [d \in Domains |-> CurrentsLPDDR(memPowerSpec[d])]
        OfBank(p, cd, bk, rk) ==
            [BankInfo(p, cd, bk, rk, IF bank_arch = "MBG" THEN cd.I_2 ELSE cd.I_1, tWCK) EXCEPT
                !.E_ref_AB = E_ref_ab(p, cd, tRFC, bk.counter.refAllBank),
                !.E_ref_PB = E_ref_pb(p, cd, bk.counter.refPerBank),
                !.E_ref_2B = E_ref_p2b(p, cd, bk.counter.refPerTwoBanks)]
    IN  energy_t([d \in Domains, r \in Ranks, b \in Banks |->
                     OfBank(memPowerSpec[d], c[d], stats.bank[r][b], stats.rank_total[r])],
                 OfRanksAsleep(c, stats))

calcEnergyLPDDR6(stats) ==
    LET c == [d \in Domains |-> CurrentsLPDDR(memPowerSpec[d])]
        OfBank(p, cd, bk, rk) ==
            [BankInfo(p, cd, bk, rk, cd.I_2, tWCK) EXCEPT
                !.E_ref_AB = E_ref_ab(p, cd, tRFCAB, bk.counter.refAllBank),
                !.E_ref_DB = E_ref_db(p, cd, bk.counter.refDualBanks)]
    IN  energy_t([d \in Domains, r \in Ranks, b \in Banks |->
                     OfBank(memPowerSpec[d], c[d], stats.bank[r][b], stats.rank_total[r])],
                 OfRanksAsleep(c, stats))
=============================================================================
