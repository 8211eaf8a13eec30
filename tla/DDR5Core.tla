------------------------------- MODULE DDR5Core -------------------------------
(***************************************************************************)
(* DDR5Core: all-bank and same-bank refresh and precharge; same-bank       *)
(* commands address the bank of the given index in every bank group.       *)
(***************************************************************************)
EXTENDS BankwiseCore

CONSTANTS banksPerGroup, numberOfBankGroups, tRFC, tRFCsb

\* What its constants are taken to be.
GroupAssumption ==
    /\ banksPerGroup \in Nat \ {0} /\ numberOfBankGroups \in Nat
    /\ banksPerGroup * numberOfBankGroups = NumBanks
    /\ tRFC \in Nat /\ tRFCsb \in Nat

handleAct(r, b, t) == Activate(r, b, t)
handlePre(r, b, t) == Precharge(r, {b}, t)
handlePreAll(r, t) == Precharge(r, Banks, t)

\* A faulty variant of SameBanks: the groups taken as the inner dimension.
SameBanksInterleaved(b) ==
    [g \in 1..numberOfBankGroups |-> (g - 1) + (b % banksPerGroup) * numberOfBankGroups]

\* The banks with the index of b in their group, in the order of the groups.
SameBanks(b) ==
    [g \in 1..numberOfBankGroups |-> (g - 1) * banksPerGroup + (b % banksPerGroup)]
SameBankSet(b) == {SameBanks(b)[g] : g \in 1..numberOfBankGroups}

handlePreSameBank(r, b, t) == Precharge(r, SameBankSet(b), t)

handleRead(r, b) == Count(r, b, "reads")
handleWrite(r, b) == Count(r, b, "writes")
handleReadAuto(r, b, t) == CountAndPrecharge(r, b, "readAuto", t + prechargeOffsetRD)
handleWriteAuto(r, b, t) == CountAndPrecharge(r, b, "writeAuto", t + prechargeOffsetWR)

handleRefSameBank(r, b, t) == RefreshSome(r, SameBanks(b), "refSameBank", t, t + tRFCsb)

handleRefAll(r, t) ==
    /\ RefreshAll(r, t, t + tRFC)
    /\ queue' = RefreshQueue(r, AllBanks, t + tRFC)

handleRefreshOnBankLater(r, b, t) == RefreshEnd(r, b, t)

handleSelfRefreshEntry(r, t) ==
    /\ RefreshAll(r, t, t + tRFC)
    /\ queue' = Add(RefreshQueue(r, AllBanks, t + tRFC),
                    ImplicitFor(t + tRFC, "SREF_ENTRY", r, NoBank))

handleSelfRefreshEntryLater(r, t) == SelfRefreshEntry(r, t)
handleSelfRefreshExit(r, t) == SelfRefreshExit(r, t)

handlePowerDownActEntry(r, t) == AddPowerDown("PDA_ENTRY", r, t)
handlePowerDownActEntryLater(r, t) == PowerDownActEntry(r, t)
handlePowerDownActExit(r, t) == AddPowerDown("PDA_EXIT", r, t)
handlePowerDownActExitLater(r, t) == PowerDownActExit(r, t)
handlePowerDownPreEntry(r, t) == AddPowerDown("PDP_ENTRY", r, t)
handlePowerDownPreEntryLater(r, t) == PowerDownPreEntry(r, t)
handlePowerDownPreExit(r, t) == AddPowerDown("PDP_EXIT", r, t)
handlePowerDownPreExitLater(r, t) == PowerDownPreExit(r, t)
-----------------------------------------------------------------------------
ExecuteImplicit ==
    /\ Pop
    /\ LET e == Head(queue) IN
       \/ e.op = "AUTO_PRECHARGE" /\ handlePre(e.rank, e.bank, e.time)
       \/ e.op = "REFRESH_END" /\ handleRefreshOnBankLater(e.rank, e.bank, e.time)
       \/ e.op = "SREF_ENTRY" /\ handleSelfRefreshEntryLater(e.rank, e.time)
       \/ e.op = "PDA_ENTRY" /\ handlePowerDownActEntryLater(e.rank, e.time)
       \/ e.op = "PDA_EXIT" /\ handlePowerDownActExitLater(e.rank, e.time)
       \/ e.op = "PDP_ENTRY" /\ handlePowerDownPreEntryLater(e.rank, e.time)
       \/ e.op = "PDP_EXIT" /\ handlePowerDownPreExitLater(e.rank, e.time)

ACT(r, b) == Permitted("ACT", r, {b}) /\ handleAct(r, b, target) /\ UNCHANGED queue
PRE(r, b) == Permitted("PRE", r, {b}) /\ handlePre(r, b, target) /\ UNCHANGED queue
RD(r, b) == Permitted("RD", r, {b}) /\ handleRead(r, b) /\ UNCHANGED queue
WR(r, b) == Permitted("WR", r, {b}) /\ handleWrite(r, b) /\ UNCHANGED queue
RDA(r, b) == Permitted("RDA", r, {b}) /\ handleReadAuto(r, b, target)
WRA(r, b) == Permitted("WRA", r, {b}) /\ handleWriteAuto(r, b, target)
PRESB(r, b) == /\ Permitted("PRESB", r, SameBankSet(b))
               /\ handlePreSameBank(r, b, target) /\ UNCHANGED queue
REFSB(r, b) == Permitted("REFSB", r, SameBankSet(b)) /\ handleRefSameBank(r, b, target)
PREA(r) == Permitted("PREA", r, Banks) /\ handlePreAll(r, target) /\ UNCHANGED queue
REFA(r) == Permitted("REFA", r, Banks) /\ handleRefAll(r, target)
SREFEN(r) == Permitted("SREFEN", r, Banks) /\ handleSelfRefreshEntry(r, target)
SREFEX(r) == Permitted("SREFEX", r, Banks) /\ handleSelfRefreshExit(r, target) /\ UNCHANGED queue
PDEA(r) == Permitted("PDEA", r, Banks) /\ handlePowerDownActEntry(r, target)
PDXA(r) == Permitted("PDXA", r, Banks) /\ handlePowerDownActExit(r, target)
PDEP(r) == Permitted("PDEP", r, Banks) /\ handlePowerDownPreEntry(r, target)
PDXP(r) == Permitted("PDXP", r, Banks) /\ handlePowerDownPreExit(r, target)
\* NOP is like it.
END_OF_SIMULATION == UNCHANGED <<rank, bank, queue>>

BankCommand(r, b) ==
    \/ ACT(r, b) \/ PRE(r, b) \/ RD(r, b) \/ WR(r, b) \/ RDA(r, b) \/ WRA(r, b)
    \/ PRESB(r, b) \/ REFSB(r, b)
RankCommand(r) ==
    \/ PREA(r) \/ REFA(r) \/ SREFEN(r) \/ SREFEX(r)
    \/ PDEA(r) \/ PDXA(r) \/ PDEP(r) \/ PDXP(r)

Serve ==
    \/ /\ DoCommand
       /\ \/ \E r \in Ranks, b \in Banks : BankCommand(r, b)
          \/ \E r \in Ranks : RankCommand(r)
          \/ END_OF_SIMULATION
    \/ GetWindowStats

Next ==
    \/ \E t \in now..MaxTime : Call(t)
    \/ ExecuteImplicit
    \/ Serve

Spec == Init /\ [][Next]_vars
FairSpec == Spec /\ WF_vars(ExecuteImplicit \/ Serve)
=============================================================================
