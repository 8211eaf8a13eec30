------------------------------ MODULE LPDDR6Core ------------------------------
(***************************************************************************)
(* LPDDR6Core: refresh of all banks or of two; an exit from active         *)
(* power-down makes the rank active in any case.                           *)
(***************************************************************************)
EXTENDS BankwiseCore

CONSTANTS tRFCAB, tRFCDB
\* What its constants are taken to be.
RefreshAssumption == tRFCAB \in Nat /\ tRFCDB \in Nat

handleAct(r, b, t) == Activate(r, b, t)
handlePre(r, b, t) == Precharge(r, {b}, t)
handlePreAll(r, t) == Precharge(r, Banks, t)

handleRead(r, b) == Count(r, b, "reads")
handleWrite(r, b) == Count(r, b, "writes")
handleReadAuto(r, b, t) == CountAndPrecharge(r, b, "readAuto", t + prechargeOffsetRD)
handleWriteAuto(r, b, t) == CountAndPrecharge(r, b, "writeAuto", t + prechargeOffsetWR)

handleRefDualBanks(r, b1, b2, t) ==
    RefreshSome(r, <<b1, b2>>, "refDualBanks", t, t + tRFCDB)

handleRefAll(r, t) ==
    /\ RefreshAll(r, t, t + tRFCAB)
    /\ queue' = RefreshQueue(r, AllBanks, t + tRFCAB)

handleRefreshOnBankLater(r, b, t) == RefreshEnd(r, b, t)

handleSelfRefreshEntry(r, t) ==
    /\ RefreshAll(r, t, t + tRFCAB)
    /\ queue' = Add(RefreshQueue(r, AllBanks, t + tRFCAB),
                    ImplicitFor(t + tRFCAB, "SREF_ENTRY", r, NoBank))

handleSelfRefreshEntryLater(r, t) == SelfRefreshEntry(r, t)
handleSelfRefreshExit(r, t) == SelfRefreshExit(r, t)

handlePowerDownActEntry(r, t) == AddPowerDown("PDA_ENTRY", r, t)
handlePowerDownActEntryLater(r, t) == PowerDownActEntry(r, t)
handlePowerDownActExit(r, t) == AddPowerDown("PDA_EXIT", r, t)

\* A faulty variant of ActiveAfterExit: the rank stays as the entry left it.
IdleAfterExit(rk, t) ==
    [rk EXCEPT !.memState = "NOT_IN_PD", !.powerDownAct = CloseInterval(@, t)]

ActiveAfterExit(rk, t) ==
    [rk EXCEPT !.memState = "NOT_IN_PD", !.powerDownAct = CloseInterval(@, t),
               !.act = StartInterval(@, t)]

handlePowerDownActExitLater(r, t) ==
    Reopen(r, t) /\ rank' = [rank EXCEPT ![r] = ActiveAfterExit(@, t)]

handlePowerDownPreEntry(r, t) == AddPowerDown("PDP_ENTRY", r, t)
handlePowerDownPreEntryLater(r, t) == PowerDownPreEntry(r, t)
handlePowerDownPreExit(r, t) == AddPowerDown("PDP_EXIT", r, t)
handlePowerDownPreExitLater(r, t) == PowerDownPreExit(r, t)
-----------------------------------------------------------------------------
ExecuteImplicit ==
    /\ Pop
    /\ LET e == Head(queue) IN
       \/ e.op = "AUTO_PRECHARGE" /\ handlePre(e.rank, e.bank, e.time)
       \/ e.op = "REFRESH_END" /\ handleRefreshOnBankLater(e.rank, e.bank, e.time)
       \/ e.op = "SREF_ENTRY" /\ handleSelfRefreshEntryLater(e.rank, e.time)
       \/ e.op = "PDA_ENTRY" /\ handlePowerDownActEntryLater(e.rank, e.time)
       \/ e.op = "PDA_EXIT" /\ handlePowerDownActExitLater(e.rank, e.time)
       \/ e.op = "PDP_ENTRY" /\ handlePowerDownPreEntryLater(e.rank, e.time)
       \/ e.op = "PDP_EXIT" /\ handlePowerDownPreExitLater(e.rank, e.time)

ACT(r, b) == Permitted("ACT", r, {b}) /\ handleAct(r, b, target) /\ UNCHANGED queue
PRE(r, b) == Permitted("PRE", r, {b}) /\ handlePre(r, b, target) /\ UNCHANGED queue
RD(r, b) == Permitted("RD", r, {b}) /\ handleRead(r, b) /\ UNCHANGED queue
WR(r, b) == Permitted("WR", r, {b}) /\ handleWrite(r, b) /\ UNCHANGED queue
RDA(r, b) == Permitted("RDA", r, {b}) /\ handleReadAuto(r, b, target)
WRA(r, b) == Permitted("WRA", r, {b}) /\ handleWriteAuto(r, b, target)
\* The two banks of a command are different ones.
REFDB(r, b1, b2) ==
    b1 # b2 /\ Permitted("REFDB", r, {b1, b2}) /\ handleRefDualBanks(r, b1, b2, target)
PREA(r) == Permitted("PREA", r, Banks) /\ handlePreAll(r, target) /\ UNCHANGED queue
REFA(r) == Permitted("REFA", r, Banks) /\ handleRefAll(r, target)
SREFEN(r) == Permitted("SREFEN", r, Banks) /\ handleSelfRefreshEntry(r, target)
SREFEX(r) == Permitted("SREFEX", r, Banks) /\ handleSelfRefreshExit(r, target) /\ UNCHANGED queue
PDEA(r) == Permitted("PDEA", r, Banks) /\ handlePowerDownActEntry(r, target)
PDXA(r) == Permitted("PDXA", r, Banks) /\ handlePowerDownActExit(r, target)
PDEP(r) == Permitted("PDEP", r, Banks) /\ handlePowerDownPreEntry(r, target)
PDXP(r) == Permitted("PDXP", r, Banks) /\ handlePowerDownPreExit(r, target)
END_OF_SIMULATION == UNCHANGED <<rank, bank, queue>>

BankCommand(r, b) ==
    \/ ACT(r, b) \/ PRE(r, b) \/ RD(r, b) \/ WR(r, b) \/ RDA(r, b) \/ WRA(r, b)
    \/ \E b2 \in Banks : REFDB(r, b, b2)
RankCommand(r) ==
    \/ PREA(r) \/ REFA(r) \/ SREFEN(r) \/ SREFEX(r)
    \/ PDEA(r) \/ PDXA(r) \/ PDEP(r) \/ PDXP(r)

Serve ==
    \/ /\ DoCommand
       /\ \/ \E r \in Ranks, b \in Banks : BankCommand(r, b)
          \/ \E r \in Ranks : RankCommand(r)
          \/ END_OF_SIMULATION
    \/ GetWindowStats

Next ==
    \/ \E t \in now..MaxTime : Call(t)
    \/ ExecuteImplicit
    \/ Serve

Spec == Init /\ [][Next]_vars
FairSpec == Spec /\ WF_vars(ExecuteImplicit \/ Serve)
=============================================================================
