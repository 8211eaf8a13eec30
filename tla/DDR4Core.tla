------------------------------- MODULE DDR4Core -------------------------------
(***************************************************************************)
(* DDR4Core: how the commands of a DDR4 trace change the ranks and banks.  *)
(* A handler h of the code is the action h here; what it hands to          *)
(* addImplicitCommand is the action of the same name with Later.           *)
(***************************************************************************)
EXTENDS CoreHandlers

CONSTANT tRFC
ASSUME RefreshAssumption == tRFC \in Nat
-----------------------------------------------------------------------------
(* Activate, precharge, read, write                                        *)

\* A faulty variant of RankBusy: start_interval instead of
\* start_interval_if_not_running.
RankBusyAgain(rk, t) == ActStarted(rk, t)

\* The rank is active from now on, if it was not already.
RankBusy(rk, t) == [rk EXCEPT !.act = StartIfNotRunning(@, t)]

handleAct(r, b, t) ==
    /\ bank' = [bank EXCEPT ![r][b] = Activated(@, t)]
    /\ rank' = [rank EXCEPT ![r] = RankBusy(@, t)]

handlePre(r, b, t) == Precharge(r, {b}, t)
handlePreAll(r, t) == Precharge(r, Banks, t)

handleRead(r, b) == Count(r, b, "reads")
handleWrite(r, b) == Count(r, b, "writes")
handleReadAuto(r, b, t) == CountAndPrecharge(r, b, "readAuto", t + prechargeOffsetRD)
handleWriteAuto(r, b, t) == CountAndPrecharge(r, b, "writeAuto", t + prechargeOffsetWR)
-----------------------------------------------------------------------------
(* Refresh and self-refresh                                                *)

RefreshStarted(bk, t) ==
    [Counted(bk, "refAllBank") EXCEPT
        !.bankState = "ACTIVE", !.act = StartIfNotRunning(@, t),
        !.refreshEndTime = t + tRFC]

RankRefreshing(rk, t) ==
    [rk EXCEPT !.endRefreshTime = t + tRFC, !.act = StartIfNotRunning(@, t)]

RefreshAll(r, t) ==
    /\ rank' = [rank EXCEPT ![r] = RankRefreshing(@, t)]
    /\ bank' = [bank EXCEPT ![r] = [b \in Banks |-> RefreshStarted(bank[r][b], t)]]

AllRefreshEnds(r, t) == RefreshEnds(r, [i \in 1..NumBanks |-> i - 1], t + tRFC)

handleRefAll(r, t) ==
    /\ RefreshAll(r, t)
    /\ queue' = AddAll(queue, AllRefreshEnds(r, t), t + tRFC)

handleRefAllLater(r, b, t) == RefreshEnd(r, b, t)

\* A faulty variant of handleSelfRefreshEntry: self-refresh is queued first.
handleSelfRefreshEntryFirst(r, t) ==
    /\ RefreshAll(r, t)
    /\ queue' = AddAll(Add(queue, ImplicitFor(t + tRFC, "SREF_ENTRY", r, NoBank)),
                       AllRefreshEnds(r, t), t + tRFC)

\* The refresh ends first: both happen at the same time.
handleSelfRefreshEntry(r, t) ==
    /\ RefreshAll(r, t)
    /\ queue' = Add(AddAll(queue, AllRefreshEnds(r, t), t + tRFC),
                    ImplicitFor(t + tRFC, "SREF_ENTRY", r, NoBank))

handleSelfRefreshEntryLater(r, t) == SelfRefreshEntry(r, t)

\* Its assertion is compiled away in release builds.
handleSelfRefreshExit(r, t) == SelfRefreshExit(r, t)
-----------------------------------------------------------------------------
(* Power-down                                                              *)

handlePowerDownActEntry(r, t) == AddPowerDown("PDA_ENTRY", r, t)
handlePowerDownActEntryLater(r, t) == PowerDownActEntry(r, t)

\* Its assertion is compiled away in release builds.
handlePowerDownActExit(r, t) == AddPowerDown("PDA_EXIT", r, t)

\* A faulty variant of Reactivated: the banks stay as the entry left them.
NotReactivated(bks, t) == bks

\* The banks that are active go on being active.
Reactivated(bks, t) ==
    [b \in Banks |-> IF Active(bks[b]) THEN ActStarted(bks[b], t) ELSE bks[b]]

PowerDownActLeft(rk, bks, t) ==
    [rk EXCEPT !.memState = "NOT_IN_PD", !.powerDownAct = CloseInterval(@, t),
               !.act = IF IsActive(rk, bks, t) THEN StartInterval(@, t) ELSE @]

handlePowerDownActExitLater(r, t) ==
    /\ bank' = [bank EXCEPT ![r] = Reactivated(@, t)]
    /\ rank' = [rank EXCEPT ![r] = PowerDownActLeft(@, bank'[r], t)]

handlePowerDownPreEntry(r, t) == AddPowerDown("PDP_ENTRY", r, t)

PowerDownPreEntered(rk, t) ==
    [rk EXCEPT !.memState = "PDN_PRE", !.act = CloseInterval(@, t),
               !.powerDownPre = StartInterval(@, t)]

handlePowerDownPreEntryLater(r, t) ==
    /\ rank' = [rank EXCEPT ![r] = PowerDownPreEntered(@, t)]
    /\ bank' = [bank EXCEPT ![r] = [b \in Banks |-> ActClosed(bank[r][b], t)]]

handlePowerDownPreExit(r, t) == AddPowerDown("PDP_EXIT", r, t)

\* The active interval of the rank is not started again.
handlePowerDownPreExitLater(r, t) ==
    /\ rank' = [rank EXCEPT ![r] = PowerDownPreLeft(@, t)]
    /\ bank' = [bank EXCEPT ![r] = Reactivated(@, t)]
-----------------------------------------------------------------------------
(* processImplicitCommandQueue                                             *)

ExecuteImplicit ==
    /\ Pop
    /\ LET e == Head(queue) IN
       \/ e.op = "AUTO_PRECHARGE" /\ handlePre(e.rank, e.bank, e.time)
       \/ e.op = "REFRESH_END" /\ handleRefAllLater(e.rank, e.bank, e.time)
       \/ e.op = "SREF_ENTRY" /\ handleSelfRefreshEntryLater(e.rank, e.time)
       \/ e.op = "PDA_ENTRY" /\ handlePowerDownActEntryLater(e.rank, e.time)
       \/ e.op = "PDA_EXIT" /\ handlePowerDownActExitLater(e.rank, e.time)
       \/ e.op = "PDP_ENTRY" /\ handlePowerDownPreEntryLater(e.rank, e.time)
       \/ e.op = "PDP_EXIT" /\ handlePowerDownPreExitLater(e.rank, e.time)
-----------------------------------------------------------------------------
(* doCommand                                                               *)

ACT(r, b) == Permitted("ACT", r, {b}) /\ handleAct(r, b, target) /\ UNCHANGED queue
PRE(r, b) == Permitted("PRE", r, {b}) /\ handlePre(r, b, target) /\ UNCHANGED queue
RD(r, b) == Permitted("RD", r, {b}) /\ handleRead(r, b) /\ UNCHANGED queue
WR(r, b) == Permitted("WR", r, {b}) /\ handleWrite(r, b) /\ UNCHANGED queue
RDA(r, b) == Permitted("RDA", r, {b}) /\ handleReadAuto(r, b, target)
WRA(r, b) == Permitted("WRA", r, {b}) /\ handleWriteAuto(r, b, target)
PREA(r) == Permitted("PREA", r, Banks) /\ handlePreAll(r, target) /\ UNCHANGED queue
REFA(r) == Permitted("REFA", r, Banks) /\ handleRefAll(r, target)
SREFEN(r) == Permitted("SREFEN", r, Banks) /\ handleSelfRefreshEntry(r, target)
SREFEX(r) == Permitted("SREFEX", r, Banks) /\ handleSelfRefreshExit(r, target) /\ UNCHANGED queue
PDEA(r) == Permitted("PDEA", r, Banks) /\ handlePowerDownActEntry(r, target)
PDXA(r) == Permitted("PDXA", r, Banks) /\ handlePowerDownActExit(r, target)
PDEP(r) == Permitted("PDEP", r, Banks) /\ handlePowerDownPreEntry(r, target)
PDXP(r) == Permitted("PDXP", r, Banks) /\ handlePowerDownPreExit(r, target)
END_OF_SIMULATION == UNCHANGED <<rank, bank, queue>>

BankCommand(r, b) ==
    \/ ACT(r, b) \/ PRE(r, b) \/ RD(r, b) \/ WR(r, b) \/ RDA(r, b) \/ WRA(r, b)
RankCommand(r) ==
    \/ PREA(r) \/ REFA(r) \/ SREFEN(r) \/ SREFEX(r)
    \/ PDEA(r) \/ PDXA(r) \/ PDEP(r) \/ PDXP(r)

Serve ==
    \/ /\ DoCommand
       /\ \/ \E r \in Ranks, b \in Banks : BankCommand(r, b)
          \/ \E r \in Ranks : RankCommand(r)
          \/ END_OF_SIMULATION
    \/ GetWindowStats

Next ==
    \/ \E t \in now..MaxTime : Call(t)
    \/ ExecuteImplicit
    \/ Serve

Spec == Init /\ [][Next]_vars

\* A running call runs to its end: the program is sequential, nothing holds
\* it up.
FairSpec == Spec /\ WF_vars(ExecuteImplicit \/ Serve)
=============================================================================
