----------------------------- MODULE CoreHandlers -----------------------------
(***************************************************************************)
(* The parts the handlers of the standards are made of.  Those said of     *)
(* several banks are the loops of the code over these banks.               *)
(***************************************************************************)
EXTENDS ValidTrace, CoreStats

CONSTANTS tRAS, tRCD, tRP, prechargeOffsetRD, prechargeOffsetWR

ASSUME TimingAssumption ==
    /\ tRAS \in Nat /\ tRCD \in Nat /\ tRP \in Nat
    /\ prechargeOffsetRD \in Nat /\ prechargeOffsetWR \in Nat
-----------------------------------------------------------------------------
(* Activate and precharge                                                  *)

\* Whatever interval the bank had running starts again.
Activated(bk, t) ==
    [Counted(bk, "act") EXCEPT !.bankState = "ACTIVE", !.act = StartInterval(@, t)]

\* A faulty variant of Precharged: no early return.
PrechargedAnyway(bk, t) ==
    [Counted(bk, "pre") EXCEPT !.bankState = "PRECHARGED",
                               !.act = CloseInterval(@, t), !.latestPre = t]

\* A bank that is already precharged is left alone.
Precharged(bk, t) ==
    IF Active(bk)
    THEN [Counted(bk, "pre") EXCEPT !.bankState = "PRECHARGED",
                                    !.act = CloseInterval(@, t), !.latestPre = t]
    ELSE bk

\* A faulty variant of RankIdle: the other banks are not looked at.
RankIdleAnyway(rk, bks, t) == [rk EXCEPT !.act = CloseInterval(@, t)]

\* The rank rk, once its banks became bks, stops being active.
RankIdle(rk, bks, t) ==
    IF IsActive(rk, bks, t) THEN rk ELSE [rk EXCEPT !.act = CloseInterval(@, t)]

Precharge(r, bs, t) ==
    /\ bank' = [bank EXCEPT ![r] = [b \in Banks |->
            IF b \in bs THEN Precharged(bank[r][b], t) ELSE bank[r][b]]]
    /\ rank' = IF \E b \in bs : Active(bank[r][b])
               THEN [rank EXCEPT ![r] = RankIdle(@, bank'[r], t)]
               ELSE rank
-----------------------------------------------------------------------------
(* Read and write                                                          *)

Count(r, b, c) ==
    /\ bank' = [bank EXCEPT ![r][b] = Counted(@, c)]
    /\ UNCHANGED rank

\* The precharge waits until the row was open for tRAS.
AutoPrechargeTime(r, b, t) == Max2(GetStart(bank[r][b].act) + tRAS, t)

CountAndPrecharge(r, b, c, t) ==
    /\ Count(r, b, c)
    /\ queue' = Add(queue, ImplicitFor(AutoPrechargeTime(r, b, t), "AUTO_PRECHARGE", r, b))
-----------------------------------------------------------------------------
(* Refresh                                                                 *)

\* One entry per bank of the sequence bs.
RefreshEnds(r, bs, t) ==
    [i \in 1..Len(bs) |-> ImplicitFor(t, "REFRESH_END", r, bs[i])]

RefreshEnded(bk, t) ==
    [bk EXCEPT !.bankState = "PRECHARGED", !.act = CloseInterval(@, t)]

RefreshEnd(r, b, t) ==
    /\ bank' = [bank EXCEPT ![r][b] = RefreshEnded(@, t)]
    /\ rank' = [rank EXCEPT ![r] = RankIdle(@, bank'[r], t)]

SelfRefreshEntered(rk, t) ==
    [rk EXCEPT !.selfRefreshes = @ + 1, !.sref = StartInterval(@, t),
               !.memState = "SREF"]

SelfRefreshEntry(r, t) ==
    /\ rank' = [rank EXCEPT ![r] = SelfRefreshEntered(@, t)]
    /\ UNCHANGED bank

\* A faulty variant of SelfRefreshLeft: the interval is not closed.
SelfRefreshLeftOpen(rk, t) == [rk EXCEPT !.memState = "NOT_IN_PD"]

SelfRefreshLeft(rk, t) ==
    [rk EXCEPT !.sref = CloseInterval(@, t), !.memState = "NOT_IN_PD"]

SelfRefreshExit(r, t) ==
    /\ rank' = [rank EXCEPT ![r] = SelfRefreshLeft(@, t)]
    /\ UNCHANGED bank
-----------------------------------------------------------------------------
(* Power-down                                                              *)

\* A faulty variant of BankPermits: a refresh that runs is not waited for.
BankPermitsDuringRefresh(bk) ==
    {IF bk.counter.act = 0 THEN 0 ELSE GetStart(bk.act) + tRCD,
     IF bk.counter.pre = 0 THEN 0 ELSE bk.latestPre + tRP}

BankPermits(bk) ==
    {IF bk.counter.act = 0 THEN 0 ELSE GetStart(bk.act) + tRCD,
     IF bk.counter.pre = 0 THEN 0 ELSE bk.latestPre + tRP,
     bk.refreshEndTime}

\* A faulty variant of PowerDownTimes: power-down at once.
PowerDownAtOnce(r, t) == {t}

\* t, or the first time after it at which every bank of the rank permits a
\* power-down: max(t, earliestPossiblePowerDownEntryTime(rank)).
PowerDownTimes(r, t) == {t} \cup UNION {BankPermits(bank[r][b]) : b \in Banks}
PowerDownTime(r, t) ==
    CHOOSE e \in PowerDownTimes(r, t) : \A x \in PowerDownTimes(r, t) : x <= e

AddPowerDown(op, r, t) ==
    /\ queue' = Add(queue, ImplicitFor(PowerDownTime(r, t), op, r, NoBank))
    /\ UNCHANGED <<rank, bank>>

ActClosed(bk, t) == [bk EXCEPT !.act = CloseInterval(@, t)]
ActStarted(x, t) == [x EXCEPT !.act = StartInterval(@, t)]

PowerDownActEntered(rk, t) ==
    [rk EXCEPT !.memState = "PDN_ACT", !.act = CloseInterval(@, t),
               !.powerDownAct = StartInterval(@, t)]

PowerDownActEntry(r, t) ==
    /\ rank' = [rank EXCEPT ![r] = PowerDownActEntered(@, t)]
    /\ bank' = [bank EXCEPT ![r] = [b \in Banks |-> ActClosed(bank[r][b], t)]]

PowerDownPreLeft(rk, t) ==
    [rk EXCEPT !.memState = "NOT_IN_PD", !.powerDownPre = CloseInterval(@, t)]
=============================================================================
