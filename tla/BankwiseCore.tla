----------------------------- MODULE BankwiseCore -----------------------------
(***************************************************************************)
(* What the handlers of DDR5Core, LPDDR4Core, LPDDR5Core and LPDDR6Core    *)
(* have in common and DDR4Core does differently: refresh of single banks,  *)
(* the way the active interval of the rank is started, and power-down.     *)
(***************************************************************************)
EXTENDS CoreHandlers, FiniteSets

\* A faulty variant of RankBusy: the interval that runs starts again.
RankBusyAgain(rk, bks, t) == ActStarted(rk, t)

\* The rank rk, of banks bks, starts being active with the command at t.
RankBusy(rk, bks, t) == IF IsActive(rk, bks, t) THEN rk ELSE ActStarted(rk, t)

Activate(r, b, t) ==
    /\ bank' = [bank EXCEPT ![r][b] = Activated(@, t)]
    /\ rank' = [rank EXCEPT ![r] = RankBusy(@, bank[r], t)]

\* handleRefreshOnBank for a bank bk, until te.
RefreshStarted(bk, c, t, te) ==
    [Counted(bk, c) EXCEPT !.bankState = "ACTIVE", !.refreshEndTime = te,
                           !.act = StartIfNotRunning(@, t)]

\* handleRefreshOnBank for the banks of the sequence bs in turn, counted by c,
\* and what happens to the queue.
RefreshBanks(r, bs, c, t, te) ==
    bank' = [bank EXCEPT ![r] = [b \in Banks |->
        IF \E i \in 1..Len(bs) : bs[i] = b
        THEN RefreshStarted(bank[r][b], c, t, te) ELSE bank[r][b]]]
RefreshQueue(r, bs, te) == AddAll(queue, RefreshEnds(r, bs, te), te)

AllBanks == [i \in 1..NumBanks |-> i - 1]

\* The refresh of all banks also sets the end of refresh of the rank.
RankRefreshing(rk, bks, t, te) == [RankBusy(rk, bks, t) EXCEPT !.endRefreshTime = te]

RefreshAll(r, t, te) ==
    /\ rank' = [rank EXCEPT ![r] = RankRefreshing(@, bank[r], t, te)]
    /\ RefreshBanks(r, AllBanks, "refAllBank", t, te)

\* The refresh of some banks does not.
RefreshSome(r, bs, c, t, te) ==
    /\ rank' = [rank EXCEPT ![r] = RankBusy(@, bank[r], t)]
    /\ RefreshBanks(r, bs, c, t, te)
    /\ queue' = RefreshQueue(r, bs, te)

\* The banks whose active interval was cut by the entry into power-down, or
\* ended at that very time; the intervals tell, not the states of the banks.
ClosedAtEntry(r) ==
    {b \in Banks : /\ bank[r][b].counter.act # 0
                   /\ GetEnd(bank[r][b].act) = GetStart(rank[r].powerDownAct)}

\* A faulty variant of Reopen: the banks stay as the entry left them.
ReopenNone(r, t) == UNCHANGED bank

Reopen(r, t) ==
    bank' = [bank EXCEPT ![r] = [b \in Banks |->
        IF b \in ClosedAtEntry(r) THEN ActStarted(bank[r][b], t) ELSE bank[r][b]]]

PowerDownActLeft(rk, closed, t) ==
    [rk EXCEPT !.memState = "NOT_IN_PD", !.powerDownAct = CloseInterval(@, t),
               !.act = IF closed = {} THEN @ ELSE StartInterval(@, t)]

PowerDownActExit(r, t) ==
    /\ Reopen(r, t)
    /\ rank' = [rank EXCEPT ![r] = PowerDownActLeft(@, ClosedAtEntry(r), t)]

PowerDownPreEntered(rk, t) ==
    [rk EXCEPT !.memState = "PDN_PRE", !.powerDownPre = StartInterval(@, t)]

PowerDownPreEntry(r, t) ==
    /\ rank' = [rank EXCEPT ![r] = PowerDownPreEntered(@, t)]
    /\ UNCHANGED bank

PowerDownPreExit(r, t) ==
    /\ rank' = [rank EXCEPT ![r] = PowerDownPreLeft(@, t)]
    /\ UNCHANGED bank
=============================================================================
