---------------------------- MODULE CoreProperties ----------------------------
(***************************************************************************)
(* What the cores of all standards promise, stated over their shared state.*)
(***************************************************************************)
EXTENDS ValidTrace

\* The state has the shape of the code's, and the call that runs is not in
\* the past.
TypeOK ==
    /\ rank \in [Ranks -> Rank]
    /\ bank \in [Ranks -> [Banks -> Bank]]
    /\ queue \in Seq(Entry)
    /\ last \in Time
    /\ phase \in {"idle", "busy"}
    /\ target \in Time /\ now \in Time /\ now <= target
    /\ (phase = "idle" => now = target)
    /\ calls \in Nat

\* addImplicitCommand keeps the queue sorted, and no implicit command is ever
\* due before the point the simulation has reached: each one is executed at
\* its own time, not late.
QueueInOrder ==
    /\ Sorted(queue)
    /\ \A i \in 1..Len(queue) : queue[i].time >= now

\* m_last_command_time never goes back, although the queue assigns it without
\* a comparison (getStats would report a shorter simulation).
LastNeverDecreases == [][last' >= last]_last

\* No interval counts more than the time that has passed, and none starts in
\* the future: closing one never subtracts a later time from an earlier one.
Measured(i) == GetStart(i) <= now /\ GetCountAt(i, now) <= now
CountsWithinTime ==
    \A r \in Ranks :
        /\ Measured(rank[r].act) /\ Measured(rank[r].sref)
        /\ Measured(rank[r].powerDownAct) /\ Measured(rank[r].powerDownPre)
        /\ Measured(rank[r].deepSleepMode)
        /\ \A b \in Banks : Measured(bank[r][b].act)
-----------------------------------------------------------------------------
PowerDown(r) == rank[r].memState \in {"PDN_ACT", "PDN_PRE"}

\* A rank is in the state whose interval runs, and in no other: the cycles of
\* two states never overlap.
StateMatchesIntervals ==
    \A r \in Ranks :
        /\ rank[r].memState \in {"SREF", "DSM"} <=> IsOpen(rank[r].sref)
        /\ rank[r].memState = "DSM" <=> IsOpen(rank[r].deepSleepMode)
        /\ rank[r].memState = "PDN_ACT" <=> IsOpen(rank[r].powerDownAct)
        /\ rank[r].memState = "PDN_PRE" <=> IsOpen(rank[r].powerDownPre)
        /\ IsOpen(rank[r].act) => rank[r].memState = "NOT_IN_PD"

\* A bank's active cycles are counted exactly while its row is open and the
\* rank is not powered down.
BankActiveCounted ==
    \A r \in Ranks, b \in Banks :
        IsOpen(bank[r][b].act) <=> Active(bank[r][b]) /\ ~PowerDown(r)

\* A rank's active cycles are counted exactly while one of its banks is active
\* and it is not powered down.
RankActiveCounted ==
    \A r \in Ranks :
        IsOpen(rank[r].act) <=> (\E b \in Banks : Active(bank[r][b])) /\ ~PowerDown(r)

\* The end of a refresh of the bank is in the queue.
RefreshPending(r, b) ==
    \E i \in 1..Len(queue) :
        queue[i].op = "REFRESH_END" /\ queue[i].rank = r /\ queue[i].bank = b

\* counter.pre counts the rows closed, each opened by one ACT, whoever closed
\* it (PRE, PREA or an auto-precharge); a refresh counts as neither.
EveryRowClosedOnce ==
    \A r \in Ranks, b \in Banks :
        LET c == bank[r][b].counter
        IN  c.act - c.pre = IF Active(bank[r][b]) /\ ~RefreshPending(r, b) THEN 1 ELSE 0

\* A rank is refreshing itself only with all its banks closed: the refresh
\* that precedes it has ended in every bank.
SelfRefreshWithBanksClosed ==
    \A r \in Ranks : rank[r].memState \in {"SREF", "DSM"} => \A b \in Banks : Closed(r, b)

\* A rank is powered down only when no bank of it is being refreshed: a
\* power-down waits for the end of every refresh that runs.
PowerDownAfterRefresh ==
    \A r \in Ranks : PowerDown(r) => \A b \in Banks : ~RefreshPending(r, b)

\* A delayed exit is never executed before the delayed entry it belongs to.
ExitAfterEntry ==
    \A i, j \in 1..Len(queue) :
        /\ queue[i].rank = queue[j].rank
        /\ <<queue[i].op, queue[j].op>> \in
             {<<"PDA_EXIT", "PDA_ENTRY">>, <<"PDP_EXIT", "PDP_ENTRY">>}
        => j < i

\* A call returns: the loop over the implicit commands ends.
CallReturns == phase = "busy" ~> phase = "idle"
-----------------------------------------------------------------------------
(* The statistics as the ledger of PowerStates.  PRE is what getWindowStats *)
(* computes as the rest of the time.                                        *)

PowerState(r, act) ==
    IF IsOpen(rank[r].powerDownAct) THEN "PDA"
    ELSE IF IsOpen(rank[r].powerDownPre) THEN "PDP"
    ELSE IF IsOpen(rank[r].deepSleepMode) THEN "DSM"
    ELSE IF IsOpen(rank[r].sref) THEN "SREF"
    ELSE IF IsOpen(act) THEN "ACT" ELSE "PRE"

Cycles(r, act, pre) ==
    [PRE |-> pre,
     ACT |-> GetCountAt(act, now),
     PDA |-> GetCountAt(rank[r].powerDownAct, now),
     PDP |-> GetCountAt(rank[r].powerDownPre, now),
     SREF |-> GetCountAt(rank[r].sref, now) - GetCountAt(rank[r].deepSleepMode, now),
     DSM |-> GetCountAt(rank[r].deepSleepMode, now)]

\* A unit is a rank, written <<r, NoBank>>, or a bank of one.
Act(u) == IF u[2] = NoBank THEN rank[u[1]].act ELSE bank[u[1]][u[2]].act
Pre(u) == IF u[2] = NoBank THEN RankPre(u[1], now) ELSE BankPre(u[1], u[2], now)

Ledger == INSTANCE PowerStates WITH
    Units <- Ranks \X (Banks \cup {NoBank}),
    MaxClock <- MaxTime,
    clock <- now,
    state <- [u \in Ranks \X (Banks \cup {NoBank}) |-> PowerState(u[1], Act(u))],
    residency <- [u \in Ranks \X (Banks \cup {NoBank}) |-> Cycles(u[1], Act(u), Pre(u))]

\* The cycles reported of every rank and bank are the time it spent in each
\* power state, and it moved between them along the state diagram.  No cycle
\* is counted under two states: cycles.pre, a difference in unsigned
\* arithmetic, never wraps.
ReportsPowerStates == Ledger!Spec
=============================================================================
