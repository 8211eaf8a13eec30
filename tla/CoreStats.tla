------------------------------ MODULE CoreStats ------------------------------
(***************************************************************************)
(* What leaves a core: the statistics getWindowStats fills in, and the     *)
(* image serialize writes of it.                                           *)
(***************************************************************************)
EXTENDS CoreState

\* The cycles of a unit (a rank, or a bank of it) with the active interval act
\* that was neither active nor reported otherwise for the time pre.
CyclesOf(r, act, pre, t) ==
    [act |-> GetCountAt(act, t), pre |-> pre,
     powerDownAct |-> GetCountAt(rank[r].powerDownAct, t),
     powerDownPre |-> GetCountAt(rank[r].powerDownPre, t),
     selfRefresh |-> GetCountAt(rank[r].sref, t), deepSleepMode |-> 0]

\* The deep sleep of the rank told apart from its self-refresh.
DeepSleepApart(r, cycles, t) ==
    [cycles EXCEPT !.selfRefresh = @ - GetCountAt(rank[r].deepSleepMode, t),
                   !.deepSleepMode = GetCountAt(rank[r].deepSleepMode, t)]

RankCycles(r, t) == CyclesOf(r, rank[r].act, RankPre(r, t), t)
BankCycles(r, b, t) == CyclesOf(r, bank[r][b].act, BankPre(r, b, t), t)

\* SimulationStats as the core fills it in, with the cycles of the ranks and banks.
Stats(rankCycles, bankCycles) ==
    [rank_total |-> rankCycles,
     bank |-> [r \in Ranks |-> [b \in Banks |->
                  [counter |-> bank[r][b].counter, cycles |-> bankCycles[r][b]]]]]

\* getWindowStats once the implicit commands are executed, for each standard.
WindowStatsDDR4(t) ==
    Stats([r \in Ranks |-> RankCycles(r, t)],
          [r \in Ranks |-> [b \in Banks |-> BankCycles(r, b, t)]])

WindowStatsDDR5(t) ==
    Stats([r \in Ranks |-> [RankCycles(r, t) EXCEPT
                               !.deepSleepMode = GetCountAt(rank[r].deepSleepMode, t)]],
          [r \in Ranks |-> [b \in Banks |-> BankCycles(r, b, t)]])

WindowStatsLPDDR4(t) ==
    Stats([r \in Ranks |-> RankCycles(r, t)],
          [r \in Ranks |-> [b \in Banks |-> DeepSleepApart(r, BankCycles(r, b, t), t)]])

WindowStatsLPDDR5(t) ==
    Stats([r \in Ranks |-> DeepSleepApart(r, RankCycles(r, t), t)],
          [r \in Ranks |-> [b \in Banks |-> DeepSleepApart(r, BankCycles(r, b, t), t)]])

WindowStatsLPDDR6(t) == WindowStatsLPDDR5(t)
-----------------------------------------------------------------------------
(* serialize, and deserialize into a new core: field by field, in the order *)
(* of the stream.                                                           *)

\* The end of a closed interval is written behind a flag, like its start.
RestoredInterval(i) == [NewInterval EXCEPT !.count = i.count, !.start = i.start, !.end = i.end]

\* A faulty variant of RestoredRank: the end of the refresh is not written.
RestoredRankWithoutEnd(rk) ==
    [NewRank EXCEPT !.memState = rk.memState,
        !.selfRefreshes = rk.selfRefreshes, !.deepSleeps = rk.deepSleeps,
        !.act = RestoredInterval(rk.act), !.sref = RestoredInterval(rk.sref),
        !.powerDownAct = RestoredInterval(rk.powerDownAct),
        !.powerDownPre = RestoredInterval(rk.powerDownPre),
        !.deepSleepMode = RestoredInterval(rk.deepSleepMode)]

RestoredRank(rk) ==
    [NewRank EXCEPT !.memState = rk.memState, !.endRefreshTime = rk.endRefreshTime,
        !.selfRefreshes = rk.selfRefreshes, !.deepSleeps = rk.deepSleeps,
        !.act = RestoredInterval(rk.act), !.sref = RestoredInterval(rk.sref),
        !.powerDownAct = RestoredInterval(rk.powerDownAct),
        !.powerDownPre = RestoredInterval(rk.powerDownPre),
        !.deepSleepMode = RestoredInterval(rk.deepSleepMode)]

RestoredBank(bk) ==
    [NewBank EXCEPT !.bankState = bk.bankState, !.latestPre = bk.latestPre,
        !.refreshEndTime = bk.refreshEndTime, !.act = RestoredInterval(bk.act),
        !.counter = [c \in Counters |-> bk.counter[c]]]

\* What a front end calls serializable: no implicit command is waiting.
IsSerializable == queue = <<>>

\* The core is saved and a new one, whose queue is empty, takes its place.
Restore ==
    /\ phase = "idle" /\ IsSerializable
    /\ rank' = [r \in Ranks |-> RestoredRank(rank[r])]
    /\ bank' = [r \in Ranks |-> [b \in Banks |-> RestoredBank(bank[r][b])]]
    /\ queue' = <<>> /\ last' = last
    /\ UNCHANGED callVars
=============================================================================
