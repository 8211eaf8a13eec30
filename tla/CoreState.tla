------------------------------ MODULE CoreState ------------------------------
(***************************************************************************)
(* What the cores of all standards share: the ranks and banks, the queue   *)
(* of implicit commands, the time of the last command, and the two calls a *)
(* user makes, doCommand and getWindowStats.  Both first execute the       *)
(* implicit commands due at the time of the call, one per step here, and   *)
(* then do their own work.  The commands themselves are in the modules of  *)
(* the standards.                                                          *)
(*                                                                         *)
(* A call is split into Call (its time becomes known), the loop of         *)
(* processImplicitCommandQueue, and a return that dispatches the command   *)
(* or reads the statistics.  Which command it was is chosen at the return, *)
(* since the loop before it does not depend on that.                       *)
(***************************************************************************)
EXTENDS IntervalCounter, ImplicitCommandHandler

CONSTANTS
    NumRanks,   \* m_memSpec.numberOfRanks
    NumBanks,   \* m_memSpec.numberOfBanks
    MaxTime,    \* bound: no call has a later time
    MaxCalls    \* bound: number of calls

ASSUME SizeAssumption ==
    NumRanks \in Nat /\ NumBanks \in Nat \ {0} /\ MaxTime \in Nat /\ MaxCalls \in Nat

Ranks == 0..(NumRanks - 1)
Banks == 0..(NumBanks - 1)

VARIABLES
    rank,    \* Rank per rank, without its banks
    bank,    \* Bank per rank and bank
    queue,   \* m_implicitCommandHandler
    last,    \* m_last_command_time
    phase,   \* whether a call is running
    target,  \* the time argument of that call, or of the last one
    now,     \* the time up to which events have happened
    calls    \* how many calls were made

coreVars == <<rank, bank, queue, last>>
callVars == <<phase, target, now, calls>>
vars == <<rank, bank, queue, last, phase, target, now, calls>>
-----------------------------------------------------------------------------
MemStates == {"NOT_IN_PD", "PDN_ACT", "PDN_PRE", "SREF", "DSM"}

Counters == {"act", "pre", "reads", "readAuto", "writes", "writeAuto",
             "refAllBank", "refPerBank", "refPerTwoBanks", "refSameBank",
             "refDualBanks"}

Rank == [memState : MemStates,
         act : Interval, sref : Interval,
         powerDownAct : Interval, powerDownPre : Interval,
         deepSleepMode : Interval,
         selfRefreshes : Nat, deepSleeps : Nat, endRefreshTime : Time]

Bank == [counter : [Counters -> Nat], act : Interval,
         bankState : {"PRECHARGED", "ACTIVE"},
         latestPre : Time, refreshEndTime : Time]

NewRank == [memState |-> "NOT_IN_PD",
            act |-> NewInterval, sref |-> NewInterval,
            powerDownAct |-> NewInterval, powerDownPre |-> NewInterval,
            deepSleepMode |-> NewInterval,
            selfRefreshes |-> 0, deepSleeps |-> 0, endRefreshTime |-> 0]

NewBank == [counter |-> [c \in Counters |-> 0], act |-> NewInterval,
            bankState |-> "PRECHARGED", latestPre |-> 0, refreshEndTime |-> 0]

Active(bk) == bk.bankState = "ACTIVE"

\* Rank::isActive for a rank rk whose banks are bks.
IsActive(rk, bks, t) == (\E b \in Banks : Active(bks[b])) \/ t < rk.endRefreshTime

Max2(a, b) == IF a >= b THEN a ELSE b

\* ++bank.counter.c
Counted(bk, c) == [bk EXCEPT !.counter[c] = @ + 1]
-----------------------------------------------------------------------------
\* What an implicit command does; NoBank for those that concern the rank.
ImplicitOps == {"REFRESH_END", "AUTO_PRECHARGE", "SREF_ENTRY",
                "PDA_ENTRY", "PDA_EXIT", "PDP_ENTRY", "PDP_EXIT"}
NoBank == -1
BankOps == {"AUTO_PRECHARGE", "REFRESH_END"}
Entry == {e \in [time : Time, op : ImplicitOps, rank : Ranks, bank : Banks \cup {NoBank}] :
            e.op \in BankOps <=> e.bank # NoBank}

\* A faulty variant of ImplicitFor: the rank is not captured.
ImplicitForFirstRank(t, op, r, b) == [time |-> t, op |-> op, rank |-> 0, bank |-> b]

ImplicitFor(t, op, r, b) == [time |-> t, op |-> op, rank |-> r, bank |-> b]
-----------------------------------------------------------------------------
Init ==
    /\ rank = [r \in Ranks |-> NewRank]
    /\ bank = [r \in Ranks |-> [b \in Banks |-> NewBank]]
    /\ queue = <<>>
    /\ last = 0
    /\ phase = "idle" /\ target = 0 /\ now = 0 /\ calls = 0

\* The user calls doCommand or getWindowStats with time t; Next takes t from
\* now..MaxTime, so that calls come in the order of their times.
Call(t) ==
    /\ phase = "idle" /\ calls < MaxCalls
    /\ phase' = "busy" /\ target' = t /\ calls' = calls + 1
    /\ UNCHANGED <<rank, bank, queue, last, now>>

\* A faulty variant of Pop: the command executed stays in the queue.
PopWithoutErase ==
    /\ phase = "busy" /\ Due(queue, target)
    /\ last' = Head(queue).time
    /\ now' = Head(queue).time
    /\ UNCHANGED <<queue, phase, target, calls>>

\* The part of an iteration of processImplicitCommandQueue that is not the
\* implicit command itself.
Pop ==
    /\ phase = "busy" /\ Due(queue, target)
    /\ queue' = Tail(queue)
    /\ last' = Head(queue).time
    /\ now' = Head(queue).time
    /\ UNCHANGED <<phase, target, calls>>

\* The loop is over and the call returns.
Return ==
    /\ phase = "busy" /\ ~Due(queue, target)
    /\ phase' = "idle" /\ now' = target
    /\ UNCHANGED <<target, calls>>

\* doCommand, without the handler of the command.
DoCommand == Return /\ last' = Max2(target, last)

\* getWindowStats(target): the statistics are read, nothing else changes.
GetWindowStats == Return /\ UNCHANGED coreVars

\* What getWindowStats(t) reports of rank r: cycles.pre is whatever of the
\* simulated time is not reported otherwise.
Reported(r, t) ==
    GetCountAt(rank[r].act, t) + GetCountAt(rank[r].sref, t)
    + GetCountAt(rank[r].powerDownAct, t) + GetCountAt(rank[r].powerDownPre, t)
RankPre(r, t) == t - Reported(r, t)
BankPre(r, b, t) ==
    t - (GetCountAt(bank[r][b].act, t) + GetCountAt(rank[r].sref, t)
         + GetCountAt(rank[r].powerDownAct, t) + GetCountAt(rank[r].powerDownPre, t))
=============================================================================
