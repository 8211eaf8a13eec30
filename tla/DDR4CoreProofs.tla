---------------------------- MODULE DDR4CoreProofs ----------------------------
(***************************************************************************)
(* What DDR4Core keeps whatever the trace, valid or not, for any number of *)
(* ranks and banks and any timings: its types, the order of its queue, and *)
(* that no statistic counts more than the simulated time.  Then what it    *)
(* keeps on valid traces: a power-down waits for the refreshes that run,   *)
(* an exit from it for its entry, and self-refresh for the end of the      *)
(* refresh before it, which depend on the order of the queue.  Last what   *)
(* its statistics mean on these traces.                                    *)
(***************************************************************************)
EXTENDS DDR4Core, CoreProperties, CoreLemmas

\* The inductive invariant.  It bounds, beside what the properties say, the
\* times a power-down is computed from (BanksWithin) and the last command.
IInv ==
    /\ RanksWithin(rank, now)
    /\ BanksWithin(bank, now, tRFC)
    /\ QueueFrom(queue, now)
    /\ last \in Nat /\ last <= now
    /\ phase \in {"idle", "busy"}
    /\ target \in Nat /\ now \in Nat /\ now <= target
    /\ phase = "idle" => now = target
    /\ calls \in Nat

\* The state the handlers read and write, at time t.
CoreWithin(rks, bks, q, t) ==
    RanksWithin(rks, t) /\ BanksWithin(bks, t, tRFC) /\ QueueFrom(q, t)
-----------------------------------------------------------------------------
(* The records of DDR4Core                                                 *)

LEMMA RefreshLength == tRFC \in Nat
BY RefreshAssumption DEF RefreshAssumption

LEMMA RankBusyWithin ==
    ASSUME NEW t \in Nat, NEW rk, RankWithin(rk, t)
    PROVE  RankWithin(RankBusy(rk, t), t) /\ RankWithin(RankRefreshing(rk, t), t)
<1>1. /\ Within(StartIfNotRunning(rk.act, t), t)
      /\ StartIfNotRunning(rk.act, t) \in Interval
  BY StartIfNotRunningWithin DEF RankWithin, Within
<1>2. t + tRFC \in Time
  BY RefreshLength DEF Time
<1> QED BY <1>1, <1>2 DEF RankWithin, Rank, RankBusy, RankRefreshing

LEMMA RefreshStartedWithin ==
    ASSUME NEW t \in Nat, NEW bk, BankWithin(bk, t, tRFC)
    PROVE  BankWithin(RefreshStarted(bk, t), t, tRFC)
<1> DEFINE c == Counted(bk, "refAllBank")
           s == [c EXCEPT !.bankState = "ACTIVE", !.act = StartIfNotRunning(c.act, t),
                          !.refreshEndTime = t + tRFC]
<1>1. BankWithin(c, t, tRFC)
  BY CountedWithin, RefreshLength DEF Counters
<1>2. Within(StartIfNotRunning(c.act, t), t) /\ StartIfNotRunning(c.act, t) \in Interval
  BY <1>1, StartIfNotRunningWithin DEF BankWithin, Within
<1>3. RefreshStarted(bk, t) = s
  BY DEF RefreshStarted
<1> HIDE DEF c
<1>4. /\ s.act = StartIfNotRunning(c.act, t) /\ s.latestPre = c.latestPre
      /\ s.refreshEndTime = t + tRFC /\ s \in Bank
  <2>1. t + tRFC \in Time
    BY RefreshLength DEF Time
  <2> QED BY <1>1, <1>2, <2>1 DEF BankWithin, Bank
<1> HIDE DEF s
<1> QED BY <1>1, <1>2, <1>3, <1>4, RefreshLength DEF BankWithin

LEMMA PowerDownRecordsWithin ==
    ASSUME NEW t \in Nat, NEW rk, RankWithin(rk, t), NEW bks
    PROVE  /\ RankWithin(PowerDownActLeft(rk, bks, t), t)
           /\ RankWithin(PowerDownPreEntered(rk, t), t)
<1>1. /\ Within(StartInterval(rk.act, t), t) /\ StartInterval(rk.act, t) \in Interval
      /\ Within(CloseInterval(rk.act, t), t) /\ CloseInterval(rk.act, t) \in Interval
      /\ Within(CloseInterval(rk.powerDownAct, t), t)
      /\ CloseInterval(rk.powerDownAct, t) \in Interval
      /\ Within(StartInterval(rk.powerDownPre, t), t)
      /\ StartInterval(rk.powerDownPre, t) \in Interval
  BY StartWithin, CloseWithin DEF RankWithin, Within
<1>2. RankWithin(PowerDownPreEntered(rk, t), t)
  BY <1>1 DEF RankWithin, Rank, MemStates, PowerDownPreEntered
<1>3. RankWithin(PowerDownActLeft(rk, bks, t), t)
  <2> DEFINE a == IF IsActive(rk, bks, t) THEN StartInterval(rk.act, t) ELSE rk.act
             l == [rk EXCEPT !.memState = "NOT_IN_PD",
                             !.powerDownAct = CloseInterval(rk.powerDownAct, t), !.act = a]
  <2>1. Within(a, t) /\ a \in Interval
    BY <1>1 DEF RankWithin, Rank
  <2>2. PowerDownActLeft(rk, bks, t) = l
    BY DEF PowerDownActLeft
  <2> HIDE DEF a
  <2>3. RankWithin(l, t)
    BY <1>1, <2>1 DEF RankWithin, Rank, MemStates
  <2> QED BY <2>2, <2>3
<1> QED BY <1>2, <1>3
-----------------------------------------------------------------------------
(* The handlers                                                            *)

LEMMA ActWithin ==
    ASSUME NEW t \in Nat, NEW r \in Ranks, NEW b \in Banks,
           CoreWithin(rank, bank, queue, t), handleAct(r, b, t), queue' = queue
    PROVE  CoreWithin(rank', bank', queue', t)
<1>1. BankWithin(Activated(bank[r][b], t), t, tRFC)
  BY ActivatedWithin, RefreshLength DEF CoreWithin, BanksWithin
<1>2. RankWithin(RankBusy(rank[r], t), t)
  BY RankBusyWithin DEF CoreWithin, RanksWithin
<1>3. /\ bank' = [bank EXCEPT ![r][b] = Activated(bank[r][b], t)]
      /\ rank' = [rank EXCEPT ![r] = RankBusy(rank[r], t)]
  BY DEF handleAct
<1> QED BY <1>1, <1>2, <1>3, OneRank, OneBank, RefreshLength DEF CoreWithin

LEMMA RefreshAllWithin ==
    ASSUME NEW t \in Nat, NEW r \in Ranks,
           CoreWithin(rank, bank, queue, t), RefreshAll(r, t)
    PROVE  RanksWithin(rank', t) /\ BanksWithin(bank', t, tRFC)
<1> DEFINE f == [b \in Banks |-> RefreshStarted(bank[r][b], t)]
<1>1. \A b \in Banks : BankWithin(f[b], t, tRFC)
  BY RefreshStartedWithin DEF CoreWithin, BanksWithin
<1>2. f \in [Banks -> Bank]
  BY <1>1 DEF BankWithin
<1>3. RankWithin(RankRefreshing(rank[r], t), t)
  BY RankBusyWithin DEF CoreWithin, RanksWithin
<1>4. /\ bank' = [bank EXCEPT ![r] = f]
      /\ rank' = [rank EXCEPT ![r] = RankRefreshing(rank[r], t)]
  BY DEF RefreshAll
<1> HIDE DEF f
<1> QED BY <1>1, <1>2, <1>3, <1>4, OneRank, BanksOfRank, RefreshLength DEF CoreWithin

LEMMA AllRefreshEndsWithin ==
    ASSUME NEW t \in Nat, NEW r \in Ranks, QueueFrom(queue, t)
    PROVE  QueueFrom(AddAll(queue, AllRefreshEnds(r, t), t + tRFC), t)
<1> DEFINE bs == [i \in 1..NumBanks |-> i - 1]
<1>1. bs \in Seq(Banks)
  <2>1. NumBanks \in Nat
    BY SizeAssumption DEF SizeAssumption
  <2>2. bs \in [1..NumBanks -> Banks]
    BY <2>1 DEF Banks
  <2> HIDE DEF bs
  <2> QED BY <2>1, <2>2
<1>2. AllRefreshEnds(r, t) = RefreshEnds(r, bs, t + tRFC)
  BY DEF AllRefreshEnds
<1> HIDE DEF bs
<1>3. t + tRFC \in Nat /\ t <= t + tRFC
  BY RefreshLength
<1>4. /\ AllRefreshEnds(r, t) \in Seq(Entry)
      /\ \A i \in 1..Len(AllRefreshEnds(r, t)) : AllRefreshEnds(r, t)[i].time = t + tRFC
  BY <1>1, <1>2, <1>3, RefreshEndsType
<1> QED BY <1>3, <1>4, AddAllWithin

LEMMA RefAllWithin ==
    ASSUME NEW t \in Nat, NEW r \in Ranks,
           CoreWithin(rank, bank, queue, t), handleRefAll(r, t)
    PROVE  CoreWithin(rank', bank', queue', t)
BY RefreshAllWithin, AllRefreshEndsWithin DEF CoreWithin, handleRefAll

LEMMA SelfRefreshEntryWithin ==
    ASSUME NEW t \in Nat, NEW r \in Ranks,
           CoreWithin(rank, bank, queue, t), handleSelfRefreshEntry(r, t)
    PROVE  CoreWithin(rank', bank', queue', t)
<1> DEFINE q == AddAll(queue, AllRefreshEnds(r, t), t + tRFC)
           e == ImplicitFor(t + tRFC, "SREF_ENTRY", r, NoBank)
<1>1. QueueFrom(q, t)
  BY AllRefreshEndsWithin DEF CoreWithin
<1>2. e \in Entry /\ e.time = t + tRFC /\ t <= t + tRFC
  BY RefreshLength, ImplicitForType DEF ImplicitOps, BankOps
<1>3. queue' = Add(q, e) /\ RefreshAll(r, t)
  BY DEF handleSelfRefreshEntry
<1> HIDE DEF q, e
<1>4. QueueFrom(queue', t)
  BY <1>1, <1>2, <1>3, AddWithin
<1> QED BY <1>3, <1>4, RefreshAllWithin DEF CoreWithin

LEMMA ReactivatedWithin ==
    ASSUME NEW t \in Nat, NEW r \in Ranks, BanksWithin(bank, t, tRFC)
    PROVE  BanksWithin([bank EXCEPT ![r] = Reactivated(bank[r], t)], t, tRFC)
<1> DEFINE f == Reactivated(bank[r], t)
<1>1. \A b \in Banks : BankWithin(f[b], t, tRFC)
  BY ActStartedWithin, RefreshLength DEF BanksWithin, Reactivated
<1>2. f \in [Banks -> Bank]
  BY <1>1 DEF BankWithin, Reactivated
<1> HIDE DEF f
<1>3. BanksWithin([bank EXCEPT ![r] = f], t, tRFC)
  BY <1>1, <1>2, BanksOfRank, RefreshLength
<1> QED BY <1>3 DEF f

LEMMA PowerDownActExitWithin ==
    ASSUME NEW t \in Nat, NEW r \in Ranks, RanksWithin(rank, t),
           BanksWithin(bank, t, tRFC), handlePowerDownActExitLater(r, t)
    PROVE  RanksWithin(rank', t) /\ BanksWithin(bank', t, tRFC)
<1>1. /\ bank' = [bank EXCEPT ![r] = Reactivated(bank[r], t)]
      /\ rank' = [rank EXCEPT ![r] = PowerDownActLeft(rank[r], bank'[r], t)]
  BY DEF handlePowerDownActExitLater
<1>2. RankWithin(PowerDownActLeft(rank[r], bank'[r], t), t)
  BY PowerDownRecordsWithin DEF RanksWithin
<1> QED BY <1>1, <1>2, ReactivatedWithin, OneRank

LEMMA PowerDownPreEntryWithin ==
    ASSUME NEW t \in Nat, NEW r \in Ranks, RanksWithin(rank, t),
           BanksWithin(bank, t, tRFC), handlePowerDownPreEntryLater(r, t)
    PROVE  RanksWithin(rank', t) /\ BanksWithin(bank', t, tRFC)
<1> DEFINE f == [b \in Banks |-> ActClosed(bank[r][b], t)]
<1>1. \A b \in Banks : BankWithin(f[b], t, tRFC)
  BY ActStartedWithin, RefreshLength DEF BanksWithin
<1>2. f \in [Banks -> Bank]
  BY <1>1 DEF BankWithin
<1>3. /\ bank' = [bank EXCEPT ![r] = f]
      /\ rank' = [rank EXCEPT ![r] = PowerDownPreEntered(rank[r], t)]
  BY DEF handlePowerDownPreEntryLater
<1>4. RankWithin(PowerDownPreEntered(rank[r], t), t)
  BY PowerDownRecordsWithin DEF RanksWithin
<1> HIDE DEF f
<1> QED BY <1>1, <1>2, <1>3, <1>4, OneRank, BanksOfRank, RefreshLength

LEMMA PowerDownPreExitWithin ==
    ASSUME NEW t \in Nat, NEW r \in Ranks, RanksWithin(rank, t),
           BanksWithin(bank, t, tRFC), handlePowerDownPreExitLater(r, t)
    PROVE  RanksWithin(rank', t) /\ BanksWithin(bank', t, tRFC)
<1>1. /\ bank' = [bank EXCEPT ![r] = Reactivated(bank[r], t)]
      /\ rank' = [rank EXCEPT ![r] = PowerDownPreLeft(rank[r], t)]
  BY DEF handlePowerDownPreExitLater
<1>2. RankWithin(PowerDownPreLeft(rank[r], t), t)
  BY PowerDownWithin DEF RanksWithin
<1> QED BY <1>1, <1>2, ReactivatedWithin, OneRank
-----------------------------------------------------------------------------
(* The steps                                                               *)

LEMMA InitWithin == Init => IInv
<1> SUFFICES ASSUME Init PROVE IInv
  OBVIOUS
<1>1. RankWithin(NewRank, 0) /\ BankWithin(NewBank, 0, tRFC)
  BY NewRankWithin, NewBankWithin, RefreshLength
<1>2. RanksWithin(rank, 0)
  BY <1>1 DEF Init, RanksWithin, RankWithin
<1>3. BanksWithin(bank, 0, tRFC)
  BY <1>1 DEF Init, BanksWithin, BankWithin
<1>4. QueueFrom(queue, 0)
  BY DEF Init, QueueFrom, Sorted
<1> QED BY <1>2, <1>3, <1>4 DEF Init, IInv

\* When time passes the state stays within it.
LEMMA Later ==
    ASSUME IInv, NEW t \in Nat, now <= t
    PROVE  RanksWithin(rank, t) /\ BanksWithin(bank, t, tRFC)
<1>1. RanksWithin(rank, t)
  BY RankLater DEF IInv, RanksWithin
<1>2. BanksWithin(bank, t, tRFC)
  BY BankLater, RefreshLength DEF IInv, BanksWithin
<1> QED BY <1>1, <1>2

LEMMA CallStep ==
    ASSUME IInv, NEW t \in now..MaxTime, Call(t)
    PROVE  IInv'
<1>1. now \in Nat /\ MaxTime \in Nat
  BY SizeAssumption DEF IInv, SizeAssumption
<1>2. t \in Nat /\ now <= t
  BY <1>1
<1> QED BY <1>2 DEF IInv, Call

LEMMA ImplicitStep ==
    ASSUME IInv, ExecuteImplicit
    PROVE  IInv'
<1> DEFINE e == Head(queue)
           t == e.time
<1>1. queue # <<>> /\ t <= target /\ phase = "busy"
  BY DEF ExecuteImplicit, Pop, Due
<1>2. e \in Entry /\ now <= t /\ QueueFrom(Tail(queue), t)
  BY <1>1, PopWithin DEF IInv
<1>3. /\ t \in Nat /\ e.rank \in Ranks
      /\ e.op \in BankOps => e.bank \in Banks
  BY <1>2 DEF Entry, Time
<1>4. RanksWithin(rank, t) /\ BanksWithin(bank, t, tRFC)
  BY <1>2, <1>3, Later
<1>5. /\ queue' = Tail(queue) /\ last' = t /\ now' = t
      /\ UNCHANGED <<phase, target, calls>>
  BY DEF ExecuteImplicit, Pop
<1>6. \/ e.op = "AUTO_PRECHARGE" /\ handlePre(e.rank, e.bank, t)
      \/ e.op = "REFRESH_END" /\ handleRefAllLater(e.rank, e.bank, t)
      \/ e.op = "SREF_ENTRY" /\ handleSelfRefreshEntryLater(e.rank, t)
      \/ e.op = "PDA_ENTRY" /\ handlePowerDownActEntryLater(e.rank, t)
      \/ e.op = "PDA_EXIT" /\ handlePowerDownActExitLater(e.rank, t)
      \/ e.op = "PDP_ENTRY" /\ handlePowerDownPreEntryLater(e.rank, t)
      \/ e.op = "PDP_EXIT" /\ handlePowerDownPreExitLater(e.rank, t)
  BY DEF ExecuteImplicit
<1> HIDE DEF e, t
<1>7. RanksWithin(rank', t) /\ BanksWithin(bank', t, tRFC)
  <2>1. CASE handlePre(e.rank, e.bank, t)
    BY <1>3, <1>4, <2>1, PrechargeWithin, RefreshLength DEF handlePre
  <2>2. CASE e.op = "REFRESH_END" /\ handleRefAllLater(e.rank, e.bank, t)
    BY <1>3, <1>4, <2>2, RefreshEndWithin, RefreshLength DEF handleRefAllLater, BankOps
  <2>3. CASE handleSelfRefreshEntryLater(e.rank, t)
    BY <1>3, <1>4, <2>3, SelfRefreshStepWithin DEF handleSelfRefreshEntryLater
  <2>4. CASE handlePowerDownActEntryLater(e.rank, t)
    BY <1>3, <1>4, <2>4, PowerDownActEntryWithin, RefreshLength
       DEF handlePowerDownActEntryLater
  <2>5. CASE handlePowerDownActExitLater(e.rank, t)
    BY <1>3, <1>4, <2>5, PowerDownActExitWithin
  <2>6. CASE handlePowerDownPreEntryLater(e.rank, t)
    BY <1>3, <1>4, <2>6, PowerDownPreEntryWithin
  <2>7. CASE handlePowerDownPreExitLater(e.rank, t)
    BY <1>3, <1>4, <2>7, PowerDownPreExitWithin
  <2> QED BY <1>6, <2>1, <2>2, <2>3, <2>4, <2>5, <2>6, <2>7
<1>8. target \in Nat /\ calls \in Nat
  BY DEF IInv
<1> QED BY <1>1, <1>2, <1>3, <1>5, <1>7, <1>8 DEF IInv

\* A command, whichever it is, keeps the state within the time of the call.
LEMMA BankCommandWithin ==
    ASSUME NEW r \in Ranks, NEW b \in Banks, target \in Nat,
           CoreWithin(rank, bank, queue, target), BankCommand(r, b)
    PROVE  CoreWithin(rank', bank', queue', target)
<1> USE RefreshLength
<1>1. CASE ACT(r, b)
  BY <1>1, ActWithin DEF ACT
<1>2. CASE PRE(r, b)
  BY <1>2, PrechargeWithin DEF PRE, handlePre, CoreWithin
<1>3. CASE RD(r, b)
  BY <1>3, CountWithin DEF RD, handleRead, CoreWithin, Counters
<1>4. CASE WR(r, b)
  BY <1>4, CountWithin DEF WR, handleWrite, CoreWithin, Counters
<1>5. CASE RDA(r, b)
  <2>1. /\ target + prechargeOffsetRD \in Nat
        /\ target <= target + prechargeOffsetRD
    BY TimingAssumption DEF TimingAssumption
  <2> QED BY <1>5, <2>1, CountAndPrechargeWithin
          DEF RDA, handleReadAuto, CoreWithin, Counters
<1>6. CASE WRA(r, b)
  <2>1. /\ target + prechargeOffsetWR \in Nat
        /\ target <= target + prechargeOffsetWR
    BY TimingAssumption DEF TimingAssumption
  <2> QED BY <1>6, <2>1, CountAndPrechargeWithin
          DEF WRA, handleWriteAuto, CoreWithin, Counters
<1> QED BY <1>1, <1>2, <1>3, <1>4, <1>5, <1>6 DEF BankCommand

LEMMA RankCommandWithin ==
    ASSUME NEW r \in Ranks, target \in Nat,
           CoreWithin(rank, bank, queue, target), RankCommand(r)
    PROVE  CoreWithin(rank', bank', queue', target)
<1> USE RefreshLength
<1>1. CASE PREA(r)
  BY <1>1, PrechargeWithin DEF PREA, handlePreAll, CoreWithin
<1>2. CASE REFA(r)
  BY <1>2, RefAllWithin DEF REFA
<1>3. CASE SREFEN(r)
  BY <1>3, SelfRefreshEntryWithin DEF SREFEN
<1>4. CASE SREFEX(r)
  BY <1>4, SelfRefreshStepWithin DEF SREFEX, handleSelfRefreshExit, CoreWithin
<1>5. ASSUME NEW op \in ImplicitOps \ BankOps, AddPowerDown(op, r, target)
      PROVE  CoreWithin(rank', bank', queue', target)
  BY <1>5, AddPowerDownWithin DEF CoreWithin
<1>6. {"PDA_ENTRY", "PDA_EXIT", "PDP_ENTRY", "PDP_EXIT"} \subseteq ImplicitOps \ BankOps
  BY DEF ImplicitOps, BankOps
<1>7. CASE PDEA(r)
  BY <1>5, <1>6, <1>7 DEF PDEA, handlePowerDownActEntry
<1>8. CASE PDXA(r)
  BY <1>5, <1>6, <1>8 DEF PDXA, handlePowerDownActExit
<1>9. CASE PDEP(r)
  BY <1>5, <1>6, <1>9 DEF PDEP, handlePowerDownPreEntry
<1>10. CASE PDXP(r)
  BY <1>5, <1>6, <1>10 DEF PDXP, handlePowerDownPreExit
<1> QED BY <1>1, <1>2, <1>3, <1>4, <1>7, <1>8, <1>9, <1>10 DEF RankCommand

LEMMA ServeStep ==
    ASSUME IInv, Serve
    PROVE  IInv'
<1>1. /\ phase = "busy" /\ ~Due(queue, target) /\ phase' = "idle" /\ now' = target
      /\ UNCHANGED <<target, calls>>
  BY DEF Serve, DoCommand, GetWindowStats, Return
<1>2. /\ target \in Nat /\ now \in Nat /\ now <= target /\ calls \in Nat
      /\ last \in Nat /\ last <= now
  BY DEF IInv
<1>3. CoreWithin(rank, bank, queue, target)
  BY <1>1, <1>2, Later, NothingDue DEF IInv, CoreWithin
<1>4. CASE GetWindowStats
  BY <1>1, <1>2, <1>3, <1>4 DEF GetWindowStats, coreVars, CoreWithin, IInv
<1>5. CASE DoCommand /\ \/ \E r \in Ranks, b \in Banks : BankCommand(r, b)
                        \/ \E r \in Ranks : RankCommand(r)
                        \/ END_OF_SIMULATION
  <2>1. last' = target
    BY <1>2, <1>5 DEF DoCommand, Max2
  <2>2. CoreWithin(rank', bank', queue', target)
    BY <1>2, <1>3, <1>5, BankCommandWithin, RankCommandWithin
       DEF END_OF_SIMULATION
  <2> QED BY <1>1, <1>2, <2>1, <2>2 DEF CoreWithin, IInv
<1> QED BY <1>4, <1>5 DEF Serve

LEMMA NextStep == IInv /\ [Next]_vars => IInv'
<1> SUFFICES ASSUME IInv, [Next]_vars PROVE IInv'
  OBVIOUS
<1>1. CASE \E t \in now..MaxTime : Call(t)
  BY <1>1, CallStep
<1>2. CASE ExecuteImplicit
  BY <1>2, ImplicitStep
<1>3. CASE Serve
  BY <1>3, ServeStep
<1>4. CASE UNCHANGED vars
  BY <1>4 DEF vars, IInv
<1> QED BY <1>1, <1>2, <1>3, <1>4 DEF Next
-----------------------------------------------------------------------------
(* The theorems                                                            *)

\* DDR4Core keeps its state within the time it has reached.
THEOREM InvariantHolds == Spec => []IInv
<1> QED BY InitWithin, NextStep, PTL DEF Spec

\* The state of DDR4Core has the shape of the code's, after any trace.
THEOREM TypeCorrect == Spec => []TypeOK
<1>1. IInv => TypeOK
  BY DEF IInv, TypeOK, RanksWithin, BanksWithin, QueueFrom, Time
<1> QED BY <1>1, InvariantHolds, PTL

\* addImplicitCommand keeps the queue of DDR4Core sorted, and no implicit
\* command is executed late, after any trace.
THEOREM QueueStaysInOrder == Spec => []QueueInOrder
<1>1. IInv => QueueInOrder
  BY DEF IInv, QueueInOrder, QueueFrom
<1> QED BY <1>1, InvariantHolds, PTL

\* No interval of DDR4Core counts more than the simulated time, after any
\* trace, so that no difference of timestamps wraps around.
THEOREM CountsStayWithinTime == Spec => []CountsWithinTime
<1>1. IInv => CountsWithinTime
  BY DEF IInv, CountsWithinTime, Measured, RanksWithin, RankWithin, BanksWithin,
         BankWithin, Within
<1> QED BY <1>1, InvariantHolds, PTL

\* m_last_command_time of DDR4Core never goes back, after any trace.
THEOREM LastStaysMonotone == Spec => LastNeverDecreases
<1>1. IInv /\ [Next]_vars => [last' >= last]_last
  <2> SUFFICES ASSUME IInv, [Next]_vars PROVE last' >= last \/ last' = last
    OBVIOUS
  <2>1. CASE \E t \in now..MaxTime : Call(t)
    BY <2>1 DEF Call
  <2>2. CASE ExecuteImplicit
    <3>1. /\ queue # <<>> /\ last' = Head(queue).time
      BY <2>2 DEF ExecuteImplicit, Pop, Due
    <3>2. now <= Head(queue).time /\ Head(queue).time \in Nat
      BY <3>1, PopWithin, EntryTime DEF IInv
    <3> QED BY <3>1, <3>2 DEF IInv
  <2>3. CASE Serve
    BY <2>3 DEF Serve, DoCommand, GetWindowStats, coreVars, Max2, IInv
  <2>4. CASE UNCHANGED vars
    BY <2>4 DEF vars
  <2> QED BY <2>1, <2>2, <2>3, <2>4 DEF Next
<1> QED BY <1>1, InvariantHolds, PTL DEF Spec, LastNeverDecreases
-----------------------------------------------------------------------------
(* Valid traces: what the queue keeps in which order                       *)

PowerDownEntries == {"PDA_ENTRY", "PDP_ENTRY"}

\* Of two implicit commands of a rank with these names the first comes first.
OpsInOrder ==
    {<<"REFRESH_END", "PDA_ENTRY">>, <<"REFRESH_END", "PDP_ENTRY">>,
     <<"PDA_ENTRY", "PDA_EXIT">>, <<"PDP_ENTRY", "PDP_EXIT">>}

InOrder(q) ==
    \A i, j \in 1..Len(q) :
        q[i].rank = q[j].rank /\ <<q[i].op, q[j].op>> \in OpsInOrder => i < j

\* The end of refresh of a bank is no earlier than the bank records.
EndsAwaited(q, bks) ==
    \A i \in 1..Len(q) :
        q[i].op = "REFRESH_END" => q[i].time <= bks[q[i].rank][q[i].bank].refreshEndTime

\* A power-down entry is no later than a bank of the rank demands: what was
\* demanded when it was queued is not forgotten.
EntriesAwaited(q, bks, t) ==
    \A i \in 1..Len(q) :
        q[i].op \in PowerDownEntries =>
            q[i].time <= t \/ \E b \in Banks : \E x \in BankPermits(bks[q[i].rank][b]) : q[i].time <= x

PoweredDown(rk) == rk.memState \in {"PDN_ACT", "PDN_PRE"}
NoEnds(q, r) == \A i \in 1..Len(q) : ~(q[i].op = "REFRESH_END" /\ q[i].rank = r)

\* The end of refresh of bank b of rank r is among the first entries, before n.
EndBefore(q, r, b, n) ==
    \E j \in 1..Len(q) :
        j < n /\ q[j].op = "REFRESH_END" /\ q[j].rank = r /\ q[j].bank = b

ClosedBefore(q, bks) ==
    \A i \in 1..Len(q) : \A b \in Banks :
        q[i].op = "SREF_ENTRY" /\ Active(bks[q[i].rank][b]) => EndBefore(q, q[i].rank, b, i)

\* The inductive invariant of valid traces, of a queue, ranks, banks and a time.
TraceOK(q, rks, bks, t) ==
    /\ InOrder(q) /\ EndsAwaited(q, bks) /\ EntriesAwaited(q, bks, t)
    /\ ClosedBefore(q, bks)
    /\ \A r \in Ranks : PoweredDown(rks[r]) => NoEnds(q, r)
    /\ \A r \in Ranks : rks[r].memState \in {"SREF", "DSM"} => \A b \in Banks : ~Active(bks[r][b])

TraceInv == TraceOK(queue, rank, bank, now)

\* No change of the power state of rank r is in the queue.
NoPowerOps(q, r) == \A i \in 1..Len(q) : ~(q[i].op \in PowerOps /\ q[i].rank = r)

LEMMA AvailableRank ==
    ASSUME NEW r, Available(r)
    PROVE  rank[r].memState = "NOT_IN_PD" /\ NoPowerOps(queue, r)
BY DEF Available, Pending, NoPowerOps, PowerOps
-----------------------------------------------------------------------------
(* Adding to the queue                                                     *)

\* Where the entries go: those of q that are not later than t, es, the rest.
LEMMA AddAllPlaces ==
    ASSUME NEW q \in Seq(Entry), Sorted(q), NEW es \in Seq(Entry), NEW t \in Nat
    PROVE  \E k \in 0..Len(q) :
              /\ Len(AddAll(q, es, t)) = Len(q) + Len(es)
              /\ \A i \in 1..k : AddAll(q, es, t)[i] = q[i] /\ q[i].time <= t
              /\ \A i \in 1..Len(es) : AddAll(q, es, t)[k + i] = es[i]
              /\ \A i \in (k + 1)..Len(q) :
                    AddAll(q, es, t)[i + Len(es)] = q[i] /\ q[i].time > t
<1> DEFINE k == UpperBound(q, t)
           n == Len(q) + Len(es)
           A == [i \in 1..n |->
                    IF i <= k THEN q[i]
                    ELSE IF i <= k + Len(es) THEN es[i - k] ELSE q[i - Len(es)]]
<1>1. /\ k \in 0..Len(q)
      /\ \A i \in 1..k : q[i].time <= t
      /\ \A i \in (k + 1)..Len(q) : q[i].time > t
  BY EntryTime, UpperBoundPlace
<1>2. Len(q) \in Nat /\ Len(es) \in Nat
  BY LenProperties
<1>3. AddAll(q, es, t) = A
  BY DEF AddAll
<1> HIDE DEF k
<1>4. /\ \A i \in 1..n : i <= k => A[i] = q[i]
      /\ \A i \in 1..n : ~(i <= k) /\ i <= k + Len(es) => A[i] = es[i - k]
      /\ \A i \in 1..n : ~(i <= k) /\ ~(i <= k + Len(es)) => A[i] = q[i - Len(es)]
  OBVIOUS
<1>5. Len(A) = n
  <2>1. n \in Nat
    BY <1>2
  <2> HIDE DEF n
  <2> QED BY <2>1
<1> HIDE DEF A
<1>6. \A i \in 1..k : A[i] = q[i]
  BY <1>1, <1>2, <1>4
<1>7. \A i \in 1..Len(es) : A[k + i] = es[i]
  <2> SUFFICES ASSUME NEW i \in 1..Len(es) PROVE A[k + i] = es[i]
    OBVIOUS
  <2>1. k + i \in 1..n /\ ~(k + i <= k) /\ k + i <= k + Len(es) /\ (k + i) - k = i
    BY <1>1, <1>2
  <2> QED BY <1>4, <2>1
<1>8. \A i \in (k + 1)..Len(q) : A[i + Len(es)] = q[i]
  <2> SUFFICES ASSUME NEW i \in (k + 1)..Len(q) PROVE A[i + Len(es)] = q[i]
    OBVIOUS
  <2>1. /\ i + Len(es) \in 1..n /\ ~(i + Len(es) <= k)
        /\ ~(i + Len(es) <= k + Len(es)) /\ (i + Len(es)) - Len(es) = i
    BY <1>1, <1>2
  <2> QED BY <1>4, <2>1
<1> QED BY <1>1, <1>3, <1>5, <1>6, <1>7, <1>8

\* Place x is after the entries of q not later than t and before the rest,
\* if entry i of q is at m[i].
After(q, m, t, x) ==
    \A j \in 1..Len(q) : IF q[j].time <= t THEN m[j] < x ELSE x < m[j]

\* The entries of q are in A in their order, and es after those not later
\* than t.
Moves(m, q, es, t, A) ==
    /\ \A i \in 1..Len(q) : A[m[i]] = q[i]
    /\ \A i, j \in 1..Len(q) : i < j => m[i] < m[j]
    /\ \A x \in 1..Len(A) :
          \/ \E i \in 1..Len(q) : x = m[i]
          \/ \E i \in 1..Len(es) : A[x] = es[i] /\ After(q, m, t, x)
    /\ \A i \in 1..Len(es) : \E x \in 1..Len(A) : A[x] = es[i] /\ After(q, m, t, x)

LEMMA AddAllMoves ==
    ASSUME NEW q \in Seq(Entry), Sorted(q), NEW es \in Seq(Entry), NEW t \in Nat
    PROVE  \E m \in [1..Len(q) -> 1..Len(AddAll(q, es, t))] :
              Moves(m, q, es, t, AddAll(q, es, t))
<1> DEFINE A == AddAll(q, es, t)
           n == Len(es)
<1>1. PICK k \in 0..Len(q) :
              /\ Len(A) = Len(q) + n
              /\ \A i \in 1..k : A[i] = q[i] /\ q[i].time <= t
              /\ \A i \in 1..n : A[k + i] = es[i]
              /\ \A i \in (k + 1)..Len(q) : A[i + n] = q[i] /\ q[i].time > t
  BY AddAllPlaces
<1>2. Len(q) \in Nat /\ n \in Nat /\ \A i \in 1..Len(q) : q[i].time \in Nat
  BY LenProperties, EntryTime, ElementOfSeq
<1> HIDE DEF A, n
<1> DEFINE m == [i \in 1..Len(q) |-> IF i <= k THEN i ELSE i + n]
<1>3. m \in [1..Len(q) -> 1..Len(A)]
  BY <1>1, <1>2
<1>4. \A i \in 1..Len(q) : A[m[i]] = q[i]
  BY <1>1, <1>2
<1>5. \A i, j \in 1..Len(q) : i < j => m[i] < m[j]
  BY <1>1, <1>2
<1>6. \A x \in (k + 1)..(k + n) : After(q, m, t, x)
  <2> SUFFICES ASSUME NEW x \in (k + 1)..(k + n), NEW j \in 1..Len(q)
               PROVE  IF q[j].time <= t THEN m[j] < x ELSE x < m[j]
    BY DEF After
  <2>1. CASE j <= k
    <3>1. q[j].time <= t /\ m[j] = j
      BY <1>1, <1>2, <2>1
    <3> QED BY <1>1, <1>2, <2>1, <3>1
  <2>2. CASE ~(j <= k)
    <3>1. q[j].time > t /\ m[j] = j + n
      BY <1>1, <1>2, <2>2
    <3>2. ~(q[j].time <= t) /\ x < j + n
      BY <1>1, <1>2, <2>2, <3>1
    <3> QED BY <3>1, <3>2
  <2> QED BY <2>1, <2>2
<1>7. \A i \in 1..Len(q) : m[i] = IF i <= k THEN i ELSE i + n
  OBVIOUS
<1> HIDE DEF m
<1>8. \A x \in 1..Len(A) :
         (\E i \in 1..Len(q) : x = m[i]) \/ (x \in (k + 1)..(k + n) /\ A[x] = es[x - k])
  <2> SUFFICES ASSUME NEW x \in 1..Len(A)
               PROVE  (\E i \in 1..Len(q) : x = m[i]) \/ (x \in (k + 1)..(k + n) /\ A[x] = es[x - k])
    OBVIOUS
  <2>1. CASE x <= k
    <3>1. x \in 1..Len(q) /\ m[x] = x
      BY <1>1, <1>2, <1>7, <2>1
    <3> QED BY <3>1
  <2>2. CASE x > k /\ x <= k + n
    <3>1. x - k \in 1..n /\ k + (x - k) = x
      BY <1>1, <1>2, <2>2
    <3>2. A[k + (x - k)] = es[x - k]
      BY <1>1, <3>1
    <3> QED BY <1>1, <1>2, <2>2, <3>1, <3>2
  <2>3. CASE x > k + n
    <3>1. x - n \in 1..Len(q) /\ ~(x - n <= k) /\ (x - n) + n = x
      BY <1>1, <1>2, <2>3
    <3>2. m[x - n] = x
      BY <1>7, <3>1
    <3> QED BY <3>1, <3>2
  <2> QED BY <1>1, <1>2, <2>1, <2>2, <2>3
<1>9. \A x \in (k + 1)..(k + n) : x - k \in 1..n
  BY <1>1, <1>2
<1>10. \A i \in 1..n : k + i \in (k + 1)..(k + n) /\ k + i \in 1..Len(A)
  BY <1>1, <1>2
<1>11. \A x \in 1..Len(A) :
          \/ \E i \in 1..Len(q) : x = m[i]
          \/ \E i \in 1..n : A[x] = es[i] /\ After(q, m, t, x)
  BY <1>6, <1>8, <1>9
<1>12. \A i \in 1..n : \E x \in 1..Len(A) : A[x] = es[i] /\ After(q, m, t, x)
  BY <1>1, <1>6, <1>10
<1>13. Moves(m, q, es, t, A)
  BY <1>4, <1>5, <1>11, <1>12 DEF Moves, n
<1> QED BY <1>3, <1>13 DEF A
-----------------------------------------------------------------------------
(* What a handler does to a bank                                           *)

\* No time a power-down waits for gets earlier.
Grown(bk, bk2) ==
    /\ bk.refreshEndTime <= bk2.refreshEndTime
    /\ GetStart(bk.act) <= GetStart(bk2.act) /\ bk.latestPre <= bk2.latestPre
    /\ bk.counter.act <= bk2.counter.act /\ bk.counter.pre <= bk2.counter.pre

BankTyped(bk) ==
    /\ bk.refreshEndTime \in Nat /\ bk.latestPre \in Nat /\ bk.act \in Interval
    /\ bk.counter.act \in Nat /\ bk.counter.pre \in Nat

LEMMA WithinTyped ==
    ASSUME NEW t, NEW d, NEW bk, BankWithin(bk, t, d)
    PROVE  BankTyped(bk) /\ bk \in Bank
<1>1. "act" \in Counters /\ "pre" \in Counters
  BY DEF Counters
<1> QED BY <1>1 DEF BankWithin, BankTyped, Bank, Time

LEMMA PermitsGrow ==
    ASSUME NEW bk, BankTyped(bk), NEW bk2, BankTyped(bk2), Grown(bk, bk2),
           NEW x \in BankPermits(bk)
    PROVE  \E y \in BankPermits(bk2) : x <= y
<1>1. tRCD \in Nat /\ tRP \in Nat
  BY TimingAssumption DEF TimingAssumption
<1>2. /\ GetStart(bk.act) \in Nat /\ GetStart(bk2.act) \in Nat
  BY DEF BankTyped, Interval, GetStart, Time, NoTime
<1>3. CASE x = 0
  BY <1>3 DEF BankTyped, BankPermits
<1>4. CASE x # 0 /\ x = bk.refreshEndTime
  BY <1>4 DEF Grown, BankPermits
<1>5. CASE x # 0 /\ bk.counter.act # 0 /\ x = GetStart(bk.act) + tRCD
  <2>1. bk2.counter.act # 0
    BY <1>5 DEF Grown, BankTyped
  <2>2. GetStart(bk2.act) + tRCD \in BankPermits(bk2)
    BY <2>1 DEF BankPermits
  <2>3. x <= GetStart(bk2.act) + tRCD
    BY <1>1, <1>2, <1>5 DEF Grown
  <2> QED BY <2>2, <2>3
<1>6. CASE x # 0 /\ bk.counter.pre # 0 /\ x = bk.latestPre + tRP
  <2>1. bk2.counter.pre # 0
    BY <1>6 DEF Grown, BankTyped
  <2>2. bk2.latestPre + tRP \in BankPermits(bk2)
    BY <2>1 DEF BankPermits
  <2>3. x <= bk2.latestPre + tRP
    BY <1>1, <1>6 DEF Grown, BankTyped
  <2> QED BY <2>2, <2>3
<1>7. \/ x = 0 \/ x = bk.refreshEndTime
      \/ bk.counter.act # 0 /\ x = GetStart(bk.act) + tRCD
      \/ bk.counter.pre # 0 /\ x = bk.latestPre + tRP
  BY DEF BankPermits
<1> QED BY <1>3, <1>4, <1>5, <1>6, <1>7

LEMMA PermitsTyped ==
    ASSUME NEW bk, BankTyped(bk), NEW x \in BankPermits(bk)
    PROVE  x \in Nat
<1>1. tRCD \in Nat /\ tRP \in Nat
  BY TimingAssumption DEF TimingAssumption
<1>2. GetStart(bk.act) \in Nat
  BY DEF BankTyped, Interval, GetStart, Time, NoTime
<1> QED BY <1>1, <1>2 DEF BankTyped, BankPermits

LEMMA StartsGrow ==
    ASSUME NEW t \in Nat, NEW i, Within(i, t)
    PROVE  /\ GetStart(i) \in Nat
           /\ GetStart(CloseInterval(i, t)) = GetStart(i)
           /\ GetStart(i) <= GetStart(StartInterval(i, t))
           /\ GetStart(i) <= GetStart(StartIfNotRunning(i, t))
<1>1. i \in Interval /\ GetStart(i) <= t
  BY DEF Within
<1>2. GetStart(i) \in Nat
  BY <1>1 DEF Interval, GetStart, Time, NoTime
<1>3. CloseInterval(i, t).start = i.start
  BY <1>1 DEF CloseInterval, Interval
<1>4. StartInterval(i, t).start = t
  BY <1>1 DEF StartInterval, Interval
<1>5. GetStart(StartInterval(i, t)) = t
  BY <1>4 DEF GetStart, NoTime
<1>6. GetStart(i) <= GetStart(StartIfNotRunning(i, t))
  BY <1>1, <1>2, <1>5 DEF StartIfNotRunning
<1> QED BY <1>1, <1>2, <1>3, <1>5, <1>6 DEF GetStart

LEMMA CountedGrows ==
    ASSUME NEW t \in Nat, NEW bk, BankWithin(bk, t, tRFC), NEW c \in Counters
    PROVE  /\ Grown(bk, Counted(bk, c)) /\ Counted(bk, c).bankState = bk.bankState
           /\ BankWithin(Counted(bk, c), t, tRFC) /\ Counted(bk, c).act = bk.act
           /\ Counted(bk, c).latestPre = bk.latestPre
           /\ Counted(bk, c).refreshEndTime = bk.refreshEndTime
           /\ bk.counter.act <= Counted(bk, c).counter.act
           /\ bk.counter.pre <= Counted(bk, c).counter.pre
<1>1. bk \in Bank /\ BankTyped(bk)
  BY WithinTyped
<1> DEFINE k == [bk.counter EXCEPT ![c] = @ + 1]
<1>2. k \in [Counters -> Nat] /\ \A x \in Counters : bk.counter[x] <= k[x]
  BY <1>1 DEF Bank
<1>3. Counted(bk, c) = [bk EXCEPT !.counter = k]
  BY DEF Counted
<1> HIDE DEF k
<1>4. "act" \in Counters /\ "pre" \in Counters
  BY DEF Counters
<1>5. bk.counter.act <= k.act /\ bk.counter.pre <= k.pre
  BY <1>2, <1>4
<1>6. /\ Counted(bk, c).counter = k /\ Counted(bk, c).bankState = bk.bankState
      /\ Counted(bk, c).act = bk.act /\ Counted(bk, c).latestPre = bk.latestPre
      /\ Counted(bk, c).refreshEndTime = bk.refreshEndTime
  BY <1>1, <1>3 DEF Bank
<1>7. GetStart(bk.act) \in Nat
  BY StartsGrow DEF BankWithin
<1>8. BankWithin(Counted(bk, c), t, tRFC)
  BY CountedWithin, RefreshLength
<1> QED BY <1>1, <1>5, <1>6, <1>7, <1>8 DEF Grown, BankTyped

\* No operation of a handler on a bank takes back a time a power-down waits for.
LEMMA BanksGrow ==
    ASSUME NEW t \in Nat, NEW bk, BankWithin(bk, t, tRFC)
    PROVE  /\ Grown(bk, bk)
           /\ Grown(bk, Precharged(bk, t)) /\ ~Active(Precharged(bk, t))
           /\ Grown(bk, RefreshEnded(bk, t)) /\ ~Active(RefreshEnded(bk, t))
           /\ Grown(bk, ActClosed(bk, t)) /\ (Active(ActClosed(bk, t)) => Active(bk))
           /\ Grown(bk, ActStarted(bk, t)) /\ (Active(ActStarted(bk, t)) => Active(bk))
           /\ Grown(bk, Activated(bk, t))
           /\ Grown(bk, RefreshStarted(bk, t))
           /\ RefreshStarted(bk, t).refreshEndTime = t + tRFC
<1>1. bk \in Bank /\ BankTyped(bk) /\ Within(bk.act, t)
      /\ bk.latestPre <= t /\ bk.refreshEndTime <= t + tRFC
  BY WithinTyped DEF BankWithin
<1>2. /\ GetStart(bk.act) \in Nat
      /\ GetStart(CloseInterval(bk.act, t)) = GetStart(bk.act)
      /\ GetStart(bk.act) <= GetStart(StartInterval(bk.act, t))
      /\ GetStart(bk.act) <= GetStart(StartIfNotRunning(bk.act, t))
  BY <1>1, StartsGrow
<1>3. Grown(bk, bk)
  BY <1>1, <1>2 DEF Grown, BankTyped
<1>4. Grown(bk, RefreshEnded(bk, t)) /\ ~Active(RefreshEnded(bk, t))
  BY <1>1, <1>2 DEF Grown, BankTyped, RefreshEnded, Active, Bank
<1>5. Grown(bk, ActClosed(bk, t)) /\ (Active(ActClosed(bk, t)) => Active(bk))
  BY <1>1, <1>2 DEF Grown, BankTyped, ActClosed, Active, Bank
<1>6. Grown(bk, ActStarted(bk, t)) /\ (Active(ActStarted(bk, t)) => Active(bk))
  BY <1>1, <1>2 DEF Grown, BankTyped, ActStarted, Active, Bank
<1>7. Grown(bk, Precharged(bk, t)) /\ ~Active(Precharged(bk, t))
  <2> DEFINE c == Counted(bk, "pre")
             p == [c EXCEPT !.bankState = "PRECHARGED",
                            !.act = CloseInterval(c.act, t), !.latestPre = t]
  <2>1. /\ c \in Bank /\ c.act = bk.act /\ c.refreshEndTime = bk.refreshEndTime
        /\ bk.counter.act <= c.counter.act /\ bk.counter.pre <= c.counter.pre
    BY CountedGrows, WithinTyped DEF Counters
  <2>2. Precharged(bk, t) = IF Active(bk) THEN p ELSE bk
    BY DEF Precharged
  <2> HIDE DEF c
  <2>3. /\ p.act = CloseInterval(bk.act, t) /\ p.latestPre = t /\ p.counter = c.counter
        /\ p.refreshEndTime = bk.refreshEndTime /\ p.bankState = "PRECHARGED"
    BY <2>1 DEF Bank
  <2> HIDE DEF p
  <2>4. Grown(bk, p) /\ ~Active(p)
    BY <1>1, <1>2, <2>1, <2>3 DEF Grown, BankTyped, Active
  <2> QED BY <1>3, <2>2, <2>4
<1>8. Grown(bk, Activated(bk, t))
  <2> DEFINE c == Counted(bk, "act")
             a == [c EXCEPT !.bankState = "ACTIVE", !.act = StartInterval(c.act, t)]
  <2>1. /\ c \in Bank /\ c.act = bk.act /\ c.refreshEndTime = bk.refreshEndTime
        /\ c.latestPre = bk.latestPre
        /\ bk.counter.act <= c.counter.act /\ bk.counter.pre <= c.counter.pre
    BY CountedGrows, WithinTyped DEF Counters
  <2>2. Activated(bk, t) = a
    BY DEF Activated
  <2> HIDE DEF c
  <2>3. /\ a.act = StartInterval(bk.act, t) /\ a.latestPre = bk.latestPre
        /\ a.counter = c.counter /\ a.refreshEndTime = bk.refreshEndTime
    BY <2>1 DEF Bank
  <2> HIDE DEF a
  <2> QED BY <1>1, <1>2, <2>1, <2>2, <2>3 DEF Grown, BankTyped
<1>9. Grown(bk, RefreshStarted(bk, t)) /\ RefreshStarted(bk, t).refreshEndTime = t + tRFC
  <2> DEFINE c == Counted(bk, "refAllBank")
             s == [c EXCEPT !.bankState = "ACTIVE", !.act = StartIfNotRunning(c.act, t),
                            !.refreshEndTime = t + tRFC]
  <2>1. /\ c \in Bank /\ c.act = bk.act /\ c.latestPre = bk.latestPre
        /\ bk.counter.act <= c.counter.act /\ bk.counter.pre <= c.counter.pre
    BY CountedGrows, WithinTyped DEF Counters
  <2>2. RefreshStarted(bk, t) = s
    BY DEF RefreshStarted
  <2> HIDE DEF c
  <2>3. /\ s.act = StartIfNotRunning(bk.act, t) /\ s.latestPre = bk.latestPre
        /\ s.counter = c.counter /\ s.refreshEndTime = t + tRFC
    BY <2>1 DEF Bank
  <2> HIDE DEF s
  <2> QED BY <1>1, <1>2, <2>1, <2>2, <2>3 DEF Grown, BankTyped
<1> QED BY <1>3, <1>4, <1>5, <1>6, <1>7, <1>8, <1>9
-----------------------------------------------------------------------------
(* What a step does to the invariant                                       *)

Advanced(bks, bks2) ==
    \A r \in Ranks, b \in Banks :
        BankTyped(bks[r][b]) /\ BankTyped(bks2[r][b]) /\ Grown(bks[r][b], bks2[r][b])

\* No bank of rank r opens, or nothing is queued that changes its power state.
StaysClosed(q, rks2, bks, bks2, r) ==
    \/ \A b \in Banks : Active(bks2[r][b]) => Active(bks[r][b])
    \/ NoPowerOps(q, r) /\ rks2[r].memState = "NOT_IN_PD"

LEMMA EntryFields ==
    ASSUME NEW q \in Seq(Entry), NEW i \in 1..Len(q)
    PROVE  /\ q[i] \in Entry /\ q[i].time \in Nat /\ q[i].rank \in Ranks
           /\ q[i].op \in BankOps => q[i].bank \in Banks
<1>1. q[i] \in Entry
  BY ElementOfSeq
<1> QED BY <1>1 DEF Entry, Time

LEMMA EndsStayAwaited ==
    ASSUME NEW q \in Seq(Entry), NEW bks, NEW bks2, Advanced(bks, bks2),
           EndsAwaited(q, bks)
    PROVE  EndsAwaited(q, bks2)
<1> SUFFICES ASSUME NEW i \in 1..Len(q), q[i].op = "REFRESH_END"
             PROVE  q[i].time <= bks2[q[i].rank][q[i].bank].refreshEndTime
  BY DEF EndsAwaited
<1>1. q[i].rank \in Ranks /\ q[i].bank \in Banks /\ q[i].time \in Nat
  BY EntryFields DEF BankOps
<1>2. q[i].time <= bks[q[i].rank][q[i].bank].refreshEndTime
  BY DEF EndsAwaited
<1> QED BY <1>1, <1>2 DEF Advanced, Grown, BankTyped

LEMMA EntriesStayAwaited ==
    ASSUME NEW q \in Seq(Entry), NEW bks, NEW bks2, Advanced(bks, bks2),
           NEW t \in Nat, NEW u \in Nat, t <= u, EntriesAwaited(q, bks, t)
    PROVE  EntriesAwaited(q, bks2, u)
<1> SUFFICES ASSUME NEW i \in 1..Len(q), q[i].op \in PowerDownEntries, ~(q[i].time <= u)
             PROVE  \E b \in Banks : \E x \in BankPermits(bks2[q[i].rank][b]) : q[i].time <= x
  BY DEF EntriesAwaited
<1>1. q[i].rank \in Ranks /\ q[i].time \in Nat
  BY EntryFields
<1>2. PICK b \in Banks : \E x \in BankPermits(bks[q[i].rank][b]) : q[i].time <= x
  BY <1>1 DEF EntriesAwaited
<1> DEFINE bk == bks[q[i].rank][b]
           bk2 == bks2[q[i].rank][b]
<1>3. BankTyped(bk) /\ BankTyped(bk2) /\ Grown(bk, bk2)
  BY <1>1 DEF Advanced
<1>4. PICK x \in BankPermits(bk) : q[i].time <= x
  BY <1>2
<1> HIDE DEF bk, bk2
<1>5. PICK y \in BankPermits(bk2) : x <= y
  BY <1>3, PermitsGrow
<1>6. x \in Nat /\ y \in Nat
  BY <1>3, PermitsTyped
<1>7. q[i].time <= y
  BY <1>1, <1>4, <1>5, <1>6
<1> QED BY <1>5, <1>7 DEF bk2

LEMMA StateChange ==
    ASSUME NEW q \in Seq(Entry), NEW rks, NEW rks2, NEW bks, NEW bks2,
           NEW t \in Nat, NEW u \in Nat, t <= u, TraceOK(q, rks, bks, t),
           Advanced(bks, bks2),
           \A r \in Ranks : rks2[r].memState \in {rks[r].memState, "NOT_IN_PD"},
           \A r \in Ranks : StaysClosed(q, rks2, bks, bks2, r)
    PROVE  TraceOK(q, rks2, bks2, u)
<1>1. EndsAwaited(q, bks2) /\ EntriesAwaited(q, bks2, u) /\ InOrder(q)
  BY EndsStayAwaited, EntriesStayAwaited DEF TraceOK
<1>2. ClosedBefore(q, bks2)
  <2> SUFFICES ASSUME NEW i \in 1..Len(q), NEW b \in Banks,
                      q[i].op = "SREF_ENTRY", Active(bks2[q[i].rank][b])
               PROVE  EndBefore(q, q[i].rank, b, i)
    BY DEF ClosedBefore
  <2>1. q[i].rank \in Ranks /\ ~NoPowerOps(q, q[i].rank)
    BY EntryFields DEF NoPowerOps, PowerOps
  <2>2. Active(bks[q[i].rank][b])
    BY <2>1 DEF StaysClosed
  <2> QED BY <2>2 DEF TraceOK, ClosedBefore
<1>3. \A r \in Ranks : PoweredDown(rks2[r]) => NoEnds(q, r)
  BY DEF TraceOK, PoweredDown
<1>4. \A r \in Ranks : rks2[r].memState \in {"SREF", "DSM"} => \A b \in Banks : ~Active(bks2[r][b])
  BY DEF TraceOK, StaysClosed
<1> QED BY <1>1, <1>2, <1>3, <1>4 DEF TraceOK

\* The first entry leaves the queue and happens: what it waited for is over.
LEMMA EntryHappens ==
    ASSUME NEW q \in Seq(Entry), q # <<>>, NEW rks, NEW rks2, NEW bks, NEW bks2,
           NEW t \in Nat, NEW u \in Nat, t <= u, TraceOK(q, rks, bks, t),
           Advanced(bks, bks2),
           \A r \in Ranks, b \in Banks : Active(bks2[r][b]) => Active(bks[r][b]),
           NEW e, e = Head(q),
           e.op = "REFRESH_END" => ~Active(bks2[e.rank][e.bank]),
           \A r \in Ranks :
              \/ rks2[r].memState \in {rks[r].memState, "NOT_IN_PD"}
              \/ r = e.rank /\ e.op = "SREF_ENTRY" /\ rks2[r].memState = "SREF"
              \/ r = e.rank /\ e.op \in PowerDownEntries /\ PoweredDown(rks2[r])
    PROVE  TraceOK(Tail(q), rks2, bks2, u)
<1> DEFINE T == Tail(q)
<1>1. /\ T \in Seq(Entry) /\ Len(q) \in Nat /\ Len(T) = Len(q) - 1
      /\ \A i \in 1..Len(T) : T[i] = q[i + 1] /\ i + 1 \in 1..Len(q)
      /\ e = q[1] /\ 1 \in 1..Len(q)
  <2>1. /\ T \in Seq(Entry) /\ Len(q) \in Nat /\ Len(T) = Len(q) - 1
        /\ \A i \in 1..Len(T) : T[i] = q[i + 1]
    BY HeadTailProperties, LenProperties
  <2>2. Len(q) >= 1 /\ e = q[1]
    BY <2>1, EmptySeq, LenProperties
  <2> HIDE DEF T
  <2> QED BY <2>1, <2>2
<1> HIDE DEF T
<1>2. InOrder(T)
  <2> SUFFICES ASSUME NEW i \in 1..Len(T), NEW j \in 1..Len(T), T[i].rank = T[j].rank,
                      <<T[i].op, T[j].op>> \in OpsInOrder
               PROVE  i < j
    BY DEF InOrder
  <2>1. i + 1 < j + 1
    BY <1>1 DEF TraceOK, InOrder
  <2> QED BY <2>1
<1>3. EndsAwaited(T, bks2)
  <2>1. EndsAwaited(q, bks2)
    BY EndsStayAwaited DEF TraceOK
  <2> QED BY <1>1, <2>1 DEF EndsAwaited
<1>4. EntriesAwaited(T, bks2, u)
  <2>1. EntriesAwaited(q, bks2, u)
    BY EntriesStayAwaited DEF TraceOK
  <2> QED BY <1>1, <2>1 DEF EntriesAwaited
<1>5. ClosedBefore(T, bks2)
  <2> SUFFICES ASSUME NEW i \in 1..Len(T), NEW b \in Banks,
                      T[i].op = "SREF_ENTRY", Active(bks2[T[i].rank][b])
               PROVE  EndBefore(T, T[i].rank, b, i)
    BY DEF ClosedBefore
  <2> DEFINE r == T[i].rank
  <2>1. r \in Ranks /\ r = q[i + 1].rank /\ q[i + 1].op = "SREF_ENTRY"
    BY <1>1, EntryFields
  <2>2. EndBefore(q, r, b, i + 1)
    BY <1>1, <2>1 DEF TraceOK, ClosedBefore
  <2>3. PICK j \in 1..Len(q) : /\ j < i + 1 /\ q[j].op = "REFRESH_END"
                               /\ q[j].rank = r /\ q[j].bank = b
    BY <2>2 DEF EndBefore
  <2>4. j # 1
    BY <1>1, <2>3
  <2>5. j - 1 \in 1..Len(T) /\ j - 1 < i /\ T[j - 1] = q[j]
    BY <1>1, <2>3, <2>4
  <2> QED BY <2>3, <2>5 DEF EndBefore
<1>6. \A r \in Ranks : PoweredDown(rks2[r]) => NoEnds(T, r)
  <2> SUFFICES ASSUME NEW r \in Ranks, PoweredDown(rks2[r]), NEW i \in 1..Len(T),
                      T[i].op = "REFRESH_END", T[i].rank = r
               PROVE  FALSE
    BY DEF NoEnds
  <2>1. q[i + 1].op = "REFRESH_END" /\ q[i + 1].rank = r /\ i + 1 \in 1..Len(q)
    BY <1>1
  <2>2. ~PoweredDown(rks[r])
    BY <2>1 DEF TraceOK, NoEnds
  <2>3. r = e.rank /\ e.op \in PowerDownEntries
    BY <2>2 DEF PoweredDown
  <2>4. <<"REFRESH_END", e.op>> \in OpsInOrder
    BY <2>3 DEF PowerDownEntries, OpsInOrder
  <2>5. i + 1 < 1
    BY <1>1, <2>1, <2>3, <2>4 DEF TraceOK, InOrder
  <2> QED BY <2>5
<1>7. \A r \in Ranks : rks2[r].memState \in {"SREF", "DSM"} => \A b \in Banks : ~Active(bks2[r][b])
  <2> SUFFICES ASSUME NEW r \in Ranks, rks2[r].memState \in {"SREF", "DSM"}, NEW b \in Banks,
                      Active(bks[r][b])
               PROVE  FALSE
    OBVIOUS
  <2>1. rks[r].memState \notin {"SREF", "DSM"}
    BY DEF TraceOK
  <2>2. r = e.rank /\ e.op = "SREF_ENTRY"
    BY <2>1 DEF PoweredDown
  <2>3. EndBefore(q, r, b, 1)
    BY <1>1, <2>2 DEF TraceOK, ClosedBefore
  <2> QED BY <2>3 DEF EndBefore
<1> QED BY <1>2, <1>3, <1>4, <1>5, <1>6, <1>7 DEF T, TraceOK

AllOf(es, op, r, u) ==
    \A i \in 1..Len(es) : es[i].op = op /\ es[i].rank = r /\ es[i].time = u

\* A command op of rank r may be queued for time u: it goes after what it waits
\* for, and nothing in the queue waits for it.
Queueable(q, rks, bks, t, op, r, u) ==
    /\ \A i \in 1..Len(q) :
          q[i].rank = r => /\ <<q[i].op, op>> \in OpsInOrder => q[i].time <= u
                           /\ <<op, q[i].op>> \notin OpsInOrder
    /\ op = "REFRESH_END" =>
          ~PoweredDown(rks[r]) /\ \A b \in Banks : u <= bks[r][b].refreshEndTime
    /\ op \in PowerDownEntries =>
          u <= t \/ \E b \in Banks : \E x \in BankPermits(bks[r][b]) : u <= x
    /\ op = "SREF_ENTRY" =>
          \A b \in Banks : Active(bks[r][b]) =>
             \E i \in 1..Len(q) : /\ q[i].op = "REFRESH_END" /\ q[i].rank = r
                                  /\ q[i].bank = b /\ q[i].time <= u

LEMMA CommandsQueued ==
    ASSUME NEW q \in Seq(Entry), Sorted(q), NEW es \in Seq(Entry), NEW rks, NEW bks,
           NEW t \in Nat, NEW u \in Nat, TraceOK(q, rks, bks, t),
           NEW op \in ImplicitOps, NEW r, AllOf(es, op, r, u),
           Queueable(q, rks, bks, t, op, r, u)
    PROVE  TraceOK(AddAll(q, es, u), rks, bks, t)
<1> DEFINE A == AddAll(q, es, u)
<1>1. PICK m \in [1..Len(q) -> 1..Len(A)] : Moves(m, q, es, u, A)
  BY AddAllMoves
<1> HIDE DEF A
<1>2. \A x \in 1..Len(A) :
         \/ \E i \in 1..Len(q) : x = m[i] /\ A[x] = q[i]
         \/ /\ After(q, m, u, x) /\ A[x].op = op /\ A[x].rank = r /\ A[x].time = u
            /\ \E i \in 1..Len(es) : A[x] = es[i]
  <2> TAKE x \in 1..Len(A)
  <2>1. ASSUME NEW i \in 1..Len(q), x = m[i] PROVE A[x] = q[i]
    BY <1>1, <2>1 DEF Moves
  <2>2. ASSUME NEW i \in 1..Len(es), A[x] = es[i]
        PROVE  A[x].op = op /\ A[x].rank = r /\ A[x].time = u
    BY <2>2 DEF AllOf
  <2>3. \/ \E i \in 1..Len(q) : x = m[i]
        \/ \E i \in 1..Len(es) : A[x] = es[i] /\ After(q, m, u, x)
    BY <1>1 DEF Moves
  <2> QED BY <2>1, <2>2, <2>3
<1>3. <<op, op>> \notin OpsInOrder
  BY DEF OpsInOrder, ImplicitOps
<1>4. InOrder(A)
  <2> SUFFICES ASSUME NEW x \in 1..Len(A), NEW y \in 1..Len(A), A[x].rank = A[y].rank,
                      <<A[x].op, A[y].op>> \in OpsInOrder
               PROVE  x < y
    BY DEF InOrder
  <2>1. ASSUME NEW i \in 1..Len(q), x = m[i], A[x] = q[i],
               NEW j \in 1..Len(q), y = m[j], A[y] = q[j]
        PROVE  x < y
    <3>1. i < j
      BY <2>1 DEF TraceOK, InOrder
    <3> QED BY <1>1, <2>1, <3>1 DEF Moves
  <2>2. ASSUME NEW i \in 1..Len(q), x = m[i], A[x] = q[i],
               After(q, m, u, y), A[y].op = op, A[y].rank = r
        PROVE  x < y
    <3>1. q[i].time <= u
      BY <2>2 DEF Queueable
    <3> QED BY <2>2, <3>1 DEF After
  <2>3. CASE A[x].op = op /\ A[x].rank = r
    <3>1. CASE A[y].op = op
      BY <1>3, <2>3, <3>1
    <3>2. CASE \E j \in 1..Len(q) : A[y] = q[j]
      BY <2>3, <3>2 DEF Queueable
    <3> QED BY <1>2, <3>1, <3>2
  <2> QED BY <1>2, <2>1, <2>2, <2>3
<1>5. EndsAwaited(A, bks)
  <2> SUFFICES ASSUME NEW x \in 1..Len(A), A[x].op = "REFRESH_END"
               PROVE  A[x].time <= bks[A[x].rank][A[x].bank].refreshEndTime
    BY DEF EndsAwaited
  <2>1. CASE \E i \in 1..Len(q) : A[x] = q[i]
    BY <2>1 DEF TraceOK, EndsAwaited
  <2>2. CASE A[x].op = op /\ A[x].rank = r /\ A[x].time = u /\ \E i \in 1..Len(es) : A[x] = es[i]
    <3>1. A[x].bank \in Banks
      BY <2>2, EntryFields DEF BankOps
    <3> QED BY <2>2, <3>1 DEF Queueable
  <2> QED BY <1>2, <2>1, <2>2
<1>6. EntriesAwaited(A, bks, t)
  <2> SUFFICES ASSUME NEW x \in 1..Len(A), A[x].op \in PowerDownEntries
               PROVE  \/ A[x].time <= t
                      \/ \E b \in Banks : \E y \in BankPermits(bks[A[x].rank][b]) : A[x].time <= y
    BY DEF EntriesAwaited
  <2>1. CASE \E i \in 1..Len(q) : A[x] = q[i]
    BY <2>1 DEF TraceOK, EntriesAwaited
  <2>2. CASE A[x].op = op /\ A[x].rank = r /\ A[x].time = u
    BY <2>2 DEF Queueable
  <2> QED BY <1>2, <2>1, <2>2
<1>7. ClosedBefore(A, bks)
  <2> SUFFICES ASSUME NEW x \in 1..Len(A), NEW b \in Banks, A[x].op = "SREF_ENTRY",
                      Active(bks[A[x].rank][b])
               PROVE  EndBefore(A, A[x].rank, b, x)
    BY DEF ClosedBefore
  <2>1. ASSUME NEW i \in 1..Len(q), x = m[i], A[x] = q[i]
        PROVE  EndBefore(A, A[x].rank, b, x)
    <3>1. EndBefore(q, q[i].rank, b, i)
      BY <2>1 DEF TraceOK, ClosedBefore
    <3>2. PICK j \in 1..Len(q) : /\ j < i /\ q[j].op = "REFRESH_END"
                                 /\ q[j].rank = q[i].rank /\ q[j].bank = b
      BY <3>1 DEF EndBefore
    <3>3. m[j] \in 1..Len(A) /\ m[j] < x /\ A[m[j]] = q[j]
      BY <1>1, <2>1, <3>2 DEF Moves
    <3> QED BY <2>1, <3>2, <3>3 DEF EndBefore
  <2>2. CASE After(q, m, u, x) /\ A[x].op = op /\ A[x].rank = r
    <3>1. PICK j \in 1..Len(q) : /\ q[j].op = "REFRESH_END" /\ q[j].rank = r
                                 /\ q[j].bank = b /\ q[j].time <= u
      BY <2>2 DEF Queueable
    <3>2. m[j] \in 1..Len(A) /\ m[j] < x /\ A[m[j]] = q[j]
      BY <1>1, <2>2, <3>1 DEF After, Moves
    <3> QED BY <2>2, <3>1, <3>2 DEF EndBefore
  <2> QED BY <1>2, <2>1, <2>2
<1>8. \A r2 \in Ranks : PoweredDown(rks[r2]) => NoEnds(A, r2)
  <2> SUFFICES ASSUME NEW r2 \in Ranks, PoweredDown(rks[r2]), NEW x \in 1..Len(A),
                      A[x].op = "REFRESH_END", A[x].rank = r2
               PROVE  FALSE
    BY DEF NoEnds
  <2>1. CASE \E i \in 1..Len(q) : A[x] = q[i]
    BY <2>1 DEF TraceOK, NoEnds
  <2>2. CASE A[x].op = op /\ A[x].rank = r
    BY <2>2 DEF Queueable
  <2> QED BY <1>2, <2>1, <2>2
<1> QED BY <1>4, <1>5, <1>6, <1>7, <1>8 DEF A, TraceOK
-----------------------------------------------------------------------------
(* The implicit commands                                                   *)

LEMMA RankStates ==
    ASSUME NEW t \in Nat, NEW rk \in Rank
    PROVE  /\ \A bks : RankIdle(rk, bks, t).memState = rk.memState
           /\ RankBusy(rk, t).memState = rk.memState
           /\ RankRefreshing(rk, t).memState = rk.memState
           /\ SelfRefreshEntered(rk, t).memState = "SREF"
           /\ SelfRefreshLeft(rk, t).memState = "NOT_IN_PD"
           /\ PowerDownActEntered(rk, t).memState = "PDN_ACT"
           /\ \A bks : PowerDownActLeft(rk, bks, t).memState = "NOT_IN_PD"
           /\ PowerDownPreEntered(rk, t).memState = "PDN_PRE"
           /\ PowerDownPreLeft(rk, t).memState = "NOT_IN_PD"
<1>1. \A bks : RankIdle(rk, bks, t).memState = rk.memState
  BY DEF RankIdle, Rank
<1>2. RankBusy(rk, t).memState = rk.memState /\ RankRefreshing(rk, t).memState = rk.memState
  BY DEF RankBusy, RankRefreshing, Rank
<1>3. /\ SelfRefreshEntered(rk, t).memState = "SREF"
      /\ SelfRefreshLeft(rk, t).memState = "NOT_IN_PD"
  BY DEF SelfRefreshEntered, SelfRefreshLeft, Rank
<1>4. /\ PowerDownActEntered(rk, t).memState = "PDN_ACT"
      /\ \A bks : PowerDownActLeft(rk, bks, t).memState = "NOT_IN_PD"
  BY DEF PowerDownActEntered, PowerDownActLeft, Rank
<1>5. /\ PowerDownPreEntered(rk, t).memState = "PDN_PRE"
      /\ PowerDownPreLeft(rk, t).memState = "NOT_IN_PD"
  BY DEF PowerDownPreEntered, PowerDownPreLeft, Rank
<1> QED BY <1>1, <1>2, <1>3, <1>4, <1>5

LEMMA TypedBanks ==
    ASSUME NEW n, NEW d, NEW bks, BanksWithin(bks, n, d)
    PROVE  \A r \in Ranks, b \in Banks : BankTyped(bks[r][b])
BY WithinTyped DEF BanksWithin

\* The change of a bank in which no row is opened.
Quiet(bk, bk2, t) ==
    bk2 \in {bk, Precharged(bk, t), RefreshEnded(bk, t), ActClosed(bk, t), ActStarted(bk, t)}

LEMMA QuietBanks ==
    ASSUME NEW t \in Nat, NEW bk, BankWithin(bk, t, tRFC), NEW bk2, Quiet(bk, bk2, t)
    PROVE  Grown(bk, bk2) /\ (Active(bk2) => Active(bk))
BY BanksGrow DEF Quiet

\* What an implicit command does to the banks, and to the state of its rank.
LEMMA ImplicitChanges ==
    ASSUME NEW e \in Entry, NEW t \in Nat,
           RanksWithin(rank, t), BanksWithin(bank, t, tRFC),
           \/ e.op = "AUTO_PRECHARGE" /\ handlePre(e.rank, e.bank, t)
           \/ e.op = "REFRESH_END" /\ handleRefAllLater(e.rank, e.bank, t)
           \/ e.op = "SREF_ENTRY" /\ handleSelfRefreshEntryLater(e.rank, t)
           \/ e.op = "PDA_ENTRY" /\ handlePowerDownActEntryLater(e.rank, t)
           \/ e.op = "PDA_EXIT" /\ handlePowerDownActExitLater(e.rank, t)
           \/ e.op = "PDP_ENTRY" /\ handlePowerDownPreEntryLater(e.rank, t)
           \/ e.op = "PDP_EXIT" /\ handlePowerDownPreExitLater(e.rank, t)
    PROVE  /\ \A r \in Ranks, b \in Banks : Quiet(bank[r][b], bank'[r][b], t)
           /\ e.op = "REFRESH_END" => ~Active(bank'[e.rank][e.bank])
           /\ \A r \in Ranks :
                 \/ rank'[r].memState \in {rank[r].memState, "NOT_IN_PD"}
                 \/ r = e.rank /\ e.op = "SREF_ENTRY" /\ rank'[r].memState = "SREF"
                 \/ r = e.rank /\ e.op \in PowerDownEntries /\ PoweredDown(rank'[r])
<1> DEFINE s == e.rank
<1>1. /\ s \in Ranks /\ rank[s] \in Rank
      /\ rank \in [Ranks -> Rank] /\ bank \in [Ranks -> [Banks -> Bank]]
      /\ \A r \in Ranks, b \in Banks : BankWithin(bank[r][b], t, tRFC)
  BY DEF Entry, RanksWithin, BanksWithin
<1> HIDE DEF s
<1>2. CASE e.op = "AUTO_PRECHARGE" /\ handlePre(s, e.bank, t)
  <2>1. \A r \in Ranks, b \in Banks : Quiet(bank[r][b], bank'[r][b], t)
    BY <1>1, <1>2 DEF handlePre, Precharge, Quiet
  <2>2. \A r \in Ranks : rank'[r].memState = rank[r].memState
    BY <1>1, <1>2, RankStates DEF handlePre, Precharge
  <2> QED BY <1>2, <2>1, <2>2
<1>3. CASE e.op = "REFRESH_END" /\ handleRefAllLater(s, e.bank, t)
  <2>1. /\ bank' = [bank EXCEPT ![s][e.bank] = RefreshEnded(@, t)]
        /\ rank' = [rank EXCEPT ![s] = RankIdle(@, bank'[s], t)]
    BY <1>3 DEF handleRefAllLater, RefreshEnd
  <2>2. \A r \in Ranks, b \in Banks : Quiet(bank[r][b], bank'[r][b], t)
    BY <1>1, <2>1 DEF Quiet
  <2>3. \A r \in Ranks : rank'[r].memState = rank[r].memState
    BY <1>1, <2>1, RankStates
  <2>4. e.bank \in Banks
    BY <1>3 DEF Entry, BankOps
  <2>5. bank'[s][e.bank] = RefreshEnded(bank[s][e.bank], t)
    BY <1>1, <2>1, <2>4
  <2>6. ~Active(bank'[s][e.bank])
    BY <1>1, <2>4, <2>5, BanksGrow
  <2> QED BY <2>2, <2>3, <2>6 DEF s
<1>4. CASE e.op = "SREF_ENTRY" /\ handleSelfRefreshEntryLater(s, t)
  BY <1>1, <1>4, RankStates
     DEF handleSelfRefreshEntryLater, SelfRefreshEntry, Quiet, s
<1>5. CASE e.op = "PDA_ENTRY" /\ handlePowerDownActEntryLater(s, t)
  <2>1. \A r \in Ranks, b \in Banks : Quiet(bank[r][b], bank'[r][b], t)
    BY <1>1, <1>5 DEF handlePowerDownActEntryLater, PowerDownActEntry, Quiet
  <2>2. \A r \in Ranks : IF r = s THEN rank'[r].memState = "PDN_ACT"
                         ELSE rank'[r].memState = rank[r].memState
    BY <1>1, <1>5, RankStates DEF handlePowerDownActEntryLater, PowerDownActEntry
  <2> QED BY <1>5, <2>1, <2>2 DEF PowerDownEntries, PoweredDown, s
<1>6. CASE e.op = "PDA_EXIT" /\ handlePowerDownActExitLater(s, t)
  <2>1. \A r \in Ranks, b \in Banks : Quiet(bank[r][b], bank'[r][b], t)
    BY <1>1, <1>6 DEF handlePowerDownActExitLater, Reactivated, Quiet
  <2>2. \A r \in Ranks : rank'[r].memState \in {rank[r].memState, "NOT_IN_PD"}
    BY <1>1, <1>6, RankStates DEF handlePowerDownActExitLater
  <2> QED BY <1>6, <2>1, <2>2
<1>7. CASE e.op = "PDP_ENTRY" /\ handlePowerDownPreEntryLater(s, t)
  <2>1. \A r \in Ranks, b \in Banks : Quiet(bank[r][b], bank'[r][b], t)
    BY <1>1, <1>7 DEF handlePowerDownPreEntryLater, Quiet
  <2>2. \A r \in Ranks : IF r = s THEN rank'[r].memState = "PDN_PRE"
                         ELSE rank'[r].memState = rank[r].memState
    BY <1>1, <1>7, RankStates DEF handlePowerDownPreEntryLater
  <2> QED BY <1>7, <2>1, <2>2 DEF PowerDownEntries, PoweredDown, s
<1>8. CASE e.op = "PDP_EXIT" /\ handlePowerDownPreExitLater(s, t)
  <2>1. \A r \in Ranks, b \in Banks : Quiet(bank[r][b], bank'[r][b], t)
    BY <1>1, <1>8 DEF handlePowerDownPreExitLater, Reactivated, Quiet
  <2>2. \A r \in Ranks : rank'[r].memState \in {rank[r].memState, "NOT_IN_PD"}
    BY <1>1, <1>8, RankStates DEF handlePowerDownPreExitLater
  <2> QED BY <1>8, <2>1, <2>2
<1> QED BY <1>2, <1>3, <1>4, <1>5, <1>6, <1>7, <1>8 DEF s

LEMMA ImplicitTrace ==
    ASSUME IInv, TraceInv, ExecuteImplicit
    PROVE  TraceInv'
<1> DEFINE e == Head(queue)
           t == e.time
<1>1. queue # <<>>
  BY DEF ExecuteImplicit, Pop, Due
<1>2. e \in Entry /\ now <= t /\ queue \in Seq(Entry) /\ now \in Nat
  BY <1>1, PopWithin DEF IInv, QueueFrom
<1>3. t \in Nat
  BY <1>2 DEF Entry, Time
<1>4. RanksWithin(rank, t) /\ BanksWithin(bank, t, tRFC)
  BY <1>2, <1>3, Later
<1>5. BanksWithin(bank', now', tRFC)
  BY ImplicitStep DEF IInv
<1>6. queue' = Tail(queue) /\ now' = t
  BY DEF ExecuteImplicit, Pop
<1>7. \/ e.op = "AUTO_PRECHARGE" /\ handlePre(e.rank, e.bank, t)
      \/ e.op = "REFRESH_END" /\ handleRefAllLater(e.rank, e.bank, t)
      \/ e.op = "SREF_ENTRY" /\ handleSelfRefreshEntryLater(e.rank, t)
      \/ e.op = "PDA_ENTRY" /\ handlePowerDownActEntryLater(e.rank, t)
      \/ e.op = "PDA_EXIT" /\ handlePowerDownActExitLater(e.rank, t)
      \/ e.op = "PDP_ENTRY" /\ handlePowerDownPreEntryLater(e.rank, t)
      \/ e.op = "PDP_EXIT" /\ handlePowerDownPreExitLater(e.rank, t)
  BY DEF ExecuteImplicit
<1>8. TraceOK(queue, rank, bank, now)
  BY DEF TraceInv
<1>9. e = Head(queue)
  OBVIOUS
<1> HIDE DEF e, t
<1>10. /\ \A r \in Ranks, b \in Banks : Quiet(bank[r][b], bank'[r][b], t)
       /\ e.op = "REFRESH_END" => ~Active(bank'[e.rank][e.bank])
       /\ \A r \in Ranks :
             \/ rank'[r].memState \in {rank[r].memState, "NOT_IN_PD"}
             \/ r = e.rank /\ e.op = "SREF_ENTRY" /\ rank'[r].memState = "SREF"
             \/ r = e.rank /\ e.op \in PowerDownEntries /\ PoweredDown(rank'[r])
  BY <1>2, <1>3, <1>4, <1>7, ImplicitChanges
<1>11. \A r \in Ranks, b \in Banks : /\ Grown(bank[r][b], bank'[r][b])
                                     /\ Active(bank'[r][b]) => Active(bank[r][b])
  BY <1>3, <1>4, <1>10, QuietBanks DEF BanksWithin
<1>12. Advanced(bank, bank')
  BY <1>4, <1>5, <1>11, TypedBanks DEF Advanced
<1>13. TraceOK(Tail(queue), rank', bank', t)
  BY <1>1, <1>2, <1>3, <1>8, <1>9, <1>10, <1>11, <1>12, EntryHappens
<1> QED BY <1>6, <1>13 DEF TraceInv
-----------------------------------------------------------------------------
(* The commands                                                            *)

\* One entry per bank.
LEMMA EveryBankEnds ==
    ASSUME NEW t \in Nat, NEW r \in Ranks
    PROVE  /\ AllRefreshEnds(r, t) \in Seq(Entry)
           /\ \A i \in 1..Len(AllRefreshEnds(r, t)) :
                 LET e == AllRefreshEnds(r, t)[i]
                 IN  /\ e.op = "REFRESH_END" /\ e.rank = r /\ e.time = t + tRFC
                     /\ e.bank \in Banks /\ e.bank = i - 1
           /\ \A b \in Banks : \E i \in 1..Len(AllRefreshEnds(r, t)) :
                 AllRefreshEnds(r, t)[i].bank = b
<1> DEFINE bs == [i \in 1..NumBanks |-> i - 1]
           E == [i \in 1..NumBanks |-> ImplicitFor(t + tRFC, "REFRESH_END", r, i - 1)]
<1>1. NumBanks \in Nat
  BY SizeAssumption DEF SizeAssumption
<1>2. bs \in Seq(Banks) /\ Len(bs) = NumBanks
  <2>1. bs \in [1..NumBanks -> Banks]
    BY <1>1 DEF Banks
  <2> HIDE DEF bs
  <2> QED BY <1>1, <2>1
<1>3. AllRefreshEnds(r, t) = E
  <2>1. \A i \in 1..NumBanks : bs[i] = i - 1
    OBVIOUS
  <2>2. AllRefreshEnds(r, t) = RefreshEnds(r, bs, t + tRFC)
    BY DEF AllRefreshEnds
  <2> HIDE DEF bs
  <2> QED BY <1>2, <2>1, <2>2 DEF RefreshEnds
<1>4. t + tRFC \in Nat
  BY RefreshLength
<1>5. AllRefreshEnds(r, t) \in Seq(Entry)
  <2>1. AllRefreshEnds(r, t) = RefreshEnds(r, bs, t + tRFC)
    BY DEF AllRefreshEnds
  <2> HIDE DEF bs
  <2> QED BY <1>2, <1>4, <2>1, RefreshEndsType
<1>6. Len(E) = NumBanks
  BY <1>1
<1>7. \A i \in 1..NumBanks : /\ E[i].op = "REFRESH_END" /\ E[i].rank = r /\ E[i].bank = i - 1
                             /\ i - 1 \in Banks /\ E[i].time = t + tRFC
  BY <1>1 DEF ImplicitFor, Banks
<1>8. \A b \in Banks : b + 1 \in 1..NumBanks /\ (b + 1) - 1 = b
  BY <1>1 DEF Banks
<1> HIDE DEF E
<1>9. \A b \in Banks : \E i \in 1..NumBanks : E[i].bank = b
  BY <1>7, <1>8
<1> QED BY <1>3, <1>5, <1>6, <1>7, <1>9

\* Time passes until the call, and its command changes ranks and banks.
LEMMA CommandChanges ==
    ASSUME IInv, TraceInv, ~Due(queue, target), BanksWithin(bank', target, tRFC),
           \A r \in Ranks, b \in Banks : Grown(bank[r][b], bank'[r][b]),
           \A r \in Ranks : rank'[r].memState \in {rank[r].memState, "NOT_IN_PD"},
           \A r \in Ranks : StaysClosed(queue, rank', bank, bank', r)
    PROVE  TraceOK(queue, rank', bank', target)
<1>1. /\ now \in Nat /\ target \in Nat /\ now <= target /\ queue \in Seq(Entry)
      /\ BanksWithin(bank, now, tRFC) /\ TraceOK(queue, rank, bank, now)
  BY DEF IInv, TraceInv, QueueFrom
<1>2. Advanced(bank, bank')
  BY <1>1, TypedBanks DEF Advanced
<1> QED BY <1>1, <1>2, StateChange

\* One command more in the queue.
LEMMA OneQueued ==
    ASSUME NEW q \in Seq(Entry), Sorted(q), NEW rks, NEW bks, NEW t \in Nat,
           TraceOK(q, rks, bks, t), NEW e \in Entry,
           Queueable(q, rks, bks, t, e.op, e.rank, e.time)
    PROVE  TraceOK(Add(q, e), rks, bks, t)
<1>1. e.time \in Nat /\ e.op \in ImplicitOps
  BY DEF Entry, Time
<1>2. <<e>> \in Seq(Entry) /\ AllOf(<<e>>, e.op, e.rank, e.time)
  BY DEF AllOf
<1>3. TraceOK(AddAll(q, <<e>>, e.time), rks, bks, t)
  BY <1>1, <1>2, CommandsQueued
<1> QED BY <1>3 DEF Add

\* A valid trace addresses a rank that nothing is about to happen to, except
\* for an exit.
LEMMA ValidCommand ==
    ASSUME ValidOnly = TRUE, NEW r, NEW bs,
           NEW cmd \in {"ACT", "REFA", "SREFEN", "RD", "RDA", "WR", "WRA", "PRE", "PREA", "PDEA", "PDEP"},
           Permitted(cmd, r, bs)
    PROVE  rank[r].memState = "NOT_IN_PD" /\ NoPowerOps(queue, r)
<1>1. Valid(cmd, r, bs, target)
  BY DEF Permitted
<1>2. Available(r)
  BY <1>1 DEF Valid
<1> QED BY <1>2, AvailableRank

\* What a call finds.
CallDue ==
    /\ IInv /\ TraceInv /\ ~Due(queue, target)
    /\ CoreWithin(rank, bank, queue, target)

LEMMA CallDueTypes ==
    ASSUME CallDue
    PROVE  /\ target \in Nat /\ queue \in Seq(Entry) /\ Sorted(queue)
           /\ rank \in [Ranks -> Rank] /\ bank \in [Ranks -> [Banks -> Bank]]
           /\ \A r \in Ranks, b \in Banks : BankWithin(bank[r][b], target, tRFC)
           /\ \A r \in Ranks, b \in Banks : Grown(bank[r][b], bank[r][b])
<1>1. /\ target \in Nat /\ queue \in Seq(Entry) /\ Sorted(queue)
      /\ rank \in [Ranks -> Rank] /\ bank \in [Ranks -> [Banks -> Bank]]
      /\ \A r \in Ranks, b \in Banks : BankWithin(bank[r][b], target, tRFC)
  BY DEF CallDue, IInv, CoreWithin, QueueFrom, RanksWithin, BanksWithin
<1> QED BY <1>1, BanksGrow

LEMMA PrechargeTrace ==
    ASSUME CallDue, BanksWithin(bank', target, tRFC), NEW r \in Ranks, NEW bs,
           Precharge(r, bs, target)
    PROVE  TraceOK(queue, rank', bank', target)
<1>1. \A s \in Ranks, b \in Banks : Quiet(bank[s][b], bank'[s][b], target)
  BY CallDueTypes DEF Precharge, Quiet
<1>2. \A s \in Ranks : rank'[s].memState = rank[s].memState
  <2>1. RankIdle(rank[r], bank'[r], target).memState = rank[r].memState
    BY CallDueTypes, RankStates
  <2>2. rank' = rank \/ rank' = [rank EXCEPT ![r] = RankIdle(rank[r], bank'[r], target)]
    BY DEF Precharge
  <2> QED BY <2>1, <2>2, CallDueTypes
<1>3. \A s \in Ranks, b \in Banks : /\ Grown(bank[s][b], bank'[s][b])
                                    /\ Active(bank'[s][b]) => Active(bank[s][b])
  BY <1>1, CallDueTypes, QuietBanks
<1> QED BY <1>2, <1>3, CommandChanges DEF CallDue, StaysClosed

LEMMA CountTrace ==
    ASSUME CallDue, BanksWithin(bank', target, tRFC), NEW r \in Ranks, NEW b \in Banks,
           NEW c \in Counters, Count(r, b, c)
    PROVE  TraceOK(queue, rank', bank', target)
<1>1. /\ Grown(bank[r][b], Counted(bank[r][b], c))
      /\ Counted(bank[r][b], c).bankState = bank[r][b].bankState
  BY CallDueTypes, CountedGrows
<1>2. /\ bank' = [bank EXCEPT ![r][b] = Counted(bank[r][b], c)] /\ rank' = rank
  BY DEF Count
<1>3. \A s \in Ranks, a \in Banks : /\ Grown(bank[s][a], bank'[s][a])
                                    /\ Active(bank'[s][a]) => Active(bank[s][a])
  BY <1>1, <1>2, CallDueTypes DEF Active
<1> QED BY <1>2, <1>3, CommandChanges DEF CallDue, StaysClosed

LEMMA CountAndPrechargeTrace ==
    ASSUME CallDue, BanksWithin(bank', target, tRFC), NEW r \in Ranks, NEW b \in Banks,
           NEW c \in Counters, NEW u \in Nat, CountAndPrecharge(r, b, c, u)
    PROVE  TraceOK(queue', rank', bank', target)
<1> DEFINE e == ImplicitFor(AutoPrechargeTime(r, b, u), "AUTO_PRECHARGE", r, b)
<1>1. TraceOK(queue, rank', bank', target)
  BY CountTrace DEF CountAndPrecharge
<1>2. AutoPrechargeTime(r, b, u) \in Nat
  <2>1. GetStart(bank[r][b].act) \in Nat
    BY CallDueTypes, StartsGrow DEF BankWithin
  <2> QED BY <2>1, TimingAssumption DEF TimingAssumption, AutoPrechargeTime, Max2
<1>3. e \in Entry /\ e.op = "AUTO_PRECHARGE"
  <2>1. b # NoBank
    BY DEF Banks, NoBank
  <2>2. e \in Entry
    BY <1>2, <2>1, ImplicitForType DEF ImplicitOps, BankOps
  <2> QED BY <2>2 DEF ImplicitFor
<1>4. queue' = Add(queue, e)
  BY DEF CountAndPrecharge
<1> HIDE DEF e
<1>5. Queueable(queue, rank', bank', target, e.op, e.rank, e.time)
  BY <1>3 DEF Queueable, OpsInOrder, PowerDownEntries
<1> QED BY <1>1, <1>3, <1>4, <1>5, CallDueTypes, OneQueued

LEMMA ActTrace ==
    ASSUME CallDue, BanksWithin(bank', target, tRFC), NEW r \in Ranks, NEW b \in Banks,
           rank[r].memState = "NOT_IN_PD", NoPowerOps(queue, r), handleAct(r, b, target)
    PROVE  TraceOK(queue, rank', bank', target)
<1>1. Grown(bank[r][b], Activated(bank[r][b], target))
  BY CallDueTypes, BanksGrow
<1>2. /\ bank' = [bank EXCEPT ![r][b] = Activated(bank[r][b], target)]
      /\ rank' = [rank EXCEPT ![r] = RankBusy(rank[r], target)]
  BY DEF handleAct
<1>3. \A s \in Ranks : rank'[s].memState = rank[s].memState
  <2>1. RankBusy(rank[r], target).memState = rank[r].memState
    BY CallDueTypes, RankStates
  <2> QED BY <1>2, <2>1, CallDueTypes
<1>4. \A s \in Ranks, a \in Banks : Grown(bank[s][a], bank'[s][a])
  BY <1>1, <1>2, CallDueTypes
<1>5. \A s \in Ranks : s # r => bank'[s] = bank[s]
  BY <1>2, CallDueTypes
<1>6. \A s \in Ranks : StaysClosed(queue, rank', bank, bank', s)
  BY <1>3, <1>5 DEF StaysClosed
<1> QED BY <1>3, <1>4, <1>6, CommandChanges DEF CallDue

LEMMA BankCommandTrace ==
    ASSUME ValidOnly = TRUE, CallDue, BanksWithin(bank', target, tRFC),
           NEW r \in Ranks, NEW b \in Banks, BankCommand(r, b)
    PROVE  TraceOK(queue', rank', bank', target)
<1>1. CASE ACT(r, b)
  BY <1>1, ActTrace, ValidCommand DEF ACT
<1>2. CASE PRE(r, b)
  BY <1>2, PrechargeTrace DEF PRE, handlePre
<1>3. CASE RD(r, b)
  BY <1>3, CountTrace DEF RD, handleRead, Counters
<1>4. CASE WR(r, b)
  BY <1>4, CountTrace DEF WR, handleWrite, Counters
<1>5. CASE RDA(r, b)
  <2>1. target + prechargeOffsetRD \in Nat
    BY CallDueTypes, TimingAssumption DEF TimingAssumption
  <2> QED BY <1>5, <2>1, CountAndPrechargeTrace DEF RDA, handleReadAuto, Counters
<1>6. CASE WRA(r, b)
  <2>1. target + prechargeOffsetWR \in Nat
    BY CallDueTypes, TimingAssumption DEF TimingAssumption
  <2> QED BY <1>6, <2>1, CountAndPrechargeTrace DEF WRA, handleWriteAuto, Counters
<1> QED BY <1>1, <1>2, <1>3, <1>4, <1>5, <1>6 DEF BankCommand

LEMMA RefreshTrace ==
    ASSUME CallDue, BanksWithin(bank', target, tRFC), NEW r \in Ranks,
           rank[r].memState = "NOT_IN_PD", NoPowerOps(queue, r), RefreshAll(r, target)
    PROVE  /\ TraceOK(queue, rank', bank', target)
           /\ rank'[r].memState = "NOT_IN_PD"
           /\ \A b \in Banks : bank'[r][b].refreshEndTime = target + tRFC
<1>1. \A b \in Banks : /\ Grown(bank[r][b], RefreshStarted(bank[r][b], target))
                       /\ RefreshStarted(bank[r][b], target).refreshEndTime = target + tRFC
  BY CallDueTypes, BanksGrow
<1>2. /\ bank' = [bank EXCEPT ![r] = [b \in Banks |-> RefreshStarted(bank[r][b], target)]]
      /\ rank' = [rank EXCEPT ![r] = RankRefreshing(rank[r], target)]
  BY DEF RefreshAll
<1>3. \A s \in Ranks : rank'[s].memState = rank[s].memState
  <2>1. RankRefreshing(rank[r], target).memState = rank[r].memState
    BY CallDueTypes, RankStates
  <2> QED BY <1>2, <2>1, CallDueTypes
<1>4. \A b \in Banks : bank'[r][b] = RefreshStarted(bank[r][b], target)
  BY <1>2, CallDueTypes
<1>5. \A s \in Ranks : s # r => bank'[s] = bank[s]
  BY <1>2, CallDueTypes
<1>6. \A s \in Ranks, b \in Banks : Grown(bank[s][b], bank'[s][b])
  BY <1>1, <1>4, <1>5, CallDueTypes
<1>7. \A s \in Ranks : StaysClosed(queue, rank', bank, bank', s)
  BY <1>3, <1>5 DEF StaysClosed
<1>8. TraceOK(queue, rank', bank', target)
  BY <1>3, <1>6, <1>7, CommandChanges DEF CallDue
<1> QED BY <1>1, <1>3, <1>4, <1>8

\* The ends of the refresh are queued, for every bank.
LEMMA EndsQueued ==
    ASSUME CallDue, BanksWithin(bank', target, tRFC), NEW r \in Ranks,
           rank[r].memState = "NOT_IN_PD", NoPowerOps(queue, r), RefreshAll(r, target),
           NEW q, q = AddAll(queue, AllRefreshEnds(r, target), target + tRFC)
    PROVE  /\ TraceOK(q, rank', bank', target) /\ q \in Seq(Entry) /\ Sorted(q)
           /\ \A b \in Banks : \E i \in 1..Len(q) :
                 /\ q[i].op = "REFRESH_END" /\ q[i].rank = r /\ q[i].bank = b
                 /\ q[i].time = target + tRFC
<1> DEFINE es == AllRefreshEnds(r, target)
           u == target + tRFC
<1>1. u \in Nat /\ target \in Nat /\ queue \in Seq(Entry) /\ Sorted(queue)
  BY CallDueTypes, RefreshLength
<1>2. /\ es \in Seq(Entry)
      /\ \A i \in 1..Len(es) : /\ es[i].op = "REFRESH_END" /\ es[i].rank = r
                               /\ es[i].bank \in Banks /\ es[i].time = u
      /\ \A b \in Banks : \E i \in 1..Len(es) : es[i].bank = b
  BY <1>1, EveryBankEnds
<1>3. /\ TraceOK(queue, rank', bank', target) /\ rank'[r].memState = "NOT_IN_PD"
      /\ \A b \in Banks : bank'[r][b].refreshEndTime = u
  BY RefreshTrace
<1>4. q = AddAll(queue, es, u)
  OBVIOUS
<1>5. QueueFrom(q, target)
  BY <1>1, AllRefreshEndsWithin DEF CallDue, CoreWithin
<1> HIDE DEF es, u
<1>6. AllOf(es, "REFRESH_END", r, u)
  BY <1>2 DEF AllOf
<1>7. Queueable(queue, rank', bank', target, "REFRESH_END", r, u)
  <2>1. \A i \in 1..Len(queue) :
           queue[i].rank = r => /\ <<queue[i].op, "REFRESH_END">> \notin OpsInOrder
                                /\ <<"REFRESH_END", queue[i].op>> \notin OpsInOrder
    BY DEF NoPowerOps, PowerOps, OpsInOrder
  <2>2. ~PoweredDown(rank'[r]) /\ \A b \in Banks : u <= bank'[r][b].refreshEndTime
    BY <1>1, <1>3 DEF PoweredDown
  <2> QED BY <2>1, <2>2 DEF Queueable, PowerDownEntries
<1>8. TraceOK(q, rank', bank', target)
  <2>1. "REFRESH_END" \in ImplicitOps
    BY DEF ImplicitOps
  <2> QED BY <1>1, <1>2, <1>3, <1>4, <1>6, <1>7, <2>1, CommandsQueued
<1>9. \A b \in Banks : \E i \in 1..Len(q) : /\ q[i].op = "REFRESH_END" /\ q[i].rank = r
                                            /\ q[i].bank = b /\ q[i].time = u
  <2> TAKE b \in Banks
  <2>1. PICK i \in 1..Len(es) : es[i].bank = b
    BY <1>2
  <2>2. PICK m \in [1..Len(queue) -> 1..Len(q)] : Moves(m, queue, es, u, q)
    BY <1>1, <1>2, <1>4, AddAllMoves
  <2>3. PICK x \in 1..Len(q) : q[x] = es[i]
    BY <2>2 DEF Moves
  <2> QED BY <1>2, <2>1, <2>3
<1> QED BY <1>5, <1>8, <1>9 DEF QueueFrom, u

LEMMA SelfRefreshTrace ==
    ASSUME CallDue, BanksWithin(bank', target, tRFC), NEW r \in Ranks,
           rank[r].memState = "NOT_IN_PD", NoPowerOps(queue, r),
           handleSelfRefreshEntry(r, target)
    PROVE  TraceOK(queue', rank', bank', target)
<1> DEFINE q == AddAll(queue, AllRefreshEnds(r, target), target + tRFC)
           e == ImplicitFor(target + tRFC, "SREF_ENTRY", r, NoBank)
<1>1. RefreshAll(r, target) /\ queue' = Add(q, e)
  BY DEF handleSelfRefreshEntry
<1>2. /\ TraceOK(q, rank', bank', target) /\ q \in Seq(Entry) /\ Sorted(q)
      /\ \A b \in Banks : \E i \in 1..Len(q) :
            /\ q[i].op = "REFRESH_END" /\ q[i].rank = r /\ q[i].bank = b
            /\ q[i].time = target + tRFC
  BY <1>1, EndsQueued
<1>3. target \in Nat /\ target + tRFC \in Nat
  BY CallDueTypes, RefreshLength
<1>4. e \in Entry /\ e.op = "SREF_ENTRY" /\ e.rank = r /\ e.time = target + tRFC
  <2>1. e \in Entry
    BY <1>3, ImplicitForType DEF ImplicitOps, BankOps
  <2> QED BY <2>1 DEF ImplicitFor
<1> HIDE DEF q, e
<1>5. \A b \in Banks : \E i \in 1..Len(q) :
            /\ q[i].op = "REFRESH_END" /\ q[i].rank = r /\ q[i].bank = b
            /\ q[i].time <= target + tRFC
  BY <1>2, <1>3
<1>6. Queueable(q, rank', bank', target, "SREF_ENTRY", r, target + tRFC)
  BY <1>5 DEF Queueable, OpsInOrder, PowerDownEntries
<1>7. Queueable(q, rank', bank', target, e.op, e.rank, e.time)
  BY <1>4, <1>6
<1> QED BY <1>1, <1>2, <1>3, <1>4, <1>7, OneQueued

\* An entry or an exit goes after the ends of refresh, and after its entry: the
\* banks demand its delay as they demanded that of the entry.
LEMMA PowerDownTrace ==
    ASSUME CallDue, NEW r \in Ranks, NEW op \in PowerDownEntries \cup {"PDA_EXIT", "PDP_EXIT"},
           op \in PowerDownEntries => NoPowerOps(queue, r), AddPowerDown(op, r, target)
    PROVE  TraceOK(queue', rank', bank', target)
<1> DEFINE u == PowerDownTime(r, target)
           e == ImplicitFor(u, op, r, NoBank)
<1>1. queue' = Add(queue, e) /\ rank' = rank /\ bank' = bank
  BY DEF AddPowerDown
<1>2. target \in Nat /\ queue \in Seq(Entry) /\ Sorted(queue) /\ BanksWithin(bank, target, tRFC)
  BY CallDueTypes DEF CallDue, CoreWithin
<1>3. /\ u \in Nat /\ u \in PowerDownTimes(r, target)
      /\ \A x \in PowerDownTimes(r, target) : x \in Nat /\ x <= u
  BY <1>2, PowerDownTimeType, RefreshLength
<1>4. TraceOK(queue, rank, bank, target)
  <2>1. \A s \in Ranks : StaysClosed(queue, rank', bank, bank', s)
    BY <1>1 DEF StaysClosed
  <2>2. TraceOK(queue, rank', bank', target)
    BY <1>1, <1>2, <2>1, CallDueTypes, CommandChanges DEF CallDue
  <2> QED BY <1>1, <2>2
<1>5. e \in Entry /\ e.op = op /\ e.rank = r /\ e.time = u
  <2>1. op \in ImplicitOps \ BankOps
    BY DEF ImplicitOps, BankOps, PowerDownEntries
  <2>2. e \in Entry
    BY <1>3, <2>1, ImplicitForType
  <2> QED BY <2>2 DEF ImplicitFor
<1> HIDE DEF u, e
<1>6. \A b \in Banks : \A x \in BankPermits(bank[r][b]) : x \in Nat /\ x <= u
  BY <1>3 DEF PowerDownTimes
<1>7. \A i \in 1..Len(queue) :
         queue[i].rank = r => /\ <<queue[i].op, op>> \in OpsInOrder => queue[i].time <= u
                              /\ <<op, queue[i].op>> \notin OpsInOrder
  <2> SUFFICES ASSUME NEW i \in 1..Len(queue), queue[i].rank = r
               PROVE  /\ <<queue[i].op, op>> \in OpsInOrder => queue[i].time <= u
                      /\ <<op, queue[i].op>> \notin OpsInOrder
    OBVIOUS
  <2>1. queue[i].time \in Nat
    BY <1>2, EntryFields
  <2>2. CASE queue[i].op = "REFRESH_END"
    <3>1. queue[i].bank \in Banks
      BY <1>2, <2>2, EntryFields DEF BankOps
    <3>2. queue[i].time <= bank[r][queue[i].bank].refreshEndTime
      BY <1>4, <2>2 DEF TraceOK, EndsAwaited
    <3>3. bank[r][queue[i].bank].refreshEndTime \in BankPermits(bank[r][queue[i].bank])
      BY DEF BankPermits
    <3>4. /\ bank[r][queue[i].bank].refreshEndTime \in Nat
          /\ bank[r][queue[i].bank].refreshEndTime <= u
      BY <1>6, <3>1, <3>3
    <3>5. queue[i].time <= u
      BY <1>3, <2>1, <3>2, <3>4
    <3> QED BY <2>2, <3>5 DEF OpsInOrder, PowerDownEntries
  <2>3. CASE queue[i].op \in PowerDownEntries
    <3>1. \/ queue[i].time <= target
          \/ \E b \in Banks : \E x \in BankPermits(bank[r][b]) : queue[i].time <= x
      BY <1>4, <2>3 DEF TraceOK, EntriesAwaited
    <3>2. target \in Nat /\ target <= u
      BY <1>2, <1>3 DEF PowerDownTimes
    <3>3. queue[i].time <= u
      BY <1>3, <1>6, <2>1, <3>1, <3>2
    <3> QED BY <2>3, <3>3 DEF OpsInOrder, PowerDownEntries
  <2>4. CASE queue[i].op \notin PowerDownEntries \cup {"REFRESH_END"}
    <3>1. <<queue[i].op, op>> \notin OpsInOrder
      BY <2>4 DEF OpsInOrder, PowerDownEntries
    <3>2. <<op, queue[i].op>> \notin OpsInOrder
      BY DEF OpsInOrder, PowerDownEntries, NoPowerOps, PowerOps
    <3> QED BY <3>1, <3>2
  <2> QED BY <2>2, <2>3, <2>4
<1>8. u <= target \/ \E b \in Banks : \E x \in BankPermits(bank[r][b]) : u <= x
  BY <1>2, <1>3 DEF PowerDownTimes
<1>9. op # "REFRESH_END" /\ op # "SREF_ENTRY"
  BY DEF PowerDownEntries
<1>10. Queueable(queue, rank, bank, target, op, r, u)
  BY <1>7, <1>8, <1>9 DEF Queueable
<1>11. Queueable(queue, rank, bank, target, e.op, e.rank, e.time)
  BY <1>5, <1>10
<1>12. TraceOK(Add(queue, e), rank, bank, target)
  BY <1>2, <1>4, <1>5, <1>11, OneQueued
<1> QED BY <1>1, <1>12

LEMMA RankCommandTrace ==
    ASSUME ValidOnly = TRUE, CallDue, BanksWithin(bank', target, tRFC),
           NEW r \in Ranks, RankCommand(r)
    PROVE  TraceOK(queue', rank', bank', target)
<1>1. CASE PREA(r)
  BY <1>1, PrechargeTrace DEF PREA, handlePreAll
<1>2. CASE REFA(r)
  <2>1. rank[r].memState = "NOT_IN_PD" /\ NoPowerOps(queue, r)
    BY <1>2, ValidCommand DEF REFA
  <2> QED BY <1>2, <2>1, EndsQueued DEF REFA, handleRefAll
<1>3. CASE SREFEN(r)
  <2>1. rank[r].memState = "NOT_IN_PD" /\ NoPowerOps(queue, r)
    BY <1>3, ValidCommand DEF SREFEN
  <2> QED BY <1>3, <2>1, SelfRefreshTrace DEF SREFEN
<1>4. CASE SREFEX(r)
  <2>1. /\ rank' = [rank EXCEPT ![r] = SelfRefreshLeft(rank[r], target)]
        /\ bank' = bank /\ queue' = queue
    BY <1>4 DEF SREFEX, handleSelfRefreshExit, SelfRefreshExit
  <2>2. SelfRefreshLeft(rank[r], target).memState = "NOT_IN_PD"
    BY CallDueTypes, RankStates
  <2>3. \A s \in Ranks : rank'[s].memState \in {rank[s].memState, "NOT_IN_PD"}
    BY <2>1, <2>2, CallDueTypes
  <2> QED BY <2>1, <2>3, CallDueTypes, CommandChanges DEF CallDue, StaysClosed
<1>5. CASE PDEA(r)
  <2>1. NoPowerOps(queue, r)
    BY <1>5, ValidCommand DEF PDEA
  <2> QED BY <1>5, <2>1, PowerDownTrace DEF PDEA, handlePowerDownActEntry, PowerDownEntries
<1>6. CASE PDEP(r)
  <2>1. NoPowerOps(queue, r)
    BY <1>6, ValidCommand DEF PDEP
  <2> QED BY <1>6, <2>1, PowerDownTrace DEF PDEP, handlePowerDownPreEntry, PowerDownEntries
<1>7. CASE PDXA(r)
  BY <1>7, PowerDownTrace DEF PDXA, handlePowerDownActExit, PowerDownEntries
<1>8. CASE PDXP(r)
  BY <1>8, PowerDownTrace DEF PDXP, handlePowerDownPreExit, PowerDownEntries
<1> QED BY <1>1, <1>2, <1>3, <1>4, <1>5, <1>6, <1>7, <1>8 DEF RankCommand

LEMMA ServeTrace ==
    ASSUME ValidOnly = TRUE, IInv, TraceInv, Serve
    PROVE  TraceInv'
<1>1. ~Due(queue, target) /\ now' = target
  BY DEF Serve, DoCommand, GetWindowStats, Return
<1>2. target \in Nat /\ now \in Nat /\ now <= target
  BY DEF IInv
<1>3. CallDue
  BY <1>1, <1>2, Later, NothingDue DEF IInv, CoreWithin, CallDue
<1>4. BanksWithin(bank', target, tRFC)
  BY <1>1, ServeStep DEF IInv
<1>5. TraceOK(queue', rank', bank', target)
  <2>1. CASE rank' = rank /\ bank' = bank /\ queue' = queue
    BY <1>3, <1>4, <2>1, CallDueTypes, CommandChanges DEF CallDue, StaysClosed
  <2>2. CASE \E r \in Ranks, b \in Banks : BankCommand(r, b)
    BY <1>3, <1>4, <2>2, BankCommandTrace
  <2>3. CASE \E r \in Ranks : RankCommand(r)
    BY <1>3, <1>4, <2>3, RankCommandTrace
  <2> QED BY <2>1, <2>2, <2>3 DEF Serve, GetWindowStats, coreVars, END_OF_SIMULATION
<1> QED BY <1>1, <1>5 DEF TraceInv

LEMMA InitTrace == Init => TraceInv
<1> SUFFICES ASSUME Init PROVE TraceInv
  OBVIOUS
<1>1. Len(queue) = 0 /\ \A r \in Ranks : rank[r].memState = "NOT_IN_PD"
  BY DEF Init, NewRank
<1>2. \A i \in 1..Len(queue) : FALSE
  BY <1>1
<1> QED BY <1>1, <1>2
        DEF TraceInv, TraceOK, InOrder, EndsAwaited, EntriesAwaited, ClosedBefore,
            PoweredDown, NoEnds

LEMMA NextTrace ==
    ASSUME ValidOnly = TRUE
    PROVE  IInv /\ TraceInv /\ [Next]_vars => TraceInv'
<1> SUFFICES ASSUME IInv, TraceInv, [Next]_vars PROVE TraceInv'
  OBVIOUS
<1>1. CASE \E t \in now..MaxTime : Call(t)
  BY <1>1 DEF Call, TraceInv
<1>2. CASE ExecuteImplicit
  BY <1>2, ImplicitTrace
<1>3. CASE Serve
  BY <1>3, ServeTrace
<1>4. CASE UNCHANGED vars
  BY <1>4 DEF vars, TraceInv
<1> QED BY <1>1, <1>2, <1>3, <1>4 DEF Next
-----------------------------------------------------------------------------
(* The theorems                                                            *)

\* DDR4Core keeps the order of its queue on every valid trace.
THEOREM TraceInvariantHolds ==
    ASSUME ValidOnly = TRUE
    PROVE  Spec => []TraceInv
<1>1. IInv /\ TraceInv /\ [Next]_vars => TraceInv'
  BY NextTrace
<1> QED BY <1>1, InitTrace, InvariantHolds, PTL DEF Spec

\* On a valid trace a rank of DDR4 refreshes itself only with all its banks
\* closed: the ends of the refresh in the queue come before the self-refresh.
THEOREM SelfRefreshAfterRefresh ==
    ASSUME ValidOnly = TRUE
    PROVE  Spec => []SelfRefreshWithBanksClosed
<1>1. TraceInv => SelfRefreshWithBanksClosed
  BY DEF TraceInv, TraceOK, SelfRefreshWithBanksClosed, Closed
<1> QED BY <1>1, TraceInvariantHolds, PTL

\* On a valid trace a rank of DDR4 is powered down only when no bank of it is
\* being refreshed: the delay of a power-down reaches the end of every refresh.
THEOREM PowerDownWaits ==
    ASSUME ValidOnly = TRUE
    PROVE  Spec => []PowerDownAfterRefresh
<1>1. TraceInv => PowerDownAfterRefresh
  BY DEF TraceInv, TraceOK, PowerDownAfterRefresh, PowerDown, PoweredDown, NoEnds,
         RefreshPending
<1> QED BY <1>1, TraceInvariantHolds, PTL

\* On a valid trace an exit from a power-down of DDR4 is executed after its entry,
\* even if it was given before the delayed entry had happened.
THEOREM ExitWaitsForEntry ==
    ASSUME ValidOnly = TRUE
    PROVE  Spec => []ExitAfterEntry
<1>1. TraceInv => ExitAfterEntry
  BY DEF TraceInv, TraceOK, InOrder, OpsInOrder, ExitAfterEntry
<1> QED BY <1>1, TraceInvariantHolds, PTL
-----------------------------------------------------------------------------
(* What the statistics mean on valid traces: a rank is in the state whose  *)
(* interval runs, active cycles are counted while rows are open, every row *)
(* opened is closed once, and the cycles reported are those of PowerStates. *)
(*                                                                         *)
(* A handler changes one rank, its banks and its entries in the queue.     *)
(* The invariant says what these keep together, as a set of entries: their *)
(* order matters only to TraceInv.                                         *)

Entries(q) == {q[i] : i \in 1..Len(q)}
Of(q, r) == {e \in Entries(q) : e.rank = r}

Paired == {<<"PDA_ENTRY", "PDA_EXIT">>, <<"PDA_EXIT", "PDA_ENTRY">>,
           <<"PDP_ENTRY", "PDP_EXIT">>, <<"PDP_EXIT", "PDP_ENTRY">>}

\* Two entries of a rank: a bank has one of them, and of those that change the
\* power state only an entry and its exit wait together.
Apart(e, f) ==
    /\ e.op \in PowerOps /\ f.op \in PowerOps => <<e.op, f.op>> \in Paired
    /\ e.op \in BankOps /\ f.op \in BankOps => e.bank # f.bank

AllApart(q) ==
    \A i, j \in 1..Len(q) : i # j /\ q[i].rank = q[j].rank => Apart(q[i], q[j])
-----------------------------------------------------------------------------
(* What a rank rk, its banks bks and its entries E keep together at time t *)

Queued(E, op) == \E e \in E : e.op = op
EndOf(E, b, t) == \E e \in E : e.op = "REFRESH_END" /\ e.bank = b /\ t <= e.time
EndQueued(E, b) == \E e \in E : e.op = "REFRESH_END" /\ e.bank = b
AllClosed(bks) == \A b \in Banks : ~Active(bks[b])

\* An entry waits for a rank that takes commands, an exit for its entry or in
\* the state it ends.
PowerMatches(E, rk) ==
    /\ Queued(E, "SREF_ENTRY") \/ Queued(E, "PDA_ENTRY") \/ Queued(E, "PDP_ENTRY")
          => rk.memState = "NOT_IN_PD"
    /\ Queued(E, "PDA_EXIT") => Queued(E, "PDA_ENTRY") \/ rk.memState = "PDN_ACT"
    /\ Queued(E, "PDP_EXIT") => Queued(E, "PDP_ENTRY") \/ rk.memState = "PDN_PRE"

BanksBusy(E, bks) == \A e \in E : e.op \in BankOps => Active(bks[e.bank])

\* A refresh that has not ended will.
RefreshesEnd(E, rk, bks, t) ==
    /\ \A b \in Banks : bks[b].refreshEndTime <= t \/ EndOf(E, b, bks[b].refreshEndTime)
    /\ rk.endRefreshTime <= t \/ \E b \in Banks : EndOf(E, b, rk.endRefreshTime)

\* Rows are closed before precharge power-down, and in self-refresh.
ClosedInTime(E, rk, bks) ==
    /\ Queued(E, "PDP_ENTRY") => \A b \in Banks : Active(bks[b]) => EndQueued(E, b)
    /\ rk.memState \in {"PDN_PRE", "SREF"} => AllClosed(bks)

IntervalsMatch(rk, bks) ==
    /\ rk.memState # "DSM" /\ ~IsOpen(rk.deepSleepMode)
    /\ rk.memState = "SREF" <=> IsOpen(rk.sref)
    /\ rk.memState = "PDN_ACT" <=> IsOpen(rk.powerDownAct)
    /\ rk.memState = "PDN_PRE" <=> IsOpen(rk.powerDownPre)
    /\ IsOpen(rk.act) <=> ~AllClosed(bks) /\ ~PoweredDown(rk)
    /\ \A b \in Banks : IsOpen(bks[b].act) <=> Active(bks[b]) /\ ~PoweredDown(rk)

RowsMatch(E, bks) ==
    \A b \in Banks :
        bks[b].counter.act - bks[b].counter.pre
            = IF Active(bks[b]) /\ ~EndQueued(E, b) THEN 1 ELSE 0

RankOK(E, rk, bks, t) ==
    /\ PowerMatches(E, rk) /\ BanksBusy(E, bks) /\ RefreshesEnd(E, rk, bks, t)
    /\ ClosedInTime(E, rk, bks) /\ IntervalsMatch(rk, bks) /\ RowsMatch(E, bks)

StateInv ==
    AllApart(queue) /\ \A r \in Ranks : RankOK(Of(queue, r), rank[r], bank[r], now)
-----------------------------------------------------------------------------
(* What becomes of a rank and its banks in a step                          *)

\* What may become of an interval at time t: no open one starts again.
Follows(i, i2, t) ==
    i2 = i \/ i2 = CloseInterval(i, t) \/ (~IsOpen(i) /\ i2 = StartInterval(i, t))

\* Precharge power-down and self-refresh are entered and left with all rows
\* closed, and only from and to the normal state.
Moved(rk, bks, rk2, bks2) ==
    rk2.memState # rk.memState =>
        /\ "NOT_IN_PD" \in {rk.memState, rk2.memState}
        /\ rk.memState \in {"PDN_PRE", "SREF"} => AllClosed(bks2)
        /\ rk2.memState \in {"PDN_PRE", "SREF"} => AllClosed(bks)

RankFollows(rk, bks, rk2, bks2, t) ==
    /\ Follows(rk.act, rk2.act, t) /\ Follows(rk.sref, rk2.sref, t)
    /\ Follows(rk.powerDownAct, rk2.powerDownAct, t)
    /\ Follows(rk.powerDownPre, rk2.powerDownPre, t)
    /\ rk2.deepSleepMode = rk.deepSleepMode
    /\ \A b \in Banks : Follows(bks[b].act, bks2[b].act, t)
    /\ Moved(rk, bks, rk2, bks2)

\* A rank is as the invariant says, and became so as the code changes it.
RankStep(E, rk, bks, rk2, bks2, t) ==
    RankOK(E, rk2, bks2, t) /\ RankFollows(rk, bks, rk2, bks2, t)

LEMMA Opened ==
    ASSUME NEW t \in Nat, NEW i \in Interval
    PROVE  /\ ~IsOpen(CloseInterval(i, t)) /\ IsOpen(StartInterval(i, t))
           /\ IsOpen(StartIfNotRunning(i, t)) /\ Follows(i, StartIfNotRunning(i, t), t)
<1>1. /\ [i EXCEPT !.end = t, !.count = i.count + (t - i.start)].end = t
      /\ [i EXCEPT !.start = t, !.end = NoTime].start = t
      /\ [i EXCEPT !.start = t, !.end = NoTime].end = NoTime
  BY DEF Interval
<1>2. t # NoTime
  BY DEF NoTime
<1>3. ~IsOpen(CloseInterval(i, t)) /\ IsOpen(StartInterval(i, t))
  BY <1>1, <1>2 DEF IsOpen, CloseInterval, StartInterval
<1> QED BY <1>3 DEF StartIfNotRunning, Follows

\* The handlers' parts that change a bank.
LEMMA BankChanges ==
    ASSUME NEW t \in Nat, NEW bk \in Bank
    PROVE  /\ \A c \in Counters \ {"act", "pre"} :
                 /\ Counted(bk, c).bankState = bk.bankState /\ Counted(bk, c).act = bk.act
                 /\ Counted(bk, c).counter.act = bk.counter.act
                 /\ Counted(bk, c).counter.pre = bk.counter.pre
                 /\ Counted(bk, c).refreshEndTime = bk.refreshEndTime
           /\ Active(bk) =>
                 /\ ~Active(Precharged(bk, t))
                 /\ Precharged(bk, t).act = CloseInterval(bk.act, t)
                 /\ Precharged(bk, t).counter.act = bk.counter.act
                 /\ Precharged(bk, t).counter.pre = bk.counter.pre + 1
                 /\ Precharged(bk, t).refreshEndTime = bk.refreshEndTime
           /\ /\ Active(Activated(bk, t))
              /\ Activated(bk, t).act = StartInterval(bk.act, t)
              /\ Activated(bk, t).counter.act = bk.counter.act + 1
              /\ Activated(bk, t).counter.pre = bk.counter.pre
              /\ Activated(bk, t).refreshEndTime = bk.refreshEndTime
           /\ /\ ~Active(RefreshEnded(bk, t))
              /\ RefreshEnded(bk, t).act = CloseInterval(bk.act, t)
              /\ RefreshEnded(bk, t).counter = bk.counter
              /\ RefreshEnded(bk, t).refreshEndTime = bk.refreshEndTime
           /\ /\ Active(RefreshStarted(bk, t))
              /\ RefreshStarted(bk, t).act = StartIfNotRunning(bk.act, t)
              /\ RefreshStarted(bk, t).counter.act = bk.counter.act
              /\ RefreshStarted(bk, t).counter.pre = bk.counter.pre
              /\ RefreshStarted(bk, t).refreshEndTime = t + tRFC
           /\ /\ ActClosed(bk, t).bankState = bk.bankState
              /\ ActClosed(bk, t).act = CloseInterval(bk.act, t)
              /\ ActClosed(bk, t).counter = bk.counter
              /\ ActClosed(bk, t).refreshEndTime = bk.refreshEndTime
           /\ /\ ActStarted(bk, t).bankState = bk.bankState
              /\ ActStarted(bk, t).act = StartInterval(bk.act, t)
              /\ ActStarted(bk, t).counter = bk.counter
              /\ ActStarted(bk, t).refreshEndTime = bk.refreshEndTime
<1>1. \A c \in Counters : /\ Counted(bk, c) \in Bank /\ Counted(bk, c).bankState = bk.bankState
                          /\ Counted(bk, c).act = bk.act
                          /\ Counted(bk, c).refreshEndTime = bk.refreshEndTime
                          /\ Counted(bk, c).counter[c] = bk.counter[c] + 1
                          /\ \A d \in Counters \ {c} : Counted(bk, c).counter[d] = bk.counter[d]
  <2> SUFFICES ASSUME NEW c \in Counters
               PROVE  /\ Counted(bk, c) \in Bank
                      /\ Counted(bk, c).bankState = bk.bankState
                      /\ Counted(bk, c).act = bk.act
                      /\ Counted(bk, c).refreshEndTime = bk.refreshEndTime
                      /\ Counted(bk, c).counter[c] = bk.counter[c] + 1
                      /\ \A d \in Counters \ {c} : Counted(bk, c).counter[d] = bk.counter[d]
    OBVIOUS
  <2> DEFINE k == [bk.counter EXCEPT ![c] = bk.counter[c] + 1]
  <2>1. /\ k \in [Counters -> Nat] /\ k[c] = bk.counter[c] + 1
        /\ \A d \in Counters \ {c} : k[d] = bk.counter[d]
    BY DEF Bank
  <2>2. Counted(bk, c) = [bk EXCEPT !.counter = k]
    BY DEF Counted
  <2> HIDE DEF k
  <2> QED BY <2>1, <2>2 DEF Bank
<1>2. "act" \in Counters /\ "pre" \in Counters /\ "refAllBank" \in Counters
  BY DEF Counters
<1>3. \A c \in Counters \ {"act", "pre"} :
         /\ Counted(bk, c).counter.act = bk.counter.act
         /\ Counted(bk, c).counter.pre = bk.counter.pre
  BY <1>1, <1>2
<1>4. ASSUME Active(bk)
      PROVE  /\ ~Active(Precharged(bk, t))
             /\ Precharged(bk, t).act = CloseInterval(bk.act, t)
             /\ Precharged(bk, t).counter.act = bk.counter.act
             /\ Precharged(bk, t).counter.pre = bk.counter.pre + 1
             /\ Precharged(bk, t).refreshEndTime = bk.refreshEndTime
  <2> DEFINE c == Counted(bk, "pre")
             p == [c EXCEPT !.bankState = "PRECHARGED",
                            !.act = CloseInterval(c.act, t), !.latestPre = t]
  <2>1. /\ c \in Bank /\ c.act = bk.act /\ c.refreshEndTime = bk.refreshEndTime
        /\ c.counter.act = bk.counter.act /\ c.counter.pre = bk.counter.pre + 1
    BY <1>1, <1>2
  <2>2. Precharged(bk, t) = p
    BY <1>4 DEF Precharged
  <2> HIDE DEF c
  <2>3. /\ p.bankState = "PRECHARGED" /\ p.act = CloseInterval(c.act, t)
        /\ p.counter = c.counter /\ p.refreshEndTime = c.refreshEndTime
    BY <2>1 DEF Bank
  <2> HIDE DEF p
  <2> QED BY <2>1, <2>2, <2>3 DEF Active
<1>5. /\ Active(Activated(bk, t))
      /\ Activated(bk, t).act = StartInterval(bk.act, t)
      /\ Activated(bk, t).counter.act = bk.counter.act + 1
      /\ Activated(bk, t).counter.pre = bk.counter.pre
      /\ Activated(bk, t).refreshEndTime = bk.refreshEndTime
  <2> DEFINE c == Counted(bk, "act")
             a == [c EXCEPT !.bankState = "ACTIVE", !.act = StartInterval(c.act, t)]
  <2>1. /\ c \in Bank /\ c.act = bk.act /\ c.refreshEndTime = bk.refreshEndTime
        /\ c.counter.act = bk.counter.act + 1 /\ c.counter.pre = bk.counter.pre
    BY <1>1, <1>2
  <2>2. Activated(bk, t) = a
    BY DEF Activated
  <2> HIDE DEF c
  <2>3. /\ a.bankState = "ACTIVE" /\ a.act = StartInterval(c.act, t)
        /\ a.counter = c.counter /\ a.refreshEndTime = c.refreshEndTime
    BY <2>1 DEF Bank
  <2> HIDE DEF a
  <2> QED BY <2>1, <2>2, <2>3 DEF Active
<1>6. /\ Active(RefreshStarted(bk, t))
      /\ RefreshStarted(bk, t).act = StartIfNotRunning(bk.act, t)
      /\ RefreshStarted(bk, t).counter.act = bk.counter.act
      /\ RefreshStarted(bk, t).counter.pre = bk.counter.pre
      /\ RefreshStarted(bk, t).refreshEndTime = t + tRFC
  <2> DEFINE c == Counted(bk, "refAllBank")
             a == [c EXCEPT !.bankState = "ACTIVE", !.act = StartIfNotRunning(c.act, t),
                            !.refreshEndTime = t + tRFC]
  <2>1. /\ c \in Bank /\ c.act = bk.act
        /\ c.counter.act = bk.counter.act /\ c.counter.pre = bk.counter.pre
    BY <1>1, <1>2
  <2>2. RefreshStarted(bk, t) = a
    BY DEF RefreshStarted
  <2> HIDE DEF c
  <2>3. /\ a.bankState = "ACTIVE" /\ a.act = StartIfNotRunning(c.act, t)
        /\ a.counter = c.counter /\ a.refreshEndTime = t + tRFC
    BY <2>1 DEF Bank
  <2> HIDE DEF a
  <2> QED BY <2>1, <2>2, <2>3 DEF Active
<1>7. /\ ~Active(RefreshEnded(bk, t))
      /\ RefreshEnded(bk, t).act = CloseInterval(bk.act, t)
      /\ RefreshEnded(bk, t).counter = bk.counter
      /\ RefreshEnded(bk, t).refreshEndTime = bk.refreshEndTime
  BY DEF RefreshEnded, Active, Bank
<1>8. /\ ActClosed(bk, t).bankState = bk.bankState
      /\ ActClosed(bk, t).act = CloseInterval(bk.act, t)
      /\ ActClosed(bk, t).counter = bk.counter
      /\ ActClosed(bk, t).refreshEndTime = bk.refreshEndTime
  BY DEF ActClosed, Bank
<1>9. /\ ActStarted(bk, t).bankState = bk.bankState
      /\ ActStarted(bk, t).act = StartInterval(bk.act, t)
      /\ ActStarted(bk, t).counter = bk.counter
      /\ ActStarted(bk, t).refreshEndTime = bk.refreshEndTime
  BY DEF ActStarted, Bank
<1> QED BY <1>1, <1>3, <1>4, <1>5, <1>6, <1>7, <1>8, <1>9

\* What a handler that concerns only the activity of rank rk leaves alone.
SamePower(rk, rk2) ==
    /\ rk2.memState = rk.memState /\ rk2.sref = rk.sref
    /\ rk2.powerDownAct = rk.powerDownAct /\ rk2.powerDownPre = rk.powerDownPre
    /\ rk2.deepSleepMode = rk.deepSleepMode

\* A rank rk becomes x, with these values.
Becomes(rk, x, memState, act, sref, powerDownAct, powerDownPre) ==
    /\ x.memState = memState /\ x.act = act /\ x.sref = sref
    /\ x.powerDownAct = powerDownAct /\ x.powerDownPre = powerDownPre
    /\ x.deepSleepMode = rk.deepSleepMode /\ x.endRefreshTime = rk.endRefreshTime

\* The handlers' parts that change a rank.
LEMMA RankChanges ==
    ASSUME NEW t \in Nat, NEW rk \in Rank, NEW bks
    PROVE  /\ SamePower(rk, RankIdle(rk, bks, t))
           /\ RankIdle(rk, bks, t).endRefreshTime = rk.endRefreshTime
           /\ RankIdle(rk, bks, t).act
                 = IF IsActive(rk, bks, t) THEN rk.act ELSE CloseInterval(rk.act, t)
           /\ SamePower(rk, RankBusy(rk, t))
           /\ RankBusy(rk, t).endRefreshTime = rk.endRefreshTime
           /\ RankBusy(rk, t).act = StartIfNotRunning(rk.act, t)
           /\ SamePower(rk, RankRefreshing(rk, t))
           /\ RankRefreshing(rk, t).endRefreshTime = t + tRFC
           /\ RankRefreshing(rk, t).act = StartIfNotRunning(rk.act, t)
BY DEF SamePower, RankIdle, RankBusy, RankRefreshing, Rank

LEMMA PowerChanges ==
    ASSUME NEW t \in Nat, NEW rk \in Rank, NEW bks
    PROVE  /\ Becomes(rk, SelfRefreshEntered(rk, t), "SREF", rk.act,
                      StartInterval(rk.sref, t), rk.powerDownAct, rk.powerDownPre)
           /\ Becomes(rk, SelfRefreshLeft(rk, t), "NOT_IN_PD", rk.act,
                      CloseInterval(rk.sref, t), rk.powerDownAct, rk.powerDownPre)
           /\ Becomes(rk, PowerDownActEntered(rk, t), "PDN_ACT", CloseInterval(rk.act, t),
                      rk.sref, StartInterval(rk.powerDownAct, t), rk.powerDownPre)
           /\ Becomes(rk, PowerDownActLeft(rk, bks, t), "NOT_IN_PD",
                      IF IsActive(rk, bks, t) THEN StartInterval(rk.act, t) ELSE rk.act,
                      rk.sref, CloseInterval(rk.powerDownAct, t), rk.powerDownPre)
           /\ Becomes(rk, PowerDownPreEntered(rk, t), "PDN_PRE", CloseInterval(rk.act, t),
                      rk.sref, rk.powerDownAct, StartInterval(rk.powerDownPre, t))
           /\ Becomes(rk, PowerDownPreLeft(rk, t), "NOT_IN_PD", rk.act,
                      rk.sref, rk.powerDownAct, CloseInterval(rk.powerDownPre, t))
<1>1. Becomes(rk, SelfRefreshEntered(rk, t), "SREF", rk.act,
              StartInterval(rk.sref, t), rk.powerDownAct, rk.powerDownPre)
  BY DEF Becomes, SelfRefreshEntered, Rank
<1>2. Becomes(rk, SelfRefreshLeft(rk, t), "NOT_IN_PD", rk.act,
              CloseInterval(rk.sref, t), rk.powerDownAct, rk.powerDownPre)
  BY DEF Becomes, SelfRefreshLeft, Rank
<1>3. Becomes(rk, PowerDownActEntered(rk, t), "PDN_ACT", CloseInterval(rk.act, t),
              rk.sref, StartInterval(rk.powerDownAct, t), rk.powerDownPre)
  BY DEF Becomes, PowerDownActEntered, Rank
<1>4. Becomes(rk, PowerDownActLeft(rk, bks, t), "NOT_IN_PD",
              IF IsActive(rk, bks, t) THEN StartInterval(rk.act, t) ELSE rk.act,
              rk.sref, CloseInterval(rk.powerDownAct, t), rk.powerDownPre)
  BY DEF Becomes, PowerDownActLeft, Rank
<1>5. Becomes(rk, PowerDownPreEntered(rk, t), "PDN_PRE", CloseInterval(rk.act, t),
              rk.sref, rk.powerDownAct, StartInterval(rk.powerDownPre, t))
  BY DEF Becomes, PowerDownPreEntered, Rank
<1>6. Becomes(rk, PowerDownPreLeft(rk, t), "NOT_IN_PD", rk.act,
              rk.sref, rk.powerDownAct, CloseInterval(rk.powerDownPre, t))
  BY DEF Becomes, PowerDownPreLeft, Rank
<1> QED BY <1>1, <1>2, <1>3, <1>4, <1>5, <1>6
-----------------------------------------------------------------------------
(* What an implicit command does to its rank                               *)

Typed(E, rk, bks) == E \subseteq Entry /\ rk \in Rank /\ bks \in [Banks -> Bank]

\* Beyond what is queued no refresh keeps a rank active.
LEMMA RefreshCounted ==
    ASSUME NEW t \in Nat, NEW E, NEW rk \in Rank, NEW bks, NEW bks2,
           RefreshesEnd(E, rk, bks, t), BanksBusy(E, bks2)
    PROVE  IsActive(rk, bks2, t) <=> ~AllClosed(bks2)
<1>1. rk.endRefreshTime \in Nat
  BY DEF Rank, Time
<1>2. CASE rk.endRefreshTime <= t
  BY <1>1, <1>2 DEF IsActive, AllClosed
<1>3. CASE ~(rk.endRefreshTime <= t)
  <2>1. PICK b \in Banks : EndOf(E, b, rk.endRefreshTime)
    BY <1>3 DEF RefreshesEnd
  <2>2. Active(bks2[b])
    BY <2>1 DEF EndOf, BanksBusy, BankOps
  <2> QED BY <2>2 DEF IsActive, AllClosed
<1> QED BY <1>2, <1>3

\* Precharging banks of which nothing is queued any more.
LEMMA PrechargeRank ==
    ASSUME NEW t \in Nat, NEW E, NEW rk, NEW bks, Typed(E, rk, bks), RankOK(E, rk, bks, t),
           NEW bs, bs \subseteq Banks, \A e \in E : e.op \in BankOps => e.bank \notin bs,
           NEW bks2, bks2 = [b \in Banks |-> IF b \in bs THEN Precharged(bks[b], t) ELSE bks[b]],
           NEW rk2, rk2 = IF \E b \in bs : Active(bks[b]) THEN RankIdle(rk, bks2, t) ELSE rk
    PROVE  RankStep(E, rk, bks, rk2, bks2, t)
<1>1. /\ PowerMatches(E, rk) /\ BanksBusy(E, bks) /\ RefreshesEnd(E, rk, bks, t)
      /\ ClosedInTime(E, rk, bks) /\ IntervalsMatch(rk, bks) /\ RowsMatch(E, bks)
      /\ \A b \in Banks : bks[b] \in Bank /\ bks[b].act \in Interval
      /\ rk \in Rank /\ rk.act \in Interval
  BY DEF RankOK, Typed, Bank, Rank
<1>2. \A b \in Banks :
         IF b \in bs /\ Active(bks[b])
         THEN /\ ~Active(bks2[b]) /\ bks2[b].act = CloseInterval(bks[b].act, t)
              /\ bks2[b].counter.act = bks[b].counter.act
              /\ bks2[b].counter.pre = bks[b].counter.pre + 1
              /\ bks2[b].refreshEndTime = bks[b].refreshEndTime
         ELSE bks2[b] = bks[b]
  <2> SUFFICES ASSUME NEW b \in Banks
               PROVE  IF b \in bs /\ Active(bks[b])
                      THEN /\ ~Active(bks2[b]) /\ bks2[b].act = CloseInterval(bks[b].act, t)
                           /\ bks2[b].counter.act = bks[b].counter.act
                           /\ bks2[b].counter.pre = bks[b].counter.pre + 1
                           /\ bks2[b].refreshEndTime = bks[b].refreshEndTime
                      ELSE bks2[b] = bks[b]
    OBVIOUS
  <2>1. bks2[b] = IF b \in bs THEN Precharged(bks[b], t) ELSE bks[b]
    OBVIOUS
  <2> QED BY ZenonT(40), <1>1, <2>1, BankChanges DEF Precharged
<1>3. /\ SamePower(rk, rk2) /\ rk2.endRefreshTime = rk.endRefreshTime
      /\ rk2.act = IF (\E b \in bs : Active(bks[b])) /\ ~IsActive(rk, bks2, t)
                   THEN CloseInterval(rk.act, t) ELSE rk.act
  <2>1. SamePower(rk, rk)
    BY DEF SamePower
  <2> QED BY <1>1, <2>1, RankChanges
<1>4. \A b \in Banks : Active(bks2[b]) <=> Active(bks[b]) /\ b \notin bs
  BY <1>2
<1>5. BanksBusy(E, bks2)
  <2> SUFFICES ASSUME NEW e \in E, e.op \in BankOps PROVE Active(bks2[e.bank])
    BY DEF BanksBusy
  <2>1. e.bank \in Banks /\ e.bank \notin bs
    BY DEF Typed, Entry
  <2> QED BY <1>1, <1>4, <2>1 DEF BanksBusy
<1>6. IsActive(rk, bks2, t) <=> ~AllClosed(bks2)
  BY <1>1, <1>5, RefreshCounted
<1>7. ~IsOpen(CloseInterval(rk.act, t)) /\ \A b \in Banks : ~IsOpen(CloseInterval(bks[b].act, t))
  BY <1>1, Opened
<1>8. PowerMatches(E, rk2)
  BY <1>1, <1>3 DEF PowerMatches, SamePower
<1>9. RefreshesEnd(E, rk2, bks2, t)
  BY <1>1, <1>2, <1>3 DEF RefreshesEnd
<1>10. ClosedInTime(E, rk2, bks2)
  BY <1>1, <1>3, <1>4 DEF ClosedInTime, AllClosed, SamePower
<1>11. IntervalsMatch(rk2, bks2)
  <2>1. \A b \in Banks : IsOpen(bks2[b].act) <=> Active(bks2[b]) /\ ~PoweredDown(rk2)
    BY <1>1, <1>2, <1>3, <1>7 DEF IntervalsMatch, PoweredDown, SamePower
  <2>2. IsOpen(rk2.act) <=> ~AllClosed(bks2) /\ ~PoweredDown(rk2)
    <3>1. PoweredDown(rk2) <=> PoweredDown(rk)
      BY <1>3 DEF PoweredDown, SamePower
    <3>2. AllClosed(bks) => AllClosed(bks2)
      BY <1>4 DEF AllClosed
    <3>3. CASE \E b \in bs : Active(bks[b])
      <4>1. ~AllClosed(bks)
        BY <3>3 DEF AllClosed
      <4> QED BY <1>1, <1>3, <1>6, <1>7, <3>1, <3>3, <4>1 DEF IntervalsMatch
    <3>4. CASE ~\E b \in bs : Active(bks[b])
      <4>1. AllClosed(bks2) <=> AllClosed(bks)
        BY <1>4, <3>4 DEF AllClosed
      <4> QED BY <1>1, <1>3, <3>1, <3>4, <4>1 DEF IntervalsMatch
    <3> QED BY <3>3, <3>4
  <2> QED BY <1>1, <1>3, <2>1, <2>2 DEF IntervalsMatch, SamePower
<1>12. RowsMatch(E, bks2)
  <2> SUFFICES ASSUME NEW b \in Banks
               PROVE  bks2[b].counter.act - bks2[b].counter.pre
                         = IF Active(bks2[b]) /\ ~EndQueued(E, b) THEN 1 ELSE 0
    BY DEF RowsMatch
  <2>1. CASE b \in bs /\ Active(bks[b])
    <3>1. ~EndQueued(E, b)
      BY <2>1 DEF EndQueued, BankOps
    <3>2. bks[b].counter.act - bks[b].counter.pre = 1
      BY <1>1, <2>1, <3>1 DEF RowsMatch
    <3>3. bks[b].counter.act \in Nat /\ bks[b].counter.pre \in Nat
      BY <1>1 DEF Bank, Counters
    <3> QED BY <1>2, <2>1, <3>2, <3>3
  <2>2. CASE ~(b \in bs /\ Active(bks[b]))
    BY <1>1, <1>2, <2>2 DEF RowsMatch
  <2> QED BY <2>1, <2>2
<1>13. RankFollows(rk, bks, rk2, bks2, t)
  BY <1>2, <1>3 DEF RankFollows, Follows, Moved, SamePower
<1> QED BY <1>5, <1>8, <1>9, <1>10, <1>11, <1>12, <1>13 DEF RankStep, RankOK

\* An auto-precharge is no longer queued.
LEMMA AutoPrechargeTaken ==
    ASSUME NEW t \in Nat, NEW F, NEW e, e.op = "AUTO_PRECHARGE", NEW rk, NEW bks,
           RankOK(F \cup {e}, rk, bks, t)
    PROVE  RankOK(F, rk, bks, t)
BY DEF RankOK, PowerMatches, BanksBusy, RefreshesEnd, ClosedInTime, RowsMatch,
       Queued, EndOf, EndQueued

\* The refresh of a bank ends.
LEMMA RefreshEndRank ==
    ASSUME NEW t \in Nat, NEW F, NEW e \in Entry, e.op = "REFRESH_END", e.time = t,
           \A f \in F : Apart(e, f),
           NEW rk, NEW bks, Typed(F, rk, bks), RankOK(F \cup {e}, rk, bks, t),
           NEW bks2, bks2 = [bks EXCEPT ![e.bank] = RefreshEnded(bks[e.bank], t)],
           NEW rk2, rk2 = RankIdle(rk, bks2, t)
    PROVE  RankStep(F, rk, bks, rk2, bks2, t)
<1> DEFINE E == F \cup {e}
           a == e.bank
<1>1. /\ PowerMatches(E, rk) /\ BanksBusy(E, bks) /\ RefreshesEnd(E, rk, bks, t)
      /\ ClosedInTime(E, rk, bks) /\ IntervalsMatch(rk, bks) /\ RowsMatch(E, bks)
      /\ \A b \in Banks : bks[b] \in Bank /\ bks[b].act \in Interval
      /\ rk \in Rank /\ rk.act \in Interval
  BY DEF RankOK, Typed, Bank, Rank
<1>2. a \in Banks /\ Active(bks[a])
  <2>1. a \in Banks
    BY DEF Entry, BankOps
  <2> QED BY <1>1, <2>1 DEF BanksBusy, BankOps
<1>3. /\ ~Active(bks2[a]) /\ bks2[a].act = CloseInterval(bks[a].act, t)
      /\ bks2[a].counter = bks[a].counter /\ bks2[a].refreshEndTime = bks[a].refreshEndTime
      /\ \A b \in Banks \ {a} : bks2[b] = bks[b]
  <2>1. bks2[a] = RefreshEnded(bks[a], t) /\ \A b \in Banks \ {a} : bks2[b] = bks[b]
    BY <1>2 DEF Typed
  <2> QED BY <1>1, <1>2, <2>1, BankChanges
<1>4. /\ SamePower(rk, rk2) /\ rk2.endRefreshTime = rk.endRefreshTime
      /\ rk2.act = IF IsActive(rk, bks2, t) THEN rk.act ELSE CloseInterval(rk.act, t)
  BY <1>1, RankChanges
<1>5. \A f \in F : f.op \in BankOps => f.bank \in Banks \ {a} /\ Active(bks[f.bank])
  <2> SUFFICES ASSUME NEW f \in F, f.op \in BankOps
               PROVE  f.bank \in Banks \ {a} /\ Active(bks[f.bank])
    OBVIOUS
  <2>1. f.bank \in Banks /\ Apart(e, f)
    BY DEF Typed, Entry
  <2> QED BY <1>1, <2>1 DEF Apart, BanksBusy, BankOps
<1>6. BanksBusy(F, bks2)
  BY <1>3, <1>5 DEF BanksBusy
<1>7. \A b \in Banks : EndQueued(E, b) <=> b = a \/ EndQueued(F, b)
  BY DEF EndQueued
<1>8. \A b \in Banks, u \in Nat : EndOf(E, b, u) => u <= t \/ EndOf(F, b, u)
  BY DEF EndOf
<1>9. RefreshesEnd(F, rk2, bks2, t)
  <2>1. rk.endRefreshTime \in Nat /\ \A b \in Banks : bks[b].refreshEndTime \in Nat
    BY <1>1 DEF Rank, Bank, Time
  <2>2. \A b \in Banks : bks2[b].refreshEndTime = bks[b].refreshEndTime
    BY <1>3
  <2> HIDE DEF E
  <2> QED BY <1>1, <1>4, <1>8, <2>1, <2>2 DEF RefreshesEnd
<1>10. IsActive(rk, bks2, t) <=> ~AllClosed(bks2)
  <2>1. RefreshesEnd(F, rk, bks2, t)
    BY <1>4, <1>9 DEF RefreshesEnd
  <2> QED BY <1>1, <1>6, <2>1, RefreshCounted
<1>11. ~IsOpen(CloseInterval(rk.act, t)) /\ ~IsOpen(CloseInterval(bks[a].act, t))
  BY <1>1, <1>2, Opened
<1>12. PowerMatches(F, rk2)
  BY <1>1, <1>4 DEF PowerMatches, Queued, SamePower
<1>13. ClosedInTime(F, rk2, bks2)
  <2>1. Queued(F, "PDP_ENTRY") => Queued(E, "PDP_ENTRY")
    BY DEF Queued
  <2> HIDE DEF E
  <2> QED BY <1>1, <1>3, <1>4, <1>7, <2>1 DEF ClosedInTime, AllClosed, SamePower
<1>14. IntervalsMatch(rk2, bks2)
  <2>1. PoweredDown(rk2) <=> PoweredDown(rk)
    BY <1>4 DEF PoweredDown, SamePower
  <2>2. \A b \in Banks : IsOpen(bks2[b].act) <=> Active(bks2[b]) /\ ~PoweredDown(rk2)
    BY <1>1, <1>2, <1>3, <1>11, <2>1 DEF IntervalsMatch
  <2>3. ~AllClosed(bks)
    BY <1>2 DEF AllClosed
  <2>4. IsOpen(rk2.act) <=> ~AllClosed(bks2) /\ ~PoweredDown(rk2)
    BY <1>1, <1>4, <1>10, <1>11, <2>1, <2>3 DEF IntervalsMatch
  <2> QED BY <1>1, <1>4, <2>2, <2>4 DEF IntervalsMatch, SamePower
<1>15. RowsMatch(F, bks2)
  <2> SUFFICES ASSUME NEW b \in Banks
               PROVE  bks2[b].counter.act - bks2[b].counter.pre
                         = IF Active(bks2[b]) /\ ~EndQueued(F, b) THEN 1 ELSE 0
    BY DEF RowsMatch
  <2>1. CASE b = a
    BY ZenonT(40), <1>1, <1>2, <1>3, <1>7, <2>1 DEF RowsMatch
  <2>2. CASE b # a
    <3> HIDE DEF E
    <3> QED BY <1>1, <1>3, <1>7, <2>2 DEF RowsMatch
  <2> QED BY <2>1, <2>2
<1>16. RankFollows(rk, bks, rk2, bks2, t)
  BY <1>3, <1>4 DEF RankFollows, Follows, Moved, SamePower
<1> QED BY <1>6, <1>9, <1>12, <1>13, <1>14, <1>15, <1>16 DEF RankStep, RankOK

SameBanks(bks, bks2) ==
    \A b \in Banks :
        /\ bks2[b].bankState = bks[b].bankState /\ bks2[b].counter = bks[b].counter
        /\ bks2[b].refreshEndTime = bks[b].refreshEndTime

\* What a change of the power state leaves alone, F being the entries after it.
LEMMA PowerKeeps ==
    ASSUME NEW t \in Nat, NEW E, NEW F, F \subseteq E, \A e \in E : e.op \in BankOps => e \in F,
           NEW rk, NEW bks, Typed(E, rk, bks), RankOK(E, rk, bks, t),
           NEW rk2, NEW bks2, SameBanks(bks, bks2),
           rk2.endRefreshTime = rk.endRefreshTime
    PROVE  /\ BanksBusy(F, bks2) /\ RefreshesEnd(F, rk2, bks2, t) /\ RowsMatch(F, bks2)
           /\ \A b \in Banks : Active(bks2[b]) <=> Active(bks[b])
           /\ AllClosed(bks2) <=> AllClosed(bks)
           /\ \A b \in Banks : EndQueued(F, b) <=> EndQueued(E, b)
<1>1. BanksBusy(E, bks) /\ RefreshesEnd(E, rk, bks, t) /\ RowsMatch(E, bks)
  BY DEF RankOK
<1>2. \A b \in Banks : Active(bks2[b]) <=> Active(bks[b])
  BY DEF SameBanks, Active
<1>3. \A b \in Banks : EndQueued(F, b) <=> EndQueued(E, b)
  BY DEF EndQueued, BankOps
<1>4. \A b \in Banks : \A u : EndOf(E, b, u) => EndOf(F, b, u)
  BY DEF EndOf, BankOps
<1>5. BanksBusy(F, bks2)
  <2> SUFFICES ASSUME NEW f \in F, f.op \in BankOps PROVE Active(bks2[f.bank])
    BY DEF BanksBusy
  <2>1. f \in E /\ f.bank \in Banks
    BY DEF Typed, Entry
  <2> QED BY <1>1, <1>2, <2>1 DEF BanksBusy
<1>6. RefreshesEnd(F, rk2, bks2, t)
  BY <1>1, <1>4 DEF RefreshesEnd, SameBanks
<1>7. RowsMatch(F, bks2)
  BY <1>1, <1>2, <1>3 DEF RowsMatch, SameBanks
<1> QED BY <1>2, <1>3, <1>5, <1>6, <1>7 DEF AllClosed

\* Self-refresh begins, all rows being closed.
LEMMA SelfRefreshEntryRank ==
    ASSUME NEW t \in Nat, NEW F, NEW e \in Entry, e.op = "SREF_ENTRY", \A f \in F : Apart(e, f),
           NEW rk, NEW bks, Typed(F, rk, bks), RankOK(F \cup {e}, rk, bks, t), AllClosed(bks)
    PROVE  RankStep(F, rk, bks, SelfRefreshEntered(rk, t), bks, t)
<1> DEFINE E == F \cup {e}
           rk2 == SelfRefreshEntered(rk, t)
<1>1. /\ PowerMatches(E, rk) /\ IntervalsMatch(rk, bks) /\ Typed(E, rk, bks)
      /\ rk.act \in Interval /\ rk.sref \in Interval
  BY DEF RankOK, Typed, Rank
<1>2. Becomes(rk, rk2, "SREF", rk.act, StartInterval(rk.sref, t), rk.powerDownAct, rk.powerDownPre)
  BY PowerChanges DEF Typed
<1>3. rk.memState = "NOT_IN_PD"
  BY <1>1 DEF PowerMatches, Queued
<1>4. \A f \in F : f.op \notin PowerOps
  BY DEF Apart, PowerOps, Paired
<1>5. /\ BanksBusy(F, bks) /\ RefreshesEnd(F, rk2, bks, t) /\ RowsMatch(F, bks)
  <2>1. F \subseteq E /\ (\A f \in E : f.op \in BankOps => f \in F) /\ SameBanks(bks, bks)
    BY DEF BankOps, SameBanks
  <2> HIDE DEF E, rk2
  <2> QED BY <1>1, <1>2, <2>1, PowerKeeps DEF Becomes, E
<1>6. ~IsOpen(rk.sref) /\ ~IsOpen(rk.act) /\ IsOpen(StartInterval(rk.sref, t))
  BY <1>1, <1>3, Opened DEF IntervalsMatch
<1> HIDE DEF rk2
<1>7. PowerMatches(F, rk2)
  BY <1>4 DEF PowerMatches, Queued, PowerOps
<1>8. ClosedInTime(F, rk2, bks)
  BY <1>4 DEF ClosedInTime, Queued, PowerOps
<1>9. IntervalsMatch(rk2, bks)
  BY <1>1, <1>2, <1>3, <1>6 DEF IntervalsMatch, Becomes, PoweredDown
<1>10. RankFollows(rk, bks, rk2, bks, t)
  BY <1>2, <1>3, <1>6 DEF RankFollows, Follows, Moved, Becomes
<1> QED BY <1>5, <1>7, <1>8, <1>9, <1>10 DEF RankStep, RankOK, rk2

\* Active power-down begins.
LEMMA PowerDownActEntryRank ==
    ASSUME NEW t \in Nat, NEW F, NEW e \in Entry, e.op = "PDA_ENTRY", \A f \in F : Apart(e, f),
           NEW rk, NEW bks, Typed(F, rk, bks), RankOK(F \cup {e}, rk, bks, t),
           NEW bks2, bks2 = [b \in Banks |-> ActClosed(bks[b], t)]
    PROVE  RankStep(F, rk, bks, PowerDownActEntered(rk, t), bks2, t)
<1> DEFINE E == F \cup {e}
           rk2 == PowerDownActEntered(rk, t)
<1>1. /\ PowerMatches(E, rk) /\ IntervalsMatch(rk, bks) /\ Typed(E, rk, bks)
      /\ rk.act \in Interval /\ rk.powerDownAct \in Interval
      /\ \A b \in Banks : bks[b] \in Bank /\ bks[b].act \in Interval
  BY DEF RankOK, Typed, Rank, Bank
<1>2. Becomes(rk, rk2, "PDN_ACT", CloseInterval(rk.act, t), rk.sref,
              StartInterval(rk.powerDownAct, t), rk.powerDownPre)
  BY PowerChanges DEF Typed
<1>3. rk.memState = "NOT_IN_PD"
  BY <1>1 DEF PowerMatches, Queued
<1>4. \A f \in F : f.op \in PowerOps => f.op = "PDA_EXIT"
  BY DEF Apart, PowerOps, Paired
<1>5. SameBanks(bks, bks2) /\ \A b \in Banks : bks2[b].act = CloseInterval(bks[b].act, t)
  BY <1>1, BankChanges DEF SameBanks
<1>6. /\ BanksBusy(F, bks2) /\ RefreshesEnd(F, rk2, bks2, t) /\ RowsMatch(F, bks2)
  <2>1. F \subseteq E /\ (\A f \in E : f.op \in BankOps => f \in F)
    BY DEF BankOps
  <2> HIDE DEF E, rk2
  <2> QED BY <1>1, <1>2, <1>5, <2>1, PowerKeeps DEF Becomes, E
<1>7. /\ ~IsOpen(CloseInterval(rk.act, t)) /\ IsOpen(StartInterval(rk.powerDownAct, t))
      /\ ~IsOpen(rk.powerDownAct) /\ \A b \in Banks : ~IsOpen(CloseInterval(bks[b].act, t))
  BY <1>1, <1>3, Opened DEF IntervalsMatch
<1> HIDE DEF rk2
<1>8. PowerMatches(F, rk2)
  BY <1>2, <1>4 DEF PowerMatches, Queued, PowerOps, Becomes
<1>9. ClosedInTime(F, rk2, bks2)
  BY <1>2, <1>4 DEF ClosedInTime, Queued, PowerOps, Becomes
<1>10. IntervalsMatch(rk2, bks2)
  BY <1>1, <1>2, <1>3, <1>5, <1>7 DEF IntervalsMatch, Becomes, PoweredDown
<1>11. RankFollows(rk, bks, rk2, bks2, t)
  BY <1>2, <1>3, <1>5, <1>7 DEF RankFollows, Follows, Moved, Becomes
<1> QED BY <1>6, <1>8, <1>9, <1>10, <1>11 DEF RankStep, RankOK, rk2

\* Precharge power-down begins, all refreshes having ended.
LEMMA PowerDownPreEntryRank ==
    ASSUME NEW t \in Nat, NEW F, NEW e \in Entry, e.op = "PDP_ENTRY", \A f \in F : Apart(e, f),
           \A f \in F : f.op # "REFRESH_END",
           NEW rk, NEW bks, Typed(F, rk, bks), RankOK(F \cup {e}, rk, bks, t),
           NEW bks2, bks2 = [b \in Banks |-> ActClosed(bks[b], t)]
    PROVE  RankStep(F, rk, bks, PowerDownPreEntered(rk, t), bks2, t)
<1> DEFINE E == F \cup {e}
           rk2 == PowerDownPreEntered(rk, t)
<1>1. /\ PowerMatches(E, rk) /\ IntervalsMatch(rk, bks) /\ Typed(E, rk, bks)
      /\ ClosedInTime(E, rk, bks)
      /\ rk.act \in Interval /\ rk.powerDownPre \in Interval
      /\ \A b \in Banks : bks[b] \in Bank /\ bks[b].act \in Interval
  BY DEF RankOK, Typed, Rank, Bank
<1>2. Becomes(rk, rk2, "PDN_PRE", CloseInterval(rk.act, t), rk.sref,
              rk.powerDownAct, StartInterval(rk.powerDownPre, t))
  BY PowerChanges DEF Typed
<1>3. rk.memState = "NOT_IN_PD"
  BY <1>1 DEF PowerMatches, Queued
<1>4. \A f \in F : f.op \in PowerOps => f.op = "PDP_EXIT"
  BY DEF Apart, PowerOps, Paired
<1>5. SameBanks(bks, bks2) /\ \A b \in Banks : bks2[b].act = CloseInterval(bks[b].act, t)
  BY <1>1, BankChanges DEF SameBanks
<1>6. AllClosed(bks)
  <2>1. Queued(E, "PDP_ENTRY") /\ \A b \in Banks : ~EndQueued(E, b)
    BY DEF Queued, EndQueued
  <2> QED BY <1>1, <2>1 DEF ClosedInTime, AllClosed
<1>7. /\ BanksBusy(F, bks2) /\ RefreshesEnd(F, rk2, bks2, t) /\ RowsMatch(F, bks2)
      /\ AllClosed(bks2)
  <2>1. F \subseteq E /\ (\A f \in E : f.op \in BankOps => f \in F)
    BY DEF BankOps
  <2> HIDE DEF E, rk2
  <2> QED BY <1>1, <1>2, <1>5, <1>6, <2>1, PowerKeeps DEF Becomes, E
<1>8. /\ ~IsOpen(CloseInterval(rk.act, t)) /\ IsOpen(StartInterval(rk.powerDownPre, t))
      /\ ~IsOpen(rk.powerDownPre) /\ \A b \in Banks : ~IsOpen(CloseInterval(bks[b].act, t))
  BY <1>1, <1>3, Opened DEF IntervalsMatch
<1> HIDE DEF rk2
<1>9. PowerMatches(F, rk2)
  BY <1>2, <1>4 DEF PowerMatches, Queued, PowerOps, Becomes
<1>10. ClosedInTime(F, rk2, bks2)
  BY <1>4, <1>7 DEF ClosedInTime, Queued, PowerOps
<1>11. IntervalsMatch(rk2, bks2)
  BY <1>1, <1>2, <1>3, <1>5, <1>8 DEF IntervalsMatch, Becomes, PoweredDown
<1>12. RankFollows(rk, bks, rk2, bks2, t)
  BY <1>2, <1>3, <1>5, <1>6, <1>8 DEF RankFollows, Follows, Moved, Becomes
<1> QED BY <1>7, <1>9, <1>10, <1>11, <1>12 DEF RankStep, RankOK, rk2

LEMMA ReactivatedBanks ==
    ASSUME NEW t \in Nat, NEW bks, \A b \in Banks : bks[b] \in Bank
    PROVE  /\ SameBanks(bks, Reactivated(bks, t))
           /\ \A b \in Banks : Reactivated(bks, t)[b].act
                 = IF Active(bks[b]) THEN StartInterval(bks[b].act, t) ELSE bks[b].act
BY ZenonT(40), BankChanges DEF Reactivated, SameBanks

\* Active power-down ends.
LEMMA PowerDownActExitRank ==
    ASSUME NEW t \in Nat, NEW F, NEW e \in Entry, e.op = "PDA_EXIT", \A f \in F : Apart(e, f),
           \A f \in F : f.op # "PDA_ENTRY",
           NEW rk, NEW bks, Typed(F, rk, bks), RankOK(F \cup {e}, rk, bks, t),
           NEW bks2, bks2 = Reactivated(bks, t)
    PROVE  RankStep(F, rk, bks, PowerDownActLeft(rk, bks2, t), bks2, t)
<1> DEFINE E == F \cup {e}
           rk2 == PowerDownActLeft(rk, bks2, t)
<1>1. /\ PowerMatches(E, rk) /\ IntervalsMatch(rk, bks) /\ Typed(E, rk, bks)
      /\ rk \in Rank /\ rk.act \in Interval /\ rk.powerDownAct \in Interval
      /\ \A b \in Banks : bks[b] \in Bank /\ bks[b].act \in Interval
  BY DEF RankOK, Typed, Rank, Bank
<1>2. Becomes(rk, rk2, "NOT_IN_PD",
              IF IsActive(rk, bks2, t) THEN StartInterval(rk.act, t) ELSE rk.act,
              rk.sref, CloseInterval(rk.powerDownAct, t), rk.powerDownPre)
  BY <1>1, PowerChanges
<1>3. rk.memState = "PDN_ACT"
  BY <1>1 DEF PowerMatches, Queued
<1>4. \A f \in F : f.op \notin PowerOps
  BY DEF Apart, PowerOps, Paired
<1>5. /\ SameBanks(bks, bks2)
      /\ \A b \in Banks : bks2[b].act
            = IF Active(bks[b]) THEN StartInterval(bks[b].act, t) ELSE bks[b].act
  BY <1>1, ReactivatedBanks
<1>6. /\ BanksBusy(F, bks2) /\ RefreshesEnd(F, rk2, bks2, t) /\ RowsMatch(F, bks2)
      /\ \A b \in Banks : Active(bks2[b]) <=> Active(bks[b])
  <2>1. F \subseteq E /\ (\A f \in E : f.op \in BankOps => f \in F) /\ RankOK(E, rk, bks, t)
    BY DEF BankOps
  <2>2. rk2.endRefreshTime = rk.endRefreshTime
    BY <1>2 DEF Becomes
  <2>3. Typed(E, rk, bks) /\ SameBanks(bks, bks2)
    BY <1>1, <1>5
  <2> HIDE DEF E, rk2
  <2> QED BY <2>1, <2>2, <2>3, PowerKeeps
<1>7. /\ ~IsOpen(rk.act) /\ \A b \in Banks : ~IsOpen(bks[b].act)
      /\ IsOpen(StartInterval(rk.act, t)) /\ ~IsOpen(CloseInterval(rk.powerDownAct, t))
      /\ \A b \in Banks : IsOpen(StartInterval(bks[b].act, t))
  BY <1>1, <1>3, Opened DEF IntervalsMatch, PoweredDown
<1> HIDE DEF rk2
<1>8. IsActive(rk, bks2, t) <=> ~AllClosed(bks2)
  <2>1. RefreshesEnd(F, rk, bks2, t)
    BY <1>2, <1>6 DEF RefreshesEnd, Becomes
  <2> QED BY <1>1, <1>6, <2>1, RefreshCounted
<1>9. PowerMatches(F, rk2)
  BY <1>4 DEF PowerMatches, Queued, PowerOps
<1>10. ClosedInTime(F, rk2, bks2)
  BY <1>2, <1>4 DEF ClosedInTime, Queued, PowerOps, Becomes
<1>11. IntervalsMatch(rk2, bks2)
  BY <1>1, <1>2, <1>3, <1>5, <1>6, <1>7, <1>8 DEF IntervalsMatch, Becomes, PoweredDown
<1>12. RankFollows(rk, bks, rk2, bks2, t)
  BY <1>2, <1>3, <1>5, <1>7 DEF RankFollows, Follows, Moved, Becomes
<1> QED BY <1>6, <1>9, <1>10, <1>11, <1>12 DEF RankStep, RankOK, rk2

\* Precharge power-down ends, all rows being closed.
LEMMA PowerDownPreExitRank ==
    ASSUME NEW t \in Nat, NEW F, NEW e \in Entry, e.op = "PDP_EXIT", \A f \in F : Apart(e, f),
           \A f \in F : f.op # "PDP_ENTRY",
           NEW rk, NEW bks, Typed(F, rk, bks), RankOK(F \cup {e}, rk, bks, t),
           NEW bks2, bks2 = Reactivated(bks, t)
    PROVE  RankStep(F, rk, bks, PowerDownPreLeft(rk, t), bks2, t)
<1> DEFINE E == F \cup {e}
           rk2 == PowerDownPreLeft(rk, t)
<1>1. /\ PowerMatches(E, rk) /\ IntervalsMatch(rk, bks) /\ Typed(E, rk, bks)
      /\ ClosedInTime(E, rk, bks)
      /\ rk \in Rank /\ rk.powerDownPre \in Interval
      /\ \A b \in Banks : bks[b] \in Bank /\ bks[b].act \in Interval
  BY DEF RankOK, Typed, Rank, Bank
<1>2. Becomes(rk, rk2, "NOT_IN_PD", rk.act, rk.sref, rk.powerDownAct,
              CloseInterval(rk.powerDownPre, t))
  BY <1>1, PowerChanges
<1>3. rk.memState = "PDN_PRE" /\ AllClosed(bks)
  BY <1>1 DEF PowerMatches, Queued, ClosedInTime
<1>4. \A f \in F : f.op \notin PowerOps
  BY DEF Apart, PowerOps, Paired
<1>5. /\ SameBanks(bks, bks2)
      /\ \A b \in Banks : bks2[b].act = bks[b].act
  BY <1>1, <1>3, ReactivatedBanks DEF AllClosed
<1>6. /\ BanksBusy(F, bks2) /\ RefreshesEnd(F, rk2, bks2, t) /\ RowsMatch(F, bks2)
      /\ \A b \in Banks : Active(bks2[b]) <=> Active(bks[b])
      /\ AllClosed(bks2)
  <2>1. F \subseteq E /\ (\A f \in E : f.op \in BankOps => f \in F) /\ RankOK(E, rk, bks, t)
    BY DEF BankOps
  <2>2. rk2.endRefreshTime = rk.endRefreshTime
    BY <1>2 DEF Becomes
  <2> HIDE DEF E, rk2
  <2> QED BY ZenonT(40), <1>1, <1>3, <1>5, <2>1, <2>2, PowerKeeps
<1>7. ~IsOpen(CloseInterval(rk.powerDownPre, t))
  BY <1>1, Opened
<1> HIDE DEF rk2
<1>8. PowerMatches(F, rk2)
  BY <1>4 DEF PowerMatches, Queued, PowerOps
<1>9. ClosedInTime(F, rk2, bks2)
  BY <1>6 DEF ClosedInTime, AllClosed
<1>10. IntervalsMatch(rk2, bks2)
  BY <1>1, <1>2, <1>3, <1>5, <1>6, <1>7 DEF IntervalsMatch, Becomes, PoweredDown, AllClosed
<1>11. RankFollows(rk, bks, rk2, bks2, t)
  BY <1>2, <1>3, <1>5, <1>6 DEF RankFollows, Follows, Moved, Becomes
<1> QED BY <1>6, <1>8, <1>9, <1>10, <1>11 DEF RankStep, RankOK, rk2
-----------------------------------------------------------------------------
(* What a command does to its rank                                         *)

\* SREFEX, also one given before the self-refresh began.
LEMMA SelfRefreshExitRank ==
    ASSUME NEW t \in Nat, NEW E, NEW rk, NEW bks, Typed(E, rk, bks), RankOK(E, rk, bks, t),
           rk.memState = "SREF" \/ Queued(E, "SREF_ENTRY")
    PROVE  RankStep(E, rk, bks, SelfRefreshLeft(rk, t), bks, t)
<1> DEFINE rk2 == SelfRefreshLeft(rk, t)
<1>1. /\ PowerMatches(E, rk) /\ IntervalsMatch(rk, bks) /\ ClosedInTime(E, rk, bks)
      /\ rk \in Rank /\ rk.sref \in Interval
  BY DEF RankOK, Typed, Rank
<1>2. Becomes(rk, rk2, "NOT_IN_PD", rk.act, CloseInterval(rk.sref, t), rk.powerDownAct,
              rk.powerDownPre)
  BY <1>1, PowerChanges
<1>3. rk.memState \in {"SREF", "NOT_IN_PD"}
  BY <1>1 DEF PowerMatches
<1>4. /\ BanksBusy(E, bks) /\ RefreshesEnd(E, rk2, bks, t) /\ RowsMatch(E, bks)
  BY <1>2 DEF RankOK, RefreshesEnd, Becomes
<1>5. ~IsOpen(CloseInterval(rk.sref, t))
  BY <1>1, Opened
<1> HIDE DEF rk2
<1>6. PowerMatches(E, rk2)
  BY <1>1, <1>2, <1>3 DEF PowerMatches, Becomes
<1>7. ClosedInTime(E, rk2, bks)
  BY <1>1, <1>2 DEF ClosedInTime, Becomes
<1>8. IntervalsMatch(rk2, bks)
  BY <1>1, <1>2, <1>3, <1>5 DEF IntervalsMatch, Becomes, PoweredDown
<1>9. RankFollows(rk, bks, rk2, bks, t)
  BY <1>1, <1>2, <1>3 DEF RankFollows, Follows, Moved, Becomes, ClosedInTime
<1> QED BY <1>4, <1>6, <1>7, <1>8, <1>9 DEF RankStep, RankOK, rk2

\* ACT of a bank that is closed.
LEMMA ActRank ==
    ASSUME NEW t \in Nat, NEW E, NEW rk, NEW bks, Typed(E, rk, bks), RankOK(E, rk, bks, t),
           rk.memState = "NOT_IN_PD", \A e \in E : e.op \notin PowerOps,
           NEW a \in Banks, ~Active(bks[a]),
           NEW bks2, bks2 = [bks EXCEPT ![a] = Activated(bks[a], t)]
    PROVE  RankStep(E, rk, bks, RankBusy(rk, t), bks2, t)
<1> DEFINE rk2 == RankBusy(rk, t)
<1>1. /\ BanksBusy(E, bks) /\ RefreshesEnd(E, rk, bks, t)
      /\ IntervalsMatch(rk, bks) /\ RowsMatch(E, bks)
      /\ \A b \in Banks : bks[b] \in Bank /\ bks[b].act \in Interval
      /\ rk \in Rank /\ rk.act \in Interval
  BY DEF RankOK, Typed, Bank, Rank
<1>2. /\ Active(bks2[a]) /\ bks2[a].act = StartInterval(bks[a].act, t)
      /\ bks2[a].counter.act = bks[a].counter.act + 1
      /\ bks2[a].counter.pre = bks[a].counter.pre
      /\ bks2[a].refreshEndTime = bks[a].refreshEndTime
      /\ \A b \in Banks \ {a} : bks2[b] = bks[b]
  <2>1. bks2[a] = Activated(bks[a], t) /\ \A b \in Banks \ {a} : bks2[b] = bks[b]
    BY DEF Typed
  <2> QED BY <1>1, <2>1, BankChanges
<1>3. /\ SamePower(rk, rk2) /\ rk2.endRefreshTime = rk.endRefreshTime
      /\ rk2.act = StartIfNotRunning(rk.act, t)
  BY <1>1, RankChanges
<1>4. /\ IsOpen(rk2.act) /\ Follows(rk.act, rk2.act, t)
      /\ IsOpen(StartInterval(bks[a].act, t)) /\ ~IsOpen(bks[a].act)
  BY <1>1, <1>3, Opened DEF IntervalsMatch
<1> HIDE DEF rk2
<1>5. BanksBusy(E, bks2)
  <2> SUFFICES ASSUME NEW e \in E, e.op \in BankOps PROVE Active(bks2[e.bank])
    BY DEF BanksBusy
  <2>1. e.bank \in Banks
    BY DEF Typed, Entry
  <2> QED BY <1>1, <1>2, <2>1 DEF BanksBusy
<1>6. PowerMatches(E, rk2) /\ ClosedInTime(E, rk2, bks2)
  BY <1>3 DEF PowerMatches, ClosedInTime, Queued, PowerOps, SamePower
<1>7. RefreshesEnd(E, rk2, bks2, t)
  BY <1>1, <1>2, <1>3 DEF RefreshesEnd
<1>8. IntervalsMatch(rk2, bks2)
  <2>1. ~AllClosed(bks2) /\ ~PoweredDown(rk2) /\ ~PoweredDown(rk)
    BY <1>2, <1>3 DEF AllClosed, PoweredDown, SamePower
  <2>2. \A b \in Banks : IsOpen(bks2[b].act) <=> Active(bks2[b])
    BY <1>1, <1>2, <1>4, <2>1 DEF IntervalsMatch
  <2> QED BY <1>1, <1>3, <1>4, <2>1, <2>2 DEF IntervalsMatch, SamePower
<1>9. RowsMatch(E, bks2)
  <2> SUFFICES ASSUME NEW b \in Banks
               PROVE  bks2[b].counter.act - bks2[b].counter.pre
                         = IF Active(bks2[b]) /\ ~EndQueued(E, b) THEN 1 ELSE 0
    BY DEF RowsMatch
  <2>1. CASE b = a
    <3>1. ~EndQueued(E, a)
      BY <1>1 DEF EndQueued, BanksBusy, BankOps
    <3>2. bks[a].counter.act - bks[a].counter.pre = 0
      BY <1>1 DEF RowsMatch
    <3>3. bks[a].counter.act \in Nat /\ bks[a].counter.pre \in Nat
      BY <1>1 DEF Bank, Counters
    <3> QED BY <1>2, <2>1, <3>1, <3>2, <3>3
  <2>2. CASE b # a
    BY <1>1, <1>2, <2>2 DEF RowsMatch
  <2> QED BY <2>1, <2>2
<1>10. RankFollows(rk, bks, rk2, bks2, t)
  BY <1>2, <1>3, <1>4 DEF RankFollows, Follows, Moved, SamePower
<1> QED BY <1>5, <1>6, <1>7, <1>8, <1>9, <1>10 DEF RankStep, RankOK, rk2

\* RD, WR, RDA and WRA, their auto-precharge apart.
LEMMA CountRank ==
    ASSUME NEW t \in Nat, NEW E, NEW rk, NEW bks, Typed(E, rk, bks), RankOK(E, rk, bks, t),
           NEW a \in Banks, NEW c \in Counters \ {"act", "pre"},
           NEW bks2, bks2 = [bks EXCEPT ![a] = Counted(bks[a], c)]
    PROVE  RankStep(E, rk, bks, rk, bks2, t)
<1>1. \A b \in Banks : bks[b] \in Bank
  BY DEF Typed
<1>2. \A b \in Banks : /\ bks2[b].bankState = bks[b].bankState /\ bks2[b].act = bks[b].act
                       /\ bks2[b].counter.act = bks[b].counter.act
                       /\ bks2[b].counter.pre = bks[b].counter.pre
                       /\ bks2[b].refreshEndTime = bks[b].refreshEndTime
  <2>1. bks2[a] = Counted(bks[a], c) /\ \A b \in Banks \ {a} : bks2[b] = bks[b]
    BY DEF Typed
  <2> QED BY <1>1, <2>1, BankChanges
<1>3. \A b \in Banks : Active(bks2[b]) <=> Active(bks[b])
  BY <1>2 DEF Active
<1>4. BanksBusy(E, bks2)
  <2> SUFFICES ASSUME NEW e \in E, e.op \in BankOps PROVE Active(bks2[e.bank])
    BY DEF BanksBusy
  <2>1. e.bank \in Banks
    BY DEF Typed, Entry
  <2> QED BY <1>3, <2>1 DEF BanksBusy, RankOK
<1>5. RefreshesEnd(E, rk, bks2, t) /\ ClosedInTime(E, rk, bks2)
  BY <1>2, <1>3 DEF RankOK, RefreshesEnd, ClosedInTime, AllClosed
<1>6. IntervalsMatch(rk, bks2)
  BY <1>2, <1>3 DEF RankOK, IntervalsMatch, AllClosed
<1>7. RowsMatch(E, bks2)
  BY <1>2, <1>3 DEF RankOK, RowsMatch
<1>8. RankFollows(rk, bks, rk, bks2, t)
  BY <1>2 DEF RankFollows, Follows, Moved
<1> QED BY <1>4, <1>5, <1>6, <1>7, <1>8 DEF RankStep, RankOK

\* An auto-precharge of a bank with an open row is queued.
LEMMA AutoPrechargeQueued ==
    ASSUME NEW t \in Nat, NEW E, NEW e, e.op = "AUTO_PRECHARGE", NEW rk, NEW bks,
           RankOK(E, rk, bks, t), Active(bks[e.bank])
    PROVE  RankOK(E \cup {e}, rk, bks, t)
BY DEF RankOK, PowerMatches, BanksBusy, RefreshesEnd, ClosedInTime, RowsMatch,
       Queued, EndOf, EndQueued

\* PDEA, PDEP, PDXA and PDXP.
LEMMA PowerDownQueued ==
    ASSUME NEW t \in Nat, NEW E, NEW e, e.op \in PowerOps, NEW rk, NEW bks,
           RankOK(E, rk, bks, t), PowerMatches(E \cup {e}, rk),
           e.op = "PDP_ENTRY" => \A b \in Banks : Active(bks[b]) => EndQueued(E, b)
    PROVE  RankStep(E \cup {e}, rk, bks, rk, bks, t)
<1>1. e.op # "REFRESH_END" /\ e.op \notin BankOps
  BY DEF PowerOps, BankOps
<1>2. \A b \in Banks : EndQueued(E \cup {e}, b) <=> EndQueued(E, b)
  BY <1>1 DEF EndQueued
<1>3. \A b \in Banks : \A u : EndOf(E \cup {e}, b, u) <=> EndOf(E, b, u)
  BY <1>1 DEF EndOf
<1>4. BanksBusy(E \cup {e}, bks)
  BY <1>1 DEF RankOK, BanksBusy
<1>5. RefreshesEnd(E \cup {e}, rk, bks, t)
  BY <1>3 DEF RankOK, RefreshesEnd
<1>6. ClosedInTime(E \cup {e}, rk, bks)
  BY <1>2 DEF RankOK, ClosedInTime, Queued
<1>7. RowsMatch(E \cup {e}, bks)
  BY <1>2 DEF RankOK, RowsMatch
<1>8. RankFollows(rk, bks, rk, bks, t)
  BY DEF RankFollows, Follows, Moved
<1> QED BY <1>4, <1>5, <1>6, <1>7, <1>8 DEF RankOK, RankStep

\* Nothing is queued for a rank that takes commands and has all rows closed.
LEMMA NothingQueued ==
    ASSUME NEW t \in Nat, NEW E, NEW rk, NEW bks, Typed(E, rk, bks), RankOK(E, rk, bks, t),
           AllClosed(bks), \A e \in E : e.op \notin PowerOps
    PROVE  E = {}
<1> SUFFICES ASSUME NEW e \in E PROVE FALSE
  OBVIOUS
<1>1. e.op \in BankOps /\ e.bank \in Banks
  BY DEF Typed, Entry, ImplicitOps, BankOps, PowerOps
<1> QED BY <1>1 DEF RankOK, BanksBusy, AllClosed

\* REFA and SREFEN, E2 being what they queue.
LEMMA RefreshRank ==
    ASSUME NEW t \in Nat, NEW E, NEW rk, NEW bks, Typed(E, rk, bks), RankOK(E, rk, bks, t),
           rk.memState = "NOT_IN_PD", AllClosed(bks),
           NEW E2, E2 \subseteq Entry, \A e \in E2 : e.op \in {"REFRESH_END", "SREF_ENTRY"},
           \A b \in Banks : \E e \in E2 :
               e.op = "REFRESH_END" /\ e.bank = b /\ e.time = t + tRFC,
           NEW bks2, bks2 = [b \in Banks |-> RefreshStarted(bks[b], t)],
           \A e \in E : e.op \notin PowerOps
    PROVE  RankStep(E2, rk, bks, RankRefreshing(rk, t), bks2, t)
<1> DEFINE rk2 == RankRefreshing(rk, t)
<1>1. /\ BanksBusy(E, bks) /\ IntervalsMatch(rk, bks) /\ RowsMatch(E, bks)
      /\ \A b \in Banks : bks[b] \in Bank /\ bks[b].act \in Interval
      /\ rk \in Rank /\ rk.act \in Interval
  BY DEF RankOK, Typed, Bank, Rank
<1>2. E = {} /\ t + tRFC \in Nat /\ 0 \in Banks
  BY NothingQueued, RefreshLength, SizeAssumption DEF SizeAssumption, Banks
<1>3. \A b \in Banks :
         /\ Active(bks2[b]) /\ bks2[b].act = StartIfNotRunning(bks[b].act, t)
         /\ bks2[b].counter.act = bks[b].counter.act
         /\ bks2[b].counter.pre = bks[b].counter.pre
         /\ bks2[b].refreshEndTime = t + tRFC
  <2>1. \A b \in Banks : bks2[b] = RefreshStarted(bks[b], t)
    OBVIOUS
  <2> QED BY <1>1, <2>1, BankChanges
<1>4. /\ SamePower(rk, rk2) /\ rk2.endRefreshTime = t + tRFC
      /\ rk2.act = StartIfNotRunning(rk.act, t)
  BY <1>1, RankChanges
<1>5. /\ IsOpen(rk2.act) /\ Follows(rk.act, rk2.act, t)
      /\ \A b \in Banks : IsOpen(bks2[b].act) /\ Follows(bks[b].act, bks2[b].act, t)
  BY <1>1, <1>3, <1>4, Opened
<1> HIDE DEF rk2
<1>6. \A b \in Banks : EndQueued(E2, b) /\ EndOf(E2, b, t + tRFC)
  <2> TAKE b \in Banks
  <2>1. PICK e \in E2 : e.op = "REFRESH_END" /\ e.bank = b /\ e.time = t + tRFC
    OBVIOUS
  <2>2. t + tRFC <= e.time
    BY <1>2, <2>1
  <2> QED BY <2>1, <2>2 DEF EndQueued, EndOf
<1>7. BanksBusy(E2, bks2)
  BY <1>3 DEF BanksBusy, Entry
<1>8. RefreshesEnd(E2, rk2, bks2, t)
  BY <1>2, <1>3, <1>4, <1>6 DEF RefreshesEnd
<1>9. PowerMatches(E2, rk2) /\ ClosedInTime(E2, rk2, bks2)
  BY <1>4 DEF PowerMatches, ClosedInTime, Queued, SamePower
<1>10. IntervalsMatch(rk2, bks2)
  BY <1>1, <1>2, <1>3, <1>4, <1>5 DEF IntervalsMatch, SamePower, AllClosed, PoweredDown
<1>11. RowsMatch(E2, bks2)
  BY <1>1, <1>3, <1>6 DEF RowsMatch, AllClosed
<1>12. RankFollows(rk, bks, rk2, bks2, t)
  BY <1>4, <1>5 DEF RankFollows, Follows, Moved, SamePower
<1> QED BY <1>7, <1>8, <1>9, <1>10, <1>11, <1>12 DEF RankStep, RankOK, rk2
-----------------------------------------------------------------------------
(* The entries of the queue                                                *)

LEMMA QueuedEntries ==
    ASSUME NEW q \in Seq(Entry), NEW r
    PROVE  /\ Of(q, r) \subseteq Entry
           /\ \A e \in Of(q, r) : e.rank = r /\ \E i \in 1..Len(q) : e = q[i]
           /\ \A i \in 1..Len(q) : q[i].rank = r => q[i] \in Of(q, r)
BY EntryFields DEF Of, Entries

\* The head is taken from the queue.
LEMMA TakenEntries ==
    ASSUME NEW q \in Seq(Entry), q # <<>>, Sorted(q), AllApart(q)
    PROVE  /\ AllApart(Tail(q))
           /\ Of(q, Head(q).rank) = Of(Tail(q), Head(q).rank) \cup {Head(q)}
           /\ \A r : r # Head(q).rank => Of(Tail(q), r) = Of(q, r)
           /\ \A f \in Of(Tail(q), Head(q).rank) :
                 Apart(Head(q), f) /\ \E i \in 1..Len(q) : i # 1 /\ f = q[i]
<1>1. /\ Head(q) = q[1] /\ 1 \in 1..Len(q) /\ Len(q) \in Nat
      /\ Len(Tail(q)) = Len(q) - 1
      /\ \A i \in 1..Len(Tail(q)) : i + 1 \in 1..Len(q) /\ Tail(q)[i] = q[i + 1]
  BY EntryTime, TailKeepsOrder, LenProperties, HeadTailProperties
<1>2. AllApart(Tail(q))
  BY <1>1 DEF AllApart
<1>3. Entries(q) = Entries(Tail(q)) \cup {Head(q)}
  <2>1. ASSUME NEW i \in 1..Len(q) PROVE q[i] \in Entries(Tail(q)) \cup {Head(q)}
    <3>1. CASE i = 1
      BY <1>1, <3>1
    <3>2. CASE i # 1
      <4>1. i - 1 \in 1..Len(Tail(q)) /\ (i - 1) + 1 = i
        BY <1>1, <3>2
      <4>2. q[i] = Tail(q)[i - 1]
        BY <1>1, <4>1
      <4> QED BY <4>1, <4>2 DEF Entries
    <3> QED BY <3>1, <3>2
  <2>2. \A i \in 1..Len(Tail(q)) : Tail(q)[i] \in Entries(q)
    BY <1>1 DEF Entries
  <2>3. Head(q) \in Entries(q)
    BY <1>1 DEF Entries
  <2> QED BY <2>1, <2>2, <2>3 DEF Entries
<1>4. ASSUME NEW f \in Of(Tail(q), Head(q).rank)
      PROVE  Apart(Head(q), f) /\ \E i \in 1..Len(q) : i # 1 /\ f = q[i]
  <2>1. PICK i \in 1..Len(Tail(q)) : f = Tail(q)[i] /\ f.rank = Head(q).rank
    BY DEF Of, Entries
  <2>2. i + 1 \in 1..Len(q) /\ f = q[i + 1] /\ i + 1 # 1
    BY <1>1, <2>1
  <2>3. Apart(q[1], q[i + 1])
    BY <1>1, <2>1, <2>2 DEF AllApart
  <2> QED BY <1>1, <2>2, <2>3
<1> QED BY <1>2, <1>3, <1>4 DEF Of

\* Entries es of rank r can be queued beside those it has.
Addable(q, es, r) ==
    /\ \A i \in 1..Len(es) : es[i].rank = r
    /\ \A i, j \in 1..Len(es) : i # j => Apart(es[i], es[j])
    /\ \A i \in 1..Len(es) : \A f \in Of(q, r) : Apart(es[i], f) /\ Apart(f, es[i])

LEMMA AddedEntries ==
    ASSUME NEW q \in Seq(Entry), Sorted(q), AllApart(q),
           NEW es \in Seq(Entry), NEW t \in Nat, NEW r, Addable(q, es, r)
    PROVE  /\ AllApart(AddAll(q, es, t))
           /\ Of(AddAll(q, es, t), r) = Of(q, r) \cup Entries(es)
           /\ \A s : s # r => Of(AddAll(q, es, t), s) = Of(q, s)
<1> DEFINE A == AddAll(q, es, t)
           n == Len(es)
<1>1. PICK k \in 0..Len(q) :
              /\ Len(A) = Len(q) + n
              /\ \A i \in 1..k : A[i] = q[i] /\ q[i].time <= t
              /\ \A i \in 1..n : A[k + i] = es[i]
              /\ \A i \in (k + 1)..Len(q) : A[i + n] = q[i] /\ q[i].time > t
  BY AddAllPlaces
<1>2. Len(q) \in Nat /\ n \in Nat
  BY LenProperties
<1> HIDE DEF A, n
<1> DEFINE Old(x, i) == i \in 1..Len(q) /\ A[x] = q[i] /\ x = (IF i <= k THEN i ELSE i + n)
           New(x, i) == i \in 1..n /\ A[x] = es[i] /\ x = k + i
<1>3. \A x \in 1..Len(A) : (\E i : Old(x, i)) \/ (\E i : New(x, i))
  <2> SUFFICES ASSUME NEW x \in 1..Len(A) PROVE (\E i : Old(x, i)) \/ (\E i : New(x, i))
    OBVIOUS
  <2>1. CASE x <= k
    <3>1. x \in 1..k /\ x \in 1..Len(q)
      BY <1>1, <1>2, <2>1
    <3>2. Old(x, x)
      BY <1>1, <2>1, <3>1
    <3> QED BY <3>2
  <2>2. CASE x > k /\ x <= k + n
    <3>1. x - k \in 1..n /\ k + (x - k) = x
      BY <1>1, <1>2, <2>2
    <3>2. New(x, x - k)
      BY <1>1, <3>1
    <3> QED BY <3>2
  <2>3. CASE x > k + n
    <3>1. x - n \in (k + 1)..Len(q) /\ x - n \in 1..Len(q) /\ ~(x - n <= k) /\ (x - n) + n = x
      BY <1>1, <1>2, <2>3
    <3>2. Old(x, x - n)
      BY <1>1, <3>1
    <3> QED BY <3>2
  <2> QED BY <1>1, <1>2, <2>1, <2>2, <2>3
<1>4. \A i \in 1..Len(q) : q[i] \in Entries(A)
  <2> SUFFICES ASSUME NEW i \in 1..Len(q) PROVE q[i] \in Entries(A)
    OBVIOUS
  <2>1. CASE i <= k
    <3>1. i \in 1..Len(A) /\ A[i] = q[i]
      BY <1>1, <1>2, <2>1
    <3> QED BY <3>1 DEF Entries
  <2>2. CASE ~(i <= k)
    <3>1. i + n \in 1..Len(A) /\ A[i + n] = q[i]
      BY <1>1, <1>2, <2>2
    <3> QED BY <3>1 DEF Entries
  <2> QED BY <2>1, <2>2
<1>5. \A i \in 1..n : es[i] \in Entries(A)
  <2> SUFFICES ASSUME NEW i \in 1..n PROVE es[i] \in Entries(A)
    OBVIOUS
  <2>1. k + i \in 1..Len(A) /\ A[k + i] = es[i]
    BY <1>1, <1>2
  <2> QED BY <2>1 DEF Entries
<1>6. \A x \in 1..Len(A) : A[x] \in Entries(q) \cup Entries(es)
  BY <1>3 DEF Entries, n
<1>7. Entries(A) = Entries(q) \cup Entries(es)
  BY <1>4, <1>5, <1>6 DEF Entries, n
<1>8. AllApart(A)
  <2> SUFFICES ASSUME NEW x \in 1..Len(A), NEW y \in 1..Len(A), x # y, A[x].rank = A[y].rank
               PROVE  Apart(A[x], A[y])
    BY DEF AllApart
  <2>1. ASSUME NEW i, NEW j, Old(x, i), Old(y, j) PROVE Apart(A[x], A[y])
    BY <2>1 DEF AllApart
  <2>2. ASSUME NEW i, NEW j, New(x, i), New(y, j) PROVE Apart(A[x], A[y])
    BY <2>2 DEF n, Addable
  <2>3. ASSUME NEW i, NEW j, Old(x, i), New(y, j) PROVE Apart(A[x], A[y])
    BY <2>3 DEF Of, Entries, n, Addable
  <2>4. ASSUME NEW i, NEW j, New(x, i), Old(y, j) PROVE Apart(A[x], A[y])
    BY <2>4 DEF Of, Entries, n, Addable
  <2> HIDE DEF Old, New
  <2> QED BY <1>3, <2>1, <2>2, <2>3, <2>4
<1>9. \A s : Of(A, s) = Of(q, s) \cup {e \in Entries(es) : e.rank = s}
  BY <1>7 DEF Of
<1>10. \A e \in Entries(es) : e.rank = r
  BY DEF Entries, Addable
<1>11. Of(A, r) = Of(q, r) \cup Entries(es)
  <2>1. {e \in Entries(es) : e.rank = r} = Entries(es)
    BY <1>10
  <2> QED BY <1>9, <2>1
<1>12. \A s : s # r => Of(A, s) = Of(q, s)
  <2> SUFFICES ASSUME NEW s, s # r PROVE Of(A, s) = Of(q, s)
    OBVIOUS
  <2>1. {e \in Entries(es) : e.rank = s} = {}
    BY <1>10
  <2>2. Of(A, s) = Of(q, s) \cup {e \in Entries(es) : e.rank = s}
    BY <1>9
  <2> QED BY <2>1, <2>2
<1> QED BY <1>8, <1>11, <1>12 DEF A
-----------------------------------------------------------------------------
(* What an implicit command does to the invariant                          *)

\* Every rank steps, to the queue q2, the ranks rks2 and the banks bks2.
Steps(q2, rks2, bks2, t) ==
    /\ AllApart(q2)
    /\ \A r \in Ranks : RankStep(Of(q2, r), rank[r], bank[r], rks2[r], bks2[r], t)

LEMMA LaterRank ==
    ASSUME NEW n \in Nat, NEW t \in Nat, n <= t, NEW E, NEW rk, NEW bks, Typed(E, rk, bks),
           RankOK(E, rk, bks, n)
    PROVE  RankOK(E, rk, bks, t)
<1>1. rk.endRefreshTime \in Nat /\ \A b \in Banks : bks[b].refreshEndTime \in Nat
  BY DEF Typed, Rank, Bank, Time
<1>2. RefreshesEnd(E, rk, bks, t)
  BY <1>1 DEF RankOK, RefreshesEnd
<1> QED BY <1>2 DEF RankOK

LEMMA RanksTyped ==
    ASSUME IInv, NEW r \in Ranks
    PROVE  /\ Typed(Of(queue, r), rank[r], bank[r]) /\ queue \in Seq(Entry) /\ Sorted(queue)
           /\ rank \in [Ranks -> Rank] /\ bank \in [Ranks -> [Banks -> Bank]]
<1>1. /\ queue \in Seq(Entry) /\ Sorted(queue)
      /\ rank \in [Ranks -> Rank] /\ bank \in [Ranks -> [Banks -> Bank]]
  BY DEF IInv, QueueFrom, RanksWithin, BanksWithin
<1> QED BY <1>1, QueuedEntries DEF Typed

\* What concerns one rank leaves the others alone.
LEMMA OneRankSteps ==
    ASSUME IInv, StateInv, NEW t \in Nat, now <= t, NEW r \in Ranks, NEW q2, AllApart(q2),
           \A s : s # r => Of(q2, s) = Of(queue, s),
           NEW rks2, NEW bks2,
           \A s \in Ranks : s # r => rks2[s] = rank[s] /\ bks2[s] = bank[s],
           RankStep(Of(q2, r), rank[r], bank[r], rks2[r], bks2[r], t)
    PROVE  Steps(q2, rks2, bks2, t)
<1> SUFFICES ASSUME NEW s \in Ranks, s # r
             PROVE  RankStep(Of(q2, s), rank[s], bank[s], rks2[s], bks2[s], t)
  BY DEF Steps
<1>1. RankOK(Of(queue, s), rank[s], bank[s], now) /\ now \in Nat
  BY DEF StateInv, IInv
<1>2. RankOK(Of(queue, s), rank[s], bank[s], t)
  BY <1>1, RanksTyped, LaterRank
<1>3. RankFollows(rank[s], bank[s], rank[s], bank[s], t)
  BY DEF RankFollows, Follows, Moved
<1> QED BY <1>2, <1>3 DEF RankStep

LEMMA PrechargedBanks ==
    ASSUME IInv, NEW t, NEW r \in Ranks, NEW bs, Precharge(r, bs, t)
    PROVE  /\ bank'[r] = [b \in Banks |-> IF b \in bs THEN Precharged(bank[r][b], t) ELSE bank[r][b]]
           /\ rank'[r] = IF \E b \in bs : Active(bank[r][b])
                         THEN RankIdle(rank[r], bank'[r], t) ELSE rank[r]
           /\ \A s \in Ranks : s # r => rank'[s] = rank[s] /\ bank'[s] = bank[s]
<1>1. rank \in [Ranks -> Rank] /\ bank \in [Ranks -> [Banks -> Bank]]
  BY RanksTyped
<1> DEFINE f == [b \in Banks |-> IF b \in bs THEN Precharged(bank[r][b], t) ELSE bank[r][b]]
<1>2. bank' = [bank EXCEPT ![r] = f]
  BY DEF Precharge
<1>3. rank' = IF \E b \in bs : Active(bank[r][b])
              THEN [rank EXCEPT ![r] = RankIdle(rank[r], bank'[r], t)] ELSE rank
  BY DEF Precharge
<1> HIDE DEF f
<1>4. bank'[r] = f /\ \A s \in Ranks : s # r => bank'[s] = bank[s]
  BY <1>1, <1>2
<1>5. /\ rank'[r] = IF \E b \in bs : Active(bank[r][b])
                    THEN RankIdle(rank[r], bank'[r], t) ELSE rank[r]
      /\ \A s \in Ranks : s # r => rank'[s] = rank[s]
  BY <1>1, <1>3
<1> QED BY <1>4, <1>5 DEF f

LEMMA ImplicitSteps ==
    ASSUME IInv, TraceInv, StateInv, ExecuteImplicit
    PROVE  Steps(queue', rank', bank', now')
<1> DEFINE e == Head(queue)
           r == e.rank
           t == e.time
           F == Of(Tail(queue), r)
           rk == rank[r]
           bks == bank[r]
<1>1. /\ queue # <<>> /\ queue' = Tail(queue) /\ now' = t
  BY DEF ExecuteImplicit, Pop, Due
<1>2. /\ queue \in Seq(Entry) /\ Sorted(queue) /\ e \in Entry /\ r \in Ranks /\ t \in Nat
      /\ now \in Nat /\ now <= t /\ e = queue[1] /\ 1 \in 1..Len(queue)
  <2>1. /\ queue \in Seq(Entry) /\ Sorted(queue) /\ \A i \in 1..Len(queue) : queue[i].time >= now
    BY DEF IInv, QueueFrom
  <2>2. e = queue[1] /\ 1 \in 1..Len(queue)
    BY <1>1, <2>1, EntryTime, TailKeepsOrder
  <2> QED BY <2>1, <2>2, EntryFields DEF IInv
<1>3. /\ AllApart(Tail(queue)) /\ Of(queue, r) = F \cup {e}
      /\ \A s : s # r => Of(Tail(queue), s) = Of(queue, s)
      /\ \A f \in F : Apart(e, f) /\ \E i \in 1..Len(queue) : i # 1 /\ f = queue[i]
  BY <1>1, <1>2, TakenEntries DEF StateInv
<1>4. /\ rank \in [Ranks -> Rank] /\ bank \in [Ranks -> [Banks -> Bank]]
      /\ Typed(F, rk, bks) /\ Typed(F \cup {e}, rk, bks)
  BY <1>2, <1>3, RanksTyped DEF Typed
<1>5. RankOK(F \cup {e}, rk, bks, t)
  <2>1. RankOK(Of(queue, r), rank[r], bank[r], now)
    BY <1>2 DEF StateInv
  <2>2. RankOK(F \cup {e}, rk, bks, now)
    BY <1>3, <2>1
  <2> HIDE DEF e, F, rk, bks, t
  <2> QED BY <1>2, <1>4, <2>2, LaterRank
<1>6. \A f \in F : <<f.op, e.op>> \notin OpsInOrder
  <2> SUFFICES ASSUME NEW f \in F, <<f.op, e.op>> \in OpsInOrder PROVE FALSE
    OBVIOUS
  <2>1. PICK i \in 1..Len(queue) : i # 1 /\ f = queue[i]
    BY <1>3
  <2>2. f.rank = r
    BY DEF Of
  <2>3. i < 1
    BY <1>2, <2>1, <2>2 DEF TraceInv, TraceOK, InOrder
  <2> QED BY <1>2, <2>1, <2>3, LenProperties
<1>7. SUFFICES /\ RankStep(F, rk, bks, rank'[r], bank'[r], t)
               /\ \A s \in Ranks : s # r => rank'[s] = rank[s] /\ bank'[s] = bank[s]
  <2> HIDE DEF e
  <2> QED BY <1>1, <1>2, <1>3, OneRankSteps
<1> HIDE DEF e, r, t, F, rk, bks
<1>8. CASE e.op = "AUTO_PRECHARGE" /\ handlePre(r, e.bank, t)
  <2>1. RankOK(F, rk, bks, t)
    BY <1>2, <1>5, <1>8, AutoPrechargeTaken
  <2>2. e.bank \in Banks /\ Precharge(r, {e.bank}, t)
    BY <1>2, <1>8 DEF Entry, BankOps, handlePre
  <2>3. \A f \in F : f.op \in BankOps => f.bank \notin {e.bank}
    BY <1>3, <1>8 DEF Apart, BankOps
  <2>4. /\ bank'[r] = [b \in Banks |-> IF b \in {e.bank} THEN Precharged(bks[b], t) ELSE bks[b]]
        /\ rank'[r] = IF \E b \in {e.bank} : Active(bks[b])
                      THEN RankIdle(rk, bank'[r], t) ELSE rk
        /\ \A s \in Ranks : s # r => rank'[s] = rank[s] /\ bank'[s] = bank[s]
    BY <1>2, <2>2, PrechargedBanks DEF rk, bks
  <2>5. {e.bank} \subseteq Banks
    BY <2>2
  <2>6. RankStep(F, rk, bks, rank'[r], bank'[r], t)
    BY <1>2, <1>4, <2>1, <2>3, <2>4, <2>5, PrechargeRank
  <2> QED BY <2>4, <2>6
<1>9. CASE e.op = "REFRESH_END" /\ handleRefAllLater(r, e.bank, t)
  <2>1. /\ bank' = [bank EXCEPT ![r][e.bank] = RefreshEnded(bank[r][e.bank], t)]
        /\ rank' = [rank EXCEPT ![r] = RankIdle(rank[r], bank'[r], t)]
    BY <1>9 DEF handleRefAllLater, RefreshEnd
  <2>2. /\ bank'[r] = [bks EXCEPT ![e.bank] = RefreshEnded(bks[e.bank], t)]
        /\ rank'[r] = RankIdle(rk, bank'[r], t)
        /\ \A s \in Ranks : s # r => rank'[s] = rank[s] /\ bank'[s] = bank[s]
    BY <1>2, <1>4, <2>1 DEF rk, bks
  <2>3. e.time = t
    BY DEF t
  <2>4. RankStep(F, rk, bks, rank'[r], bank'[r], t)
    BY <1>2, <1>3, <1>4, <1>5, <1>9, <2>2, <2>3, RefreshEndRank
  <2> QED BY <2>2, <2>4
<1>10. CASE e.op = "SREF_ENTRY" /\ handleSelfRefreshEntryLater(r, t)
  <2>1. rank' = [rank EXCEPT ![r] = SelfRefreshEntered(rank[r], t)] /\ bank' = bank
    BY <1>10 DEF handleSelfRefreshEntryLater, SelfRefreshEntry
  <2>2. /\ rank'[r] = SelfRefreshEntered(rk, t) /\ bank'[r] = bks
        /\ \A s \in Ranks : s # r => rank'[s] = rank[s] /\ bank'[s] = bank[s]
    BY <1>2, <1>4, <2>1 DEF rk, bks
  <2>3. AllClosed(bks)
    <3>1. \A b \in Banks : ~EndBefore(queue, r, b, 1)
      BY DEF EndBefore
    <3> QED BY <1>2, <1>10, <3>1 DEF TraceInv, TraceOK, ClosedBefore, AllClosed, r, bks
  <2>4. RankStep(F, rk, bks, SelfRefreshEntered(rk, t), bks, t)
    BY <1>2, <1>3, <1>4, <1>5, <1>10, <2>3, SelfRefreshEntryRank
  <2> QED BY <2>2, <2>4
<1>11. CASE e.op = "PDA_ENTRY" /\ handlePowerDownActEntryLater(r, t)
  <2>1. /\ rank' = [rank EXCEPT ![r] = PowerDownActEntered(rank[r], t)]
        /\ bank' = [bank EXCEPT ![r] = [b \in Banks |-> ActClosed(bank[r][b], t)]]
    BY <1>11 DEF handlePowerDownActEntryLater, PowerDownActEntry
  <2>2. /\ rank'[r] = PowerDownActEntered(rk, t)
        /\ bank'[r] = [b \in Banks |-> ActClosed(bks[b], t)]
        /\ \A s \in Ranks : s # r => rank'[s] = rank[s] /\ bank'[s] = bank[s]
    BY <1>2, <1>4, <2>1 DEF rk, bks
  <2> QED BY <1>2, <1>3, <1>4, <1>5, <1>11, <2>2, PowerDownActEntryRank
<1>12. CASE e.op = "PDA_EXIT" /\ handlePowerDownActExitLater(r, t)
  <2>1. /\ bank' = [bank EXCEPT ![r] = Reactivated(bank[r], t)]
        /\ rank' = [rank EXCEPT ![r] = PowerDownActLeft(rank[r], bank'[r], t)]
    BY <1>12 DEF handlePowerDownActExitLater
  <2>2. /\ bank'[r] = Reactivated(bks, t)
        /\ rank'[r] = PowerDownActLeft(rk, bank'[r], t)
        /\ \A s \in Ranks : s # r => rank'[s] = rank[s] /\ bank'[s] = bank[s]
    BY <1>2, <1>4, <2>1 DEF rk, bks
  <2>3. \A f \in F : f.op # "PDA_ENTRY"
    BY <1>6, <1>12 DEF OpsInOrder
  <2> QED BY <1>2, <1>3, <1>4, <1>5, <1>12, <2>2, <2>3, PowerDownActExitRank
<1>13. CASE e.op = "PDP_ENTRY" /\ handlePowerDownPreEntryLater(r, t)
  <2>1. /\ rank' = [rank EXCEPT ![r] = PowerDownPreEntered(rank[r], t)]
        /\ bank' = [bank EXCEPT ![r] = [b \in Banks |-> ActClosed(bank[r][b], t)]]
    BY <1>13 DEF handlePowerDownPreEntryLater
  <2>2. /\ rank'[r] = PowerDownPreEntered(rk, t)
        /\ bank'[r] = [b \in Banks |-> ActClosed(bks[b], t)]
        /\ \A s \in Ranks : s # r => rank'[s] = rank[s] /\ bank'[s] = bank[s]
    BY <1>2, <1>4, <2>1 DEF rk, bks
  <2>3. \A f \in F : f.op # "REFRESH_END"
    BY <1>6, <1>13 DEF OpsInOrder
  <2> QED BY <1>2, <1>3, <1>4, <1>5, <1>13, <2>2, <2>3, PowerDownPreEntryRank
<1>14. CASE e.op = "PDP_EXIT" /\ handlePowerDownPreExitLater(r, t)
  <2>1. /\ rank' = [rank EXCEPT ![r] = PowerDownPreLeft(rank[r], t)]
        /\ bank' = [bank EXCEPT ![r] = Reactivated(bank[r], t)]
    BY <1>14 DEF handlePowerDownPreExitLater
  <2>2. /\ rank'[r] = PowerDownPreLeft(rk, t)
        /\ bank'[r] = Reactivated(bks, t)
        /\ \A s \in Ranks : s # r => rank'[s] = rank[s] /\ bank'[s] = bank[s]
    BY <1>2, <1>4, <2>1 DEF rk, bks
  <2>3. \A f \in F : f.op # "PDP_ENTRY"
    BY <1>6, <1>14 DEF OpsInOrder
  <2> QED BY <1>2, <1>3, <1>4, <1>5, <1>14, <2>2, <2>3, PowerDownPreExitRank
<1> QED
  BY <1>8, <1>9, <1>10, <1>11, <1>12, <1>13, <1>14 DEF ExecuteImplicit, e, r, t
-----------------------------------------------------------------------------
(* What a command does to the invariant                                    *)

\* What the command of a valid trace finds.
Serving == CallDue /\ StateInv /\ ValidOnly = TRUE

LEMMA ServingRank ==
    ASSUME Serving, NEW r \in Ranks
    PROVE  /\ target \in Nat /\ now <= target /\ IInv /\ StateInv
           /\ queue \in Seq(Entry) /\ Sorted(queue) /\ AllApart(queue)
           /\ rank \in [Ranks -> Rank] /\ bank \in [Ranks -> [Banks -> Bank]]
           /\ Typed(Of(queue, r), rank[r], bank[r])
           /\ RankOK(Of(queue, r), rank[r], bank[r], target)
<1>1. IInv /\ StateInv /\ target \in Nat /\ now \in Nat /\ now <= target
  BY DEF Serving, CallDue, IInv
<1>2. RankOK(Of(queue, r), rank[r], bank[r], now) /\ AllApart(queue)
  BY <1>1 DEF StateInv
<1> QED BY <1>1, <1>2, RanksTyped, LaterRank

\* A rank that takes commands is in its normal state, and will be.
LEMMA AvailableEntries ==
    ASSUME NEW r \in Ranks, queue \in Seq(Entry), Available(r)
    PROVE  rank[r].memState = "NOT_IN_PD" /\ \A e \in Of(queue, r) : e.op \notin PowerOps
BY AvailableRank, QueuedEntries DEF NoPowerOps

LEMMA NotDueYet ==
    ASSUME NEW q \in Seq(Entry), Sorted(q), NEW t \in Nat, ~Due(q, t), NEW i \in 1..Len(q)
    PROVE  t < q[i].time
<1>1. q # <<>> /\ Len(q) \in Nat
  BY LenProperties
<1>2. Head(q) = q[1] /\ 1 \in 1..Len(q)
  BY <1>1, EntryTime, TailKeepsOrder
<1>3. q[1].time \in Nat /\ q[i].time \in Nat
  BY <1>2, EntryFields
<1>4. t < q[1].time
  BY <1>1, <1>2, <1>3 DEF Due
<1>5. q[1].time <= q[i].time
  <2>1. i = 1 \/ 1 < i
    BY <1>1
  <2> QED BY <1>2, <1>3, <2>1 DEF Sorted
<1> QED BY <1>3, <1>4, <1>5

\* Nothing is queued for a bank that can be read, written and precharged.
LEMMA OpenEntries ==
    ASSUME Serving, NEW r \in Ranks, NEW b \in Banks, Open(r, b, target)
    PROVE  Active(bank[r][b]) /\ \A e \in Of(queue, r) : e.op \in BankOps => e.bank # b
<1> SUFFICES ASSUME NEW e \in Of(queue, r), e.op \in BankOps, e.bank = b PROVE FALSE
  BY DEF Open
<1>1. /\ queue \in Seq(Entry) /\ Sorted(queue) /\ target \in Nat /\ ~Due(queue, target)
      /\ EndsAwaited(queue, bank) /\ bank[r][b] \in Bank
  BY ServingRank DEF Serving, CallDue, TraceInv, TraceOK
<1>2. PICK i \in 1..Len(queue) : e = queue[i] /\ e.rank = r
  BY <1>1, QueuedEntries
<1>3. e.op # "AUTO_PRECHARGE"
  BY <1>2 DEF Open, AutoPrechargePending
<1>4. e.op = "REFRESH_END"
  BY <1>3 DEF BankOps
<1>5. e.time <= bank[r][b].refreshEndTime
  BY <1>1, <1>2, <1>4 DEF EndsAwaited
<1>6. target < e.time /\ e.time \in Nat /\ bank[r][b].refreshEndTime \in Nat
  BY <1>1, <1>2, NotDueYet, EntryFields DEF Bank, Time
<1>7. ~(target < bank[r][b].refreshEndTime)
  BY DEF Open, Refreshing
<1> QED BY <1>1, <1>5, <1>6, <1>7

\* The end of a refresh that runs is queued.
LEMMA RefreshingEntries ==
    ASSUME Serving, NEW r \in Ranks, NEW b \in Banks, Refreshing(r, b, target)
    PROVE  EndQueued(Of(queue, r), b)
<1>1. /\ RefreshesEnd(Of(queue, r), rank[r], bank[r], target) /\ target \in Nat
      /\ bank[r][b].refreshEndTime \in Nat
  BY ServingRank DEF RankOK, Bank, Time
<1> QED BY <1>1 DEF RefreshesEnd, Refreshing, EndOf, EndQueued

\* One command more is queued.
LEMMA OneAdded ==
    ASSUME NEW q \in Seq(Entry), Sorted(q), AllApart(q), NEW e \in Entry, NEW r, e.rank = r,
           \A f \in Of(q, r) : Apart(e, f) /\ Apart(f, e)
    PROVE  /\ AllApart(Add(q, e)) /\ Of(Add(q, e), r) = Of(q, r) \cup {e}
           /\ \A s : s # r => Of(Add(q, e), s) = Of(q, s)
<1> DEFINE es == <<e>>
<1>1. /\ es \in Seq(Entry) /\ Len(es) = 1 /\ es[1] = e
  OBVIOUS
<1>2. e.time \in Nat
  BY EntryTime
<1>3. Entries(es) = {e}
  BY <1>1 DEF Entries
<1>4. Add(q, e) = AddAll(q, es, e.time)
  BY DEF Add
<1> HIDE DEF es
<1>5. Addable(q, es, r)
  BY <1>1 DEF Addable
<1>6. /\ AllApart(Add(q, e)) /\ Of(Add(q, e), r) = Of(q, r) \cup Entries(es)
      /\ \A s : s # r => Of(Add(q, e), s) = Of(q, s)
  BY <1>1, <1>2, <1>4, <1>5, AddedEntries
<1> QED BY <1>3, <1>6

LEMMA PrechargeSteps ==
    ASSUME Serving, NEW r \in Ranks, NEW bs, bs \subseteq Banks,
           \A b \in bs : Closed(r, b) \/ Open(r, b, target),
           Precharge(r, bs, target)
    PROVE  Steps(queue, rank', bank', target)
<1>1. \A e \in Of(queue, r) : e.op \in BankOps => e.bank \notin bs
  <2> SUFFICES ASSUME NEW e \in Of(queue, r), e.op \in BankOps, e.bank \in bs PROVE FALSE
    OBVIOUS
  <2>1. Active(bank[r][e.bank])
    BY ServingRank DEF RankOK, BanksBusy
  <2>2. Open(r, e.bank, target)
    BY <2>1 DEF Closed
  <2> QED BY <2>2, OpenEntries
<1>2. /\ bank'[r] = [b \in Banks |-> IF b \in bs THEN Precharged(bank[r][b], target) ELSE bank[r][b]]
      /\ rank'[r] = IF \E b \in bs : Active(bank[r][b])
                    THEN RankIdle(rank[r], bank'[r], target) ELSE rank[r]
      /\ \A s \in Ranks : s # r => rank'[s] = rank[s] /\ bank'[s] = bank[s]
  BY ServingRank, PrechargedBanks
<1>3. RankStep(Of(queue, r), rank[r], bank[r], rank'[r], bank'[r], target)
  BY <1>1, <1>2, ServingRank, PrechargeRank
<1> QED BY <1>2, <1>3, ServingRank, OneRankSteps

LEMMA CountSteps ==
    ASSUME Serving, NEW r \in Ranks, NEW b \in Banks, NEW c \in Counters \ {"act", "pre"},
           Count(r, b, c)
    PROVE  /\ Steps(queue, rank', bank', target)
           /\ \A s \in Ranks : s # r => rank'[s] = rank[s] /\ bank'[s] = bank[s]
           /\ Active(bank'[r][b]) <=> Active(bank[r][b])
<1>1. bank' = [bank EXCEPT ![r][b] = Counted(bank[r][b], c)] /\ rank' = rank
  BY DEF Count
<1>2. /\ bank'[r] = [bank[r] EXCEPT ![b] = Counted(bank[r][b], c)] /\ rank'[r] = rank[r]
      /\ \A s \in Ranks : s # r => rank'[s] = rank[s] /\ bank'[s] = bank[s]
  BY <1>1, ServingRank
<1>3. RankStep(Of(queue, r), rank[r], bank[r], rank'[r], bank'[r], target)
  <2>1. RankStep(Of(queue, r), rank[r], bank[r], rank[r], bank'[r], target)
    BY <1>2, ServingRank, CountRank
  <2> QED BY <1>2, <2>1
<1>4. bank'[r][b].bankState = bank[r][b].bankState
  <2>1. bank[r][b] \in Bank /\ bank'[r][b] = Counted(bank[r][b], c)
    BY <1>2, ServingRank
  <2> QED BY <2>1, ServingRank, BankChanges
<1>5. Steps(queue, rank', bank', target)
  BY <1>2, <1>3, ServingRank, OneRankSteps
<1> QED BY <1>2, <1>4, <1>5 DEF Active

\* RDA and WRA.
LEMMA CountAndPrechargeSteps ==
    ASSUME Serving, NEW r \in Ranks, NEW b \in Banks, NEW c \in Counters \ {"act", "pre"},
           NEW u \in Nat, Open(r, b, target), CountAndPrecharge(r, b, c, u)
    PROVE  Steps(queue', rank', bank', target)
<1> DEFINE e == ImplicitFor(AutoPrechargeTime(r, b, u), "AUTO_PRECHARGE", r, b)
           E == Of(queue, r)
<1>1. /\ Steps(queue, rank', bank', target)
      /\ \A s \in Ranks : s # r => rank'[s] = rank[s] /\ bank'[s] = bank[s]
      /\ Active(bank'[r][b])
  BY CountSteps, OpenEntries DEF CountAndPrecharge
<1>2. AutoPrechargeTime(r, b, u) \in Nat
  <2>1. GetStart(bank[r][b].act) \in Nat
    BY CallDueTypes, StartsGrow DEF BankWithin, Serving
  <2> QED BY <2>1, TimingAssumption DEF TimingAssumption, AutoPrechargeTime, Max2
<1>3. e \in Entry /\ e.op = "AUTO_PRECHARGE" /\ e.rank = r /\ e.bank = b
  <2>1. b # NoBank
    BY DEF Banks, NoBank
  <2>2. e \in Entry
    BY <1>2, <2>1, ImplicitForType DEF ImplicitOps, BankOps
  <2> QED BY <2>2 DEF ImplicitFor
<1>4. queue' = Add(queue, e)
  BY DEF CountAndPrecharge
<1> HIDE DEF e
<1>5. \A f \in E : Apart(e, f) /\ Apart(f, e)
  BY <1>3, OpenEntries DEF Apart, PowerOps
<1>6. /\ AllApart(queue') /\ Of(queue', r) = E \cup {e}
      /\ \A s : s # r => Of(queue', s) = Of(queue, s)
  <2>1. queue \in Seq(Entry) /\ Sorted(queue) /\ AllApart(queue)
    BY ServingRank
  <2> QED BY <1>3, <1>4, <1>5, <2>1, OneAdded
<1>7. RankStep(E, rank[r], bank[r], rank'[r], bank'[r], target)
  BY <1>1 DEF Steps
<1>8. RankOK(E \cup {e}, rank'[r], bank'[r], target)
  <2>1. target \in Nat /\ RankOK(E, rank'[r], bank'[r], target) /\ Active(bank'[r][e.bank])
    BY <1>1, <1>3, <1>7, ServingRank DEF RankStep
  <2> HIDE DEF E
  <2> QED BY <1>3, <2>1, AutoPrechargeQueued
<1>9. RankStep(Of(queue', r), rank[r], bank[r], rank'[r], bank'[r], target)
  BY <1>6, <1>7, <1>8 DEF RankStep
<1>10. /\ IInv /\ StateInv /\ target \in Nat /\ now <= target
  BY ServingRank
<1> QED BY <1>1, <1>6, <1>9, <1>10, OneRankSteps

LEMMA ActSteps ==
    ASSUME Serving, NEW r \in Ranks, NEW b \in Banks, Available(r), Closed(r, b),
           handleAct(r, b, target)
    PROVE  Steps(queue, rank', bank', target)
<1>1. /\ bank' = [bank EXCEPT ![r][b] = Activated(bank[r][b], target)]
      /\ rank' = [rank EXCEPT ![r] = RankBusy(rank[r], target)]
  BY DEF handleAct
<1>2. /\ bank'[r] = [bank[r] EXCEPT ![b] = Activated(bank[r][b], target)]
      /\ rank'[r] = RankBusy(rank[r], target)
      /\ \A s \in Ranks : s # r => rank'[s] = rank[s] /\ bank'[s] = bank[s]
  BY <1>1, ServingRank
<1>3. rank[r].memState = "NOT_IN_PD" /\ \A e \in Of(queue, r) : e.op \notin PowerOps
  BY ServingRank, AvailableEntries
<1>4. RankStep(Of(queue, r), rank[r], bank[r], RankBusy(rank[r], target), bank'[r], target)
  BY <1>2, <1>3, ServingRank, ActRank DEF Closed
<1>5. RankStep(Of(queue, r), rank[r], bank[r], rank'[r], bank'[r], target)
  BY <1>2, <1>4
<1> QED BY <1>2, <1>5, ServingRank, OneRankSteps

\* What a command of a valid trace may be sent for.
LEMMA Allowed ==
    ASSUME ValidOnly = TRUE, NEW r \in Ranks, NEW bs
    PROVE  /\ \A cmd \in {"ACT", "REFA", "SREFEN"} :
                 Permitted(cmd, r, bs) => Available(r) /\ \A b \in bs : Closed(r, b)
           /\ \A cmd \in {"RD", "RDA", "WR", "WRA"} :
                 Permitted(cmd, r, bs) => \A b \in bs : Open(r, b, target)
           /\ \A cmd \in {"PRE", "PREA"} :
                 Permitted(cmd, r, bs) => \A b \in bs : Closed(r, b) \/ Open(r, b, target)
           /\ Permitted("PDEA", r, bs) => Available(r)
           /\ Permitted("PDEP", r, bs) =>
                 Available(r) /\ \A b \in bs : Closed(r, b) \/ Refreshing(r, b, target)
           /\ Permitted("PDXA", r, bs) =>
                 /\ rank[r].memState = "PDN_ACT" \/ Pending("PDA_ENTRY", r)
                 /\ ~Pending("PDA_EXIT", r)
           /\ Permitted("PDXP", r, bs) =>
                 /\ rank[r].memState = "PDN_PRE" \/ Pending("PDP_ENTRY", r)
                 /\ ~Pending("PDP_EXIT", r)
           /\ Permitted("SREFEX", r, bs) =>
                 rank[r].memState = "SREF" \/ Pending("SREF_ENTRY", r)
BY DEF Permitted, Valid, MayExit

LEMMA BankCommandSteps ==
    ASSUME Serving, NEW r \in Ranks, NEW b \in Banks, BankCommand(r, b)
    PROVE  Steps(queue', rank', bank', target)
<1>1. ValidOnly = TRUE /\ target \in Nat
  BY ServingRank DEF Serving
<1>2. CASE ACT(r, b)
  <2>1. Available(r) /\ Closed(r, b)
    BY <1>1, <1>2, Allowed DEF ACT
  <2> QED BY <1>2, <2>1, ActSteps DEF ACT
<1>3. CASE PRE(r, b)
  <2>1. Closed(r, b) \/ Open(r, b, target)
    BY <1>1, <1>3, Allowed DEF PRE
  <2> QED BY <1>3, <2>1, PrechargeSteps DEF PRE, handlePre
<1>4. CASE RD(r, b)
  BY <1>4, CountSteps DEF RD, handleRead, Counters
<1>5. CASE WR(r, b)
  BY <1>5, CountSteps DEF WR, handleWrite, Counters
<1>6. CASE RDA(r, b)
  <2>1. Open(r, b, target) /\ target + prechargeOffsetRD \in Nat
    BY <1>1, <1>6, Allowed, TimingAssumption DEF RDA, TimingAssumption
  <2> QED BY <1>6, <2>1, CountAndPrechargeSteps DEF RDA, handleReadAuto, Counters
<1>7. CASE WRA(r, b)
  <2>1. Open(r, b, target) /\ target + prechargeOffsetWR \in Nat
    BY <1>1, <1>7, Allowed, TimingAssumption DEF WRA, TimingAssumption
  <2> QED BY <1>7, <2>1, CountAndPrechargeSteps DEF WRA, handleWriteAuto, Counters
<1> QED BY <1>2, <1>3, <1>4, <1>5, <1>6, <1>7 DEF BankCommand

\* The refresh of REFA and SREFEN, and its ends in the queue.
LEMMA RefreshQueued ==
    ASSUME Serving, NEW r \in Ranks, Available(r), AllClosed(bank[r]), RefreshAll(r, target),
           NEW q, q = AddAll(queue, AllRefreshEnds(r, target), target + tRFC)
    PROVE  /\ AllApart(q) /\ \A s : s # r => Of(q, s) = Of(queue, s)
           /\ Of(q, r) \subseteq Entry
           /\ \A e \in Of(q, r) : e.op = "REFRESH_END"
           /\ \A b \in Banks : \E e \in Of(q, r) :
                 e.op = "REFRESH_END" /\ e.bank = b /\ e.time = target + tRFC
           /\ bank'[r] = [b \in Banks |-> RefreshStarted(bank[r][b], target)]
           /\ rank'[r] = RankRefreshing(rank[r], target)
           /\ \A s \in Ranks : s # r => rank'[s] = rank[s] /\ bank'[s] = bank[s]
<1> DEFINE es == AllRefreshEnds(r, target)
<1>1. /\ target \in Nat /\ target + tRFC \in Nat
      /\ queue \in Seq(Entry) /\ Sorted(queue) /\ AllApart(queue)
      /\ rank \in [Ranks -> Rank] /\ bank \in [Ranks -> [Banks -> Bank]]
  BY ServingRank, RefreshLength
<1>2. /\ es \in Seq(Entry)
      /\ \A i \in 1..Len(es) : /\ es[i].op = "REFRESH_END" /\ es[i].rank = r
                               /\ es[i].time = target + tRFC /\ es[i].bank = i - 1
      /\ \A b \in Banks : \E i \in 1..Len(es) : es[i].bank = b
  BY ONLY r \in Ranks, <1>1, EveryBankEnds
<1>3. Of(queue, r) = {}
  <2>1. \A e \in Of(queue, r) : e.op \notin PowerOps
    BY <1>1, AvailableEntries
  <2>2. /\ Typed(Of(queue, r), rank[r], bank[r])
        /\ RankOK(Of(queue, r), rank[r], bank[r], target)
    BY ServingRank
  <2> QED BY <1>1, <2>1, <2>2, NothingQueued
<1>4. q = AddAll(queue, es, target + tRFC)
  OBVIOUS
<1>5. /\ bank' = [bank EXCEPT ![r] = [b \in Banks |-> RefreshStarted(bank[r][b], target)]]
      /\ rank' = [rank EXCEPT ![r] = RankRefreshing(rank[r], target)]
  BY DEF RefreshAll
<1> HIDE DEF es
<1>6. Addable(queue, es, r)
  BY <1>2, <1>3 DEF Addable, Apart, PowerOps
<1>7. /\ AllApart(q) /\ Of(q, r) = Of(queue, r) \cup Entries(es)
      /\ \A s : s # r => Of(q, s) = Of(queue, s)
  BY <1>1, <1>2, <1>4, <1>6, AddedEntries
<1>8. Of(q, r) = Entries(es)
  BY <1>3, <1>7
<1>9. /\ Entries(es) \subseteq Entry
       /\ \A e \in Entries(es) : e.op = "REFRESH_END"
  BY <1>2, EntryFields DEF Entries
<1>10. \A b \in Banks : \E e \in Entries(es) :
          e.op = "REFRESH_END" /\ e.bank = b /\ e.time = target + tRFC
  BY <1>2 DEF Entries
<1>11. /\ bank'[r] = [b \in Banks |-> RefreshStarted(bank[r][b], target)]
       /\ rank'[r] = RankRefreshing(rank[r], target)
       /\ \A s \in Ranks : s # r => rank'[s] = rank[s] /\ bank'[s] = bank[s]
  BY <1>1, <1>5
<1> QED BY <1>7, <1>8, <1>9, <1>10, <1>11

LEMMA RefreshSteps ==
    ASSUME Serving, NEW r \in Ranks, Available(r), AllClosed(bank[r]), handleRefAll(r, target)
    PROVE  Steps(queue', rank', bank', target)
<1> DEFINE q == AddAll(queue, AllRefreshEnds(r, target), target + tRFC)
<1>1. RefreshAll(r, target) /\ queue' = q
  BY DEF handleRefAll
<1> HIDE DEF q
<1>2. /\ AllApart(q) /\ \A s : s # r => Of(q, s) = Of(queue, s)
      /\ Of(q, r) \subseteq Entry /\ \A e \in Of(q, r) : e.op = "REFRESH_END"
      /\ \A b \in Banks : \E e \in Of(q, r) :
            e.op = "REFRESH_END" /\ e.bank = b /\ e.time = target + tRFC
      /\ bank'[r] = [b \in Banks |-> RefreshStarted(bank[r][b], target)]
      /\ rank'[r] = RankRefreshing(rank[r], target)
      /\ \A s \in Ranks : s # r => rank'[s] = rank[s] /\ bank'[s] = bank[s]
  BY <1>1, RefreshQueued DEF q
<1>3. /\ rank[r].memState = "NOT_IN_PD" /\ \A e \in Of(queue, r) : e.op \notin PowerOps
  BY ServingRank, AvailableEntries
<1>4. RankStep(Of(q, r), rank[r], bank[r], RankRefreshing(rank[r], target), bank'[r], target)
  <2>1. /\ target \in Nat /\ Typed(Of(queue, r), rank[r], bank[r])
        /\ RankOK(Of(queue, r), rank[r], bank[r], target)
    BY ServingRank
  <2> QED BY <1>2, <1>3, <2>1, RefreshRank
<1>5. /\ IInv /\ StateInv /\ target \in Nat /\ now <= target
  BY ServingRank
<1> QED BY <1>1, <1>2, <1>4, <1>5, OneRankSteps

LEMMA SelfRefreshSteps ==
    ASSUME Serving, NEW r \in Ranks, Available(r), AllClosed(bank[r]),
           handleSelfRefreshEntry(r, target)
    PROVE  Steps(queue', rank', bank', target)
<1> DEFINE q == AddAll(queue, AllRefreshEnds(r, target), target + tRFC)
           e == ImplicitFor(target + tRFC, "SREF_ENTRY", r, NoBank)
<1>1. RefreshAll(r, target) /\ queue' = Add(q, e)
  BY DEF handleSelfRefreshEntry
<1>2. /\ target \in Nat /\ target + tRFC \in Nat
  BY ServingRank, RefreshLength
<1>3. e \in Entry /\ e.op = "SREF_ENTRY" /\ e.rank = r
  <2>1. e \in Entry
    BY <1>2, ImplicitForType DEF ImplicitOps, BankOps
  <2> QED BY <2>1 DEF ImplicitFor
<1>4. q \in Seq(Entry) /\ Sorted(q)
  <2>1. target <= target + tRFC /\ QueueFrom(queue, target)
    BY <1>2, RefreshLength DEF Serving, CallDue, CoreWithin
  <2>2. QueueFrom(q, target)
    BY <1>2, <2>1, AllRefreshEndsWithin
  <2> QED BY <2>2 DEF QueueFrom
<1> HIDE DEF q, e
<1>5. /\ AllApart(q) /\ \A s : s # r => Of(q, s) = Of(queue, s)
      /\ Of(q, r) \subseteq Entry /\ \A f \in Of(q, r) : f.op = "REFRESH_END"
      /\ \A b \in Banks : \E f \in Of(q, r) :
            f.op = "REFRESH_END" /\ f.bank = b /\ f.time = target + tRFC
      /\ bank'[r] = [b \in Banks |-> RefreshStarted(bank[r][b], target)]
      /\ rank'[r] = RankRefreshing(rank[r], target)
      /\ \A s \in Ranks : s # r => rank'[s] = rank[s] /\ bank'[s] = bank[s]
  BY <1>1, RefreshQueued DEF q
<1>6. \A f \in Of(q, r) : Apart(e, f) /\ Apart(f, e)
  BY <1>3, <1>5 DEF Apart, PowerOps, BankOps
<1>7. /\ AllApart(queue') /\ Of(queue', r) = Of(q, r) \cup {e}
      /\ \A s : s # r => Of(queue', s) = Of(q, s)
  <2>1. AllApart(q)
    BY <1>5
  <2> QED BY <1>1, <1>3, <1>4, <1>6, <2>1, OneAdded
<1>8. /\ rank[r].memState = "NOT_IN_PD" /\ \A f \in Of(queue, r) : f.op \notin PowerOps
  BY ServingRank, AvailableEntries
<1>9. /\ Of(queue', r) \subseteq Entry
      /\ \A f \in Of(queue', r) : f.op \in {"REFRESH_END", "SREF_ENTRY"}
      /\ \A b \in Banks : \E f \in Of(queue', r) :
            f.op = "REFRESH_END" /\ f.bank = b /\ f.time = target + tRFC
  BY <1>3, <1>5, <1>7
<1>10. RankStep(Of(queue', r), rank[r], bank[r], RankRefreshing(rank[r], target), bank'[r], target)
  <2>1. /\ target \in Nat /\ Typed(Of(queue, r), rank[r], bank[r])
        /\ RankOK(Of(queue, r), rank[r], bank[r], target)
    BY ServingRank
  <2> QED BY <1>5, <1>8, <1>9, <2>1, RefreshRank
<1>11. \A s : s # r => Of(queue', s) = Of(queue, s)
  BY <1>5, <1>7
<1>12. /\ IInv /\ StateInv /\ target \in Nat /\ now <= target
  BY ServingRank
<1> QED BY <1>5, <1>7, <1>10, <1>11, <1>12, OneRankSteps

LEMMA SelfRefreshExitSteps ==
    ASSUME Serving, NEW r \in Ranks, rank[r].memState = "SREF" \/ Pending("SREF_ENTRY", r),
           handleSelfRefreshExit(r, target)
    PROVE  Steps(queue, rank', bank', target)
<1>1. rank' = [rank EXCEPT ![r] = SelfRefreshLeft(rank[r], target)] /\ bank' = bank
  BY DEF handleSelfRefreshExit, SelfRefreshExit
<1>2. /\ rank'[r] = SelfRefreshLeft(rank[r], target) /\ bank'[r] = bank[r]
      /\ \A s \in Ranks : s # r => rank'[s] = rank[s] /\ bank'[s] = bank[s]
  BY <1>1, ServingRank
<1>3. rank[r].memState = "SREF" \/ Queued(Of(queue, r), "SREF_ENTRY")
  BY ServingRank, QueuedEntries DEF Pending, Queued
<1>4. RankStep(Of(queue, r), rank[r], bank[r], SelfRefreshLeft(rank[r], target), bank[r], target)
  BY <1>3, ServingRank, SelfRefreshExitRank
<1>5. /\ IInv /\ StateInv /\ target \in Nat /\ now <= target /\ AllApart(queue)
  BY ServingRank
<1> QED BY <1>2, <1>4, <1>5, OneRankSteps

\* A power-down or an exit from it is queued, beside its counterpart at most.
LEMMA PowerDownSteps ==
    ASSUME Serving, NEW r \in Ranks, NEW op \in PowerOps, AddPowerDown(op, r, target),
           \A f \in Of(queue, r) :
              f.op \in PowerOps => <<op, f.op>> \in Paired /\ <<f.op, op>> \in Paired,
           \A e : e.op = op => PowerMatches(Of(queue, r) \cup {e}, rank[r]),
           op = "PDP_ENTRY" => \A b \in Banks : Active(bank[r][b]) => EndQueued(Of(queue, r), b)
    PROVE  Steps(queue', rank', bank', target)
<1> DEFINE u == PowerDownTime(r, target)
           e == ImplicitFor(u, op, r, NoBank)
<1>1. queue' = Add(queue, e) /\ rank' = rank /\ bank' = bank
  BY DEF AddPowerDown
<1>2. /\ target \in Nat /\ queue \in Seq(Entry) /\ Sorted(queue) /\ AllApart(queue)
  BY ServingRank
<1>3. u \in Nat
  BY <1>2, PowerDownTimeType, RefreshLength DEF Serving, CallDue, CoreWithin
<1>4. e \in Entry /\ e.op = op /\ e.rank = r
  <2>1. op \in ImplicitOps \ BankOps
    BY DEF ImplicitOps, BankOps, PowerOps
  <2>2. e \in Entry
    BY <1>3, <2>1, ImplicitForType
  <2> QED BY <2>2 DEF ImplicitFor
<1> HIDE DEF u, e
<1>5. \A f \in Of(queue, r) : Apart(e, f) /\ Apart(f, e)
  BY <1>4 DEF Apart, PowerOps, BankOps
<1>6. /\ AllApart(queue') /\ Of(queue', r) = Of(queue, r) \cup {e}
      /\ \A s : s # r => Of(queue', s) = Of(queue, s)
  BY <1>1, <1>2, <1>4, <1>5, OneAdded
<1>7. RankOK(Of(queue, r), rank[r], bank[r], target)
  BY ServingRank
<1>8. RankStep(Of(queue, r) \cup {e}, rank[r], bank[r], rank[r], bank[r], target)
  <2>1. PowerMatches(Of(queue, r) \cup {e}, rank[r])
    BY <1>4
  <2> QED BY <1>2, <1>4, <1>7, <2>1, PowerDownQueued
<1>9. /\ IInv /\ StateInv /\ target \in Nat /\ now <= target
  BY ServingRank
<1> QED BY <1>1, <1>6, <1>8, <1>9, OneRankSteps

LEMMA PowerDownEntrySteps ==
    ASSUME Serving, NEW r \in Ranks, NEW op \in PowerDownEntries, Available(r),
           AddPowerDown(op, r, target),
           op = "PDP_ENTRY" => \A b \in Banks : Closed(r, b) \/ Refreshing(r, b, target)
    PROVE  Steps(queue', rank', bank', target)
<1>1. rank[r].memState = "NOT_IN_PD" /\ \A f \in Of(queue, r) : f.op \notin PowerOps
  BY ServingRank, AvailableEntries
<1>2. op \in PowerOps
  BY DEF PowerOps, PowerDownEntries
<1>3. \A e : e.op = op => PowerMatches(Of(queue, r) \cup {e}, rank[r])
  BY <1>1 DEF PowerMatches, Queued, PowerOps, PowerDownEntries
<1>4. op = "PDP_ENTRY" => \A b \in Banks : Active(bank[r][b]) => EndQueued(Of(queue, r), b)
  BY RefreshingEntries DEF Closed
<1> QED BY <1>1, <1>2, <1>3, <1>4, PowerDownSteps

\* PDXA and PDXP, from the state st entered by the entry en.
LEMMA PowerDownExitSteps ==
    ASSUME Serving, NEW r \in Ranks, NEW op, NEW en, NEW st,
           <<op, en, st>> \in {<<"PDA_EXIT", "PDA_ENTRY", "PDN_ACT">>,
                               <<"PDP_EXIT", "PDP_ENTRY", "PDN_PRE">>},
           rank[r].memState = st \/ Pending(en, r), ~Pending(op, r),
           AddPowerDown(op, r, target)
    PROVE  Steps(queue', rank', bank', target)
<1> DEFINE E == Of(queue, r)
<1>1. /\ queue \in Seq(Entry) /\ AllApart(queue) /\ PowerMatches(E, rank[r])
  BY ServingRank DEF RankOK
<1>2. Queued(E, en) <=> Pending(en, r)
  BY <1>1, QueuedEntries DEF Pending, Queued
<1>3. ~Queued(E, op)
  BY <1>1, QueuedEntries DEF Pending, Queued
<1>4. ASSUME NEW f \in E, f.op \in PowerOps PROVE f.op = en
  <2>1. PICK i \in 1..Len(queue) : f = queue[i] /\ f.rank = r
    BY <1>1, QueuedEntries
  <2>2. CASE Pending(en, r)
    <3>1. PICK j \in 1..Len(queue) : queue[j].op = en /\ queue[j].rank = r
      BY <2>2 DEF Pending
    <3>2. en \in PowerOps
      BY DEF PowerOps
    <3>3. i = j \/ <<f.op, en>> \in Paired
      BY <1>1, <1>4, <2>1, <3>1, <3>2 DEF AllApart, Apart
    <3>4. f.op # op
      BY <1>3 DEF Queued
    <3> QED BY <2>1, <3>1, <3>3, <3>4 DEF Paired
  <2>3. CASE ~Pending(en, r)
    <3>1. rank[r].memState = st /\ ~Queued(E, en)
      BY <1>2, <2>3
    <3>2. Queued(E, f.op) /\ f.op # op /\ f.op # en
      BY <1>3, <3>1 DEF Queued
    <3>3. f.op \in {"SREF_ENTRY", "PDA_ENTRY", "PDA_EXIT", "PDP_ENTRY", "PDP_EXIT"}
      BY <1>4 DEF PowerOps
    <3> HIDE DEF E
    <3> QED BY <1>1, <3>1, <3>2, <3>3 DEF PowerMatches
  <2> QED BY <2>2, <2>3
<1>5. op \in PowerOps /\ op # "PDP_ENTRY" /\ <<op, en>> \in Paired /\ <<en, op>> \in Paired
  BY DEF PowerOps, Paired
<1>6. ASSUME NEW e, e.op = op PROVE PowerMatches(E \cup {e}, rank[r])
  <2>1. \A x : Queued(E \cup {e}, x) <=> Queued(E, x) \/ x = op
    BY <1>6 DEF Queued
  <2>2. Queued(E, en) \/ rank[r].memState = st
    BY <1>2
  <2> HIDE DEF E
  <2> QED BY <1>1, <2>1, <2>2 DEF PowerMatches
<1>7. \A f \in E : f.op \in PowerOps => <<op, f.op>> \in Paired /\ <<f.op, op>> \in Paired
  BY <1>4, <1>5
<1> QED BY <1>5, <1>6, <1>7, PowerDownSteps

LEMMA RankCommandSteps ==
    ASSUME Serving, NEW r \in Ranks, RankCommand(r)
    PROVE  Steps(queue', rank', bank', target)
<1>1. ValidOnly = TRUE
  BY DEF Serving
<1>2. CASE PREA(r)
  <2>1. \A b \in Banks : Closed(r, b) \/ Open(r, b, target)
    BY <1>1, <1>2, Allowed DEF PREA
  <2>2. Precharge(r, Banks, target) /\ queue' = queue
    BY <1>2 DEF PREA, handlePreAll
  <2>3. Steps(queue, rank', bank', target)
    BY <2>1, <2>2, PrechargeSteps
  <2> QED BY <2>2, <2>3
<1>3. CASE REFA(r)
  <2>1. Available(r) /\ \A b \in Banks : Closed(r, b)
    BY <1>1, <1>3, Allowed DEF REFA
  <2> QED BY <1>3, <2>1, RefreshSteps DEF REFA, AllClosed, Closed
<1>4. CASE SREFEN(r)
  <2>1. Available(r) /\ \A b \in Banks : Closed(r, b)
    BY <1>1, <1>4, Allowed DEF SREFEN
  <2> QED BY <1>4, <2>1, SelfRefreshSteps DEF SREFEN, AllClosed, Closed
<1>5. CASE SREFEX(r)
  <2>1. rank[r].memState = "SREF" \/ Pending("SREF_ENTRY", r)
    BY <1>1, <1>5, Allowed DEF SREFEX
  <2>2. handleSelfRefreshExit(r, target) /\ queue' = queue
    BY <1>5 DEF SREFEX
  <2>3. Steps(queue, rank', bank', target)
    BY <2>1, <2>2, SelfRefreshExitSteps
  <2> QED BY <2>2, <2>3
<1>6. CASE PDEA(r)
  <2>1. Available(r)
    BY <1>1, <1>6, Allowed DEF PDEA
  <2> QED BY <1>6, <2>1, PowerDownEntrySteps DEF PDEA, handlePowerDownActEntry, PowerDownEntries
<1>7. CASE PDEP(r)
  <2>1. Available(r) /\ \A b \in Banks : Closed(r, b) \/ Refreshing(r, b, target)
    BY <1>1, <1>7, Allowed DEF PDEP
  <2> QED BY <1>7, <2>1, PowerDownEntrySteps DEF PDEP, handlePowerDownPreEntry, PowerDownEntries
<1>8. CASE PDXA(r)
  <2>1. /\ rank[r].memState = "PDN_ACT" \/ Pending("PDA_ENTRY", r)
        /\ ~Pending("PDA_EXIT", r)
    BY <1>1, <1>8, Allowed DEF PDXA
  <2>2. AddPowerDown("PDA_EXIT", r, target)
    BY <1>8 DEF PDXA, handlePowerDownActExit
  <2> QED BY <2>1, <2>2, PowerDownExitSteps
<1>9. CASE PDXP(r)
  <2>1. /\ rank[r].memState = "PDN_PRE" \/ Pending("PDP_ENTRY", r)
        /\ ~Pending("PDP_EXIT", r)
    BY <1>1, <1>9, Allowed DEF PDXP
  <2>2. AddPowerDown("PDP_EXIT", r, target)
    BY <1>9 DEF PDXP, handlePowerDownPreExit
  <2> QED BY <2>1, <2>2, PowerDownExitSteps
<1> QED
  BY <1>2, <1>3, <1>4, <1>5, <1>6, <1>7, <1>8, <1>9 DEF RankCommand

LEMMA ServeSteps ==
    ASSUME ValidOnly = TRUE, IInv, TraceInv, StateInv, Serve
    PROVE  Steps(queue', rank', bank', now')
<1>1. ~Due(queue, target) /\ now' = target
  BY DEF Serve, DoCommand, GetWindowStats, Return
<1>2. target \in Nat /\ now \in Nat /\ now <= target
  BY DEF IInv
<1>3. Serving
  BY <1>1, <1>2, Later, NothingDue DEF IInv, CoreWithin, CallDue, Serving
<1>4. Steps(queue', rank', bank', target)
  <2>1. CASE rank' = rank /\ bank' = bank /\ queue' = queue
    <3> SUFFICES ASSUME NEW r \in Ranks
                 PROVE  RankStep(Of(queue, r), rank[r], bank[r], rank[r], bank[r], target)
      BY <2>1 DEF Steps, StateInv
    <3>1. RankOK(Of(queue, r), rank[r], bank[r], target)
      BY <1>3, ServingRank
    <3> QED BY <3>1 DEF RankStep, RankFollows, Follows, Moved
  <2>2. CASE \E r \in Ranks, b \in Banks : BankCommand(r, b)
    BY <1>3, <2>2, BankCommandSteps
  <2>3. CASE \E r \in Ranks : RankCommand(r)
    BY <1>3, <2>3, RankCommandSteps
  <2> QED BY <2>1, <2>2, <2>3 DEF Serve, GetWindowStats, coreVars, END_OF_SIMULATION
<1> QED BY <1>1, <1>4

LEMMA InitState == Init => StateInv
<1> SUFFICES ASSUME Init PROVE StateInv
  OBVIOUS
<1>1. /\ Len(queue) = 0 /\ now = 0 /\ \A r \in Ranks : rank[r] = NewRank
      /\ \A r \in Ranks, b \in Banks : bank[r][b] = NewBank
  BY DEF Init
<1>2. \A i \in 1..Len(queue) : FALSE
  BY <1>1
<1>3. \A r : Of(queue, r) = {}
  BY <1>2 DEF Of, Entries
<1>4. /\ NewRank.memState = "NOT_IN_PD" /\ NewRank.endRefreshTime = 0
      /\ ~IsOpen(NewRank.act) /\ ~IsOpen(NewRank.sref) /\ ~IsOpen(NewRank.powerDownAct)
      /\ ~IsOpen(NewRank.powerDownPre) /\ ~IsOpen(NewRank.deepSleepMode)
  BY DEF NewRank, NewInterval, IsOpen, NoTime
<1>5. /\ ~Active(NewBank) /\ ~IsOpen(NewBank.act) /\ NewBank.refreshEndTime = 0
      /\ NewBank.counter.act = 0 /\ NewBank.counter.pre = 0
  BY DEF NewBank, NewInterval, IsOpen, NoTime, Active, Counters
<1> SUFFICES ASSUME NEW r \in Ranks PROVE RankOK({}, rank[r], bank[r], 0)
  BY <1>1, <1>2, <1>3 DEF StateInv, AllApart
<1>6. AllClosed(bank[r])
  BY <1>1, <1>5 DEF AllClosed
<1> QED
  BY <1>1, <1>4, <1>5, <1>6
  DEF RankOK, PowerMatches, BanksBusy, RefreshesEnd, ClosedInTime, IntervalsMatch,
      RowsMatch, Queued, PoweredDown, AllClosed

\* A step of the program steps every rank, if it lets time pass at all.
LEMMA NextSteps ==
    ASSUME ValidOnly = TRUE, IInv, TraceInv, StateInv, [Next]_vars
    PROVE  Steps(queue', rank', bank', now') \/ UNCHANGED <<rank, bank, queue, now>>
<1>1. CASE \E t \in now..MaxTime : Call(t)
  BY <1>1 DEF Call
<1>2. CASE ExecuteImplicit
  BY <1>2, ImplicitSteps
<1>3. CASE Serve
  BY <1>3, ServeSteps
<1>4. CASE UNCHANGED vars
  BY <1>4 DEF vars
<1> QED BY <1>1, <1>2, <1>3, <1>4 DEF Next

LEMMA NextState ==
    ASSUME ValidOnly = TRUE
    PROVE  IInv /\ TraceInv /\ StateInv /\ [Next]_vars => StateInv'
BY NextSteps DEF Steps, RankStep, StateInv
-----------------------------------------------------------------------------
(* The theorems about the invariant                                        *)

\* On every valid trace the intervals, the states and the queue of DDR4Core
\* stay consistent.
THEOREM StateInvariantHolds ==
    ASSUME ValidOnly = TRUE
    PROVE  Spec => []StateInv
<1>1. IInv /\ TraceInv /\ StateInv /\ [Next]_vars => StateInv'
  BY NextState
<1> QED BY <1>1, InitState, InvariantHolds, TraceInvariantHolds, PTL DEF Spec

\* On a valid trace the interval that runs is that of the state a rank of DDR4
\* is in: no two states are counted at once, whatever implicit commands wait.
THEOREM IntervalsMatchStates ==
    ASSUME ValidOnly = TRUE
    PROVE  Spec => []StateMatchesIntervals
<1>1. IInv /\ StateInv => StateMatchesIntervals
  BY DEF StateInv, RankOK, IntervalsMatch, StateMatchesIntervals, PoweredDown, IInv,
         RanksWithin, Rank, MemStates, ClosedInTime
<1> QED BY <1>1, StateInvariantHolds, InvariantHolds, PTL

\* On a valid trace the active cycles of a bank of DDR4 are counted exactly
\* while its row is open and its rank is not powered down.
THEOREM BanksCountedWhileOpen ==
    ASSUME ValidOnly = TRUE
    PROVE  Spec => []BankActiveCounted
<1>1. StateInv => BankActiveCounted
  BY DEF StateInv, RankOK, IntervalsMatch, BankActiveCounted, PoweredDown, PowerDown
<1> QED BY <1>1, StateInvariantHolds, PTL

\* On a valid trace the active cycles of a rank of DDR4 are counted exactly
\* while one of its rows is open and it is not powered down.
THEOREM RanksCountedWhileOpen ==
    ASSUME ValidOnly = TRUE
    PROVE  Spec => []RankActiveCounted
<1>1. StateInv => RankActiveCounted
  BY DEF StateInv, RankOK, IntervalsMatch, RankActiveCounted, PoweredDown, PowerDown,
         AllClosed
<1> QED BY <1>1, StateInvariantHolds, PTL

\* On a valid trace DDR4Core counts one precharge for every row it opened and
\* closed again, whether by a command or by an auto-precharge.
THEOREM RowsClosedOnce ==
    ASSUME ValidOnly = TRUE
    PROVE  Spec => []EveryRowClosedOnce
<1>1. ASSUME NEW r \in Ranks, NEW b \in Banks
      PROVE  EndQueued(Of(queue, r), b) <=> RefreshPending(r, b)
  BY DEF EndQueued, Of, Entries, RefreshPending
<1>2. StateInv => EveryRowClosedOnce
  BY <1>1 DEF StateInv, RankOK, RowsMatch, EveryRowClosedOnce
<1> QED BY <1>2, StateInvariantHolds, PTL
-----------------------------------------------------------------------------
(* The cycles reported                                                     *)

\* A unit is a rank rk, or a bank of it, whose active interval is act.
UnitState(rk, act) ==
    IF IsOpen(rk.powerDownAct) THEN "PDA"
    ELSE IF IsOpen(rk.powerDownPre) THEN "PDP"
    ELSE IF IsOpen(rk.deepSleepMode) THEN "DSM"
    ELSE IF IsOpen(rk.sref) THEN "SREF"
    ELSE IF IsOpen(act) THEN "ACT" ELSE "PRE"

UnitCycles(rk, act, t) ==
    [PRE |-> t - (GetCountAt(act, t) + GetCountAt(rk.sref, t)
                  + GetCountAt(rk.powerDownAct, t) + GetCountAt(rk.powerDownPre, t)),
     ACT |-> GetCountAt(act, t),
     PDA |-> GetCountAt(rk.powerDownAct, t),
     PDP |-> GetCountAt(rk.powerDownPre, t),
     SREF |-> GetCountAt(rk.sref, t) - GetCountAt(rk.deepSleepMode, t),
     DSM |-> GetCountAt(rk.deepSleepMode, t)]

\* One interval runs at most.
UnitOK(rk, act) ==
    /\ rk.memState \in {"NOT_IN_PD", "PDN_ACT", "PDN_PRE", "SREF"}
    /\ ~IsOpen(rk.deepSleepMode)
    /\ rk.memState = "SREF" <=> IsOpen(rk.sref)
    /\ rk.memState = "PDN_ACT" <=> IsOpen(rk.powerDownAct)
    /\ rk.memState = "PDN_PRE" <=> IsOpen(rk.powerDownPre)
    /\ IsOpen(act) => rk.memState = "NOT_IN_PD"

\* The part of Moved that concerns a unit.
UnitMoved(rk, act, rk2, act2) ==
    rk2.memState # rk.memState =>
        /\ "NOT_IN_PD" \in {rk.memState, rk2.memState}
        /\ rk.memState \in {"PDN_PRE", "SREF"} => ~IsOpen(act2)
        /\ rk2.memState \in {"PDN_PRE", "SREF"} => ~IsOpen(act)

\* What an interval counts from n to t is that time, if it was open.
LEMMA CountGrows ==
    ASSUME NEW n \in Nat, NEW t \in Nat, n <= t, NEW i, Within(i, n), NEW i2, Follows(i, i2, t)
    PROVE  /\ GetCountAt(i, n) \in Nat
           /\ GetCountAt(i2, t) = GetCountAt(i, n) + (IF IsOpen(i) THEN t - n ELSE 0)
<1>1. /\ i \in Interval /\ i.count \in Nat /\ (i.start \in Nat \/ i.start = -1)
      /\ (i.end \in Nat \/ i.end = -1)
  BY DEF Within, Interval, Time, NoTime
<1>2. IsOpen(i) => i.start \in Nat /\ i.start <= n
  BY <1>1 DEF IsOpen, Within, GetStart, NoTime
<1>3. GetCountAt(i, n) = IF IsOpen(i) THEN i.count + (n - i.start) ELSE i.count
  BY <1>1, <1>2 DEF GetCountAt
<1>4. GetCountAt(i, t) = IF IsOpen(i) THEN i.count + (t - i.start) ELSE i.count
  BY <1>1, <1>2 DEF GetCountAt
<1>5. CASE i2 = i
  BY <1>1, <1>2, <1>3, <1>4, <1>5
<1>6. CASE i2 = CloseInterval(i, t) /\ IsOpen(i)
  <2>1. i2.count = i.count + (t - i.start)
    BY <1>1, <1>6 DEF CloseInterval, Interval
  <2>2. ~IsOpen(i2)
    BY <1>1, <1>6, Opened
  <2>3. GetCountAt(i2, t) = i2.count
    BY <2>2 DEF GetCountAt
  <2> QED BY <1>1, <1>2, <1>3, <1>6, <2>1, <2>3
<1>7. CASE ~IsOpen(i) /\ i2 = StartInterval(i, t)
  <2>1. i2.count = i.count /\ i2.start = t
    BY <1>1, <1>7 DEF StartInterval, Interval
  <2>2. GetCountAt(i2, t) = i2.count
    BY <2>1 DEF GetCountAt
  <2> QED BY <1>1, <1>3, <1>7, <2>1, <2>2
<1>8. CASE i2 = CloseInterval(i, t) /\ ~IsOpen(i)
  BY <1>1, <1>3, <1>4, <1>8 DEF CloseInterval
<1> QED BY <1>5, <1>6, <1>7, <1>8 DEF Follows

LEMMA UnitStates ==
    ASSUME NEW rk, NEW act, UnitOK(rk, act), NEW rk2, NEW act2, UnitOK(rk2, act2),
           UnitMoved(rk, act, rk2, act2)
    PROVE  /\ UnitState(rk2, act2) \in Ledger!States
           /\ \/ UnitState(rk2, act2) = UnitState(rk, act)
              \/ <<UnitState(rk, act), UnitState(rk2, act2)>> \in Ledger!Diagram
<1>1. /\ UnitState(rk, act) = IF rk.memState = "PDN_ACT" THEN "PDA"
                              ELSE IF rk.memState = "PDN_PRE" THEN "PDP"
                              ELSE IF rk.memState = "SREF" THEN "SREF"
                              ELSE IF IsOpen(act) THEN "ACT" ELSE "PRE"
      /\ UnitState(rk2, act2) = IF rk2.memState = "PDN_ACT" THEN "PDA"
                                ELSE IF rk2.memState = "PDN_PRE" THEN "PDP"
                                ELSE IF rk2.memState = "SREF" THEN "SREF"
                                ELSE IF IsOpen(act2) THEN "ACT" ELSE "PRE"
  BY DEF UnitState, UnitOK
<1> QED BY <1>1 DEF UnitOK, UnitMoved, Ledger!States, Ledger!Diagram

LEMMA UnitCounts ==
    ASSUME NEW n \in Nat, NEW t \in Nat, n <= t,
           NEW rk, RankWithin(rk, n), NEW act, Within(act, n), UnitOK(rk, act),
           NEW rk2, NEW act2, Follows(act, act2, t), Follows(rk.sref, rk2.sref, t),
           Follows(rk.powerDownAct, rk2.powerDownAct, t),
           Follows(rk.powerDownPre, rk2.powerDownPre, t),
           rk2.deepSleepMode = rk.deepSleepMode
    PROVE  UnitCycles(rk2, act2, t)
              = [UnitCycles(rk, act, n) EXCEPT ![UnitState(rk, act)] = @ + (t - n)]
<1> DEFINE d(i) == IF IsOpen(i) THEN t - n ELSE 0
           C == UnitCycles(rk, act, n)
           a == GetCountAt(act, n)
           s == GetCountAt(rk.sref, n)
           p == GetCountAt(rk.powerDownAct, n)
           q == GetCountAt(rk.powerDownPre, n)
           m == GetCountAt(rk.deepSleepMode, n)
<1>1. a \in Nat /\ GetCountAt(act2, t) = a + d(act)
  BY CountGrows
<1>2. s \in Nat /\ GetCountAt(rk2.sref, t) = s + d(rk.sref)
  BY CountGrows DEF RankWithin
<1>3. p \in Nat /\ GetCountAt(rk2.powerDownAct, t) = p + d(rk.powerDownAct)
  BY CountGrows DEF RankWithin
<1>4. q \in Nat /\ GetCountAt(rk2.powerDownPre, t) = q + d(rk.powerDownPre)
  BY CountGrows DEF RankWithin
<1>5. m \in Nat /\ GetCountAt(rk2.deepSleepMode, t) = m
  <2>1. Follows(rk.deepSleepMode, rk2.deepSleepMode, t) /\ Within(rk.deepSleepMode, n)
    BY DEF Follows, RankWithin
  <2>2. m \in Nat /\ GetCountAt(rk2.deepSleepMode, t) = m + d(rk.deepSleepMode)
    BY <2>1, CountGrows
  <2> QED BY <2>2 DEF UnitOK
<1>6. C = [PRE |-> n - (a + s + p + q), ACT |-> a, PDA |-> p, PDP |-> q, SREF |-> s - m,
           DSM |-> m]
  BY DEF UnitCycles
<1>7. UnitCycles(rk2, act2, t)
         = [PRE |-> t - ((a + d(act)) + (s + d(rk.sref)) + (p + d(rk.powerDownAct))
                         + (q + d(rk.powerDownPre))),
            ACT |-> a + d(act), PDA |-> p + d(rk.powerDownAct),
            PDP |-> q + d(rk.powerDownPre), SREF |-> (s + d(rk.sref)) - m, DSM |-> m]
  BY <1>1, <1>2, <1>3, <1>4, <1>5 DEF UnitCycles
<1> HIDE DEF C, a, s, p, q, m
<1>8. CASE rk.memState = "PDN_ACT"
  <2>1. /\ UnitState(rk, act) = "PDA" /\ d(rk.powerDownAct) = t - n
        /\ d(act) = 0 /\ d(rk.sref) = 0 /\ d(rk.powerDownPre) = 0
    BY <1>8 DEF UnitOK, UnitState
  <2> HIDE DEF d
  <2> QED BY <1>1, <1>2, <1>3, <1>4, <1>5, <1>6, <1>7, <2>1 DEF C
<1>9. CASE rk.memState = "PDN_PRE"
  <2>1. /\ UnitState(rk, act) = "PDP" /\ d(rk.powerDownPre) = t - n
        /\ d(act) = 0 /\ d(rk.sref) = 0 /\ d(rk.powerDownAct) = 0
    BY <1>9 DEF UnitOK, UnitState
  <2> HIDE DEF d
  <2> QED BY <1>1, <1>2, <1>3, <1>4, <1>5, <1>6, <1>7, <2>1 DEF C
<1>10. CASE rk.memState = "SREF"
  <2>1. /\ UnitState(rk, act) = "SREF" /\ d(rk.sref) = t - n
        /\ d(act) = 0 /\ d(rk.powerDownAct) = 0 /\ d(rk.powerDownPre) = 0
    BY <1>10 DEF UnitOK, UnitState
  <2> HIDE DEF d
  <2> QED BY <1>1, <1>2, <1>3, <1>4, <1>5, <1>6, <1>7, <2>1 DEF C
<1>11. CASE rk.memState = "NOT_IN_PD" /\ IsOpen(act)
  <2>1. /\ UnitState(rk, act) = "ACT" /\ d(act) = t - n
        /\ d(rk.sref) = 0 /\ d(rk.powerDownAct) = 0 /\ d(rk.powerDownPre) = 0
    BY <1>11 DEF UnitOK, UnitState
  <2> HIDE DEF d
  <2> QED BY <1>1, <1>2, <1>3, <1>4, <1>5, <1>6, <1>7, <2>1 DEF C
<1>12. CASE rk.memState = "NOT_IN_PD" /\ ~IsOpen(act)
  <2>1. /\ UnitState(rk, act) = "PRE" /\ d(act) = 0
        /\ d(rk.sref) = 0 /\ d(rk.powerDownAct) = 0 /\ d(rk.powerDownPre) = 0
    BY <1>12 DEF UnitOK, UnitState
  <2> HIDE DEF d
  <2> QED BY <1>1, <1>2, <1>3, <1>4, <1>5, <1>6, <1>7, <2>1 DEF C
<1> QED BY <1>8, <1>9, <1>10, <1>11, <1>12 DEF UnitOK

RankUnits == Ranks \X (Banks \cup {NoBank})
UnitAct(u, rks, bks) == IF u[2] = NoBank THEN rks[u[1]].act ELSE bks[u[1]][u[2]].act

\* The ledger before and after a step, in terms of the ranks and banks.
LEMMA LedgerValues ==
    ASSUME NEW u \in RankUnits
    PROVE  /\ PowerState(u[1], Act(u)) = UnitState(rank[u[1]], UnitAct(u, rank, bank))
           /\ Cycles(u[1], Act(u), Pre(u))
                 = UnitCycles(rank[u[1]], UnitAct(u, rank, bank), now)
           /\ PowerState(u[1], Act(u))' = UnitState(rank'[u[1]], UnitAct(u, rank', bank'))
           /\ Cycles(u[1], Act(u), Pre(u))'
                 = UnitCycles(rank'[u[1]], UnitAct(u, rank', bank'), now')
<1>1. PowerState(u[1], Act(u)) = UnitState(rank[u[1]], UnitAct(u, rank, bank))
  BY DEF PowerState, Act, UnitState, UnitAct
<1>2. PowerState(u[1], Act(u))' = UnitState(rank'[u[1]], UnitAct(u, rank', bank'))
  BY DEF PowerState, Act, UnitState, UnitAct
<1>3. Cycles(u[1], Act(u), Pre(u)) = UnitCycles(rank[u[1]], UnitAct(u, rank, bank), now)
  <2>1. CASE u[2] = NoBank
    BY <2>1 DEF Cycles, Act, Pre, RankPre, Reported, UnitCycles, UnitAct
  <2>2. CASE u[2] # NoBank
    BY <2>2 DEF Cycles, Act, Pre, BankPre, UnitCycles, UnitAct
  <2> QED BY <2>1, <2>2
<1>4. Cycles(u[1], Act(u), Pre(u))' = UnitCycles(rank'[u[1]], UnitAct(u, rank', bank'), now')
  <2>1. CASE u[2] = NoBank
    BY <2>1 DEF Cycles, Act, Pre, RankPre, Reported, UnitCycles, UnitAct
  <2>2. CASE u[2] # NoBank
    BY <2>2 DEF Cycles, Act, Pre, BankPre, UnitCycles, UnitAct
  <2> QED BY <2>1, <2>2
<1> QED BY <1>1, <1>2, <1>3, <1>4

LEMMA UnitsOK ==
    ASSUME NEW E, NEW rk \in Rank, NEW bks, NEW t, RankOK(E, rk, bks, t)
    PROVE  UnitOK(rk, rk.act) /\ \A b \in Banks : UnitOK(rk, bks[b].act)
<1>1. rk.memState \in {"NOT_IN_PD", "PDN_ACT", "PDN_PRE", "SREF"}
  BY DEF RankOK, IntervalsMatch, Rank, MemStates
<1> QED BY <1>1 DEF RankOK, IntervalsMatch, ClosedInTime, AllClosed, PoweredDown, UnitOK

LEMMA UnitsMove ==
    ASSUME NEW E, NEW rk, NEW bks, NEW n, RankOK(E, rk, bks, n),
           NEW E2, NEW rk2, NEW bks2, NEW t, RankStep(E2, rk, bks, rk2, bks2, t)
    PROVE  /\ UnitMoved(rk, rk.act, rk2, rk2.act)
           /\ \A b \in Banks : UnitMoved(rk, bks[b].act, rk2, bks2[b].act)
BY DEF RankOK, RankStep, RankFollows, Moved, IntervalsMatch, UnitMoved, AllClosed

\* A step of DDR4Core is a step of its ledger.
LEMMA LedgerStep ==
    ASSUME IInv, StateInv, IInv', now <= now', now' <= MaxTime,
           Steps(queue', rank', bank', now')
    PROVE  Ledger!Step
<1> DEFINE n == now
           t == now'
           V == [u \in RankUnits |-> UnitState(rank[u[1]], UnitAct(u, rank, bank))]
           V2 == [u \in RankUnits |-> UnitState(rank'[u[1]], UnitAct(u, rank', bank'))]
           C == [u \in RankUnits |-> UnitCycles(rank[u[1]], UnitAct(u, rank, bank), now)]
           C2 == [u \in RankUnits |-> UnitCycles(rank'[u[1]], UnitAct(u, rank', bank'), now')]
<1>1. n \in Nat /\ t \in Nat /\ n <= t
  BY DEF IInv
<1>2. ASSUME NEW u \in RankUnits
      PROVE  /\ V2[u] \in Ledger!States
             /\ V2[u] = V[u] \/ <<V[u], V2[u]>> \in Ledger!Diagram
             /\ C2[u] = [C[u] EXCEPT ![V[u]] = @ + (t - n)]
  <2> DEFINE r == u[1]
             rk == rank[r]
             rk2 == rank'[r]
             act == UnitAct(u, rank, bank)
             act2 == UnitAct(u, rank', bank')
  <2>1. r \in Ranks /\ (u[2] = NoBank \/ u[2] \in Banks)
    BY DEF RankUnits
  <2>2. /\ RankWithin(rk, n) /\ rk \in Rank /\ rk2 \in Rank
        /\ Within(rk.act, n) /\ \A b \in Banks : Within(bank[r][b].act, n)
    BY <2>1 DEF IInv, RanksWithin, RankWithin, BanksWithin, BankWithin
  <2>3. /\ RankOK(Of(queue, r), rk, bank[r], n)
        /\ RankStep(Of(queue', r), rk, bank[r], rk2, bank'[r], t)
    BY <2>1 DEF StateInv, Steps
  <2>4. RankOK(Of(queue', r), rk2, bank'[r], t) /\ RankFollows(rk, bank[r], rk2, bank'[r], t)
    BY <2>3 DEF RankStep
  <2>5. CASE u[2] = NoBank
    <3>1. act = rk.act /\ act2 = rk2.act
      BY <2>5 DEF UnitAct
    <3>2. UnitOK(rk, rk.act) /\ UnitOK(rk2, rk2.act) /\ UnitMoved(rk, rk.act, rk2, rk2.act)
      BY <2>2, <2>3, <2>4, UnitsOK, UnitsMove
    <3>3. V[u] = UnitState(rk, act) /\ V2[u] = UnitState(rk2, act2)
      OBVIOUS
    <3>4. C[u] = UnitCycles(rk, act, n) /\ C2[u] = UnitCycles(rk2, act2, t)
      OBVIOUS
    <3> HIDE DEF V, V2, C, C2, act, act2, rk, rk2, n, t, r
    <3>5. /\ UnitState(rk2, rk2.act) \in Ledger!States
          /\ \/ UnitState(rk2, rk2.act) = UnitState(rk, rk.act)
             \/ <<UnitState(rk, rk.act), UnitState(rk2, rk2.act)>> \in Ledger!Diagram
      BY <3>2, UnitStates
    <3>6. UnitCycles(rk2, rk2.act, t)
             = [UnitCycles(rk, rk.act, n) EXCEPT ![UnitState(rk, rk.act)] = @ + (t - n)]
      BY <1>1, <2>2, <2>4, <3>2, UnitCounts DEF RankFollows
    <3> QED BY <3>1, <3>3, <3>4, <3>5, <3>6
  <2>6. CASE u[2] # NoBank
    <3> DEFINE b == u[2]
               i == bank[r][b].act
               i2 == bank'[r][b].act
    <3>1. act = i /\ act2 = i2 /\ b \in Banks
      BY <2>1, <2>6 DEF UnitAct
    <3>2. UnitOK(rk, i) /\ UnitOK(rk2, i2) /\ UnitMoved(rk, i, rk2, i2)
      BY <2>2, <2>3, <2>4, <3>1, UnitsOK, UnitsMove
    <3>3. V[u] = UnitState(rk, act) /\ V2[u] = UnitState(rk2, act2)
      OBVIOUS
    <3>4. C[u] = UnitCycles(rk, act, n) /\ C2[u] = UnitCycles(rk2, act2, t)
      OBVIOUS
    <3>5. Within(i, n) /\ Follows(i, i2, t)
      BY <2>2, <2>4, <3>1 DEF RankFollows
    <3> HIDE DEF V, V2, C, C2, act, act2, rk, rk2, n, t, r, b, i, i2
    <3>6. /\ UnitState(rk2, i2) \in Ledger!States
          /\ \/ UnitState(rk2, i2) = UnitState(rk, i)
             \/ <<UnitState(rk, i), UnitState(rk2, i2)>> \in Ledger!Diagram
      BY <3>2, UnitStates
    <3>7. UnitCycles(rk2, i2, t)
             = [UnitCycles(rk, i, n) EXCEPT ![UnitState(rk, i)] = @ + (t - n)]
      BY <1>1, <2>2, <2>4, <3>2, <3>5, UnitCounts DEF RankFollows
    <3> QED BY <3>1, <3>3, <3>4, <3>6, <3>7
  <2> QED BY <2>5, <2>6
<1>3. /\ [u \in RankUnits |-> PowerState(u[1], Act(u))] = V
      /\ [u \in RankUnits |-> Cycles(u[1], Act(u), Pre(u))] = C
  BY LedgerValues
<1>4. /\ [u \in RankUnits |-> PowerState(u[1], Act(u))'] = V2
      /\ [u \in RankUnits |-> Cycles(u[1], Act(u), Pre(u))'] = C2
  BY LedgerValues
<1>5. now' \in now..MaxTime
  BY <1>1, SizeAssumption DEF SizeAssumption
<1>6. /\ C2 = [u \in RankUnits |-> [C[u] EXCEPT ![V[u]] = @ + (now' - now)]]
      /\ V2 \in [RankUnits -> Ledger!States]
      /\ \A u \in RankUnits : V2[u] = V[u] \/ <<V[u], V2[u]>> \in Ledger!Diagram
  BY <1>2
<1> HIDE DEF V, V2, C, C2
<1> QED BY <1>3, <1>4, <1>5, <1>6 DEF Ledger!Step, RankUnits

LEMMA LedgerInit == Init => Ledger!Init
<1> SUFFICES ASSUME Init PROVE Ledger!Init
  OBVIOUS
<1>1. /\ now = 0 /\ \A r \in Ranks : rank[r] = NewRank
      /\ \A r \in Ranks, b \in Banks : bank[r][b] = NewBank
  BY DEF Init
<1>2. /\ NewRank.act = NewInterval /\ NewRank.sref = NewInterval
      /\ NewRank.powerDownAct = NewInterval /\ NewRank.powerDownPre = NewInterval
      /\ NewRank.deepSleepMode = NewInterval /\ NewBank.act = NewInterval
  BY DEF NewRank, NewBank
<1>3. ~IsOpen(NewInterval) /\ GetCountAt(NewInterval, 0) = 0
  BY DEF NewInterval, IsOpen, GetCountAt, NoTime
<1>4. ASSUME NEW u \in RankUnits
      PROVE  /\ PowerState(u[1], Act(u)) = "PRE"
             /\ Cycles(u[1], Act(u), Pre(u)) = [s \in Ledger!States |-> 0]
  <2>1. u[1] \in Ranks /\ (u[2] = NoBank \/ u[2] \in Banks)
    BY DEF RankUnits
  <2>2. rank[u[1]] = NewRank /\ UnitAct(u, rank, bank) = NewInterval
    BY <1>1, <1>2, <2>1 DEF UnitAct
  <2>3. UnitState(NewRank, NewInterval) = "PRE"
    BY <1>2, <1>3 DEF UnitState
  <2>4. UnitCycles(NewRank, NewInterval, 0)
           = [PRE |-> 0, ACT |-> 0, PDA |-> 0, PDP |-> 0, SREF |-> 0, DSM |-> 0]
    BY <1>2, <1>3 DEF UnitCycles
  <2>5. [PRE |-> 0, ACT |-> 0, PDA |-> 0, PDP |-> 0, SREF |-> 0, DSM |-> 0]
           = [s \in Ledger!States |-> 0]
    BY DEF Ledger!States
  <2> QED BY <1>1, <2>2, <2>3, <2>4, <2>5, LedgerValues
<1> QED BY <1>1, <1>4 DEF Ledger!Init, RankUnits

\* No call has a later time than MaxTime.
Bounded == target <= MaxTime

LEMMA StaysBounded ==
    /\ Init => Bounded
    /\ IInv /\ Bounded /\ [Next]_vars => Bounded'
<1>1. Init => Bounded
  BY SizeAssumption DEF SizeAssumption, Init, Bounded
<1>2. IInv /\ Bounded /\ [Next]_vars => Bounded'
  <2> SUFFICES ASSUME IInv, Bounded, [Next]_vars PROVE Bounded'
    OBVIOUS
  <2>1. CASE \E t \in now..MaxTime : Call(t)
    BY <2>1 DEF Call, Bounded
  <2>2. CASE ExecuteImplicit
    BY <2>2 DEF ExecuteImplicit, Pop, Bounded
  <2>3. CASE Serve
    BY <2>3 DEF Serve, DoCommand, GetWindowStats, Return, Bounded
  <2>4. CASE UNCHANGED vars
    BY <2>4 DEF vars, Bounded
  <2> QED BY <2>1, <2>2, <2>3, <2>4 DEF Next
<1> QED BY <1>1, <1>2

\* Events happen in the order of their times, none after the call that runs.
LEMMA TimePasses ==
    ASSUME IInv, Bounded, [Next]_vars
    PROVE  now <= now' /\ now' <= MaxTime
<1>1. /\ now \in Nat /\ target \in Nat /\ now <= target /\ target <= MaxTime
      /\ MaxTime \in Nat /\ QueueFrom(queue, now)
  BY SizeAssumption DEF SizeAssumption, IInv, Bounded
<1>2. CASE \E t \in now..MaxTime : Call(t)
  BY <1>1, <1>2 DEF Call
<1>3. CASE ExecuteImplicit
  <2>1. queue # <<>> /\ Head(queue).time <= target /\ now' = Head(queue).time
    BY <1>3 DEF ExecuteImplicit, Pop, Due
  <2>2. Head(queue) \in Entry /\ now <= Head(queue).time
    BY <1>1, <2>1, PopWithin
  <2> QED BY <1>1, <2>1, <2>2, EntryTime
<1>4. CASE Serve
  BY <1>1, <1>4 DEF Serve, DoCommand, GetWindowStats, Return
<1>5. CASE UNCHANGED vars
  BY <1>1, <1>5 DEF vars
<1> QED BY <1>2, <1>3, <1>4, <1>5 DEF Next

LEMMA LedgerNext ==
    ASSUME ValidOnly = TRUE, IInv, TraceInv, StateInv, Bounded, IInv', [Next]_vars
    PROVE  [Ledger!Step]_(Ledger!ledger)
<1>1. CASE Steps(queue', rank', bank', now')
  BY <1>1, TimePasses, LedgerStep
<1>2. CASE UNCHANGED <<rank, bank, queue, now>>
  <2>1. ASSUME NEW u \in RankUnits
        PROVE  /\ PowerState(u[1], Act(u))' = PowerState(u[1], Act(u))
               /\ Cycles(u[1], Act(u), Pre(u))' = Cycles(u[1], Act(u), Pre(u))
    BY <1>2, LedgerValues
  <2> QED BY <1>2, <2>1 DEF Ledger!ledger, RankUnits
<1> QED BY <1>1, <1>2, NextSteps

\* On a valid trace DDR4Core implements PowerStates: the cycles it reports of a
\* rank and of a bank are the time spent in each power state, and add up to the
\* simulated time.
THEOREM CyclesAreResidencies ==
    ASSUME ValidOnly = TRUE
    PROVE  Spec => ReportsPowerStates
<1>1. IInv /\ TraceInv /\ StateInv /\ Bounded /\ IInv' /\ [Next]_vars
         => [Ledger!Step]_(Ledger!ledger)
  BY LedgerNext
<1>2. Spec => []Bounded
  BY StaysBounded, InvariantHolds, PTL DEF Spec
<1> QED
  BY <1>1, <1>2, LedgerInit, InvariantHolds, TraceInvariantHolds, StateInvariantHolds, PTL
  DEF Spec, ReportsPowerStates, Ledger!Spec
=============================================================================
