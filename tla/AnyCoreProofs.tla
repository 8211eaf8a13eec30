---------------------------- MODULE AnyCoreProofs ----------------------------
(***************************************************************************)
(* What the cores of all five standards keep whatever the trace, valid or  *)
(* not, for any number of ranks and banks and any timings: their types,    *)
(* the order of the queue, and that no statistic counts more than the      *)
(* simulated time.  The four that refresh single banks are shown to be     *)
(* instances of one bankwise core, whose handlers are proved about once.   *)
(***************************************************************************)
EXTENDS MCAnyCore, CoreLemmas

\* No refresh of any standard is longer.
Longest == tRFC + tRFCsb + tRFCPB + tRFCAB + tRFCDB

\* The inductive invariant.  It bounds, beside what the properties say, the
\* times a power-down is computed from (BanksWithin) and the last command.
IInv ==
    /\ RanksWithin(rank, now)
    /\ BanksWithin(bank, now, Longest)
    /\ QueueFrom(queue, now)
    /\ last \in Nat /\ last <= now
    /\ phase \in {"idle", "busy"}
    /\ target \in Nat /\ now \in Nat /\ now <= target
    /\ phase = "idle" => now = target
    /\ calls \in Nat

\* The state the handlers read and write, at time t.
CoreWithin(rks, bks, q, t) ==
    RanksWithin(rks, t) /\ BanksWithin(bks, t, Longest) /\ QueueFrom(q, t)

\* The lengths of refreshes.
Lengths == {d \in Nat : d <= Longest}
Delays == {prechargeOffsetRD, prechargeOffsetWR}
DelayedOps == ImplicitOps \ BankOps

\* The rank leaves active power-down: in LPDDR6 it is active in any case.
PowerDownActExited(r, t) ==
    \/ PowerDownActExit(r, t)
    \/ /\ Reopen(r, t)
       /\ rank' = [rank EXCEPT ![r] = LPDDR6!ActiveAfterExit(@, t)]

\* Deep sleep begins or ends, which only LPDDR5 has.
DeepSleepChanged(r, t) ==
    /\ \/ rank' = [rank EXCEPT ![r] = LPDDR5!DeepSleepEntered(@, t)]
       \/ rank' = [rank EXCEPT ![r] = LPDDR5!DeepSleepLeft(@, t)]
    /\ UNCHANGED bank

\* An implicit command of a bankwise core.
Executed(e) ==
    \/ e.op = "AUTO_PRECHARGE" /\ Precharge(e.rank, {e.bank}, e.time)
    \/ e.op = "REFRESH_END" /\ RefreshEnd(e.rank, e.bank, e.time)
    \/ e.op = "SREF_ENTRY" /\ SelfRefreshEntry(e.rank, e.time)
    \/ e.op = "PDA_ENTRY" /\ PowerDownActEntry(e.rank, e.time)
    \/ e.op = "PDA_EXIT" /\ PowerDownActExited(e.rank, e.time)
    \/ e.op = "PDP_ENTRY" /\ PowerDownPreEntry(e.rank, e.time)
    \/ e.op = "PDP_EXIT" /\ PowerDownPreExit(e.rank, e.time)

\* A command to a rank of a bankwise core, at time t.
Handled(r, t) ==
    \/ \E b \in Banks : Activate(r, b, t) /\ UNCHANGED queue
    \/ \E bs \in SUBSET Int : Precharge(r, bs, t) /\ UNCHANGED queue
    \/ \E b \in Banks, c \in Counters : Count(r, b, c) /\ UNCHANGED queue
    \/ \E b \in Banks, c \in Counters, d \in Delays : CountAndPrecharge(r, b, c, t + d)
    \/ \E bs \in Seq(Banks), c \in Counters, d \in Lengths : RefreshSome(r, bs, c, t, t + d)
    \/ \E d \in Lengths : RefreshAll(r, t, t + d) /\ queue' = RefreshQueue(r, AllBanks, t + d)
    \/ \E d \in Lengths : /\ RefreshAll(r, t, t + d)
                          /\ queue' = Add(RefreshQueue(r, AllBanks, t + d),
                                          ImplicitFor(t + d, "SREF_ENTRY", r, NoBank))
    \/ SelfRefreshExit(r, t) /\ UNCHANGED queue
    \/ DeepSleepChanged(r, t) /\ UNCHANGED queue
    \/ \E op \in DelayedOps : AddPowerDown(op, r, t)

\* The steps of a bankwise core other than calls.
BankwiseStep ==
    \/ Pop /\ Executed(Head(queue))
    \/ DoCommand /\ \/ \E r \in Ranks : Handled(r, target)
                    \/ UNCHANGED <<rank, bank, queue>>
    \/ GetWindowStats
-----------------------------------------------------------------------------
(* The constants                                                           *)

LEMMA LongestIs ==
    /\ Longest \in Nat /\ {tRFC, tRFCsb, tRFCPB, tRFCAB, tRFCDB} \subseteq Lengths
    /\ tRFC \in Nat
<1>1. /\ tRFC \in Nat /\ tRFCsb \in Nat /\ tRFCPB \in Nat /\ tRFCAB \in Nat /\ tRFCDB \in Nat
  BY AnyCoreAssumption
     DEF AnyCoreAssumption, DDR5!GroupAssumption, LPDDR4!RefreshAssumption, LPDDR6!RefreshAssumption
<1> QED BY <1>1 DEF Longest, Lengths

LEMMA DelaysAre == \A d \in Delays : d \in Nat
BY TimingAssumption DEF TimingAssumption, Delays

LEMMA AllBanksTyped == AllBanks \in Seq(Banks)
<1>1. NumBanks \in Nat
  BY SizeAssumption DEF SizeAssumption
<1>2. AllBanks \in [1..NumBanks -> Banks]
  BY <1>1 DEF Banks, AllBanks
<1> QED BY <1>1, <1>2

-----------------------------------------------------------------------------
(* The records of a bankwise core                                          *)

LEMMA RankBusyWithin ==
    ASSUME NEW t \in Nat, NEW rk, RankWithin(rk, t), NEW bks, NEW te \in Nat
    PROVE  /\ RankWithin(RankBusy(rk, bks, t), t)
           /\ RankWithin(RankRefreshing(rk, bks, t, te), t)
<1>1. Within(StartInterval(rk.act, t), t) /\ StartInterval(rk.act, t) \in Interval
  BY StartWithin DEF RankWithin, Within
<1>2. RankWithin(RankBusy(rk, bks, t), t)
  BY <1>1 DEF RankWithin, Rank, RankBusy, ActStarted
<1>3. te \in Time
  BY DEF Time
<1> DEFINE b == RankBusy(rk, bks, t)
<1>4. RankRefreshing(rk, bks, t, te) = [b EXCEPT !.endRefreshTime = te] /\ RankWithin(b, t)
  BY <1>2 DEF RankRefreshing
<1> HIDE DEF b
<1>5. RankWithin([b EXCEPT !.endRefreshTime = te], t)
  BY <1>3, <1>4 DEF RankWithin, Rank
<1> QED BY <1>2, <1>4, <1>5

LEMMA RefreshStartedWithin ==
    ASSUME NEW t \in Nat, NEW bk, BankWithin(bk, t, Longest), NEW c \in Counters,
           NEW d \in Lengths
    PROVE  BankWithin(RefreshStarted(bk, c, t, t + d), t, Longest)
<1> DEFINE k == Counted(bk, c)
           s == [k EXCEPT !.bankState = "ACTIVE", !.refreshEndTime = t + d,
                          !.act = StartIfNotRunning(k.act, t)]
<1>1. BankWithin(k, t, Longest)
  BY CountedWithin, LongestIs
<1>2. Within(StartIfNotRunning(k.act, t), t) /\ StartIfNotRunning(k.act, t) \in Interval
  BY <1>1, StartIfNotRunningWithin DEF BankWithin, Within
<1>3. RefreshStarted(bk, c, t, t + d) = s
  BY DEF RefreshStarted
<1> HIDE DEF k
<1>4. /\ s.act = StartIfNotRunning(k.act, t) /\ s.latestPre = k.latestPre
      /\ s.refreshEndTime = t + d /\ s \in Bank
  <2>1. t + d \in Time
    BY DEF Time, Lengths
  <2> QED BY <1>1, <1>2, <2>1 DEF BankWithin, Bank
<1>5. t + d <= t + Longest
  BY LongestIs DEF Lengths
<1> HIDE DEF s
<1> QED BY <1>1, <1>2, <1>3, <1>4, <1>5 DEF BankWithin

-----------------------------------------------------------------------------
(* The handlers of a bankwise core                                         *)

LEMMA ActivateWithin ==
    ASSUME NEW t \in Nat, NEW r \in Ranks, NEW b \in Banks,
           RanksWithin(rank, t), BanksWithin(bank, t, Longest), Activate(r, b, t)
    PROVE  RanksWithin(rank', t) /\ BanksWithin(bank', t, Longest)
<1>1. BankWithin(Activated(bank[r][b], t), t, Longest)
  BY ActivatedWithin, LongestIs DEF BanksWithin
<1>2. RankWithin(RankBusy(rank[r], bank[r], t), t)
  BY RankBusyWithin DEF RanksWithin
<1>3. /\ bank' = [bank EXCEPT ![r][b] = Activated(bank[r][b], t)]
      /\ rank' = [rank EXCEPT ![r] = RankBusy(rank[r], bank[r], t)]
  BY DEF Activate
<1> QED BY <1>1, <1>2, <1>3, OneRank, OneBank, LongestIs

LEMMA RefreshBanksWithin ==
    ASSUME NEW t \in Nat, NEW r \in Ranks, NEW bs, NEW c \in Counters, NEW d \in Lengths,
           BanksWithin(bank, t, Longest), RefreshBanks(r, bs, c, t, t + d)
    PROVE  BanksWithin(bank', t, Longest)
<1> DEFINE f == [b \in Banks |-> IF \E i \in 1..Len(bs) : bs[i] = b
                                 THEN RefreshStarted(bank[r][b], c, t, t + d) ELSE bank[r][b]]
<1>1. \A b \in Banks : BankWithin(f[b], t, Longest)
  BY RefreshStartedWithin DEF BanksWithin
<1>2. f \in [Banks -> Bank]
  BY <1>1 DEF BankWithin
<1>3. bank' = [bank EXCEPT ![r] = f]
  BY DEF RefreshBanks
<1> HIDE DEF f
<1> QED BY <1>1, <1>2, <1>3, BanksOfRank, LongestIs

LEMMA RefreshAllWithin ==
    ASSUME NEW t \in Nat, NEW r \in Ranks, NEW d \in Lengths,
           RanksWithin(rank, t), BanksWithin(bank, t, Longest), RefreshAll(r, t, t + d)
    PROVE  RanksWithin(rank', t) /\ BanksWithin(bank', t, Longest)
<1>1. t + d \in Nat /\ "refAllBank" \in Counters
  BY DEF Lengths, Counters
<1>2. RankWithin(RankRefreshing(rank[r], bank[r], t, t + d), t)
  BY <1>1, RankBusyWithin DEF RanksWithin
<1>3. rank' = [rank EXCEPT ![r] = RankRefreshing(rank[r], bank[r], t, t + d)]
  BY DEF RefreshAll
<1>4. RefreshBanks(r, AllBanks, "refAllBank", t, t + d)
  BY DEF RefreshAll
<1> QED BY <1>1, <1>2, <1>3, <1>4, OneRank, RefreshBanksWithin

LEMMA RefreshQueueWithin ==
    ASSUME NEW t \in Nat, NEW r \in Ranks, NEW bs \in Seq(Banks), NEW d \in Lengths,
           QueueFrom(queue, t)
    PROVE  QueueFrom(RefreshQueue(r, bs, t + d), t)
<1>1. t + d \in Nat /\ t <= t + d
  BY DEF Lengths
<1>2. /\ RefreshEnds(r, bs, t + d) \in Seq(Entry)
      /\ \A i \in 1..Len(RefreshEnds(r, bs, t + d)) : RefreshEnds(r, bs, t + d)[i].time = t + d
  BY <1>1, RefreshEndsType
<1> QED BY <1>1, <1>2, AddAllWithin DEF RefreshQueue

LEMMA RefreshSomeWithin ==
    ASSUME NEW t \in Nat, NEW r \in Ranks, NEW bs \in Seq(Banks), NEW c \in Counters,
           NEW d \in Lengths,
           CoreWithin(rank, bank, queue, t), RefreshSome(r, bs, c, t, t + d)
    PROVE  CoreWithin(rank', bank', queue', t)
<1>1. RankWithin(RankBusy(rank[r], bank[r], t), t)
  BY RankBusyWithin DEF RanksWithin, CoreWithin
<1>2. /\ rank' = [rank EXCEPT ![r] = RankBusy(rank[r], bank[r], t)]
      /\ RefreshBanks(r, bs, c, t, t + d)
      /\ queue' = RefreshQueue(r, bs, t + d)
  BY DEF RefreshSome
<1> QED BY <1>1, <1>2, OneRank, RefreshBanksWithin, RefreshQueueWithin DEF CoreWithin

LEMMA ReopenWithin ==
    ASSUME NEW t \in Nat, NEW r \in Ranks, BanksWithin(bank, t, Longest), Reopen(r, t)
    PROVE  BanksWithin(bank', t, Longest)
<1> DEFINE f == [b \in Banks |-> IF b \in ClosedAtEntry(r)
                                 THEN ActStarted(bank[r][b], t) ELSE bank[r][b]]
<1>1. \A b \in Banks : BankWithin(f[b], t, Longest)
  BY ActStartedWithin, LongestIs DEF BanksWithin
<1>2. f \in [Banks -> Bank]
  BY <1>1 DEF BankWithin
<1>3. bank' = [bank EXCEPT ![r] = f]
  BY DEF Reopen
<1> HIDE DEF f
<1> QED BY <1>1, <1>2, <1>3, BanksOfRank, LongestIs

LEMMA PowerDownActExitedWithin ==
    ASSUME NEW t \in Nat, NEW r \in Ranks, RanksWithin(rank, t),
           BanksWithin(bank, t, Longest), PowerDownActExited(r, t)
    PROVE  RanksWithin(rank', t) /\ BanksWithin(bank', t, Longest)
<1> DEFINE rk == rank[r]
           started == [rk EXCEPT !.memState = "NOT_IN_PD",
                           !.powerDownAct = CloseInterval(rk.powerDownAct, t),
                           !.act = StartInterval(rk.act, t)]
           stopped == [rk EXCEPT !.memState = "NOT_IN_PD",
                           !.powerDownAct = CloseInterval(rk.powerDownAct, t), !.act = rk.act]
<1>1. RankWithin(rk, t)
  BY DEF RanksWithin
<1>2. Reopen(r, t) /\ (rank' = [rank EXCEPT ![r] = started] \/ rank' = [rank EXCEPT ![r] = stopped])
  <2>1. CASE PowerDownActExit(r, t)
    BY <2>1 DEF PowerDownActExit, PowerDownActLeft
  <2>2. CASE /\ Reopen(r, t)
             /\ rank' = [rank EXCEPT ![r] = LPDDR6!ActiveAfterExit(rank[r], t)]
    BY <2>2
       DEF LPDDR6!ActiveAfterExit, StartInterval, LPDDR6!StartInterval, CloseInterval,
           LPDDR6!CloseInterval, NoTime, LPDDR6!NoTime, IsOpen, LPDDR6!IsOpen
  <2> QED BY <2>1, <2>2 DEF PowerDownActExited
<1> HIDE DEF rk
<1>3. /\ Within(StartInterval(rk.act, t), t) /\ StartInterval(rk.act, t) \in Interval
      /\ Within(CloseInterval(rk.powerDownAct, t), t)
      /\ CloseInterval(rk.powerDownAct, t) \in Interval
  BY <1>1, StartWithin, CloseWithin DEF RankWithin, Within
<1>4. RankWithin(started, t) /\ RankWithin(stopped, t)
  BY <1>1, <1>3 DEF RankWithin, Rank, MemStates
<1> HIDE DEF started, stopped
<1> QED BY <1>2, <1>4, OneRank, ReopenWithin

LEMMA PowerDownPreWithin ==
    ASSUME NEW t \in Nat, NEW r \in Ranks, RanksWithin(rank, t),
           PowerDownPreEntry(r, t) \/ PowerDownPreExit(r, t)
    PROVE  RanksWithin(rank', t) /\ bank' = bank
<1>1. RankWithin(rank[r], t)
  BY DEF RanksWithin
<1>2. \/ rank' = [rank EXCEPT ![r] = PowerDownPreEntered(rank[r], t)]
      \/ rank' = [rank EXCEPT ![r] = PowerDownPreLeft(rank[r], t)]
  BY DEF PowerDownPreEntry, PowerDownPreExit
<1>3. /\ Within(StartInterval(rank[r].powerDownPre, t), t)
      /\ StartInterval(rank[r].powerDownPre, t) \in Interval
  BY <1>1, StartWithin DEF RankWithin, Within
<1>4. RankWithin(PowerDownPreEntered(rank[r], t), t)
  BY <1>1, <1>3 DEF RankWithin, Rank, MemStates, PowerDownPreEntered
<1>5. RankWithin(PowerDownPreLeft(rank[r], t), t)
  BY <1>1, PowerDownWithin
<1>6. bank' = bank
  BY DEF PowerDownPreEntry, PowerDownPreExit
<1> QED BY <1>2, <1>4, <1>5, <1>6, OneRank

LEMMA DeepSleepWithin ==
    ASSUME NEW t \in Nat, NEW r \in Ranks, RanksWithin(rank, t), DeepSleepChanged(r, t)
    PROVE  RanksWithin(rank', t) /\ bank' = bank
<1> DEFINE rk == rank[r]
           entered == [rk EXCEPT !.deepSleepMode = StartInterval(rk.deepSleepMode, t),
                                 !.deepSleeps = rk.deepSleeps + 1, !.memState = "DSM"]
           left == [rk EXCEPT !.deepSleepMode = CloseInterval(rk.deepSleepMode, t),
                              !.memState = "SREF"]
<1>1. RankWithin(rk, t)
  BY DEF RanksWithin
<1>2. /\ bank' = bank
      /\ rank' = [rank EXCEPT ![r] = entered] \/ rank' = [rank EXCEPT ![r] = left]
  BY DEF DeepSleepChanged, LPDDR5!DeepSleepEntered, LPDDR5!DeepSleepLeft, StartInterval,
         LPDDR5!StartInterval, CloseInterval, LPDDR5!CloseInterval, NoTime, LPDDR5!NoTime,
         IsOpen, LPDDR5!IsOpen
<1> HIDE DEF rk
<1>3. /\ Within(StartInterval(rk.deepSleepMode, t), t)
      /\ StartInterval(rk.deepSleepMode, t) \in Interval
      /\ Within(CloseInterval(rk.deepSleepMode, t), t)
      /\ CloseInterval(rk.deepSleepMode, t) \in Interval
  BY <1>1, StartWithin, CloseWithin DEF RankWithin, Within
<1>4. rk.deepSleeps + 1 \in Nat
  BY <1>1 DEF RankWithin, Rank
<1>5. RankWithin(entered, t) /\ RankWithin(left, t)
  BY <1>1, <1>3, <1>4 DEF RankWithin, Rank, MemStates
<1> HIDE DEF entered, left
<1> QED BY <1>2, <1>5, OneRank

-----------------------------------------------------------------------------
(* The steps of a bankwise core                                            *)

LEMMA InitWithin == Init => IInv
<1> SUFFICES ASSUME Init PROVE IInv
  OBVIOUS
<1>1. RankWithin(NewRank, 0) /\ BankWithin(NewBank, 0, Longest)
  BY NewRankWithin, NewBankWithin, LongestIs
<1>2. RanksWithin(rank, 0)
  BY <1>1 DEF Init, RanksWithin, RankWithin
<1>3. BanksWithin(bank, 0, Longest)
  BY <1>1 DEF Init, BanksWithin, BankWithin
<1>4. QueueFrom(queue, 0)
  BY DEF Init, QueueFrom, Sorted
<1> QED BY <1>2, <1>3, <1>4 DEF Init, IInv

\* When time passes the state stays within it.
LEMMA Later ==
    ASSUME IInv, NEW t \in Nat, now <= t
    PROVE  RanksWithin(rank, t) /\ BanksWithin(bank, t, Longest)
<1>1. RanksWithin(rank, t)
  BY RankLater DEF IInv, RanksWithin
<1>2. BanksWithin(bank, t, Longest)
  BY BankLater, LongestIs DEF IInv, BanksWithin
<1> QED BY <1>1, <1>2

LEMMA CallStep ==
    ASSUME IInv, NEW t \in now..MaxTime, Call(t)
    PROVE  IInv'
<1>1. now \in Nat /\ MaxTime \in Nat
  BY SizeAssumption DEF IInv, SizeAssumption
<1>2. t \in Nat /\ now <= t
  BY <1>1
<1> QED BY <1>2 DEF IInv, Call

\* The state at the time of the first implicit command.
LEMMA FirstEntry ==
    ASSUME IInv, Pop
    PROVE  LET e == Head(queue) IN
           /\ e \in Entry /\ e.time \in Nat /\ e.rank \in Ranks
           /\ e.op \in BankOps => e.bank \in Banks
           /\ now <= e.time /\ e.time <= target
           /\ RanksWithin(rank, e.time) /\ BanksWithin(bank, e.time, Longest)
<1> DEFINE e == Head(queue)
<1>1. queue # <<>> /\ e.time <= target
  BY DEF Pop, Due
<1>2. e \in Entry /\ now <= e.time
  BY <1>1, PopWithin DEF IInv
<1>3. e.time \in Nat /\ e.rank \in Ranks /\ (e.op \in BankOps => e.bank \in Banks)
  BY <1>2 DEF Entry, Time
<1>4. RanksWithin(rank, e.time) /\ BanksWithin(bank, e.time, Longest)
  BY <1>2, <1>3, Later
<1> QED BY <1>1, <1>2, <1>3, <1>4

\* An implicit command keeps the invariant if it keeps the ranks and banks.
LEMMA PopStep ==
    ASSUME IInv, Pop,
           RanksWithin(rank', Head(queue).time), BanksWithin(bank', Head(queue).time, Longest)
    PROVE  IInv'
<1> DEFINE t == Head(queue).time
<1>1. t \in Nat /\ now <= t /\ t <= target
  BY FirstEntry
<1>2. QueueFrom(Tail(queue), t)
  BY PopWithin DEF IInv, Pop, Due
<1>3. /\ phase = "busy" /\ queue' = Tail(queue) /\ last' = t /\ now' = t
      /\ UNCHANGED <<phase, target, calls>>
  BY DEF Pop
<1>4. RanksWithin(rank', t) /\ BanksWithin(bank', t, Longest)
  OBVIOUS
<1> HIDE DEF t
<1> QED BY <1>1, <1>2, <1>3, <1>4 DEF IInv

LEMMA ExecutedWithin ==
    ASSUME NEW e, NEW t \in Nat, t = e.time, e.rank \in Ranks, e.op \in BankOps => e.bank \in Banks,
           RanksWithin(rank, t), BanksWithin(bank, t, Longest), Executed(e)
    PROVE  RanksWithin(rank', t) /\ BanksWithin(bank', t, Longest)
<1> USE LongestIs
<1>1. CASE Precharge(e.rank, {e.bank}, t)
  BY <1>1, PrechargeWithin
<1>2. CASE e.op = "REFRESH_END" /\ RefreshEnd(e.rank, e.bank, t)
  BY <1>2, RefreshEndWithin DEF BankOps
<1>3. CASE SelfRefreshEntry(e.rank, t)
  BY <1>3, SelfRefreshStepWithin
<1>4. CASE PowerDownActEntry(e.rank, t)
  BY <1>4, PowerDownActEntryWithin
<1>5. CASE PowerDownActExited(e.rank, t)
  BY <1>5, PowerDownActExitedWithin
<1>6. CASE PowerDownPreEntry(e.rank, t) \/ PowerDownPreExit(e.rank, t)
  BY <1>6, PowerDownPreWithin
<1> QED BY <1>1, <1>2, <1>3, <1>4, <1>5, <1>6 DEF Executed

LEMMA HandledWithin ==
    ASSUME NEW t \in Nat, NEW r \in Ranks,
           CoreWithin(rank, bank, queue, t), Handled(r, t)
    PROVE  CoreWithin(rank', bank', queue', t)
<1> USE LongestIs
<1>1. CASE \E b \in Banks : Activate(r, b, t) /\ UNCHANGED queue
  BY <1>1, ActivateWithin DEF CoreWithin
<1>2. CASE \E bs \in SUBSET Int : Precharge(r, bs, t) /\ UNCHANGED queue
  BY <1>2, PrechargeWithin DEF CoreWithin
<1>3. CASE \E b \in Banks, c \in Counters : Count(r, b, c) /\ UNCHANGED queue
  BY <1>3, CountWithin DEF CoreWithin
<1>4. CASE \E b \in Banks, c \in Counters, d \in Delays : CountAndPrecharge(r, b, c, t + d)
  <2>1. PICK b \in Banks, c \in Counters, d \in Delays : CountAndPrecharge(r, b, c, t + d)
    BY <1>4
  <2>2. t + d \in Nat /\ t <= t + d
    BY DelaysAre
  <2> QED BY <2>1, <2>2, CountAndPrechargeWithin DEF CoreWithin
<1>5. CASE \E bs \in Seq(Banks), c \in Counters, d \in Lengths : RefreshSome(r, bs, c, t, t + d)
  BY <1>5, RefreshSomeWithin
<1>6. ASSUME NEW d \in Lengths, RefreshAll(r, t, t + d)
      PROVE  /\ RanksWithin(rank', t) /\ BanksWithin(bank', t, Longest)
             /\ QueueFrom(RefreshQueue(r, AllBanks, t + d), t)
             /\ QueueFrom(Add(RefreshQueue(r, AllBanks, t + d),
                              ImplicitFor(t + d, "SREF_ENTRY", r, NoBank)), t)
  <2> DEFINE q == RefreshQueue(r, AllBanks, t + d)
             e == ImplicitFor(t + d, "SREF_ENTRY", r, NoBank)
  <2>1. RanksWithin(rank', t) /\ BanksWithin(bank', t, Longest)
    BY <1>6, RefreshAllWithin DEF CoreWithin
  <2>2. QueueFrom(q, t)
    BY AllBanksTyped, RefreshQueueWithin DEF CoreWithin
  <2>3. t + d \in Nat /\ t <= t + d
    BY DEF Lengths
  <2>4. e \in Entry /\ e.time = t + d
    BY <2>3, ImplicitForType DEF ImplicitOps, BankOps
  <2> HIDE DEF q, e
  <2>5. QueueFrom(Add(q, e), t)
    BY <2>2, <2>3, <2>4, AddWithin
  <2> QED BY <2>1, <2>2, <2>5 DEF q, e
<1>7. CASE \/ \E d \in Lengths : RefreshAll(r, t, t + d) /\ queue' = RefreshQueue(r, AllBanks, t + d)
           \/ \E d \in Lengths : /\ RefreshAll(r, t, t + d)
                                 /\ queue' = Add(RefreshQueue(r, AllBanks, t + d),
                                                 ImplicitFor(t + d, "SREF_ENTRY", r, NoBank))
  BY <1>6, <1>7 DEF CoreWithin
<1>8. CASE SelfRefreshExit(r, t) /\ UNCHANGED queue
  BY <1>8, SelfRefreshStepWithin DEF CoreWithin
<1>9. CASE DeepSleepChanged(r, t) /\ UNCHANGED queue
  BY <1>9, DeepSleepWithin DEF CoreWithin
<1>10. CASE \E op \in DelayedOps : AddPowerDown(op, r, t)
  BY <1>10, AddPowerDownWithin DEF CoreWithin, DelayedOps
<1> QED BY <1>1, <1>2, <1>3, <1>4, <1>5, <1>7, <1>8, <1>9, <1>10 DEF Handled

\* A call that returns keeps the invariant if its command keeps the state.
LEMMA ReturnStep ==
    ASSUME IInv, Return,
           CoreWithin(rank, bank, queue, target) => CoreWithin(rank', bank', queue', target),
           last' \in {last, Max2(target, last)}
    PROVE  IInv'
<1>1. /\ phase = "busy" /\ ~Due(queue, target) /\ phase' = "idle" /\ now' = target
      /\ UNCHANGED <<target, calls>>
  BY DEF Return
<1>2. /\ target \in Nat /\ now \in Nat /\ now <= target /\ calls \in Nat
      /\ last \in Nat /\ last <= now
  BY DEF IInv
<1>3. CoreWithin(rank, bank, queue, target)
  BY <1>1, <1>2, Later, NothingDue DEF IInv, CoreWithin
<1>4. last' \in {last, target}
  BY <1>2 DEF Max2
<1> QED BY <1>1, <1>2, <1>3, <1>4 DEF CoreWithin, IInv

LEMMA BankwiseKeeps ==
    ASSUME IInv, BankwiseStep
    PROVE  IInv'
<1>1. CASE Pop /\ Executed(Head(queue))
  <2> DEFINE e == Head(queue)
             t == e.time
  <2>1. /\ t \in Nat /\ e.rank \in Ranks /\ (e.op \in BankOps => e.bank \in Banks)
        /\ RanksWithin(rank, t) /\ BanksWithin(bank, t, Longest)
    BY <1>1, FirstEntry
  <2>2. RanksWithin(rank', t) /\ BanksWithin(bank', t, Longest)
    <3>1. Executed(e) /\ t = e.time
      BY <1>1
    <3> HIDE DEF e, t
    <3> QED BY <2>1, <3>1, ExecutedWithin
  <2> QED BY <1>1, <2>2, PopStep
<1>2. CASE DoCommand /\ \/ \E r \in Ranks : Handled(r, target)
                        \/ UNCHANGED <<rank, bank, queue>>
  <2>1. target \in Nat
    BY DEF IInv
  <2>2. CoreWithin(rank, bank, queue, target) => CoreWithin(rank', bank', queue', target)
    BY <1>2, <2>1, HandledWithin
  <2>3. Return /\ last' = Max2(target, last)
    BY <1>2 DEF DoCommand
  <2> QED BY <2>2, <2>3, ReturnStep
<1>3. CASE GetWindowStats
  BY <1>3, ReturnStep DEF GetWindowStats, coreVars
<1> QED BY <1>1, <1>2, <1>3 DEF BankwiseStep
-----------------------------------------------------------------------------
(* The four standards are bankwise cores                                   *)

LEMMA SameBanksTyped ==
    ASSUME NEW b \in Banks
    PROVE  /\ DDR5!SameBanks(b) \in Seq(Banks)
           /\ \A g \in 1..numberOfBankGroups : DDR5!SameBanks(b)[g] \in Int
<1> DEFINE k == banksPerGroup
           n == numberOfBankGroups
           m == b % k
<1>1. k \in Nat \ {0} /\ n \in Nat /\ k * n = NumBanks /\ NumBanks \in Nat
  BY AnyCoreAssumption, SizeAssumption
     DEF AnyCoreAssumption, DDR5!GroupAssumption, SizeAssumption
<1>2. m \in 0..(k - 1)
  <2>1. b \in Nat
    BY <1>1 DEF Banks
  <2> QED BY <1>1, <2>1, Division
<1> HIDE DEF m
<1>3. ASSUME NEW g \in 1..n PROVE (g - 1) * k + m \in Banks
  <2>1. g - 1 \in Nat /\ n - g \in Nat
    BY <1>1
  <2>2. (g - 1) * k \in Nat /\ (n - g) * k \in Nat
    BY <1>1, <2>1
  <2>3. k * n = (g - 1) * k + (n - g) * k + k
    BY <1>1, <2>1
  <2> QED BY <1>1, <1>2, <2>2, <2>3 DEF Banks
<1>4. DDR5!SameBanks(b) = [g \in 1..n |-> (g - 1) * k + m]
  BY DEF DDR5!SameBanks, m
<1>5. [g \in 1..n |-> (g - 1) * k + m] \in [1..n -> Banks]
  BY <1>3
<1>6. Banks \subseteq Int
  BY <1>1 DEF Banks
<1> DEFINE s == [g \in 1..n |-> (g - 1) * k + m]
<1>7. s \in [1..n -> Banks] /\ n \in Nat
  BY <1>1, <1>5
<1>8. DDR5!SameBanks(b) = s
  BY <1>4
<1> HIDE DEF s, n, k
<1>9. s \in Seq(Banks)
  BY <1>7
<1>10. \A g \in 1..n : s[g] \in Banks
  BY <1>7
<1>11. \A g \in 1..n : s[g] \in Int
  BY <1>6, <1>10
<1> QED BY <1>8, <1>9, <1>11 DEF n

LEMMA PartnerTyped ==
    ASSUME NEW b \in Banks, LPDDR5!SupportsRefPerTwoBanks
    PROVE  <<b, LPDDR5!Partner(b)>> \in Seq(Banks)
<1>1. /\ perTwoBankOffset \in Nat /\ TwoBankModulus \in Nat \ {0}
      /\ TwoBankModulus <= NumBanks /\ NumBanks \in Nat
  BY AnyCoreAssumption, SizeAssumption
     DEF AnyCoreAssumption, LPDDR5!RefreshAssumption, SizeAssumption
<1>2. b + perTwoBankOffset \in Nat
  BY <1>1 DEF Banks
<1>3. (b + perTwoBankOffset) % TwoBankModulus \in 0..(TwoBankModulus - 1)
  BY <1>1, <1>2, Division
<1>4. LPDDR5!Partner(b) \in Banks
  BY <1>1, <1>3 DEF LPDDR5!Partner, Banks
<1> QED BY <1>4

LEMMA DDR5Alike ==
    /\ DDR5!Pop <=> Pop
    /\ DDR5!DoCommand <=> DoCommand
    /\ DDR5!GetWindowStats <=> GetWindowStats
    /\ DDR5!Ranks = Ranks
    /\ DDR5!Banks = Banks
    /\ DDR5!AllBanks = AllBanks
    /\ DDR5!NoBank = NoBank
    /\ \A r, bs, t : DDR5!RefreshQueue(r, bs, t) = RefreshQueue(r, bs, t)
    /\ \A q, e : DDR5!Add(q, e) = Add(q, e)
    /\ \A t, op, r, b : DDR5!ImplicitFor(t, op, r, b) = ImplicitFor(t, op, r, b)
    /\ \A r, b, t : DDR5!Activate(r, b, t) <=> Activate(r, b, t)
    /\ \A r, bs, t : DDR5!Precharge(r, bs, t) <=> Precharge(r, bs, t)
    /\ \A r, b, c : DDR5!Count(r, b, c) <=> Count(r, b, c)
    /\ \A r, b, c, t : DDR5!CountAndPrecharge(r, b, c, t) <=> CountAndPrecharge(r, b, c, t)
    /\ \A r, bs, c, t, u : DDR5!RefreshSome(r, bs, c, t, u) <=> RefreshSome(r, bs, c, t, u)
    /\ \A r, t, u : DDR5!RefreshAll(r, t, u) <=> RefreshAll(r, t, u)
    /\ \A r, b, t : DDR5!RefreshEnd(r, b, t) <=> RefreshEnd(r, b, t)
    /\ \A r, t : DDR5!SelfRefreshEntry(r, t) <=> SelfRefreshEntry(r, t)
    /\ \A r, t : DDR5!SelfRefreshExit(r, t) <=> SelfRefreshExit(r, t)
    /\ \A op, r, t : DDR5!AddPowerDown(op, r, t) <=> AddPowerDown(op, r, t)
    /\ \A r, t : DDR5!PowerDownActEntry(r, t) <=> PowerDownActEntry(r, t)
    /\ \A r, t : DDR5!PowerDownActExit(r, t) <=> PowerDownActExit(r, t)
    /\ \A r, t : DDR5!Reopen(r, t) <=> Reopen(r, t)
    /\ \A r, t : DDR5!PowerDownPreEntry(r, t) <=> PowerDownPreEntry(r, t)
    /\ \A r, t : DDR5!PowerDownPreExit(r, t) <=> PowerDownPreExit(r, t)
BY DEF DDR5!Pop, DDR5!Due, DDR5!DoCommand, DDR5!Return, DDR5!Max2, DDR5!GetWindowStats,
       DDR5!coreVars, DDR5!Ranks, DDR5!Banks, DDR5!AllBanks, DDR5!NoBank, DDR5!RefreshQueue,
       DDR5!AddAll, DDR5!UpperBound, DDR5!RefreshEnds, DDR5!ImplicitFor, DDR5!Add, DDR5!Activate,
       DDR5!Activated, DDR5!Counted, DDR5!StartInterval, DDR5!NoTime, DDR5!RankBusy,
       DDR5!IsActive, DDR5!Active, DDR5!ActStarted, DDR5!Precharge, DDR5!Precharged,
       DDR5!CloseInterval, DDR5!IsOpen, DDR5!RankIdle, DDR5!Count, DDR5!CountAndPrecharge,
       DDR5!AutoPrechargeTime, DDR5!GetStart, DDR5!RefreshSome, DDR5!RefreshBanks,
       DDR5!RefreshStarted, DDR5!StartIfNotRunning, DDR5!RefreshAll, DDR5!RankRefreshing,
       DDR5!RefreshEnd, DDR5!RefreshEnded, DDR5!SelfRefreshEntry, DDR5!SelfRefreshEntered,
       DDR5!SelfRefreshExit, DDR5!SelfRefreshLeft, DDR5!AddPowerDown, DDR5!PowerDownTime,
       DDR5!PowerDownTimes, DDR5!BankPermits, DDR5!PowerDownActEntry, DDR5!PowerDownActEntered,
       DDR5!ActClosed, DDR5!PowerDownActExit, DDR5!Reopen, DDR5!ClosedAtEntry, DDR5!GetEnd,
       DDR5!PowerDownActLeft, DDR5!PowerDownPreEntry, DDR5!PowerDownPreEntered,
       DDR5!PowerDownPreExit, DDR5!PowerDownPreLeft, Pop, Due, DoCommand, Return, Max2,
       GetWindowStats, coreVars, Ranks, Banks, AllBanks, NoBank, RefreshQueue, AddAll,
       UpperBound, RefreshEnds, ImplicitFor, Add, Activate, Activated, Counted, StartInterval,
       NoTime, RankBusy, IsActive, Active, ActStarted, Precharge, Precharged, CloseInterval,
       IsOpen, RankIdle, Count, CountAndPrecharge, AutoPrechargeTime, GetStart, RefreshSome,
       RefreshBanks, RefreshStarted, StartIfNotRunning, RefreshAll, RankRefreshing, RefreshEnd,
       RefreshEnded, SelfRefreshEntry, SelfRefreshEntered, SelfRefreshExit, SelfRefreshLeft,
       AddPowerDown, PowerDownTime, PowerDownTimes, BankPermits, PowerDownActEntry,
       PowerDownActEntered, ActClosed, PowerDownActExit, Reopen, ClosedAtEntry, GetEnd,
       PowerDownActLeft, PowerDownPreEntry, PowerDownPreEntered, PowerDownPreExit,
       PowerDownPreLeft

\* An implicit command of DDR5 is one of a bankwise core.
LEMMA DDR5Executes ==
    ASSUME DDR5!ExecuteImplicit
    PROVE  BankwiseStep
BY DDR5Alike
   DEF DDR5!ExecuteImplicit, DDR5!handlePre, DDR5!handleRefreshOnBankLater,
       DDR5!handleSelfRefreshEntryLater, DDR5!handlePowerDownActEntryLater,
       DDR5!handlePowerDownActExitLater, DDR5!handlePowerDownPreEntryLater,
       DDR5!handlePowerDownPreExitLater, PowerDownActExited, BankwiseStep, Executed

\* So is a command to a bank of DDR5, or one to a rank.
LEMMA DDR5BankCommands ==
    ASSUME NEW r \in Ranks, NEW b \in Banks, DDR5!BankCommand(r, b)
    PROVE  Handled(r, target) \/ UNCHANGED <<rank, bank, queue>>
<1> USE DDR5Alike
<1>1. CASE DDR5!ACT(r, b)
  BY <1>1 DEF DDR5!ACT, DDR5!handleAct, Handled
<1>2. CASE DDR5!PRE(r, b)
  BY <1>2 DEF DDR5!PRE, DDR5!handlePre, Handled, Banks
<1>3. CASE DDR5!RD(r, b) \/ DDR5!WR(r, b)
  BY <1>3 DEF DDR5!RD, DDR5!WR, DDR5!handleRead, DDR5!handleWrite, Handled, Counters
<1>4. CASE DDR5!RDA(r, b) \/ DDR5!WRA(r, b)
  BY <1>4 DEF DDR5!RDA, DDR5!WRA, DDR5!handleReadAuto, DDR5!handleWriteAuto, Handled,
              Counters, Delays
<1>5. CASE DDR5!PRESB(r, b)
  <2>1. DDR5!SameBankSet(b) \in SUBSET Int
    BY SameBanksTyped DEF DDR5!SameBankSet
  <2> QED BY <1>5, <2>1, DDR5Alike DEF DDR5!PRESB, DDR5!handlePreSameBank, Handled
<1>6. CASE DDR5!REFSB(r, b)
  <2>1. "refSameBank" \in Counters /\ tRFCsb \in Lengths
    BY LongestIs DEF Counters
  <2>2. RefreshSome(r, DDR5!SameBanks(b), "refSameBank", target, target + tRFCsb)
    BY <1>6, DDR5Alike DEF DDR5!REFSB, DDR5!handleRefSameBank
  <2> QED BY <2>1, <2>2, SameBanksTyped DEF Handled
<1> QED BY <1>1, <1>2, <1>3, <1>4, <1>5, <1>6 DEF DDR5!BankCommand

LEMMA DDR5RankCommands ==
    ASSUME NEW r \in Ranks, DDR5!RankCommand(r)
    PROVE  Handled(r, target)
<1> USE DDR5Alike
<1>1. CASE DDR5!PREA(r)
  BY <1>1 DEF DDR5!PREA, DDR5!handlePreAll, Handled, Banks
<1>2. CASE DDR5!REFA(r) \/ DDR5!SREFEN(r)
  BY <1>2, LongestIs DEF DDR5!REFA, DDR5!SREFEN, DDR5!handleRefAll, DDR5!handleSelfRefreshEntry,
                         Handled
<1>3. CASE DDR5!SREFEX(r)
  BY <1>3 DEF DDR5!SREFEX, DDR5!handleSelfRefreshExit, Handled
<1>4. CASE DDR5!PDEA(r) \/ DDR5!PDXA(r) \/ DDR5!PDEP(r) \/ DDR5!PDXP(r)
  BY <1>4 DEF DDR5!PDEA, DDR5!PDXA, DDR5!PDEP, DDR5!PDXP, DDR5!handlePowerDownActEntry,
              DDR5!handlePowerDownActExit, DDR5!handlePowerDownPreEntry,
              DDR5!handlePowerDownPreExit, Handled, DelayedOps, ImplicitOps, BankOps
<1> QED BY <1>1, <1>2, <1>3, <1>4 DEF DDR5!RankCommand

LEMMA DDR5Serves ==
    ASSUME DDR5!Serve
    PROVE  BankwiseStep
BY DDR5Alike, DDR5BankCommands, DDR5RankCommands
   DEF DDR5!Serve, DDR5!END_OF_SIMULATION, BankwiseStep

LEMMA LPDDR4Alike ==
    /\ LPDDR4!Pop <=> Pop
    /\ LPDDR4!DoCommand <=> DoCommand
    /\ LPDDR4!GetWindowStats <=> GetWindowStats
    /\ LPDDR4!Ranks = Ranks
    /\ LPDDR4!Banks = Banks
    /\ LPDDR4!AllBanks = AllBanks
    /\ LPDDR4!NoBank = NoBank
    /\ \A r, bs, t : LPDDR4!RefreshQueue(r, bs, t) = RefreshQueue(r, bs, t)
    /\ \A q, e : LPDDR4!Add(q, e) = Add(q, e)
    /\ \A t, op, r, b : LPDDR4!ImplicitFor(t, op, r, b) = ImplicitFor(t, op, r, b)
    /\ \A r, b, t : LPDDR4!Activate(r, b, t) <=> Activate(r, b, t)
    /\ \A r, bs, t : LPDDR4!Precharge(r, bs, t) <=> Precharge(r, bs, t)
    /\ \A r, b, c : LPDDR4!Count(r, b, c) <=> Count(r, b, c)
    /\ \A r, b, c, t : LPDDR4!CountAndPrecharge(r, b, c, t) <=> CountAndPrecharge(r, b, c, t)
    /\ \A r, bs, c, t, u : LPDDR4!RefreshSome(r, bs, c, t, u) <=> RefreshSome(r, bs, c, t, u)
    /\ \A r, t, u : LPDDR4!RefreshAll(r, t, u) <=> RefreshAll(r, t, u)
    /\ \A r, b, t : LPDDR4!RefreshEnd(r, b, t) <=> RefreshEnd(r, b, t)
    /\ \A r, t : LPDDR4!SelfRefreshEntry(r, t) <=> SelfRefreshEntry(r, t)
    /\ \A r, t : LPDDR4!SelfRefreshExit(r, t) <=> SelfRefreshExit(r, t)
    /\ \A op, r, t : LPDDR4!AddPowerDown(op, r, t) <=> AddPowerDown(op, r, t)
    /\ \A r, t : LPDDR4!PowerDownActEntry(r, t) <=> PowerDownActEntry(r, t)
    /\ \A r, t : LPDDR4!PowerDownActExit(r, t) <=> PowerDownActExit(r, t)
    /\ \A r, t : LPDDR4!Reopen(r, t) <=> Reopen(r, t)
    /\ \A r, t : LPDDR4!PowerDownPreEntry(r, t) <=> PowerDownPreEntry(r, t)
    /\ \A r, t : LPDDR4!PowerDownPreExit(r, t) <=> PowerDownPreExit(r, t)
BY DEF LPDDR4!Pop, LPDDR4!Due, LPDDR4!DoCommand, LPDDR4!Return, LPDDR4!Max2,
       LPDDR4!GetWindowStats, LPDDR4!coreVars, LPDDR4!Ranks, LPDDR4!Banks, LPDDR4!AllBanks,
       LPDDR4!NoBank, LPDDR4!RefreshQueue, LPDDR4!AddAll, LPDDR4!UpperBound, LPDDR4!RefreshEnds,
       LPDDR4!ImplicitFor, LPDDR4!Add, LPDDR4!Activate, LPDDR4!Activated, LPDDR4!Counted,
       LPDDR4!StartInterval, LPDDR4!NoTime, LPDDR4!RankBusy, LPDDR4!IsActive, LPDDR4!Active,
       LPDDR4!ActStarted, LPDDR4!Precharge, LPDDR4!Precharged, LPDDR4!CloseInterval,
       LPDDR4!IsOpen, LPDDR4!RankIdle, LPDDR4!Count, LPDDR4!CountAndPrecharge,
       LPDDR4!AutoPrechargeTime, LPDDR4!GetStart, LPDDR4!RefreshSome, LPDDR4!RefreshBanks,
       LPDDR4!RefreshStarted, LPDDR4!StartIfNotRunning, LPDDR4!RefreshAll, LPDDR4!RankRefreshing,
       LPDDR4!RefreshEnd, LPDDR4!RefreshEnded, LPDDR4!SelfRefreshEntry,
       LPDDR4!SelfRefreshEntered, LPDDR4!SelfRefreshExit, LPDDR4!SelfRefreshLeft,
       LPDDR4!AddPowerDown, LPDDR4!PowerDownTime, LPDDR4!PowerDownTimes, LPDDR4!BankPermits,
       LPDDR4!PowerDownActEntry, LPDDR4!PowerDownActEntered, LPDDR4!ActClosed,
       LPDDR4!PowerDownActExit, LPDDR4!Reopen, LPDDR4!ClosedAtEntry, LPDDR4!GetEnd,
       LPDDR4!PowerDownActLeft, LPDDR4!PowerDownPreEntry, LPDDR4!PowerDownPreEntered,
       LPDDR4!PowerDownPreExit, LPDDR4!PowerDownPreLeft, Pop, Due, DoCommand, Return, Max2,
       GetWindowStats, coreVars, Ranks, Banks, AllBanks, NoBank, RefreshQueue, AddAll,
       UpperBound, RefreshEnds, ImplicitFor, Add, Activate, Activated, Counted, StartInterval,
       NoTime, RankBusy, IsActive, Active, ActStarted, Precharge, Precharged, CloseInterval,
       IsOpen, RankIdle, Count, CountAndPrecharge, AutoPrechargeTime, GetStart, RefreshSome,
       RefreshBanks, RefreshStarted, StartIfNotRunning, RefreshAll, RankRefreshing, RefreshEnd,
       RefreshEnded, SelfRefreshEntry, SelfRefreshEntered, SelfRefreshExit, SelfRefreshLeft,
       AddPowerDown, PowerDownTime, PowerDownTimes, BankPermits, PowerDownActEntry,
       PowerDownActEntered, ActClosed, PowerDownActExit, Reopen, ClosedAtEntry, GetEnd,
       PowerDownActLeft, PowerDownPreEntry, PowerDownPreEntered, PowerDownPreExit,
       PowerDownPreLeft

\* An implicit command of LPDDR4 is one of a bankwise core.
LEMMA LPDDR4Executes ==
    ASSUME LPDDR4!ExecuteImplicit
    PROVE  BankwiseStep
BY LPDDR4Alike
   DEF LPDDR4!ExecuteImplicit, LPDDR4!handlePre, LPDDR4!handleRefreshOnBankLater,
       LPDDR4!handleSelfRefreshEntryLater, LPDDR4!handlePowerDownActEntryLater,
       LPDDR4!handlePowerDownActExitLater, LPDDR4!handlePowerDownPreEntryLater,
       LPDDR4!handlePowerDownPreExitLater, PowerDownActExited, BankwiseStep, Executed

\* So is a command to a bank of LPDDR4, or one to a rank.
LEMMA LPDDR4BankCommands ==
    ASSUME NEW r \in Ranks, NEW b \in Banks, LPDDR4!BankCommand(r, b)
    PROVE  Handled(r, target) \/ UNCHANGED <<rank, bank, queue>>
<1> USE LPDDR4Alike
<1>1. CASE LPDDR4!ACT(r, b)
  BY <1>1 DEF LPDDR4!ACT, LPDDR4!handleAct, Handled
<1>2. CASE LPDDR4!PRE(r, b)
  BY <1>2 DEF LPDDR4!PRE, LPDDR4!handlePre, Handled, Banks
<1>3. CASE LPDDR4!RD(r, b) \/ LPDDR4!WR(r, b)
  BY <1>3 DEF LPDDR4!RD, LPDDR4!WR, LPDDR4!handleRead, LPDDR4!handleWrite, Handled, Counters
<1>4. CASE LPDDR4!RDA(r, b) \/ LPDDR4!WRA(r, b)
  BY <1>4 DEF LPDDR4!RDA, LPDDR4!WRA, LPDDR4!handleReadAuto, LPDDR4!handleWriteAuto, Handled,
              Counters, Delays
<1>5. CASE LPDDR4!REFB(r, b)
  <2>1. <<b>> \in Seq(Banks) /\ "refPerBank" \in Counters /\ tRFCPB \in Lengths
    BY LongestIs DEF Counters
  <2>2. RefreshSome(r, <<b>>, "refPerBank", target, target + tRFCPB)
    BY <1>5, LPDDR4Alike DEF LPDDR4!REFB, LPDDR4!handleRefPerBank
  <2> QED BY <2>1, <2>2 DEF Handled
<1> QED BY <1>1, <1>2, <1>3, <1>4, <1>5 DEF LPDDR4!BankCommand

LEMMA LPDDR4RankCommands ==
    ASSUME NEW r \in Ranks, LPDDR4!RankCommand(r)
    PROVE  Handled(r, target)
<1> USE LPDDR4Alike
<1>1. CASE LPDDR4!PREA(r)
  BY <1>1 DEF LPDDR4!PREA, LPDDR4!handlePreAll, Handled, Banks
<1>2. CASE LPDDR4!REFA(r) \/ LPDDR4!SREFEN(r)
  BY <1>2, LongestIs DEF LPDDR4!REFA, LPDDR4!SREFEN, LPDDR4!handleRefAll, LPDDR4!handleSelfRefreshEntry,
                         Handled
<1>3. CASE LPDDR4!SREFEX(r)
  BY <1>3 DEF LPDDR4!SREFEX, LPDDR4!handleSelfRefreshExit, Handled
<1>4. CASE LPDDR4!PDEA(r) \/ LPDDR4!PDXA(r) \/ LPDDR4!PDEP(r) \/ LPDDR4!PDXP(r)
  BY <1>4 DEF LPDDR4!PDEA, LPDDR4!PDXA, LPDDR4!PDEP, LPDDR4!PDXP, LPDDR4!handlePowerDownActEntry,
              LPDDR4!handlePowerDownActExit, LPDDR4!handlePowerDownPreEntry,
              LPDDR4!handlePowerDownPreExit, Handled, DelayedOps, ImplicitOps, BankOps
<1> QED BY <1>1, <1>2, <1>3, <1>4 DEF LPDDR4!RankCommand

LEMMA LPDDR4Serves ==
    ASSUME LPDDR4!Serve
    PROVE  BankwiseStep
BY LPDDR4Alike, LPDDR4BankCommands, LPDDR4RankCommands
   DEF LPDDR4!Serve, LPDDR4!END_OF_SIMULATION, BankwiseStep

LEMMA LPDDR5Alike ==
    /\ LPDDR5!Pop <=> Pop
    /\ LPDDR5!DoCommand <=> DoCommand
    /\ LPDDR5!GetWindowStats <=> GetWindowStats
    /\ LPDDR5!Ranks = Ranks
    /\ LPDDR5!Banks = Banks
    /\ LPDDR5!AllBanks = AllBanks
    /\ LPDDR5!NoBank = NoBank
    /\ \A r, bs, t : LPDDR5!RefreshQueue(r, bs, t) = RefreshQueue(r, bs, t)
    /\ \A q, e : LPDDR5!Add(q, e) = Add(q, e)
    /\ \A t, op, r, b : LPDDR5!ImplicitFor(t, op, r, b) = ImplicitFor(t, op, r, b)
    /\ \A r, b, t : LPDDR5!Activate(r, b, t) <=> Activate(r, b, t)
    /\ \A r, bs, t : LPDDR5!Precharge(r, bs, t) <=> Precharge(r, bs, t)
    /\ \A r, b, c : LPDDR5!Count(r, b, c) <=> Count(r, b, c)
    /\ \A r, b, c, t : LPDDR5!CountAndPrecharge(r, b, c, t) <=> CountAndPrecharge(r, b, c, t)
    /\ \A r, bs, c, t, u : LPDDR5!RefreshSome(r, bs, c, t, u) <=> RefreshSome(r, bs, c, t, u)
    /\ \A r, t, u : LPDDR5!RefreshAll(r, t, u) <=> RefreshAll(r, t, u)
    /\ \A r, b, t : LPDDR5!RefreshEnd(r, b, t) <=> RefreshEnd(r, b, t)
    /\ \A r, t : LPDDR5!SelfRefreshEntry(r, t) <=> SelfRefreshEntry(r, t)
    /\ \A r, t : LPDDR5!SelfRefreshExit(r, t) <=> SelfRefreshExit(r, t)
    /\ \A op, r, t : LPDDR5!AddPowerDown(op, r, t) <=> AddPowerDown(op, r, t)
    /\ \A r, t : LPDDR5!PowerDownActEntry(r, t) <=> PowerDownActEntry(r, t)
    /\ \A r, t : LPDDR5!PowerDownActExit(r, t) <=> PowerDownActExit(r, t)
    /\ \A r, t : LPDDR5!Reopen(r, t) <=> Reopen(r, t)
    /\ \A r, t : LPDDR5!PowerDownPreEntry(r, t) <=> PowerDownPreEntry(r, t)
    /\ \A r, t : LPDDR5!PowerDownPreExit(r, t) <=> PowerDownPreExit(r, t)
BY DEF LPDDR5!Pop, LPDDR5!Due, LPDDR5!DoCommand, LPDDR5!Return, LPDDR5!Max2,
       LPDDR5!GetWindowStats, LPDDR5!coreVars, LPDDR5!Ranks, LPDDR5!Banks, LPDDR5!AllBanks,
       LPDDR5!NoBank, LPDDR5!RefreshQueue, LPDDR5!AddAll, LPDDR5!UpperBound, LPDDR5!RefreshEnds,
       LPDDR5!ImplicitFor, LPDDR5!Add, LPDDR5!Activate, LPDDR5!Activated, LPDDR5!Counted,
       LPDDR5!StartInterval, LPDDR5!NoTime, LPDDR5!RankBusy, LPDDR5!IsActive, LPDDR5!Active,
       LPDDR5!ActStarted, LPDDR5!Precharge, LPDDR5!Precharged, LPDDR5!CloseInterval,
       LPDDR5!IsOpen, LPDDR5!RankIdle, LPDDR5!Count, LPDDR5!CountAndPrecharge,
       LPDDR5!AutoPrechargeTime, LPDDR5!GetStart, LPDDR5!RefreshSome, LPDDR5!RefreshBanks,
       LPDDR5!RefreshStarted, LPDDR5!StartIfNotRunning, LPDDR5!RefreshAll, LPDDR5!RankRefreshing,
       LPDDR5!RefreshEnd, LPDDR5!RefreshEnded, LPDDR5!SelfRefreshEntry,
       LPDDR5!SelfRefreshEntered, LPDDR5!SelfRefreshExit, LPDDR5!SelfRefreshLeft,
       LPDDR5!AddPowerDown, LPDDR5!PowerDownTime, LPDDR5!PowerDownTimes, LPDDR5!BankPermits,
       LPDDR5!PowerDownActEntry, LPDDR5!PowerDownActEntered, LPDDR5!ActClosed,
       LPDDR5!PowerDownActExit, LPDDR5!Reopen, LPDDR5!ClosedAtEntry, LPDDR5!GetEnd,
       LPDDR5!PowerDownActLeft, LPDDR5!PowerDownPreEntry, LPDDR5!PowerDownPreEntered,
       LPDDR5!PowerDownPreExit, LPDDR5!PowerDownPreLeft, Pop, Due, DoCommand, Return, Max2,
       GetWindowStats, coreVars, Ranks, Banks, AllBanks, NoBank, RefreshQueue, AddAll,
       UpperBound, RefreshEnds, ImplicitFor, Add, Activate, Activated, Counted, StartInterval,
       NoTime, RankBusy, IsActive, Active, ActStarted, Precharge, Precharged, CloseInterval,
       IsOpen, RankIdle, Count, CountAndPrecharge, AutoPrechargeTime, GetStart, RefreshSome,
       RefreshBanks, RefreshStarted, StartIfNotRunning, RefreshAll, RankRefreshing, RefreshEnd,
       RefreshEnded, SelfRefreshEntry, SelfRefreshEntered, SelfRefreshExit, SelfRefreshLeft,
       AddPowerDown, PowerDownTime, PowerDownTimes, BankPermits, PowerDownActEntry,
       PowerDownActEntered, ActClosed, PowerDownActExit, Reopen, ClosedAtEntry, GetEnd,
       PowerDownActLeft, PowerDownPreEntry, PowerDownPreEntered, PowerDownPreExit,
       PowerDownPreLeft

\* An implicit command of LPDDR5 is one of a bankwise core.
LEMMA LPDDR5Executes ==
    ASSUME LPDDR5!ExecuteImplicit
    PROVE  BankwiseStep
BY LPDDR5Alike
   DEF LPDDR5!ExecuteImplicit, LPDDR5!handlePre, LPDDR5!handleRefreshOnBankLater,
       LPDDR5!handleSelfRefreshEntryLater, LPDDR5!handlePowerDownActEntryLater,
       LPDDR5!handlePowerDownActExitLater, LPDDR5!handlePowerDownPreEntryLater,
       LPDDR5!handlePowerDownPreExitLater, PowerDownActExited, BankwiseStep, Executed

\* So is a command to a bank of LPDDR5, or one to a rank.
LEMMA LPDDR5BankCommands ==
    ASSUME NEW r \in Ranks, NEW b \in Banks, LPDDR5!BankCommand(r, b)
    PROVE  Handled(r, target) \/ UNCHANGED <<rank, bank, queue>>
<1> USE LPDDR5Alike
<1>1. CASE LPDDR5!ACT(r, b)
  BY <1>1 DEF LPDDR5!ACT, LPDDR5!handleAct, Handled
<1>2. CASE LPDDR5!PRE(r, b)
  BY <1>2 DEF LPDDR5!PRE, LPDDR5!handlePre, Handled, Banks
<1>3. CASE LPDDR5!RD(r, b) \/ LPDDR5!WR(r, b)
  BY <1>3 DEF LPDDR5!RD, LPDDR5!WR, LPDDR5!handleRead, LPDDR5!handleWrite, Handled, Counters
<1>4. CASE LPDDR5!RDA(r, b) \/ LPDDR5!WRA(r, b)
  BY <1>4 DEF LPDDR5!RDA, LPDDR5!WRA, LPDDR5!handleReadAuto, LPDDR5!handleWriteAuto, Handled,
              Counters, Delays
<1>5. CASE LPDDR5!REFB(r, b)
  <2>1. <<b>> \in Seq(Banks) /\ "refPerBank" \in Counters /\ tRFCPB \in Lengths
    BY LongestIs DEF Counters
  <2>2. RefreshSome(r, <<b>>, "refPerBank", target, target + tRFCPB)
    BY <1>5, LPDDR5Alike DEF LPDDR5!REFB, LPDDR5!handleRefPerBank
  <2> QED BY <2>1, <2>2 DEF Handled
<1>6. CASE LPDDR5!REFP2B(r, b)
  <2> DEFINE bs == <<b, LPDDR5!Partner(b)>>
  <2>1. CASE LPDDR5!SupportsRefPerTwoBanks /\ LPDDR5!handleRefPerTwoBanks(r, b, target)
    <3>1. bs \in Seq(Banks) /\ "refPerTwoBanks" \in Counters /\ tRFCPB \in Lengths
      BY <2>1, PartnerTyped, LongestIs DEF Counters
    <3>2. RefreshSome(r, bs, "refPerTwoBanks", target, target + tRFCPB)
      BY <2>1, LPDDR5Alike DEF LPDDR5!handleRefPerTwoBanks
    <3> QED BY <3>1, <3>2 DEF Handled
  <2>2. CASE UNCHANGED <<rank, bank, queue>>
    BY <2>2
  <2> QED BY <1>6, <2>1, <2>2 DEF LPDDR5!REFP2B
<1> QED BY <1>1, <1>2, <1>3, <1>4, <1>5, <1>6 DEF LPDDR5!BankCommand

LEMMA LPDDR5RankCommands ==
    ASSUME NEW r \in Ranks, LPDDR5!RankCommand(r)
    PROVE  Handled(r, target)
<1> USE LPDDR5Alike
<1>1. CASE LPDDR5!PREA(r)
  BY <1>1 DEF LPDDR5!PREA, LPDDR5!handlePreAll, Handled, Banks
<1>2. CASE LPDDR5!REFA(r) \/ LPDDR5!SREFEN(r)
  BY <1>2, LongestIs DEF LPDDR5!REFA, LPDDR5!SREFEN, LPDDR5!handleRefAll, LPDDR5!handleSelfRefreshEntry,
                         Handled
<1>3. CASE LPDDR5!SREFEX(r)
  BY <1>3 DEF LPDDR5!SREFEX, LPDDR5!handleSelfRefreshExit, Handled
<1>4. CASE LPDDR5!PDEA(r) \/ LPDDR5!PDXA(r) \/ LPDDR5!PDEP(r) \/ LPDDR5!PDXP(r)
  BY <1>4 DEF LPDDR5!PDEA, LPDDR5!PDXA, LPDDR5!PDEP, LPDDR5!PDXP, LPDDR5!handlePowerDownActEntry,
              LPDDR5!handlePowerDownActExit, LPDDR5!handlePowerDownPreEntry,
              LPDDR5!handlePowerDownPreExit, Handled, DelayedOps, ImplicitOps, BankOps
<1>5. CASE LPDDR5!DSMEN(r) \/ LPDDR5!DSMEX(r)
  BY <1>5 DEF LPDDR5!DSMEN, LPDDR5!DSMEX, LPDDR5!handleDSMEntry, LPDDR5!handleDSMExit, DeepSleepChanged,
              Handled
<1> QED BY <1>1, <1>2, <1>3, <1>4, <1>5 DEF LPDDR5!RankCommand

LEMMA LPDDR5Serves ==
    ASSUME LPDDR5!Serve
    PROVE  BankwiseStep
BY LPDDR5Alike, LPDDR5BankCommands, LPDDR5RankCommands
   DEF LPDDR5!Serve, LPDDR5!END_OF_SIMULATION, BankwiseStep

LEMMA LPDDR6Alike ==
    /\ LPDDR6!Pop <=> Pop
    /\ LPDDR6!DoCommand <=> DoCommand
    /\ LPDDR6!GetWindowStats <=> GetWindowStats
    /\ LPDDR6!Ranks = Ranks
    /\ LPDDR6!Banks = Banks
    /\ LPDDR6!AllBanks = AllBanks
    /\ LPDDR6!NoBank = NoBank
    /\ \A r, bs, t : LPDDR6!RefreshQueue(r, bs, t) = RefreshQueue(r, bs, t)
    /\ \A q, e : LPDDR6!Add(q, e) = Add(q, e)
    /\ \A t, op, r, b : LPDDR6!ImplicitFor(t, op, r, b) = ImplicitFor(t, op, r, b)
    /\ \A r, b, t : LPDDR6!Activate(r, b, t) <=> Activate(r, b, t)
    /\ \A r, bs, t : LPDDR6!Precharge(r, bs, t) <=> Precharge(r, bs, t)
    /\ \A r, b, c : LPDDR6!Count(r, b, c) <=> Count(r, b, c)
    /\ \A r, b, c, t : LPDDR6!CountAndPrecharge(r, b, c, t) <=> CountAndPrecharge(r, b, c, t)
    /\ \A r, bs, c, t, u : LPDDR6!RefreshSome(r, bs, c, t, u) <=> RefreshSome(r, bs, c, t, u)
    /\ \A r, t, u : LPDDR6!RefreshAll(r, t, u) <=> RefreshAll(r, t, u)
    /\ \A r, b, t : LPDDR6!RefreshEnd(r, b, t) <=> RefreshEnd(r, b, t)
    /\ \A r, t : LPDDR6!SelfRefreshEntry(r, t) <=> SelfRefreshEntry(r, t)
    /\ \A r, t : LPDDR6!SelfRefreshExit(r, t) <=> SelfRefreshExit(r, t)
    /\ \A op, r, t : LPDDR6!AddPowerDown(op, r, t) <=> AddPowerDown(op, r, t)
    /\ \A r, t : LPDDR6!PowerDownActEntry(r, t) <=> PowerDownActEntry(r, t)
    /\ \A r, t : LPDDR6!PowerDownActExit(r, t) <=> PowerDownActExit(r, t)
    /\ \A r, t : LPDDR6!Reopen(r, t) <=> Reopen(r, t)
    /\ \A r, t : LPDDR6!PowerDownPreEntry(r, t) <=> PowerDownPreEntry(r, t)
    /\ \A r, t : LPDDR6!PowerDownPreExit(r, t) <=> PowerDownPreExit(r, t)
BY DEF LPDDR6!Pop, LPDDR6!Due, LPDDR6!DoCommand, LPDDR6!Return, LPDDR6!Max2,
       LPDDR6!GetWindowStats, LPDDR6!coreVars, LPDDR6!Ranks, LPDDR6!Banks, LPDDR6!AllBanks,
       LPDDR6!NoBank, LPDDR6!RefreshQueue, LPDDR6!AddAll, LPDDR6!UpperBound, LPDDR6!RefreshEnds,
       LPDDR6!ImplicitFor, LPDDR6!Add, LPDDR6!Activate, LPDDR6!Activated, LPDDR6!Counted,
       LPDDR6!StartInterval, LPDDR6!NoTime, LPDDR6!RankBusy, LPDDR6!IsActive, LPDDR6!Active,
       LPDDR6!ActStarted, LPDDR6!Precharge, LPDDR6!Precharged, LPDDR6!CloseInterval,
       LPDDR6!IsOpen, LPDDR6!RankIdle, LPDDR6!Count, LPDDR6!CountAndPrecharge,
       LPDDR6!AutoPrechargeTime, LPDDR6!GetStart, LPDDR6!RefreshSome, LPDDR6!RefreshBanks,
       LPDDR6!RefreshStarted, LPDDR6!StartIfNotRunning, LPDDR6!RefreshAll, LPDDR6!RankRefreshing,
       LPDDR6!RefreshEnd, LPDDR6!RefreshEnded, LPDDR6!SelfRefreshEntry,
       LPDDR6!SelfRefreshEntered, LPDDR6!SelfRefreshExit, LPDDR6!SelfRefreshLeft,
       LPDDR6!AddPowerDown, LPDDR6!PowerDownTime, LPDDR6!PowerDownTimes, LPDDR6!BankPermits,
       LPDDR6!PowerDownActEntry, LPDDR6!PowerDownActEntered, LPDDR6!ActClosed,
       LPDDR6!PowerDownActExit, LPDDR6!Reopen, LPDDR6!ClosedAtEntry, LPDDR6!GetEnd,
       LPDDR6!PowerDownActLeft, LPDDR6!PowerDownPreEntry, LPDDR6!PowerDownPreEntered,
       LPDDR6!PowerDownPreExit, LPDDR6!PowerDownPreLeft, Pop, Due, DoCommand, Return, Max2,
       GetWindowStats, coreVars, Ranks, Banks, AllBanks, NoBank, RefreshQueue, AddAll,
       UpperBound, RefreshEnds, ImplicitFor, Add, Activate, Activated, Counted, StartInterval,
       NoTime, RankBusy, IsActive, Active, ActStarted, Precharge, Precharged, CloseInterval,
       IsOpen, RankIdle, Count, CountAndPrecharge, AutoPrechargeTime, GetStart, RefreshSome,
       RefreshBanks, RefreshStarted, StartIfNotRunning, RefreshAll, RankRefreshing, RefreshEnd,
       RefreshEnded, SelfRefreshEntry, SelfRefreshEntered, SelfRefreshExit, SelfRefreshLeft,
       AddPowerDown, PowerDownTime, PowerDownTimes, BankPermits, PowerDownActEntry,
       PowerDownActEntered, ActClosed, PowerDownActExit, Reopen, ClosedAtEntry, GetEnd,
       PowerDownActLeft, PowerDownPreEntry, PowerDownPreEntered, PowerDownPreExit,
       PowerDownPreLeft

\* An implicit command of LPDDR6 is one of a bankwise core.
LEMMA LPDDR6Executes ==
    ASSUME LPDDR6!ExecuteImplicit
    PROVE  BankwiseStep
BY LPDDR6Alike
   DEF LPDDR6!ExecuteImplicit, LPDDR6!handlePre, LPDDR6!handleRefreshOnBankLater,
       LPDDR6!handleSelfRefreshEntryLater, LPDDR6!handlePowerDownActEntryLater,
       LPDDR6!handlePowerDownActExitLater, LPDDR6!handlePowerDownPreEntryLater,
       LPDDR6!handlePowerDownPreExitLater, PowerDownActExited, BankwiseStep, Executed

\* So is a command to a bank of LPDDR6, or one to a rank.
LEMMA LPDDR6BankCommands ==
    ASSUME NEW r \in Ranks, NEW b \in Banks, LPDDR6!BankCommand(r, b)
    PROVE  Handled(r, target) \/ UNCHANGED <<rank, bank, queue>>
<1> USE LPDDR6Alike
<1>1. CASE LPDDR6!ACT(r, b)
  BY <1>1 DEF LPDDR6!ACT, LPDDR6!handleAct, Handled
<1>2. CASE LPDDR6!PRE(r, b)
  BY <1>2 DEF LPDDR6!PRE, LPDDR6!handlePre, Handled, Banks
<1>3. CASE LPDDR6!RD(r, b) \/ LPDDR6!WR(r, b)
  BY <1>3 DEF LPDDR6!RD, LPDDR6!WR, LPDDR6!handleRead, LPDDR6!handleWrite, Handled, Counters
<1>4. CASE LPDDR6!RDA(r, b) \/ LPDDR6!WRA(r, b)
  BY <1>4 DEF LPDDR6!RDA, LPDDR6!WRA, LPDDR6!handleReadAuto, LPDDR6!handleWriteAuto, Handled,
              Counters, Delays
<1>5. CASE \E b2 \in Banks : LPDDR6!REFDB(r, b, b2)
  <2>1. PICK b2 \in Banks : LPDDR6!REFDB(r, b, b2)
    BY <1>5
  <2>2. <<b, b2>> \in Seq(Banks) /\ "refDualBanks" \in Counters /\ tRFCDB \in Lengths
    BY LongestIs DEF Counters
  <2>3. RefreshSome(r, <<b, b2>>, "refDualBanks", target, target + tRFCDB)
    BY <2>1, LPDDR6Alike DEF LPDDR6!REFDB, LPDDR6!handleRefDualBanks
  <2> QED BY <2>2, <2>3 DEF Handled
<1> QED BY <1>1, <1>2, <1>3, <1>4, <1>5 DEF LPDDR6!BankCommand

LEMMA LPDDR6RankCommands ==
    ASSUME NEW r \in Ranks, LPDDR6!RankCommand(r)
    PROVE  Handled(r, target)
<1> USE LPDDR6Alike
<1>1. CASE LPDDR6!PREA(r)
  BY <1>1 DEF LPDDR6!PREA, LPDDR6!handlePreAll, Handled, Banks
<1>2. CASE LPDDR6!REFA(r) \/ LPDDR6!SREFEN(r)
  BY <1>2, LongestIs DEF LPDDR6!REFA, LPDDR6!SREFEN, LPDDR6!handleRefAll, LPDDR6!handleSelfRefreshEntry,
                         Handled
<1>3. CASE LPDDR6!SREFEX(r)
  BY <1>3 DEF LPDDR6!SREFEX, LPDDR6!handleSelfRefreshExit, Handled
<1>4. CASE LPDDR6!PDEA(r) \/ LPDDR6!PDXA(r) \/ LPDDR6!PDEP(r) \/ LPDDR6!PDXP(r)
  BY <1>4 DEF LPDDR6!PDEA, LPDDR6!PDXA, LPDDR6!PDEP, LPDDR6!PDXP, LPDDR6!handlePowerDownActEntry,
              LPDDR6!handlePowerDownActExit, LPDDR6!handlePowerDownPreEntry,
              LPDDR6!handlePowerDownPreExit, Handled, DelayedOps, ImplicitOps, BankOps
<1> QED BY <1>1, <1>2, <1>3, <1>4 DEF LPDDR6!RankCommand

LEMMA LPDDR6Serves ==
    ASSUME LPDDR6!Serve
    PROVE  BankwiseStep
BY LPDDR6Alike, LPDDR6BankCommands, LPDDR6RankCommands
   DEF LPDDR6!Serve, LPDDR6!END_OF_SIMULATION, BankwiseStep

-----------------------------------------------------------------------------
(* DDR4 differs in how it makes a rank active and leaves power-down        *)

LEMMA DDR4Alike ==
    /\ DDR4!Pop <=> Pop
    /\ DDR4!DoCommand <=> DoCommand
    /\ DDR4!GetWindowStats <=> GetWindowStats
    /\ DDR4!Ranks = Ranks
    /\ DDR4!Banks = Banks
    /\ DDR4!NoBank = NoBank
    /\ \A q, e : DDR4!Add(q, e) = Add(q, e)
    /\ \A t, op, r, b : DDR4!ImplicitFor(t, op, r, b) = ImplicitFor(t, op, r, b)
    /\ \A bk, t : DDR4!Activated(bk, t) = Activated(bk, t)
    /\ \A bk : DDR4!Active(bk) = Active(bk)
    /\ \A bk, t : DDR4!ActStarted(bk, t) = ActStarted(bk, t)
    /\ \A bk, t : DDR4!ActClosed(bk, t) = ActClosed(bk, t)
    /\ \A i, t : DDR4!StartInterval(i, t) = StartInterval(i, t)
    /\ \A i, t : DDR4!CloseInterval(i, t) = CloseInterval(i, t)
    /\ \A i, t : DDR4!StartIfNotRunning(i, t) = StartIfNotRunning(i, t)
    /\ \A rk, t : DDR4!PowerDownPreLeft(rk, t) = PowerDownPreLeft(rk, t)
    /\ \A r, bs, t : DDR4!Precharge(r, bs, t) <=> Precharge(r, bs, t)
    /\ \A r, b, c : DDR4!Count(r, b, c) <=> Count(r, b, c)
    /\ \A r, b, c, t : DDR4!CountAndPrecharge(r, b, c, t) <=> CountAndPrecharge(r, b, c, t)
    /\ \A r, b, t : DDR4!RefreshEnd(r, b, t) <=> RefreshEnd(r, b, t)
    /\ \A r, t : DDR4!SelfRefreshEntry(r, t) <=> SelfRefreshEntry(r, t)
    /\ \A r, t : DDR4!SelfRefreshExit(r, t) <=> SelfRefreshExit(r, t)
    /\ \A op, r, t : DDR4!AddPowerDown(op, r, t) <=> AddPowerDown(op, r, t)
    /\ \A r, t : DDR4!PowerDownActEntry(r, t) <=> PowerDownActEntry(r, t)
BY DEF DDR4!Pop, DDR4!Due, DDR4!DoCommand, DDR4!Return, DDR4!Max2, DDR4!GetWindowStats,
       DDR4!coreVars, DDR4!Ranks, DDR4!Banks, DDR4!NoBank, DDR4!Add, DDR4!AddAll,
       DDR4!UpperBound, DDR4!ImplicitFor, DDR4!Activated, DDR4!Counted, DDR4!StartInterval,
       DDR4!NoTime, DDR4!Active, DDR4!ActStarted, DDR4!ActClosed, DDR4!CloseInterval,
       DDR4!IsOpen, DDR4!StartIfNotRunning, DDR4!PowerDownPreLeft, DDR4!Precharge,
       DDR4!Precharged, DDR4!RankIdle, DDR4!IsActive, DDR4!Count, DDR4!CountAndPrecharge,
       DDR4!AutoPrechargeTime, DDR4!GetStart, DDR4!RefreshEnd, DDR4!RefreshEnded,
       DDR4!SelfRefreshEntry, DDR4!SelfRefreshEntered, DDR4!SelfRefreshExit,
       DDR4!SelfRefreshLeft, DDR4!AddPowerDown, DDR4!PowerDownTime, DDR4!PowerDownTimes,
       DDR4!BankPermits, DDR4!PowerDownActEntry, DDR4!PowerDownActEntered, Pop, Due, DoCommand,
       Return, Max2, GetWindowStats, coreVars, Ranks, Banks, NoBank, Add, AddAll, UpperBound,
       ImplicitFor, Activated, Counted, StartInterval, NoTime, Active, ActStarted, ActClosed,
       CloseInterval, IsOpen, StartIfNotRunning, PowerDownPreLeft, Precharge, Precharged,
       RankIdle, IsActive, Count, CountAndPrecharge, AutoPrechargeTime, GetStart, RefreshEnd,
       RefreshEnded, SelfRefreshEntry, SelfRefreshEntered, SelfRefreshExit, SelfRefreshLeft,
       AddPowerDown, PowerDownTime, PowerDownTimes, BankPermits, PowerDownActEntry,
       PowerDownActEntered

LEMMA DDR4RankBusyWithin ==
    ASSUME NEW t \in Nat, NEW rk, RankWithin(rk, t)
    PROVE  RankWithin(DDR4!RankBusy(rk, t), t) /\ RankWithin(DDR4!RankRefreshing(rk, t), t)
<1>1. /\ Within(StartIfNotRunning(rk.act, t), t)
      /\ StartIfNotRunning(rk.act, t) \in Interval
  BY StartIfNotRunningWithin DEF RankWithin, Within
<1>2. t + tRFC \in Time
  BY LongestIs DEF Time
<1>3. DDR4!StartIfNotRunning(rk.act, t) = StartIfNotRunning(rk.act, t)
  BY DDR4Alike
<1> QED BY <1>1, <1>2, <1>3 DEF RankWithin, Rank, DDR4!RankBusy, DDR4!RankRefreshing

LEMMA DDR4RefreshStarted ==
    ASSUME NEW t, NEW bk
    PROVE  DDR4!RefreshStarted(bk, t) = RefreshStarted(bk, "refAllBank", t, t + tRFC)
BY DEF DDR4!RefreshStarted, RefreshStarted, DDR4!Counted, Counted, DDR4!StartIfNotRunning,
       StartIfNotRunning, DDR4!StartInterval, StartInterval, DDR4!IsOpen, IsOpen,
       DDR4!NoTime, NoTime

LEMMA DDR4ActWithin ==
    ASSUME NEW t \in Nat, NEW r \in Ranks, NEW b \in Banks,
           RanksWithin(rank, t), BanksWithin(bank, t, Longest), DDR4!handleAct(r, b, t)
    PROVE  RanksWithin(rank', t) /\ BanksWithin(bank', t, Longest)
<1>1. BankWithin(Activated(bank[r][b], t), t, Longest)
  BY ActivatedWithin, LongestIs DEF BanksWithin
<1>2. RankWithin(DDR4!RankBusy(rank[r], t), t)
  BY DDR4RankBusyWithin DEF RanksWithin
<1>3. /\ bank' = [bank EXCEPT ![r][b] = Activated(bank[r][b], t)]
      /\ rank' = [rank EXCEPT ![r] = DDR4!RankBusy(rank[r], t)]
  BY DDR4Alike DEF DDR4!handleAct
<1> QED BY <1>1, <1>2, <1>3, OneRank, OneBank, LongestIs

LEMMA DDR4RefreshAllWithin ==
    ASSUME NEW t \in Nat, NEW r \in Ranks,
           RanksWithin(rank, t), BanksWithin(bank, t, Longest), DDR4!RefreshAll(r, t)
    PROVE  RanksWithin(rank', t) /\ BanksWithin(bank', t, Longest)
<1> DEFINE f == [b \in Banks |-> RefreshStarted(bank[r][b], "refAllBank", t, t + tRFC)]
<1>1. "refAllBank" \in Counters /\ tRFC \in Lengths
  BY LongestIs DEF Counters
<1>2. \A b \in Banks : BankWithin(f[b], t, Longest)
  BY <1>1, RefreshStartedWithin DEF BanksWithin
<1>3. f \in [Banks -> Bank]
  BY <1>2 DEF BankWithin
<1>4. RankWithin(DDR4!RankRefreshing(rank[r], t), t)
  BY DDR4RankBusyWithin DEF RanksWithin
<1>5. /\ bank' = [bank EXCEPT ![r] = f]
      /\ rank' = [rank EXCEPT ![r] = DDR4!RankRefreshing(rank[r], t)]
  BY DDR4Alike, DDR4RefreshStarted DEF DDR4!RefreshAll
<1> HIDE DEF f
<1> QED BY <1>2, <1>3, <1>4, <1>5, OneRank, BanksOfRank, LongestIs

LEMMA DDR4RefreshEnds ==
    ASSUME NEW r, NEW t
    PROVE  /\ AddAll(queue, DDR4!AllRefreshEnds(r, t), t + tRFC) = RefreshQueue(r, AllBanks, t + tRFC)
           /\ DDR4!AddAll(queue, DDR4!AllRefreshEnds(r, t), t + tRFC)
                = RefreshQueue(r, AllBanks, t + tRFC)
BY DEF DDR4!AllRefreshEnds, RefreshQueue, AllBanks, DDR4!RefreshEnds, RefreshEnds,
       DDR4!ImplicitFor, ImplicitFor, DDR4!AddAll, AddAll, DDR4!UpperBound, UpperBound

LEMMA DDR4ReactivatedWithin ==
    ASSUME NEW t \in Nat, NEW r \in Ranks, BanksWithin(bank, t, Longest)
    PROVE  BanksWithin([bank EXCEPT ![r] = DDR4!Reactivated(bank[r], t)], t, Longest)
<1> DEFINE f == [b \in Banks |-> IF Active(bank[r][b]) THEN ActStarted(bank[r][b], t)
                                 ELSE bank[r][b]]
<1>1. \A b \in Banks : BankWithin(f[b], t, Longest)
  BY ActStartedWithin, LongestIs DEF BanksWithin
<1>2. f \in [Banks -> Bank]
  BY <1>1 DEF BankWithin
<1>3. DDR4!Reactivated(bank[r], t) = f
  BY DDR4Alike DEF DDR4!Reactivated
<1> HIDE DEF f
<1> QED BY <1>1, <1>2, <1>3, BanksOfRank, LongestIs

LEMMA DDR4PowerDownWithin ==
    ASSUME NEW t \in Nat, NEW r \in Ranks, RanksWithin(rank, t), BanksWithin(bank, t, Longest),
           \/ DDR4!handlePowerDownActExitLater(r, t)
           \/ DDR4!handlePowerDownPreEntryLater(r, t)
           \/ DDR4!handlePowerDownPreExitLater(r, t)
    PROVE  RanksWithin(rank', t) /\ BanksWithin(bank', t, Longest)
<1>1. RankWithin(rank[r], t)
  BY DEF RanksWithin
<1>2. /\ Within(StartInterval(rank[r].act, t), t) /\ StartInterval(rank[r].act, t) \in Interval
      /\ Within(CloseInterval(rank[r].act, t), t) /\ CloseInterval(rank[r].act, t) \in Interval
      /\ Within(CloseInterval(rank[r].powerDownAct, t), t)
      /\ CloseInterval(rank[r].powerDownAct, t) \in Interval
      /\ Within(StartInterval(rank[r].powerDownPre, t), t)
      /\ StartInterval(rank[r].powerDownPre, t) \in Interval
  BY <1>1, StartWithin, CloseWithin DEF RankWithin, Within
<1>3. CASE DDR4!handlePowerDownActExitLater(r, t)
  <2> DEFINE a == IF DDR4!IsActive(rank[r], bank'[r], t)
                  THEN StartInterval(rank[r].act, t) ELSE rank[r].act
             l == [rank[r] EXCEPT !.memState = "NOT_IN_PD",
                       !.powerDownAct = CloseInterval(rank[r].powerDownAct, t), !.act = a]
  <2>1. Within(a, t) /\ a \in Interval
    BY <1>1, <1>2 DEF RankWithin, Rank
  <2>2. DDR4!PowerDownActLeft(rank[r], bank'[r], t) = l
    BY DDR4Alike DEF DDR4!PowerDownActLeft
  <2> HIDE DEF a
  <2>3. RankWithin(l, t)
    BY <1>1, <1>2, <2>1 DEF RankWithin, Rank, MemStates
  <2> HIDE DEF l
  <2>4. /\ bank' = [bank EXCEPT ![r] = DDR4!Reactivated(bank[r], t)]
        /\ rank' = [rank EXCEPT ![r] = l]
    BY <1>3, <2>2 DEF DDR4!handlePowerDownActExitLater
  <2> QED BY <2>3, <2>4, DDR4ReactivatedWithin, OneRank
<1>4. CASE DDR4!handlePowerDownPreEntryLater(r, t)
  <2> DEFINE f == [b \in Banks |-> ActClosed(bank[r][b], t)]
             e == [rank[r] EXCEPT !.memState = "PDN_PRE",
                       !.act = CloseInterval(rank[r].act, t),
                       !.powerDownPre = StartInterval(rank[r].powerDownPre, t)]
  <2>1. \A b \in Banks : BankWithin(f[b], t, Longest)
    BY ActStartedWithin, LongestIs DEF BanksWithin
  <2>2. f \in [Banks -> Bank]
    BY <2>1 DEF BankWithin
  <2>3. bank' = [bank EXCEPT ![r] = f] /\ rank' = [rank EXCEPT ![r] = e]
    BY <1>4, DDR4Alike DEF DDR4!handlePowerDownPreEntryLater, DDR4!PowerDownPreEntered
  <2>4. RankWithin(e, t)
    BY <1>1, <1>2 DEF RankWithin, Rank, MemStates
  <2> HIDE DEF f, e
  <2> QED BY <2>1, <2>2, <2>3, <2>4, OneRank, BanksOfRank, LongestIs
<1>5. CASE DDR4!handlePowerDownPreExitLater(r, t)
  <2>1. /\ bank' = [bank EXCEPT ![r] = DDR4!Reactivated(bank[r], t)]
        /\ rank' = [rank EXCEPT ![r] = PowerDownPreLeft(rank[r], t)]
    BY <1>5, DDR4Alike DEF DDR4!handlePowerDownPreExitLater
  <2>2. RankWithin(PowerDownPreLeft(rank[r], t), t)
    BY <1>1, PowerDownWithin
  <2> QED BY <2>1, <2>2, DDR4ReactivatedWithin, OneRank
<1> QED BY <1>3, <1>4, <1>5

LEMMA DDR4ExecutesWithin ==
    ASSUME IInv, DDR4!ExecuteImplicit
    PROVE  IInv'
<1> DEFINE e == Head(queue)
           t == e.time
<1>1. Pop
  BY DDR4Alike DEF DDR4!ExecuteImplicit
<1>2. /\ t \in Nat /\ e.rank \in Ranks /\ (e.op \in BankOps => e.bank \in Banks)
      /\ RanksWithin(rank, t) /\ BanksWithin(bank, t, Longest)
  BY <1>1, FirstEntry
<1>3. \/ Executed(e)
      \/ DDR4!handlePowerDownActExitLater(e.rank, t)
      \/ DDR4!handlePowerDownPreEntryLater(e.rank, t)
      \/ DDR4!handlePowerDownPreExitLater(e.rank, t)
  BY DDR4Alike
     DEF DDR4!ExecuteImplicit, DDR4!handlePre, DDR4!handleRefAllLater,
         DDR4!handleSelfRefreshEntryLater, DDR4!handlePowerDownActEntryLater, Executed
<1>4. RanksWithin(rank', t) /\ BanksWithin(bank', t, Longest)
  <2>1. t = e.time
    OBVIOUS
  <2> HIDE DEF e, t
  <2> QED BY <1>2, <1>3, <2>1, ExecutedWithin, DDR4PowerDownWithin
<1> QED BY <1>1, <1>4, PopStep

LEMMA DDR4Commands ==
    ASSUME NEW r \in Ranks, target \in Nat, CoreWithin(rank, bank, queue, target),
           DDR4!RankCommand(r) \/ \E b \in Banks : DDR4!BankCommand(r, b)
    PROVE  CoreWithin(rank', bank', queue', target)
<1> USE DDR4Alike
<1>1. ASSUME NEW b \in Banks, DDR4!BankCommand(r, b), ~DDR4!ACT(r, b)
      PROVE  Handled(r, target)
  <2>1. CASE DDR4!PRE(r, b)
    BY <2>1 DEF DDR4!PRE, DDR4!handlePre, Handled, Banks
  <2>2. CASE DDR4!RD(r, b) \/ DDR4!WR(r, b)
    BY <2>2 DEF DDR4!RD, DDR4!WR, DDR4!handleRead, DDR4!handleWrite, Handled, Counters
  <2>3. CASE DDR4!RDA(r, b) \/ DDR4!WRA(r, b)
    BY <2>3 DEF DDR4!RDA, DDR4!WRA, DDR4!handleReadAuto, DDR4!handleWriteAuto, Handled,
                Counters, Delays
  <2> QED BY <1>1, <2>1, <2>2, <2>3 DEF DDR4!BankCommand
<1>2. ASSUME NEW b \in Banks, DDR4!ACT(r, b)
      PROVE  CoreWithin(rank', bank', queue', target)
  BY <1>2, DDR4ActWithin DEF DDR4!ACT, CoreWithin
<1>3. CASE DDR4!PREA(r)
  BY <1>3, HandledWithin DEF DDR4!PREA, DDR4!handlePreAll, Handled, Banks
<1>4. CASE DDR4!SREFEX(r)
  BY <1>4, HandledWithin DEF DDR4!SREFEX, DDR4!handleSelfRefreshExit, Handled
<1>5. CASE DDR4!PDEA(r) \/ DDR4!PDXA(r) \/ DDR4!PDEP(r) \/ DDR4!PDXP(r)
  BY <1>5, HandledWithin
     DEF DDR4!PDEA, DDR4!PDXA, DDR4!PDEP, DDR4!PDXP, DDR4!handlePowerDownActEntry,
         DDR4!handlePowerDownActExit, DDR4!handlePowerDownPreEntry,
         DDR4!handlePowerDownPreExit, Handled, DelayedOps, ImplicitOps, BankOps
<1>6. CASE DDR4!REFA(r) \/ DDR4!SREFEN(r)
  <2> DEFINE q == RefreshQueue(r, AllBanks, target + tRFC)
             e == ImplicitFor(target + tRFC, "SREF_ENTRY", r, NoBank)
  <2>1. DDR4!RefreshAll(r, target) /\ (queue' = q \/ queue' = Add(q, e))
    BY <1>6, DDR4RefreshEnds
       DEF DDR4!REFA, DDR4!SREFEN, DDR4!handleRefAll, DDR4!handleSelfRefreshEntry
  <2>2. tRFC \in Lengths /\ tRFC \in Nat
    BY LongestIs
  <2>3. QueueFrom(q, target)
    BY <2>2, AllBanksTyped, RefreshQueueWithin DEF CoreWithin
  <2>4. e \in Entry /\ e.time = target + tRFC /\ target <= target + tRFC
    BY <2>2, ImplicitForType DEF ImplicitOps, BankOps
  <2> HIDE DEF q, e
  <2>5. QueueFrom(queue', target)
    BY <2>1, <2>3, <2>4, AddWithin
  <2> QED BY <2>1, <2>5, DDR4RefreshAllWithin DEF CoreWithin
<1> QED BY <1>1, <1>2, <1>3, <1>4, <1>5, <1>6, HandledWithin DEF DDR4!RankCommand, DDR4!BankCommand

LEMMA DDR4ServesWithin ==
    ASSUME IInv, DDR4!Serve
    PROVE  IInv'
<1>1. target \in Nat
  BY DEF IInv
<1>2. CASE DDR4!GetWindowStats
  BY <1>2, DDR4Alike, ReturnStep DEF GetWindowStats, coreVars
<1>3. CASE DDR4!DoCommand /\ \/ \E r \in Ranks, b \in Banks : DDR4!BankCommand(r, b)
                             \/ \E r \in Ranks : DDR4!RankCommand(r)
                             \/ UNCHANGED <<rank, bank, queue>>
  <2>1. Return /\ last' = Max2(target, last)
    BY <1>3, DDR4Alike DEF DoCommand
  <2>2. CoreWithin(rank, bank, queue, target) => CoreWithin(rank', bank', queue', target)
    BY <1>1, <1>3, DDR4Commands
  <2> QED BY <2>1, <2>2, ReturnStep
<1> QED BY <1>2, <1>3, DDR4Alike DEF DDR4!Serve, DDR4!END_OF_SIMULATION
-----------------------------------------------------------------------------
(* The theorems                                                            *)

LEMMA RunningStep ==
    ASSUME IInv, Running
    PROVE  IInv'
BY DDR4ExecutesWithin, DDR4ServesWithin, BankwiseKeeps, DDR5Executes, DDR5Serves,
   LPDDR4Executes, LPDDR4Serves, LPDDR5Executes, LPDDR5Serves, LPDDR6Executes, LPDDR6Serves
   DEF Running

\* An interval, a rank and a bank have no fields but those that are written.
LEMMA RestoredRecords ==
    /\ \A i \in Interval : RestoredInterval(i) = i
    /\ \A rk \in Rank : RestoredRank(rk) = rk
    /\ \A bk \in Bank : RestoredBank(bk) = bk
<1>1. ASSUME NEW i \in Interval PROVE RestoredInterval(i) = i
  BY DEF Interval, RestoredInterval, NewInterval
<1>2. ASSUME NEW rk \in Rank PROVE RestoredRank(rk) = rk
  <2>1. /\ RestoredInterval(rk.act) = rk.act /\ RestoredInterval(rk.sref) = rk.sref
        /\ RestoredInterval(rk.powerDownAct) = rk.powerDownAct
        /\ RestoredInterval(rk.powerDownPre) = rk.powerDownPre
        /\ RestoredInterval(rk.deepSleepMode) = rk.deepSleepMode
    BY <1>1 DEF Rank
  <2> QED BY <2>1 DEF Rank, RestoredRank, NewRank
<1>3. ASSUME NEW bk \in Bank PROVE RestoredBank(bk) = bk
  <2>1. RestoredInterval(bk.act) = bk.act
    BY <1>1 DEF Bank
  <2>2. [c \in Counters |-> bk.counter[c]] = bk.counter
    BY DEF Bank
  <2> QED BY <2>1, <2>2 DEF Bank, RestoredBank, NewBank
<1> QED BY <1>1, <1>2, <1>3

LEMMA RestoreStep ==
    ASSUME IInv, Restore
    PROVE  UNCHANGED coreVars /\ IInv'
<1>1. rank \in [Ranks -> Rank] /\ bank \in [Ranks -> [Banks -> Bank]]
  BY DEF IInv, RanksWithin, BanksWithin
<1>2. rank' = rank
  <2>1. \A r \in Ranks : RestoredRank(rank[r]) = rank[r]
    BY <1>1, RestoredRecords
  <2> QED BY <1>1, <2>1 DEF Restore
<1>3. bank' = bank
  <2>1. \A r \in Ranks : \A b \in Banks : RestoredBank(bank[r][b]) = bank[r][b]
    BY <1>1, RestoredRecords
  <2>2. \A r \in Ranks : [b \in Banks |-> RestoredBank(bank[r][b])] = bank[r]
    BY <1>1, <2>1
  <2> QED BY <1>1, <2>2 DEF Restore
<1>4. queue' = queue /\ last' = last /\ UNCHANGED callVars
  BY DEF Restore, IsSerializable
<1> QED BY <1>2, <1>3, <1>4 DEF coreVars, callVars, IInv

LEMMA NextStep == IInv /\ [AnyNext]_<<vars, standard>> => IInv'
<1> SUFFICES ASSUME IInv, [AnyNext]_<<vars, standard>> PROVE IInv'
  OBVIOUS
<1>1. CASE \E t \in now..MaxTime : Call(t)
  BY <1>1, CallStep
<1>2. CASE Running
  BY <1>2, RunningStep
<1>3. CASE UNCHANGED vars
  BY <1>3 DEF vars, IInv
<1>4. CASE Restore
  BY <1>4, RestoreStep
<1> QED BY <1>1, <1>2, <1>3, <1>4 DEF AnyNext

\* Every core keeps its state within the time it has reached.
THEOREM AnyInvariantHolds == AnySpec => []IInv
<1>1. AnyInit => IInv
  BY InitWithin DEF AnyInit
<1> QED BY <1>1, NextStep, PTL DEF AnySpec

\* The state of every core has the shape of the code's, after any trace.
THEOREM AnyTypeCorrect == AnySpec => []TypeOK
<1>1. IInv => TypeOK
  BY DEF IInv, TypeOK, RanksWithin, BanksWithin, QueueFrom, Time
<1> QED BY <1>1, AnyInvariantHolds, PTL

\* addImplicitCommand keeps the queue of every core sorted, and no implicit
\* command is executed late, after any trace.
THEOREM AnyQueueInOrder == AnySpec => []QueueInOrder
<1>1. IInv => QueueInOrder
  BY DEF IInv, QueueInOrder, QueueFrom
<1> QED BY <1>1, AnyInvariantHolds, PTL

\* No interval of any core counts more than the simulated time, after any
\* trace, so that no difference of timestamps wraps around.
THEOREM AnyCountsWithinTime == AnySpec => []CountsWithinTime
<1>1. IInv => CountsWithinTime
  BY DEF IInv, CountsWithinTime, Measured, RanksWithin, RankWithin, BanksWithin,
         BankWithin, Within
<1> QED BY <1>1, AnyInvariantHolds, PTL

\* The time of the last command moves only with the queue or to the call.
LEMMA LastMoves ==
    ASSUME Running
    PROVE  Pop \/ last' \in {last, Max2(target, last)}
<1>1. ASSUME BankwiseStep PROVE Pop \/ last' \in {last, Max2(target, last)}
  BY <1>1 DEF BankwiseStep, DoCommand, GetWindowStats, coreVars
<1>2. CASE DDR4!ExecuteImplicit \/ DDR4!Serve
  BY <1>2, DDR4Alike
     DEF DDR4!ExecuteImplicit, DDR4!Serve, DoCommand, GetWindowStats, coreVars
<1> QED BY <1>1, <1>2, DDR5Executes, DDR5Serves, LPDDR4Executes, LPDDR4Serves,
           LPDDR5Executes, LPDDR5Serves, LPDDR6Executes, LPDDR6Serves DEF Running

\* A core does nothing of itself between calls.
LEMMA RunningIsBusy ==
    ASSUME Running
    PROVE  phase = "busy"
BY DDR5Executes, DDR5Serves, LPDDR4Executes, LPDDR4Serves, LPDDR5Executes, LPDDR5Serves,
   LPDDR6Executes, LPDDR6Serves, DDR4Alike
   DEF Running, BankwiseStep, Pop, DoCommand, GetWindowStats, Return,
       DDR4!ExecuteImplicit, DDR4!Serve

\* m_last_command_time of no core ever goes back, after any trace.
THEOREM AnyLastMonotone == AnySpec => LastNeverDecreases
<1>1. IInv /\ [AnyNext]_<<vars, standard>> => [last' >= last]_last
  <2> SUFFICES ASSUME IInv, [AnyNext]_<<vars, standard>> PROVE last' >= last \/ last' = last
    OBVIOUS
  <2>1. CASE \E t \in now..MaxTime : Call(t)
    BY <2>1 DEF Call
  <2>2. CASE Running
    <3>1. CASE Pop
      BY <3>1, FirstEntry DEF Pop, IInv
    <3>2. CASE last' \in {last, Max2(target, last)}
      BY <3>2 DEF Max2, IInv
    <3> QED BY <2>2, <3>1, <3>2, LastMoves
  <2>3. CASE UNCHANGED vars
    BY <2>3 DEF vars
  <2>4. CASE Restore
    BY <2>4 DEF Restore
  <2> QED BY <2>1, <2>2, <2>3, <2>4 DEF AnyNext
<1> QED BY <1>1, AnyInvariantHolds, PTL DEF AnySpec, LastNeverDecreases

\* What serialize writes of a core that is serializable is all there is to know of
\* it, in every standard, after any trace: restored, it is the same.
THEOREM AnyRestoreChangesNothing == AnySpec => RestoreChangesNothing
<1>1. IInv /\ [AnyNext]_<<vars, standard>>
          => [phase = "idle" /\ phase' = "idle" => UNCHANGED coreVars]_vars
  <2> SUFFICES ASSUME IInv, [AnyNext]_<<vars, standard>>, phase = "idle", phase' = "idle"
               PROVE  UNCHANGED coreVars
    OBVIOUS
  <2>1. CASE \E t \in now..MaxTime : Call(t)
    BY <2>1 DEF Call
  <2>2. CASE Running
    BY <2>2, RunningIsBusy
  <2>3. CASE Restore
    BY <2>3, RestoreStep
  <2>4. CASE UNCHANGED vars
    BY <2>4 DEF vars, coreVars
  <2> QED BY <2>1, <2>2, <2>3, <2>4 DEF AnyNext
<1> QED BY <1>1, AnyInvariantHolds, PTL DEF AnySpec, RestoreChangesNothing
=============================================================================
