------------------------------ MODULE CoreLemmas ------------------------------
(***************************************************************************)
(* What the parts of the handlers do to one interval, one bank, one rank   *)
(* and the queue, whatever the standard: no value leaves its type, and no  *)
(* interval counts more than the time that has passed.  First what the     *)
(* queue of implicit commands does, whatever its entries are.              *)
(***************************************************************************)
EXTENDS CoreHandlers, SequenceTheorems, NaturalLemmas

\* What the lemmas ask of the entries, named so that it is matched whole:
\* they have times, or all have the time t.
Timed(E) == \A e \in E : e.time \in Nat
AllAt(es, t) == \A i \in 1..Len(es) : es[i].time = t

\* In a sorted queue the place of a new entry exists and is unique in what
\* it says: the entries before it are not later, those after it are.
LEMMA UpperBoundPlace ==
    ASSUME NEW E, Timed(E),
           NEW q \in Seq(E), Sorted(q), NEW t \in Nat
    PROVE  /\ UpperBound(q, t) \in 0..Len(q)
           /\ \A i \in 1..UpperBound(q, t) : q[i].time <= t
           /\ \A i \in (UpperBound(q, t) + 1)..Len(q) : q[i].time > t
<1> DEFINE Place(k) == /\ \A i \in 1..k : q[i].time <= t
                       /\ \A i \in (k + 1)..Len(q) : q[i].time > t
           Later == {i \in 1..Len(q) : q[i].time > t}
<1>1. Len(q) \in Nat /\ \A i \in 1..Len(q) : q[i].time \in Nat
  BY ElementOfSeq, LenProperties DEF Timed
<1>2. \E k \in 0..Len(q) : Place(k)
  <2>1. CASE Later = {}
    <3>1. \A i \in 1..Len(q) : q[i].time <= t
      <4> SUFFICES ASSUME NEW i \in 1..Len(q) PROVE q[i].time <= t
        OBVIOUS
      <4>1. ~(q[i].time > t)
        BY <2>1
      <4> QED BY <1>1, <4>1
    <3>2. Place(Len(q))
      BY <1>1, <3>1
    <3>3. Len(q) \in 0..Len(q)
      BY <1>1
    <3> HIDE DEF Place
    <3> QED BY <3>2, <3>3
  <2>2. CASE Later # {}
    <3>1. PICK m \in Later : \A i \in Later : m <= i
      <4>1. Later \subseteq Nat
        BY <1>1
      <4> HIDE DEF Later
      <4> QED BY <2>2, <4>1, Least
    <3>2. \A i \in 1..(m - 1) : q[i].time <= t
      BY <1>1, <3>1
    <3>3. \A i \in m..Len(q) : q[i].time > t
      <4>1. m \in 1..Len(q) /\ q[m].time > t
        BY <3>1
      <4> SUFFICES ASSUME NEW i \in m..Len(q), i # m PROVE q[i].time > t
        BY <4>1
      <4>2. i \in 1..Len(q) /\ q[m].time <= q[i].time
        BY <1>1, <4>1 DEF Sorted
      <4> QED BY <1>1, <4>1, <4>2
    <3>4. m - 1 \in 0..Len(q) /\ (m - 1) + 1 = m
      BY <1>1, <3>1
    <3> QED BY <3>2, <3>3, <3>4
  <2> QED BY <2>1, <2>2
<1>3. UpperBound(q, t) = CHOOSE k \in 0..Len(q) : Place(k)
  BY DEF UpperBound
<1> HIDE DEF Place
<1>4. UpperBound(q, t) \in 0..Len(q) /\ Place(UpperBound(q, t))
  BY <1>2, <1>3
<1> QED BY <1>4 DEF Place
-----------------------------------------------------------------------------
\* Adding entries of time t to a sorted queue gives a sorted queue of the old
\* entries and the new ones.
LEMMA AddAllKeepsOrder ==
    ASSUME NEW E, Timed(E), NEW q \in Seq(E), Sorted(q),
           NEW es \in Seq(E), NEW t \in Nat, AllAt(es, t)
    PROVE  /\ AddAll(q, es, t) \in Seq(E)
           /\ Sorted(AddAll(q, es, t))
           /\ \A i \in 1..Len(AddAll(q, es, t)) :
                 \/ \E j \in 1..Len(q) : AddAll(q, es, t)[i] = q[j]
                 \/ \E j \in 1..Len(es) : AddAll(q, es, t)[i] = es[j]
<1> DEFINE k == UpperBound(q, t)
           n == Len(q) + Len(es)
           A == [i \in 1..n |->
                    IF i <= k THEN q[i]
                    ELSE IF i <= k + Len(es) THEN es[i - k] ELSE q[i - Len(es)]]
<1>1. /\ k \in 0..Len(q)
      /\ \A i \in 1..k : q[i].time <= t
      /\ \A i \in (k + 1)..Len(q) : q[i].time > t
  BY UpperBoundPlace
<1>2. /\ Len(q) \in Nat /\ Len(es) \in Nat
      /\ \A i \in 1..Len(q) : q[i] \in E /\ q[i].time \in Nat
      /\ \A i \in 1..Len(es) : es[i] \in E
  BY ElementOfSeq, LenProperties DEF Timed
<1>3. AddAll(q, es, t) = A
  BY DEF AddAll
<1> HIDE DEF k
<1>4. A \in [1..n -> E]
  BY <1>1, <1>2
<1>5. n \in Nat
  BY <1>2
<1>6. A \in Seq(E) /\ Len(A) = n
  <2> HIDE DEF A, n
  <2> QED BY <1>4, <1>5
<1> DEFINE Before == 1..k
           New == (k + 1)..(k + Len(es))
           After == (k + Len(es) + 1)..n
<1>7. /\ \A i \in Before : i \in 1..Len(q) /\ A[i] = q[i]
      /\ \A i \in New : i - k \in 1..Len(es) /\ A[i] = es[i - k]
      /\ \A i \in After : i - Len(es) \in (k + 1)..Len(q) /\ A[i] = q[i - Len(es)]
      /\ \A i \in 1..n : i \in Before \/ i \in New \/ i \in After
  BY <1>1, <1>2
<1>8. \A i \in 1..n :
         (\E j \in 1..Len(q) : A[i] = q[j]) \/ (\E j \in 1..Len(es) : A[i] = es[j])
  <2>1. (k + 1)..Len(q) \subseteq 1..Len(q)
    BY <1>1
  <2> HIDE DEF A, n, Before, New, After
  <2> QED BY <1>7, <2>1
<1>9. Sorted(A)
  <2> SUFFICES ASSUME NEW i \in 1..n, NEW j \in 1..n, i < j
               PROVE  A[i].time <= A[j].time
    BY <1>6 DEF Sorted
  <2> HIDE DEF A
  <2>1. \A m \in New : A[m].time = t
    BY <1>7 DEF AllAt
  <2>2. \A m \in After : A[m].time > t /\ A[m].time \in Nat
    BY <1>1, <1>2, <1>7
  <2>3. \A m \in Before : A[m].time <= t /\ A[m].time \in Nat
    BY <1>1, <1>2, <1>7
  <2>4. CASE j \in Before
    BY SMTT(30), <1>1, <1>2, <1>7, <2>4 DEF Sorted
  <2>5. CASE j \in New
    <3>1. i \in Before \/ i \in New
      BY <1>1, <1>2, <1>7, <2>5
    <3> QED BY <2>1, <2>3, <2>5, <3>1
  <2>6. CASE j \in After
    <3>1. CASE i \in After
      <4>1. /\ i - Len(es) \in 1..Len(q) /\ j - Len(es) \in 1..Len(q)
            /\ i - Len(es) < j - Len(es)
        BY <1>1, <1>2, <2>6, <3>1
      <4>2. q[i - Len(es)].time <= q[j - Len(es)].time
        BY <4>1 DEF Sorted
      <4> QED BY <1>7, <2>6, <3>1, <4>2
    <3>2. CASE i \in Before \/ i \in New
      <4>1. A[i].time <= t /\ A[i].time \in Nat
        BY <2>1, <2>3, <3>2
      <4> QED BY <2>2, <2>6, <4>1
    <3> QED BY <1>7, <3>1, <3>2
  <2> QED BY <1>7, <2>4, <2>5, <2>6
<1> QED BY <1>3, <1>6, <1>8, <1>9

\* Taking the first entry off a sorted queue leaves a sorted queue, whose
\* entries are not earlier than it.
LEMMA TailKeepsOrder ==
    ASSUME NEW E, Timed(E),
           NEW q \in Seq(E), q # <<>>, Sorted(q)
    PROVE  /\ Head(q) \in E /\ Head(q) = q[1] /\ 1 \in 1..Len(q)
           /\ Tail(q) \in Seq(E) /\ Sorted(Tail(q))
           /\ \A i \in 1..Len(Tail(q)) : /\ i + 1 \in 1..Len(q)
                                         /\ Tail(q)[i] = q[i + 1]
                                         /\ Tail(q)[i].time >= Head(q).time
<1>1. /\ Head(q) \in E /\ Tail(q) \in Seq(E)
      /\ Len(q) \in Nat /\ Len(Tail(q)) = Len(q) - 1
      /\ \A i \in 1..Len(Tail(q)) : Tail(q)[i] = q[i + 1]
  BY HeadTailProperties, LenProperties
<1>2. Len(q) >= 1 /\ Head(q) = q[1]
  BY <1>1, EmptySeq, LenProperties
<1>3. \A i \in 1..Len(q) : q[i].time \in Nat
  BY ElementOfSeq DEF Timed
<1>4. \A i \in 1..Len(Tail(q)) : i + 1 \in 1..Len(q) /\ 1 < i + 1
  BY <1>1
<1> QED BY <1>1, <1>2, <1>3, <1>4 DEF Sorted
-----------------------------------------------------------------------------
(* What is within the time that has passed                                 *)

\* An interval that started, and counted, nothing after n.
Within(i, n) == i \in Interval /\ GetStart(i) <= n /\ GetCountAt(i, n) <= n

RankWithin(rk, n) ==
    /\ rk \in Rank
    /\ Within(rk.act, n) /\ Within(rk.sref, n)
    /\ Within(rk.powerDownAct, n) /\ Within(rk.powerDownPre, n)
    /\ Within(rk.deepSleepMode, n)

\* d is the length of the longest refresh.
BankWithin(bk, n, d) ==
    /\ bk \in Bank
    /\ Within(bk.act, n) /\ bk.latestPre <= n /\ bk.refreshEndTime <= n + d
RanksWithin(rks, n) == rks \in [Ranks -> Rank] /\ \A r \in Ranks : RankWithin(rks[r], n)

BanksWithin(bks, n, d) ==
    /\ bks \in [Ranks -> [Banks -> Bank]]
    /\ \A r \in Ranks, b \in Banks : BankWithin(bks[r][b], n, d)

\* A sorted queue of entries none of which is due before n.
QueueFrom(q, n) ==
    q \in Seq(Entry) /\ Sorted(q) /\ \A i \in 1..Len(q) : q[i].time >= n
-----------------------------------------------------------------------------
(* Intervals                                                               *)

LEMMA NewWithin == ASSUME NEW n \in Nat PROVE Within(NewInterval, n)
BY DEF Within, NewInterval, Interval, GetStart, GetCountAt, IsOpen, Time, NoTime

\* An open interval has counted no more than the time of its start, so its
\* count never overtakes the clock.
LEMMA WithinLater ==
    ASSUME NEW n \in Nat, NEW m \in Nat, n <= m, NEW i, Within(i, n)
    PROVE  Within(i, m)
<1>1. /\ i.count \in Nat /\ (i.start \in Nat \/ i.start = -1)
      /\ (i.end \in Nat \/ i.end = -1)
  BY DEF Within, Interval, Time, NoTime
<1> QED BY <1>1 DEF Within, GetStart, GetCountAt, IsOpen, NoTime

LEMMA CloseWithin ==
    ASSUME NEW t \in Nat, NEW i, Within(i, t)
    PROVE  Within(CloseInterval(i, t), t)
<1>1. /\ i \in Interval /\ i.count \in Nat /\ (i.start \in Nat \/ i.start = -1)
      /\ (i.end \in Nat \/ i.end = -1)
  BY DEF Within, Interval, Time, NoTime
<1>2. CASE IsOpen(i)
  <2> DEFINE c == [i EXCEPT !.end = t, !.count = i.count + (t - i.start)]
  <2>1. CloseInterval(i, t) = c
    BY <1>2 DEF CloseInterval
  <2>2. i.start \in Nat /\ i.start <= t
    BY <1>1, <1>2 DEF Within, GetStart, IsOpen, NoTime
  <2>3. c.start = i.start /\ c.end = t /\ c.count = i.count + (t - i.start)
    BY <1>1 DEF Interval
  <2>4. c \in Interval
    <3>1. i.count + (t - i.start) \in Nat
      BY <1>1, <2>2
    <3> QED BY <1>1, <3>1 DEF Interval, Time
  <2>5. i.count + (t - i.start) <= t
    BY <1>1, <1>2, <2>2 DEF Within, GetCountAt
  <2> HIDE DEF c
  <2> QED BY <2>1, <2>2, <2>3, <2>4, <2>5 DEF Within, GetStart, GetCountAt, IsOpen, NoTime
<1>3. CASE ~IsOpen(i)
  BY <1>3 DEF CloseInterval
<1> QED BY <1>2, <1>3

LEMMA StartWithin ==
    ASSUME NEW t \in Nat, NEW i, Within(i, t)
    PROVE  Within(StartInterval(i, t), t)
<1>1. /\ i \in Interval /\ i.count \in Nat /\ i.count <= t
  <2>1. /\ i.count \in Nat /\ (i.start \in Nat \/ i.start = -1)
    BY DEF Within, Interval, Time, NoTime
  <2> QED BY <2>1 DEF Within, GetStart, GetCountAt, IsOpen, NoTime
<1> DEFINE s == [i EXCEPT !.start = t, !.end = NoTime]
<1>2. s \in Interval /\ s.start = t /\ s.end = NoTime /\ s.count = i.count
  BY <1>1 DEF Interval, Time
<1>3. StartInterval(i, t) = s
  BY DEF StartInterval
<1> HIDE DEF s
<1> QED BY <1>1, <1>2, <1>3 DEF Within, GetStart, GetCountAt, IsOpen, NoTime

LEMMA StartIfNotRunningWithin ==
    ASSUME NEW t \in Nat, NEW i, Within(i, t)
    PROVE  Within(StartIfNotRunning(i, t), t)
BY StartWithin DEF StartIfNotRunning
-----------------------------------------------------------------------------
(* Ranks and banks                                                         *)

LEMMA NewRankWithin == ASSUME NEW n \in Nat PROVE RankWithin(NewRank, n)
<1>1. Within(NewInterval, n) /\ NewInterval \in Interval
  BY NewWithin DEF Within
<1> QED BY <1>1 DEF RankWithin, NewRank, Rank, MemStates, Time

LEMMA NewBankWithin ==
    ASSUME NEW n \in Nat, NEW d \in Nat PROVE BankWithin(NewBank, n, d)
<1>1. Within(NewInterval, n) /\ NewInterval \in Interval
  BY NewWithin DEF Within
<1> QED BY <1>1 DEF BankWithin, NewBank, Bank, Time

LEMMA RankLater ==
    ASSUME NEW n \in Nat, NEW m \in Nat, n <= m, NEW rk, RankWithin(rk, n)
    PROVE  RankWithin(rk, m)
BY WithinLater DEF RankWithin

LEMMA BankLater ==
    ASSUME NEW n \in Nat, NEW m \in Nat, n <= m, NEW d \in Nat,
           NEW bk, BankWithin(bk, n, d)
    PROVE  BankWithin(bk, m, d)
<1>1. bk.latestPre \in Nat /\ bk.refreshEndTime \in Nat
  BY DEF BankWithin, Bank, Time
<1> QED BY <1>1, WithinLater DEF BankWithin

LEMMA CountedWithin ==
    ASSUME NEW n \in Nat, NEW d \in Nat, NEW c \in Counters,
           NEW bk, BankWithin(bk, n, d)
    PROVE  BankWithin(Counted(bk, c), n, d) /\ Counted(bk, c).act = bk.act
<1>1. bk \in Bank
  BY DEF BankWithin
<1> DEFINE k == [bk.counter EXCEPT ![c] = @ + 1]
<1>2. k \in [Counters -> Nat]
  BY <1>1 DEF Bank
<1>3. Counted(bk, c) = [bk EXCEPT !.counter = k]
  BY DEF Counted
<1> HIDE DEF k
<1> QED BY <1>1, <1>2, <1>3 DEF BankWithin, Bank

LEMMA PrechargedWithin ==
    ASSUME NEW t \in Nat, NEW d \in Nat, NEW bk, BankWithin(bk, t, d)
    PROVE  BankWithin(Precharged(bk, t), t, d)
<1> DEFINE c == Counted(bk, "pre")
           p == [c EXCEPT !.bankState = "PRECHARGED",
                          !.act = CloseInterval(c.act, t), !.latestPre = t]
<1>1. BankWithin(c, t, d)
  BY CountedWithin DEF Counters
<1>2. Within(CloseInterval(c.act, t), t) /\ CloseInterval(c.act, t) \in Interval
  BY <1>1, CloseWithin DEF BankWithin, Within
<1>3. Precharged(bk, t) = IF Active(bk) THEN p ELSE bk
  BY DEF Precharged
<1> HIDE DEF c
<1>4. /\ p \in Bank /\ p.act = CloseInterval(c.act, t) /\ p.latestPre = t
      /\ p.refreshEndTime = c.refreshEndTime
  BY <1>1, <1>2 DEF BankWithin, Bank, Time
<1> HIDE DEF p
<1>5. BankWithin(p, t, d)
  BY <1>1, <1>2, <1>4 DEF BankWithin
<1> QED BY <1>3, <1>5

LEMMA RankIdleWithin ==
    ASSUME NEW t \in Nat, NEW rk, RankWithin(rk, t), NEW bks
    PROVE  RankWithin(RankIdle(rk, bks, t), t)
<1>1. Within(CloseInterval(rk.act, t), t) /\ CloseInterval(rk.act, t) \in Interval
  BY CloseWithin DEF RankWithin, Within
<1> QED BY <1>1 DEF RankIdle, RankWithin, Rank

LEMMA ActStartedWithin ==
    ASSUME NEW t \in Nat, NEW d \in Nat, NEW bk, BankWithin(bk, t, d)
    PROVE  /\ BankWithin(ActStarted(bk, t), t, d)
           /\ BankWithin(ActClosed(bk, t), t, d)
<1>1. /\ Within(StartInterval(bk.act, t), t) /\ StartInterval(bk.act, t) \in Interval
      /\ Within(CloseInterval(bk.act, t), t) /\ CloseInterval(bk.act, t) \in Interval
  BY StartWithin, CloseWithin DEF BankWithin, Within
<1> QED BY <1>1 DEF BankWithin, Bank, ActStarted, ActClosed

LEMMA ActivatedWithin ==
    ASSUME NEW t \in Nat, NEW d \in Nat, NEW bk, BankWithin(bk, t, d)
    PROVE  BankWithin(Activated(bk, t), t, d)
<1> DEFINE c == Counted(bk, "act")
           a == [c EXCEPT !.bankState = "ACTIVE", !.act = StartInterval(c.act, t)]
<1>1. BankWithin(c, t, d)
  BY CountedWithin DEF Counters
<1>2. Within(StartInterval(c.act, t), t) /\ StartInterval(c.act, t) \in Interval
  BY <1>1, StartWithin DEF BankWithin, Within
<1>3. Activated(bk, t) = a
  BY DEF Activated
<1> HIDE DEF c
<1>4. /\ a \in Bank /\ a.act = StartInterval(c.act, t) /\ a.latestPre = c.latestPre
      /\ a.refreshEndTime = c.refreshEndTime
  BY <1>1, <1>2 DEF BankWithin, Bank
<1> HIDE DEF a
<1> QED BY <1>1, <1>2, <1>3, <1>4 DEF BankWithin

LEMMA RefreshEndedWithin ==
    ASSUME NEW t \in Nat, NEW d \in Nat, NEW bk, BankWithin(bk, t, d)
    PROVE  BankWithin(RefreshEnded(bk, t), t, d)
<1>1. Within(CloseInterval(bk.act, t), t) /\ CloseInterval(bk.act, t) \in Interval
  BY CloseWithin DEF BankWithin, Within
<1> QED BY <1>1 DEF BankWithin, Bank, RefreshEnded

LEMMA SelfRefreshWithin ==
    ASSUME NEW t \in Nat, NEW rk, RankWithin(rk, t)
    PROVE  /\ RankWithin(SelfRefreshEntered(rk, t), t)
           /\ RankWithin(SelfRefreshLeft(rk, t), t)
<1>1. /\ Within(StartInterval(rk.sref, t), t) /\ StartInterval(rk.sref, t) \in Interval
      /\ Within(CloseInterval(rk.sref, t), t) /\ CloseInterval(rk.sref, t) \in Interval
  BY StartWithin, CloseWithin DEF RankWithin, Within
<1>2. rk \in Rank /\ rk.selfRefreshes + 1 \in Nat
  BY DEF RankWithin, Rank
<1>3. RankWithin(SelfRefreshEntered(rk, t), t)
  <2> DEFINE e == [rk EXCEPT !.selfRefreshes = rk.selfRefreshes + 1,
                             !.sref = StartInterval(rk.sref, t), !.memState = "SREF"]
  <2>1. e \in Rank
    BY <1>1, <1>2 DEF Rank, MemStates
  <2>2. /\ e.sref = StartInterval(rk.sref, t) /\ e.act = rk.act
        /\ e.powerDownAct = rk.powerDownAct /\ e.powerDownPre = rk.powerDownPre
        /\ e.deepSleepMode = rk.deepSleepMode
    BY <1>2 DEF Rank
  <2>3. SelfRefreshEntered(rk, t) = e
    BY DEF SelfRefreshEntered
  <2> HIDE DEF e
  <2> QED BY <1>1, <2>1, <2>2, <2>3 DEF RankWithin
<1>4. RankWithin(SelfRefreshLeft(rk, t), t)
  BY <1>1, <1>2 DEF RankWithin, Rank, MemStates, SelfRefreshLeft
<1> QED BY <1>3, <1>4

LEMMA PowerDownWithin ==
    ASSUME NEW t \in Nat, NEW rk, RankWithin(rk, t)
    PROVE  /\ RankWithin(PowerDownActEntered(rk, t), t)
           /\ RankWithin(PowerDownPreLeft(rk, t), t)
<1>1. /\ Within(CloseInterval(rk.act, t), t) /\ CloseInterval(rk.act, t) \in Interval
      /\ Within(StartInterval(rk.powerDownAct, t), t)
      /\ StartInterval(rk.powerDownAct, t) \in Interval
      /\ Within(CloseInterval(rk.powerDownPre, t), t)
      /\ CloseInterval(rk.powerDownPre, t) \in Interval
  BY StartWithin, CloseWithin DEF RankWithin, Within
<1>2. RankWithin(PowerDownActEntered(rk, t), t)
  BY <1>1 DEF RankWithin, Rank, MemStates, PowerDownActEntered
<1>3. RankWithin(PowerDownPreLeft(rk, t), t)
  BY <1>1 DEF RankWithin, Rank, MemStates, PowerDownPreLeft
<1> QED BY <1>2, <1>3
-----------------------------------------------------------------------------
(* The state after a handler                                               *)

\* Changing one rank, or one bank, or all banks of a rank.
LEMMA OneRank ==
    ASSUME NEW t \in Nat, NEW r \in Ranks, NEW rks, RanksWithin(rks, t),
           NEW rk, RankWithin(rk, t)
    PROVE  RanksWithin([rks EXCEPT ![r] = rk], t)
BY DEF RanksWithin, RankWithin

LEMMA OneBank ==
    ASSUME NEW t \in Nat, NEW d \in Nat, NEW r \in Ranks, NEW b,
           NEW bks, BanksWithin(bks, t, d), NEW bk, BankWithin(bk, t, d)
    PROVE  BanksWithin([bks EXCEPT ![r][b] = bk], t, d)
BY DEF BanksWithin, BankWithin

LEMMA BanksOfRank ==
    ASSUME NEW t \in Nat, NEW d \in Nat, NEW r \in Ranks,
           NEW bks, BanksWithin(bks, t, d),
           NEW f \in [Banks -> Bank], \A b \in Banks : BankWithin(f[b], t, d)
    PROVE  BanksWithin([bks EXCEPT ![r] = f], t, d)
BY DEF BanksWithin

LEMMA PrechargeWithin ==
    ASSUME NEW t \in Nat, NEW d \in Nat, NEW r \in Ranks, NEW bs,
           RanksWithin(rank, t), BanksWithin(bank, t, d), Precharge(r, bs, t)
    PROVE  RanksWithin(rank', t) /\ BanksWithin(bank', t, d)
<1> DEFINE f == [b \in Banks |-> IF b \in bs THEN Precharged(bank[r][b], t) ELSE bank[r][b]]
<1>1. \A b \in Banks : BankWithin(f[b], t, d)
  BY PrechargedWithin DEF BanksWithin
<1>2. f \in [Banks -> Bank]
  BY <1>1 DEF BankWithin
<1>3. bank' = [bank EXCEPT ![r] = f]
  BY DEF Precharge
<1>4. BanksWithin(bank', t, d)
  <2> HIDE DEF f
  <2> QED BY <1>1, <1>2, <1>3, BanksOfRank
<1>5. RanksWithin([rank EXCEPT ![r] = RankIdle(rank[r], bank'[r], t)], t)
  BY RankIdleWithin, OneRank DEF RanksWithin
<1>6. \/ rank' = rank
      \/ rank' = [rank EXCEPT ![r] = RankIdle(rank[r], bank'[r], t)]
  BY DEF Precharge
<1> QED BY <1>4, <1>5, <1>6

LEMMA CountWithin ==
    ASSUME NEW t \in Nat, NEW d \in Nat, NEW r \in Ranks, NEW b \in Banks,
           NEW c \in Counters,
           RanksWithin(rank, t), BanksWithin(bank, t, d), Count(r, b, c)
    PROVE  RanksWithin(rank', t) /\ BanksWithin(bank', t, d)
<1>1. BankWithin(Counted(bank[r][b], c), t, d)
  BY CountedWithin DEF BanksWithin
<1>2. bank' = [bank EXCEPT ![r][b] = Counted(bank[r][b], c)] /\ rank' = rank
  BY DEF Count
<1> QED BY <1>1, <1>2, OneBank

LEMMA RefreshEndWithin ==
    ASSUME NEW t \in Nat, NEW d \in Nat, NEW r \in Ranks, NEW b \in Banks,
           RanksWithin(rank, t), BanksWithin(bank, t, d), RefreshEnd(r, b, t)
    PROVE  RanksWithin(rank', t) /\ BanksWithin(bank', t, d)
<1>1. BankWithin(RefreshEnded(bank[r][b], t), t, d)
  BY RefreshEndedWithin DEF BanksWithin
<1>2. bank' = [bank EXCEPT ![r][b] = RefreshEnded(bank[r][b], t)]
  BY DEF RefreshEnd
<1>3. rank' = [rank EXCEPT ![r] = RankIdle(rank[r], bank'[r], t)]
  BY DEF RefreshEnd
<1>4. RankWithin(RankIdle(rank[r], bank'[r], t), t)
  BY RankIdleWithin DEF RanksWithin
<1>5. RanksWithin(rank', t)
  BY <1>3, <1>4, OneRank
<1> QED BY <1>1, <1>2, <1>5, OneBank

LEMMA SelfRefreshStepWithin ==
    ASSUME NEW t \in Nat, NEW r \in Ranks, RanksWithin(rank, t),
           SelfRefreshEntry(r, t) \/ SelfRefreshExit(r, t)
    PROVE  RanksWithin(rank', t) /\ bank' = bank
<1>1. RankWithin(rank[r], t)
  BY DEF RanksWithin
<1>2. \/ rank' = [rank EXCEPT ![r] = SelfRefreshEntered(rank[r], t)]
      \/ rank' = [rank EXCEPT ![r] = SelfRefreshLeft(rank[r], t)]
  BY DEF SelfRefreshEntry, SelfRefreshExit
<1>3. bank' = bank
  BY DEF SelfRefreshEntry, SelfRefreshExit
<1> QED BY <1>1, <1>2, <1>3, SelfRefreshWithin, OneRank

LEMMA PowerDownActEntryWithin ==
    ASSUME NEW t \in Nat, NEW d \in Nat, NEW r \in Ranks,
           RanksWithin(rank, t), BanksWithin(bank, t, d), PowerDownActEntry(r, t)
    PROVE  RanksWithin(rank', t) /\ BanksWithin(bank', t, d)
<1> DEFINE f == [b \in Banks |-> ActClosed(bank[r][b], t)]
<1>1. \A b \in Banks : BankWithin(f[b], t, d)
  BY ActStartedWithin DEF BanksWithin
<1>2. f \in [Banks -> Bank]
  BY <1>1 DEF BankWithin
<1>3. bank' = [bank EXCEPT ![r] = f]
  BY DEF PowerDownActEntry
<1>4. BanksWithin(bank', t, d)
  <2> HIDE DEF f
  <2> QED BY <1>1, <1>2, <1>3, BanksOfRank
<1>5. rank' = [rank EXCEPT ![r] = PowerDownActEntered(rank[r], t)]
  BY DEF PowerDownActEntry
<1>6. RankWithin(PowerDownActEntered(rank[r], t), t)
  BY PowerDownWithin DEF RanksWithin
<1> QED BY <1>4, <1>5, <1>6, OneRank
-----------------------------------------------------------------------------
(* The queue                                                               *)

LEMMA EntryTime == Timed(Entry) /\ \A e \in Entry : e.time \in Nat
BY DEF Entry, Time, Timed

LEMMA AddAllWithin ==
    ASSUME NEW n \in Nat, NEW t \in Nat, n <= t, NEW q, QueueFrom(q, n),
           NEW es \in Seq(Entry), \A i \in 1..Len(es) : es[i].time = t
    PROVE  QueueFrom(AddAll(q, es, t), n)
<1>1. q \in Seq(Entry) /\ Sorted(q) /\ \A i \in 1..Len(q) : q[i].time >= n
  BY DEF QueueFrom
<1>2. Timed(Entry) /\ AllAt(es, t)
  BY EntryTime DEF AllAt
<1>3. /\ AddAll(q, es, t) \in Seq(Entry)
      /\ Sorted(AddAll(q, es, t))
      /\ \A i \in 1..Len(AddAll(q, es, t)) :
            \/ \E j \in 1..Len(q) : AddAll(q, es, t)[i] = q[j]
            \/ \E j \in 1..Len(es) : AddAll(q, es, t)[i] = es[j]
  BY <1>1, <1>2, AddAllKeepsOrder
<1> DEFINE A == AddAll(q, es, t)
<1>4. A \in Seq(Entry) /\ Sorted(A)
  BY <1>3
<1>5. \A i \in 1..Len(A) : \/ \E j \in 1..Len(q) : A[i] = q[j]
                           \/ \E j \in 1..Len(es) : A[i] = es[j]
  BY <1>3
<1> HIDE DEF A
<1>6. \A i \in 1..Len(A) : A[i].time >= n
  BY <1>1, <1>5
<1>7. QueueFrom(A, n)
  BY <1>4, <1>6 DEF QueueFrom
<1> QED BY <1>7 DEF A

LEMMA AddWithin ==
    ASSUME NEW n \in Nat, NEW q, QueueFrom(q, n), NEW e \in Entry, n <= e.time
    PROVE  QueueFrom(Add(q, e), n)
<1>1. <<e>> \in Seq(Entry) /\ Len(<<e>>) = 1 /\ <<e>>[1] = e
  OBVIOUS
<1>2. \A i \in 1..Len(<<e>>) : <<e>>[i].time = e.time
  BY <1>1
<1>3. e.time \in Nat
  BY EntryTime
<1> QED BY <1>1, <1>2, <1>3, AddAllWithin DEF Add

LEMMA ImplicitForType ==
    ASSUME NEW t \in Nat, NEW op \in ImplicitOps, NEW r \in Ranks,
           NEW b \in Banks \cup {NoBank}, op \in BankOps <=> b # NoBank
    PROVE  ImplicitFor(t, op, r, b) \in Entry /\ ImplicitFor(t, op, r, b).time = t
BY DEF ImplicitFor, Entry, Time

LEMMA RefreshEndsType ==
    ASSUME NEW t \in Nat, NEW r \in Ranks, NEW bs \in Seq(Banks)
    PROVE  /\ RefreshEnds(r, bs, t) \in Seq(Entry)
           /\ \A i \in 1..Len(RefreshEnds(r, bs, t)) : RefreshEnds(r, bs, t)[i].time = t
<1> DEFINE E == [i \in 1..Len(bs) |-> ImplicitFor(t, "REFRESH_END", r, bs[i])]
<1>1. Len(bs) \in Nat /\ \A i \in 1..Len(bs) : bs[i] \in Banks /\ bs[i] # NoBank
  <2>1. \A b \in Banks : b # NoBank
    BY DEF Banks, NoBank
  <2> QED BY <2>1, ElementOfSeq, LenProperties
<1>2. \A i \in 1..Len(bs) : E[i] \in Entry /\ E[i].time = t
  BY <1>1, ImplicitForType DEF ImplicitOps, BankOps
<1>3. E \in [1..Len(bs) -> Entry]
  BY <1>2
<1>4. RefreshEnds(r, bs, t) = E
  BY DEF RefreshEnds
<1> HIDE DEF E
<1>5. E \in Seq(Entry) /\ Len(E) = Len(bs)
  BY <1>1, <1>3
<1> QED BY <1>2, <1>4, <1>5

\* What is left when the loop over the due entries ends is due later.
LEMMA NothingDue ==
    ASSUME NEW n \in Nat, NEW t \in Nat, NEW q, QueueFrom(q, n), ~Due(q, t)
    PROVE  QueueFrom(q, t)
<1>1. q \in Seq(Entry) /\ Sorted(q)
  BY DEF QueueFrom
<1>2. CASE q = <<>>
  BY <1>1, <1>2 DEF QueueFrom
<1>3. CASE q # <<>>
  <2>1. Head(q) = q[1] /\ 1 \in 1..Len(q) /\ Head(q) \in Entry
    BY <1>1, <1>3, EntryTime, TailKeepsOrder
  <2>2. q[1].time > t /\ \A i \in 1..Len(q) : q[i].time \in Nat
    BY <1>1, <1>3, <2>1, EntryTime, ElementOfSeq DEF Due
  <2>3. \A i \in 1..Len(q) : i = 1 \/ 1 < i
    OBVIOUS
  <2>4. \A i \in 1..Len(q) : q[1].time <= q[i].time
    BY <1>1, <2>1, <2>2, <2>3 DEF Sorted
  <2> QED BY <1>1, <2>1, <2>2, <2>4 DEF QueueFrom
<1> QED BY <1>2, <1>3

\* An implicit command is executed at its own time, and what follows it in
\* the queue is due no earlier.
LEMMA PopWithin ==
    ASSUME NEW n \in Nat, NEW q, QueueFrom(q, n), q # <<>>
    PROVE  /\ Head(q) \in Entry /\ n <= Head(q).time
           /\ QueueFrom(Tail(q), Head(q).time)
<1>1. q \in Seq(Entry) /\ Sorted(q)
  BY DEF QueueFrom
<1> QED BY <1>1, EntryTime, TailKeepsOrder DEF QueueFrom

\* The time of a delayed power-down is the greatest of finitely bounded
\* candidates, hence exists; t is one of them.
LEMMA PowerDownTimeType ==
    ASSUME NEW t \in Nat, NEW n \in Nat, NEW d \in Nat, NEW r \in Ranks,
           BanksWithin(bank, n, d)
    PROVE  /\ PowerDownTime(r, t) \in Nat /\ PowerDownTime(r, t) >= t
           /\ PowerDownTime(r, t) \in PowerDownTimes(r, t)
           /\ \A x \in PowerDownTimes(r, t) : x \in Nat /\ x <= PowerDownTime(r, t)
<1> DEFINE S == PowerDownTimes(r, t)
           m == t + n + d + tRCD + tRP
<1>1. \A b \in Banks : \A x \in BankPermits(bank[r][b]) : x \in Nat /\ x <= m
  <2> SUFFICES ASSUME NEW b \in Banks, NEW x \in BankPermits(bank[r][b])
               PROVE  x \in Nat /\ x <= m
    OBVIOUS
  <2> DEFINE bk == bank[r][b]
  <2>1. /\ bk.latestPre \in Nat /\ bk.latestPre <= n
        /\ bk.refreshEndTime \in Nat /\ bk.refreshEndTime <= n + d
    BY DEF BanksWithin, BankWithin, Bank, Time
  <2>2. GetStart(bk.act) \in Nat /\ GetStart(bk.act) <= n
    <3>1. Within(bk.act, n)
      BY DEF BanksWithin, BankWithin
    <3> HIDE DEF bk
    <3> QED BY <3>1 DEF Within, Interval, GetStart, Time, NoTime
  <2>3. tRCD \in Nat /\ tRP \in Nat
    BY TimingAssumption DEF TimingAssumption
  <2>4. \/ x = 0 \/ x = GetStart(bk.act) + tRCD
        \/ x = bk.latestPre + tRP \/ x = bk.refreshEndTime
    BY DEF BankPermits
  <2> HIDE DEF bk
  <2> QED BY <2>1, <2>2, <2>3, <2>4
<1>2. t <= m /\ m \in Nat
  BY TimingAssumption DEF TimingAssumption
<1> HIDE DEF m
<1>3. S \subseteq Nat /\ t \in S /\ \A x \in S : x <= m
  BY <1>1, <1>2 DEF PowerDownTimes
<1>4. PowerDownTime(r, t) = CHOOSE e \in S : \A x \in S : x <= e
  BY DEF PowerDownTime
<1> HIDE DEF S
<1>5. \E e \in S : \A x \in S : x <= e
  BY <1>2, <1>3, Greatest
<1>6. PowerDownTime(r, t) \in S /\ \A x \in S : x <= PowerDownTime(r, t)
  BY <1>4, <1>5
<1> QED BY <1>3, <1>6 DEF S

LEMMA AddPowerDownWithin ==
    ASSUME NEW t \in Nat, NEW d \in Nat, NEW r \in Ranks,
           NEW op \in ImplicitOps \ BankOps,
           BanksWithin(bank, t, d), QueueFrom(queue, t), AddPowerDown(op, r, t)
    PROVE  QueueFrom(queue', t) /\ rank' = rank /\ bank' = bank
<1> DEFINE e == ImplicitFor(PowerDownTime(r, t), op, r, NoBank)
<1>1. PowerDownTime(r, t) \in Nat /\ PowerDownTime(r, t) >= t
  BY PowerDownTimeType
<1>2. e \in Entry /\ e.time = PowerDownTime(r, t)
  BY <1>1, ImplicitForType
<1>3. queue' = Add(queue, e) /\ rank' = rank /\ bank' = bank
  BY DEF AddPowerDown
<1> HIDE DEF e
<1> QED BY <1>1, <1>2, <1>3, AddWithin

LEMMA CountAndPrechargeWithin ==
    ASSUME NEW t \in Nat, NEW u \in Nat, t <= u, NEW d \in Nat,
           NEW r \in Ranks, NEW b \in Banks, NEW c \in Counters,
           RanksWithin(rank, t), BanksWithin(bank, t, d), QueueFrom(queue, t),
           CountAndPrecharge(r, b, c, u)
    PROVE  RanksWithin(rank', t) /\ BanksWithin(bank', t, d) /\ QueueFrom(queue', t)
<1> DEFINE e == ImplicitFor(AutoPrechargeTime(r, b, u), "AUTO_PRECHARGE", r, b)
<1>1. AutoPrechargeTime(r, b, u) \in Nat /\ AutoPrechargeTime(r, b, u) >= u
  <2>1. GetStart(bank[r][b].act) \in Nat
    BY DEF BanksWithin, BankWithin, Within, Interval, GetStart, Time, NoTime
  <2> QED BY <2>1, TimingAssumption DEF TimingAssumption, AutoPrechargeTime, Max2
<1>2. b # NoBank
  BY DEF Banks, NoBank
<1>3. e \in Entry /\ e.time = AutoPrechargeTime(r, b, u)
  BY <1>1, <1>2, ImplicitForType DEF ImplicitOps, BankOps
<1>4. queue' = Add(queue, e)
  BY DEF CountAndPrecharge
<1> HIDE DEF e
<1>5. QueueFrom(queue', t)
  BY <1>1, <1>3, <1>4, AddWithin
<1>6. RanksWithin(rank', t) /\ BanksWithin(bank', t, d)
  BY CountWithin DEF CountAndPrecharge
<1> QED BY <1>5, <1>6
=============================================================================
