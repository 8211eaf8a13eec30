----------------------------- MODULE BusLemmas -----------------------------
(***************************************************************************)
(* What is counted of a wave is a sum over slots: the arithmetic of stats  *)
(* and the laws of their sums, for waves of any length and lines of any    *)
(* number.                                                                 *)
(***************************************************************************)
EXTENDS Bus, NaturalLemmas, FiniteSetTheorems, TLAPS

-----------------------------------------------------------------------------
(* Sums over slots                                                         *)

\* What the loop of Total has summed up before each of its slots up to k.
Sums(stats, first, k, f) ==
    \A n \in 0..k : f[n] = IF n <= first THEN NoStats ELSE Plus(f[n - 1], stats[n - 1])

Summing(stats, first, f) ==
    f = [n \in Nat |-> IF n <= first THEN NoStats ELSE Plus(f[n - 1], stats[n - 1])]

LEMMA SumsExist ==
    ASSUME NEW stats, NEW first \in Nat, NEW k \in Nat
    PROVE  \E f : Sums(stats, first, k, f)
<1> DEFINE S == {m \in Nat : ~\E f : Sums(stats, first, m, f)}
<1> SUFFICES ASSUME S # {} PROVE FALSE
  OBVIOUS
<1>1. PICK m \in S : \A n \in S : m <= n
  <2>1. S \subseteq Nat
    OBVIOUS
  <2> HIDE DEF S
  <2> QED BY <2>1, Least
<1>2. CASE m = 0
  <2> DEFINE f == [n \in 0..0 |-> NoStats]
  <2>1. Sums(stats, first, 0, f)
    BY DEF Sums
  <2> QED BY <1>1, <1>2, <2>1
<1>3. CASE m # 0
  <2>1. m - 1 \in Nat /\ m \in Nat /\ m - 1 \notin S
    BY <1>1, <1>3
  <2>2. PICK f : Sums(stats, first, m - 1, f)
    BY <2>1
  <2> DEFINE last == IF m <= first THEN NoStats ELSE Plus(f[m - 1], stats[m - 1])
             g == [n \in 0..m |-> IF n = m THEN last ELSE f[n]]
  <2>3. Sums(stats, first, m, g)
    <3>1. \A n \in 0..m : n # 0 => n - 1 \in 0..m /\ n - 1 # m
      BY <2>1
    <3>2. \A n \in 0..m : n # 0 => g[n - 1] = f[n - 1]
      BY <3>1
    <3>3. \A n \in 0..m : n # m => n \in 0..(m - 1)
      BY <2>1
    <3>4. \A n \in 0..m : g[n] = IF n <= first THEN NoStats ELSE Plus(f[n - 1], stats[n - 1])
      BY <2>2, <3>3 DEF Sums
    <3>5. \A n \in 0..m : ~(n <= first) => n # 0
      OBVIOUS
    <3> HIDE DEF g
    <3> QED BY <3>2, <3>4, <3>5 DEF Sums
  <2> QED BY <1>1, <2>3
<1> QED BY <1>2, <1>3

LEMMA SumsAgree ==
    ASSUME NEW stats, NEW first \in Nat, NEW k \in Nat, NEW j \in Nat, k <= j,
           NEW f, Sums(stats, first, k, f), NEW g, Sums(stats, first, j, g)
    PROVE  f[k] = g[k]
<1> DEFINE S == {m \in 0..k : f[m] # g[m]}
<1>0. SUFFICES ASSUME S # {} PROVE FALSE
  BY <1>0
<1>1. PICK m \in S : \A n \in S : m <= n
  <2>1. S \subseteq Nat
    OBVIOUS
  <2> HIDE DEF S
  <2> QED BY <1>0, <2>1, Least
<1>2. m \in 0..k /\ m \in 0..j
  OBVIOUS
<1>3. CASE m <= first
  BY <1>1, <1>2, <1>3 DEF Sums
<1>4. CASE ~(m <= first)
  <2>1. m - 1 \in 0..k /\ m - 1 \notin S
    BY <1>1, <1>2, <1>4
  <2>2. f[m - 1] = g[m - 1]
    BY <2>1
  <2>3. f[m] = Plus(f[m - 1], stats[m - 1]) /\ g[m] = Plus(g[m - 1], stats[m - 1])
    BY <1>2, <1>4 DEF Sums
  <2> QED BY <1>1, <2>2, <2>3
<1> QED BY <1>3, <1>4

LEMMA SummingExists ==
    ASSUME NEW stats, NEW first \in Nat
    PROVE  \E f : Summing(stats, first, f)
<1> DEFINE by(k) == CHOOSE f : Sums(stats, first, k, f)
           h == [n \in Nat |-> by(n)[n]]
<1>1. \A k \in Nat : Sums(stats, first, k, by(k))
  BY SumsExist
<1> HIDE DEF by
<1>2. ASSUME NEW n \in Nat
      PROVE  h[n] = IF n <= first THEN NoStats ELSE Plus(h[n - 1], stats[n - 1])
  <2>1. n \in 0..n
    OBVIOUS
  <2>2. by(n)[n] = IF n <= first THEN NoStats ELSE Plus(by(n)[n - 1], stats[n - 1])
    BY <1>1, <2>1 DEF Sums
  <2>3. CASE n <= first
    BY <2>2, <2>3
  <2>4. CASE ~(n <= first)
    <3>1. n - 1 \in Nat /\ n - 1 <= n
      BY <2>4
    <3>2. Sums(stats, first, n, by(n)) /\ Sums(stats, first, n - 1, by(n - 1))
      BY <1>1, <3>1
    <3>3. by(n - 1)[n - 1] = by(n)[n - 1]
      BY <3>1, <3>2, SumsAgree
    <3>4. h[n - 1] = by(n - 1)[n - 1] /\ h[n] = by(n)[n]
      BY <3>1
    <3> QED BY <2>2, <2>4, <3>3, <3>4
  <2> QED BY <2>3, <2>4
<1>3. DOMAIN h = Nat /\ h = [n \in Nat |-> h[n]]
  OBVIOUS
<1> HIDE DEF h
<1>4. h = [n \in Nat |-> IF n <= first THEN NoStats ELSE Plus(h[n - 1], stats[n - 1])]
  BY <1>2, <1>3
<1> QED BY <1>4 DEF Summing

\* Total adds one slot after the other.
LEMMA TotalSteps ==
    ASSUME NEW stats, NEW first \in Nat, NEW end \in Nat
    PROVE  /\ Total(stats, first, first) = NoStats
           /\ end <= first => Total(stats, first, end) = NoStats
           /\ first <= end => Total(stats, first, end + 1)
                                = Plus(Total(stats, first, end), stats[end])
<1> DEFINE f == CHOOSE u : Summing(stats, first, u)
<1>1. \A k : Total(stats, first, k) = f[k]
  BY DEF Total, Summing
<1>2. Summing(stats, first, f)
  BY SummingExists
<1> HIDE DEF f
<1>3. \A n \in Nat : f[n] = IF n <= first THEN NoStats ELSE Plus(f[n - 1], stats[n - 1])
  BY <1>2 DEF Summing
<1>4. end + 1 \in Nat /\ (end + 1) - 1 = end /\ (first <= end => ~(end + 1 <= first))
  OBVIOUS
<1>6. f[first] = NoStats
  <2>1. first <= first
    OBVIOUS
  <2> QED BY <1>3, <2>1
<1>5. first <= end => f[end + 1] = Plus(f[end], stats[end])
  BY <1>3, <1>4
<1> QED BY <1>1, <1>3, <1>5, <1>6
-----------------------------------------------------------------------------
(* Statistics                                                              *)

LEMMA StatsSame ==
    ASSUME NEW a \in Stats, NEW b \in Stats, a.ones = b.ones, a.zeroes = b.zeroes,
           a.ones_to_zeroes = b.ones_to_zeroes, a.zeroes_to_ones = b.zeroes_to_ones
    PROVE  a = b
BY DEF Stats

LEMMA PlusIs ==
    ASSUME NEW a \in Stats, NEW b \in Stats
    PROVE  /\ Plus(a, b) \in Stats
           /\ Plus(a, b).ones = a.ones + b.ones
           /\ Plus(a, b).zeroes = a.zeroes + b.zeroes
           /\ Plus(a, b).ones_to_zeroes = a.ones_to_zeroes + b.ones_to_zeroes
           /\ Plus(a, b).zeroes_to_ones = a.zeroes_to_ones + b.zeroes_to_ones
BY DEF Plus, Stats, NoStats

LEMMA TimesIs ==
    ASSUME NEW n \in Nat, NEW a \in Stats
    PROVE  /\ Times(n, a) \in Stats
           /\ Times(n, a).ones = n * a.ones
           /\ Times(n, a).zeroes = n * a.zeroes
           /\ Times(n, a).ones_to_zeroes = n * a.ones_to_zeroes
           /\ Times(n, a).zeroes_to_ones = n * a.zeroes_to_ones
BY DEF Times, Stats, NoStats

LEMMA NoStatsIs ==
    /\ NoStats \in Stats
    /\ NoStats.ones = 0 /\ NoStats.zeroes = 0
    /\ NoStats.ones_to_zeroes = 0 /\ NoStats.zeroes_to_ones = 0
BY DEF Stats, NoStats

LEMMA PlusNone ==
    ASSUME NEW a \in Stats
    PROVE  Plus(a, NoStats) = a /\ Plus(NoStats, a) = a
<1>1. Plus(a, NoStats) \in Stats /\ Plus(NoStats, a) \in Stats
  BY PlusIs, NoStatsIs
<1>2. a.ones \in Nat /\ a.zeroes \in Nat /\ a.ones_to_zeroes \in Nat /\ a.zeroes_to_ones \in Nat
  BY DEF Stats
<1>3. Plus(a, NoStats) = a
  BY <1>1, <1>2, PlusIs, NoStatsIs, StatsSame
<1>4. Plus(NoStats, a) = a
  BY <1>1, <1>2, PlusIs, NoStatsIs, StatsSame
<1> QED BY <1>3, <1>4

LEMMA PlusAssociates ==
    ASSUME NEW a \in Stats, NEW b \in Stats, NEW c \in Stats
    PROVE  Plus(Plus(a, b), c) = Plus(a, Plus(b, c))
<1>1. Plus(Plus(a, b), c) \in Stats /\ Plus(a, Plus(b, c)) \in Stats
  BY PlusIs
<1>2. /\ a.ones \in Nat /\ a.zeroes \in Nat /\ a.ones_to_zeroes \in Nat /\ a.zeroes_to_ones \in Nat
      /\ b.ones \in Nat /\ b.zeroes \in Nat /\ b.ones_to_zeroes \in Nat /\ b.zeroes_to_ones \in Nat
      /\ c.ones \in Nat /\ c.zeroes \in Nat /\ c.ones_to_zeroes \in Nat /\ c.zeroes_to_ones \in Nat
  BY DEF Stats
<1>3. Plus(a, b) \in Stats /\ Plus(b, c) \in Stats
  BY PlusIs
<1>4. Plus(Plus(a, b), c).ones = Plus(a, Plus(b, c)).ones
  BY <1>2, <1>3, PlusIs
<1>5. Plus(Plus(a, b), c).zeroes = Plus(a, Plus(b, c)).zeroes
  BY <1>2, <1>3, PlusIs
<1>6. Plus(Plus(a, b), c).ones_to_zeroes = Plus(a, Plus(b, c)).ones_to_zeroes
  BY <1>2, <1>3, PlusIs
<1>7. Plus(Plus(a, b), c).zeroes_to_ones = Plus(a, Plus(b, c)).zeroes_to_ones
  BY <1>2, <1>3, PlusIs
<1> QED BY <1>1, <1>4, <1>5, <1>6, <1>7, StatsSame

LEMMA TimesOneMore ==
    ASSUME NEW k \in Nat, NEW c \in Stats
    PROVE  Plus(Times(k, c), c) = Times(k + 1, c)
<1> DEFINE T == Times(k, c)
           U == Times(k + 1, c)
           P == Plus(T, c)
<1>1. c.ones \in Nat /\ c.zeroes \in Nat /\ c.ones_to_zeroes \in Nat /\ c.zeroes_to_ones \in Nat
  BY DEF Stats
<1>2. /\ T \in Stats /\ T.ones = k * c.ones /\ T.zeroes = k * c.zeroes
      /\ T.ones_to_zeroes = k * c.ones_to_zeroes /\ T.zeroes_to_ones = k * c.zeroes_to_ones
  BY TimesIs
<1>3. /\ U \in Stats /\ U.ones = (k + 1) * c.ones /\ U.zeroes = (k + 1) * c.zeroes
      /\ U.ones_to_zeroes = (k + 1) * c.ones_to_zeroes
      /\ U.zeroes_to_ones = (k + 1) * c.zeroes_to_ones
  <2>1. k + 1 \in Nat
    OBVIOUS
  <2> QED BY <2>1, TimesIs
<1> HIDE DEF T, U
<1>4. /\ P \in Stats /\ P.ones = T.ones + c.ones /\ P.zeroes = T.zeroes + c.zeroes
      /\ P.ones_to_zeroes = T.ones_to_zeroes + c.ones_to_zeroes
      /\ P.zeroes_to_ones = T.zeroes_to_ones + c.zeroes_to_ones
  BY <1>2, PlusIs
<1> HIDE DEF P
<1>5. \A x \in Nat : (k + 1) * x = k * x + x
  OBVIOUS
<1>6. P.ones = U.ones /\ P.zeroes = U.zeroes
  BY <1>1, <1>2, <1>3, <1>4, <1>5
<1>7. P.ones_to_zeroes = U.ones_to_zeroes /\ P.zeroes_to_ones = U.zeroes_to_ones
  BY <1>1, <1>2, <1>3, <1>4, <1>5
<1>8. P = U
  BY <1>3, <1>4, <1>6, <1>7, StatsSame
<1> QED BY <1>8 DEF P, T, U

LEMMA CardinalityTyped ==
    ASSUME NEW S, S \subseteq Lines
    PROVE  Cardinality(S) \in Nat /\ Cardinality(S) <= Cardinality(Lines) /\ Cardinality(Lines) \in Nat
BY LinesAssumption, FS_Subset, FS_CardinalityType DEF LinesAssumption

LEMMA diffIs ==
    ASSUME NEW high \in Pattern, NEW low \in Pattern
    PROVE  /\ diff(high, low) \in Stats
           /\ diff(low, low).ones_to_zeroes = 0 /\ diff(low, low).zeroes_to_ones = 0
<1>1. low \subseteq Lines /\ high \ low \subseteq Lines /\ low \ high \subseteq Lines
  BY DEF Pattern
<1>2. /\ Cardinality(low) \in Nat /\ Cardinality(Lines) - Cardinality(low) \in Nat
      /\ Cardinality(high \ low) \in Nat /\ Cardinality(low \ high) \in Nat
  BY <1>1, CardinalityTyped
<1>3. low \ low = {} /\ Cardinality({}) = 0
  BY FS_EmptySet
<1> QED BY <1>2, <1>3 DEF diff, Stats

-----------------------------------------------------------------------------
(* What sums are                                                           *)

LEMMA TotalTyped ==
    ASSUME NEW stats, NEW first \in Nat, NEW end \in Nat,
           \A n \in first..(end - 1) : stats[n] \in Stats
    PROVE  Total(stats, first, end) \in Stats
<1>1. CASE end <= first
  BY <1>1, TotalSteps, NoStatsIs
<1>2. CASE first <= end
  <2> DEFINE S == {n \in Nat : Total(stats, first, n) \in Stats}
  <2>1. first \in S
    BY TotalSteps, NoStatsIs
  <2>2. \A n \in first..(end - 1) : n \in S => n + 1 \in S
    <3> TAKE n \in first..(end - 1)
    <3> HAVE n \in S
    <3>1. n \in Nat /\ n + 1 \in Nat /\ first <= n
      OBVIOUS
    <3>2. Total(stats, first, n + 1) = Plus(Total(stats, first, n), stats[n])
      BY <3>1, TotalSteps
    <3> QED BY <3>1, <3>2, PlusIs
  <2>3. \A n \in first..end : n \in S
    <3> HIDE DEF S
    <3> QED BY <2>1, <2>2, Upward
  <2> QED BY <1>2, <2>3
<1> QED BY <1>1, <1>2

\* Only the slots that are summed up matter.
LEMMA TotalAgrees ==
    ASSUME NEW stats, NEW other, NEW first \in Nat, NEW end \in Nat,
           \A n \in first..(end - 1) : stats[n] = other[n]
    PROVE  Total(stats, first, end) = Total(other, first, end)
<1>1. CASE end <= first
  BY <1>1, TotalSteps
<1>2. CASE first <= end
  <2> DEFINE S == {n \in Nat : Total(stats, first, n) = Total(other, first, n)}
  <2>1. first \in S
    BY TotalSteps
  <2>2. \A n \in first..(end - 1) : n \in S => n + 1 \in S
    <3> TAKE n \in first..(end - 1)
    <3> HAVE n \in S
    <3>1. n \in Nat /\ n + 1 \in Nat /\ first <= n
      OBVIOUS
    <3>2. /\ Total(stats, first, n + 1) = Plus(Total(stats, first, n), stats[n])
          /\ Total(other, first, n + 1) = Plus(Total(other, first, n), other[n])
      BY <3>1, TotalSteps
    <3> QED BY <3>1, <3>2
  <2>3. \A n \in first..end : n \in S
    <3> HIDE DEF S
    <3> QED BY <2>1, <2>2, Upward
  <2> QED BY <1>2, <2>3
<1> QED BY <1>1, <1>2

\* A sum is that of two parts.
LEMMA TotalSplits ==
    ASSUME NEW stats, NEW first \in Nat, NEW mid \in Nat, NEW end \in Nat, first <= mid, mid <= end,
           \A n \in first..(end - 1) : stats[n] \in Stats
    PROVE  Total(stats, first, end) = Plus(Total(stats, first, mid), Total(stats, mid, end))
<1> DEFINE A == Total(stats, first, mid)
           S == {n \in Nat : Total(stats, first, n) = Plus(A, Total(stats, mid, n))}
<1>1. A \in Stats
  <2>1. \A n \in first..(mid - 1) : stats[n] \in Stats
    OBVIOUS
  <2> QED BY <2>1, TotalTyped
<1>2. mid \in S
  <2>1. Total(stats, mid, mid) = NoStats
    BY TotalSteps
  <2> QED BY <1>1, <2>1, PlusNone
<1>3. \A n \in mid..(end - 1) : n \in S => n + 1 \in S
  <2> TAKE n \in mid..(end - 1)
  <2> HAVE n \in S
  <2>1. n \in Nat /\ n + 1 \in Nat /\ first <= n /\ mid <= n /\ n \in first..(end - 1)
    OBVIOUS
  <2>2. /\ Total(stats, first, n + 1) = Plus(Total(stats, first, n), stats[n])
        /\ Total(stats, mid, n + 1) = Plus(Total(stats, mid, n), stats[n])
    BY <2>1, TotalSteps
  <2>3. Total(stats, mid, n) \in Stats /\ stats[n] \in Stats
    <3>1. \A k \in mid..(n - 1) : stats[k] \in Stats
      OBVIOUS
    <3> QED BY <2>1, <3>1, TotalTyped
  <2>4. Plus(Plus(A, Total(stats, mid, n)), stats[n]) = Plus(A, Plus(Total(stats, mid, n), stats[n]))
    <3> HIDE DEF A
    <3> QED BY <1>1, <2>3, PlusAssociates
  <2> QED BY <2>1, <2>2, <2>4
<1>4. \A n \in mid..end : n \in S
  <2> HIDE DEF S
  <2> QED BY <1>2, <1>3, Upward
<1> QED BY <1>4

\* A sum of slots that are all alike.
LEMMA TotalOfAlike ==
    ASSUME NEW stats, NEW first \in Nat, NEW end \in Nat, first <= end, NEW c \in Stats,
           \A n \in first..(end - 1) : stats[n] = c
    PROVE  Total(stats, first, end) = Times(end - first, c)
<1> DEFINE S == {n \in Nat : n >= first /\ Total(stats, first, n) = Times(n - first, c)}
<1>0. c.ones \in Nat /\ c.zeroes \in Nat /\ c.ones_to_zeroes \in Nat /\ c.zeroes_to_ones \in Nat
  BY DEF Stats
<1>1. first \in S
  <2>1. Total(stats, first, first) = NoStats
    BY TotalSteps
  <2>2. Times(0, c) = NoStats
    BY <1>0, TimesIs, NoStatsIs, StatsSame
  <2> QED BY <2>1, <2>2
<1>2. \A n \in first..(end - 1) : n \in S => n + 1 \in S
  <2> TAKE n \in first..(end - 1)
  <2> HAVE n \in S
  <2> DEFINE k == n - first
  <2>1. n \in Nat /\ n + 1 \in Nat /\ first <= n /\ k \in Nat /\ (n + 1) - first = k + 1
    OBVIOUS
  <2>2. Total(stats, first, n + 1) = Plus(Times(k, c), c)
    <3>1. Total(stats, first, n + 1) = Plus(Total(stats, first, n), stats[n])
      BY <2>1, TotalSteps
    <3> QED BY <3>1
  <2> HIDE DEF k
  <2>3. Plus(Times(k, c), c) = Times(k + 1, c)
    BY <2>1, TimesOneMore
  <2> QED BY <2>1, <2>2, <2>3
<1>3. \A n \in first..end : n \in S
  <2> HIDE DEF S
  <2> QED BY <1>1, <1>2, Upward
<1> QED BY <1>3
-----------------------------------------------------------------------------
(* A bus                                                                   *)

PendingSet == [isPending : BOOLEAN, time : Nat, stats : Stats]
BusSet ==
    [idle : Pattern, stats : Stats, burst : Seq(Pattern), load_time : Nat, last_load : Nat,
     enableflag : BOOLEAN, pending : PendingSet, last_pattern : Pattern]

LEMMA BusTyped ==
    ASSUME NEW b \in BusSet
    PROVE  /\ b.idle \in Pattern /\ b.stats \in Stats /\ b.burst \in Seq(Pattern)
           /\ b.load_time \in Nat /\ b.last_load \in Nat /\ b.enableflag \in BOOLEAN
           /\ b.pending \in PendingSet /\ b.last_pattern \in Pattern
           /\ b.pending.isPending \in BOOLEAN /\ b.pending.time \in Nat
           /\ b.pending.stats \in Stats
BY DEF BusSet, PendingSet

LEMMA AtTyped ==
    ASSUME NEW b \in BusSet, NEW n \in Int
    PROVE  At(b, n) \in Pattern
<1>1. b.idle \in Pattern /\ b.burst \in Seq(Pattern) /\ b.last_load \in Nat
  BY BusTyped
<1> DEFINE L == b.last_load
           len == Len(b.burst)
           k == n - L
<1>2. len \in Nat /\ L \in Nat /\ k \in Int
  BY <1>1
<1>3. CASE n < L \/ k >= len
  BY <1>1, <1>3 DEF At
<1>4. CASE ~(n < L \/ k >= len)
  <2>1. len - k \in 1..len
    BY <1>2, <1>4
  <2>2. b.burst[len - k] \in Pattern
    BY <1>1, <2>1
  <2>3. At(b, n) = b.burst[len - k]
    BY <1>4 DEF At
  <2> QED BY <2>2, <2>3
<1> QED BY <1>3, <1>4

\* What follows the last slot of the stored burst is idle.
LEMMA AtIdle ==
    ASSUME NEW b \in BusSet, NEW n \in Int, n >= b.last_load + Len(b.burst)
    PROVE  At(b, n) = b.idle
<1>1. b.last_load \in Nat /\ Len(b.burst) \in Nat
  BY BusTyped
<1>2. n - b.last_load >= Len(b.burst)
  BY <1>1
<1> QED BY <1>2 DEF At

LEMMA IdleStats ==
    ASSUME NEW b \in BusSet
    PROVE  /\ idle_stats(b) = diff(b.idle, b.idle) /\ idle_stats(b) \in Stats
           /\ idle_stats(b).ones_to_zeroes = 0 /\ idle_stats(b).zeroes_to_ones = 0
<1>1. b.idle \in Pattern
  BY BusTyped
<1> QED BY <1>1, diffIs DEF idle_stats

Changes(b) == [n \in Nat |-> diff(At(b, n - 1), At(b, n))]

LEMMA ChangesTyped ==
    ASSUME NEW b \in BusSet, NEW n \in Nat
    PROVE  Changes(b)[n] = diff(At(b, n - 1), At(b, n)) /\ Changes(b)[n] \in Stats
<1>1. n - 1 \in Int /\ n \in Int
  OBVIOUS
<1>2. At(b, n - 1) \in Pattern /\ At(b, n) \in Pattern
  BY <1>1, AtTyped
<1>3. Changes(b)[n] = diff(At(b, n - 1), At(b, n))
  BY DEF Changes
<1> QED BY <1>2, <1>3, diffIs

LEMMA BurstStatsIs ==
    ASSUME NEW b, NEW end
    PROVE  BurstStats(b, end) = Total(Changes(b), b.last_load + 1, end)
BY DEF BurstStats, Changes

\* Slots after the stored burst are all idle.
LEMMA IdleSlots ==
    ASSUME NEW b \in BusSet, NEW a \in Nat, NEW s \in Nat, a <= s,
           a > b.last_load + Len(b.burst)
    PROVE  Total(Changes(b), a, s) = Times(s - a, idle_stats(b))
<1>1. b.last_load \in Nat /\ Len(b.burst) \in Nat
  BY BusTyped
<1>2. \A n \in a..(s - 1) : Changes(b)[n] = idle_stats(b)
  <2> TAKE n \in a..(s - 1)
  <2>1. /\ n \in Nat /\ n - 1 \in Int /\ n \in Int
        /\ n - 1 >= b.last_load + Len(b.burst) /\ n >= b.last_load + Len(b.burst)
    BY <1>1
  <2>2. At(b, n - 1) = b.idle /\ At(b, n) = b.idle
    BY <2>1, AtIdle
  <2> QED BY <2>1, <2>2, ChangesTyped, IdleStats
<1> DEFINE f == Changes(b)
<1> HIDE DEF f
<1>3. \A n \in a..(s - 1) : f[n] = idle_stats(b)
  BY <1>2 DEF f
<1>4. Total(f, a, s) = Times(s - a, idle_stats(b))
  BY <1>3, IdleStats, TotalOfAlike
<1> QED BY <1>4 DEF f

\* What advance_stats adds for a bus that stores a burst: the slots after that of
\* the last load.
LEMMA AdvanceOfBurst ==
    ASSUME NEW b \in BusSet, b.burst # <<>>, b.load_time = b.last_load,
           NEW u \in Nat, u > b.last_load
    PROVE  advance_stats(b, u) = Total(Changes(b), b.last_load + 1, u)
<1> DEFINE L == b.last_load
           E == EndTime(b)
           f == Changes(b)
<1>1. L \in Nat /\ Len(b.burst) \in Nat /\ Len(b.burst) # 0
  <2>1. b.burst \in Seq(Pattern) /\ L \in Nat
    BY BusTyped
  <2> QED BY <2>1
<1>2. E \in Nat /\ E = L + Len(b.burst) /\ E >= L + 1 /\ E > 0
  BY <1>1 DEF EndTime
<1>3. \A end : BurstStats(b, end) = Total(f, L + 1, end)
  BY BurstStatsIs
<1>4. CASE u <= E
  <2>1. advance_stats(b, u) = BurstStats(b, IF E <= u THEN E ELSE u)
    BY <1>4 DEF advance_stats
  <2>2. (IF E <= u THEN E ELSE u) = u
    BY <1>2, <1>4
  <2> QED BY <1>3, <2>1, <2>2
<1>5. CASE u > E
  <2>0. ~(u <= E) /\ E <= u
    BY <1>2, <1>5
  <2>1. advance_stats(b, u)
          = Plus(BurstStats(b, E), Plus(BurstToIdle(b), Times(u - E - 1, idle_stats(b))))
    BY <2>0 DEF advance_stats
  <2>2. BurstToIdle(b) = f[E]
    <3>1. BurstToIdle(b) = diff(At(b, E - 1), At(b, E))
      BY <1>2 DEF BurstToIdle
    <3> QED BY <1>2, <3>1, ChangesTyped
  <2>3. Times(u - E - 1, idle_stats(b)) = Total(f, E + 1, u)
    <3>1. E + 1 \in Nat /\ E + 1 <= u /\ u - E - 1 = u - (E + 1) /\ E + 1 > L + Len(b.burst)
      BY <1>2, <1>5
    <3> QED BY <3>1, IdleSlots
  <2>4. \A n \in Nat : f[n] \in Stats
    BY ChangesTyped
  <2> HIDE DEF f, E
  <2>5. Total(f, E, E + 1) = f[E]
    <3>1. Total(f, E, E + 1) = Plus(Total(f, E, E), f[E]) /\ Total(f, E, E) = NoStats
      BY <1>2, TotalSteps
    <3>2. f[E] \in Stats
      BY <1>2, <2>4
    <3> QED BY <3>1, <3>2, PlusNone
  <2>6. Total(f, E, u) = Plus(Total(f, E, E + 1), Total(f, E + 1, u))
    <3>1. E + 1 \in Nat /\ E <= E + 1 /\ E + 1 <= u
      BY <1>2, <1>5
    <3>2. \A n \in E..(u - 1) : f[n] \in Stats
      BY <1>2, <2>4
    <3> QED BY <1>2, <3>1, <3>2, TotalSplits
  <2>7. Total(f, L + 1, u) = Plus(Total(f, L + 1, E), Total(f, E, u))
    <3>1. L + 1 \in Nat /\ L + 1 <= E /\ E <= u
      BY <1>1, <1>2, <1>5
    <3>2. \A n \in (L + 1)..(u - 1) : f[n] \in Stats
      BY <1>1, <2>4
    <3> QED BY <1>2, <3>1, <3>2, TotalSplits
  <2> QED BY <1>3, <2>1, <2>2, <2>3, <2>5, <2>6, <2>7 DEF f
<1>6. u <= E \/ u > E
  BY <1>2
<1> QED BY <1>4, <1>5, <1>6

\* For a bus that stores none, idle slots, counted from 0 on.
LEMMA AdvanceOfNone ==
    ASSUME NEW b \in BusSet, b.burst = <<>>, b.load_time = 0, NEW u \in Nat
    PROVE  advance_stats(b, u) = IF u = 0 THEN NoStats ELSE Times(u - 1, idle_stats(b))
<1>1. EndTime(b) = 0
  BY DEF EndTime
<1>2. b.last_load \in Nat
  BY BusTyped
<1>3. BurstStats(b, 0) = NoStats
  <2> DEFINE k == b.last_load + 1
  <2>1. k \in Nat /\ 0 \in Nat /\ 0 <= k
    BY <1>2
  <2>2. BurstStats(b, 0) = Total(Changes(b), k, 0)
    BY BurstStatsIs
  <2> HIDE DEF k
  <2> QED BY <2>1, <2>2, TotalSteps
<1>4. CASE u = 0
  <2>1. advance_stats(b, u) = BurstStats(b, 0)
    BY <1>1, <1>4 DEF advance_stats
  <2> QED BY <1>3, <1>4, <2>1
<1>5. CASE u # 0
  <2>1. ~(u <= 0) /\ 0 <= u /\ u - 0 - 1 = u - 1 /\ u - 1 \in Nat
    BY <1>5
  <2>2. BurstToIdle(b) = NoStats
    BY <1>1 DEF BurstToIdle
  <2>3. advance_stats(b, u) = Plus(NoStats, Plus(NoStats, Times(u - 1, idle_stats(b))))
    BY <1>1, <1>3, <2>1, <2>2 DEF advance_stats
  <2>4. Times(u - 1, idle_stats(b)) \in Stats
    BY <2>1, IdleStats, TimesIs
  <2> QED BY <1>5, <2>3, <2>4, PlusNone
<1> QED BY <1>4, <1>5
\* Before the first slot there is nothing to count.
LEMMA CountedFirst ==
    ASSUME NEW b \in BusSet, b.burst = <<>>, b.load_time = 0
    PROVE  /\ Counted(b, 0) \in BusSet
           /\ Counted(b, 0).idle = b.idle /\ Counted(b, 0).enableflag = b.enableflag
           /\ Counted(b, 0).last_pattern = b.last_pattern
           /\ Counted(b, 0).stats = b.stats
<1> DEFINE n == Plus(Plus(b.stats, NoStats), advance_stats(b, 0))
<1>1. advance_stats(b, 0) = NoStats
  BY AdvanceOfNone
<1>2. b.pending.time \in Nat /\ b.stats \in Stats
  BY BusTyped
<1>3. n = b.stats
  BY <1>1, <1>2, PlusNone
<1>4. ~(b.pending.time < 0) /\ ~(0 > 0)
  BY <1>2
<1>5. Counted(b, 0) = [b EXCEPT !.stats = n, !.pending = b.pending, !.last_pattern = b.last_pattern]
  BY <1>4 DEF Counted
<1> HIDE DEF n
<1>6. [b EXCEPT !.stats = n, !.pending = b.pending, !.last_pattern = b.last_pattern] \in BusSet
  BY <1>2, <1>3 DEF BusSet
<1>7. /\ Counted(b, 0).idle = b.idle /\ Counted(b, 0).enableflag = b.enableflag
      /\ Counted(b, 0).stats = n /\ Counted(b, 0).last_pattern = b.last_pattern
  BY <1>5 DEF BusSet
<1> QED BY <1>3, <1>5, <1>6, <1>7

LEMMA LoadedIs ==
    ASSUME NEW c \in BusSet, NEW s \in Nat, NEW burst \in Seq(Pattern), burst # <<>>,
           NEW x, x = Loaded(c, s, burst)
    PROVE  /\ x \in BusSet
           /\ x.idle = c.idle /\ x.stats = c.stats /\ (c.enableflag => x.enableflag)
           /\ x.burst = burst /\ x.load_time = s /\ x.last_load = s
           /\ x.pending.isPending /\ x.pending.time = s
           /\ x.pending.stats = diff(c.last_pattern, At(x, s))
<1> DEFINE new == [c EXCEPT !.burst = burst, !.load_time = s, !.last_load = s]
           a == At(new, s)
           y == diff(c.last_pattern, a)
           q == Pending(s, y)
           l == burst[1]
           b == [new EXCEPT !.pending = q, !.last_pattern = l]
<1>1. new \in BusSet
  BY DEF BusSet
<1>2. new.idle = c.idle /\ new.burst = burst /\ new.last_load = s
  BY DEF BusSet
<1>3. a \in Pattern
  BY <1>1, AtTyped
<1>4. y \in Stats
  BY <1>3, BusTyped, diffIs
<1>5. q \in PendingSet /\ q.isPending /\ q.time = s /\ q.stats = y
  <2> HIDE DEF y
  <2> QED BY <1>4 DEF Pending, PendingSet
<1>6. l \in Pattern
  <2>1. Len(burst) \in Nat /\ Len(burst) # 0
    OBVIOUS
  <2> QED BY <2>1
<1>7. x = b
  BY DEF Loaded
<1> HIDE DEF q, l
<1>8. b \in BusSet
  <2> HIDE DEF new
  <2> QED BY <1>1, <1>5, <1>6 DEF BusSet
<1>9. /\ b.idle = c.idle /\ b.stats = c.stats /\ b.enableflag = c.enableflag
      /\ b.burst = burst /\ b.load_time = s /\ b.last_load = s /\ b.pending = q
  BY DEF BusSet
<1> HIDE DEF b, new
<1>10. At(b, s) = At(new, s)
  BY <1>2, <1>9 DEF At
<1> QED BY <1>5, <1>7, <1>8, <1>9, <1>10
-----------------------------------------------------------------------------
(* A bus that is always on, and the wave of its lines                      *)

WaveSlots(wave, idle) ==
    [n \in Nat |-> diff(IF n = 0 THEN idle ELSE wave[n - 1], wave[n])]

\* The bus has counted the slots of the wave before its last load, holds back
\* that of the load, and knows those that follow.
CountsWave(b, wave) ==
    /\ b \in BusSet /\ b.enableflag
    /\ IF b.burst = <<>> THEN b.load_time = 0 /\ b.last_load = 0 /\ b.last_pattern = b.idle
       ELSE b.load_time = b.last_load
    /\ b.pending.isPending /\ b.pending.time = b.last_load
    /\ b.pending.stats = WaveSlots(wave, b.idle)[b.last_load]
    /\ \A n \in Nat : n >= b.last_load => wave[n] = At(b, n)
    /\ b.stats = Total(WaveSlots(wave, b.idle), 0, b.last_load)

\* What the lines carry after a load in slot s.
LoadedWave(wave, idle, s, burst) ==
    [n \in Nat |-> IF n < s THEN wave[n]
                   ELSE IF n < s + Len(burst) THEN burst[Len(burst) - (n - s)] ELSE idle]

LEMMA WaveSlotsTyped ==
    ASSUME NEW wave \in [Nat -> Pattern], NEW idle \in Pattern
    PROVE  \A n \in Nat : WaveSlots(wave, idle)[n] \in Stats
<1> TAKE n \in Nat
<1>1. wave[n] \in Pattern /\ (n # 0 => wave[n - 1] \in Pattern)
  <2>1. n # 0 => n - 1 \in Nat
    OBVIOUS
  <2> QED BY <2>1
<1>2. (IF n = 0 THEN idle ELSE wave[n - 1]) \in Pattern
  BY <1>1
<1> QED BY <1>1, <1>2, diffIs DEF WaveSlots

LEMMA NewBusCounts ==
    ASSUME NEW idle \in Pattern, NEW wave, wave = [n \in Nat |-> idle]
    PROVE  CountsWave(NewBus(idle, TRUE), wave)
<1> DEFINE b == NewBus(idle, TRUE)
           p == Pending(0, diff(idle, idle))
<1>1. p \in PendingSet /\ p.isPending /\ p.time = 0 /\ p.stats = diff(idle, idle)
  <2>1. diff(idle, idle) \in Stats
    BY diffIs
  <2> HIDE DEF p
  <2>2. p = Pending(0, diff(idle, idle))
    BY DEF p
  <2> QED BY <2>1, <2>2 DEF Pending, PendingSet
<1>2. b = [idle |-> idle, stats |-> NoStats, burst |-> <<>>, load_time |-> 0, last_load |-> 0,
           enableflag |-> TRUE, pending |-> p, last_pattern |-> idle]
  BY DEF NewBus
<1> HIDE DEF p, b
<1>3. b \in BusSet
  <2>1. <<>> \in Seq(Pattern) /\ 0 \in Nat /\ NoStats \in Stats
    BY NoStatsIs
  <2> QED BY <1>1, <1>2, <2>1 DEF BusSet
<1>4. /\ b.enableflag /\ b.burst = <<>> /\ b.load_time = 0 /\ b.last_load = 0
      /\ b.last_pattern = b.idle /\ b.idle = idle /\ b.pending = p /\ b.stats = NoStats
  BY <1>2
<1>5. \A n \in Nat : At(b, n) = idle
  <2> TAKE n \in Nat
  <2>1. n >= b.last_load + Len(b.burst) /\ n \in Int
    BY <1>4
  <2> QED BY <1>3, <1>4, <2>1, AtIdle
<1>6. WaveSlots(wave, idle)[0] = diff(idle, idle)
  BY DEF WaveSlots
<1>7. Total(WaveSlots(wave, idle), 0, 0) = NoStats
  <2>1. 0 \in Nat /\ 0 <= 0
    OBVIOUS
  <2> QED BY <2>1, TotalSteps
<1> QED BY <1>1, <1>3, <1>4, <1>5, <1>6, <1>7 DEF CountsWave, b

\* What advance_stats adds after the last load.
LEMMA AdvanceCounts ==
    ASSUME NEW b, NEW wave \in [Nat -> Pattern], CountsWave(b, wave),
           NEW u \in Nat, u > b.last_load
    PROVE  advance_stats(b, u) = Total(WaveSlots(wave, b.idle), b.last_load + 1, u)
<1> DEFINE L == b.last_load
           f == WaveSlots(wave, b.idle)
           g == Changes(b)
<1>1. b \in BusSet /\ L \in Nat /\ L + 1 \in Nat /\ b.idle \in Pattern /\ L + 1 <= u
  BY BusTyped DEF CountsWave
<1>2. \A n \in (L + 1)..(u - 1) : f[n] = g[n]
  <2> TAKE n \in (L + 1)..(u - 1)
  <2>1. n \in Nat /\ n # 0 /\ n - 1 \in Nat /\ n >= L /\ n - 1 >= L
    BY <1>1
  <2>2. wave[n] = At(b, n) /\ wave[n - 1] = At(b, n - 1)
    BY <2>1 DEF CountsWave
  <2> QED BY <1>1, <2>1, <2>2, ChangesTyped DEF WaveSlots
<1>3. \A n \in Nat : f[n] \in Stats
  BY <1>1, WaveSlotsTyped
<1> HIDE DEF f, g
<1>4. Total(f, L + 1, u) = Total(g, L + 1, u)
  BY <1>1, <1>2, TotalAgrees
<1>5. CASE b.burst # <<>>
  BY <1>1, <1>4, <1>5, AdvanceOfBurst DEF CountsWave, f, g
<1>6. CASE b.burst = <<>>
  <2>1. b.load_time = 0 /\ L = 0 /\ u # 0 /\ Len(b.burst) = 0
    BY <1>1, <1>6 DEF CountsWave
  <2>2. advance_stats(b, u) = Times(u - 1, idle_stats(b))
    BY <1>1, <1>6, <2>1, AdvanceOfNone
  <2>3. Total(g, L + 1, u) = Times(u - (L + 1), idle_stats(b))
    <3>1. L + 1 > L + Len(b.burst)
      BY <1>1, <2>1
    <3> QED BY <1>1, <3>1, IdleSlots DEF g
  <2>4. u - (L + 1) = u - 1
    BY <2>1
  <2> QED BY <1>4, <2>2, <2>3, <2>4 DEF f
<1> QED BY <1>5, <1>6

LEMMA CountedIsWave ==
    ASSUME NEW b, NEW wave \in [Nat -> Pattern], CountsWave(b, wave),
           NEW u \in Nat, u > b.last_load
    PROVE  Plus(Plus(b.stats, b.pending.stats), advance_stats(b, u))
              = Total(WaveSlots(wave, b.idle), 0, u)
<1> DEFINE L == b.last_load
           f == WaveSlots(wave, b.idle)
<1>1. b \in BusSet /\ L \in Nat /\ L + 1 \in Nat /\ b.idle \in Pattern
  BY BusTyped DEF CountsWave
<1>2. \A n \in Nat : f[n] \in Stats
  BY <1>1, WaveSlotsTyped
<1>3. b.pending.stats = f[L] /\ b.stats = Total(f, 0, L)
  BY DEF CountsWave
<1>4. advance_stats(b, u) = Total(f, L + 1, u)
  BY AdvanceCounts
<1> HIDE DEF f
<1>5. 0 \in Nat /\ 0 <= L /\ 0 <= L + 1 /\ L + 1 <= u
  BY <1>1
<1>6. Total(f, 0, L + 1) = Plus(Total(f, 0, L), f[L])
  BY <1>1, <1>5, TotalSteps
<1>7. \A n \in 0..(u - 1) : f[n] \in Stats
  BY <1>2
<1>8. Total(f, 0, u) = Plus(Total(f, 0, L + 1), Total(f, L + 1, u))
  BY <1>1, <1>5, <1>7, TotalSplits
<1> QED BY <1>3, <1>4, <1>6, <1>8 DEF f

\* get_stats tells what the wave has been, whenever it is asked.
LEMMA GetCounts ==
    ASSUME NEW b, NEW wave \in [Nat -> Pattern], CountsWave(b, wave),
           NEW u \in Nat, u >= b.last_load
    PROVE  get_stats(b, u) = Total(WaveSlots(wave, b.idle), 0, u)
<1> DEFINE L == b.last_load
           f == WaveSlots(wave, b.idle)
<1>1. /\ b \in BusSet /\ L \in Nat /\ L + 1 \in Nat /\ b.enableflag
      /\ b.pending.isPending /\ b.pending.time = L /\ b.stats = Total(f, 0, L) /\ b.stats \in Stats
  BY BusTyped DEF CountsWave
<1>2. CASE u > L
  <2>1. u # 0 /\ b.pending.time < u
    BY <1>1, <1>2
  <2>2. get_stats(b, u) = Plus(Plus(b.stats, b.pending.stats), advance_stats(b, u))
    BY <1>1, <2>1 DEF get_stats
  <2> QED BY <1>2, <2>2, CountedIsWave
<1>3. CASE u = L
  <2>1. ~(b.pending.time < u)
    BY <1>1, <1>3
  <2>2. CASE u = 0
    BY <1>1, <1>3, <2>2 DEF get_stats
  <2>3. CASE u # 0
    <3>1. b.burst # <<>> /\ b.load_time = L /\ b.burst \in Seq(Pattern)
      BY <1>1, <1>3, <2>3, BusTyped DEF CountsWave
    <3>2. u <= EndTime(b) /\ (IF EndTime(b) <= u THEN EndTime(b) ELSE u) = u
      <4>1. Len(b.burst) \in Nat
        BY <3>1
      <4> QED BY <1>1, <1>3, <3>1, <4>1 DEF EndTime
    <3>3. advance_stats(b, u) = BurstStats(b, u)
      BY <3>2 DEF advance_stats
    <3>4. BurstStats(b, u) = NoStats
      <4> DEFINE k == L + 1
      <4>1. k \in Nat /\ u <= k /\ BurstStats(b, u) = Total(Changes(b), k, u)
        BY <1>1, <1>3, BurstStatsIs
      <4> HIDE DEF k
      <4> QED BY <4>1, TotalSteps
    <3>5. get_stats(b, u) = Plus(b.stats, NoStats)
      BY <1>1, <2>1, <2>3, <3>3, <3>4 DEF get_stats
    <3> QED BY <1>1, <1>3, <3>5, PlusNone
  <2> QED BY <2>2, <2>3
<1> QED BY <1>1, <1>2, <1>3

\* A load in a slot past the last one, or in the first, when the burst is over.
LEMMA LoadCounts ==
    ASSUME NEW b, NEW wave \in [Nat -> Pattern], CountsWave(b, wave),
           NEW s \in Nat, s > b.last_load \/ s = 0, EndTime(b) <= s,
           NEW burst \in Seq(Pattern), burst # <<>>
    PROVE  /\ CountsWave(load(b, s, burst), LoadedWave(wave, b.idle, s, burst))
           /\ load(b, s, burst).idle = b.idle
           /\ EndTime(load(b, s, burst)) = s + Len(burst)
           /\ load(b, s, burst).last_load = s
<1> DEFINE c == Counted(b, s)
           x == load(b, s, burst)
           new == LoadedWave(wave, b.idle, s, burst)
           f == WaveSlots(wave, b.idle)
           g == WaveSlots(new, b.idle)
<1>1. /\ b \in BusSet /\ b.last_load \in Nat /\ b.idle \in Pattern /\ b.burst \in Seq(Pattern)
      /\ b.stats \in Stats /\ b.pending \in PendingSet /\ b.enableflag
  BY BusTyped DEF CountsWave
<1>2. Len(b.burst) \in Nat /\ Len(burst) \in Nat /\ Len(burst) # 0
  BY <1>1
<1>3. /\ c \in BusSet /\ c.idle = b.idle /\ c.enableflag
      /\ c.stats = Total(f, 0, s)
      /\ c.last_pattern = IF s = 0 THEN b.idle ELSE wave[s - 1]
  <2>1. CASE s > b.last_load
    <3> DEFINE n == Plus(Plus(b.stats, b.pending.stats), advance_stats(b, s))
               q == Cleared(b.pending)
               l == At(b, s - 1)
    <3>1. b.pending.isPending /\ b.pending.time < s /\ s > 0 /\ s - 1 \in Nat /\ s - 1 \in Int
          /\ s - 1 >= b.last_load
      BY <1>1, <2>1 DEF CountsWave
    <3>2. n = Total(f, 0, s)
      BY <2>1, CountedIsWave
    <3>3. n \in Stats
      <4>1. \A k \in 0..(s - 1) : f[k] \in Stats
        BY <1>1, WaveSlotsTyped
      <4>2. 0 \in Nat
        OBVIOUS
      <4> HIDE DEF f, n
      <4> QED BY <3>2, <4>1, <4>2, TotalTyped
    <3>4. q \in PendingSet
      BY <1>1 DEF Cleared, PendingSet
    <3>5. l \in Pattern /\ l = wave[s - 1]
      BY <1>1, <3>1, AtTyped DEF CountsWave
    <3>6. c = [b EXCEPT !.stats = n, !.pending = q, !.last_pattern = l]
      BY <3>1 DEF Counted
    <3> HIDE DEF n, q, l, f
    <3>7. c \in BusSet /\ c.idle = b.idle /\ c.enableflag = b.enableflag /\ c.stats = n
          /\ c.last_pattern = l
      BY <1>1, <3>3, <3>4, <3>5, <3>6 DEF BusSet
    <3> QED BY <1>1, <3>1, <3>2, <3>5, <3>7
  <2>2. CASE s = 0
    <3>1. b.burst = <<>> /\ b.load_time = 0 /\ b.last_load = 0 /\ b.last_pattern = b.idle
      BY <1>1, <1>2, <2>2 DEF CountsWave, EndTime, BusSet
    <3>2. b.stats = Total(f, 0, s)
      BY <2>2, <3>1 DEF CountsWave
    <3> QED BY <1>1, <2>2, <3>1, <3>2, CountedFirst
  <2> QED BY <2>1, <2>2
<1>4. x = Loaded(c, s, burst)
  BY <1>1 DEF load
<1>5. /\ x \in BusSet
      /\ x.idle = c.idle /\ x.stats = c.stats /\ x.enableflag
      /\ x.burst = burst /\ x.load_time = s /\ x.last_load = s
      /\ x.pending.isPending /\ x.pending.time = s
      /\ x.pending.stats = diff(c.last_pattern, At(x, s))
  BY <1>3, <1>4, LoadedIs
<1> HIDE DEF c, x
<1>6. \A n \in Nat : n >= s => new[n] = At(x, n)
  <2> TAKE n \in Nat
  <2> SUFFICES ASSUME n >= s PROVE new[n] = At(x, n)
    OBVIOUS
  <2>1. new[n] = IF n < s + Len(burst) THEN burst[Len(burst) - (n - s)] ELSE b.idle
    BY DEF LoadedWave
  <2>2. n < s + Len(burst) <=> ~(n - s >= Len(burst))
    BY <1>2
  <2>3. ~(n < s)
    OBVIOUS
  <2> QED BY <1>3, <1>5, <2>1, <2>2, <2>3 DEF At
<1>7. \A n \in Nat : n < s => new[n] = wave[n]
  BY DEF LoadedWave
<1>8. x.pending.stats = g[s]
  <2>1. s # 0 => s - 1 \in Nat /\ s - 1 < s
    OBVIOUS
  <2>2. new[s] = At(x, s) /\ (s # 0 => new[s - 1] = wave[s - 1])
    BY <1>6, <1>7, <2>1
  <2>3. g[s] = diff(IF s = 0 THEN b.idle ELSE new[s - 1], new[s])
    BY DEF WaveSlots
  <2> QED BY <1>3, <1>5, <2>2, <2>3
<1>9. Total(g, 0, s) = Total(f, 0, s)
  <2>1. \A n \in 0..(s - 1) : g[n] = f[n]
    <3> TAKE n \in 0..(s - 1)
    <3>1. n \in Nat /\ n < s /\ (n # 0 => n - 1 \in Nat /\ n - 1 < s)
      OBVIOUS
    <3>2. new[n] = wave[n] /\ (n # 0 => new[n - 1] = wave[n - 1])
      BY <1>7, <3>1
    <3> QED BY <3>1, <3>2 DEF WaveSlots
  <2> HIDE DEF f, g
  <2> QED BY <2>1, TotalAgrees
<1>10. EndTime(x) = s + Len(burst)
  BY <1>5 DEF EndTime
<1> QED BY <1>3, <1>5, <1>6, <1>8, <1>9, <1>10 DEF CountsWave, x

\* serialize and deserialize keep all of a bus.
LEMMA RestoredBusIs ==
    ASSUME NEW b \in BusSet
    PROVE  RestoredBus(NewBus(b.idle, TRUE), b) = b
<1> DEFINE new == NewBus(b.idle, TRUE)
           p == RestoredPending(b.pending)
           x == [new EXCEPT !.stats = b.stats, !.burst = b.burst, !.load_time = b.load_time,
                            !.last_load = b.last_load, !.enableflag = b.enableflag,
                            !.pending = p, !.last_pattern = b.last_pattern]
<1>1. p = b.pending
  BY BusTyped DEF RestoredPending, PendingSet
<1>2. RestoredBus(new, b) = x
  BY DEF RestoredBus
<1>3. new \in BusSet /\ new.idle = b.idle
  <2>1. b.idle \in Pattern
    BY BusTyped
  <2>2. CountsWave(new, [n \in Nat |-> b.idle])
    BY <2>1, NewBusCounts
  <2> QED BY <2>2 DEF CountsWave, NewBus
<1> HIDE DEF p, new
<1>4. x \in BusSet
  BY <1>1, <1>3, BusTyped DEF BusSet
<1>5. /\ x.idle = b.idle /\ x.stats = b.stats /\ x.burst = b.burst /\ x.load_time = b.load_time
      /\ x.last_load = b.last_load /\ x.enableflag = b.enableflag /\ x.pending = b.pending
      /\ x.last_pattern = b.last_pattern
  BY <1>1, <1>3 DEF BusSet
<1> HIDE DEF x
<1>6. x = b
  BY <1>4, <1>5 DEF BusSet
<1> QED BY <1>2, <1>6 DEF new
=============================================================================
