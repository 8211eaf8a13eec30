---------------------------- MODULE DataBusProofs ----------------------------
(***************************************************************************)
(* What the toggling handles count of the bursts, what is estimated from   *)
(* it, and what the buses count of their lines, for any bursts,            *)
(* directions, rates and changes of mode.                                  *)
(***************************************************************************)
EXTENDS MCDataBus, BusLemmas

HandleSet ==
    [last_length : Nat, last_load : Nat, handled : BOOLEAN, enableflag : BOOLEAN,
     count : Nat, disable_timestamp : Nat, disable_time : Nat]

Now == now * DataRate
Last == (MaxTime + 2) * DataRate

\* The slots before u in mode TogglingRate, and those in which a burst ran.
Seen(md, u) == {n \in 0..(u - 1) : md[n] = "TogglingRate"}
Busy(w, md, u) == {n \in Seen(md, u) : w[n] # Nothing}

WaveTypes ==
    /\ busType \in Modes /\ now \in 0..MaxTime
    /\ handle \in [Dirs -> HandleSet]
    /\ mode \in [Slots -> Modes]
    /\ carried \in [Dirs -> [Slots -> Pattern \cup {Nothing}]]

\* From slot s on the mode stays as it is.
Stays(md, type, s) == \A n \in Slots : n >= s => md[n] = type

\* From slot s on the lines carry a burst of len slots, and nothing more.
Carries(w, s, len) == \A n \in Slots : n >= s => (w[n] # Nothing <=> n < s + len)

\* A handle and the waveform from slot s on: the burst that runs is the one
\* the handle has not counted yet.
Ahead(h, w, type, s) ==
    /\ h.last_load <= s /\ h.disable_timestamp <= s
    /\ type = "Bus" => ~h.enableflag /\ h.handled
    /\ type = "TogglingRate" =>
        /\ h.enableflag
        /\ \A n \in Slots : n >= s =>
              (w[n] # Nothing <=> ~h.handled /\ n < h.last_load + h.last_length)

\* What a handle says of the slots before any that may be asked for.
Counts(h, w, md, s) ==
    \A u \in s..Last :
        /\ busySlots(h, u) = Cardinality(Busy(w, md, u))
        /\ u - offSlots(h, u) = Cardinality(Seen(md, u))

\* The inductive invariant.
HandleInv ==
    /\ WaveTypes
    /\ Stays(mode, busType, Now)
    /\ \A d \in Dirs : /\ Ahead(handle[d], carried[d], busType, Now)
                       /\ Counts(handle[d], carried[d], mode, Now)

-----------------------------------------------------------------------------
(* Sets of slots                                                           *)

LEMMA SlotSetsFinite ==
    ASSUME NEW u \in Nat, NEW S, S \subseteq 0..(u - 1)
    PROVE  IsFiniteSet(S) /\ Cardinality(S) \in Nat
<1>1. IsFiniteSet(0..(u - 1))
  BY FS_Interval
<1> QED BY <1>1, FS_Subset, FS_CardinalityType

\* A set of slots grows by those from s on that are before e.
LEMMA Grown ==
    ASSUME NEW s \in Nat, NEW e \in Nat, s <= e, NEW S, S \subseteq 0..(s - 1)
    PROVE  Cardinality(S \cup s..(e - 1)) = Cardinality(S) + (e - s)
<1> DEFINE T == s..(e - 1)
<1>1. IsFiniteSet(S) /\ Cardinality(S) \in Nat
  BY SlotSetsFinite
<1>2. IsFiniteSet(T) /\ Cardinality(T) = e - s
  <2>1. s \in Int /\ e - 1 \in Int /\ (s > e - 1 => e - s = 0) /\ (e - 1) - s + 1 = e - s
    OBVIOUS
  <2> QED BY <2>1, FS_Interval
<1>3. S \cap T = {}
  OBVIOUS
<1>4. Cardinality(S \cap T) = 0
  BY <1>3, FS_EmptySet
<1> HIDE DEF T
<1>5. Cardinality(S \cup T) = Cardinality(S) + Cardinality(T) - Cardinality(S \cap T)
  BY <1>1, <1>2, FS_Union
<1> QED BY <1>1, <1>2, <1>4, <1>5 DEF T

LEMMA InSlots ==
    ASSUME NEW t \in Nat, NEW m \in Nat, t <= m
    PROVE  t * DataRate \in Nat /\ m * DataRate \in Nat /\ t * DataRate <= m * DataRate
<1>1. DataRate \in Nat
  BY DataBusAssumption DEF DataBusAssumption
<1> DEFINE k == m - t
<1>2. k \in Nat /\ m = t + k
  OBVIOUS
<1> HIDE DEF k
<1>3. t * DataRate \in Nat /\ k * DataRate \in Nat
  BY <1>1, <1>2
<1>4. (t + k) * DataRate = t * DataRate + k * DataRate
  BY <1>1, <1>2
<1> QED BY <1>2, <1>3, <1>4

LEMMA SlotsAre ==
    /\ DataRate \in Nat \ {0} /\ MaxTime \in Nat /\ Last \in Nat
    /\ Slots = 0..Last
    /\ \A n \in Slots : n \in Nat
<1>1. DataRate \in Nat \ {0} /\ MaxTime \in Nat
  BY DataBusAssumption DEF DataBusAssumption
<1>2. MaxTime + 2 \in Nat
  BY <1>1
<1>3. Last \in Nat
  BY <1>1, <1>2, InSlots DEF Last
<1> QED BY <1>1, <1>3 DEF Slots, Last

LEMMA SeenBefore ==
    ASSUME NEW md, NEW w, NEW u \in Nat
    PROVE  /\ Seen(md, u) \subseteq 0..(u - 1) /\ Busy(w, md, u) \subseteq Seen(md, u)
           /\ Cardinality(Seen(md, u)) \in Nat /\ Cardinality(Busy(w, md, u)) \in Nat
           /\ Cardinality(Seen(md, u) \ Busy(w, md, u))
                = Cardinality(Seen(md, u)) - Cardinality(Busy(w, md, u))
<1> DEFINE S == Seen(md, u)
           B == Busy(w, md, u)
<1>1. S \subseteq 0..(u - 1) /\ B \subseteq S /\ S \cap B = B
  BY DEF Seen, Busy
<1>2. IsFiniteSet(S) /\ Cardinality(S) \in Nat /\ IsFiniteSet(B) /\ Cardinality(B) \in Nat
  <2> HIDE DEF S, B
  <2>1. B \subseteq 0..(u - 1)
    BY <1>1
  <2> QED BY <1>1, <2>1, SlotSetsFinite
<1>3. Cardinality(S \ B) = Cardinality(S) - Cardinality(S \cap B)
  BY <1>2, FS_Difference
<1> QED BY <1>1, <1>2, <1>3

\* From a slot on in which the mode stays TogglingRate, every slot is seen.
LEMMA SeenOn ==
    ASSUME NEW md, NEW s \in Nat, NEW u \in s..Last, Stays(md, "TogglingRate", s)
    PROVE  Cardinality(Seen(md, u)) = Cardinality(Seen(md, s)) + (u - s)
<1>1. s \in Nat /\ u \in Nat /\ s <= u /\ u <= Last
  BY SlotsAre
<1>2. \A n \in s..(u - 1) : n \in Slots /\ md[n] = "TogglingRate"
  BY <1>1, SlotsAre DEF Stays
<1>3. Seen(md, u) = Seen(md, s) \cup s..(u - 1)
  BY <1>1, <1>2 DEF Seen
<1> QED BY <1>1, <1>3, Grown, SeenBefore

\* While the mode stays Bus, none is.
LEMMA SeenOff ==
    ASSUME NEW md, NEW w, NEW s \in Nat, NEW u \in s..Last, Stays(md, "Bus", s)
    PROVE  Seen(md, u) = Seen(md, s) /\ Busy(w, md, u) = Busy(w, md, s)
<1>1. s \in Nat /\ u \in Nat /\ s <= u /\ u <= Last
  BY SlotsAre
<1>2. \A n \in s..(u - 1) : n \in Slots /\ md[n] = "Bus"
  BY <1>1, SlotsAre DEF Stays
<1>3. Seen(md, u) = Seen(md, s)
  BY <1>1, <1>2 DEF Seen
<1> QED BY <1>3 DEF Busy

\* What came before a slot does not depend on what comes from it on.
LEMMA SeenKept ==
    ASSUME NEW md, NEW w, NEW md2, NEW w2, NEW s \in Nat,
           s <= Last,
           \A n \in Slots : n < s => md2[n] = md[n] /\ w2[n] = w[n]
    PROVE  Seen(md2, s) = Seen(md, s) /\ Busy(w2, md2, s) = Busy(w, md, s)
<1>1. \A n \in 0..(s - 1) : md2[n] = md[n] /\ w2[n] = w[n]
  BY SlotsAre
<1>2. Seen(md2, s) = Seen(md, s)
  BY <1>1 DEF Seen
<1> QED BY <1>1, <1>2 DEF Busy, Seen

\* From a slot on in which a burst of len slots starts, it is the burst that
\* is busy.
LEMMA BusyOn ==
    ASSUME NEW md, NEW w, NEW s \in Nat, NEW u \in s..Last, NEW len \in Nat,
           Stays(md, "TogglingRate", s),
           Carries(w, s, len)
    PROVE  Cardinality(Busy(w, md, u))
             = Cardinality(Busy(w, md, s)) + (IF u < s + len THEN u - s ELSE len)
<1>1. s \in Nat /\ u \in Nat /\ s <= u /\ u <= Last
  BY SlotsAre
<1> DEFINE e == IF u < s + len THEN u ELSE s + len
<1>2. e \in Nat /\ s <= e /\ e <= u /\ e - s = (IF u < s + len THEN u - s ELSE len)
      /\ \A n \in Int : n < u => (n < s + len <=> n < e)
  BY <1>1
<1> HIDE DEF e
<1>3. \A n \in s..(u - 1) :
          n \in Slots /\ md[n] = "TogglingRate" /\ (w[n] # Nothing <=> n \in s..(e - 1))
  BY <1>1, <1>2, SlotsAre DEF Stays, Carries
<1>4. Busy(w, md, u) = Busy(w, md, s) \cup s..(e - 1)
  BY <1>1, <1>2, <1>3 DEF Busy, Seen
<1>5. Busy(w, md, s) \subseteq 0..(s - 1)
  BY <1>1, SeenBefore
<1> QED BY <1>1, <1>2, <1>4, <1>5, Grown
-----------------------------------------------------------------------------
(* The handle                                                              *)

LEMMA NewHandleTypes ==
    ASSUME NEW e \in BOOLEAN
    PROVE  /\ NewHandle(e) \in HandleSet /\ NewHandle(e).enableflag = e /\ NewHandle(e).handled
           /\ NewHandle(e).last_load = 0 /\ NewHandle(e).disable_timestamp = 0
           /\ NewHandle(e).count = 0 /\ NewHandle(e).disable_time = 0
BY DEF NewHandle, HandleSet

LEMMA LoadedHandle ==
    ASSUME NEW h \in HandleSet, NEW t \in Nat, NEW n \in Nat, h.enableflag
    PROVE  LET g == incCountBurstLength(h, t, n)
           IN  /\ g \in HandleSet /\ g.enableflag /\ ~g.handled
               /\ g.last_load = t /\ g.last_length = n
               /\ g.disable_timestamp = h.disable_timestamp /\ g.disable_time = h.disable_time
               /\ g.count = (IF h.handled THEN h.count ELSE h.count + h.last_length)
<1> DEFINE c == IF h.handled THEN h.count ELSE h.count + h.last_length
<1>1. c \in Nat
  BY DEF HandleSet
<1>2. incCountBurstLength(h, t, n) =
        [h EXCEPT !.count = c, !.last_length = n, !.last_load = t, !.handled = FALSE]
  BY DEF incCountBurstLength, HandleSet
<1> HIDE DEF c
<1>3. [h EXCEPT !.count = c, !.last_length = n, !.last_load = t, !.handled = FALSE] \in HandleSet
  BY <1>1 DEF HandleSet
<1> QED BY <1>1, <1>2, <1>3 DEF HandleSet, c

LEMMA DisabledHandle ==
    ASSUME NEW h \in HandleSet, NEW t \in Nat, h.enableflag, h.last_load <= t
    PROVE  LET g == disableHandle(h, t)
           IN  /\ g \in HandleSet /\ ~g.enableflag /\ g.handled
               /\ g.last_load = h.last_load
               /\ g.disable_timestamp = t /\ g.disable_time = h.disable_time
               /\ g.count = h.count + Running(h, t)
<1> DEFINE n == h.count + Running(h, t)
<1>1. n \in Nat
  BY DEF Running, HandleSet
<1>2. disableHandle(h, t) = [h EXCEPT !.count = n, !.handled = TRUE,
                                      !.disable_timestamp = t, !.enableflag = FALSE]
  BY DEF disableHandle
<1> HIDE DEF n
<1>3. /\ [h EXCEPT !.count = n, !.handled = TRUE,
                   !.disable_timestamp = t, !.enableflag = FALSE] \in HandleSet
  BY <1>1 DEF HandleSet
<1> QED BY <1>1, <1>2, <1>3 DEF HandleSet, n

LEMMA EnabledHandle ==
    ASSUME NEW h \in HandleSet, NEW t \in Nat, ~h.enableflag, h.disable_timestamp <= t
    PROVE  LET g == enableHandle(h, t)
           IN  /\ g \in HandleSet /\ g.enableflag /\ g.handled = h.handled
               /\ g.last_load = h.last_load /\ g.count = h.count
               /\ g.disable_timestamp = h.disable_timestamp
               /\ g.disable_time = h.disable_time + (t - h.disable_timestamp)
<1> DEFINE n == h.disable_time + (t - h.disable_timestamp)
<1>1. n \in Nat
  BY DEF HandleSet
<1>2. enableHandle(h, t) = [h EXCEPT !.disable_time = n, !.enableflag = TRUE]
  BY DEF enableHandle
<1> HIDE DEF n
<1>3. [h EXCEPT !.disable_time = n, !.enableflag = TRUE] \in HandleSet
  BY <1>1 DEF HandleSet
<1> QED BY <1>1, <1>2, <1>3 DEF HandleSet, n

\* A switch to the mode that is on already leaves the handle as it is.
LEMMA SwitchedAgain ==
    ASSUME NEW h \in HandleSet, NEW t \in Nat
    PROVE  /\ ~h.enableflag => disableHandle(h, t) = h
           /\ h.enableflag => enableHandle(h, t) = h
BY DEF disableHandle, enableHandle
-----------------------------------------------------------------------------
(* Steps of one direction: from slot s to slot t                           *)

\* Time passes and the lines keep what they were given; in mode Bus the handle
\* does not mind what is loaded.
LEMMA Later ==
    ASSUME NEW h \in HandleSet, NEW w, NEW w2, NEW md, NEW type \in Modes,
           NEW s \in Nat, NEW t \in s..Last,
           Stays(md, type, s), Ahead(h, w, type, s), Counts(h, w, md, s),
           w2 = w \/ (type = "Bus" /\ \A n \in Slots : n < t => w2[n] = w[n])
    PROVE  Ahead(h, w2, type, t) /\ Counts(h, w2, md, t)
<1>1. t \in Nat /\ s <= t /\ t <= Last
  BY SlotsAre
<1>2. Ahead(h, w2, type, t)
  BY <1>1, SlotsAre DEF Ahead, Modes, HandleSet
<1>3. ASSUME NEW u \in t..Last
      PROVE  Seen(md, u) = Seen(md, u) /\ Busy(w2, md, u) = Busy(w, md, u)
  <2>1. CASE w2 = w
    BY <2>1
  <2>2. CASE type = "Bus" /\ \A n \in Slots : n < t => w2[n] = w[n]
    <3>1. Stays(md, "Bus", t)
      BY <1>1, <2>2, SlotsAre DEF Stays
    <3>2. Busy(w2, md, u) = Busy(w2, md, t) /\ Busy(w, md, u) = Busy(w, md, t)
      BY <1>1, <3>1, SeenOff
    <3>3. Busy(w2, md, t) = Busy(w, md, t)
      BY <1>1, <2>2, SeenKept
    <3> QED BY <3>2, <3>3
  <2> QED BY <2>1, <2>2
<1>4. ASSUME NEW u \in t..Last PROVE u \in s..Last
  BY <1>1, SlotsAre
<1> QED BY <1>2, <1>3, <1>4 DEF Counts

\* A burst is loaded in mode TogglingRate when the one before it is over.
LEMMA LoadStep ==
    ASSUME NEW h \in HandleSet, NEW w, NEW md, NEW burst \in Seq(Pattern),
           NEW s \in Nat, NEW t \in s..Last,
           w \in [Slots -> Pattern \cup {Nothing}],
           Stays(md, "TogglingRate", s), Ahead(h, w, "TogglingRate", s), Counts(h, w, md, s),
           h.handled \/ h.last_load + h.last_length <= t
    PROVE  LET g == incCountBurstLength(h, t, Len(burst))
               w2 == Play(w, t, burst)
           IN  /\ Ahead(g, w2, "TogglingRate", t) /\ Counts(g, w2, md, t)
               /\ g \in HandleSet
               /\ w2 \in [Slots -> Pattern \cup {Nothing}]
<1> DEFINE len == Len(burst)
           g == incCountBurstLength(h, t, len)
           w2 == Play(w, t, burst)
<1>0. len \in Nat /\ t \in Nat /\ s <= t /\ t <= Last /\ t \in s..Last /\ t \in t..Last
  BY SlotsAre
<1>1. h.enableflag
  BY DEF Ahead
<1>2. /\ g \in HandleSet /\ g.enableflag /\ ~g.handled
      /\ g.last_load = t /\ g.last_length = len
      /\ g.disable_timestamp = h.disable_timestamp /\ g.disable_time = h.disable_time
      /\ g.count = (IF h.handled THEN h.count ELSE h.count + h.last_length)
  BY <1>0, <1>1, LoadedHandle
<1>3. /\ w2 \in [Slots -> Pattern \cup {Nothing}]
      /\ \A n \in Slots : n >= t => (w2[n] # Nothing <=> n < t + len)
      /\ \A n \in Slots : n < t => w2[n] = w[n]
  <2>1. \A n \in Slots : n \in t..(t + len - 1) => burst[len - (n - t)] \in Pattern
    BY <1>0, SlotsAre
  <2>2. \A n \in Slots : n >= t => w[n] = Nothing
    BY <1>0, SlotsAre DEF Ahead, HandleSet
  <2>3. \A n \in Slots : w2[n] = IF n \in t..(t + len - 1) THEN burst[len - (n - t)] ELSE w[n]
    BY DEF Play
  <2>4. w2 \in [Slots -> Pattern \cup {Nothing}]
    BY <2>1 DEF Play
  <2>5. ASSUME NEW n \in Slots, n >= t PROVE w2[n] # Nothing <=> n < t + len
    <3>1. n \in Nat /\ (n \in t..(t + len - 1) <=> n < t + len)
      BY <1>0, <2>5, SlotsAre
    <3> HIDE DEF w2, len
    <3> QED BY <2>1, <2>2, <2>3, <2>5, <3>1, NothingAssumption
  <2>6. ASSUME NEW n \in Slots, n < t PROVE w2[n] = w[n]
    <3>1. n \notin t..(t + len - 1)
      BY <1>0, <2>6, SlotsAre
    <3> HIDE DEF w2, len
    <3> QED BY <2>3, <3>1
  <2> QED BY <2>4, <2>5, <2>6
<1>4. g.count = Cardinality(Busy(w, md, t)) /\ t - h.disable_time = Cardinality(Seen(md, t))
  <2>1. busySlots(h, t) = Cardinality(Busy(w, md, t)) /\ t - offSlots(h, t) = Cardinality(Seen(md, t))
    BY <1>0 DEF Counts
  <2>2. g.count = busySlots(h, t)
    <3>1. h.count \in Nat /\ h.last_load \in Nat /\ h.last_length \in Nat
      BY DEF HandleSet
    <3> QED BY <1>0, <1>1, <1>2, <3>1 DEF busySlots, Running
  <2>3. offSlots(h, t) = h.disable_time
    BY <1>1 DEF offSlots, HandleSet
  <2> QED BY <2>1, <2>2, <2>3
<1>5. Busy(w2, md, t) = Busy(w, md, t)
  BY <1>0, <1>3, SeenKept
<1>6. Stays(md, "TogglingRate", t)
  BY <1>0, SlotsAre DEF Stays
<1> HIDE DEF g, w2, len
<1>7. Ahead(g, w2, "TogglingRate", t)
  <2>1. h.disable_timestamp <= t
    BY <1>0 DEF Ahead, HandleSet
  <2> QED BY <1>0, <1>2, <1>3, <2>1 DEF Ahead
<1>8. Counts(g, w2, md, t)
  <2>1. SUFFICES ASSUME NEW u \in t..Last
                 PROVE  /\ busySlots(g, u) = Cardinality(Busy(w2, md, u))
                        /\ u - offSlots(g, u) = Cardinality(Seen(md, u))
    BY DEF Counts
  <2>2. u \in Nat
    BY <1>0, SlotsAre
  <2>3. Cardinality(Busy(w2, md, u)) = Cardinality(Busy(w2, md, t)) + (IF u < t + len THEN u - t ELSE len)
    <3>1. Carries(w2, t, len)
      BY <1>3 DEF Carries
    <3> QED BY <1>0, <1>6, <3>1, BusyOn
  <2>4. busySlots(g, u) = g.count + (IF u < t + len THEN u - t ELSE len)
    BY <1>2 DEF busySlots, Running
  <2>5. Cardinality(Seen(md, u)) = Cardinality(Seen(md, t)) + (u - t)
    BY <1>0, <1>6, SeenOn
  <2>6. offSlots(g, u) = h.disable_time
    BY <1>2 DEF offSlots, HandleSet
  <2>7. Cardinality(Seen(md, t)) \in Nat /\ h.disable_time \in Nat
    BY <1>0, SeenBefore DEF HandleSet
  <2> QED BY <1>0, <1>4, <1>5, <2>2, <2>3, <2>4, <2>5, <2>6, <2>7
<1> QED BY <1>2, <1>3, <1>7, <1>8 DEF g, w2, len

\* What a switch makes of the mode in each slot, from slot t on.
Turned(md, md2, type2, t) ==
    \A n \in Slots : md2[n] = IF n < t THEN md[n] ELSE type2

LEMMA TurnedStays ==
    ASSUME NEW md, NEW md2, NEW type2, NEW t \in Nat, Turned(md, md2, type2, t)
    PROVE  Stays(md2, type2, t)
BY SlotsAre DEF Turned, Stays

\* The toggling rate is switched off: the rest of a burst is not counted.
LEMMA SwitchOffStep ==
    ASSUME NEW h \in HandleSet, NEW w, NEW w2, NEW md, NEW md2,
           NEW s \in Nat, NEW t \in s..Last,
           Ahead(h, w, "TogglingRate", s), Counts(h, w, md, s),
           Turned(md, md2, "Bus", t),
           \A n \in Slots : n < t => w2[n] = w[n]
    PROVE  LET g == disableHandle(h, t)
           IN  Ahead(g, w2, "Bus", t) /\ Counts(g, w2, md2, t) /\ g \in HandleSet
<1> DEFINE g == disableHandle(h, t)
<1>0. t \in Nat /\ s <= t /\ t <= Last /\ t \in s..Last
  BY SlotsAre
<1>1. h.enableflag /\ h.last_load <= t
  BY <1>0 DEF Ahead, HandleSet
<1>2. /\ g \in HandleSet /\ ~g.enableflag /\ g.handled
      /\ g.last_load = h.last_load
      /\ g.disable_timestamp = t /\ g.disable_time = h.disable_time
      /\ g.count = h.count + Running(h, t)
  BY <1>0, <1>1, DisabledHandle
<1>3. g.count = Cardinality(Busy(w, md, t)) /\ t - h.disable_time = Cardinality(Seen(md, t))
  <2>1. busySlots(h, t) = Cardinality(Busy(w, md, t)) /\ t - offSlots(h, t) = Cardinality(Seen(md, t))
    BY <1>0 DEF Counts
  <2>2. busySlots(h, t) = g.count
    BY <1>1, <1>2 DEF busySlots
  <2>3. offSlots(h, t) = h.disable_time
    BY <1>1 DEF offSlots, HandleSet
  <2> QED BY <2>1, <2>2, <2>3
<1>4. \A n \in Slots : n < t => md2[n] = md[n] /\ w2[n] = w[n]
  BY DEF Turned
<1>5. Busy(w2, md2, t) = Busy(w, md, t) /\ Seen(md2, t) = Seen(md, t)
  BY <1>0, <1>4, SeenKept
<1>6. Stays(md2, "Bus", t)
  BY <1>0, TurnedStays
<1> HIDE DEF g
<1>7. Ahead(g, w2, "Bus", t)
  BY <1>0, <1>1, <1>2 DEF Ahead
<1>8. Counts(g, w2, md2, t)
  <2>1. SUFFICES ASSUME NEW u \in t..Last
                 PROVE  /\ busySlots(g, u) = Cardinality(Busy(w2, md2, u))
                        /\ u - offSlots(g, u) = Cardinality(Seen(md2, u))
    BY DEF Counts
  <2>2. u \in Nat
    BY <1>0, SlotsAre
  <2>3. Busy(w2, md2, u) = Busy(w2, md2, t) /\ Seen(md2, u) = Seen(md2, t)
    BY <1>0, <1>6, SeenOff
  <2>4. busySlots(g, u) = g.count
    BY <1>2 DEF busySlots, HandleSet
  <2>5. offSlots(g, u) = h.disable_time + (u - t)
    BY <1>2 DEF offSlots
  <2>6. h.disable_time \in Nat
    BY DEF HandleSet
  <2> QED BY <1>0, <1>3, <1>5, <2>2, <2>3, <2>4, <2>5, <2>6
<1> QED BY <1>2, <1>7, <1>8 DEF g

\* The toggling rate is switched on: the lines are idle.
LEMMA SwitchOnStep ==
    ASSUME NEW h \in HandleSet, NEW w, NEW w2, NEW md, NEW md2,
           NEW s \in Nat, NEW t \in s..Last,
           Ahead(h, w, "Bus", s), Counts(h, w, md, s),
           Turned(md, md2, "TogglingRate", t),
           \A n \in Slots : w2[n] = IF n < t THEN w[n] ELSE Nothing
    PROVE  LET g == enableHandle(h, t)
           IN  Ahead(g, w2, "TogglingRate", t) /\ Counts(g, w2, md2, t) /\ g \in HandleSet
<1> DEFINE g == enableHandle(h, t)
<1>0. t \in Nat /\ s <= t /\ t <= Last /\ t \in s..Last
  BY SlotsAre
<1>1. ~h.enableflag /\ h.handled /\ h.last_load <= t /\ h.disable_timestamp <= t
  BY <1>0 DEF Ahead, HandleSet
<1>2. /\ g \in HandleSet /\ g.enableflag /\ g.handled
      /\ g.last_load = h.last_load /\ g.count = h.count
      /\ g.disable_timestamp = h.disable_timestamp
      /\ g.disable_time = h.disable_time + (t - h.disable_timestamp)
  BY <1>0, <1>1, EnabledHandle
<1>3. g.count = Cardinality(Busy(w, md, t)) /\ t - g.disable_time = Cardinality(Seen(md, t))
  <2>1. busySlots(h, t) = Cardinality(Busy(w, md, t)) /\ t - offSlots(h, t) = Cardinality(Seen(md, t))
    BY <1>0 DEF Counts
  <2>2. busySlots(h, t) = g.count
    BY <1>1, <1>2 DEF busySlots, HandleSet
  <2>3. offSlots(h, t) = g.disable_time
    BY <1>1, <1>2 DEF offSlots
  <2> QED BY <2>1, <2>2, <2>3
<1>4. \A n \in Slots : n < t => md2[n] = md[n] /\ w2[n] = w[n]
  BY DEF Turned
<1>5. Busy(w2, md2, t) = Busy(w, md, t) /\ Seen(md2, t) = Seen(md, t)
  BY <1>0, <1>4, SeenKept
<1>6. Stays(md2, "TogglingRate", t)
  BY <1>0, TurnedStays
<1>9. Carries(w2, t, 0)
  BY <1>0, SlotsAre DEF Carries
<1> HIDE DEF g
<1>7. Ahead(g, w2, "TogglingRate", t)
  <2>1. \A n \in Slots : n >= t => w2[n] = Nothing
    BY <1>0, SlotsAre
  <2> QED BY <1>0, <1>1, <1>2, <2>1 DEF Ahead
<1>8. Counts(g, w2, md2, t)
  <2>1. SUFFICES ASSUME NEW u \in t..Last
                 PROVE  /\ busySlots(g, u) = Cardinality(Busy(w2, md2, u))
                        /\ u - offSlots(g, u) = Cardinality(Seen(md2, u))
    BY DEF Counts
  <2>2. u \in Nat /\ t <= u
    BY <1>0, SlotsAre
  <2>3. Cardinality(Busy(w2, md2, u)) = Cardinality(Busy(w2, md2, t)) + (IF u < t + 0 THEN u - t ELSE 0)
    BY <1>0, <1>6, <1>9, BusyOn
  <2>4. Cardinality(Seen(md2, u)) = Cardinality(Seen(md2, t)) + (u - t)
    BY <1>0, <1>6, SeenOn
  <2>5. busySlots(g, u) = g.count
    BY <1>2 DEF busySlots, Running, HandleSet
  <2>6. offSlots(g, u) = g.disable_time
    BY <1>2 DEF offSlots, HandleSet
  <2>7. g.disable_time \in Nat /\ g.count \in Nat
    BY <1>2 DEF HandleSet
  <2> QED BY <1>0, <1>3, <1>5, <2>2, <2>3, <2>4, <2>5, <2>6, <2>7
<1> QED BY <1>2, <1>7, <1>8 DEF g
-----------------------------------------------------------------------------
(* The invariant                                                           *)

LEMMA HandleInvInit == MCInit => HandleInv
<1> SUFFICES ASSUME MCInit PROVE HandleInv
  OBVIOUS
<1> USE DEF MCInit, DataBusInit
<1>1. (busType = "TogglingRate") \in BOOLEAN /\ Now = 0 /\ 0 \in Nat /\ Last >= 0
  BY SlotsAre DEF Now
<1>2. WaveTypes
  <2>1. handle \in [Dirs -> HandleSet]
    BY <1>1, NewHandleTypes
  <2> QED BY <2>1, SlotsAre DEF WaveTypes
<1>3. Stays(mode, busType, Now)
  BY DEF Stays
<1>4. ASSUME NEW d \in Dirs
      PROVE  Ahead(handle[d], carried[d], busType, 0) /\ Counts(handle[d], carried[d], mode, 0)
  <2> DEFINE h == handle[d]
             w == carried[d]
  <2>1. /\ h \in HandleSet /\ h.handled
        /\ busType = "TogglingRate" => h.enableflag
        /\ busType = "Bus" => ~h.enableflag
        /\ h.last_load = 0 /\ h.disable_timestamp = 0 /\ h.count = 0 /\ h.disable_time = 0
    <3>1. h = NewHandle(busType = "TogglingRate")
      OBVIOUS
    <3>2. CASE busType = "TogglingRate"
      <4>1. h = NewHandle(TRUE)
        BY <3>1, <3>2
      <4>2. h \in HandleSet /\ h.handled /\ h.enableflag
        BY <4>1 DEF NewHandle, HandleSet
      <4> QED BY <3>2, <4>1, <4>2 DEF NewHandle
    <3>3. CASE busType = "Bus"
      <4>1. h = NewHandle(FALSE)
        BY <3>1, <3>3
      <4>2. h \in HandleSet /\ h.handled /\ ~h.enableflag
        BY <4>1 DEF NewHandle, HandleSet
      <4> QED BY <3>3, <4>1, <4>2 DEF NewHandle
    <3> QED BY <3>2, <3>3 DEF Modes
  <2>2. \A n \in Slots : w[n] = Nothing
    OBVIOUS
  <2>3. Stays(mode, busType, 0)
    BY DEF Stays
  <2>4. busType \in Modes
    OBVIOUS
  <2> HIDE DEF h, w, MCInit, DataBusInit
  <2>5. Ahead(h, w, busType, 0)
    BY <2>1, <2>2, <2>4 DEF Ahead, Modes
  <2>6. ASSUME NEW u \in 0..Last
        PROVE  /\ busySlots(h, u) = Cardinality(Busy(w, mode, u))
               /\ u - offSlots(h, u) = Cardinality(Seen(mode, u))
    <3>1. u \in Nat
      BY <1>1, SlotsAre
    <3>2. Busy(w, mode, u) = {}
      BY <2>2, <3>1, SlotsAre DEF Busy, Seen
    <3>3. busySlots(h, u) = 0
      BY <2>1 DEF busySlots, Running
    <3>4. Seen(mode, 0) = {}
      BY DEF Seen
    <3>5. CASE busType = "TogglingRate"
      <4>1. Cardinality(Seen(mode, u)) = Cardinality(Seen(mode, 0)) + (u - 0)
        BY <2>3, <3>5, SeenOn
      <4>2. offSlots(h, u) = 0
        BY <2>1, <3>5 DEF offSlots
      <4> QED BY <3>1, <3>2, <3>3, <3>4, <4>1, <4>2, FS_EmptySet
    <3>6. CASE busType = "Bus"
      <4>1. Seen(mode, u) = Seen(mode, 0)
        BY <2>3, <3>6, SeenOff
      <4>2. offSlots(h, u) = u
        BY <2>1, <3>1, <3>6 DEF offSlots
      <4> QED BY <3>1, <3>2, <3>3, <3>4, <4>1, <4>2, FS_EmptySet
    <3> QED BY <2>4, <3>5, <3>6 DEF Modes
  <2> QED BY <2>5, <2>6 DEF Counts, h, w
<1> HIDE DEF MCInit, DataBusInit
<1> QED BY <1>1, <1>2, <1>3, <1>4 DEF HandleInv

LEMMA CallSlot ==
    ASSUME HandleInv, NEW t \in now..MaxTime
    PROVE  /\ t \in 0..MaxTime /\ t * DataRate \in Nat /\ Now \in Nat
           /\ t * DataRate \in Now..Last
<1>1. now \in Nat /\ t \in Nat /\ now <= t /\ t <= MaxTime /\ MaxTime \in Nat
  BY SlotsAre DEF HandleInv, WaveTypes
<1>2. /\ now * DataRate \in Nat /\ t * DataRate \in Nat /\ now * DataRate <= t * DataRate
      /\ t * DataRate <= Last /\ Last \in Nat
  BY <1>1, InSlots DEF Last
<1> QED BY <1>1, <1>2 DEF Now

LEMMA StaysOn ==
    ASSUME NEW md, NEW type, NEW s \in Nat, NEW t \in s..Last, Stays(md, type, s)
    PROVE  Stays(md, type, t)
BY SlotsAre DEF Stays

LEMMA LoadKeeps ==
    ASSUME HandleInv, NEW t \in now..MaxTime, NEW d \in Dirs, NEW burst \in Bursts,
           NEW given \in BOOLEAN, MCLoad(d, t, burst, given)
    PROVE  HandleInv'
<1> DEFINE s == t * DataRate
<1>1. /\ t \in 0..MaxTime /\ s \in Nat /\ Now \in Nat /\ s \in Now..Last
      /\ now' = t /\ Now' = s /\ busType' = busType /\ mode' = mode
      /\ busType \in Modes
      /\ burst \in Seq(Pattern)
  BY CallSlot, DataBusAssumption DEF MCLoad, Load, HandleInv, WaveTypes, Now, DataBusAssumption
<1>2. Stays(mode, busType, Now)
  BY DEF HandleInv
<1>3. Stays(mode, busType, s)
  BY <1>1, <1>2, StaysOn
<1>4. ASSUME NEW e \in Dirs
      PROVE  /\ handle[e] \in HandleSet /\ carried[e] \in [Slots -> Pattern \cup {Nothing}]
             /\ Ahead(handle[e], carried[e], busType, Now)
             /\ Counts(handle[e], carried[e], mode, Now)
  BY DEF HandleInv, WaveTypes
<1>5. handle \in [Dirs -> HandleSet] /\ carried \in [Dirs -> [Slots -> Pattern \cup {Nothing}]]
      /\ mode \in [Slots -> Modes]
  BY DEF HandleInv, WaveTypes
<1> HIDE DEF s
<1>6. CASE busType = "Bus"
  <2>1. handle' = handle
    BY <1>6 DEF MCLoad, Load, loadBus, loadHandle
  <2>2. carried' = carried \/ carried' = [carried EXCEPT ![d] = Play(@, s, burst)]
    BY <1>6 DEF MCLoad, s
  <2>3. /\ carried' \in [Dirs -> [Slots -> Pattern \cup {Nothing}]]
        /\ \A e \in Dirs, n \in Slots : n < s => carried'[e][n] = carried[e][n]
    <3>1. CASE carried' = carried
      BY <1>5, <3>1
    <3>2. CASE carried' = [carried EXCEPT ![d] = Play(@, s, burst)]
      <4> DEFINE w == carried[d]
      <4>1. w \in [Slots -> Pattern \cup {Nothing}]
        BY <1>4
      <4>2. \A n \in Slots : n \in s..(s + Len(burst) - 1) => burst[Len(burst) - (n - s)] \in Pattern
        BY <1>1, SlotsAre
      <4>3. Play(w, s, burst) \in [Slots -> Pattern \cup {Nothing}]
        BY <4>1, <4>2 DEF Play
      <4>4. \A n \in Slots : n < s => Play(w, s, burst)[n] = w[n]
        BY <1>1, SlotsAre DEF Play
      <4> HIDE DEF w
      <4>5. carried' = [carried EXCEPT ![d] = Play(w, s, burst)]
        BY <3>2 DEF w
      <4>6. carried' \in [Dirs -> [Slots -> Pattern \cup {Nothing}]]
        BY <1>5, <4>3, <4>5
      <4>7. ASSUME NEW e \in Dirs, NEW n \in Slots, n < s PROVE carried'[e][n] = carried[e][n]
        BY <1>5, <4>4, <4>5, <4>7 DEF w
      <4> QED BY <4>6, <4>7
    <3> QED BY <2>2, <3>1, <3>2
  <2>4. ASSUME NEW e \in Dirs
        PROVE  Ahead(handle[e], carried'[e], busType, s) /\ Counts(handle[e], carried'[e], mode, s)
    <3>1. \A n \in Slots : n < s => carried'[e][n] = carried[e][n]
      BY <2>3
    <3> QED BY <1>1, <1>2, <1>4, <1>6, <3>1, Later
  <2> QED BY <1>1, <1>3, <1>5, <2>1, <2>3, <2>4 DEF HandleInv, WaveTypes
<1>7. CASE busType = "TogglingRate"
  <2> DEFINE h == handle[d]
             w == carried[d]
  <2>1. /\ handle' = [handle EXCEPT ![d] = incCountBurstLength(h, s, Len(burst))]
        /\ carried' = [carried EXCEPT ![d] = Play(w, s, burst)]
        /\ h.handled \/ h.last_load + h.last_length <= s
    BY <1>7 DEF MCLoad, Load, loadBus, loadHandle, HandleFree, s
  <2> HIDE DEF h, w
  <2> DEFINE g == incCountBurstLength(h, s, Len(burst))
             w2 == Play(w, s, burst)
  <2>2. /\ h \in HandleSet /\ w \in [Slots -> Pattern \cup {Nothing}]
        /\ Ahead(h, w, busType, Now) /\ Counts(h, w, mode, Now)
    BY <1>4 DEF h, w
  <2>3. /\ Ahead(g, w2, "TogglingRate", s) /\ Counts(g, w2, mode, s)
        /\ g \in HandleSet /\ w2 \in [Slots -> Pattern \cup {Nothing}]
    BY <1>1, <1>2, <1>7, <2>1, <2>2, LoadStep
  <2> HIDE DEF g, w2
  <2>4. handle' = [handle EXCEPT ![d] = g] /\ carried' = [carried EXCEPT ![d] = w2]
    BY <2>1 DEF g, w2
  <2>5. /\ handle' \in [Dirs -> HandleSet]
        /\ carried' \in [Dirs -> [Slots -> Pattern \cup {Nothing}]]
    BY <1>5, <2>3, <2>4
  <2>6. ASSUME NEW e \in Dirs
        PROVE  Ahead(handle'[e], carried'[e], busType, s) /\ Counts(handle'[e], carried'[e], mode, s)
    <3>1. CASE e = d
      BY <1>5, <1>7, <2>3, <2>4, <3>1
    <3>2. CASE e # d
      <4>1. handle'[e] = handle[e] /\ carried'[e] = carried[e]
        BY <1>5, <2>4, <3>2
      <4> QED BY <1>1, <1>2, <1>4, <4>1, Later
    <3> QED BY <3>1, <3>2
  <2> QED BY <1>1, <1>3, <1>5, <2>5, <2>6 DEF HandleInv, WaveTypes
<1> QED BY <1>1, <1>6, <1>7 DEF Modes

LEMMA SwitchKeeps ==
    ASSUME HandleInv, NEW t \in now..MaxTime, MCSwitch(t)
    PROVE  HandleInv'
<1> DEFINE s == t * DataRate
<1>1. /\ t \in 0..MaxTime /\ s \in Nat /\ Now \in Nat /\ s \in Now..Last
      /\ now' = t /\ Now' = s
      /\ busType \in Modes /\ busType' \in Modes
  BY CallSlot DEF MCSwitch, enableBus, enableTogglingRate, HandleInv, WaveTypes, Now, Modes
<1>2. /\ mode' = [n \in Slots |-> IF n < s THEN mode[n] ELSE busType']
      /\ carried' = [d \in Dirs |-> [n \in Slots |->
            IF n < s \/ busType' = busType THEN carried[d][n] ELSE Nothing]]
  BY DEF MCSwitch
<1>3. /\ mode \in [Slots -> Modes] /\ Stays(mode, busType, Now)
      /\ carried \in [Dirs -> [Slots -> Pattern \cup {Nothing}]]
  BY DEF HandleInv, WaveTypes
<1>4. ASSUME NEW e \in Dirs
      PROVE  /\ handle[e] \in HandleSet
             /\ Ahead(handle[e], carried[e], busType, Now)
             /\ Counts(handle[e], carried[e], mode, Now)
  BY DEF HandleInv, WaveTypes
<1>5. /\ busType' = "Bus" => handle' = [d \in Dirs |-> disableHandle(handle[d], s)]
      /\ busType' = "TogglingRate" => handle' = [d \in Dirs |-> enableHandle(handle[d], s)]
  BY DEF MCSwitch, enableBus, enableTogglingRate
<1> HIDE DEF s
<1>6. /\ mode' \in [Slots -> Modes] /\ Turned(mode, mode', busType', s)
      /\ carried' \in [Dirs -> [Slots -> Pattern \cup {Nothing}]]
  BY <1>1, <1>2, <1>3 DEF Turned
<1>7. Stays(mode', busType', s)
  BY <1>1, <1>6, TurnedStays
<1>8. ASSUME NEW d \in Dirs
      PROVE  /\ handle'[d] \in HandleSet
             /\ Ahead(handle'[d], carried'[d], busType', s)
             /\ Counts(handle'[d], carried'[d], mode', s)
  <2> DEFINE h == handle[d]
             w == carried[d]
             w2 == carried'[d]
  <2>1. h \in HandleSet /\ Ahead(h, w, busType, Now) /\ Counts(h, w, mode, Now)
    BY <1>4
  <2>2. \A n \in Slots : w2[n] = IF n < s \/ busType' = busType THEN w[n] ELSE Nothing
    BY <1>2
  <2>3. w \in [Slots -> Pattern \cup {Nothing}] /\ w2 \in [Slots -> Pattern \cup {Nothing}]
    BY <1>3, <1>6
  <2> HIDE DEF h, w, w2
  <2>4. CASE busType' = busType
    <3>1. w2 = w
      BY <2>2, <2>3, <2>4
    <3>2. mode' = mode
      BY <1>1, <1>2, <1>3, <2>4, SlotsAre DEF Stays
    <3>3. handle'[d] = h
      <4>1. CASE busType = "Bus"
        <5>1. handle'[d] = disableHandle(h, s)
          BY <1>5, <2>4, <4>1 DEF h
        <5>2. ~h.enableflag
          BY <2>1, <4>1 DEF Ahead
        <5> QED BY <1>1, <2>1, <5>1, <5>2, SwitchedAgain
      <4>2. CASE busType = "TogglingRate"
        <5>1. handle'[d] = enableHandle(h, s)
          BY <1>5, <2>4, <4>2 DEF h
        <5>2. h.enableflag
          BY <2>1, <4>2 DEF Ahead
        <5> QED BY <1>1, <2>1, <5>1, <5>2, SwitchedAgain
      <4> QED BY <1>1, <4>1, <4>2 DEF Modes
    <3>4. Ahead(h, w, busType, s) /\ Counts(h, w, mode, s)
      BY <1>1, <1>3, <2>1, Later
    <3> QED BY <2>1, <2>4, <3>1, <3>2, <3>3, <3>4 DEF w2
  <2>5. CASE busType' # busType
    <3>1. \A n \in Slots : w2[n] = IF n < s THEN w[n] ELSE Nothing
      BY <2>2, <2>5
    <3>2. \A n \in Slots : n < s => w2[n] = w[n]
      BY <3>1
    <3>3. CASE busType = "TogglingRate"
      <4>1. busType' = "Bus"
        BY <1>1, <2>5, <3>3 DEF Modes
      <4>2. handle'[d] = disableHandle(h, s)
        BY <1>5, <4>1 DEF h
      <4>3. Turned(mode, mode', "Bus", s)
        BY <1>6, <4>1
      <4>4. Ahead(h, w, "TogglingRate", Now)
        BY <2>1, <3>3
      <4>5. /\ Ahead(disableHandle(h, s), w2, "Bus", s)
            /\ Counts(disableHandle(h, s), w2, mode', s)
            /\ disableHandle(h, s) \in HandleSet
        BY <1>1, <2>1, <3>2, <4>3, <4>4, SwitchOffStep
      <4> QED BY <4>1, <4>2, <4>5 DEF w2
    <3>4. CASE busType = "Bus"
      <4>1. busType' = "TogglingRate"
        BY <1>1, <2>5, <3>4 DEF Modes
      <4>2. handle'[d] = enableHandle(h, s)
        BY <1>5, <4>1 DEF h
      <4>3. Turned(mode, mode', "TogglingRate", s)
        BY <1>6, <4>1
      <4>4. Ahead(h, w, "Bus", Now)
        BY <2>1, <3>4
      <4>5. /\ Ahead(enableHandle(h, s), w2, "TogglingRate", s)
            /\ Counts(enableHandle(h, s), w2, mode', s)
            /\ enableHandle(h, s) \in HandleSet
        BY <1>1, <2>1, <3>1, <4>3, <4>4, SwitchOnStep
      <4> QED BY <4>1, <4>2, <4>5 DEF w2
    <3> QED BY <1>1, <3>3, <3>4 DEF Modes
  <2> QED BY <2>4, <2>5
<1>9. handle' \in [Dirs -> HandleSet]
  <2>1. \A d \in Dirs : handle'[d] \in HandleSet
    BY <1>8
  <2>2. handle' = [d \in Dirs |-> handle'[d]]
    BY <1>1, <1>5 DEF Modes
  <2> QED BY <2>1, <2>2
<1> QED BY <1>1, <1>6, <1>7, <1>8, <1>9 DEF HandleInv, WaveTypes

LEMMA HandleInvStep == HandleInv /\ [MCNext]_<<vars, carried, mode>> => HandleInv'
<1> SUFFICES ASSUME HandleInv, [MCNext]_<<vars, carried, mode>> PROVE HandleInv'
  OBVIOUS
<1>1. CASE MCNext
  <2>1. PICK t \in now..MaxTime :
            \/ MCSwitch(t)
            \/ \E d \in Dirs, burst \in Bursts, given \in BOOLEAN : MCLoad(d, t, burst, given)
    BY <1>1 DEF MCNext
  <2> QED BY <2>1, SwitchKeeps, LoadKeeps
<1>2. CASE UNCHANGED <<vars, carried, mode>>
  BY <1>2 DEF vars, HandleInv, WaveTypes, Now
<1> QED BY <1>1, <1>2

THEOREM HandleInvHolds == MCSpec => []HandleInv
BY HandleInvInit, HandleInvStep, PTL DEF MCSpec
-----------------------------------------------------------------------------
(* What the statistics say                                                 *)

LEMMA AskedSlot ==
    ASSUME HandleInv, NEW t \in Askable
    PROVE  t * DataRate \in Nat /\ t * DataRate \in Now..Last
<1>1. now \in Nat /\ t \in Nat /\ now <= t /\ t <= MaxTime + 2 /\ MaxTime + 2 \in Nat
  BY SlotsAre DEF HandleInv, WaveTypes, Askable
<1>2. /\ now * DataRate \in Nat /\ t * DataRate \in Nat /\ now * DataRate <= t * DataRate
      /\ t * DataRate <= Last /\ Last \in Nat
  BY <1>1, InSlots DEF Last
<1> QED BY <1>1, <1>2 DEF Now

\* What a handle says of slot u, with the sets of slots it stands for.
LEMMA AskedOf ==
    ASSUME HandleInv, NEW d \in Dirs, NEW t \in Askable
    PROVE  LET u == t * DataRate
           IN  /\ busySlots(handle[d], u) = Cardinality(Busy(carried[d], mode, u))
               /\ idleSlots(handle[d], u) = Cardinality(Seen(mode, u) \ Busy(carried[d], mode, u))
               /\ busySlots(handle[d], u) \in Nat /\ idleSlots(handle[d], u) \in Nat
               /\ busySlots(handle[d], u) + idleSlots(handle[d], u) = Cardinality(Seen(mode, u))
<1> DEFINE u == t * DataRate
           h == handle[d]
           w == carried[d]
<1>1. u \in Nat /\ u \in Now..Last
  BY AskedSlot
<1>2. h \in HandleSet /\ Counts(h, w, mode, Now)
  BY DEF HandleInv, WaveTypes
<1> HIDE DEF u, h, w
<1>3. busySlots(h, u) = Cardinality(Busy(w, mode, u)) /\ u - offSlots(h, u) = Cardinality(Seen(mode, u))
  BY <1>1, <1>2 DEF Counts
<1>4. /\ Cardinality(Seen(mode, u)) \in Nat /\ Cardinality(Busy(w, mode, u)) \in Nat
      /\ Cardinality(Seen(mode, u) \ Busy(w, mode, u))
            = Cardinality(Seen(mode, u)) - Cardinality(Busy(w, mode, u))
      /\ Busy(w, mode, u) \subseteq Seen(mode, u) /\ Seen(mode, u) \subseteq 0..(u - 1)
  BY <1>1, SeenBefore
<1>5. Cardinality(Seen(mode, u) \ Busy(w, mode, u)) \in Nat
  <2>1. Seen(mode, u) \ Busy(w, mode, u) \subseteq 0..(u - 1)
    BY <1>4
  <2> QED BY <1>1, <2>1, SlotSetsFinite
<1>6. idleSlots(h, u) = Cardinality(Seen(mode, u)) - Cardinality(Busy(w, mode, u))
  BY <1>3 DEF idleSlots
<1> QED BY <1>3, <1>4, <1>5, <1>6 DEF u, h, w

\* In mode TogglingRate every slot is either one of a burst or idle, whatever
\* is loaded and however often the mode changes (TogglingHandle::disable,
\* enable, incCountBurstLength and get_stats).
THEOREM SlotsAreCounted == MCSpec => []HandleCounted
<1>1. HandleInv => HandleCounted
  <2> SUFFICES ASSUME HandleInv, NEW d \in Dirs, NEW t \in Askable
               PROVE  LET seen == In("TogglingRate", t * DataRate)
                          busy == {n \in seen : carried[d][n] # Nothing}
                      IN  /\ busySlots(handle[d], t * DataRate) = Cardinality(busy)
                          /\ idleSlots(handle[d], t * DataRate) = Cardinality(seen \ busy)
    BY DEF HandleCounted
  <2> DEFINE u == t * DataRate
  <2>1. Seen(mode, u) = In("TogglingRate", u)
    BY DEF Seen, In
  <2>2. Busy(carried[d], mode, u) = {n \in In("TogglingRate", u) : carried[d][n] # Nothing}
    BY <2>1 DEF Busy
  <2> QED BY <2>1, <2>2, AskedOf
<1> QED BY <1>1, HandleInvHolds, PTL

\* The products of get_stats, rounded down: a share and its rest lose at most
\* one slot between them, and half of a share is at most half.
LEMMA Rounding ==
    ASSUME NEW b \in Nat, NEW q \in 0..4
    PROVE  /\ (b * q) \div 4 \in Nat /\ (b * (4 - q)) \div 4 \in Nat /\ (b * q) \div 8 \in Nat
           /\ (b * q) \div 4 + (b * (4 - q)) \div 4 \in {b, b - 1}
           /\ 2 * ((b * q) \div 8) <= b
<1>1. CASE q = 0 BY <1>1
<1>2. CASE q = 1 BY <1>2
<1>3. CASE q = 2 BY <1>3
<1>4. CASE q = 3 BY <1>4
<1>5. CASE q = 4 BY <1>5
<1> QED BY <1>1, <1>2, <1>3, <1>4, <1>5

LEMMA Scaled ==
    ASSUME NEW w \in Nat, NEW a \in Nat, NEW c \in Nat
    PROVE  /\ w * a \in Nat /\ w * c \in Nat
           /\ w * (a + c) = w * a + w * c
           /\ a >= 1 => w * (a - 1) = w * a - w
           /\ a <= c => w * a <= w * c
<1>1. w * a \in Nat /\ w * c \in Nat /\ w * (a + c) = w * a + w * c
  OBVIOUS
<1>2. w * (a - 1) = w * a - w
  OBVIOUS
<1>3. ASSUME a <= c PROVE w * a <= w * c
  <2> DEFINE e == c - a
  <2>1. e \in Nat /\ c = a + e
    BY <1>3
  <2> HIDE DEF e
  <2>2. w * e \in Nat /\ w * (a + e) = w * a + w * e
    BY <2>1
  <2> QED BY <1>1, <2>1, <2>2
<1> QED BY <1>1, <1>2, <1>3

\* The estimate accounts for every slot of every line, but for one that
\* rounding may lose, and has each line change at most once a busy slot, for
\* any toggling rate and duty cycle (TogglingHandle::get_stats).
THEOREM EstimateIsWhole == MCSpec => []EstimateCoversSlots
<1>1. HandleInv => EstimateCoversSlots
  <2> SUFFICES ASSUME HandleInv, NEW d \in Dirs, NEW t \in Askable
               PROVE
        LET stats == estimate(handle[d], t * DataRate, TogglingRate[d], DutyCycle[d], IdlePattern[d])
            seen == Cardinality(Lines) * Cardinality(In("TogglingRate", t * DataRate))
        IN  /\ stats.ones + stats.zeroes \in {seen, seen - Cardinality(Lines)}
            /\ stats.ones_to_zeroes + stats.zeroes_to_ones
                  <= Cardinality(Lines) * busySlots(handle[d], t * DataRate)
    BY DEF EstimateCoversSlots
  <2> DEFINE u == t * DataRate
             w == Cardinality(Lines)
             b == busySlots(handle[d], u)
             i == idleSlots(handle[d], u)
             s == Cardinality(Seen(mode, u))
             high == (b * DutyCycle[d]) \div 4
             low == (b * (4 - DutyCycle[d])) \div 4
             half == (b * TogglingRate[d]) \div 8
             pattern == IdlePattern[d]
             ups == IF pattern = Lines THEN i ELSE 0
             downs == IF pattern = {} THEN i ELSE 0
             stats == estimate(handle[d], u, TogglingRate[d], DutyCycle[d], pattern)
  <2>1. w \in Nat /\ (Lines = {} => w = 0)
    BY LinesAssumption, FS_CardinalityType, FS_EmptySet
  <2>2. b \in Nat /\ i \in Nat /\ s \in Nat /\ b + i = s
    <3>1. b \in Nat /\ i \in Nat /\ b + i = s
      BY AskedOf, Zenon
    <3> QED BY <3>1
  <2>3. /\ high \in Nat /\ low \in Nat /\ half \in Nat
        /\ high + low \in {b, b - 1} /\ 2 * half <= b
    <3>1. DutyCycle[d] \in 0..4 /\ TogglingRate[d] \in 0..4
      BY DataBusAssumption DEF DataBusAssumption
    <3> HIDE DEF b
    <3> QED BY <2>2, <3>1, Rounding
  <2>4. pattern = {} \/ pattern = Lines
    BY DataBusAssumption DEF DataBusAssumption
  <2>5. Seen(mode, u) = In("TogglingRate", u)
    BY DEF Seen, In
  <2>6. /\ stats.ones = w * (high + ups) /\ stats.zeroes = w * (low + downs)
        /\ stats.ones_to_zeroes = w * half /\ stats.zeroes_to_ones = w * half
    BY DEF estimate
  <2> HIDE DEF u, w, b, i, s, high, low, half, pattern, stats
  <2>7. ups \in Nat /\ downs \in Nat /\ (Lines # {} => ups + downs = i)
    BY <2>2, <2>4
  <2> HIDE DEF ups, downs
  <2>8. stats.ones + stats.zeroes \in {w * s, w * s - w}
    <3> DEFINE sum == (high + ups) + (low + downs)
    <3>1. sum \in Nat /\ stats.ones + stats.zeroes = w * sum
      BY <2>1, <2>3, <2>6, <2>7, Scaled
    <3>2. CASE Lines = {}
      <4>1. w = 0
        BY <2>1, <3>2
      <4> HIDE DEF sum
      <4>2. w * sum = 0 /\ w * s = 0
        BY <2>2, <3>1, <4>1
      <4> QED BY <3>1, <4>2
    <3>3. CASE Lines # {}
      <4>1. sum \in {s, s - 1}
        BY <2>2, <2>3, <2>7, <3>3
      <4> HIDE DEF sum
      <4>2. CASE sum = s
        BY <3>1, <4>2
      <4>3. CASE sum = s - 1
        <5>1. s >= 1 /\ w * (s - 1) = w * s - w
          BY <2>1, <2>2, <3>1, <4>3, Scaled
        <5> QED BY <3>1, <4>3, <5>1
      <4> QED BY <4>1, <4>2, <4>3
    <3> QED BY <3>2, <3>3
  <2>9. stats.ones_to_zeroes + stats.zeroes_to_ones <= w * b
    <3>1. 2 * half = half + half /\ half + half <= b
      BY <2>3
    <3>2. w * (half + half) = w * half + w * half /\ w * (half + half) <= w * b
      BY <2>1, <2>2, <2>3, <3>1, Scaled
    <3> QED BY <2>6, <3>2
  <2> QED BY <2>5, <2>8, <2>9 DEF stats, w, s, b, u, pattern
<1> QED BY <1>1, HandleInvHolds, PTL
-----------------------------------------------------------------------------
(* The invariant of the buses                                              *)

\* What waveform w shows of lines with an idle pattern, in the modes md.
Shown(w, idle, n) == IF w[n] = Nothing THEN idle ELSE w[n]
ShownBefore(w, md, idle, n) ==
    IF n > 0 /\ md[n - 1] = "Bus" THEN Shown(w, idle, n - 1) ELSE idle
Wave(w, md, idle) ==
    [n \in Slots |-> IF md[n] = "Bus" THEN diff(ShownBefore(w, md, idle, n), Shown(w, idle, n))
                     ELSE NoStats]

\* The bus was switched on while the simulation ran.
Late(md) == \E n \in Slots \ {0} : md[n] = "Bus" /\ md[n - 1] # "Bus"

\* The same transitions, and the same in all if that is exact.
Alike(a, b, exact) ==
    /\ a.ones_to_zeroes = b.ones_to_zeroes /\ a.zeroes_to_ones = b.zeroes_to_ones
    /\ exact => a = b

\* The storage ends with its burst, or at 0 if there is none; then the idle slots
\* are counted from 0 on, which is right for a bus that was on from the start.
Stored(b, md) ==
    /\ b.burst = <<>> => b.load_time = 0 /\ (b.enableflag /\ ~Late(md) => b.last_load = 0)
    /\ b.burst # <<>> => b.load_time = b.last_load /\ b.enableflag

\* A bus that is on holds back the slot of its last load, and shows what it
\* stores from there on.
Holds(b, w, md) ==
    /\ b.pending.isPending /\ b.pending.time = b.last_load
    /\ b.pending.stats = diff(ShownBefore(w, md, b.idle, b.last_load), Shown(w, b.idle, b.last_load))
    /\ \A n \in Slots : n >= b.last_load => Shown(w, b.idle, n) = At(b, n)
    /\ b.last_load = 0 /\ b.burst = <<>> => b.last_pattern = b.idle

\* A bus has counted the slots of its waveform before its last load.
Tracks(b, w, md, type) ==
    /\ Stays(md, type, b.last_load)
    /\ (type = "Bus" => b.enableflag) /\ (type = "TogglingRate" => ~b.enableflag)
    /\ Stored(b, md)
    /\ b.enableflag => Holds(b, w, md)
    /\ ~b.enableflag => ~b.pending.isPending
    /\ Alike(b.stats, Total(Wave(w, md, b.idle), 0, b.last_load), ~Late(md))

BusInv ==
    /\ bus \in [Dirs -> BusSet]
    /\ \A d \in Dirs : /\ bus[d].idle = IdlePattern[d] /\ bus[d].last_load <= Now
                       /\ Tracks(bus[d], carried[d], mode, busType)
-----------------------------------------------------------------------------
(* Likeness                                                                *)

LEMMA AlikePlus ==
    ASSUME NEW a \in Stats, NEW b \in Stats, NEW c \in Stats, NEW e \in Stats, NEW exact,
           Alike(a, b, exact), Alike(c, e, exact)
    PROVE  Alike(Plus(a, c), Plus(b, e), exact)
<1>1. a.ones_to_zeroes = b.ones_to_zeroes /\ c.ones_to_zeroes = e.ones_to_zeroes
  BY DEF Alike
<1>2. a.zeroes_to_ones = b.zeroes_to_ones /\ c.zeroes_to_ones = e.zeroes_to_ones
  BY DEF Alike
<1>3. /\ Plus(a, c).ones_to_zeroes = Plus(b, e).ones_to_zeroes
      /\ Plus(a, c).zeroes_to_ones = Plus(b, e).zeroes_to_ones
  BY <1>1, <1>2, PlusIs
<1>4. exact => Plus(a, c) = Plus(b, e)
  BY DEF Alike
<1> QED BY <1>3, <1>4 DEF Alike

LEMMA AlikeItself == \A a, exact : Alike(a, a, exact)
BY DEF Alike

-----------------------------------------------------------------------------
(* The waveform                                                            *)

WaveSet == [Slots -> Pattern \cup {Nothing}]
ModeSet == [Slots -> Modes]

LEMMA ShownTyped ==
    ASSUME NEW w \in WaveSet, NEW md \in ModeSet, NEW idle \in Pattern, NEW n \in Slots
    PROVE  /\ Shown(w, idle, n) \in Pattern /\ ShownBefore(w, md, idle, n) \in Pattern
           /\ n > 0 => n - 1 \in Slots
<1>1. n \in Nat /\ (n > 0 => n - 1 \in Slots)
  BY SlotsAre
<1>2. \A k \in Slots : Shown(w, idle, k) \in Pattern
  BY DEF Shown, WaveSet
<1> QED BY <1>1, <1>2 DEF ShownBefore

LEMMA WaveTyped ==
    ASSUME NEW w \in WaveSet, NEW md \in ModeSet, NEW idle \in Pattern
    PROVE  \A n \in Slots : Wave(w, md, idle)[n] \in Stats
<1> SUFFICES ASSUME NEW n \in Slots PROVE Wave(w, md, idle)[n] \in Stats
  OBVIOUS
<1>1. diff(ShownBefore(w, md, idle, n), Shown(w, idle, n)) \in Stats
  BY ShownTyped, diffIs
<1> QED BY <1>1, NoStatsIs DEF Wave

\* Slots before s, for an s that may be asked for, are slots.
LEMMA SlotsUpTo ==
    ASSUME NEW a \in Nat, NEW s \in Nat, s <= Last
    PROVE  \A n \in a..(s - 1) : n \in Slots /\ n \in Nat
BY SlotsAre

LEMMA WaveSummed ==
    ASSUME NEW w \in WaveSet, NEW md \in ModeSet, NEW idle \in Pattern,
           NEW a \in Nat, NEW s \in Nat, s <= Last
    PROVE  Total(Wave(w, md, idle), a, s) \in Stats
<1>1. \A n \in a..(s - 1) : Wave(w, md, idle)[n] \in Stats
  BY WaveTyped, SlotsUpTo
<1> QED BY <1>1, TotalTyped

LEMMA WaveSplits ==
    ASSUME NEW w \in WaveSet, NEW md \in ModeSet, NEW idle \in Pattern,
           NEW a \in Nat, NEW m \in Nat, NEW s \in Nat, a <= m, m <= s, s <= Last
    PROVE  Total(Wave(w, md, idle), a, s)
              = Plus(Total(Wave(w, md, idle), a, m), Total(Wave(w, md, idle), m, s))
<1>1. \A n \in a..(s - 1) : Wave(w, md, idle)[n] \in Stats
  BY WaveTyped, SlotsUpTo
<1> QED BY <1>1, TotalSplits

\* What comes from slot s on does not change what was before.
LEMMA WaveKept ==
    ASSUME NEW w, NEW md, NEW w2, NEW md2, NEW idle, NEW s \in Nat, s <= Last,
           \A n \in Slots : n < s => w2[n] = w[n] /\ md2[n] = md[n]
    PROVE  Total(Wave(w2, md2, idle), 0, s) = Total(Wave(w, md, idle), 0, s)
<1>1. \A n \in 0..(s - 1) : Wave(w2, md2, idle)[n] = Wave(w, md, idle)[n]
  <2> TAKE n \in 0..(s - 1)
  <2>1. n \in Slots /\ n \in Nat /\ n < s
    BY SlotsUpTo
  <2>2. n > 0 => n - 1 \in Slots /\ n - 1 < s
    BY <2>1, SlotsAre
  <2>3. w2[n] = w[n] /\ md2[n] = md[n] /\ (n > 0 => w2[n - 1] = w[n - 1] /\ md2[n - 1] = md[n - 1])
    BY <2>1, <2>2
  <2>4. Shown(w2, idle, n) = Shown(w, idle, n)
    BY <2>3 DEF Shown
  <2>5. ShownBefore(w2, md2, idle, n) = ShownBefore(w, md, idle, n)
    BY <2>3 DEF ShownBefore, Shown
  <2> QED BY <2>1, <2>3, <2>4, <2>5 DEF Wave
<1> QED BY <1>1, TotalAgrees

\* Nothing is counted of a bus that is off.
LEMMA WaveOff ==
    ASSUME NEW w \in WaveSet, NEW md \in ModeSet, NEW idle \in Pattern,
           NEW a \in Nat, NEW s \in Nat, a <= s, s <= Last,
           \A n \in Slots : a <= n /\ n < s => md[n] = "TogglingRate"
    PROVE  Total(Wave(w, md, idle), 0, s) = Total(Wave(w, md, idle), 0, a)
<1> DEFINE f == Wave(w, md, idle)
<1>1. \A n \in a..(s - 1) : f[n] = NoStats
  <2> TAKE n \in a..(s - 1)
  <2>1. n \in Slots /\ md[n] = "TogglingRate"
    BY SlotsUpTo
  <2> QED BY <2>1 DEF Wave
<1>2. Total(f, 0, s) = Plus(Total(f, 0, a), Total(f, a, s))
  BY WaveSplits
<1>3. Total(f, 0, a) \in Stats
  <2>1. a <= Last
    BY SlotsAre
  <2> QED BY <2>1, WaveSummed
<1> HIDE DEF f
<1>4. Total(f, a, s) = NoStats
  <2> DEFINE k == s - a
  <2>1. k \in Nat
    OBVIOUS
  <2>2. Total(f, a, s) = Times(k, NoStats)
    BY <1>1, NoStatsIs, TotalOfAlike
  <2> HIDE DEF k
  <2>3. Times(k, NoStats) = NoStats
    <3>1. k * 0 = 0
      BY <2>1
    <3> QED BY <2>1, <3>1, TimesIs, NoStatsIs, StatsSame
  <2> QED BY <2>2, <2>3
<1>5. Plus(Total(f, 0, a), NoStats) = Total(f, 0, a)
  BY <1>3, PlusNone
<1> QED BY <1>2, <1>4, <1>5 DEF f
-----------------------------------------------------------------------------
(* A bus and its waveform                                                  *)

\* From the slot after that of the last load on, the waveform is what the bus
\* stores, and what it carries when that is over.
LEMMA WaveAhead ==
    ASSUME NEW b \in BusSet, NEW w \in WaveSet, NEW md \in ModeSet,
           Tracks(b, w, md, "Bus"), NEW u \in Nat, u <= Last
    PROVE  Total(Wave(w, md, b.idle), b.last_load + 1, u) = Total(Changes(b), b.last_load + 1, u)
<1> DEFINE L == b.last_load
           f == Wave(w, md, b.idle)
           g == Changes(b)
<1>1. L \in Nat /\ L + 1 \in Nat
  BY BusTyped
<1>2. \A n \in Slots : n >= L => md[n] = "Bus" /\ Shown(w, b.idle, n) = At(b, n)
  BY DEF Tracks, Holds, Stays
<1>3. \A n \in (L + 1)..(u - 1) : f[n] = g[n]
  <2> TAKE n \in (L + 1)..(u - 1)
  <2>1. n \in Slots /\ n \in Nat /\ n > 0 /\ n >= L /\ n - 1 >= L
    BY <1>1, SlotsUpTo
  <2>2. n - 1 \in Slots
    BY <2>1, SlotsAre
  <2>3. md[n] = "Bus" /\ md[n - 1] = "Bus"
    BY <1>2, <2>1, <2>2
  <2>4. Shown(w, b.idle, n) = At(b, n) /\ ShownBefore(w, md, b.idle, n) = At(b, n - 1)
    BY <1>2, <2>1, <2>2, <2>3 DEF ShownBefore
  <2>5. g[n] = diff(At(b, n - 1), At(b, n))
    BY <2>1, ChangesTyped
  <2> QED BY <2>1, <2>3, <2>4, <2>5 DEF Wave
<1> HIDE DEF f, g
<1>4. Total(f, L + 1, u) = Total(g, L + 1, u)
  BY <1>1, <1>3, TotalAgrees
<1> QED BY <1>4 DEF f, g

LEMMA AdvanceIs ==
    ASSUME NEW b \in BusSet, NEW w \in WaveSet, NEW md \in ModeSet,
           Tracks(b, w, md, "Bus"), NEW u \in Nat, u > b.last_load, u <= Last
    PROVE  /\ advance_stats(b, u) \in Stats
           /\ Alike(advance_stats(b, u), Total(Wave(w, md, b.idle), b.last_load + 1, u), ~Late(md))
<1> DEFINE L == b.last_load
           A == advance_stats(b, u)
           T == Total(Wave(w, md, b.idle), L + 1, u)
<1>1. b.enableflag /\ Stored(b, md)
  BY DEF Tracks
<1>2. L \in Nat /\ L + 1 \in Nat /\ b.idle \in Pattern
  BY BusTyped
<1>3. T \in Stats
  BY <1>2, WaveSummed
<1>4. T = Total(Changes(b), L + 1, u)
  BY WaveAhead
<1>5. CASE b.burst # <<>>
  <2>1. A = T
    BY <1>1, <1>4, <1>5, AdvanceOfBurst DEF Stored
  <2> QED BY <1>3, <2>1, AlikeItself
<1>6. CASE b.burst = <<>>
  <2>1. b.load_time = 0 /\ (~Late(md) => L = 0) /\ Len(b.burst) = 0
    BY <1>1, <1>6 DEF Stored
  <2>2. u # 0 /\ u - 1 \in Nat /\ u - (L + 1) \in Nat
    BY <1>2
  <2>3. A = Times(u - 1, idle_stats(b))
    BY <1>6, <2>1, <2>2, AdvanceOfNone
  <2>4. T = Times(u - (L + 1), idle_stats(b))
    <3>1. L + 1 <= u /\ L + 1 > L + Len(b.burst)
      BY <1>2, <2>1
    <3> QED BY <1>2, <1>4, <3>1, IdleSlots
  <2>5. ~Late(md) => A = T
    <3>1. L = 0 => u - 1 = u - (L + 1)
      OBVIOUS
    <3> QED BY <2>1, <2>3, <2>4, <3>1
  <2>6. \A k \in Nat : /\ Times(k, idle_stats(b)) \in Stats
                        /\ Times(k, idle_stats(b)).ones_to_zeroes = 0
                        /\ Times(k, idle_stats(b)).zeroes_to_ones = 0
    <3> TAKE k \in Nat
    <3>1. k * 0 = 0
      OBVIOUS
    <3> QED BY <3>1, IdleStats, TimesIs
  <2>7. A \in Stats
    BY <2>2, <2>3, <2>6
  <2>8. A.ones_to_zeroes = T.ones_to_zeroes /\ A.zeroes_to_ones = T.zeroes_to_ones
    BY <2>2, <2>3, <2>4, <2>6
  <2> HIDE DEF A, T
  <2>9. Alike(A, T, ~Late(md))
    BY <2>5, <2>8 DEF Alike
  <2> QED BY <2>7, <2>9 DEF A, T
<1> QED BY <1>5, <1>6

\* What a bus that is on has counted of the slots before u, past its last load.
LEMMA CountedPast ==
    ASSUME NEW b \in BusSet, NEW w \in WaveSet, NEW md \in ModeSet,
           Tracks(b, w, md, "Bus"), NEW u \in Nat, u > b.last_load, u <= Last
    PROVE  /\ Plus(Plus(b.stats, b.pending.stats), advance_stats(b, u)) \in Stats
           /\ Alike(Plus(Plus(b.stats, b.pending.stats), advance_stats(b, u)),
                    Total(Wave(w, md, b.idle), 0, u), ~Late(md))
<1> DEFINE L == b.last_load
           A == advance_stats(b, u)
           P == b.pending.stats
           f == Wave(w, md, b.idle)
<1>1. L \in Nat /\ L + 1 \in Nat /\ b.idle \in Pattern /\ b.stats \in Stats /\ P \in Stats
  BY BusTyped
<1>2. L \in Slots
  BY <1>1, SlotsAre
<1>3. f[L] = P
  <2>1. md[L] = "Bus" /\ P = diff(ShownBefore(w, md, b.idle, L), Shown(w, b.idle, L))
    BY <1>1, <1>2 DEF Tracks, Holds, Stays
  <2> QED BY <1>2, <2>1 DEF Wave
<1>4. Total(f, 0, u) = Plus(Total(f, 0, L + 1), Total(f, L + 1, u))
  <2>1. 0 <= L + 1 /\ L + 1 <= u
    BY <1>1
  <2> QED BY <1>1, <2>1, WaveSplits
<1>5. A \in Stats /\ Alike(A, Total(f, L + 1, u), ~Late(md))
  BY AdvanceIs
<1>6. Total(f, L + 1, u) \in Stats /\ Total(f, 0, L) \in Stats
  <2>1. L <= Last
    BY <1>1, SlotsAre
  <2> QED BY <1>1, <2>1, WaveSummed
<1>7. Alike(b.stats, Total(f, 0, L), ~Late(md))
  BY DEF Tracks
<1> HIDE DEF f, A, P
<1>8. Total(f, 0, L + 1) = Plus(Total(f, 0, L), P)
  <2>1. 0 \in Nat /\ 0 <= L
    BY <1>1
  <2> QED BY <1>1, <1>3, <2>1, TotalSteps
<1>9. Alike(Plus(b.stats, P), Total(f, 0, L + 1), ~Late(md))
  BY <1>1, <1>6, <1>7, <1>8, AlikePlus, AlikeItself
<1>10. Plus(b.stats, P) \in Stats /\ Total(f, 0, L + 1) \in Stats
  BY <1>1, <1>6, <1>8, PlusIs
<1>11. Alike(Plus(Plus(b.stats, P), A), Total(f, 0, u), ~Late(md))
  BY <1>4, <1>5, <1>6, <1>9, <1>10, AlikePlus
<1>12. Plus(Plus(b.stats, P), A) \in Stats
  BY <1>5, <1>10, PlusIs
<1> QED BY <1>11, <1>12 DEF f, A, P

\* get_stats tells what the waveform shows, whenever it is asked.
LEMMA GetStatsIs ==
    ASSUME NEW b \in BusSet, NEW w \in WaveSet, NEW md \in ModeSet, NEW type \in Modes,
           Tracks(b, w, md, type), NEW u \in Nat, u >= b.last_load, u <= Last
    PROVE  Alike(get_stats(b, u), Total(Wave(w, md, b.idle), 0, u), ~Late(md))
<1> DEFINE L == b.last_load
           f == Wave(w, md, b.idle)
<1>1. L \in Nat /\ b.idle \in Pattern /\ b.stats \in Stats
  BY BusTyped
<1>2. Alike(b.stats, Total(f, 0, L), ~Late(md))
  BY DEF Tracks
<1>3. CASE type = "TogglingRate"
  <2>1. ~b.enableflag /\ ~b.pending.isPending /\ Stays(md, "TogglingRate", L)
    BY <1>3 DEF Tracks
  <2>2. Total(f, 0, u) = Total(f, 0, L)
    <3>1. \A n \in Slots : L <= n /\ n < u => md[n] = "TogglingRate"
      BY <1>1, <2>1, SlotsAre DEF Stays
    <3> QED BY <1>1, <3>1, WaveOff
  <2>3. get_stats(b, u) = b.stats
    BY <2>1 DEF get_stats
  <2> QED BY <1>2, <2>2, <2>3
<1>4. CASE type = "Bus"
  <2>1. b.enableflag /\ b.pending.isPending /\ b.pending.time = L /\ Stored(b, md)
    BY <1>4 DEF Tracks, Holds
  <2>2. CASE u = L
    <3>1. ~(b.pending.time < u)
      BY <1>1, <2>1, <2>2
    <3>2. CASE u = 0
      <4>1. get_stats(b, u) = b.stats
        BY <3>2 DEF get_stats
      <4> QED BY <1>2, <2>2, <4>1
    <3>3. CASE u # 0
      <4>1. get_stats(b, u) = Plus(b.stats, advance_stats(b, u))
        BY <2>1, <3>1, <3>3 DEF get_stats
      <4>2. /\ advance_stats(b, u) \in Stats
            /\ Alike(advance_stats(b, u), NoStats, ~Late(md))
        <5>1. CASE b.burst # <<>>
          <6>1. b.load_time = L /\ b.burst \in Seq(Pattern)
            BY <2>1, <5>1, BusTyped DEF Stored
          <6>2. u <= EndTime(b) /\ (IF EndTime(b) <= u THEN EndTime(b) ELSE u) = u
            <7>1. Len(b.burst) \in Nat
              BY <6>1
            <7> QED BY <1>1, <2>2, <6>1, <7>1 DEF EndTime
          <6>3. advance_stats(b, u) = BurstStats(b, u)
            BY <6>2 DEF advance_stats
          <6>4. BurstStats(b, u) = NoStats
            <7> DEFINE k == L + 1
            <7>1. k \in Nat /\ u <= k /\ BurstStats(b, u) = Total(Changes(b), k, u)
              BY <1>1, <2>2, BurstStatsIs
            <7> HIDE DEF k
            <7> QED BY <7>1, TotalSteps
          <6> QED BY <6>3, <6>4, NoStatsIs, AlikeItself
        <5>2. CASE b.burst = <<>>
          <6>1. b.load_time = 0 /\ (~Late(md) => L = 0)
            BY <2>1, <5>2 DEF Stored
          <6>2. advance_stats(b, u) = Times(u - 1, idle_stats(b)) /\ u - 1 \in Nat
            BY <3>3, <5>2, <6>1, AdvanceOfNone
          <6>3. (u - 1) * 0 = 0
            BY <6>2
          <6>4. /\ advance_stats(b, u) \in Stats
                /\ advance_stats(b, u).ones_to_zeroes = 0
                /\ advance_stats(b, u).zeroes_to_ones = 0
            BY <6>2, <6>3, IdleStats, TimesIs
          <6>5. Late(md)
            BY <2>2, <3>3, <6>1
          <6> QED BY <6>4, <6>5, NoStatsIs DEF Alike
        <5> QED BY <5>1, <5>2
      <4>3. Total(f, 0, L) \in Stats /\ Plus(Total(f, 0, L), NoStats) = Total(f, 0, L)
        BY <1>1, <2>2, WaveSummed, PlusNone
      <4> HIDE DEF f
      <4>4. Alike(Plus(b.stats, advance_stats(b, u)), Plus(Total(f, 0, L), NoStats), ~Late(md))
        BY <1>1, <1>2, <4>2, <4>3, NoStatsIs, AlikePlus
      <4> QED BY <2>2, <4>1, <4>3, <4>4 DEF f
    <3> QED BY <3>2, <3>3
  <2>3. CASE u > L
    <3>1. u # 0 /\ b.pending.time < u
      BY <1>1, <2>1, <2>3
    <3>2. get_stats(b, u) = Plus(Plus(b.stats, b.pending.stats), advance_stats(b, u))
      BY <2>1, <3>1 DEF get_stats
    <3> QED BY <1>4, <2>3, <3>2, CountedPast
  <2> QED BY <1>1, <2>2, <2>3
<1> QED BY <1>3, <1>4 DEF Modes
-----------------------------------------------------------------------------
(* The steps of a bus                                                      *)

\* What add_previous_stats does before s, a slot that is past the last load.
LEMMA CountedIs ==
    ASSUME NEW b \in BusSet, NEW w \in WaveSet, NEW md \in ModeSet,
           Tracks(b, w, md, "Bus"), NEW s \in Nat, s > b.last_load, s <= Last
    PROVE  /\ Counted(b, s) \in BusSet
           /\ Counted(b, s).idle = b.idle
           /\ Counted(b, s).enableflag /\ ~Counted(b, s).pending.isPending
           /\ Counted(b, s).last_pattern = At(b, s - 1)
           /\ Alike(Counted(b, s).stats, Total(Wave(w, md, b.idle), 0, s), ~Late(md))
<1> DEFINE n == Plus(Plus(b.stats, b.pending.stats), advance_stats(b, s))
           q == Cleared(b.pending)
           l == At(b, s - 1)
<1>1. /\ b.pending.isPending /\ b.pending.time < s /\ s > 0 /\ b.enableflag
      /\ s - 1 \in Int /\ b.pending \in PendingSet
  <2>1. b.last_load \in Nat
    BY BusTyped
  <2> QED BY <2>1, BusTyped DEF Tracks, Holds
<1>2. n \in Stats /\ Alike(n, Total(Wave(w, md, b.idle), 0, s), ~Late(md))
  BY CountedPast
<1>3. q \in PendingSet /\ ~q.isPending
  BY <1>1 DEF Cleared, PendingSet
<1>4. l \in Pattern
  BY <1>1, AtTyped
<1>5. Counted(b, s) = [b EXCEPT !.stats = n, !.pending = q, !.last_pattern = l]
  BY <1>1 DEF Counted
<1> HIDE DEF n, q, l
<1>6. [b EXCEPT !.stats = n, !.pending = q, !.last_pattern = l] \in BusSet
  BY <1>2, <1>3, <1>4 DEF BusSet
<1>7. /\ Counted(b, s).idle = b.idle /\ Counted(b, s).enableflag = b.enableflag
      /\ Counted(b, s).stats = n /\ Counted(b, s).pending = q /\ Counted(b, s).last_pattern = l
  BY <1>5 DEF BusSet
<1> QED BY <1>1, <1>2, <1>3, <1>5, <1>6, <1>7 DEF l

\* The lines after a load carry the burst, and before it what they carried.
LEMMA Played ==
    ASSUME NEW w \in WaveSet, NEW s \in Nat, NEW burst \in Seq(Pattern)
    PROVE  /\ Play(w, s, burst) \in WaveSet
           /\ \A n \in Slots :
                /\ n < s \/ n >= s + Len(burst) => Play(w, s, burst)[n] = w[n]
                /\ n >= s /\ n < s + Len(burst) =>
                      /\ Play(w, s, burst)[n] = burst[Len(burst) - (n - s)]
                      /\ burst[Len(burst) - (n - s)] \in Pattern
<1>1. Len(burst) \in Nat
  OBVIOUS
<1>2. ASSUME NEW n \in Slots, n >= s, n < s + Len(burst)
      PROVE  burst[Len(burst) - (n - s)] \in Pattern
  <2>1. n \in Nat
    BY SlotsAre
  <2>2. Len(burst) - (n - s) \in 1..Len(burst)
    BY <1>1, <1>2, <2>1
  <2> QED BY <2>2
<1>3. \A n \in Slots : n \in s..(s + Len(burst) - 1) <=> n >= s /\ n < s + Len(burst)
  BY <1>1, SlotsAre
<1>4. \A n \in Slots : Play(w, s, burst)[n] = IF n \in s..(s + Len(burst) - 1)
                                              THEN burst[Len(burst) - (n - s)] ELSE w[n]
  BY DEF Play
<1>5. \A n \in Slots : Play(w, s, burst)[n] \in Pattern \cup {Nothing}
  BY <1>2, <1>3, <1>4 DEF WaveSet
<1>6. \A n \in Slots : n < s \/ n >= s + Len(burst) => ~(n >= s /\ n < s + Len(burst))
  BY <1>1, SlotsAre
<1>7. Play(w, s, burst) \in WaveSet
  BY <1>5 DEF Play, WaveSet
<1> QED BY <1>2, <1>3, <1>4, <1>6, <1>7

LEMMA LoadTracks ==
    ASSUME NEW b \in BusSet, NEW w \in WaveSet, NEW md \in ModeSet, Tracks(b, w, md, "Bus"),
           NEW s \in Nat, s <= Last, s > b.last_load \/ s = 0,
           NEW burst \in Seq(Pattern), burst # <<>>, b.last_load + Len(b.burst) <= s
    PROVE  /\ load(b, s, burst) \in BusSet
           /\ load(b, s, burst).idle = b.idle /\ load(b, s, burst).last_load = s
           /\ Tracks(load(b, s, burst), Play(w, s, burst), md, "Bus")
<1> DEFINE c == Counted(b, s)
           x == load(b, s, burst)
           w2 == Play(w, s, burst)
           L == b.last_load
<1>1. L \in Nat /\ Len(b.burst) \in Nat /\ b.idle \in Pattern /\ b.burst \in Seq(Pattern)
  BY BusTyped
<1>2. b.enableflag /\ Stays(md, "Bus", L) /\ Stored(b, md) /\ Holds(b, w, md)
  BY DEF Tracks
<1>3. x = Loaded(c, s, burst)
  BY <1>2 DEF load
<1>4. w2 \in WaveSet /\ \A n \in Slots : n < s => w2[n] = w[n]
  BY Played
<1>5. s \in Slots
  BY SlotsAre
\* What was counted, and what was on the lines in the slot before.
<1>6. /\ c \in BusSet /\ c.idle = b.idle /\ c.enableflag
      /\ Alike(c.stats, Total(Wave(w, md, b.idle), 0, s), ~Late(md))
      /\ c.last_pattern = ShownBefore(w2, md, b.idle, s)
  <2>1. CASE s > L
    <3>1. s - 1 \in Slots /\ s - 1 >= L /\ s > 0 /\ s - 1 < s
      BY <1>1, <2>1, SlotsAre
    <3>2. md[s - 1] = "Bus" /\ Shown(w, b.idle, s - 1) = At(b, s - 1)
      BY <1>2, <3>1 DEF Stays, Holds
    <3>3. Shown(w2, b.idle, s - 1) = Shown(w, b.idle, s - 1)
      BY <1>4, <3>1 DEF Shown
    <3>4. ShownBefore(w2, md, b.idle, s) = At(b, s - 1)
      BY <3>1, <3>2, <3>3 DEF ShownBefore
    <3> QED BY <2>1, <3>4, CountedIs
  <2>2. CASE s = 0
    <3>1. L = 0 /\ Len(b.burst) = 0
      BY <1>1, <2>2
    <3>2. b.burst = <<>>
      BY <1>1, <3>1
    <3>3. b.load_time = 0 /\ b.last_pattern = b.idle
      BY <1>2, <3>1, <3>2 DEF Stored, Holds
    <3>4. ShownBefore(w2, md, b.idle, s) = b.idle
      BY <2>2 DEF ShownBefore
    <3>5. Alike(b.stats, Total(Wave(w, md, b.idle), 0, s), ~Late(md))
      BY <2>2, <3>1 DEF Tracks
    <3> QED BY <1>2, <2>2, <3>2, <3>3, <3>4, <3>5, CountedFirst
  <2> QED BY <2>1, <2>2
<1> HIDE DEF c, x, w2
<1>7. /\ x \in BusSet
      /\ x.idle = b.idle /\ x.stats = c.stats /\ x.enableflag
      /\ x.burst = burst /\ x.load_time = s /\ x.last_load = s
      /\ x.pending.isPending /\ x.pending.time = s
      /\ x.pending.stats = diff(c.last_pattern, At(x, s))
  <2>1. c \in BusSet /\ c.idle = b.idle /\ c.enableflag
    BY <1>6
  <2>2. burst \in Seq(Pattern) /\ burst # <<>> /\ s \in Nat /\ x = Loaded(c, s, burst)
    <3>1. x = Loaded(c, s, burst)
      BY <1>3
    <3> QED BY <3>1
  <2>3. /\ x \in BusSet
        /\ x.idle = c.idle /\ x.stats = c.stats /\ (c.enableflag => x.enableflag)
        /\ x.burst = burst /\ x.load_time = s /\ x.last_load = s
        /\ x.pending.isPending /\ x.pending.time = s
        /\ x.pending.stats = diff(c.last_pattern, At(x, s))
    BY <2>1, <2>2, LoadedIs, SMTT(40)
  <2> QED BY <2>1, <2>3
<1>8. \A n \in Slots : n >= s => Shown(w2, b.idle, n) = At(x, n)
  <2> TAKE n \in Slots
  <2> HAVE n >= s
  <2>1. n \in Nat /\ Len(burst) \in Nat
    BY SlotsAre
  <2>2. CASE n < s + Len(burst)
    <3>1. w2[n] = burst[Len(burst) - (n - s)] /\ w2[n] \in Pattern
      BY <2>2, Played DEF w2
    <3>2. w2[n] # Nothing
      BY <3>1, NothingAssumption DEF NothingAssumption
    <3>3. ~(n < s \/ n - s >= Len(burst))
      BY <2>1, <2>2
    <3>4. At(x, n) = burst[Len(burst) - (n - s)]
      BY <1>7, <3>3 DEF At
    <3> QED BY <3>1, <3>2, <3>4 DEF Shown
  <2>3. CASE n >= s + Len(burst)
    <3>1. w2[n] = w[n]
      BY <2>3, Played DEF w2
    <3>2. Shown(w2, b.idle, n) = Shown(w, b.idle, n)
      BY <3>1 DEF Shown
    <3>3. n >= L /\ n >= L + Len(b.burst) /\ n \in Int
      BY <1>1, <2>1
    <3>4. Shown(w, b.idle, n) = b.idle
      BY <1>2, <3>3, AtIdle DEF Holds
    <3>5. At(x, n) = x.idle
      BY <1>7, <2>1, <2>3, AtIdle
    <3> QED BY <1>7, <3>2, <3>4, <3>5
  <2> QED BY <2>1, <2>2, <2>3
<1>9. Holds(x, w2, md)
  <2>1. Shown(w2, b.idle, s) = At(x, s)
    BY <1>5, <1>8
  <2> QED BY <1>6, <1>7, <1>8, <2>1 DEF Holds
<1>10. Stays(md, "Bus", s)
  <2>1. s >= L
    BY <1>1
  <2>2. \A n \in Slots : n >= s => n >= L
    BY <1>1, <2>1, SlotsAre
  <2> QED BY <1>2, <2>2 DEF Stays
<1>11. Alike(x.stats, Total(Wave(w2, md, x.idle), 0, s), ~Late(md))
  <2>1. Total(Wave(w2, md, b.idle), 0, s) = Total(Wave(w, md, b.idle), 0, s)
    BY <1>4, WaveKept
  <2> QED BY <1>6, <1>7, <2>1
<1>12. Stored(x, md)
  BY <1>7 DEF Stored
<1>13. Tracks(x, w2, md, "Bus")
  BY <1>7, <1>9, <1>10, <1>11, <1>12 DEF Tracks
<1> QED BY <1>7, <1>13 DEF x, w2

\* What is loaded on a bus that is off does not concern it.
LEMMA OffTracks ==
    ASSUME NEW b \in BusSet, NEW w \in WaveSet, NEW w2 \in WaveSet, NEW md \in ModeSet,
           Tracks(b, w, md, "TogglingRate"), b.last_load <= Last,
           \A n \in Slots : n < b.last_load => w2[n] = w[n]
    PROVE  Tracks(b, w2, md, "TogglingRate")
<1>1. b.last_load \in Nat
  BY BusTyped
<1>2. Total(Wave(w2, md, b.idle), 0, b.last_load) = Total(Wave(w, md, b.idle), 0, b.last_load)
  BY <1>1, WaveKept
<1> QED BY <1>2 DEF Tracks

\* A bus that was switched on late stays one.
LEMMA LateStays ==
    ASSUME NEW md \in ModeSet, NEW md2 \in ModeSet, NEW old, NEW type,
           NEW L \in Nat, Stays(md, old, L), NEW s \in Nat, s > L,
           Turned(md, md2, type, s), Late(md)
    PROVE  Late(md2)
<1>1. PICK n \in Slots \ {0} : md[n] = "Bus" /\ md[n - 1] # "Bus"
  BY DEF Late
<1>2. n \in Nat /\ n - 1 \in Slots /\ n - 1 \in Nat
  BY SlotsAre
<1>3. n <= L
  <2>1. SUFFICES ASSUME ~(n <= L) PROVE FALSE
    OBVIOUS
  <2>2. n >= L /\ n - 1 >= L
    BY <1>2, <2>1
  <2> QED BY <1>1, <1>2, <2>2 DEF Stays
<1>4. md2[n] = md[n] /\ md2[n - 1] = md[n - 1]
  BY <1>2, <1>3 DEF Turned
<1> QED BY <1>1, <1>4 DEF Late

LEMMA AlikeLess ==
    ASSUME NEW a, NEW b, NEW e, NEW e2, Alike(a, b, e), e2 => e
    PROVE  Alike(a, b, e2)
BY DEF Alike

LEMMA DisableTracks ==
    ASSUME NEW b \in BusSet, NEW w \in WaveSet, NEW w2 \in WaveSet,
           NEW md \in ModeSet, NEW md2 \in ModeSet, Tracks(b, w, md, "Bus"),
           NEW s \in Nat, s <= Last, s > b.last_load,
           Turned(md, md2, "TogglingRate", s), \A n \in Slots : n < s => w2[n] = w[n]
    PROVE  /\ disable(b, s) \in BusSet
           /\ disable(b, s).idle = b.idle /\ disable(b, s).last_load = s
           /\ Tracks(disable(b, s), w2, md2, "TogglingRate")
<1> DEFINE c == Counted(b, s)
           x == disable(b, s)
<1>1. c \in BusSet /\ c.idle = b.idle /\ ~c.pending.isPending
  BY CountedIs
<1>2. Alike(c.stats, Total(Wave(w, md, b.idle), 0, s), ~Late(md))
  BY CountedIs
<1>3. x = [c EXCEPT !.burst = <<>>, !.load_time = 0, !.last_load = s, !.enableflag = FALSE]
  BY DEF disable, Tracks
<1> HIDE DEF c, x
<1>4. x \in BusSet
  <2>1. <<>> \in Seq(Pattern) /\ 0 \in Nat
    OBVIOUS
  <2> QED BY <1>1, <1>3, <2>1 DEF BusSet
<1>5. /\ x.idle = b.idle /\ x.stats = c.stats /\ x.burst = <<>> /\ x.load_time = 0
      /\ x.last_load = s /\ ~x.enableflag /\ ~x.pending.isPending
  BY <1>1, <1>3 DEF BusSet
<1>6. Total(Wave(w2, md2, b.idle), 0, s) = Total(Wave(w, md, b.idle), 0, s)
  <2>1. \A n \in Slots : n < s => w2[n] = w[n] /\ md2[n] = md[n]
    BY DEF Turned
  <2> QED BY <2>1, WaveKept
<1>7. Late(md) => Late(md2)
  <2>1. b.last_load \in Nat /\ Stays(md, "Bus", b.last_load)
    BY BusTyped DEF Tracks
  <2> QED BY <2>1, LateStays
<1>8. Alike(x.stats, Total(Wave(w2, md2, x.idle), 0, x.last_load), ~Late(md2))
  BY <1>2, <1>5, <1>6, <1>7, AlikeLess
<1>9. Stays(md2, "TogglingRate", s)
  BY SlotsAre DEF Stays, Turned
<1>10. Stored(x, md2)
  BY <1>5 DEF Stored
<1>11. Tracks(x, w2, md2, "TogglingRate")
  BY <1>5, <1>8, <1>9, <1>10 DEF Tracks
<1> QED BY <1>4, <1>5, <1>11 DEF x

LEMMA EnableTracks ==
    ASSUME NEW b \in BusSet, NEW w \in WaveSet, NEW w2 \in WaveSet,
           NEW md \in ModeSet, NEW md2 \in ModeSet, Tracks(b, w, md, "TogglingRate"),
           NEW s \in Nat, s <= Last, s > b.last_load, Turned(md, md2, "Bus", s),
           \A n \in Slots : w2[n] = IF n < s THEN w[n] ELSE Nothing
    PROVE  /\ enable(b, s) \in BusSet
           /\ enable(b, s).idle = b.idle /\ enable(b, s).last_load = s
           /\ Tracks(enable(b, s), w2, md2, "Bus")
<1> DEFINE i == idle_stats(b)
           q == Pending(s, i)
           x == enable(b, s)
           L == b.last_load
<1>1. /\ ~b.enableflag /\ Stored(b, md) /\ Stays(md, "TogglingRate", L)
      /\ Alike(b.stats, Total(Wave(w, md, b.idle), 0, L), ~Late(md))
  BY DEF Tracks
<1>2. b.burst = <<>> /\ b.load_time = 0 /\ L \in Nat /\ b.idle \in Pattern
  BY <1>1, BusTyped DEF Stored
<1>3. i \in Stats /\ i = diff(b.idle, b.idle)
  BY IdleStats
<1> HIDE DEF i
<1>4. q \in PendingSet /\ q.isPending /\ q.time = s /\ q.stats = i
  BY <1>3 DEF Pending, PendingSet
<1>5. x = [b EXCEPT !.last_load = s, !.pending = q, !.enableflag = TRUE]
  BY <1>1 DEF enable, i
<1> HIDE DEF x, q
<1>6. x \in BusSet
  BY <1>4, <1>5 DEF BusSet
<1>7. /\ x.idle = b.idle /\ x.stats = b.stats /\ x.burst = <<>> /\ x.load_time = 0
      /\ x.last_load = s /\ x.enableflag /\ x.pending = q
  BY <1>2, <1>5 DEF BusSet
<1>8. s \in Slots /\ s # 0 /\ s - 1 \in Slots /\ s - 1 >= L /\ s - 1 < s
  BY <1>2, SlotsAre
<1>9. md2[s - 1] = "TogglingRate" /\ md2[s] = "Bus"
  BY <1>1, <1>8 DEF Turned, Stays
<1>10. Late(md2)
  BY <1>8, <1>9 DEF Late
<1>11. \A n \in Slots : n >= s => Shown(w2, b.idle, n) = b.idle
  <2>1. \A n \in Slots : n >= s => w2[n] = Nothing
    BY SlotsAre
  <2> QED BY <2>1 DEF Shown
<1>12. \A n \in Slots : n >= s => At(x, n) = b.idle
  <2> TAKE n \in Slots
  <2> HAVE n >= s
  <2>1. n \in Int /\ n >= x.last_load + Len(x.burst)
    BY <1>7, SlotsAre
  <2> QED BY <1>6, <1>7, <2>1, AtIdle
<1>13. Holds(x, w2, md2)
  <2>1. ShownBefore(w2, md2, b.idle, s) = b.idle
    BY <1>9 DEF ShownBefore
  <2>2. Shown(w2, b.idle, s) = b.idle
    BY <1>8, <1>11
  <2> QED BY <1>3, <1>4, <1>7, <1>8, <1>11, <1>12, <2>1, <2>2 DEF Holds
<1>14. Total(Wave(w2, md2, b.idle), 0, s) = Total(Wave(w, md, b.idle), 0, L)
  <2>1. \A n \in Slots : n < s => w2[n] = w[n] /\ md2[n] = md[n]
    BY DEF Turned
  <2>2. Total(Wave(w2, md2, b.idle), 0, s) = Total(Wave(w, md, b.idle), 0, s)
    BY <2>1, WaveKept
  <2>3. \A n \in Slots : L <= n /\ n < s => md[n] = "TogglingRate"
    BY <1>1, <1>2, SlotsAre DEF Stays
  <2> QED BY <1>2, <2>2, <2>3, WaveOff
<1>15. Alike(x.stats, Total(Wave(w2, md2, x.idle), 0, x.last_load), ~Late(md2))
  BY <1>1, <1>7, <1>10, <1>14, AlikeLess
<1>16. Stays(md2, "Bus", s)
  BY SlotsAre DEF Stays, Turned
<1>17. Stored(x, md2)
  BY <1>7, <1>10 DEF Stored
<1>18. Tracks(x, w2, md2, "Bus")
  BY <1>7, <1>13, <1>15, <1>16, <1>17 DEF Tracks
<1> QED BY <1>6, <1>7, <1>18 DEF x
-----------------------------------------------------------------------------
(* The buses                                                               *)

LEMMA IdlePatterns == \A d \in Dirs : IdlePattern[d] \in Pattern
BY DataBusAssumption DEF DataBusAssumption, Pattern

LEMMA NewBusTyped ==
    ASSUME NEW idle \in Pattern, NEW on \in BOOLEAN
    PROVE  LET b == NewBus(idle, on)
           IN  /\ b \in BusSet /\ b.idle = idle /\ b.stats = NoStats /\ b.burst = <<>>
               /\ b.load_time = 0 /\ b.last_load = 0 /\ b.last_pattern = idle
               /\ (on => b.enableflag) /\ (~on => ~b.enableflag /\ ~b.pending.isPending)
               /\ on => /\ b.pending.isPending /\ b.pending.time = 0
                        /\ b.pending.stats = diff(idle, idle)
<1> DEFINE x == diff(idle, idle)
           q == IF on THEN Pending(0, x) ELSE Cleared(Pending(0, NoStats))
           b == [idle |-> idle, stats |-> NoStats, burst |-> <<>>, load_time |-> 0, last_load |-> 0,
                 enableflag |-> on, pending |-> q, last_pattern |-> idle]
<1>1. x \in Stats /\ NoStats \in Stats /\ <<>> \in Seq(Pattern)
  BY diffIs, NoStatsIs
<1> HIDE DEF x
<1>2. q \in PendingSet
  BY <1>1 DEF Pending, Cleared, PendingSet
<1>3. on => q.isPending /\ q.time = 0 /\ q.stats = x
  BY DEF Pending
<1>4. ~on => ~q.isPending
  BY DEF Pending, Cleared
<1>5. NewBus(idle, on) = b
  BY DEF NewBus, x
<1> HIDE DEF q
<1>6. b \in BusSet
  BY <1>1, <1>2 DEF BusSet
<1> QED BY <1>3, <1>4, <1>5, <1>6 DEF x

LEMMA BusInvInit == MCInit => BusInv
<1> SUFFICES ASSUME MCInit PROVE BusInv
  OBVIOUS
<1>1. /\ busType \in Modes /\ now = 0 /\ mode = [n \in Slots |-> busType]
      /\ carried = [d \in Dirs |-> [n \in Slots |-> Nothing]]
      /\ bus = [d \in Dirs |-> NewBus(IdlePattern[d], busType = "Bus")]
  BY DEF MCInit, DataBusInit
<1>2. Now = 0
  BY <1>1, SlotsAre DEF Now
<1>3. 0 \in Slots
  BY SlotsAre
<1>4. ASSUME NEW d \in Dirs
      PROVE  /\ bus[d] \in BusSet /\ bus[d].idle = IdlePattern[d] /\ bus[d].last_load <= Now
             /\ Tracks(bus[d], carried[d], mode, busType)
  <2> DEFINE i == IdlePattern[d]
             on == busType = "Bus"
             b == bus[d]
             w == carried[d]
  <2>1. i \in Pattern /\ on \in BOOLEAN /\ b = NewBus(i, on)
    BY <1>1, IdlePatterns
  <2> HIDE DEF b, i
  <2>2. /\ b \in BusSet /\ b.idle = i /\ b.stats = NoStats /\ b.burst = <<>>
        /\ b.load_time = 0 /\ b.last_load = 0 /\ b.last_pattern = i
        /\ (on => b.enableflag) /\ (~on => ~b.enableflag /\ ~b.pending.isPending)
        /\ on => /\ b.pending.isPending /\ b.pending.time = 0
                 /\ b.pending.stats = diff(i, i)
    <3> HIDE DEF on
    <3> QED BY <2>1, NewBusTyped
  <2>3. \A n \in Slots : Shown(w, i, n) = i
    BY <1>1 DEF Shown
  <2>4. ShownBefore(w, mode, i, 0) = i
    BY DEF ShownBefore
  <2>5. \A n \in Slots : n >= 0 => At(b, n) = i
    BY <2>2, SlotsAre, AtIdle
  <2>6. Stays(mode, busType, 0)
    BY <1>1 DEF Stays
  <2>7. Stored(b, mode)
    BY <2>2 DEF Stored
  <2>8. on => Holds(b, w, mode)
    BY <1>3, <2>2, <2>3, <2>4, <2>5 DEF Holds
  <2>9. Alike(b.stats, Total(Wave(w, mode, b.idle), 0, b.last_load), ~Late(mode))
    <3>1. 0 \in Nat
      OBVIOUS
    <3>2. Total(Wave(w, mode, b.idle), 0, 0) = NoStats
      BY <3>1, TotalSteps
    <3> QED BY <2>2, <3>2, AlikeItself
  <2>10. Tracks(b, w, mode, busType)
    BY <1>1, <2>2, <2>6, <2>7, <2>8, <2>9 DEF Tracks, Modes
  <2> QED BY <1>2, <2>2, <2>10 DEF b, i
<1>5. bus \in [Dirs -> BusSet]
  BY <1>1, <1>4
<1> QED BY <1>4, <1>5 DEF BusInv

\* What is on the lines after a call, before the slot of the call, is what was.
LEMMA LoadKeepsBuses ==
    ASSUME HandleInv, BusInv, NEW t \in now..MaxTime, NEW d \in Dirs, NEW burst \in Bursts,
           NEW given \in BOOLEAN, MCLoad(d, t, burst, given)
    PROVE  BusInv'
<1> DEFINE s == t * DataRate
<1>1. /\ s \in Nat /\ Now \in Nat /\ s \in Now..Last /\ Now <= s /\ s <= Last
      /\ Now' = s /\ busType' = busType /\ mode' = mode
      /\ busType \in Modes /\ mode \in ModeSet
      /\ burst \in Seq(Pattern)
      /\ carried \in [Dirs -> WaveSet] /\ bus \in [Dirs -> BusSet]
  BY CallSlot, SlotsAre, DataBusAssumption
     DEF MCLoad, Load, HandleInv, WaveTypes, BusInv, Now, DataBusAssumption, ModeSet, WaveSet
<1>2. ASSUME NEW e \in Dirs
      PROVE  /\ bus[e] \in BusSet /\ carried[e] \in WaveSet
             /\ bus[e].idle = IdlePattern[e] /\ bus[e].last_load <= Now
             /\ bus[e].last_load \in Nat
             /\ Tracks(bus[e], carried[e], mode, busType)
  BY <1>1, BusTyped DEF BusInv
<1>3. \/ busType = "Bus" /\ bus' = bus /\ carried' = carried
      \/ busType = "Bus" /\ burst = <<>> /\ bus' = bus
            /\ carried' = [carried EXCEPT ![d] = Play(@, s, burst)]
      \/ /\ busType = "Bus" /\ burst # <<>> /\ BusFree(d, s)
         /\ bus' = [bus EXCEPT ![d] = load(@, s, burst)]
         /\ carried' = [carried EXCEPT ![d] = Play(@, s, burst)]
      \/ /\ busType = "TogglingRate" /\ bus' = bus
         /\ carried' = [carried EXCEPT ![d] = Play(@, s, burst)]
  BY DEF MCLoad, Load, loadBus, loadHandle
<1> DEFINE b == bus[d]
           w == carried[d]
           w2 == Play(w, s, burst)
           Goes(x, v) == /\ x \in BusSet /\ x.idle = IdlePattern[d] /\ x.last_load <= s
                         /\ Tracks(x, v, mode, busType)
<1>4. b \in BusSet /\ w \in WaveSet /\ w2 \in WaveSet /\ \A n \in Slots : n < s => w2[n] = w[n]
  BY <1>1, <1>2, Played
<1> HIDE DEF s
<1>5. ASSUME NEW x, NEW v, Goes(x, v), bus' = [bus EXCEPT ![d] = x], carried' = [carried EXCEPT ![d] = v]
      PROVE  BusInv'
  <2>1. bus' \in [Dirs -> BusSet]
    BY <1>1, <1>5
  <2>2. ASSUME NEW e \in Dirs
        PROVE  /\ bus'[e].idle = IdlePattern[e] /\ bus'[e].last_load <= s
               /\ Tracks(bus'[e], carried'[e], mode, busType)
    <3>1. CASE e = d
      BY <1>1, <1>5, <3>1
    <3>2. CASE e # d
      <4>1. bus'[e] = bus[e] /\ carried'[e] = carried[e]
        BY <1>1, <1>5, <3>2
      <4> QED BY <1>1, <1>2, <4>1
    <3> QED BY <3>1, <3>2
  <2> QED BY <1>1, <2>1, <2>2 DEF BusInv
<1>6. Goes(b, w)
  BY <1>1, <1>2
<1>7. bus = [bus EXCEPT ![d] = b] /\ carried = [carried EXCEPT ![d] = w]
  BY <1>1
<1>8. CASE busType = "Bus" /\ bus' = bus /\ carried' = carried
  <2> HIDE DEF Goes, b, w
  <2> QED BY <1>5, <1>6, <1>7, <1>8
<1>9. CASE busType = "Bus" /\ burst = <<>> /\ bus' = bus
            /\ carried' = [carried EXCEPT ![d] = Play(@, s, burst)]
  <2>1. w2 = w
    <3>1. \A n \in Slots : n < s \/ n >= s + Len(burst)
      BY <1>1, <1>9, SlotsAre
    <3>2. \A n \in Slots : w2[n] = w[n]
      BY <1>1, <1>4, <3>1, Played
    <3> HIDE DEF w, w2
    <3> QED BY <1>4, <3>2 DEF WaveSet
  <2>2. carried' = [carried EXCEPT ![d] = w2]
    BY <1>9
  <2> HIDE DEF Goes, b, w, w2
  <2> QED BY <1>5, <1>6, <1>7, <1>9, <2>1, <2>2
<1>10. CASE /\ busType = "Bus" /\ burst # <<>> /\ BusFree(d, s)
            /\ bus' = [bus EXCEPT ![d] = load(@, s, burst)]
            /\ carried' = [carried EXCEPT ![d] = Play(@, s, burst)]
  <2> DEFINE x == load(b, s, burst)
  <2>1. b.last_load + Len(b.burst) <= s /\ (s > b.last_load \/ s = 0)
    BY <1>10 DEF BusFree
  <2>2. Tracks(b, w, mode, "Bus") /\ b.idle = IdlePattern[d]
    BY <1>2, <1>10
  <2>3. bus' = [bus EXCEPT ![d] = x] /\ carried' = [carried EXCEPT ![d] = w2]
    BY <1>10
  <2> HIDE DEF b, w
  <2>4. /\ x \in BusSet /\ x.idle = b.idle /\ x.last_load = s
        /\ Tracks(x, w2, mode, "Bus")
    BY <1>1, <1>4, <1>10, <2>1, <2>2, LoadTracks
  <2>5. Goes(x, w2)
    BY <1>1, <1>10, <2>2, <2>4
  <2> HIDE DEF Goes, x, w2
  <2> QED BY <1>5, <2>3, <2>5
<1>11. CASE /\ busType = "TogglingRate" /\ bus' = bus
            /\ carried' = [carried EXCEPT ![d] = Play(@, s, burst)]
  <2>1. Tracks(b, w, mode, "TogglingRate") /\ b.last_load \in Nat /\ b.last_load <= s
    BY <1>1, <1>2, <1>11
  <2>2. carried' = [carried EXCEPT ![d] = w2]
    BY <1>11
  <2> HIDE DEF b, w, w2
  <2>3. Tracks(b, w2, mode, "TogglingRate")
    <3>1. \A n \in Slots : n < b.last_load => w2[n] = w[n]
      BY <1>1, <1>4, <2>1, SlotsAre
    <3>2. b.last_load <= Last
      BY <1>1, <2>1, SlotsAre
    <3> QED BY <1>1, <1>4, <2>1, <3>1, <3>2, OffTracks
  <2>4. Goes(b, w2)
    BY <1>6, <1>11, <2>3
  <2> HIDE DEF Goes
  <2> QED BY <1>5, <1>7, <1>11, <2>2, <2>4
<1> QED BY <1>3, <1>8, <1>9, <1>10, <1>11 DEF s

LEMMA SwitchKeepsBuses ==
    ASSUME HandleInv, HandleInv', BusInv, NEW t \in now..MaxTime, MCSwitch(t)
    PROVE  BusInv'
<1> DEFINE s == t * DataRate
<1>1. /\ s \in Nat /\ Now \in Nat /\ s \in Now..Last /\ Now <= s /\ s <= Last
      /\ Now' = s /\ busType \in Modes /\ busType' \in Modes
      /\ mode \in ModeSet /\ mode' \in ModeSet
      /\ carried \in [Dirs -> WaveSet] /\ carried' \in [Dirs -> WaveSet]
  <2>1. s \in Nat /\ Now \in Nat /\ s \in Now..Last /\ Now <= s /\ s <= Last
    BY CallSlot, SlotsAre
  <2>2. Now' = s /\ busType' \in Modes
    BY DEF MCSwitch, enableBus, enableTogglingRate, Now, Modes
  <2>3. /\ busType \in Modes /\ mode \in ModeSet /\ mode' \in ModeSet
        /\ carried \in [Dirs -> WaveSet] /\ carried' \in [Dirs -> WaveSet]
    BY DEF HandleInv, WaveTypes, ModeSet, WaveSet
  <2> QED BY <2>1, <2>2, <2>3
<1>2. ASSUME NEW e \in Dirs
      PROVE  /\ bus[e] \in BusSet /\ carried[e] \in WaveSet /\ carried'[e] \in WaveSet
             /\ bus[e].idle = IdlePattern[e]
             /\ bus[e].last_load \in Nat /\ s > bus[e].last_load
             /\ Tracks(bus[e], carried[e], mode, busType)
  <2>1. bus[e] \in BusSet
    BY DEF BusInv
  <2>2. s > bus[e].last_load
    BY DEF MCSwitch, enableBus, enableTogglingRate, Switchable
  <2> QED BY <1>1, <2>1, <2>2, BusTyped DEF BusInv
<1>3. /\ \A n \in Slots : mode'[n] = IF n < s THEN mode[n] ELSE busType'
      /\ \A e \in Dirs, n \in Slots :
            carried'[e][n] = IF n < s \/ busType' = busType THEN carried[e][n] ELSE Nothing
  BY DEF MCSwitch
<1>4. /\ busType' = "Bus" => bus' = [e \in Dirs |-> enable(bus[e], s)]
      /\ busType' = "TogglingRate" => bus' = [e \in Dirs |-> disable(bus[e], s)]
  BY DEF MCSwitch, enableBus, enableTogglingRate
<1> HIDE DEF s
<1>5. ASSUME NEW d \in Dirs
      PROVE  /\ bus'[d] \in BusSet /\ bus'[d].idle = IdlePattern[d] /\ bus'[d].last_load <= s
             /\ Tracks(bus'[d], carried'[d], mode', busType')
  <2> DEFINE b == bus[d]
             w == carried[d]
             w2 == carried'[d]
  <2>1. /\ b \in BusSet /\ w \in WaveSet /\ w2 \in WaveSet /\ b.idle = IdlePattern[d]
        /\ b.last_load \in Nat /\ s > b.last_load /\ b.last_load <= s
        /\ Tracks(b, w, mode, busType)
    BY <1>1, <1>2
  <2>2. \A n \in Slots : w2[n] = IF n < s \/ busType' = busType THEN w[n] ELSE Nothing
    BY <1>3
  <2>3. /\ busType' = "Bus" => bus'[d] = enable(b, s)
        /\ busType' = "TogglingRate" => bus'[d] = disable(b, s)
    BY <1>4
  <2> HIDE DEF b, w, w2
  <2>4. CASE busType' = busType
    <3>1. w2 = w
      BY <2>1, <2>2, <2>4 DEF WaveSet
    <3>2. mode' = mode
      <4>1. \A n \in Slots : n >= s => mode[n] = busType
        BY <1>1, <2>1, SlotsAre DEF Tracks, Stays
      <4>2. \A n \in Slots : mode'[n] = mode[n]
        BY <1>1, <1>3, <2>4, <4>1, SlotsAre
      <4> QED BY <1>1, <4>2 DEF ModeSet
    <3>3. bus'[d] = b
      <4>1. CASE busType = "Bus"
        <5>1. b.enableflag
          BY <2>1, <4>1 DEF Tracks
        <5> QED BY <2>3, <2>4, <4>1, <5>1 DEF enable
      <4>2. CASE busType = "TogglingRate"
        <5>1. ~b.enableflag
          BY <2>1, <4>2 DEF Tracks
        <5> QED BY <2>3, <2>4, <4>2, <5>1 DEF disable
      <4> QED BY <1>1, <4>1, <4>2 DEF Modes
    <3> QED BY <2>1, <2>4, <3>1, <3>2, <3>3 DEF w2
  <2>5. CASE busType' # busType
    <3>1. \A n \in Slots : w2[n] = IF n < s THEN w[n] ELSE Nothing
      BY <2>2, <2>5
    <3>2. CASE busType = "TogglingRate"
      <4>1. busType' = "Bus"
        BY <1>1, <2>5, <3>2 DEF Modes
      <4>2. bus'[d] = enable(b, s)
        BY <2>3, <4>1
      <4>3. Turned(mode, mode', "Bus", s)
        BY <1>3, <4>1 DEF Turned
      <4>4. Tracks(b, w, mode, "TogglingRate")
        BY <2>1, <3>2
      <4>5. /\ enable(b, s) \in BusSet
            /\ enable(b, s).idle = b.idle /\ enable(b, s).last_load = s
            /\ Tracks(enable(b, s), w2, mode', "Bus")
        BY <1>1, <2>1, <3>1, <4>3, <4>4, EnableTracks
      <4> QED BY <1>1, <2>1, <4>1, <4>2, <4>5 DEF w2
    <3>3. CASE busType = "Bus"
      <4>1. busType' = "TogglingRate"
        BY <1>1, <2>5, <3>3 DEF Modes
      <4>2. bus'[d] = disable(b, s)
        BY <2>3, <4>1
      <4>3. Turned(mode, mode', "TogglingRate", s)
        BY <1>3, <4>1 DEF Turned
      <4>4. Tracks(b, w, mode, "Bus")
        BY <2>1, <3>3
      <4>5. \A n \in Slots : n < s => w2[n] = w[n]
        BY <3>1
      <4>6. /\ disable(b, s) \in BusSet
            /\ disable(b, s).idle = b.idle /\ disable(b, s).last_load = s
            /\ Tracks(disable(b, s), w2, mode', "TogglingRate")
        BY <1>1, <2>1, <4>3, <4>4, <4>5, DisableTracks
      <4> QED BY <1>1, <2>1, <4>1, <4>2, <4>6 DEF w2
    <3> QED BY <1>1, <3>2, <3>3 DEF Modes
  <2> QED BY <2>4, <2>5
<1>6. bus' \in [Dirs -> BusSet]
  <2>1. bus' = [d \in Dirs |-> bus'[d]]
    BY <1>1, <1>4 DEF Modes
  <2>2. \A d \in Dirs : bus'[d] \in BusSet
    BY <1>5
  <2> QED BY <2>1, <2>2
<1> QED BY <1>1, <1>5, <1>6 DEF BusInv

LEMMA BusInvStep == HandleInv /\ HandleInv' /\ BusInv /\ [MCNext]_<<vars, carried, mode>> => BusInv'
<1> SUFFICES ASSUME HandleInv, HandleInv', BusInv, [MCNext]_<<vars, carried, mode>> PROVE BusInv'
  OBVIOUS
<1>1. CASE MCNext
  <2>1. PICK t \in now..MaxTime :
            \/ MCSwitch(t)
            \/ \E d \in Dirs, burst \in Bursts, given \in BOOLEAN : MCLoad(d, t, burst, given)
    BY <1>1 DEF MCNext
  <2> QED BY <2>1, SwitchKeepsBuses, LoadKeepsBuses
<1>2. CASE UNCHANGED <<vars, carried, mode>>
  BY <1>2 DEF vars, BusInv, Now
<1> QED BY <1>1, <1>2

\* The inductive invariant: every bus has counted its waveform up to its last
\* load, and holds back or stores the rest (util/bus.h).
THEOREM BusInvHolds == MCSpec => []BusInv
BY BusInvInit, BusInvStep, HandleInvHolds, PTL DEF MCSpec

\* Whenever the statistics of a bus are asked, within a burst, between bursts or
\* after a change of mode, they are those of the waveform of its lines (Bus::load,
\* enable, disable and get_stats).
THEOREM BusesAreCounted == MCSpec => []BusCounted
<1>1. HandleInv /\ BusInv => BusCounted
  <2> SUFFICES ASSUME HandleInv, BusInv, NEW d \in Dirs, NEW t \in Askable
               PROVE  LET stats == get_stats(bus[d], t * DataRate)
                          wave == WaveStats(d, t * DataRate)
                      IN  /\ Transitions(stats) = Transitions(wave)
                          /\ SwitchedOn \/ stats = wave
    BY DEF BusCounted
  <2> DEFINE u == t * DataRate
             b == bus[d]
             w == carried[d]
  <2>1. u \in Nat /\ u \in Now..Last /\ Now \in Nat
    <3>1. now \in Nat
      BY SlotsAre DEF HandleInv, WaveTypes
    <3> QED BY <3>1, AskedSlot, SlotsAre DEF Now
  <2>2. /\ b \in BusSet /\ w \in WaveSet /\ mode \in ModeSet /\ busType \in Modes
        /\ b.idle = IdlePattern[d] /\ b.last_load <= Now
        /\ Tracks(b, w, mode, busType)
    BY DEF HandleInv, WaveTypes, BusInv, WaveSet, ModeSet
  <2>3. WaveStats(d, u) = Total(Wave(w, mode, IdlePattern[d]), 0, u)
    BY DEF WaveStats, Wave, Line, LineBefore, Shown, ShownBefore
  <2>4. SwitchedOn <=> Late(mode)
    BY DEF SwitchedOn, Late
  <2> HIDE DEF u, b, w
  <2>5. u >= b.last_load /\ u <= Last
    <3>1. b.last_load \in Nat
      BY <2>2, BusTyped
    <3> QED BY <2>1, <2>2, <3>1, SlotsAre
  <2>6. Alike(get_stats(b, u), Total(Wave(w, mode, b.idle), 0, u), ~Late(mode))
    BY <2>1, <2>2, <2>5, GetStatsIs
  <2>7. Alike(get_stats(b, u), WaveStats(d, u), ~Late(mode))
    BY <2>2, <2>3, <2>6
  <2>8. Transitions(get_stats(b, u)) = Transitions(WaveStats(d, u))
    BY <2>7 DEF Alike, Transitions
  <2>9. SwitchedOn \/ get_stats(b, u) = WaveStats(d, u)
    BY <2>4, <2>7 DEF Alike
  <2> QED BY <2>8, <2>9 DEF u, b
<1> QED BY <1>1, HandleInvHolds, BusInvHolds, PTL
=============================================================================
