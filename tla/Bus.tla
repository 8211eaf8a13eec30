--------------------------------- MODULE Bus ---------------------------------
(***************************************************************************)
(* util::Bus: the statistics of a bus, kept while bursts are loaded on it. *)
(* Between bursts the lines carry the idle pattern.  Times are in slots of *)
(* the bus (the virtual timestamps: clock cycles times the data rate).     *)
(* stats is what was counted before last_load; the slot of last_load       *)
(* itself, its transition included, is held back as pending statistics.    *)
(***************************************************************************)
EXTENDS Integers, Sequences, FiniteSets

CONSTANT Lines   \* the lines of the bus; its width is their number

ASSUME LinesAssumption == IsFiniteSet(Lines)

--------------------------------------------------------------------------------
(* bus_stats_t: what is counted of the lines of a bus.  A pattern is the   *)
(* set of the lines that are high.  bit_changes is the sum of the two      *)
(* kinds of transitions and is left out.                                   *)

Pattern == SUBSET Lines
Stats == [ones : Nat, zeroes : Nat, ones_to_zeroes : Nat, zeroes_to_ones : Nat]

NoStats == [ones |-> 0, zeroes |-> 0, ones_to_zeroes |-> 0, zeroes_to_ones |-> 0]

Plus(a, b) == [f \in DOMAIN NoStats |-> a[f] + b[f]]
Times(n, a) == [f \in DOMAIN NoStats |-> n * a[f]]

\* The sum over the slots from first on, before end.
Total(stats, first, end) ==
    LET upto[n \in Nat] == IF n <= first THEN NoStats ELSE Plus(upto[n - 1], stats[n - 1])
    IN  upto[end]

\* One slot of time, in which the lines carry low after high.
diff(high, low) ==
    [ones |-> Cardinality(low), zeroes |-> Cardinality(Lines) - Cardinality(low),
     ones_to_zeroes |-> Cardinality(high \ low),
     zeroes_to_ones |-> Cardinality(low \ high)]
--------------------------------------------------------------------------------
(* The bus.                                                                *)

idle_stats(bus) == diff(bus.idle, bus.idle)

Pending(t, s) == [isPending |-> TRUE, time |-> t, stats |-> s]
Cleared(p) == [p EXCEPT !.isPending = FALSE]

\* idle is idle_pattern_burst.  virtual_disable_timestamp is read by assertions
\* only, when it equals last_load.
NewBus(idle, enabled) ==
    [idle |-> idle, stats |-> NoStats,
     burst |-> <<>>, load_time |-> 0,   \* burst_storage
     last_load |-> 0, enableflag |-> enabled,
     pending |-> IF enabled THEN Pending(0, diff(idle, idle)) ELSE Cleared(Pending(0, NoStats)),
     last_pattern |-> idle]

\* burst_storage.endTime()
EndTime(bus) == bus.load_time + Len(bus.burst)

\* What the lines carry in slot n.  The storage hands out the last pattern it
\* was given first; a slot before last_load is idle (the difference wraps).
At(bus, n) ==
    IF n < bus.last_load \/ n - bus.last_load >= Len(bus.burst) THEN bus.idle
    ELSE bus.burst[Len(bus.burst) - (n - bus.last_load)]

\* The slots of the burst before end, without its first.
BurstStats(bus, end) ==
    Total([n \in Nat |-> diff(At(bus, n - 1), At(bus, n))], bus.last_load + 1, end)

BurstToIdle(bus) ==
    IF EndTime(bus) > 0 THEN diff(At(bus, EndTime(bus) - 1), At(bus, EndTime(bus)))
    ELSE NoStats

\* What advance_stats adds: the slots between last_load and t.
advance_stats(bus, t) ==
    LET end == EndTime(bus)
        burst == BurstStats(bus, IF end <= t THEN end ELSE t)
    IN  IF t <= end THEN burst
        ELSE Plus(burst, Plus(BurstToIdle(bus), Times(t - end - 1, idle_stats(bus))))

\* A faulty variant of Counted: the pending statistics are not cleared.
CountedAgain(bus, t) ==
    [bus EXCEPT
        !.stats = Plus(Plus(@, IF bus.pending.isPending THEN bus.pending.stats ELSE NoStats),
                       advance_stats(bus, t)),
        !.last_pattern = IF t > 0 THEN At(bus, t - 1) ELSE @]

\* add_previous_stats
Counted(bus, t) ==
    LET due == bus.pending.isPending /\ bus.pending.time < t
    IN  [bus EXCEPT
            !.stats = Plus(Plus(@, IF due THEN bus.pending.stats ELSE NoStats),
                           advance_stats(bus, t)),
            !.pending = IF due THEN Cleared(@) ELSE @,
            !.last_pattern = IF t > 0 THEN At(bus, t - 1) ELSE @]

\* add_data, to a bus whose statistics are up to t.
Loaded(bus, t, burst) ==
    LET new == [bus EXCEPT !.burst = burst, !.load_time = t, !.last_load = t]
    IN  [new EXCEPT !.pending = Pending(t, diff(bus.last_pattern, At(new, t))),
                    !.last_pattern = IF burst = <<>> THEN @ ELSE burst[1]]

\* Its assertion that the burst before is over is the caller's to keep.
load(bus, t, burst) ==
    IF bus.enableflag THEN Loaded(Counted(bus, t), t, burst) ELSE bus

disable(bus, t) ==
    IF bus.enableflag
    THEN [Counted(bus, t) EXCEPT !.burst = <<>>, !.load_time = 0,
                                 !.last_load = t, !.enableflag = FALSE]
    ELSE bus

\* The end of the burst storage stays 0.
enable(bus, t) ==
    IF bus.enableflag THEN bus
    ELSE [bus EXCEPT !.last_load = t, !.pending = Pending(t, idle_stats(bus)), !.enableflag = TRUE]

\* The statistics of the slots before t.
get_stats(bus, t) ==
    LET due == bus.pending.isPending /\ bus.pending.time < t
        counted == IF due THEN Plus(bus.stats, bus.pending.stats) ELSE bus.stats
    IN  IF t = 0 THEN bus.stats
        ELSE IF bus.enableflag THEN Plus(counted, advance_stats(bus, t)) ELSE counted

\* What serialize writes of a pending statistic, and of a burst storage.
RestoredPending(p) == [isPending |-> p.isPending, time |-> p.time, stats |-> p.stats]

\* serialize, and deserialize into a new bus, which has the idle pattern.
RestoredBus(new, bus) ==
    [new EXCEPT !.stats = bus.stats, !.burst = bus.burst, !.load_time = bus.load_time,
                !.last_load = bus.last_load, !.enableflag = bus.enableflag,
                !.pending = RestoredPending(bus.pending), !.last_pattern = bus.last_pattern]
=============================================================================
