--------------------------------- MODULE DBI ---------------------------------
(***************************************************************************)
(* util::DBI with the algorithm StaticDBI: chunks of the data are inverted *)
(* when that brings more bits to the idle level.  A burst is a sequence of *)
(* entries (bytes), an entry the set of its bits that are 1; a chunk is    *)
(* one or more entries.  The last beat of the burst before, which the      *)
(* class saves as well, is read by the algorithm DynamicDBI only, and no   *)
(* standard uses that.                                                     *)
(***************************************************************************)
EXTENDS Bus, FiniteSetsExt

CONSTANT Bits   \* the bits of an entry

\* width: the chunks of a beat, each with a pin of its own; 0 is no width.
DBIConfig(width, subchunks, idle) == [width |-> width, subchunks |-> subchunks, idle |-> idle]

\* LastBurst_t, of one direction: inversions is what the vector has storage for,
\* size what it says of itself.
NoBurst == [init |-> FALSE, end |-> 0, chunks |-> 0, size |-> 0, inversions |-> <<>>]

NumChunks(data, config) == Len(data) \div config.subchunks
ChunkOf(i, config) == (i - 1) \div config.subchunks + 1

invertChunk(data, inverted, config) ==
    [i \in DOMAIN data |-> IF inverted[ChunkOf(i, config)] THEN Bits \ data[i] ELSE data[i]]

\* StaticDBI::computeDBI.  SubChunkView::last holds at the first entry of a
\* chunk, so the decision counts what follows the first entry of the chunk
\* before, as it was inverted, and the first entry of this one.
Inversions(data, config) ==
    LET first(k) == (k - 1) * config.subchunks + 1
        seen(k) == {i \in DOMAIN data : i <= first(k) /\ i > first(k) - config.subchunks}
        inverted[k \in 1..NumChunks(data, config)] ==
            LET level(i) == IF i < first(k) /\ inverted[k - 1] THEN Bits \ data[i] ELSE data[i]
                ones == MapThenSumSet(LAMBDA i : Cardinality(level(i)), seen(k))
                zeros == Cardinality(seen(k)) * Cardinality(Bits) - ones
            IN  IF config.idle THEN ones < zeros ELSE zeros < ones
    IN  inverted

\* A burst that follows after a gap, before which the pins go back to idle.
NotSeamless(last, t) == last.init /\ t > last.end

LastBeat(last, config) == (last.chunks - config.width + 1)..last.chunks

\* dispatchResetCallback: the pins that are told so, in the order of the chunks.
\* Without a width there is no callback either.
ResetPins(last, t, config) ==
    {p \in 1..config.width :
        NotSeamless(last, t) /\ last.inversions[last.chunks - config.width + p]}

Reset(last, t, config) ==
    IF NotSeamless(last, t) /\ config.width # 0
    THEN [last EXCEPT !.inversions =
             [k \in DOMAIN @ |-> @[k] /\ k \notin LastBeat(last, config)]]
    ELSE last

\* updateDBI and LastBurst_t::update.  The vector of the inversions is resized
\* only if its capacity is too small, which it is just once: it then holds 64.
Updated(last, t, data, config, burstLength) ==
    LET n == NumChunks(data, config)
        before == Reset(last, t, config)
        inverted == Inversions(data, config)
        stored == Len(before.inversions)
    IN  [init |-> TRUE,
         end |-> t + (IF config.width = 0 THEN burstLength ELSE Len(data) \div config.width),
         chunks |-> n,
         size |-> IF before.inversions = <<>> THEN n ELSE before.size,
         inversions |-> [k \in 1..(IF n < stored THEN stored ELSE n) |->
                            IF k <= n THEN inverted[k] ELSE before.inversions[k]]]

\* serialize and deserialize: only what the vector says it holds; of the rest the
\* new vector has the storage but has written nothing to it.
RestoredBurst(last, rest) ==
    [last EXCEPT !.inversions = [k \in DOMAIN @ |-> IF k <= last.size THEN @[k] ELSE rest]]
-----------------------------------------------------------------------------
(* util::Pin: one line beside a data bus, here that of a chunk.  It is set *)
(* once for every beat of a burst, each time with the time the burst is    *)
(* loaded at; the levels set with one time are the burst, and between      *)
(* bursts the line is idle.  TRUE is high.  Times are in slots.            *)

\* Its state before the first burst, and between bursts, is idle.
NewPin(idle) ==
    [last_state |-> idle, idle |-> idle, init_load |-> TRUE, last_set |-> 0,
     burst |-> <<>>, load_time |-> 0,   \* m_burst_storage
     pending |-> Cleared(Pending(0, NoStats)), stats |-> NoStats]

PinEnd(pin) == pin.load_time + Len(pin.burst)

\* getPinChangeStats
Change(from, to) ==
    [NoStats EXCEPT !.ones_to_zeroes = IF from /\ ~to THEN 1 ELSE 0,
                    !.zeroes_to_ones = IF ~from /\ to THEN 1 ELSE 0]

Held(level, slots) ==
    IF level THEN [NoStats EXCEPT !.ones = slots] ELSE [NoStats EXCEPT !.zeroes = slots]

\* burst_storage::count: the first n beats of the burst.
BeatStats(burst, n) ==
    LET change(i) == IF i = 1 THEN NoStats ELSE Change(burst[i - 1], burst[i])
    IN  Total([i \in DOMAIN burst |-> Plus(Held(burst[i], 1), change(i))], 1, n + 1)

\* count: the slots from last_set to end.
CountedTo(pin, end) ==
    LET over == PinEnd(pin)
        beats == IF end < over THEN end - pin.last_set ELSE Len(pin.burst)
    IN  IF end <= pin.last_set THEN NoStats
        ELSE IF over <= pin.last_set THEN Held(pin.idle, end - pin.last_set)
        ELSE IF end <= over THEN BeatStats(pin.burst, beats)
        ELSE Plus(BeatStats(pin.burst, beats),
                  Plus(Change(pin.burst[Len(pin.burst)], pin.idle), Held(pin.idle, end - over)))

\* The transition into the first beat is counted once its slot is over.
DueStats(pin, t) ==
    IF pin.pending.isPending /\ pin.pending.time < t THEN pin.pending.stats ELSE NoStats

InitStats(pin, t) ==
    IF pin.init_load /\ t > 0 THEN Change(pin.last_state, pin.idle) ELSE NoStats

\* get_stats_at; set_internal adds the same.
PinStats(pin, t) ==
    IF t = pin.last_set THEN pin.stats
    ELSE Plus(pin.stats, Plus(InitStats(pin, t), Plus(DueStats(pin, t), CountedTo(pin, t))))

\* A faulty variant of LevelBefore: the line is always idle before a burst.
IdleBefore(pin, t) == pin.idle

\* What the line carries before a burst that begins at t.
LevelBefore(pin, t) ==
    IF t = pin.last_set + Len(pin.burst) \/ (pin.init_load /\ t = 0) THEN pin.last_state
    ELSE pin.idle

\* set; push_back starts a new burst when the time differs.
set(pin, t, level) ==
    LET begins == t # pin.last_set \/ pin.init_load
    IN  [pin EXCEPT
            !.stats = PinStats(pin, t),
            !.pending = IF begins THEN Pending(t, Change(LevelBefore(pin, t), level))
                        ELSE IF @.time < t THEN Cleared(@) ELSE @,
            !.burst = IF t # pin.load_time THEN <<level>> ELSE Append(@, level),
            !.load_time = t, !.last_set = t, !.last_state = level, !.init_load = FALSE]

\* A faulty variant of RestoredPin: the transition into the burst is left out.
RestoredWithoutPending(new, pin) ==
    [new EXCEPT !.last_state = pin.last_state, !.init_load = pin.init_load, !.last_set = pin.last_set,
                !.burst = pin.burst, !.load_time = pin.load_time, !.stats = pin.stats]

\* serialize, and deserialize into a new pin, which has the idle level.
RestoredPin(new, pin) ==
    [new EXCEPT !.last_state = pin.last_state, !.init_load = pin.init_load, !.last_set = pin.last_set,
                !.burst = pin.burst, !.load_time = pin.load_time,
                !.pending = RestoredPending(pin.pending), !.stats = pin.stats]
=============================================================================
