------------------------------- MODULE DataBus -------------------------------
(***************************************************************************)
(* util::DataBus: the data lines of a memory, one bus for each direction.  *)
(* What is counted of them is taken from the data (mode Bus), or estimated *)
(* from the length of the bursts (mode TogglingRate); the mode may change  *)
(* while the simulation runs.  The caller's times do not go back, and it   *)
(* keeps to the assertions of the code.                                    *)
(***************************************************************************)
EXTENDS Bus, TogglingHandle

CONSTANTS
    Dirs,           \* the directions: read and write
    DataRate,       \* slots per clock cycle
    IdlePattern,    \* what the lines carry between bursts, by direction
    TogglingRate, DutyCycle,    \* in quarters, by direction
    Bursts,         \* bound: the bursts that are loaded
    MaxTime         \* bound: the last clock cycle with a call

Modes == {"Bus", "TogglingRate"}

ASSUME DataBusAssumption ==
    /\ DataRate \in Nat \ {0}
    /\ IdlePattern \in [Dirs -> {{}, Lines}]
    /\ TogglingRate \in [Dirs -> 0..4] /\ DutyCycle \in [Dirs -> 0..4]
    /\ Bursts \subseteq Seq(Pattern)
    /\ MaxTime \in Nat

VARIABLES
    bus, handle,    \* busRead and busWrite, togglingHandleRead and -Write
    busType,
    now             \* the time of the last call

vars == <<bus, handle, busType, now>>

DataBusInit ==
    /\ busType \in Modes
    /\ bus = [d \in Dirs |-> NewBus(IdlePattern[d], busType = "Bus")]
    /\ handle = [d \in Dirs |-> NewHandle(busType = "TogglingRate")]
    /\ now = 0

\* The assertions of load, of at (the slot before the load is not in the past
\* either) and of incCountBurstLength.
BusFree(d, s) == bus[d].last_load + Len(bus[d].burst) <= s /\ (s > bus[d].last_load \/ s = 0)
HandleFree(d, s) == handle[d].handled \/ handle[d].last_load + handle[d].last_length <= s

loadBus(d, s, burst, given) ==
    /\ busType = "Bus"
    /\ IF given /\ burst # <<>>
       THEN BusFree(d, s) /\ bus' = [bus EXCEPT ![d] = load(@, s, burst)]
       ELSE UNCHANGED bus
    /\ UNCHANGED handle

loadHandle(d, s, burst) ==
    /\ busType = "TogglingRate" /\ HandleFree(d, s)
    /\ handle' = [handle EXCEPT ![d] = incCountBurstLength(@, s, Len(burst))]
    /\ UNCHANGED bus

\* loadRead and loadWrite; a command may come without its data.
Load(d, t, burst, given) ==
    /\ t >= now /\ now' = t
    /\ loadBus(d, t * DataRate, burst, given) \/ loadHandle(d, t * DataRate, burst)
    /\ UNCHANGED busType

\* A bus is not switched in a slot it was loaded or switched in.
Switchable(s) == \A d \in Dirs : s > bus[d].last_load

enableBus(t) ==
    /\ t >= now /\ now' = t /\ Switchable(t * DataRate)
    /\ bus' = [d \in Dirs |-> enable(bus[d], t * DataRate)]
    /\ handle' = [d \in Dirs |-> disableHandle(handle[d], t * DataRate)]
    /\ busType' = "Bus"

enableTogglingRate(t) ==
    /\ t >= now /\ now' = t /\ Switchable(t * DataRate)
    /\ bus' = [d \in Dirs |-> disable(bus[d], t * DataRate)]
    /\ handle' = [d \in Dirs |-> enableHandle(handle[d], t * DataRate)]
    /\ busType' = "TogglingRate"

\* serialize, and deserialize into a new data bus.
RestoreDataBus ==
    /\ bus' = [d \in Dirs |-> RestoredBus(NewBus(IdlePattern[d], TRUE), bus[d])]
    /\ handle' = [d \in Dirs |-> RestoredHandle(NewHandle(FALSE), handle[d])]
    /\ UNCHANGED <<busType, now>>
=============================================================================
