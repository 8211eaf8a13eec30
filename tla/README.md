# DRAMPower in TLA+

DRAMPower computes the energy of a DRAM from a trace of commands. It does so from
statistics: for how many cycles each rank and bank was in which power state (the
*cores*), and how often the lines of the interface toggled (the *buses, pins and
clocks*). The energy is arithmetic over these numbers. This directory models what
makes the numbers right or wrong: a sequential program whose events do not happen
in the order of its calls, because a command makes other things happen later (the
end of a refresh, an auto-precharge, a delayed power-down), because every count is
kept incrementally, and because an object can be saved, restored and switched
between two ways of counting at any time.

Paths below are relative to `src/src/DRAMPower/DRAMPower/` unless they start with
`src/` or are in the command line tool.

## 1. Inventory

| component | state | operations | models |
|---|---|---|---|
| Interval counter (`util/cycle_stats.h`) | count, start, end | start, start if not running, close, reset, count at a time | `IntervalCounter` |
| Implicit command handler (`util/ImplicitCommandHandler.h`) | a list of (time, command), sorted | add, process up to a time, size | `ImplicitCommandHandler`, `CoreState` |
| Ranks and banks (`dram/Rank.*`, `dram/Bank.h`) | memory state, intervals, counters, bank state, ends of refreshes | isActive | `CoreState` |
| Cores (`standards/*/*Core.cpp`) | ranks, implicit commands, time of the last command | one handler per command, one per delayed command, doCommand, getWindowStats, serialize, deserialize | `CoreHandlers`, `BankwiseCore`, `DDR4Core`, `DDR5Core`, `LPDDR4Core`, `LPDDR5Core`, `LPDDR6Core`, `CoreStats` |
| Cycle statistics (`data/stats.h`) | a record per rank and bank | sums | `PowerStates` (their meaning), `CoreStats` |
| Memory controller (outside; `src/README.md`) | none | sends commands | `ValidTrace` |
| Buses (`util/bus.h`, `util/burst_storage.h`, `util/pending_stats.h`) | the last burst, where it ends, the last pattern, statistics so far, pending ones | load, getStats, enable, disable | `Bus` |
| Data bus (`util/databus.h`, `dram/Interface.*`) | a bus and a toggling handle, one of which counts, for each direction | load, mode switch, estimate | `TogglingHandle`, `DataBus` |
| Pins and DBI (`util/pin.h`, `util/dbi.h`) | the last burst of each direction and its inversions; the burst of a pin | updateDBI, reset, set, getStats | `DBI` |
| Clocks (`util/clock.h`) | running since, counts | start, stop, stats at a time | `Clock` |
| Command patterns (`command/Pattern.*`, `util/PatternHandler.h`) | settings that override bits, the burst length (LPDDR6) | encode, update and remove settings | `CommandPattern` |
| Interfaces (`standards/*/*Interface.cpp`) | buses, strobes, DBI, encoder, where the last burst of a rank ended | one handler per command, end of simulation, switches of DBI and metadata, getWindowStats, serialize | `Interface`, `DDR4Interface` to `LPDDR6Interface` |
| Front ends (`dram/dram_base.h`, `standards/*/*.cpp`), extensions | core, interface, extensions | doCommand, doCoreCommand, doInterfaceCommand, getStats, the extensions DBI and metadata, serialize | `Dram` |
| Serialization (`util/Serialize.h`) | none | serialize, deserialize | in `CoreStats`, `Interface`, `Dram` |
| Energy (`data/energy.*`, `standards/*/core_calculation_*`, `interface_calculation_*`) | none | the formulas | `CoreEnergy`, `InterfaceEnergy` |
| Memory specifications (`memspec/*`) | none | constructors | `MemSpec` |
| Configuration (`simconfig/simconfig.h`) | none | parsed values | in `Interface`, `CommandLine` |
| Command line tool (`src/src/cli`) | arguments, files, trace, exit code | the steps of main | `CommandLine` |
| CSV reader, argument and JSON parsers | | | not modelled (section 6) |

**Interactions.** The tool reads a trace and drives a front end. A front end hands
each command with its time to its core and then to its interface; the two share no
state, and a program may drive them one by one. `doCommand(t)` of a core first
executes every implicit command due by `t`, moving the core's last command time to
each of them, then the handler of the command; handlers change ranks and banks, or
add implicit commands that capture references to the rank and bank.
`getWindowStats(t)` also processes the queue and then reads the interval counters.
An interface encodes the command and loads the result on the command bus; reads and
writes go to the data bus, with DBI first, which calls back into the pins, and to the
strobes. The energy calculation reads the statistics of both. Extensions call back
into the interface of the front end they were registered with.

**What is hard.** Nothing here is concurrent and little fails by itself. What is hard
is order: implicit commands interleave with explicit ones at equal times; delayed
entries are overtaken by their exits; intervals are cut by a power-down and have to be
started again, for the right banks; several banks keep the one interval of their rank
running; two ranks share a queue; the transitions into a burst are held back until it
is known what follows; a bus is counted, estimated, and counted again; pins are set
back only if the next burst leaves a gap; counts are unsigned and computed as
differences, so a cycle counted twice shows up as a huge number elsewhere; an image
leaves some of the state out. The hazards are listed, each at its line, in
`PROJECT.json`.

**What makes it correct.** The cycles reported of a rank or bank are the time it spent
in each power state, and these times add up to the simulated time; the queue is
executed in the order of its times, each entry at its own time and none late; a
power-down or self-refresh does not begin before the refreshes it waits for have ended;
a bus, pin or strobe has counted, whenever it is asked, what its waveform shows; a
reader who undoes DBI gets the data; the energy is that of the power states and
waveforms, nothing twice and nothing left; a restored object goes on as the saved one;
the tool gives the result of the whole trace or none.

## 2. Modules

    cores
      IntervalCounter   ImplicitCommandHandler
                \          /
                 CoreState         state, calls, the loop over implicit commands
                 /       \
          ValidTrace    CoreStats  statistics and image of a core
              |                    (ValidTrace: what a memory controller sends)
         CoreHandlers              what handlers of all standards are made of
           /       \
      DDR4Core   BankwiseCore      what the other four do alike
                  /   |    |    \
           DDR5Core LPDDR4Core LPDDR5Core LPDDR6Core

      PowerStates      abstract specification: power states and residencies
      CoreProperties   properties of a core, and its refinement of PowerStates
      NaturalLemmas, CoreLemmas, BusLemmas                           lemmas
      AnyCoreProofs, DDR4CoreProofs, DataBusProofs,                  proofs
      InterfaceProofs, ToolProofs

    interfaces
      Bus              the statistics of lines by slot, and a bus that counts them
       |  \
       |  TogglingHandle           estimating them
       |   |
      DBI DataBus   Clock   CommandPattern
        \    |        |       /
               Interface           what the interfaces have in common
          /     |      |      |     \
      DDR4-  DDR5-  LPDDR4- LPDDR5- LPDDR6Interface

    around them
      CoreEnergy, InterfaceEnergy  the formulas
      MemSpec -- Dram -- CommandLine      data sheets, front ends, the tool

    for TLC
      MCAnyCore                    the cores of all standards in one specification
      MCDDR4Core, MCBankwiseCore   the DDR4 core, and the other four, with their properties
      MCCoreEnergy                 cores, energy, and a meter of the power states
      MCDataBus                    a data bus beside the waveform of its lines
      MCInterface                  interfaces and energy beside the commands sent
      MCTool                       the users of the front ends

**Cores: state.** `rank` and `bank` are the fields of `Rank` and `Bank`, an
`interval_counter` a record of count, start and end (`NoTime` for an empty optional),
`queue` the list of the implicit command handler and `last` the core's
`m_last_command_time`. A lambda in the queue is a record that names its body and what it
captured. `now` is the time up to which events have happened; it is the only variable
without a counterpart in the code.

**Cores: steps.** A call of the program is several steps: `Call(t)` fixes its time,
`ExecuteImplicit` is one iteration of `processImplicitCommandQueue`, `Serve` the rest of
the call, the handler of one command or the reading of statistics. A handler `h` of the
code is the action `h`; the body of the lambda it queues is `hLater`. The loop does not
depend on the command, so the command is chosen at the end. Loops over the banks of a
rank are functions over the banks. `Restore` saves a core and restores it into a new one,
between two calls and with an empty queue, as `isSerializable` demands.

**Data bus.** `bus` and `handle` are the two `Bus` and two `TogglingHandle` members, as
records with the fields of the code; each operation on them is an operator from record to
record, and the actions of `DataBus` are its `loadRead` and `loadWrite` (`Load`),
`enableBus` and `enableTogglingRate`. A pattern is the set of the lines that are high;
times inside a bus are slots, `DataRate` of them to a clock cycle. Rates are quarters,
which doubles hold exactly, so that the rounding of the estimate is that of the code.

**Interfaces.** One action per handler; every interface is a composition of the records
of `Bus`, `DataBus`, `DBI`, `Clock` and `CommandPattern`, and the operators of
those modules are its steps. A command is a record with its type, time, rank, address (a
set of the descriptors whose bit is 1) and data (a sequence of entries, an entry being
one chunk of a beat as the set of its bits that are 1). `MCInterface` chooses a standard
at the start and keeps the commands sent as a history; each property computes what the
lines carry from that history, as a whole, and compares it with what the interface has
counted step by step.

**Energy.** Currents, voltages, powers and times are integers so chosen that every division
is exact (`ExactDivision`, `ExactPeriods` are checked as assumptions). The calculations are
operators from statistics to energies, in the order and with the signs of the code.

**Front ends and tool.** In `Dram` a core and an interface are abstracted to the commands
they executed, in order, and an implicit queue to the time its last entry is due; what
they count is the business of the other modules. A call either does its work, throws
between core and interface, or aborts in a debug build. `CommandLine` has one action for
each step of `main`; files are a function from paths to what is there, links included.
A row of a trace is what the code tells apart in it: the number of its columns, whether
its time is a number, its name, its bank and the digits of its data.

**Abstracted.** References into ranks are their indices. In the cores, assertions are those
of a release build, compiled away: `DDR4Core.cpp:212`, for one, asserts that a power-down
to be left has been entered, and the code after it handles the case that it has not.
`Dram` has both builds. Counters that no formula reads are left out, as are
`interval_counter` statistics that the code never reads, and `bit_changes`, the sum of both
kinds of transitions.

**Environment.** Calls come in the order of their times (the code asserts or assumes it
everywhere). With `ValidOnly` the commands respect the states of rank and bank, as the
Disclaimer of `src/README.md` expects of a trace; minimal distances are not demanded, so
these traces are denser than real ones and reach more orders. Without it, any command
comes at any time. `EarlyExits` lets a power-down be left before its delayed entry, which
the tests do (`src/tests/tests_drampower/core/DDR4/ddr4_test_pattern_15.cpp`). `PowerDowns`
tells what is demanded of an entry into active power-down: `settled` that no bank
closes at that time or later, without which the bankwise cores reopen too many banks (run
`lpddr4_reopen`); `open` that a bank is open, as `DDR4Core.cpp:230` says, without which
LPDDR6 counts a rank as active that is not. `b1 # b2` in a dual-bank refresh comes from the
command's definition. A data bus is used as its assertions demand: bursts of one direction
do not overlap, and nothing is loaded or switched in a slot in which the bus was already
loaded or switched.

**Fairness.** `FairSpec` is weakly fair in the steps of a running call: the program is
sequential and nothing holds up a call. No fairness is assumed of the user.
`CHECK_DEADLOCK FALSE` is set because a behaviour ends after the calls it may make, or when
the tool exits.

## 3. Runs

Bounds of the cores: `MaxTime` is the latest time of a call, `MaxCalls` the number of calls,
`NumRanks`, `NumBanks` the sizes. Timings are as small as their order allows: tRCD, tRAS >
tRP, tRFC longer than all of them, so that a refresh outlasts the other delays and a call
can fall before, at and after each of its ends. A power state is entered and left, with
something to reopen, in four commands; a fifth adds another bank or an overtaking. Two banks
suffice for "the last active bank of a rank", two ranks for one disturbing the other, two
groups of two banks for the index arithmetic of groups.

| run | instance | what it shows |
|---|---|---|
| `any_core` | all standards, 2 banks, 3 calls, any commands | `TypeOK`; `QueueInOrder`: the queue is sorted and nothing in it is late; `CountsWithinTime`: no interval counts more than the time that passed; `LastNeverDecreases`; `RestoreChangesNothing`: a core saved when it is serializable, and restored, is the same; `CallReturns` (liveness). Commands that throw (REFP2B on an architecture without it) are included. |
| `ddr4_valid` | 2 banks, 5 calls, valid traces | `StateMatchesIntervals`, `BankActiveCounted`, `RankActiveCounted`: exactly the right intervals run; `EveryRowClosedOnce`; `SelfRefreshWithBanksClosed`; `ExitAfterEntry`; `PowerDownAfterRefresh`; `ReportsPowerStates`: the core implements `PowerStates`. |
| `ddr5_valid` | 2 groups of 2 banks, 4 calls | `BankActiveCounted`, `ReportsPowerStates`; `RefreshesSameBank`: a same-bank refresh meets one bank of each group. |
| `lpddr_valid` | LPDDR4 and LPDDR5 with 1 rank of 2 banks and 5 calls until cycle 6, LPDDR6 with 2 ranks, one call and one cycle less | `StateMatchesIntervals`, `RankActiveCounted`, `SelfRefreshWithBanksClosed`, `PowerDownAfterRefresh`, `ReportsPowerStates`, with refresh per bank, of two and of dual banks, deep sleep, and two ranks on one queue. Commands that the three handle alike are left to one or two of them. |
| `data_bus` | 2 directions with different idle patterns, 2 lines, 2 slots a cycle, calls until cycle 4, bursts of 0, 2 and 3 slots, either mode at the start | `BusCounted`: whenever asked, within a burst, between bursts or after a switch, a bus has counted the transitions of its waveform, and its ones and zeroes unless it was switched on late; `HandleCounted`: busy and idle slots of the toggling handle, across switches that cut bursts short; `EstimateCoversSlots`: the estimate loses at most one slot of a line to rounding. |
| `interface` | all standards, 3 calls after the settings, beats of 2 entries of 3 bits, 2 ranks, up to 3 cycles between commands (LPDDR4: 0, 4 or 5) | `CommandBusCounted`: every command is encoded as if it were the only one, whatever the overrides of bursts before it; `PinCounted`, `DataRecovered`: the pins of DBI show what the data bus inverts, and undoing it gives the data; `StrobesCounted`: the strobes and the write clock run for the bursts, each at its own rate (those of DDR5 at `dqsBusRate`, here half the data rate); `SeamlessCounted`; `EnergyMetered`: each kind of lines is charged at its own rate, level and side; `RestoredSame`; `InterfaceTypeOK`. |
| `core_energy` | all standards, 1 rank of 2 banks, 2 devices, 2 voltage domains, 4 calls until cycle 4 | `BackgroundMetered`: the background energy is what a meter shows that reads the current of the power state as time passes; `DatasheetCurrents`: a rank that runs a measurement loop of the data sheet takes the current measured. |
| `tool` | 2 directories, links (absolute, relative, in the working directory and beside it), 4 configurations, traces of up to 2 rows of 15 kinds, 7 data sheets and one that cannot be read; a library user with 4 calls and 2 commands; all data sheets with 0 to 16 banks and 0 to 4 groups | `ResultOfWholeTrace`, `NoResultOnFailure`: exit code 0 and the result of every row in the file the path of `-j` leads to, or no result; `ExtensionAgrees`: the DBI extension tells the state of the interface; `AskedInTime`: statistics are asked at a time no executed command is later than; `BanksReachedExist`: a same-bank or two-bank command that is not refused reaches only banks there are, whatever a data sheet says. |
| `ddr4_sref_exit` | violation | `SelfRefreshExitAsserted`: the assertion of `DDR4Core.cpp:189` fails when self-refresh is left within tRFC; the exit is then lost, since the entry is executed after it. |
| `lpddr4_reopen` | violation | `BankActiveCounted` when a power-down may be entered while a bank has yet to close, or at the time it closes: the exit reopens every bank whose interval ended at the time of the entry. |
| `ddr4_dbi_pins` | violation | `PinBurstFits`: a pin that is set back to idle before a burst takes that level as the first beat of the burst, one more than its storage holds. |
| `json_symlink` | violation | `JsonFileExists`: once the arguments are accepted, the file that `-j` names exists. A relative link in another directory is resolved against the working directory, where a file is found, or created and left, while the one the link leads to does not exist. |

In `data_bus`, four cycles of two slots hold a burst that ends within a cycle, one that ends
with it, one that follows seamlessly or after idle slots, and two switches with bursts
before, between and after them. A switch at time 0 is left out: the mode at the start is
the constructor's.

In `interface`, three commands are a burst, one that resets its inversion or follows it
seamlessly, and a third, or a restore, that finds what the second left; statistics are
asked at once, one cycle later (within a burst) and five cycles later (past it). Beats are
shorter than in the standards and a command bus has only the lines that tell commands apart;
the capacity of a pin is that of the code divided by `BeatScale`. The powers and energies
of the kinds of lines are distinct primes, and one kind in each direction is not terminated, so
that none can be taken for another. The properties on pins leave out a behaviour in which a
pin was set back together with the next burst (the finding of `ddr4_dbi_pins`), or in which
a restore lost the pins, as it does in LPDDR4 and LPDDR5.

In `core_energy`, a clock of four cycles holds an entry into each power state and its exit,
or one run of each measurement loop; the values are such that all divisions are exact.

`ReportsPowerStates` is the central property of the cores: a refinement mapping takes each
rank and bank to one power state and to the cycles `getWindowStats` would report at `now`,
and TLC checks that these are the residencies of `PowerStates`, step by step. A rank or bank
is at all times in one state, moves only along the state diagram, and all the time passed is
counted under the state it was in.

Every property of a passing run has a mutant: a variant of a definition, kept before it and
marked "a faulty variant", with which TLC finds the property violated.

## 4. Proofs

`DDR4CoreProofs` proves, for every number of ranks and banks, every timing and every trace
(`Permitted` is never expanded):

- `InvariantHolds`: `Spec => []IInv`, where `IInv` conjoins `TypeOK`, `QueueInOrder`, and
  that every time recorded in a rank or bank is at most `now` and every count at most what
  has passed. Types alone are not inductive: that a closed interval's count is a natural
  number needs its start to be in the past, and that needs every implicit command to be
  executed at its own time, which needs the queue to be sorted and nothing in it to be late.
- `TypeCorrect`, `QueueStaysInOrder`, `CountsStayWithinTime`: the parts the run `any_core`
  checks, and `LastStaysMonotone` as an action property.

`AnyCoreProofs` proves the same four of the core of every standard, from the specification
`AnySpec` the run `any_core` checks (`AnyTypeCorrect`, `AnyQueueInOrder`,
`AnyCountsWithinTime`, `AnyLastMonotone`, and `AnyInvariantHolds` for the inductive
invariant, which bounds what a bank records by the longest of all refreshes). The four
standards that refresh single banks are instances of one bankwise core: `BankwiseStep` says
what such a core may do with an implicit command (`Executed`) and with a command
(`Handled`), and `BankwiseKeeps` that it keeps the invariant. What is left to show of a
standard is that its actions are such steps: that what it takes from `BankwiseCore` is what
the others take (`DDR5Alike` and so on), and that each of its handlers is one of those of
`Handled` (`DDR5Executes`, `DDR5Serves`). The handlers of DDR4 are its own and are proved
about apart. `AnyCoreAssumption` says of the constants that the banks are those of the bank
groups, and that the partner of a bank in a refresh of two banks exists: `Partner` is
taken modulo 16, and only the architectures with 16 banks have this refresh. Of the
traces nothing is assumed: a command that throws leaves the core where the code leaves it.
`AnyRestoreChangesNothing` adds that a core restored from its image, taken when
`isSerializable` allows it, is the same core: the records of ranks, banks and intervals have
no field that is not written (`RestoredRecords`), and the queue that is not written is empty.

The second part of `DDR4CoreProofs` proves what DDR4 promises on valid traces
(`ValidOnly = TRUE`), again for all sizes and timings:

- `SelfRefreshAfterRefresh`: self-refresh only with all banks closed;
- `PowerDownWaits`: no refresh runs in a powered-down rank;
- `ExitWaitsForEntry`: an exit that overtakes its delayed entry is itself delayed behind it.

None of the three is inductive, and none follows from the times in the queue alone, for what
is due at the same time is executed in the order it was queued. `TraceInv` says what the
queue keeps: an order between certain commands of a rank (`InOrder`); that the end of a
refresh is no later than the bank records, which the delay of a power-down covers
(`EndsAwaited`); that a delayed entry is no later than its banks *still* demand, so that an
exit computed afterwards cannot be earlier (`EntriesAwaited`); that what opens a bank closes
it before a queued self-refresh (`ClosedBefore`). The second last is kept because no handler
takes back a time a power-down waits for (`BanksGrow`). Two lemmas carry the proof of a step:
`EntryHappens` for the first entry leaving the queue and `CommandsQueued` for entries added
at their place (`AddAllMoves` says where `std::upper_bound` puts them). That a power command
is only given to a rank with nothing pending, which the proofs take from `ValidTrace`, is
what makes them statements about valid traces.

The last part of `DDR4CoreProofs` proves what the statistics mean on these traces:

- `IntervalsMatchStates`: a rank is in the state whose interval is open;
- `BanksCountedWhileOpen`, `RanksCountedWhileOpen`: active cycles are counted exactly while
  rows are open and the rank is not powered down;
- `RowsClosedOnce`: every row opened is closed once;
- `CyclesAreResidencies`: `Spec => ReportsPowerStates`, the refinement of `PowerStates`.

They rest on `StateInv` (`StateInvariantHolds`). It says of each rank what its state, its
banks and the *set* of its queue entries keep together: a bank has at most one entry
waiting, and of the entries that change the power state only an entry and its exit wait
together (`AllApart`); they match the rank's state (`PowerMatches`); a bank with an
entry is active, and a refresh that has not ended has its end queued (`BanksBusy`,
`RefreshesEnd`); nothing leaves a row open when self-refresh or precharge power-down begins
(`ClosedInTime`); and the intervals and counters say the same as the state
(`IntervalsMatch`, `RowsMatch`). That these belong together is why none is inductive alone:
an entry executed twice, or for a state that has changed, would open or close an interval
again. The order of the entries is used only through `TraceInv`. Each handler is shown to be
a `RankStep` of one rank, while the others stay as they are (`OneRankSteps`).

For the refinement, a `RankStep` starts no interval that is open (`Follows`), so an interval
counts exactly the time that passes while it is open (`CountGrows`). A call therefore moves
a rank or bank along the diagram or not at all (`UnitStates`) and adds nothing to its
residencies, and the passing of time adds to that of its state alone (`UnitCounts`,
`TimePasses`). `LedgerInit` and `LedgerNext` are the two halves of the refinement.

`DataBusProofs` proves that a data bus has counted its waveform, by its data or by estimate,
for any number of lines and slots a cycle, any lengths and times of bursts and any switches
the assertions of the data bus allow:

- `BusesAreCounted`: whenever asked, now or at any later time, a bus has counted the
  transitions of the waveform of its lines, and its ones and zeroes unless it was switched on
  late (the observation on `Bus::enable` below says why not then);
- `SlotsAreCounted`: whenever asked, the toggling handle of either direction has counted the
  busy slots, and the idle slots before and between them, in which it was the one that counts;
- `EstimateIsWhole`: what it then estimates is a whole number of ones and zeroes that misses
  the slots by less than one per line.

The counters of a handle alone are not inductive. A burst is added to them only when the next one is
loaded or the handle is switched, and until then `get_count` adds it on the fly, up to the
time asked for; a handle that is switched off keeps the cycles it was off, and cuts the burst
that is running. `HandleInv` (`HandleInvHolds`) therefore speaks of all later times at once:
between a handle and its waveform, the burst that is running is the one not yet counted
(`Ahead`), and from now on `get_count(s)` is the number of busy slots before `s`, for every
`s` (`Counts`). The lemmas `SeenOn`, `SeenOff`, `SeenKept` and `BusyOn` say how these sets of
slots grow with a waveform, `LoadStep`, `SwitchOffStep` and `SwitchOnStep` that the record
follows, `Rounding` and `Scaled` that the estimate does.

A bus is behind its waveform in two ways: it holds back the slot of its last load as pending
statistics, because a burst loaded in the same slot would change it, and it keeps the last
burst in its storage until the next load. `BusInv` (`BusInvHolds`) says that what is counted
is the waveform before the last load, that what is pending is the slot of that load
(`Holds`), and that from there on the lines carry what the storage shows, idle after its end
(`At`). A bus that stores no burst counts idle slots from 0 on, so a bus switched on late is
right in its transitions only (`Late`, `Alike`, `Stored`). `GetStatsIs` is what asking adds,
`LoadTracks`, `DisableTracks` and `EnableTracks` are the operations.

What a waveform amounts to is a sum over its slots (`Total`, a recursive function). That the
function exists is itself proved, with the least number of slots for which it would not
(`SumsExist` in `BusLemmas`); from it follow that a sum adds slot after slot (`TotalSteps`),
splits anywhere (`TotalSplits`), depends only on its slots (`TotalAgrees`), and is a product
when they are alike (`TotalOfAlike`), which is how the code adds idle slots.

`InterfaceProofs` proves four properties of the interfaces of the five standards, for any rates,
widths, lengths of bursts and ranks:

- `StrobesAreCounted`: whenever asked, the strobes of each direction and the write clock have
  counted the beats of the bursts sent so far, and a restore loses none;
- `SeamlessAreCounted`: DDR4 counts as seamless, of every rank and direction, the bursts
  that begin where the one before has ended;
- `CommandBusIsCounted`: whenever asked, the command bus has counted the levels of the words
  of the commands so far, each encoded as a new encoder would encode it, idle in between, and
  a restore changes nothing of it;
- `RestoresLoseNothing`: an interface that was saved and restored gives the statistics it
  would have given (`RestoredSame`), unless DBI was used and its standard, LPDDR4 or LPDDR5,
  does not save the pins.

They hold in the runs of TLC (`MCSpec`, which sends certain commands) and, which is the
stronger statement, if any commands are sent, in any number, with any data, addresses and
times (`FreeSpec`; `StrobesOfAnyCommands`, `SeamlessOfAnyCommands`,
`CommandBusOfAnyCommands`, `RestoresOfAnyCommandsLoseNothing`). The properties themselves say too little of the
records to be inductive. `StrobesInv` says that between commands a strobe stands still (or,
if the write clock is always on, runs since 0) with the periods of the sequence of commands
so far, so that a run for another burst adds its periods and nothing else (`RanIs`,
`RunAdds`, `SumOfOneMore`). `SeamlessInv` says that what `handlePrePostamble` kept of a rank
and direction is the end of its last burst (`CommandFollowed`). What the handlers of a
standard do with the strobes is one lemma for each (`DDR4Strobes` to `LPDDR6Strobes`); all
else they do is not expanded.

`CommandInv` relates the command bus to the list of the commands sent in three parts.
`EncoderKnows` says what is left in an encoder by the bursts before: the settings that the
handlers of data commands override, and no others. Each data command sets, or removes, all of these that
its pattern reads, and no other command reads them (`DDR4Patterns` to `LPDDR6Patterns`), so
its words are those of a new encoder (`WordsAre`, `DDR4Words` to `LPDDR6Words`); a restore,
which keeps the settings only, does no harm. `SentBefore` says that the words sent do not
overlap and end where the storage of the bus ends, so that a slot shows the word of one
command at most (`CommandInIs`). `CommandCounts` says that the bus has counted this wave up
to its last load. The bus is one that is always on: `BusLemmas` proves for it that a load
appends to the wave (`LoadCounts`) and that asking gives the sum over the wave
(`GetCounts`), and the lemmas `DDR4BusAlike` to `LPDDR6BusAlike` that the bus of each
interface is one of these. The bound on the commands of a run plays no part in it.

What `RestoredSame` needs is that a new object and the saved stream together hold all there
is to know of the saved one: what is not in the stream must be what every object of the
standard has. `BusesKept` and `PinsKept` say so of the buses, handles and pins: each has
its fields and no others, its idle level is that of the standard, and the pins of DDR5 and LPDDR6
are as they were made, since their DBI has no width. Every load, burst length and level
keeps this (`DDR4LoadShape`, `DDR4HandleShape`, `DDR4SetShape` and the like), so a restored
record is the saved one, field by field (`DDR4BusesRestored` to `LPDDR6BusesRestored`,
`PinsRestored`). A strobe that stands still restores its periods only; when it
last started no longer matters (`RestoredAlike`). An interface with the same buses, pins
and periods gives the same statistics (`DDR4WindowSame` to `LPDDR6WindowSame`).

`ToolProofs` proves what the front ends and the tool promise, for any bounds, delays, files
and arguments that `InputAssumption` allows:

- `ExtensionTellsTheTruth`: the DBI extension and the interface it switches agree, whatever
  was switched, refused, saved and restored; `Agrees` says the same of the stream in which an
  object is saved, from which a later restore takes both;
- `AskedNoEarlier`: statistics are not asked at a time before an executed command. `Chronicle`
  adds that each part has executed its commands in the order of their times, up to its last
  command time, in an object as in a stream, and that a queued implicit command is due no
  earlier than the time of any core, that of the stream included;
- `FilesAreKept`: the tool holds a result only in the file the path of `-j` leads to, and that
  only with exit code 0; else it changes no file but one that was absent, which it creates
  and leaves empty, through any chain of links;
- `ResultsAreWhole`: a run that exits with 0 has executed every row of the trace, reports at
  the latest time and holds the result in the file that the path given with `-j` leads to. `Progress` says, phase by phase,
  what a run holds by then; while it runs (`RunTo`), each part has executed those of the first
  rows that it has a case for. That the labels number the banks without gap or overlap
  (`LabelsInOrder`) is division with remainder, by products of two sizes (`CellOf`,
  `OffsetOfCell`);
- `BanksAlwaysExist`: a two-bank refresh of LPDDR5 or a same-bank command of DDR5 that is not
  refused reaches only banks there are, for any numbers of banks and groups in a data sheet.
  That the quotient of the two, rounded down, times the groups does not exceed the banks is
  `SameBankExists`; where it is 0, no such command gets as far as a bank.

`resolve_symlink` is a recursive function, about which no induction is available: that it
tells at each round what it should is proved with the least round at which it would not
(`RoundsExist`, `MissingTargets`). In this model of a library user only one of the two
objects is given commands, so that no stream is ahead of an implicit command queued in the
object it is restored into; with commands to both, a core would step back to that one.

`NaturalLemmas` proves that sets of naturals have a least and a greatest element, with it
induction from one number to another (`Upward`, over a set, not an operator), and that a
quotient with remainder is unique (`OneQuotient`);
`CoreLemmas` that `Add` and `AddAll` keep a queue sorted, keep its entries and add only the
new ones, and what the operations on intervals, ranks and banks preserve. Assumed are the
types of the constants (`SizeAssumption`, `TraceAssumption`, `TimingAssumption`,
`RefreshAssumption`, `AnyCoreAssumption`, `LinesAssumption`, `DataBusAssumption`, `DelayAssumption`,
`BoundAssumption`, `InputAssumption`, `InterfaceAssumptions`), that main has an object (`HandleAssumption`), and of the value that stands for nothing
that it is no number (`NothingAssumption`).

Only model-checked:
- `CallReturns`: liveness under fairness is beyond the prover, as is ENABLED;
- `ReportsPowerStates` and the other properties of valid traces for the other four standards;
- the pins of the interfaces and the energies (`InterfaceTypeOK`, `PinCounted`, `DataRecovered`, `EnergyMetered`,
  `BackgroundMetered`, `DatasheetCurrents`): they compare
  what DBI makes of the data, and sums over the slots of many pins, with the formulas of five
  standards; a fold over the chunks of a burst needs an induction that is still to be written
  as that of `Total` was.

## 5. Observations

What the models had to follow in the code and a maintainer may want to know; the four
violation runs are findings of `PROJECT.json`.

Interfaces
- `interface_calculation_DDR4.cpp:72-101` charges pre- and postambles for the commands of
  `rank_total` less the seamless ones. No `getWindowStats` fills those counters in, so the
  difference is 0, or wraps as soon as a burst was seamless. The test
  (`src/tests/tests_drampower/interface/test_interface_ddr4.cpp:588-593`) fills them in itself
  and demands more commands than seamless ones. `EnergyMetered` takes this part out.
- The first burst counts as seamless if it is given at time 0.
- `Bus::enable` says it shifts the counters (`util/bus.h:215`); only `last_load` is shifted,
  and the statistics of a bus that is switched on late count idle slots from 0
  (`util/bus.h:107`). Transitions are not affected. Nothing in the program switches it
  on later.
- `DBI` resizes the vector of inversions only when its capacity is too small
  (`util/dbi.h:273`), so its size may be less than a later burst needs, which is written past
  it and left out of the image.
- Data is put on the bus from its last entry, on the pins from its first.
- A strobe counts a burst as soon as it is loaded, not as its beats pass. The write clock of
  LPDDR5 and LPDDR6 is rounded down in each burst. The interface of LPDDR5 runs it at
  `dataRate / WCKtoCK` (`LPDDR5Interface.cpp:32`), the memory specification multiplies the two
  (`MemSpecLPDDR5.cpp:118`).
- `interface_calculation_DDR5.cpp:75,82` passes a resistance where a flag is expected: data
  lines are charged whether terminated or not, as long as there is a resistance.
- SREFEX of DDR5 has no pattern on the command bus. The parity mode of LPDDR6 is stored and
  applied by no command. `endOfSimulation` gives DBI a time in cycles where it takes slots
  elsewhere.
- After a restore LPDDR4, LPDDR5 and LPDDR6 have lost the setting of DBI (and LPDDR6 its
  metadata), while the extension may say otherwise.

Cores and memory specifications
- LPDDR6 starts the active interval of a rank when it leaves active power-down whether or
  not a bank is open, so that a power-down of a precharged rank by PDEA is counted wrong.
- The self-refresh time of `rank_total` of LPDDR4 includes no deduction for deep sleep, that
  of the other LPDDR standards does. `E_refab` (`data/energy.h:52`) is never assigned.
- `MemSpecLPDDR5.cpp:11` divides by the number of groups before the case of 0 groups that
  line 100 accepts, and keeps `banksPerGroup` when an unknown architecture is replaced by 16
  banks. No constructor compares the groups with the banks: a DDR5 with more groups than
  banks has 0 banks per group, and a same-bank command divides by them (`NoBankInGroup`; the
  model takes the program to end there). PASR of LPDDR4 assumes 8 banks: with 4, some modes
  keep no bank in self-refresh, with fewer a size below zero throws `length_error`.

Front ends and tool
- A copy of a front end shares the extensions of the original, whose callbacks capture the
  original.
- Names that are unknown, and NOP, are ignored in a release build and abort a debug build. A
  time that is not a number and a loop of links end the tool with an uncaught exception.
- `-j`: `src/README.md:229` says the file must exist; the code creates it.
  `validators.cpp:109` says "The validator modifies the input for a symlink", but `main.cpp:42`
  adds it with `check`, for which CLI11 2.4.2 runs a validator on a copy of the input: the
  path stays as given, and `run.cpp:168` opens it, so that the operating system follows the
  link. What the validator resolved decides only which file is checked or created. The stream
  of the result is not checked after it was written (`run.cpp:208`).
- `-h` returns 0 from `parseArgs`, after which `main` goes on with what it has. The parser
  looks at the options before it notices `-h`, so that with `-j` the file may be created
  first, or the arguments be refused.
- Data is demanded of reads and writes also under toggling rates. The second digit of a byte
  need not be hexadecimal.

## 6. Not modelled

- The CSV reader (`src/src/cli/lib/DRAMPower/cli/csv.hpp`), CLI11, nlohmann_json and DRAMUtils
  are third-party code; `CommandLine` takes their outcomes as inputs.
- The bytes of an image (what is saved and left out is modelled) and the packing of bytes into
  bursts.
- The rounding of floating point, and the layout of printed results.
- The full command tables of the standards: a pattern has the bits that tell commands,
  addresses and burst lengths apart.
- A change of the rates while a bus estimates, the choice of the line width at run time, and
  copies of front ends.
- The minimal distances between commands: the program does not check them.

## 7. Plan

1. Proofs: `PinCounted` of the interfaces, as that of the command bus; the
   properties of valid traces for the bankwise cores; `AllTimeAccounted` of `PowerStates`.
2. A change of the rates while a bus estimates.
