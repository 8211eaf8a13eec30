---------------------------------- MODULE Dram ----------------------------------
(***************************************************************************)
(* The front ends DDR4, DDR5, LPDDR4, LPDDR5 and LPDDR6 over dram_base: an *)
(* object holds a core, an interface and the extensions that switch them,  *)
(* and may be saved to a stream that another object restores.  What a core *)
(* or an interface has counted is abstracted to the commands it executed   *)
(* (done); modules of their own model the counting.  The implicit commands *)
(* of a core are abstracted to the time the last one is due, 0 for none.   *)
(***************************************************************************)
EXTENDS MemSpec

CONSTANTS Handles,      \* the objects there may be
          Delay         \* from a command to the implicit command it queues

ASSUME DelayAssumption == Delay \in Nat

VARIABLES build,        \* "debug", or "release": assertions are compiled out
          drams,        \* what the handles hold
          stream,       \* what was serialized last
          outcome       \* of the last call

dramVars == <<build, drams, stream, outcome>>

Larger(a, b) == IF a > b THEN a ELSE b

Nothing == [standard |-> "none"]
Exists(h) == drams[h] # Nothing

--------------------------------------------------------------------------------
\* Which commands there is a case for.

Banked == {"ACT", "PRE", "RD", "WR", "RDA", "WRA"}
PowerDownsAndSleep == {"SREFEN", "SREFEX", "PDEA", "PDEP", "PDXA", "PDXP"}
Everywhere == Banked \cup PowerDownsAndSleep \cup {"PREA", "REFA", "END_OF_SIMULATION"}

CoreTypes(standard) ==
    Everywhere \cup
    (CASE standard = "DDR4" -> {}
       [] standard = "DDR5" -> {"NOP", "PRESB", "REFSB"}
       [] standard = "LPDDR4" -> {"REFB"}
       [] standard = "LPDDR5" -> {"REFB", "REFP2B", "DSMEN", "DSMEX"}
       [] standard = "LPDDR6" -> {"REFDB"})

InterfaceTypes(standard) ==
    CoreTypes(standard) \cup (IF standard = "LPDDR6" THEN {"NOP"} ELSE {})

\* The commands after which implicit commands are queued.
Delayed == {"RDA", "WRA", "REFA", "REFB", "REFP2B", "REFDB", "REFSB", "SREFEN",
            "PDEA", "PDEP", "PDXA", "PDXP"}

\* The commands whose bank is looked up with a check of its own.
Checked == {"ACT", "PRE", "RD", "WR", "PRESB", "REFSB", "REFP2B", "REFDB"}

\* The commands whose handler asserts a power state.
AssertsState(d, c) ==
    c.type \in {"SREFEX", "DSMEN", "DSMEX"} \/ (c.type = "PDXA" /\ d.standard = "DDR4")

Asserted == IF build = "debug" THEN "aborted" ELSE "thrown"
Unsupported == IF build = "debug" THEN "aborted" ELSE "ignored"

\* REFP2B needs 16 banks, in both parts.
NoPairs(d, c) ==
    c.type = "REFP2B" /\ MemSpecLPDDR5(d.sheet).bank_arch \notin {"MBG", "M16B"}

--------------------------------------------------------------------------------
(* The core: the queue first, then the time, then the command.             *)

NoBank(d, c) == c.type \in Checked /\ c.bank >= SpecOf(d.sheet).common.numberOfBanks

\* The bank of a same-bank command is taken modulo the banks of a group: none if
\* there are more groups than banks.
NoBankInGroup(d, c) == c.type \in {"PRESB", "REFSB"} /\ MemSpecDDR5(d.sheet).banksPerGroup = 0

CoreOutcomes(d, c) ==
    IF c.type \notin CoreTypes(d.standard) THEN {Unsupported}
    ELSE IF NoPairs(d, c) THEN {"thrown"}
    ELSE IF NoBank(d, c) THEN {Asserted}
    ELSE IF NoBankInGroup(d, c) THEN {"aborted"}
    ELSE IF build = "debug" /\ AssertsState(d, c) THEN {"done", "aborted"}
    ELSE {"done"}

CoreCommand(d, c, result) ==
    LET reached == [d.core EXCEPT !.last = Larger(@, c.t),
                                  !.due = IF @ <= c.t THEN 0 ELSE @]
        executed == [reached EXCEPT !.done = Append(@, c),
                                    !.due = IF c.type \in Delayed THEN c.t + Delay ELSE @]
    IN  [outcome |-> result,
         dram |-> [d EXCEPT !.core = IF result = "done" THEN executed ELSE reached]]

(* The interface: its time follows the command, unless that throws.  DDR5  *)
(* has no pattern for SREFEX.                                              *)

InterfaceOutcome(d, c) ==
    IF c.type \notin InterfaceTypes(d.standard) THEN Unsupported
    ELSE IF NoPairs(d, c) \/ (d.standard = "DDR5" /\ c.type = "SREFEX") THEN "thrown"
    ELSE "done"

InterfaceCommand(d, c) ==
    LET result == InterfaceOutcome(d, c)
        reached == [d.interface EXCEPT !.last = c.t]
    IN  [outcome |-> result,
         dram |-> [d EXCEPT !.interface =
                        CASE result = "done" -> [reached EXCEPT !.done = Append(@, c)]
                          [] result = "ignored" -> reached
                          [] OTHER -> @]]

\* dram_base::doCommand: a core that throws keeps the command from the interface.
Command(d, c, result) ==
    LET core == CoreCommand(d, c, result)
    IN  IF core.outcome \in {"done", "ignored"} THEN InterfaceCommand(core.dram, c) ELSE core

\* A faulty variant of LastCommandTime: the time of the core alone.
LastCommandTimeOfCore(d) == d.core.last

LastCommandTime(d) == Larger(d.core.last, d.interface.last)

\* getWindowStats: the core executes what is due, the interface only counts.
WindowStats(d, t) ==
    LET due == d.core.due
    IN  IF due = 0 \/ due > t THEN d
        ELSE [d EXCEPT !.core.last = due, !.core.due = 0]

--------------------------------------------------------------------------------
(* The extensions.  DDR5 has none, MetaData is that of LPDDR6.             *)

HasDBI(d) == d.standard # "DDR5"
HasMetaData(d) == d.standard = "LPDDR6"

\* The callback of the front end: devices with 4 data lines refuse.
Accepts(d) == ~(d.standard = "DDR4" /\ d.sheet.width = 4)

\* What the constructor of a front end makes of a sheet.
Constructed(sheet, rates) ==
    [standard |-> sheet.standard, sheet |-> sheet, rates |-> rates,
     core |-> [done |-> <<>>, last |-> 0, due |-> 0],
     interface |-> [done |-> <<>>, last |-> 0, dbi |-> FALSE, meta |-> 0],
     extension |-> [dbi |-> FALSE, meta |-> 0]]

\* A faulty variant of Saved: the DBI of a DDR4 interface is left out as well.
SavedWithoutDBI(d) ==
    [standard |-> d.standard, extension |-> d.extension,
     core |-> [done |-> d.core.done, last |-> d.core.last],
     interface |-> [done |-> d.interface.done, last |-> d.interface.last], dbi |-> <<>>]

\* serialize: extensions, core without its queue, interface; of the settings of
\* the interface only the DBI of DDR4.
Saved(d) ==
    [standard |-> d.standard, extension |-> d.extension,
     core |-> [done |-> d.core.done, last |-> d.core.last],
     interface |-> [done |-> d.interface.done, last |-> d.interface.last],
     dbi |-> IF d.standard = "DDR4" THEN <<d.interface.dbi>> ELSE <<>>]

Restored(d, s) ==
    [d EXCEPT !.extension = s.extension,
              !.core.done = s.core.done, !.core.last = s.core.last,
              !.interface.done = s.interface.done, !.interface.last = s.interface.last,
              !.interface.dbi = ValueOr(s.dbi, @)]

--------------------------------------------------------------------------------
DramInit ==
    /\ build \in {"debug", "release"}
    /\ drams = [h \in Handles |-> Nothing]
    /\ stream = Nothing
    /\ outcome = "done"

Runs == outcome # "aborted"

Called(h, result) ==
    /\ drams' = [drams EXCEPT ![h] = result.dram]
    /\ outcome' = result.outcome
    /\ UNCHANGED <<build, stream>>

Construct(h, sheet, rates) ==
    /\ Runs /\ ~Exists(h)
    /\ Called(h, [dram |-> Constructed(sheet, rates), outcome |-> "done"])

DoCoreCommand(h, c) ==
    /\ Runs /\ Exists(h)
    /\ \E result \in CoreOutcomes(drams[h], c) : Called(h, CoreCommand(drams[h], c, result))

DoInterfaceCommand(h, c) ==
    /\ Runs /\ Exists(h)
    /\ Called(h, InterfaceCommand(drams[h], c))

DoCommand(h, c) ==
    /\ Runs /\ Exists(h)
    /\ \E result \in CoreOutcomes(drams[h], c) : Called(h, Command(drams[h], c, result))

GetStats(h) ==
    /\ Runs /\ Exists(h)
    /\ Called(h, [dram |-> WindowStats(drams[h], LastCommandTime(drams[h])), outcome |-> "done"])

\* DBI::enable: the callback decides.
EnableDBI(h, enable) ==
    LET d == drams[h]
    IN  /\ Runs /\ Exists(h) /\ HasDBI(d)
        /\ Called(h, IF Accepts(d)
                     THEN [dram |-> [d EXCEPT !.interface.dbi = enable, !.extension.dbi = enable],
                           outcome |-> "done"]
                     ELSE [dram |-> d, outcome |-> "refused"])

SetMetaData(h, meta) ==
    LET d == drams[h]
    IN  /\ Runs /\ Exists(h) /\ HasMetaData(d)
        /\ Called(h, [dram |-> [d EXCEPT !.interface.meta = meta, !.extension.meta = meta],
                      outcome |-> "done"])

Serialize(h) ==
    /\ Runs /\ Exists(h)
    /\ stream' = Saved(drams[h])
    /\ UNCHANGED <<build, drams, outcome>>

Deserialize(h) ==
    /\ Runs /\ Exists(h)
    /\ stream.standard = drams[h].standard
    /\ Called(h, [dram |-> Restored(drams[h], stream), outcome |-> "done"])
=============================================================================
