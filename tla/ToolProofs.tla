------------------------------ MODULE ToolProofs ------------------------------
(***************************************************************************)
(* What the users of the front ends can rely on, for any handles, delays,  *)
(* file systems, traces and data sheets.                                   *)
(***************************************************************************)
EXTENDS MCTool, NaturalLemmas

-----------------------------------------------------------------------------
(* The objects                                                             *)

Standards == {"DDR4", "DDR5", "LPDDR4", "LPDDR5", "LPDDR6"}
GivenSheets == (Sheets \ {Nothing}) \cup Small \cup AllSheets

CommandTypes == Named \cup {"END_OF_SIMULATION", "NOP"}
CommandSet == [t : Nat, type : CommandTypes, bank : Nat, data : Seq(Nat)]
Extension == [dbi : BOOLEAN, meta : {0, 1}]
CoreSet == [done : Seq(CommandSet), last : Nat, due : Nat]
InterfaceSet == [done : Seq(CommandSet), last : Nat, dbi : BOOLEAN, meta : {0, 1}]

DramSet ==
    [standard : Standards, sheet : GivenSheets, rates : BOOLEAN,
     core : CoreSet, interface : InterfaceSet, extension : Extension]

\* A front end e that is d but for what commands change.
Onward(d, e) ==
    /\ e \in DramSet
    /\ e.standard = d.standard /\ e.sheet = d.sheet /\ e.rates = d.rates
    /\ e.extension = d.extension
    /\ e.interface.dbi = d.interface.dbi /\ e.interface.meta = d.interface.meta

LEMMA CoreCommandDoes ==
    ASSUME NEW d \in DramSet, NEW c \in CommandSet, NEW result
    PROVE  LET e == CoreCommand(d, c, result).dram
           IN  /\ Onward(d, e) /\ e.interface = d.interface
               /\ e.core.last = Larger(d.core.last, c.t)
               /\ e.core.done = IF result = "done" THEN Append(d.core.done, c) ELSE d.core.done
               /\ \/ e.core.due \in {0, c.t + Delay}
                  \/ (e.core.due = d.core.due /\ d.core.due > c.t)
<1> DEFINE due == IF d.core.due <= c.t THEN 0 ELSE d.core.due
           reached == [d.core EXCEPT !.last = Larger(@, c.t), !.due = due]
           executed == [reached EXCEPT !.done = Append(@, c),
                                       !.due = IF c.type \in Delayed THEN c.t + Delay ELSE @]
           core == IF result = "done" THEN executed ELSE reached
<1>1. Larger(d.core.last, c.t) \in Nat /\ due \in Nat /\ c.t + Delay \in Nat
  BY DelayAssumption DEF DelayAssumption, Larger, DramSet, CoreSet, CommandSet
<1>2. Append(d.core.done, c) \in Seq(CommandSet)
  BY DEF DramSet, CoreSet
<1> HIDE DEF due
<1>3. reached \in CoreSet /\ reached.done = d.core.done
      /\ reached.last = Larger(d.core.last, c.t) /\ reached.due = due
  BY <1>1 DEF DramSet, CoreSet
<1>4. due = 0 \/ (due = d.core.due /\ d.core.due > c.t)
  BY DEF due, DramSet, CoreSet, CommandSet
<1> HIDE DEF reached
<1>5. executed \in CoreSet /\ executed.done = Append(d.core.done, c)
      /\ executed.last = Larger(d.core.last, c.t) /\ executed.due \in {c.t + Delay, due}
  BY <1>1, <1>2, <1>3 DEF CoreSet
<1> HIDE DEF executed
<1>6. /\ core \in CoreSet /\ core.last = Larger(d.core.last, c.t)
      /\ core.done = IF result = "done" THEN Append(d.core.done, c) ELSE d.core.done
      /\ core.due \in {c.t + Delay, due}
  BY <1>3, <1>5
<1> DEFINE e == [d EXCEPT !.core = core]
<1>7. CoreCommand(d, c, result).dram = e
  BY DEF CoreCommand, reached, executed, due
<1> HIDE DEF core
<1>8. Onward(d, e) /\ e.core = core /\ e.interface = d.interface
  BY <1>6 DEF Onward, DramSet
<1> HIDE DEF e
<1> QED BY <1>4, <1>6, <1>7, <1>8

LEMMA InterfaceCommandDoes ==
    ASSUME NEW d \in DramSet, NEW c \in CommandSet
    PROVE  LET e == InterfaceCommand(d, c).dram
           IN  /\ Onward(d, e) /\ e.core = d.core
               /\ IF InterfaceOutcome(d, c) \in {"done", "ignored"}
                  THEN /\ e.interface.last = c.t
                       /\ e.interface.done = IF InterfaceOutcome(d, c) = "done"
                                             THEN Append(d.interface.done, c)
                                             ELSE d.interface.done
                  ELSE e.interface = d.interface
<1> DEFINE reached == [d.interface EXCEPT !.last = c.t]
           executed == [reached EXCEPT !.done = Append(@, c)]
           result == InterfaceOutcome(d, c)
           interface == CASE result = "done" -> executed [] result = "ignored" -> reached
                          [] OTHER -> d.interface
<1>1. Append(d.interface.done, c) \in Seq(CommandSet) /\ c.t \in Nat
  BY DEF DramSet, InterfaceSet, CommandSet
<1>2. reached \in InterfaceSet /\ reached.done = d.interface.done /\ reached.last = c.t
      /\ reached.dbi = d.interface.dbi /\ reached.meta = d.interface.meta
  BY <1>1 DEF DramSet, InterfaceSet
<1> HIDE DEF reached
<1>3. executed \in InterfaceSet /\ executed.done = Append(d.interface.done, c)
      /\ executed.last = c.t
      /\ executed.dbi = d.interface.dbi /\ executed.meta = d.interface.meta
  BY <1>1, <1>2 DEF InterfaceSet
<1> HIDE DEF executed
<1>4. /\ interface \in InterfaceSet
      /\ interface.dbi = d.interface.dbi /\ interface.meta = d.interface.meta
      /\ IF result \in {"done", "ignored"}
         THEN /\ interface.last = c.t
              /\ interface.done = IF result = "done" THEN Append(d.interface.done, c)
                                                     ELSE d.interface.done
         ELSE interface = d.interface
  BY <1>2, <1>3 DEF DramSet
<1> DEFINE e == [d EXCEPT !.interface = interface]
<1>5. InterfaceCommand(d, c).dram = e
  BY DEF InterfaceCommand, reached, executed
<1> HIDE DEF interface
<1>6. Onward(d, e) /\ e.core = d.core /\ e.interface = interface
  BY <1>4 DEF Onward, DramSet
<1> HIDE DEF e
<1> QED BY <1>4, <1>5, <1>6

LEMMA WindowStatsDoes ==
    ASSUME NEW d \in DramSet, NEW t \in Nat
    PROVE  LET e == WindowStats(d, t)
           IN  /\ Onward(d, e) /\ e.interface = d.interface /\ e.core.done = d.core.done
               /\ \/ e.core = d.core
                  \/ /\ d.core.due # 0 /\ d.core.due <= t
                     /\ e.core.last = d.core.due /\ e.core.due = 0
<1> DEFINE core == [d.core EXCEPT !.last = d.core.due, !.due = 0]
<1>1. core \in CoreSet /\ core.last = d.core.due /\ core.due = 0 /\ core.done = d.core.done
  BY DEF DramSet, CoreSet
<1>2. [d EXCEPT !.core.last = d.core.due, !.core.due = 0] = [d EXCEPT !.core = core]
  BY DEF DramSet, CoreSet
<1> HIDE DEF core
<1>3. /\ Onward(d, [d EXCEPT !.core = core]) /\ [d EXCEPT !.core = core].core = core
      /\ [d EXCEPT !.core = core].interface = d.interface
      /\ Onward(d, d)
  BY <1>1 DEF Onward, DramSet
<1>4. CASE d.core.due = 0 \/ d.core.due > t
  BY <1>3, <1>4 DEF WindowStats
<1>5. CASE d.core.due # 0 /\ d.core.due <= t
  <2>1. WindowStats(d, t) = [d EXCEPT !.core = core]
    BY <1>2, <1>5 DEF WindowStats, DramSet, CoreSet
  <2> QED BY <1>1, <1>3, <1>5, <2>1
<1>6. d.core.due \in Nat
  BY DEF DramSet, CoreSet
<1> QED BY <1>4, <1>5, <1>6

\* What a command c may make of d: its core, its interface or both executed it
\* or failed to, at its time.
Reached(p, q, c, m) == q.last = m /\ q.done \in {Append(p.done, c), p.done}
Commanded(d, e, c) ==
    /\ Onward(d, e)
    /\ \/ e.core = d.core
       \/ /\ Reached(d.core, e.core, c, Larger(d.core.last, c.t))
          /\ \/ e.core.due \in {0, c.t + Delay}
             \/ (e.core.due = d.core.due /\ d.core.due > c.t)
    /\ e.interface = d.interface \/ Reached(d.interface, e.interface, c, c.t)

LEMMA CommandDoes ==
    ASSUME NEW d \in DramSet, NEW c \in CommandSet, NEW result
    PROVE  /\ Commanded(d, CoreCommand(d, c, result).dram, c)
           /\ Commanded(d, InterfaceCommand(d, c).dram, c)
           /\ Commanded(d, Command(d, c, result).dram, c)
<1> DEFINE k == CoreCommand(d, c, result).dram
<1>1. Commanded(d, k, c)
  <2>1. /\ Onward(d, k) /\ k.interface = d.interface
        /\ k.core.last = Larger(d.core.last, c.t)
        /\ k.core.done = IF result = "done" THEN Append(d.core.done, c) ELSE d.core.done
        /\ k.core.due \in {0, c.t + Delay} \/ (k.core.due = d.core.due /\ d.core.due > c.t)
    BY CoreCommandDoes
  <2> HIDE DEF k
  <2> QED BY <2>1 DEF Commanded, Reached
<1>2. Commanded(d, InterfaceCommand(d, c).dram, c)
  BY InterfaceCommandDoes DEF Commanded, Reached
<1>3. k \in DramSet /\ k.interface = d.interface
  BY CoreCommandDoes DEF Onward
<1> HIDE DEF k
<1>4. Commanded(k, InterfaceCommand(k, c).dram, c) /\ InterfaceCommand(k, c).dram.core = k.core
  BY <1>3, InterfaceCommandDoes DEF Commanded, Reached
<1>5. Commanded(d, InterfaceCommand(k, c).dram, c)
  BY <1>1, <1>3, <1>4 DEF Commanded, Onward, k
<1>6. Command(d, c, result).dram \in {CoreCommand(d, c, result).dram, InterfaceCommand(k, c).dram}
  BY DEF Command, k
<1> QED BY <1>1, <1>2, <1>5, <1>6 DEF k
-----------------------------------------------------------------------------
(* Data sheets                                                             *)

\* Of any number of banks and of groups.
Organised(sheet) ==
    /\ sheet.standard \in Standards
    /\ sheet.nbrOfBanks \in Nat /\ sheet.nbrOfBankGroups \in Nat
    /\ sheet.nbrOfRanks \in Nat /\ sheet.nbrOfDevices \in Nat

LEMMA GivenOrganised == \A sheet \in GivenSheets : Organised(sheet)
<1>1. \A sheet \in Sheets \ {Nothing} : Organised(sheet)
  BY InputAssumption DEF InputAssumption, Organised, Standards
<1>2. \A s \in Standards, banks \in Nat, groups \in Nat : \A width, bankwise :
        Organised(Sheet(s, banks, groups, width, bankwise))
  BY DEF Organised, Sheet
<1>3. \A sheet \in Small : Organised(sheet)
  BY <1>2 DEF Small, Standards
<1>4. \A sheet \in AllSheets : Organised(sheet)
  <2>1. \A x \in {0, 2, 4, 8, 16} \X {0, 1, 2, 4} : x[1] \in Nat /\ x[2] \in Nat
    OBVIOUS
  <2> QED BY <1>2, <2>1 DEF AllSheets, Standards
<1> QED BY <1>1, <1>3, <1>4 DEF GivenSheets

LEMMA ConstructedDram ==
    ASSUME NEW sheet \in GivenSheets, NEW rates \in BOOLEAN
    PROVE  /\ Constructed(sheet, rates) \in DramSet
           /\ Constructed(sheet, rates).standard = sheet.standard
           /\ Constructed(sheet, rates).sheet = sheet
           /\ Constructed(sheet, rates).core.done = <<>>
           /\ Constructed(sheet, rates).core.last = 0 /\ Constructed(sheet, rates).core.due = 0
           /\ Constructed(sheet, rates).interface.done = <<>>
           /\ Constructed(sheet, rates).interface.last = 0
           /\ Constructed(sheet, rates).extension.dbi = Constructed(sheet, rates).interface.dbi
<1>1. sheet.standard \in Standards /\ <<>> \in Seq(CommandSet)
  BY GivenOrganised DEF Organised
<1> QED BY <1>1 DEF Constructed, DramSet, CoreSet, InterfaceSet, Extension

LEMMA DramsDiffer == Nothing \notin DramSet /\ Nothing.standard \notin Standards
BY DEF Nothing, DramSet, Standards
-----------------------------------------------------------------------------
(* The steps                                                               *)

SavedSet ==
    [standard : Standards, extension : Extension,
     core : [done : Seq(CommandSet), last : Nat],
     interface : [done : Seq(CommandSet), last : Nat],
     dbi : {<<>>} \cup {<<b>> : b \in BOOLEAN}]

Types ==
    /\ drams \in [Handles -> DramSet \cup {Nothing}]
    /\ stream \in SavedSet \cup {Nothing}
    /\ now \in Nat
    /\ config \in [rates : BOOLEAN]
    /\ commandList \in Seq(CommandSet) /\ next \in Nat \ {0}

\* What a step does to the objects, and to one of them, h.
Waits == UNCHANGED <<drams, stream, restored>> /\ now' \in Nat /\ now' >= now

BuiltAs(d) == \E sheet \in GivenSheets, rates \in BOOLEAN : d = Constructed(sheet, rates)

Constructs ==
    /\ \E sheet \in GivenSheets, rates \in BOOLEAN :
        drams' \in {[h \in Handles |-> Constructed(sheet, rates)],
                   [drams EXCEPT !["ddr"] = Constructed(sheet, rates)]}
    /\ UNCHANGED <<stream, restored, now>>

Executes ==
    /\ "ddr" \in Handles /\ Exists("ddr")
    /\ \E c \in CommandSet, e \in DramSet :
        /\ Commanded(drams["ddr"], e, c) /\ drams' = [drams EXCEPT !["ddr"] = e]
        /\ driver = "library" => c.t >= now /\ now' = c.t
    /\ now' \in Nat /\ UNCHANGED <<stream, restored>>

Asks(h) ==
    /\ Exists(h)
    /\ drams' = [drams EXCEPT ![h] = WindowStats(drams[h], LastCommandTime(drams[h]))]
    /\ UNCHANGED <<stream, restored, now>>

WithDBI(d, enable) == [d EXCEPT !.interface.dbi = enable, !.extension.dbi = enable]
WithMeta(d, meta) == [d EXCEPT !.interface.meta = meta, !.extension.meta = meta]
SetAs(d, e) ==
    (\E enable \in BOOLEAN : e = WithDBI(d, enable)) \/ (\E meta \in {0, 1} : e = WithMeta(d, meta))

Sets(h) ==
    /\ Exists(h)
    /\ \E e : SetAs(drams[h], e) /\ drams' = [drams EXCEPT ![h] = e]
    /\ UNCHANGED <<stream, restored, now>>

Saves(h) ==
    Exists(h) /\ stream' = Saved(drams[h]) /\ UNCHANGED <<drams, restored, now>>

Restores(h) ==
    /\ Exists(h) /\ stream.standard = drams[h].standard
    /\ drams' = [drams EXCEPT ![h] = Restored(drams[h], stream)]
    /\ restored' = restored \cup {h} /\ UNCHANGED <<stream, now>>

Steps ==
    /\ UNCHANGED driver
    /\ \/ Waits \/ Constructs \/ Executes
       \/ \E h \in Handles : Asks(h) \/ Sets(h) \/ Saves(h) \/ Restores(h)

TraceRow == [columns : Nat, number : BOOLEAN, t : Nat, text : STRING, bank : Nat,
             digits : Seq(0..NotHex)]

LEMMA TraceTyped ==
    ASSUME NEW rows \in Traces
    PROVE  /\ Len(rows) \in Nat /\ DOMAIN rows = 1..Len(rows)
           /\ \A i \in DOMAIN rows : rows[i] \in TraceRow
<1>1. rows \in Seq(TraceRow)
  BY InputAssumption DEF InputAssumption, TraceRow
<1> QED BY <1>1

LEMMA RowCommandTyped ==
    ASSUME NEW rows \in Traces, NEW i \in DOMAIN rows
    PROVE  RowCommand(rows[i]) \in CommandSet
<1> DEFINE row == rows[i]
<1>1. row \in TraceRow
  BY TraceTyped
<1> HIDE DEF row
<1>2. from_string(row.text) \in CommandTypes
  BY DEF from_string, CommandTypes
<1>3. hexStringToUint8Array(row.digits) \in Seq(Nat)
  <2>1. row.digits \in Seq(0..NotHex)
    BY <1>1 DEF TraceRow
  <2>2. Len(row.digits) \in Nat /\ \A j \in 1..Len(row.digits) : row.digits[j] \in Nat
    BY <2>1 DEF NotHex
  <2>3. ASSUME NEW n \in Nat
        PROVE  /\ n \div 2 \in Nat
               /\ \A j \in 1..(n \div 2) : 2 * j \in 1..n /\ 2 * j - 1 \in 1..n
    OBVIOUS
  <2>4. \A first \in Nat, second \in Nat : Byte(first, second) \in Nat
    BY DEF Byte
  <2> DEFINE n == Len(row.digits)
  <2>5. n \in Nat /\ n \div 2 \in Nat
    BY <2>2, <2>3
  <2>6. ASSUME NEW j \in 1..(n \div 2)
        PROVE  Byte(row.digits[2 * j - 1], row.digits[2 * j]) \in Nat
    <3> HIDE DEF n
    <3>1. 2 * j \in 1..n /\ 2 * j - 1 \in 1..n
      BY <2>3, <2>5
    <3>2. row.digits[2 * j] \in Nat /\ row.digits[2 * j - 1] \in Nat
      BY <2>2, <3>1 DEF n
    <3> QED BY <2>4, <3>2
  <2>7. hexStringToUint8Array(row.digits) \in [1..(n \div 2) -> Nat]
    BY <2>6 DEF hexStringToUint8Array
  <2> HIDE DEF n
  <2> QED BY <2>5, <2>7
<1>4. <<>> \in Seq(Nat)
  OBVIOUS
<1>5. RowCommand(row) \in CommandSet
  BY <1>1, <1>2, <1>3, <1>4 DEF RowCommand, CommandSet, TraceRow
<1> QED BY <1>5 DEF row

LEMMA ExistsTyped ==
    ASSUME Types, NEW h \in Handles, Exists(h)
    PROVE  drams[h] \in DramSet
BY DEF Types, Exists

LEMMA RunCommandStep ==
    ASSUME Types, RunCommand, UNCHANGED <<driver, now, restored>>, driver # "library"
    PROVE  Steps
<1> DEFINE c == commandList[next]
<1>1. c \in CommandSet
  BY DEF RunCommand, Types
<1>2. PICK result : Called("ddr", Command(drams["ddr"], c, result))
  BY DEF RunCommand, DoCommand
<1>3. Exists("ddr") /\ drams["ddr"] \in DramSet
  BY HandleAssumption, ExistsTyped DEF HandleAssumption, RunCommand, DoCommand
<1> DEFINE e == Command(drams["ddr"], c, result).dram
<1>4. Commanded(drams["ddr"], e, c)
  BY <1>1, <1>3, CommandDoes
<1>5. e \in DramSet
  BY <1>4 DEF Commanded, Onward
<1>6. drams' = [drams EXCEPT !["ddr"] = e] /\ stream' = stream
  BY <1>2 DEF Called
<1> HIDE DEF c, e
<1>7. Executes
  BY <1>1, <1>3, <1>4, <1>5, <1>6, HandleAssumption DEF HandleAssumption, Executes, Types
<1> QED BY <1>7 DEF Steps

LEMMA MakeResultStep ==
    ASSUME Types, GetStats("ddr"), UNCHANGED <<driver, now, restored>>
    PROVE  Steps
<1>1. Asks("ddr")
  BY DEF GetStats, Called, Asks
<1> QED BY <1>1, HandleAssumption DEF HandleAssumption, Steps

LEMMA ConstructStep ==
    ASSUME Types, NEW sheet \in GivenSheets, NEW rates \in BOOLEAN,
           Construct("ddr", sheet, rates), UNCHANGED <<driver, now, restored>>
    PROVE  Steps
BY DEF Construct, Called, Steps, Constructs

LEMMA ToolStep ==
    ASSUME Types, Tool
    PROVE  /\ Steps /\ config' \in [rates : BOOLEAN]
           /\ commandList' \in Seq(CommandSet) /\ next' \in Nat \ {0}
<1> USE DEF Tool
<1>1. CASE ParseArgs
  BY <1>1 DEF ParseArgs, dramVars, Steps, Waits, Types
<1>2. CASE GetConfig
  <2>1. config' \in [rates : BOOLEAN]
    <3> DEFINE rates == arguments.config = "rates"
    <3>1. rates \in BOOLEAN
      OBVIOUS
    <3>2. config' = config \/ config' = [rates |-> rates]
      BY <1>2 DEF GetConfig
    <3> HIDE DEF rates
    <3> QED BY <3>1, <3>2 DEF Types
  <2> QED BY <1>2, <2>1 DEF GetConfig, dramVars, Steps, Waits, Types
<1>3. CASE ParseCommandList
  <2>1. commandList' \in Seq(CommandSet)
    <3>1. CASE commandList' = commandList
      BY <3>1 DEF Types
    <3>2. CASE commandList' = [i \in DOMAIN trace' |-> RowCommand(trace'[i])]
      <4>1. trace' \in Traces
        BY <1>3 DEF ParseCommandList
      <4>2. DOMAIN trace' = 1..Len(trace') /\ Len(trace') \in Nat
        BY <4>1, TraceTyped
      <4>3. \A i \in DOMAIN trace' : RowCommand(trace'[i]) \in CommandSet
        BY <4>1, RowCommandTyped
      <4> QED BY <3>2, <4>2, <4>3
    <3> QED BY <1>3, <3>1, <3>2 DEF ParseCommandList
  <2> QED BY <1>3, <2>1 DEF ParseCommandList, dramVars, Steps, Waits, Types
<1>4. CASE GetMemory
  <2>1. UNCHANGED <<config, commandList, next>>
    BY <1>4 DEF GetMemory
  <2>2. Steps
    <3>1. CASE UNCHANGED dramVars
      BY <1>4, <3>1 DEF dramVars, Steps, Waits, Types
    <3>2. ASSUME NEW sheet \in Sheets \ {Nothing}, Construct("ddr", sheet, config.rates)
          PROVE  Steps
      <4>1. sheet \in GivenSheets /\ config.rates \in BOOLEAN
        BY DEF GivenSheets, Types
      <4> QED BY <3>2, <4>1, ConstructStep
    <3> QED BY <1>4, <3>1, <3>2 DEF GetMemory
  <2> QED BY <2>1, <2>2 DEF Types
<1>5. CASE RunCommand
  <2>1. UNCHANGED <<config, commandList>> /\ next' = next + 1
    BY <1>5 DEF RunCommand
  <2> QED BY <1>5, <2>1, RunCommandStep DEF Types
<1>6. CASE MakeResult
  BY <1>6, MakeResultStep DEF MakeResult, Types
<1> QED BY <1>1, <1>2, <1>3, <1>4, <1>5, <1>6 DEF ToolNext

LEMMA LibraryCommandTyped ==
    ASSUME NEW c \in LibraryCommands, Types
    PROVE  c \in CommandSet /\ c.t >= now
<1>1. now..MaxTime \subseteq Nat /\ \A t \in now..MaxTime : t >= now
  BY BoundAssumption DEF BoundAssumption, Types
<1>2. <<>> \in Seq(Nat)
  OBVIOUS
<1>3. {"ACT", "RDA", "NOP", "REFP2B", "SREFEX"} \subseteq CommandTypes
  BY DEF CommandTypes, Named
<1>4. PICK t \in now..MaxTime, type \in {"ACT", "RDA", "NOP", "REFP2B", "SREFEX"}, b \in {0, 16} :
        c = [t |-> t, type |-> type, bank |-> b, data |-> <<>>]
  BY DEF LibraryCommands
<1> QED BY <1>1, <1>2, <1>3, <1>4 DEF CommandSet

LEMMA CallStep ==
    ASSUME Types, NEW c \in LibraryCommands, Call(c), UNCHANGED driver,
           \A h \in Handles : Exists(h)
    PROVE  Steps
<1>1. c \in CommandSet /\ c.t >= now /\ c.t \in Nat
  BY LibraryCommandTyped DEF CommandSet
<1> DEFINE d == drams["ddr"]
<1>2. Exists("ddr") /\ d \in DramSet
  BY HandleAssumption, ExistsTyped DEF HandleAssumption
<1>3. \E e : Commanded(d, e, c) /\ drams' = [drams EXCEPT !["ddr"] = e] /\ stream' = stream
  <2>1. CASE DoCoreCommand("ddr", c)
    BY <1>1, <1>2, <2>1, CommandDoes DEF DoCoreCommand, Called
  <2>2. CASE DoInterfaceCommand("ddr", c)
    BY <1>1, <1>2, <2>2, CommandDoes DEF DoInterfaceCommand, Called
  <2>3. CASE DoCommand("ddr", c)
    BY <1>1, <1>2, <2>3, CommandDoes DEF DoCommand, Called
  <2> QED BY <2>1, <2>2, <2>3 DEF Call
<1>4. Executes
  BY <1>1, <1>2, <1>3, HandleAssumption DEF HandleAssumption, Executes, Call, Commanded, Onward
<1> QED BY <1>4 DEF Steps

LEMMA SettingsStep ==
    ASSUME Types, NEW h \in Handles, Settings(h), UNCHANGED driver
    PROVE  Steps
<1>1. ASSUME NEW enable \in BOOLEAN, EnableDBI(h, enable)
      PROVE  Waits \/ Sets(h)
  <2>1. drams[h] \in DramSet /\ Exists(h)
    BY <1>1, ExistsTyped DEF EnableDBI
  <2>2. CASE Accepts(drams[h])
    BY <1>1, <2>1, <2>2 DEF EnableDBI, Called, Sets, Settings, SetAs, WithDBI
  <2>3. CASE ~Accepts(drams[h])
    BY <1>1, <2>1, <2>3 DEF EnableDBI, Called, Waits, Settings, Types
  <2> QED BY <2>2, <2>3
<1>2. ASSUME NEW meta \in {0, 1}, SetMetaData(h, meta)
      PROVE  Sets(h)
  BY <1>2 DEF SetMetaData, Called, Sets, Settings, SetAs, WithMeta
<1>3. ASSUME GetStats(h)
      PROVE  Asks(h)
  BY <1>3 DEF GetStats, Called, Asks, Settings
<1> QED BY <1>1, <1>2, <1>3 DEF Settings, Steps

LEMMA LibraryStep ==
    ASSUME Types, Library
    PROVE  Steps
<1>1. CASE \E h \in Handles : ~Exists(h)
  <2>1. PICK sheet \in Small : drams' = [h \in Handles |-> Constructed(sheet, FALSE)]
    BY <1>1 DEF Library
  <2>2. Constructs
    BY <1>1, <2>1 DEF Library, Constructs, GivenSheets
  <2> QED BY <2>2 DEF Library, Steps
<1>2. CASE \A h \in Handles : Exists(h)
  <2>1. ASSUME NEW c \in LibraryCommands, Call(c) PROVE Steps
    BY <1>2, <2>1, CallStep DEF Library
  <2>2. ASSUME NEW h \in Handles, Settings(h) PROVE Steps
    BY <2>2, SettingsStep DEF Library
  <2>3. ASSUME NEW h \in Handles, Serialize(h), UNCHANGED <<commands, now, restored>>
        PROVE  Steps
    <3>1. Saves(h)
      BY <2>3 DEF Serialize, Saves
    <3> QED BY <3>1 DEF Library, Steps
  <2>4. ASSUME NEW h \in Handles, Deserialize(h), restored' = restored \cup {h},
               UNCHANGED <<commands, now>>
        PROVE  Steps
    <3>1. Restores(h)
      BY <2>4 DEF Deserialize, Called, Restores
    <3> QED BY <3>1 DEF Library, Steps
  <2> QED BY <1>2, <2>1, <2>2, <2>3, <2>4 DEF Library
<1> QED BY <1>1, <1>2

LEMMA DatasheetStep ==
    ASSUME Types, Datasheet
    PROVE  Steps
<1>1. \A sheet \in AllSheets : sheet \in GivenSheets
  BY DEF GivenSheets
<1> QED BY <1>1, ConstructStep DEF Datasheet

LEMMA SavedTyped ==
    ASSUME NEW d \in DramSet
    PROVE  /\ Saved(d) \in SavedSet
           /\ Saved(d).standard = d.standard /\ Saved(d).extension = d.extension
           /\ Saved(d).core.done = d.core.done /\ Saved(d).core.last = d.core.last
           /\ Saved(d).interface.done = d.interface.done
           /\ Saved(d).interface.last = d.interface.last
           /\ d.standard = "DDR4" => Saved(d).dbi = <<d.interface.dbi>>
<1>1. (IF d.standard = "DDR4" THEN <<d.interface.dbi>> ELSE <<>>) \in {<<>>} \cup {<<b>> : b \in BOOLEAN}
  BY DEF DramSet, InterfaceSet
<1> QED BY <1>1 DEF Saved, SavedSet, DramSet, CoreSet, InterfaceSet

LEMMA RestoredTyped ==
    ASSUME NEW d \in DramSet, NEW s \in SavedSet
    PROVE  /\ Restored(d, s) \in DramSet
           /\ Restored(d, s).standard = d.standard /\ Restored(d, s).sheet = d.sheet
           /\ Restored(d, s).extension = s.extension
           /\ Restored(d, s).core.done = s.core.done /\ Restored(d, s).core.last = s.core.last
           /\ Restored(d, s).core.due = d.core.due
           /\ Restored(d, s).interface.done = s.interface.done
           /\ Restored(d, s).interface.last = s.interface.last
           /\ s.dbi # <<>> => Restored(d, s).interface.dbi = s.dbi[1]
<1>1. ValueOr(s.dbi, d.interface.dbi) \in BOOLEAN
  BY DEF ValueOr, SavedSet, DramSet, InterfaceSet
<1>2. s.dbi # <<>> => ValueOr(s.dbi, d.interface.dbi) = s.dbi[1]
  BY DEF ValueOr
<1> DEFINE dbi == ValueOr(s.dbi, d.interface.dbi)
           core == [d.core EXCEPT !.done = s.core.done, !.last = s.core.last]
           interface == [d.interface EXCEPT !.done = s.interface.done, !.last = s.interface.last,
                                            !.dbi = dbi]
           r == [d EXCEPT !.extension = s.extension, !.core = core, !.interface = interface]
<1>3. Restored(d, s) = r
  BY DEF Restored, DramSet, CoreSet, InterfaceSet
<1> HIDE DEF dbi
<1>4. core \in CoreSet /\ core.done = s.core.done /\ core.last = s.core.last
      /\ core.due = d.core.due
  BY DEF DramSet, CoreSet, SavedSet
<1>5. interface \in InterfaceSet /\ interface.done = s.interface.done
      /\ interface.last = s.interface.last /\ interface.dbi = dbi
  BY <1>1 DEF dbi, DramSet, InterfaceSet, SavedSet
<1> HIDE DEF core, interface
<1>6. /\ r \in DramSet /\ r.standard = d.standard /\ r.sheet = d.sheet
      /\ r.extension = s.extension /\ r.core = core /\ r.interface = interface
  BY <1>4, <1>5 DEF DramSet, SavedSet
<1> HIDE DEF r
<1> QED BY <1>2, <1>3, <1>4, <1>5, <1>6 DEF dbi

LEMMA SetsTyped ==
    ASSUME NEW d \in DramSet, NEW e, SetAs(d, e)
    PROVE  /\ e \in DramSet /\ e.core = d.core
           /\ e.standard = d.standard /\ e.sheet = d.sheet
           /\ e.interface.done = d.interface.done /\ e.interface.last = d.interface.last
           /\ \/ e.interface.dbi = e.extension.dbi
              \/ e.interface.dbi = d.interface.dbi /\ e.extension.dbi = d.extension.dbi
<1>1. ASSUME NEW enable \in BOOLEAN, e = WithDBI(d, enable)
      PROVE  /\ e \in DramSet /\ e.core = d.core
             /\ e.standard = d.standard /\ e.sheet = d.sheet
             /\ e.interface.done = d.interface.done /\ e.interface.last = d.interface.last
             /\ e.interface.dbi = e.extension.dbi
  <2> DEFINE interface == [d.interface EXCEPT !.dbi = enable]
             extension == [d.extension EXCEPT !.dbi = enable]
             f == [d EXCEPT !.interface = interface, !.extension = extension]
  <2>1. /\ interface \in InterfaceSet /\ extension \in Extension
        /\ interface.dbi = extension.dbi
        /\ interface.done = d.interface.done /\ interface.last = d.interface.last
    BY DEF DramSet, InterfaceSet, Extension
  <2>2. e = f
    BY <1>1 DEF WithDBI, DramSet, InterfaceSet, Extension
  <2> HIDE DEF interface, extension
  <2>3. /\ f \in DramSet /\ f.core = d.core /\ f.standard = d.standard /\ f.sheet = d.sheet
        /\ f.interface = interface /\ f.extension = extension
    BY <2>1 DEF DramSet
  <2> HIDE DEF f
  <2> QED BY <2>1, <2>2, <2>3
<1>2. ASSUME NEW meta \in {0, 1}, e = WithMeta(d, meta)
      PROVE  /\ e \in DramSet /\ e.core = d.core
             /\ e.standard = d.standard /\ e.sheet = d.sheet
             /\ e.interface.done = d.interface.done /\ e.interface.last = d.interface.last
             /\ e.interface.dbi = d.interface.dbi /\ e.extension.dbi = d.extension.dbi
  <2> DEFINE interface == [d.interface EXCEPT !.meta = meta]
             extension == [d.extension EXCEPT !.meta = meta]
             f == [d EXCEPT !.interface = interface, !.extension = extension]
  <2>1. /\ interface \in InterfaceSet /\ extension \in Extension
        /\ interface.dbi = d.interface.dbi /\ extension.dbi = d.extension.dbi
        /\ interface.done = d.interface.done /\ interface.last = d.interface.last
    BY DEF DramSet, InterfaceSet, Extension
  <2>2. e = f
    BY <1>2 DEF WithMeta, DramSet, InterfaceSet, Extension
  <2> HIDE DEF interface, extension
  <2>3. /\ f \in DramSet /\ f.core = d.core /\ f.standard = d.standard /\ f.sheet = d.sheet
        /\ f.interface = interface /\ f.extension = extension
    BY <2>1 DEF DramSet
  <2> HIDE DEF f
  <2> QED BY <2>1, <2>2, <2>3
<1> QED BY <1>1, <1>2 DEF SetAs

\* What a step makes of one object, or of a new one.
Asked(h) ==
    /\ Asks(h) /\ LastCommandTime(drams[h]) \in Nat
    /\ drams'[h] = WindowStats(drams[h], LastCommandTime(drams[h]))
RanCommand(h) ==
    /\ h = "ddr" /\ Executes
    /\ \E c \in CommandSet :
        /\ Commanded(drams[h], drams'[h], c)
        /\ driver = "library" => c.t >= now /\ now' = c.t
RestoredAs(h) ==
    /\ Restores(h) /\ stream \in SavedSet
    /\ drams'[h] = Restored(drams[h], stream)

LEMMA ObjectStep ==
    ASSUME Types, Steps, NEW h \in Handles, drams'[h] # drams[h]
    PROVE  \/ Constructs /\ BuiltAs(drams'[h])
           \/ /\ Exists(h) /\ drams[h] \in DramSet
              /\ \/ RanCommand(h)
                 \/ Asked(h)
                 \/ Sets(h) /\ SetAs(drams[h], drams'[h])
                 \/ RestoredAs(h)
<1>1. drams \in [Handles -> DramSet \cup {Nothing}]
  BY DEF Types
<1>2. CASE Constructs
  <2>1. PICK sheet \in GivenSheets, rates \in BOOLEAN :
        drams' \in {[g \in Handles |-> Constructed(sheet, rates)],
                   [drams EXCEPT !["ddr"] = Constructed(sheet, rates)]}
    BY <1>2 DEF Constructs
  <2>2. drams'[h] = Constructed(sheet, rates)
    BY <1>1, <2>1
  <2> QED BY <1>2, <2>2 DEF BuiltAs
<1>3. CASE Executes
  <2>1. PICK c \in CommandSet, e \in DramSet :
            /\ Commanded(drams["ddr"], e, c) /\ drams' = [drams EXCEPT !["ddr"] = e]
            /\ driver = "library" => c.t >= now /\ now' = c.t
    BY <1>3 DEF Executes
  <2>2. h = "ddr" /\ drams'[h] = e
    BY <1>1, <2>1
  <2>3. Exists(h) /\ drams[h] \in DramSet
    BY <1>3, <2>2, ExistsTyped DEF Executes
  <2>4. RanCommand(h)
    BY <1>3, <2>1, <2>2 DEF RanCommand
  <2> QED BY <2>3, <2>4
<1>4. ASSUME NEW g \in Handles, Asks(g) \/ Sets(g) \/ Saves(g) \/ Restores(g)
      PROVE  /\ Exists(h) /\ drams[h] \in DramSet
             /\ \/ Asked(h)
                \/ Sets(h) /\ SetAs(drams[h], drams'[h])
                \/ RestoredAs(h)
  <2>1. g = h
    BY <1>1, <1>4 DEF Asks, Sets, Saves, Restores
  <2>2. Exists(h) /\ drams[h] \in DramSet
    BY <1>4, <2>1, ExistsTyped DEF Asks, Sets, Saves, Restores
  <2>3. CASE Asks(h)
    <3>1. LastCommandTime(drams[h]) \in Nat
      BY <2>2 DEF LastCommandTime, Larger, DramSet, CoreSet, InterfaceSet
    <3> QED BY <1>1, <2>2, <2>3, <3>1 DEF Asks, Asked
  <2>4. CASE Sets(h)
    <3>1. PICK e : SetAs(drams[h], e) /\ drams' = [drams EXCEPT ![h] = e]
      BY <2>4 DEF Sets
    <3>2. drams'[h] = e
      BY <1>1, <3>1
    <3> QED BY <2>2, <2>4, <3>1, <3>2
  <2>5. CASE Restores(h)
    <3>1. stream \in SavedSet
      BY <2>2, <2>5, DramsDiffer DEF Restores, Types, DramSet
    <3> QED BY <1>1, <2>2, <2>5, <3>1 DEF Restores, RestoredAs
  <2>6. ~Saves(h)
    BY DEF Saves
  <2> QED BY <1>4, <2>1, <2>3, <2>4, <2>5, <2>6
<1> QED BY <1>2, <1>3, <1>4 DEF Steps, Waits

LEMMA ObjectsTyped ==
    ASSUME Types, Steps
    PROVE  /\ drams' \in [Handles -> DramSet \cup {Nothing}]
           /\ stream' \in SavedSet \cup {Nothing} /\ now' \in Nat
<1>1. drams' \in [Handles -> DramSet \cup {Nothing}]
  <2>1. ASSUME NEW h \in Handles
        PROVE  drams'[h] \in DramSet \cup {Nothing}
    <3>1. CASE drams'[h] = drams[h]
      BY <3>1 DEF Types
    <3>2. ASSUME BuiltAs(drams'[h]) PROVE drams'[h] \in DramSet
      BY <3>2, ConstructedDram DEF BuiltAs
    <3>3. ASSUME RanCommand(h) PROVE drams'[h] \in DramSet
      BY <3>3 DEF RanCommand, Commanded, Onward
    <3>4. ASSUME drams[h] \in DramSet, Asked(h) PROVE drams'[h] \in DramSet
      BY <3>4, WindowStatsDoes DEF Asked, Onward
    <3>5. ASSUME drams[h] \in DramSet, SetAs(drams[h], drams'[h])
          PROVE  drams'[h] \in DramSet
      BY <3>5, SetsTyped
    <3>6. ASSUME drams[h] \in DramSet, RestoredAs(h) PROVE drams'[h] \in DramSet
      BY <3>6, RestoredTyped DEF RestoredAs
    <3> QED BY <3>1, <3>2, <3>3, <3>4, <3>5, <3>6, ObjectStep
  <2>2. drams' = [h \in Handles |-> drams'[h]]
    BY DEF Types, Steps, Waits, Constructs, Executes, Asks, Sets, Saves, Restores
  <2> QED BY <2>1, <2>2
<1>2. stream' \in SavedSet \cup {Nothing}
  <2>1. ASSUME NEW h \in Handles, Saves(h) PROVE stream' \in SavedSet
    BY <2>1, ExistsTyped, SavedTyped DEF Saves
  <2> QED BY <2>1 DEF Types, Steps, Waits, Constructs, Executes, Asks, Sets, Restores
<1>3. now' \in Nat
  BY DEF Types, Steps, Waits, Constructs, Executes, Asks, Sets, Saves, Restores
<1> QED BY <1>1, <1>2, <1>3

\* Every step of the tool and of the programs that use the library is one of
\* those above, and keeps the types.
LEMMA NextStep ==
    ASSUME Types, [Next]_vars
    PROVE  Steps /\ Types'
<1>1. CASE Tool
  BY <1>1, ToolStep, ObjectsTyped DEF Types
<1>2. CASE Library
  BY <1>2, LibraryStep, ObjectsTyped DEF Types, Library, toolVars
<1>3. CASE Datasheet
  BY <1>3, DatasheetStep, ObjectsTyped DEF Types, Datasheet, toolVars
<1>4. CASE UNCHANGED vars
  BY <1>4 DEF vars, dramVars, toolVars, Types, Steps, Waits
<1> QED BY <1>1, <1>2, <1>3, <1>4 DEF Next

LEMMA InitTypes == Init => Types /\ \A h \in Handles : ~Exists(h)
BY DEF Init, DramInit, ToolInit, Types, Exists
-----------------------------------------------------------------------------
(* The DBI extension                                                       *)

\* A stream that a DDR4 object wrote has the setting that its extension has.
Agrees ==
    /\ ExtensionAgrees
    /\ stream.standard = "DDR4" => stream.dbi = <<stream.extension.dbi>>

LEMMA AgreesStep ==
    ASSUME Types, Agrees, Steps
    PROVE  Agrees'
<1>1. (stream.standard = "DDR4" => stream.dbi = <<stream.extension.dbi>>)'
  <2>1. CASE stream' = stream
    BY <2>1 DEF Agrees
  <2>2. ASSUME NEW h \in Handles, Saves(h), stream'.standard = "DDR4"
        PROVE  stream'.dbi = <<stream'.extension.dbi>>
    <3>1. Exists(h) /\ drams[h] \in DramSet /\ stream' = Saved(drams[h])
      BY <2>2, ExistsTyped DEF Saves
    <3>2. drams[h].standard = "DDR4"
      BY <2>2, <3>1, SavedTyped
    <3>3. drams[h].extension.dbi = drams[h].interface.dbi
      BY <3>1, <3>2 DEF Agrees, ExtensionAgrees
    <3> QED BY <3>1, <3>2, <3>3, SavedTyped
  <2> QED BY <2>1, <2>2 DEF Steps, Waits, Constructs, Executes, Asks, Sets, Restores
<1>2. ASSUME NEW h \in Handles, Exists(h)', h \in restored' => drams'[h].standard = "DDR4"
      PROVE  drams'[h].extension.dbi = drams'[h].interface.dbi
  <2>0. h \in restored => h \in restored'
    BY DEF Steps, Waits, Constructs, Executes, Asks, Sets, Saves, Restores
  <2>1. CASE drams'[h] = drams[h]
    BY <1>2, <2>0, <2>1 DEF Agrees, ExtensionAgrees, Exists
  <2>2. ASSUME BuiltAs(drams'[h])
        PROVE  drams'[h].extension.dbi = drams'[h].interface.dbi
    BY <2>2, ConstructedDram DEF BuiltAs
  <2>3. ASSUME Exists(h), drams'[h].standard = drams[h].standard,
               drams'[h].extension.dbi = drams[h].extension.dbi,
               drams'[h].interface.dbi = drams[h].interface.dbi
        PROVE  drams'[h].extension.dbi = drams'[h].interface.dbi
    BY <1>2, <2>0, <2>3 DEF Agrees, ExtensionAgrees
  <2>4. ASSUME Exists(h), drams[h] \in DramSet, Asked(h)
        PROVE  drams'[h].extension.dbi = drams'[h].interface.dbi
    BY <2>3, <2>4, WindowStatsDoes DEF Asked, Onward
  <2>5. ASSUME Exists(h), drams[h] \in DramSet, SetAs(drams[h], drams'[h])
        PROVE  drams'[h].extension.dbi = drams'[h].interface.dbi
    BY <2>3, <2>5, SetsTyped
  <2>6. ASSUME Exists(h), drams[h] \in DramSet, RestoredAs(h)
        PROVE  drams'[h].extension.dbi = drams'[h].interface.dbi
    <3>1. stream.standard = "DDR4" /\ stream \in SavedSet
      BY <1>2, <2>6, RestoredTyped DEF RestoredAs, Restores
    <3>2. stream.dbi = <<stream.extension.dbi>>
      BY <3>1 DEF Agrees
    <3>3. stream.dbi # <<>> /\ stream.dbi[1] = stream.extension.dbi
      BY <3>2
    <3> QED BY <2>6, <3>1, <3>3, RestoredTyped DEF RestoredAs
  <2>7. ASSUME Exists(h), RanCommand(h)
        PROVE  drams'[h].extension.dbi = drams'[h].interface.dbi
    BY <2>3, <2>7 DEF RanCommand, Commanded, Onward
  <2> QED BY <2>1, <2>2, <2>4, <2>5, <2>6, <2>7, ObjectStep
<1> QED BY <1>1, <1>2 DEF Agrees, ExtensionAgrees

\* The DBI extension agrees with the interface it switches, whatever was
\* switched, refused, saved and restored (extensions.cpp, DDR4Interface.cpp).
THEOREM ExtensionTellsTheTruth == Spec => []ExtensionAgrees
<1>1. Init => Types /\ Agrees
  <2> SUFFICES ASSUME Init PROVE Types /\ Agrees
    OBVIOUS
  <2>1. stream.standard # "DDR4"
    BY DEF Init, DramInit, Nothing
  <2> QED BY <2>1, InitTypes DEF Agrees, ExtensionAgrees
<1>2. Types /\ Agrees /\ [Next]_vars => (Types /\ Agrees)'
  BY NextStep, AgreesStep
<1>3. Agrees => ExtensionAgrees
  BY DEF Agrees
<1> QED BY <1>1, <1>2, <1>3, PTL DEF Spec
-----------------------------------------------------------------------------
(* The time statistics are asked at                                        *)

\* What a part executed is in order, and not after its time, nor that after t.
InOrder(part, t) ==
    /\ part.last <= t
    /\ \A i \in DOMAIN part.done :
        /\ part.done[i].t <= part.last
        /\ i > 1 => part.done[i - 1].t <= part.done[i].t

CoresBy(t) ==
    /\ \A h \in Handles : Exists(h) => drams[h].core.last <= t
    /\ stream # Nothing => stream.core.last <= t

\* An implicit command that is queued is due after every core's time, that of the
\* stream included: a core that executes it does not step back, and one that is
\* restored before that is not ahead of it.  Only "ddr" is given commands.
Chronicle ==
    /\ \A h \in Handles : Exists(h) =>
        /\ InOrder(drams[h].core, now) /\ InOrder(drams[h].interface, now)
        /\ drams[h].core.due = 0 \/ (h = "ddr" /\ CoresBy(drams[h].core.due))
    /\ stream # Nothing => InOrder(stream.core, now) /\ InOrder(stream.interface, now)

LEMMA InOrderLater ==
    ASSUME NEW part, part.last \in Nat, NEW t \in Nat, NEW u \in Nat, t <= u, InOrder(part, t)
    PROVE  InOrder(part, u)
BY DEF InOrder

LEMMA InOrderMoved ==
    ASSUME NEW part, NEW moved, NEW t \in Nat, NEW u \in Nat,
           part.done \in Seq(CommandSet), part.last \in Nat, moved.last \in Nat,
           InOrder(part, t), moved.done = part.done,
           part.last <= moved.last, moved.last <= u
    PROVE  InOrder(moved, u)
<1>1. \A i \in DOMAIN part.done : part.done[i].t \in Nat
  <2>1. \A i \in DOMAIN part.done : part.done[i] \in CommandSet
    OBVIOUS
  <2> QED BY <2>1 DEF CommandSet
<1>2. \A i \in DOMAIN part.done : part.done[i].t <= moved.last
  <2> TAKE i \in DOMAIN part.done
  <2>1. part.done[i].t \in Nat /\ part.done[i].t <= part.last
    BY <1>1 DEF InOrder
  <2> QED BY <2>1
<1>3. \A i \in DOMAIN moved.done :
        /\ moved.done[i].t <= moved.last
        /\ i > 1 => moved.done[i - 1].t <= moved.done[i].t
  BY <1>2 DEF InOrder
<1> QED BY <1>3 DEF InOrder

LEMMA InOrderReached ==
    ASSUME NEW p, NEW q, NEW c \in CommandSet, NEW t \in Nat,
           p.done \in Seq(CommandSet), p.last \in Nat,
           InOrder(p, t), t <= c.t, Reached(p, q, c, c.t)
    PROVE  InOrder(q, c.t)
<1>1. c.t \in Nat /\ q.last = c.t /\ q.done \in {Append(p.done, c), p.done}
  BY DEF CommandSet, Reached
<1>2. CASE q.done = p.done
  <2>1. p.last <= c.t
    BY <1>1 DEF InOrder
  <2> QED BY <1>1, <1>2, <2>1, InOrderMoved
<1>3. CASE q.done = Append(p.done, c)
  <2> DEFINE n == Len(p.done)
  <2>1. n \in Nat /\ DOMAIN p.done = 1..n /\ DOMAIN q.done = 1..(n + 1)
    BY <1>3
  <2>2. \A i \in 1..n : q.done[i] = p.done[i] /\ q.done[i] \in CommandSet
    BY <1>3
  <2>3. q.done[n + 1] = c
    BY <1>3
  <2> HIDE DEF n
  <2>4. \A i \in 1..n : q.done[i].t \in Nat /\ q.done[i].t <= c.t
    <3> TAKE i \in 1..n
    <3>1. p.done[i].t \in Nat /\ p.done[i].t <= p.last
      BY <2>1, <2>2 DEF InOrder, CommandSet
    <3> QED BY <1>1, <2>2, <3>1 DEF InOrder
  <2>5. \A i \in 1..(n + 1) : i \in 1..n \/ i = n + 1
    BY <2>1
  <2>6. \A i \in 1..n : i > 1 => q.done[i - 1].t <= q.done[i].t
    <3> TAKE i \in 1..n
    <3> HAVE i > 1
    <3>1. i - 1 \in 1..n
      BY <2>1
    <3> QED BY <2>1, <2>2, <3>1 DEF InOrder
  <2>7. n + 1 > 1 => q.done[n + 1 - 1].t <= q.done[n + 1].t
    <3>1. n > 0 => n \in 1..n /\ n + 1 - 1 = n
      BY <2>1
    <3> QED BY <2>1, <2>3, <2>4, <3>1
  <2> QED BY SMTT(30), <1>1, <2>1, <2>3, <2>4, <2>5, <2>6, <2>7 DEF InOrder
<1> QED BY <1>1, <1>2, <1>3

LEMMA ChronicleStep ==
    ASSUME Types, driver = "library", Chronicle, Steps
    PROVE  Chronicle'
<1>1. now \in Nat /\ now' \in Nat /\ now <= now'
  <2>1. CASE Executes
    <3>1. PICK c \in CommandSet : c.t >= now /\ now' = c.t
      BY <2>1 DEF Executes
    <3> QED BY <3>1 DEF Types, CommandSet
  <2> QED BY <2>1 DEF Types, Steps, Waits, Constructs, Asks, Sets, Saves, Restores
<1>2. ASSUME NEW h \in Handles, Exists(h)
      PROVE  /\ drams[h] \in DramSet
             /\ drams[h].core.last \in Nat /\ drams[h].core.due \in Nat
             /\ drams[h].interface.last \in Nat
             /\ drams[h].core.done \in Seq(CommandSet) /\ drams[h].interface.done \in Seq(CommandSet)
             /\ InOrder(drams[h].core, now) /\ InOrder(drams[h].interface, now)
  BY <1>2, ExistsTyped DEF DramSet, CoreSet, InterfaceSet, Chronicle
<1>3. ASSUME stream # Nothing
      PROVE  /\ stream \in SavedSet
             /\ stream.core.last \in Nat /\ stream.interface.last \in Nat
             /\ stream.core.done \in Seq(CommandSet) /\ stream.interface.done \in Seq(CommandSet)
             /\ InOrder(stream.core, now) /\ InOrder(stream.interface, now)
  BY <1>3 DEF Types, SavedSet, Chronicle
<1>4. ASSUME NEW h \in Handles, Exists(h)'
      PROVE  InOrder(drams'[h].core, now') /\ InOrder(drams'[h].interface, now')
  <2>1. CASE drams'[h] = drams[h]
    <3>1. Exists(h)
      BY <1>4, <2>1 DEF Exists
    <3> QED BY <1>1, <1>2, <2>1, <3>1, InOrderLater
  <2>2. CASE BuiltAs(drams'[h])
    BY <1>1, <2>2, ConstructedDram DEF BuiltAs, InOrder
  <2>3. CASE Exists(h) /\ RanCommand(h)
    <3>1. PICK c \in CommandSet : /\ Commanded(drams[h], drams'[h], c)
                                  /\ c.t >= now /\ now' = c.t
      BY <2>3 DEF RanCommand
    <3>2. c.t \in Nat /\ Larger(drams[h].core.last, c.t) = c.t
      BY <1>1, <1>2, <2>3, <3>1 DEF InOrder, Larger, CommandSet
    <3>3. /\ drams'[h].core = drams[h].core \/ Reached(drams[h].core, drams'[h].core, c, c.t)
          /\ \/ drams'[h].interface = drams[h].interface
             \/ Reached(drams[h].interface, drams'[h].interface, c, c.t)
      BY <3>1, <3>2 DEF Commanded
    <3>4. InOrder(drams'[h].core, now')
      BY <1>1, <1>2, <2>3, <3>1, <3>2, <3>3, InOrderLater, InOrderReached
    <3>5. InOrder(drams'[h].interface, now')
      BY <1>1, <1>2, <2>3, <3>1, <3>2, <3>3, InOrderLater, InOrderReached
    <3> QED BY <3>4, <3>5
  <2>4. CASE Exists(h) /\ Asked(h)
    <3>1. /\ drams'[h].interface = drams[h].interface
          /\ drams'[h].core.done = drams[h].core.done
          /\ \/ drams'[h].core = drams[h].core
             \/ /\ drams[h].core.due # 0 /\ drams[h].core.due <= LastCommandTime(drams[h])
                /\ drams'[h].core.last = drams[h].core.due
      BY <1>2, <2>4, WindowStatsDoes DEF Asked
    <3>2. now' = now /\ LastCommandTime(drams[h]) <= now
      BY <1>1, <1>2, <2>4 DEF Asked, Asks, LastCommandTime, Larger, InOrder
    <3>3. CASE drams'[h].core = drams[h].core
      BY <1>2, <2>4, <3>1, <3>2, <3>3
    <3>4. CASE drams'[h].core # drams[h].core
      <4>1. drams[h].core.last <= drams[h].core.due
        BY <2>4, <3>1, <3>4 DEF Chronicle, CoresBy
      <4>2. LastCommandTime(drams[h]) \in Nat
        BY <2>4 DEF Asked
      <4>3. drams[h].core.due <= now
        BY <1>1, <1>2, <2>4, <3>1, <3>2, <3>4, <4>2
      <4>4. InOrder(drams'[h].core, now)
        BY <1>1, <1>2, <2>4, <3>1, <3>4, <4>1, <4>3, InOrderMoved
      <4> QED BY <1>2, <2>4, <3>1, <3>2, <4>4
    <3> QED BY <3>3, <3>4
  <2>5. CASE Exists(h) /\ Sets(h) /\ SetAs(drams[h], drams'[h])
    <3>1. /\ drams'[h].core = drams[h].core
          /\ drams'[h].interface.done = drams[h].interface.done
          /\ drams'[h].interface.last = drams[h].interface.last /\ now' = now
      BY <1>2, <2>5, SetsTyped DEF Sets
    <3> QED BY <1>1, <1>2, <2>5, <3>1, InOrderMoved DEF InOrder
  <2>6. CASE Exists(h) /\ RestoredAs(h)
    <3>1. stream # Nothing
      BY <1>2, <2>6, DramsDiffer DEF RestoredAs, Restores, DramSet
    <3>2. /\ drams'[h].core.done = stream.core.done /\ drams'[h].core.last = stream.core.last
          /\ drams'[h].interface.done = stream.interface.done
          /\ drams'[h].interface.last = stream.interface.last /\ now' = now
      BY <1>2, <2>6, RestoredTyped DEF RestoredAs, Restores
    <3> QED BY <1>1, <1>3, <3>1, <3>2, InOrderMoved DEF InOrder
  <2> QED BY <2>1, <2>2, <2>3, <2>4, <2>5, <2>6, ObjectStep
<1>5. stream' # Nothing => InOrder(stream'.core, now') /\ InOrder(stream'.interface, now')
  <2>1. CASE stream' = stream
    BY <1>1, <1>3, <2>1, InOrderLater
  <2>2. ASSUME NEW h \in Handles, Saves(h)
        PROVE  InOrder(stream'.core, now') /\ InOrder(stream'.interface, now')
    <3>1. /\ stream'.core.done = drams[h].core.done /\ stream'.core.last = drams[h].core.last
          /\ stream'.interface.done = drams[h].interface.done
          /\ stream'.interface.last = drams[h].interface.last /\ now' = now
      BY <1>2, <2>2, SavedTyped DEF Saves
    <3> QED BY <1>1, <1>2, <2>2, <3>1, InOrderMoved DEF InOrder, Saves
  <2> QED BY <2>1, <2>2 DEF Steps, Waits, Constructs, Executes, Asks, Sets, Restores
<1>6. ASSUME NEW h \in Handles, Exists(h)', drams'[h].core.due # 0
      PROVE  /\ Exists(h) /\ h = "ddr"
             /\ drams'[h].core.due = drams[h].core.due \/ RanCommand(h)
  <2>1. CASE drams'[h] = drams[h]
    <3>1. Exists(h)
      BY <1>6, <2>1 DEF Exists
    <3> QED BY <1>6, <2>1, <3>1 DEF Chronicle
  <2>2. CASE BuiltAs(drams'[h])
    BY <1>6, <2>2, ConstructedDram DEF BuiltAs
  <2>3. CASE Exists(h) /\ RanCommand(h)
    BY <2>3 DEF RanCommand
  <2>4. CASE Exists(h) /\ Asked(h)
    <3>1. drams'[h].core = drams[h].core
      BY <1>2, <1>6, <2>4, WindowStatsDoes DEF Asked
    <3> QED BY <1>6, <2>4, <3>1 DEF Chronicle
  <2>5. CASE Exists(h) /\ Sets(h) /\ SetAs(drams[h], drams'[h])
    <3>1. drams'[h].core = drams[h].core
      BY <1>2, <2>5, SetsTyped
    <3> QED BY <1>6, <2>5, <3>1 DEF Chronicle
  <2>6. CASE Exists(h) /\ RestoredAs(h)
    <3>1. drams'[h].core.due = drams[h].core.due
      BY <1>2, <2>6, RestoredTyped DEF RestoredAs
    <3> QED BY <1>6, <2>6, <3>1 DEF Chronicle
  <2> QED BY <2>1, <2>2, <2>3, <2>4, <2>5, <2>6, ObjectStep
\* The time of a core is one it had, or that of the stream, unless it executed.
<1>7. ASSUME NEW h \in Handles, NEW g \in Handles, Exists(g)',
             drams'[h].core.due # 0, Exists(h)', ~RanCommand(h)
      PROVE  \/ Exists(g) /\ drams'[g].core.last = drams[g].core.last
             \/ stream # Nothing /\ drams'[g].core.last = stream.core.last
  <2>1. CASE drams'[g] = drams[g]
    BY <1>7, <2>1 DEF Exists
  <2>2. ~Constructs /\ h = "ddr" /\ Exists(h)
    <3>1. h = "ddr" /\ Exists(h) /\ drams[h] \in DramSet
      BY <1>2, <1>6, <1>7
    <3>2. ASSUME Constructs PROVE FALSE
      <4>1. PICK sheet \in GivenSheets, rates \in BOOLEAN :
                drams' \in {[k \in Handles |-> Constructed(sheet, rates)],
                            [drams EXCEPT !["ddr"] = Constructed(sheet, rates)]}
        BY <3>2 DEF Constructs
      <4>2. drams'[h] = Constructed(sheet, rates)
        BY <3>1, <4>1 DEF Types
      <4> QED BY <1>7, <4>2, ConstructedDram
    <3> QED BY <3>1, <3>2
  <2>3. CASE Exists(g) /\ Asked(g)
    <3>1. drams[g].core.due = 0 \/ g = h
      BY <2>2, <2>3 DEF Chronicle
    <3>2. g = h => drams'[g].core.due # 0
      BY <1>7
    <3>3. drams'[g].core = drams[g].core
      BY <1>2, <2>3, <3>1, <3>2, WindowStatsDoes DEF Asked
    <3> QED BY <2>3, <3>3
  <2>4. CASE Exists(g) /\ Sets(g) /\ SetAs(drams[g], drams'[g])
    BY <1>2, <2>4, SetsTyped
  <2>5. CASE Exists(g) /\ RestoredAs(g)
    <3>1. stream # Nothing
      BY <1>2, <2>5, DramsDiffer DEF RestoredAs, Restores, DramSet
    <3> QED BY <1>2, <2>5, <3>1, RestoredTyped DEF RestoredAs
  <2>6. ~RanCommand(g)
    BY <1>7, <2>2 DEF RanCommand
  <2> QED BY <2>1, <2>2, <2>3, <2>4, <2>5, <2>6, ObjectStep
<1>8. stream' # Nothing =>
        \/ stream # Nothing /\ stream'.core.last = stream.core.last
        \/ \E g \in Handles : Exists(g) /\ stream'.core.last = drams[g].core.last
  <2>1. ASSUME NEW g \in Handles, Saves(g)
        PROVE  Exists(g) /\ stream'.core.last = drams[g].core.last
    BY <1>2, <2>1, SavedTyped DEF Saves
  <2> QED BY <2>1 DEF Steps, Waits, Constructs, Executes, Asks, Sets, Restores
<1>9. ASSUME NEW h \in Handles, Exists(h)', drams'[h].core.due # 0
      PROVE  /\ \A g \in Handles : Exists(g)' => drams'[g].core.last <= drams'[h].core.due
             /\ stream' # Nothing => stream'.core.last <= drams'[h].core.due
  <2>1. Exists(h) /\ h = "ddr"
    BY <1>6, <1>9
  <2>2. CASE drams'[h].core = drams[h].core \/ ~RanCommand(h)
    <3>1. drams'[h].core.due = drams[h].core.due /\ CoresBy(drams[h].core.due)
      BY <1>6, <1>9, <2>1, <2>2 DEF Chronicle
    <3>2. ASSUME NEW g \in Handles, Exists(g)'
          PROVE  drams'[g].core.last <= drams[h].core.due
      <4>1. CASE RanCommand(h)
        <5>1. g # h => drams'[g] = drams[g]
          BY <2>1, <4>1 DEF RanCommand, Executes, Types
        <5> QED BY <2>1, <2>2, <3>1, <3>2, <4>1, <5>1 DEF CoresBy, Exists
      <4>2. CASE ~RanCommand(h)
        BY <1>7, <1>9, <3>1, <3>2, <4>2 DEF CoresBy
      <4> QED BY <4>1, <4>2
    <3> QED BY <1>8, <3>1, <3>2 DEF CoresBy
  <2>3. CASE drams'[h].core # drams[h].core /\ RanCommand(h)
    <3>1. PICK c \in CommandSet : /\ Commanded(drams[h], drams'[h], c)
                                  /\ c.t >= now /\ now' = c.t
      BY <2>3 DEF RanCommand
    <3>2. c.t \in Nat /\ Larger(drams[h].core.last, c.t) = c.t
      BY <1>1, <1>2, <2>1, <3>1 DEF InOrder, Larger, CommandSet
    <3>3. \/ drams'[h].core.due = c.t + Delay
          \/ (drams'[h].core.due = drams[h].core.due /\ drams[h].core.due > c.t)
      BY <1>9, <2>3, <3>1 DEF Commanded
    <3>4. drams'[h].core.due \in Nat /\ c.t <= drams'[h].core.due
      BY <1>2, <2>1, <3>2, <3>3, DelayAssumption DEF DelayAssumption
    <3>5. ASSUME NEW g \in Handles, Exists(g)'
          PROVE  drams'[g].core.last <= c.t /\ drams'[g].core.last \in Nat
      <4>1. CASE g = h
        <5>1. drams'[h].core.last = Larger(drams[h].core.last, c.t)
          BY <2>3, <3>1 DEF Commanded, Reached
        <5> QED BY <3>2, <4>1, <5>1
      <4>2. CASE g # h
        <5>1. drams'[g] = drams[g]
          BY <2>1, <2>3, <4>2 DEF RanCommand, Executes, Types
        <5>2. Exists(g)
          BY <3>5, <5>1 DEF Exists
        <5> QED BY <1>1, <1>2, <3>1, <3>2, <5>1, <5>2 DEF InOrder
      <4> QED BY <4>1, <4>2
    <3>6. stream' # Nothing => stream'.core.last <= c.t /\ stream'.core.last \in Nat
      <4>1. stream' = stream
        BY <2>3 DEF RanCommand, Executes
      <4> QED BY <1>1, <1>3, <3>1, <3>2, <4>1 DEF InOrder
    <3> QED BY <3>2, <3>4, <3>5, <3>6
  <2> QED BY <2>2, <2>3
<1>10. \A h \in Handles : Exists(h)' => drams'[h].core.due = 0 \/ h = "ddr"
  BY <1>6
<1> QED BY <1>4, <1>5, <1>9, <1>10 DEF Chronicle, CoresBy, Exists

\* Statistics are asked for at a time that is not before what was executed and
\* not after the latest call, and each part executed in order (dram_base.h).
THEOREM AskedNoEarlier == Spec => []AskedInTime
<1> DEFINE Inv == Types /\ (driver = "library" => Chronicle)
<1>1. Init => Inv
  BY InitTypes DEF Init, DramInit, Chronicle
<1>2. Inv /\ [Next]_vars => Inv'
  BY NextStep, ChronicleStep DEF Steps
<1>3. Inv => AskedInTime
  <2> SUFFICES ASSUME Inv, driver = "library", NEW h \in Handles, Exists(h)
               PROVE  LET d == drams[h]
                      IN  /\ LastCommandTime(d) <= now
                          /\ \A done \in {d.core.done, d.interface.done} :
                              \A i \in DOMAIN done :
                                  /\ done[i].t <= LastCommandTime(d)
                                  /\ i > 1 => done[i - 1].t <= done[i].t
    BY DEF AskedInTime
  <2> DEFINE d == drams[h]
             last == LastCommandTime(d)
  <2>1. /\ d.core.last \in Nat /\ d.interface.last \in Nat
        /\ d.core.done \in Seq(CommandSet) /\ d.interface.done \in Seq(CommandSet)
        /\ InOrder(d.core, now) /\ InOrder(d.interface, now) /\ now \in Nat
    BY ExistsTyped DEF Types, DramSet, CoreSet, InterfaceSet, Chronicle
  <2>2. /\ last \in Nat /\ last <= now
        /\ d.core.last <= last /\ d.interface.last <= last
    BY <2>1 DEF LastCommandTime, Larger, InOrder
  <2> HIDE DEF last
  <2>3. ASSUME NEW part, part.done \in Seq(CommandSet), InOrder(part, now), part.last \in Nat,
               part.last <= last
        PROVE  \A i \in DOMAIN part.done :
                    /\ part.done[i].t <= last
                    /\ i > 1 => part.done[i - 1].t <= part.done[i].t
    <3> DEFINE moved == [done |-> part.done, last |-> last]
    <3>1. moved.done = part.done /\ moved.last = last
      OBVIOUS
    <3> HIDE DEF moved
    <3>2. InOrder(moved, last)
      BY <2>1, <2>2, <2>3, <3>1, InOrderMoved
    <3> QED BY <3>1, <3>2 DEF InOrder
  <2> QED BY <2>1, <2>2, <2>3 DEF last
<1> QED BY <1>1, <1>2, <1>3, PTL DEF Spec
-----------------------------------------------------------------------------
(* Memory specifications                                                   *)

\* The banks that a same-bank command of DDR5 reaches, one in every group.
LEMMA SameBankExists ==
    ASSUME NEW banks \in Nat, NEW groups \in Nat, banks \div groups # 0,
           NEW b \in 0..banks, NEW g \in 0..(groups - 1)
    PROVE  g * (banks \div groups) + (b % (banks \div groups)) \in 0..(banks - 1)
<1> DEFINE n == banks \div groups
           r == b % n
<1>1. groups \in Nat \ {0} /\ g \in Nat /\ b \in Nat /\ g + 1 <= groups
  OBVIOUS
<1>2. n \in Nat \ {0} /\ groups * n <= banks
  BY <1>1
<1> HIDE DEF n
<1>3. r \in Nat /\ r < n
  BY <1>1, <1>2
<1> HIDE DEF r
<1>4. (g + 1) * n <= groups * n
  BY <1>1, <1>2
<1>5. (g + 1) * n = g * n + n /\ g * n \in Nat /\ groups * n \in Nat
  BY <1>1, <1>2
<1>6. g * n + r \in 0..(banks - 1)
  BY <1>2, <1>3, <1>4, <1>5
<1> QED BY <1>6 DEF n, r

\* What the guards of the cores leave to the three commands.
LEMMA BanksOfDoneExist ==
    ASSUME NEW d \in DramSet, Organised(d.sheet), d.standard = d.sheet.standard,
           NEW type \in {"REFP2B", "PRESB", "REFSB"},
           NEW b \in 0..SpecOf(d.sheet).common.numberOfBanks, NEW c,
           c.type = type, c.bank = b, "done" \in CoreOutcomes(d, c)
    PROVE  BanksReached(SpecOf(d.sheet), type, b)
               \subseteq 0..(SpecOf(d.sheet).common.numberOfBanks - 1)
<1> DEFINE s == SpecOf(d.sheet)
<1>1. type \in CoreTypes(d.standard) /\ ~NoPairs(d, c) /\ ~NoBank(d, c) /\ ~NoBankInGroup(d, c)
  BY DEF CoreOutcomes, Unsupported, Asserted
<1>2. ~(b >= s.common.numberOfBanks)
  BY <1>1 DEF NoBank, Checked
<1>3. CASE type = "REFP2B"
  <2>1. d.standard = "LPDDR5"
    BY <1>1, <1>3 DEF CoreTypes, Everywhere, Banked, PowerDownsAndSleep, Organised, Standards
  <2>2. /\ s.common.numberOfBanks = BankArchitecture(d.sheet).numberOfBanks
        /\ s.perTwoBankOffset = 8
        /\ MemSpecLPDDR5(d.sheet).bank_arch = BankArchitecture(d.sheet).bank_arch
    BY <2>1 DEF SpecOf, MemSpecLPDDR5, Common
  <2>3. BankArchitecture(d.sheet).numberOfBanks = 16
    BY <1>1, <1>3, <2>2 DEF NoPairs, BankArchitecture, Architecture
  <2>4. b \in 0..15 /\ (b + 8) % 16 \in 0..15
    BY <1>2, <2>2, <2>3
  <2> QED BY <1>3, <2>2, <2>3, <2>4 DEF BanksReached
<1>4. CASE type # "REFP2B"
  <2>1. d.standard = "DDR5"
    BY <1>1, <1>4 DEF CoreTypes, Everywhere, Banked, PowerDownsAndSleep, Organised, Standards
  <2> DEFINE banks == d.sheet.nbrOfBanks
             groups == d.sheet.nbrOfBankGroups
  <2>2. /\ s.common.numberOfBanks = banks /\ s.common.numberOfBankGroups = groups
        /\ s.banksPerGroup = banks \div groups
        /\ MemSpecDDR5(d.sheet).banksPerGroup = banks \div groups
    BY <2>1 DEF SpecOf, MemSpecDDR5, Common, banksPerGroup
  <2>3. banks \in Nat /\ groups \in Nat /\ banks \div groups # 0 /\ b \in 0..banks
    BY <1>1, <1>4, <2>2 DEF Organised, NoBankInGroup
  <2> HIDE DEF banks, groups, s
  <2>4. \A g \in 0..(groups - 1) :
            g * (banks \div groups) + (b % (banks \div groups)) \in 0..(banks - 1)
    BY <2>3, SameBankExists
  <2>5. BanksReached(s, type, b) \subseteq 0..(banks - 1)
    BY <1>4, <2>2, <2>4 DEF BanksReached
  <2> QED BY <2>2, <2>5 DEF s
<1> QED BY <1>3, <1>4

SheetsOwn == \A h \in Handles : Exists(h) => drams[h].standard = drams[h].sheet.standard

LEMMA SheetsOwnStep ==
    ASSUME Types, SheetsOwn, Steps
    PROVE  SheetsOwn'
<1> SUFFICES ASSUME NEW h \in Handles, Exists(h)'
             PROVE  drams'[h].standard = drams'[h].sheet.standard
  BY DEF SheetsOwn
<1>1. CASE drams'[h] = drams[h]
  BY <1>1 DEF SheetsOwn, Exists
<1>2. CASE BuiltAs(drams'[h])
  BY <1>2, ConstructedDram DEF BuiltAs
<1>3. ASSUME Exists(h), drams'[h].standard = drams[h].standard, drams'[h].sheet = drams[h].sheet
      PROVE  drams'[h].standard = drams'[h].sheet.standard
  BY <1>3 DEF SheetsOwn
<1>4. CASE Exists(h) /\ RanCommand(h)
  BY <1>3, <1>4 DEF RanCommand, Commanded, Onward
<1>5. CASE Exists(h) /\ drams[h] \in DramSet /\ Asked(h)
  BY <1>3, <1>5, WindowStatsDoes DEF Asked, Onward
<1>6. CASE Exists(h) /\ drams[h] \in DramSet /\ SetAs(drams[h], drams'[h])
  BY <1>3, <1>6, SetsTyped
<1>7. CASE Exists(h) /\ drams[h] \in DramSet /\ RestoredAs(h)
  BY <1>3, <1>7, RestoredTyped DEF RestoredAs
<1> QED BY <1>1, <1>2, <1>4, <1>5, <1>6, <1>7, ObjectStep

\* A two-bank refresh or a same-bank command that is not refused reaches banks that
\* there are, whatever a data sheet says of banks and groups (MemSpecLPDDR5.cpp,
\* LPDDR5Core.cpp, DDR5Core.cpp).
THEOREM BanksAlwaysExist == Spec => []BanksReachedExist
<1>1. Init => Types /\ SheetsOwn
  BY InitTypes DEF SheetsOwn
<1>2. Types /\ SheetsOwn /\ [Next]_vars => (Types /\ SheetsOwn)'
  BY NextStep, SheetsOwnStep
<1>3. Types /\ SheetsOwn => BanksReachedExist
  <2> SUFFICES ASSUME Types, SheetsOwn, NEW h \in Handles, Exists(h),
                      NEW type \in {"REFP2B", "PRESB", "REFSB"},
                      NEW bank \in 0..SpecOf(drams[h].sheet).common.numberOfBanks,
                      "done" \in CoreOutcomes(drams[h], [t |-> 0, type |-> type, bank |-> bank,
                                                        data |-> <<>>])
               PROVE  BanksReached(SpecOf(drams[h].sheet), type, bank)
                          \subseteq 0..(SpecOf(drams[h].sheet).common.numberOfBanks - 1)
    BY DEF BanksReachedExist
  <2> DEFINE c == [t |-> 0, type |-> type, bank |-> bank, data |-> <<>>]
  <2>1. /\ drams[h] \in DramSet /\ Organised(drams[h].sheet)
        /\ drams[h].standard = drams[h].sheet.standard
    BY ExistsTyped, GivenOrganised DEF DramSet, SheetsOwn
  <2>2. c.type = type /\ c.bank = bank /\ "done" \in CoreOutcomes(drams[h], c)
    OBVIOUS
  <2> HIDE DEF c
  <2> QED BY <2>1, <2>2, BanksOfDoneExist
<1> QED BY <1>1, <1>2, <1>3, PTL DEF Spec
-----------------------------------------------------------------------------
(* The file system                                                         *)

\* A path that is no link leads to itself.
LEMMA LocatedItself ==
    ASSUME IsFiniteSet(DOMAIN files), NEW path, ~IsLink(path)
    PROVE  Located(path) = path
<1> DEFINE K == Cardinality(DOMAIN files)
           Fits(f) == f = [n \in 0..K |->
                               IF n = 0 THEN path
                               ELSE IF IsLink(f[n - 1]) THEN Target(f[n - 1]) ELSE f[n - 1]]
           chain == CHOOSE f : Fits(f)
<1>1. K \in Nat
  BY FS_CardinalityType
<1>2. Located(path) = chain[K]
  BY DEF Located
<1> HIDE DEF K
<1>3. Fits([n \in 0..K |-> path])
  <2> DEFINE f == [n \in 0..K |-> path]
  <2>1. \A n \in 0..K : n # 0 => n - 1 \in 0..K
    BY <1>1
  <2>2. \A n \in 0..K :
            path = IF n = 0 THEN path
                   ELSE IF IsLink(f[n - 1]) THEN Target(f[n - 1]) ELSE f[n - 1]
    BY <2>1
  <2> QED BY <2>2
<1>4. Fits(chain)
  <2> HIDE DEF Fits
  <2> QED BY <1>3
<1> HIDE DEF chain
<1>5. \A n \in 0..K : chain[n] = path
  <2> DEFINE S == {n \in 0..K : chain[n] # path}
  <2> SUFFICES ASSUME S # {} PROVE FALSE
    OBVIOUS
  <2>1. S \subseteq Nat
    BY <1>1
  <2>2. PICK n \in S : \A m \in S : n <= m
    <3> HIDE DEF S
    <3> QED BY <2>1, Least
  <2>3. n # 0
    BY <1>1, <1>4
  <2>4. n - 1 \in 0..K /\ n - 1 \notin S
    BY <1>1, <2>2, <2>3
  <2>5. chain[n - 1] = path
    BY <2>4
  <2>6. chain[n] = path
    BY <1>4, <2>3, <2>5
  <2> QED BY <2>6
<1> QED BY <1>1, <1>2, <1>5

\* What the loop of resolve_symlink has found after its first k rounds.
Rounds(path, k, f) ==
    \A n \in 0..k : f[n] = IF n = 0 THEN [path |-> path, type |-> "UNRESOLVED"]
                           ELSE Followed(f[n - 1])

LEMMA RoundsExist ==
    ASSUME NEW path, NEW k \in Nat
    PROVE  \E f : Rounds(path, k, f)
<1> DEFINE S == {m \in Nat : ~\E f : Rounds(path, m, f)}
<1> SUFFICES ASSUME S # {} PROVE FALSE
  OBVIOUS
<1>1. PICK m \in S : \A n \in S : m <= n
  <2>1. S \subseteq Nat
    OBVIOUS
  <2> HIDE DEF S
  <2> QED BY <2>1, Least
<1>2. CASE m = 0
  <2> DEFINE f == [n \in 0..0 |-> [path |-> path, type |-> "UNRESOLVED"]]
  <2>1. Rounds(path, 0, f)
    BY DEF Rounds
  <2> QED BY <1>1, <1>2, <2>1
<1>3. CASE m # 0
  <2>1. m - 1 \in Nat /\ m \in Nat /\ m - 1 \notin S
    BY <1>1, <1>3
  <2>2. PICK f : Rounds(path, m - 1, f)
    BY <2>1
  <2> DEFINE g == [n \in 0..m |-> IF n = m THEN Followed(f[m - 1]) ELSE f[n]]
  <2>3. Rounds(path, m, g)
    <3>1. \A n \in 0..m : n # 0 => n - 1 \in 0..m /\ n - 1 # m
      BY <2>1
    <3>2. \A n \in 0..m : n # 0 => g[n - 1] = f[n - 1]
      BY <3>1
    <3>3. \A n \in 0..m : n # m => n \in 0..(m - 1)
      BY <2>1
    <3>4. \A n \in 0..m : g[n] = IF n = 0 THEN [path |-> path, type |-> "UNRESOLVED"]
                                 ELSE Followed(f[n - 1])
      BY <1>3, <2>2, <3>3 DEF Rounds
    <3> HIDE DEF g
    <3> QED BY <3>2, <3>4 DEF Rounds
  <2> QED BY <1>1, <2>3
<1> QED BY <1>2, <1>3

\* A target that is said to be missing is missing.
LEMMA MissingTargets ==
    ASSUME NEW path, resolve_symlink(path).type = "NOT_FOUND"
    PROVE  Status(resolve_symlink(path).path) = "absent"
<1> DEFINE M == MaxIterations
           Fits(f) == f = [n \in 0..M |->
                    IF n = 0 THEN [path |-> path, type |-> "UNRESOLVED"] ELSE Followed(f[n - 1])]
           round == CHOOSE f : Fits(f)
<1>1. resolve_symlink(path) = round[M]
  BY DEF resolve_symlink
<1>2. M \in Nat
  BY DEF MaxIterations
<1> HIDE DEF M
<1>3. \E f : Fits(f)
  <2>1. PICK f : Rounds(path, M, f)
    BY <1>2, RoundsExist
  <2> DEFINE g == [n \in 0..M |-> f[n]]
  <2>2. \A n \in 0..M : n # 0 => n - 1 \in 0..M
    BY <1>2
  <2>3. Fits(g)
    BY <2>1, <2>2 DEF Rounds
  <2> QED BY <2>3
<1>4. Fits(round)
  <2> HIDE DEF Fits
  <2> QED BY <1>3
<1> HIDE DEF round
<1> DEFINE Sound(r) == r.type = "NOT_FOUND" => Status(r.path) = "absent"
<1>5. \A n \in 0..M : Sound(round[n])
  <2> DEFINE S == {n \in 0..M : ~Sound(round[n])}
  <2> SUFFICES ASSUME S # {} PROVE FALSE
    OBVIOUS
  <2>1. S \subseteq Nat
    BY <1>2
  <2>2. PICK n \in S : \A m \in S : n <= m
    <3> HIDE DEF S
    <3> QED BY <2>1, Least
  <2>3. n # 0
    BY <1>2, <1>4
  <2>4. n - 1 \in 0..M /\ n - 1 \notin S /\ round[n] = Followed(round[n - 1])
    BY <1>2, <1>4, <2>2, <2>3
  <2>5. Sound(round[n - 1])
    BY <2>4
  <2>6. Sound(Followed(round[n - 1]))
    BY <2>5 DEF Followed
  <2> QED BY <2>4, <2>6
<1> QED BY <1>1, <1>2, <1>5

\* What a validator leaves of the files: a file that was absent may be empty now.
Touched(fs) ==
    \/ fs = files
    \/ \E p \in DOMAIN files : files[p] = Absent /\ fs = [files EXCEPT ![p] = File("")]

LEMMA ValidationFields ==
    \A result, fs : Validation(result, fs).result = result /\ Validation(result, fs).files = fs
BY DEF Validation

LEMMA CreatedFile ==
    ASSUME NEW q, NEW c \in createFileInParentDirectory(q)
    PROVE  /\ c.result \in {"valid", "error", "aborted"}
           /\ c.files = files \/ (Opens(q) /\ c.files = Written(q, ""))
<1>1. CASE Opens(q)
  <2>1. c \in {Validation("valid", Written(q, "")), Validation("error", files)}
    BY <1>1 DEF createFileInParentDirectory
  <2>2. /\ Validation("valid", Written(q, "")).result = "valid"
        /\ Validation("valid", Written(q, "")).files = Written(q, "")
        /\ Validation("error", files).result = "error"
        /\ Validation("error", files).files = files
    BY ValidationFields
  <2> QED BY <1>1, <2>1, <2>2
<1>2. CASE ~Opens(q)
  <2>1. c = Validation("error", files)
    BY <1>2 DEF createFileInParentDirectory
  <2>2. /\ Validation("error", files).result = "error"
        /\ Validation("error", files).files = files
    BY ValidationFields
  <2> QED BY <2>1, <2>2
<1> QED BY <1>1, <1>2

\* A path at which a file is created, that named or the end of a link, is missing.
LEMMA EnsureCreates ==
    ASSUME NEW path, NEW check \in EnsureFileExists(path)
    PROVE  \/ check.files = files /\ check.result \in {"valid", "error", "aborted"}
           \/ \E q : /\ check \in createFileInParentDirectory(q)
                     /\ \/ q = resolve_symlink(path).path /\ resolve_symlink(path).type = "NOT_FOUND"
                        \/ q = path /\ ~IsLink(q) /\ Entry(q).kind = "absent"
<1> DEFINE resolved == resolve_symlink(path)
<1>1. CASE IsLink(path)
  <2>1. CASE resolved.type = "FILE"
    <3>1. check = Validation("valid", files)
      BY <1>1, <2>1 DEF EnsureFileExists
    <3> QED BY <3>1, ValidationFields
  <2>2. CASE resolved.type = "NOT_FOUND"
    <3>1. check \in createFileInParentDirectory(resolved.path)
      BY <1>1, <2>2 DEF EnsureFileExists
    <3> QED BY <2>2, <3>1
  <2>3. CASE resolved.type = "THROWS"
    <3>1. check = Validation("aborted", files)
      BY <1>1, <2>3 DEF EnsureFileExists
    <3> QED BY <3>1, ValidationFields
  <2>4. CASE resolved.type \notin {"FILE", "NOT_FOUND", "THROWS"}
    <3>1. check = Validation("error", files)
      BY <1>1, <2>4 DEF EnsureFileExists
    <3> QED BY <3>1, ValidationFields
  <2> QED BY <2>1, <2>2, <2>3, <2>4
<1>2. CASE ~IsLink(path)
  <2>1. CASE Entry(path).kind = "file"
    <3>1. check = Validation("valid", files)
      BY <1>2, <2>1 DEF EnsureFileExists
    <3> QED BY <3>1, ValidationFields
  <2>2. CASE Entry(path).kind = "absent"
    <3>1. check \in createFileInParentDirectory(path)
      BY <1>2, <2>2 DEF EnsureFileExists
    <3> QED BY <1>2, <2>2, <3>1
  <2>3. CASE Entry(path).kind \notin {"file", "absent"}
    <3>1. check = Validation("error", files)
      BY <1>2, <2>3 DEF EnsureFileExists
    <3> QED BY <3>1, ValidationFields
  <2> QED BY <2>1, <2>2, <2>3
<1> QED BY <1>1, <1>2

LEMMA EnsureTouches ==
    ASSUME IsFiniteSet(DOMAIN files),
           \A p \in DOMAIN files : files[p].kind = "absent" => files[p] = Absent,
           NEW path, NEW check \in EnsureFileExists(path)
    PROVE  Touched(check.files) /\ check.result \in {"valid", "error", "aborted"}
<1>1. CASE check.files = files /\ check.result \in {"valid", "error", "aborted"}
  BY <1>1 DEF Touched
<1>2. ASSUME NEW q, check \in createFileInParentDirectory(q),
             \/ q = resolve_symlink(path).path /\ resolve_symlink(path).type = "NOT_FOUND"
             \/ q = path /\ ~IsLink(q) /\ Entry(q).kind = "absent"
      PROVE  Touched(check.files) /\ check.result \in {"valid", "error", "aborted"}
  <2>1. Status(q) = "absent"
    BY <1>2, MissingTargets, LocatedItself DEF Status
  <2>2. CASE check.files = files
    BY <1>2, <2>2, CreatedFile DEF Touched
  <2>3. CASE check.files # files
    <3>1. Opens(q) /\ check.files = Written(q, "")
      BY <1>2, <2>3, CreatedFile
    <3>2. Located(q) \in DOMAIN files /\ files[Located(q)] = Absent
      BY <2>1, <3>1 DEF Opens, Status, Entry
    <3>3. Touched(check.files)
      BY <3>1, <3>2 DEF Touched, Written
    <3> QED BY <1>2, <3>3, CreatedFile
  <2> QED BY <2>2, <2>3
<1> QED BY <1>1, <1>2, EnsureCreates

\* No file but one of the result is changed, and none before the arguments are read.
FilesKept ==
    /\ IsFiniteSet(DOMAIN original) /\ DOMAIN files = DOMAIN original
    /\ \A p \in DOMAIN original : original[p].kind = "absent" => original[p] = Absent
    /\ NoResultOnFailure
    /\ phase = "arguments" => files = original
    /\ exit = "0" => phase = "exit"
    /\ jsonfile \in {<<>>, arguments.json}

LEMMA InitFilesKept == Init => FilesKept
<1> SUFFICES ASSUME Init PROVE FilesKept
  OBVIOUS
<1>1. files = original /\ phase = "arguments" /\ exit = "none" /\ jsonfile = <<>>
  BY DEF Init, ToolInit
<1>2. IsFiniteSet(DOMAIN files)
      /\ \A p \in DOMAIN files : files[p].kind = "absent" => files[p] = Absent
  <2>1. CASE driver = "tool"
    <3>1. PICK json : files \in FileSystems(json)
      BY <2>1 DEF Init
    <3> DEFINE Fine(fs) == IsFiniteSet(DOMAIN fs)
                           /\ \A p \in DOMAIN fs : fs[p].kind = "absent" => fs[p] = Absent
               Whole(x) == x.kind = "absent" => x = Absent
    <3>2. IsFiniteSet(Directories \X {"out", "result"})
      <4>1. IsFiniteSet({"out"})
        BY FS_Singleton
      <4>2. IsFiniteSet({"out"} \cup {"result"})
        BY <4>1, FS_AddElement
      <4>3. {"out"} \cup {"result"} = {"out", "result"}
        OBVIOUS
      <4> QED BY <4>2, <4>3, InputAssumption, FS_Product DEF InputAssumption
    <3>3. \A out \in Places(json), sub \in Result, cwd \in {Absent, File("old")} :
            Whole(out) /\ Whole(sub) /\ Whole(cwd) /\ Whole(Absent)
      BY DEF Places, Out, Result, Absent, File, Link
    <3>4. \A out, sub, cwd : Whole(out) /\ Whole(sub) /\ Whole(cwd) /\ Whole(Absent)
                                => Fine(FileSystem(json, out, sub, cwd))
      BY <3>2 DEF FileSystem
    <3> HIDE DEF Fine, Whole
    <3>5. \A out \in Places(json), sub \in Result, cwd \in {Absent, File("old")} :
            Fine(FileSystem(json, out, sub, cwd))
      BY <3>3, <3>4
    <3>6. \A fs \in FileSystems(json) : Fine(fs)
      BY <3>5 DEF FileSystems
    <3> QED BY <3>1, <3>6 DEF Fine
  <2>2. CASE driver # "tool"
    <3>1. DOMAIN files = {}
      BY <2>2 DEF Init
    <3> QED BY <3>1, FS_EmptySet
  <2> QED BY <2>1, <2>2
<1> QED BY <1>1, <1>2 DEF FilesKept, NoResultOnFailure

LEMMA ParsingFails == \A rows : ParseEnds(rows) # "0"
<1>1. \A row : RowFails(row) # "0"
  BY DEF RowFails
<1> QED BY <1>1 DEF ParseEnds

\* Whatever is made of the arguments, at most one file was created, and if the program
\* goes on, then with the path of -j as it was given.
LEMMA ArgumentsParsed ==
    ASSUME FilesKept, ParseArgs
    PROVE  /\ Touched(files')
           /\ \/ phase' = "exit" /\ exit' # "0" /\ jsonfile' = jsonfile
              \/ phase' = "config" /\ exit' = exit /\ jsonfile' = arguments.json
<1> DEFINE checks == IF arguments.json = <<>> THEN {Validation("valid", files)}
                     ELSE EnsureFileExists(arguments.json[1])
<1>1. Touched(files)
  BY DEF Touched
<1>2. \A check \in checks : Touched(check.files)
  <2>1. /\ IsFiniteSet(DOMAIN files)
        /\ \A p \in DOMAIN files : files[p].kind = "absent" => files[p] = Absent
    BY DEF FilesKept, ParseArgs
  <2> QED BY <1>1, <2>1, EnsureTouches, ValidationFields
<1>3. CASE arguments.given = "missing" /\ Exits("1") /\ UNCHANGED <<files, jsonfile>>
  BY <1>1, <1>3 DEF Exits
<1>4. ASSUME NEW check \in checks, files' = check.files,
             CASE check.result = "aborted" -> Exits("aborted") /\ UNCHANGED jsonfile
               [] check.result = "valid" /\ arguments.given # "missing" ->
                      Continues("config") /\ jsonfile' = arguments.json
               [] OTHER -> Exits("1") /\ UNCHANGED jsonfile
      PROVE  /\ Touched(files')
             /\ \/ phase' = "exit" /\ exit' # "0" /\ jsonfile' = jsonfile
                \/ phase' = "config" /\ exit' = exit /\ jsonfile' = arguments.json
  <2>1. Touched(files')
    BY <1>2, <1>4
  <2>2. CASE check.result = "aborted"
    BY <1>4, <2>1, <2>2 DEF Exits
  <2>3. CASE check.result = "valid" /\ arguments.given # "missing"
    BY <1>4, <2>1, <2>3 DEF Continues
  <2>4. CASE check.result # "aborted" /\ ~(check.result = "valid" /\ arguments.given # "missing")
    BY <1>4, <2>1, <2>4 DEF Exits
  <2> QED BY <2>2, <2>3, <2>4
<1> HIDE DEF checks
<1>5. \/ arguments.given = "missing" /\ Exits("1") /\ UNCHANGED <<files, jsonfile>>
      \/ \E check \in checks :
            /\ files' = check.files
            /\ CASE check.result = "aborted" -> Exits("aborted") /\ UNCHANGED jsonfile
                 [] check.result = "valid" /\ arguments.given # "missing" ->
                        Continues("config") /\ jsonfile' = arguments.json
                 [] OTHER -> Exits("1") /\ UNCHANGED jsonfile
  BY DEF ParseArgs, checks
<1> QED BY <1>3, <1>4, <1>5

\* The file that a path leads to is the same after it was written.
LEMMA WrittenLocated ==
    ASSUME NEW path, NEW content, Opens(path), files' = Written(path, content)
    PROVE  /\ Located(path) \in DOMAIN files' /\ files'[Located(path)] = File(content)
           /\ Located(path)' = Located(path)
<1> DEFINE p == Located(path)
           K == Cardinality(DOMAIN files)
           Fits(f) == f = [n \in 0..K |->
                               IF n = 0 THEN path
                               ELSE IF IsLink(f[n - 1]) THEN Target(f[n - 1]) ELSE f[n - 1]]
<1>1. p \in DOMAIN files /\ Entry(p).kind \in {"absent", "file"} /\ files' = [files EXCEPT ![p] = File(content)]
  BY DEF Opens, Status, Written
<1>2. Located(path) = (CHOOSE f : Fits(f))[K] /\ Located(path)' = (CHOOSE f : Fits(f)')[K']
  BY DEF Located
<1> HIDE DEF p
<1>3. DOMAIN files' = DOMAIN files /\ K' = K
  BY <1>1
<1>4. \A q : (IsLink(q)' <=> IsLink(q)) /\ (IsLink(q) => Target(q)' = Target(q))
  BY <1>1 DEF IsLink, Target, Entry, File
<1>5. \A f : Fits(f)' <=> Fits(f)
  BY <1>3, <1>4
<1> HIDE DEF Fits
<1>6. (CHOOSE f : Fits(f)') = (CHOOSE f : Fits(f))
  BY <1>5
<1> QED BY <1>1, <1>2, <1>3, <1>6 DEF p

LEMMA FilesKeptStep ==
    ASSUME FilesKept, [Next]_vars
    PROVE  FilesKept'
<1>1. ASSUME files' = files, UNCHANGED <<original, arguments, jsonfile>>,
             phase' # "arguments" \/ phase' = phase, exit' # "0", exit # "0"
      PROVE  FilesKept'
  BY <1>1 DEF FilesKept, NoResultOnFailure
<1>2. ASSUME UNCHANGED <<files, original, phase, exit, arguments, jsonfile>> PROVE FilesKept'
  <2>1. \A path : Located(path)' = Located(path)
    BY <1>2 DEF Located, IsLink, Target, Entry
  <2> QED BY <1>2, <2>1 DEF FilesKept, NoResultOnFailure
<1>3. CASE Tool
  <2>1. original' = original /\ ToolNext
    BY <1>3 DEF Tool
  <2>2. CASE ParseArgs
    <3>1. phase = "arguments" /\ files = original /\ exit # "0"
      BY <2>2 DEF ParseArgs, FilesKept
    <3>2. Touched(files') /\ phase' \in {"exit", "config"} /\ exit' # "0"
          /\ jsonfile' \in {<<>>, arguments.json}
      BY <2>2, <3>1, ArgumentsParsed DEF FilesKept
    <3>4. DOMAIN files' = DOMAIN files
          /\ \A p \in DOMAIN files : files'[p] # files[p] => files[p] = Absent /\ files'[p] = File("")
      BY <3>2 DEF Touched
    <3>5. UNCHANGED arguments
      BY <2>2 DEF ParseArgs
    <3> QED BY <2>1, <3>1, <3>2, <3>4, <3>5 DEF FilesKept, NoResultOnFailure
  <2>3. CASE GetConfig
    BY <1>1, <2>1, <2>3 DEF GetConfig, FilesKept, Exits, Continues
  <2>4. CASE ParseCommandList
    BY <1>1, <2>1, <2>4, ParsingFails DEF ParseCommandList, FilesKept, Exits, Continues
  <2>5. CASE GetMemory
    BY <1>1, <2>1, <2>5 DEF GetMemory, FilesKept, Exits, Continues
  <2>6. CASE RunCommand
    BY <1>1, <2>1, <2>6 DEF RunCommand, FilesKept, Exits, Continues
  <2>7. CASE MakeResult
    <3>1. phase' = "exit" /\ exit # "0" /\ UNCHANGED <<arguments, jsonfile>>
      BY <2>7 DEF MakeResult, Exits, FilesKept
    <3>2. CASE exit' = "0" /\ files' = files
      BY <2>1, <3>1, <3>2 DEF FilesKept, NoResultOnFailure
    <3>3. CASE /\ exit' = "0" /\ jsonfile # <<>>
               /\ Opens(jsonfile[1]) /\ files' = Written(jsonfile[1], "result")
      <4> DEFINE path == arguments.json[1]
      <4>1. jsonfile = arguments.json /\ arguments.json # <<>>
        BY <3>3 DEF FilesKept
      <4>2. \A q : Opens(q) /\ files' = Written(q, "result") => Located(q)' = Located(q)
        BY WrittenLocated
      <4>3. Located(path)' = Located(path) /\ files' = Written(path, "result")
        BY <3>1, <3>3, <4>1, <4>2
      <4>4. /\ DOMAIN files' = DOMAIN files
            /\ \A p \in DOMAIN files : p # Located(path) => files'[p] = files[p]
            /\ Located(path) \in DOMAIN files => files'[Located(path)] = File("result")
        BY <4>3 DEF Written
      <4>5. \A p \in DOMAIN files : files[p] # original[p] => original[p] = Absent /\ files[p] = File("")
        BY <3>1 DEF FilesKept, NoResultOnFailure
      <4>6. NoResultOnFailure'
        <5>1. \A p \in DOMAIN files' :
                \/ p = Located(path)' /\ files'[p] = File("result")
                \/ p \in DOMAIN files /\ files'[p] = files[p]
          BY <3>1, <4>3, <4>4
        <5>2. \A p \in DOMAIN files' : files'[p] # original'[p] =>
                \/ p = Located(path)' /\ files'[p] = File("result")
                \/ original'[p] = Absent /\ files'[p] = File("")
          BY <2>1, <4>5, <5>1
        <5>3. arguments'.json # <<>> /\ exit' = "0"
          BY <3>1, <3>3, <4>1
        <5> QED BY <5>2, <5>3 DEF NoResultOnFailure
      <4> QED BY <2>1, <3>1, <3>3, <4>4, <4>6 DEF FilesKept
    <3>4. CASE exit' = "1" /\ files' = files
      BY <1>1, <2>1, <3>1, <3>4
    <3> QED BY <2>7, <3>2, <3>3, <3>4 DEF MakeResult, Exits
  <2> QED BY <2>1, <2>2, <2>3, <2>4, <2>5, <2>6, <2>7 DEF ToolNext
<1>4. CASE Library
  BY <1>2, <1>4 DEF Library, toolVars
<1>5. CASE Datasheet
  BY <1>2, <1>5 DEF Datasheet, toolVars
<1>6. CASE UNCHANGED vars
  BY <1>2, <1>6 DEF vars, toolVars
<1> QED BY <1>3, <1>4, <1>5, <1>6 DEF Next

\* A run changes no file but that of the result, which it does not write unless it
\* exits with 0, through any chain of links (main.cpp, validators.cpp).
THEOREM FilesAreKept == Spec => []NoResultOnFailure
<1>1. FilesKept => NoResultOnFailure
  BY DEF FilesKept
<1>2. FilesKept /\ [Next]_vars => FilesKept'
  BY FilesKeptStep
<1> QED BY <1>1, <1>2, InitFilesKept, PTL DEF Spec
-----------------------------------------------------------------------------
(* The labels of the energies                                              *)

\* The banks of n per device, of dev devices per rank, in the order of their ranks.
Sizes(n, dev, ranks) == n \in Nat /\ dev \in Nat \ {0} /\ ranks \in Nat
Cells(n, dev, ranks) == (0..(ranks - 1)) \X (0..(dev - 1)) \X (0..(n - 1))
OffsetIn(n, dev, cell) == cell[1] * n * dev + cell[2] * n + cell[3]
CellAt(n, dev, i) == <<i \div (n * dev), (i \div n) % dev, i % n>>
Offsets(n, dev, ranks) == 0..(ranks * dev * n - 1)

LEMMA CellOf ==
    ASSUME NEW n, NEW dev, NEW ranks, Sizes(n, dev, ranks), NEW cell \in Cells(n, dev, ranks)
    PROVE  /\ OffsetIn(n, dev, cell) \in Offsets(n, dev, ranks)
           /\ CellAt(n, dev, OffsetIn(n, dev, cell)) = cell
<1> USE DEF Sizes
<1> PICK r \in 0..(ranks - 1), v \in 0..(dev - 1), b \in 0..(n - 1) : cell = <<r, v, b>>
  BY DEF Cells
<1> DEFINE m == n * dev
           low == v * n + b
           q == dev * r + v
           i == r * n * dev + v * n + b
<1>0. n \in Nat \ {0}
  OBVIOUS
<1> USE <1>0
<1>1. m \in Nat \ {0} /\ r \in Nat /\ v \in Nat /\ b \in Nat
  BY <1>0
<1>2. low \in 0..(m - 1)
  <2>1. v * n + n <= n * dev
    <3>1. v + 1 <= dev
      OBVIOUS
    <3>2. n * (v + 1) <= n * dev
      BY <3>1, <1>1
    <3>3. n * (v + 1) = v * n + n
      BY <1>1
    <3> QED BY <3>2, <3>3
  <2>2. v * n \in Nat
    BY <1>1
  <2> QED BY <2>1, <2>2, <1>1
<1>3. i = m * r + low
  BY <1>1
<1>4. i = n * q + b
  BY <1>1
<1>5. q \in Nat
  BY <1>1
<1>6. i \div m = r
  <2> HIDE DEF m, low, i
  <2> QED BY <1>1, <1>2, <1>3, OneQuotient
<1>7. i \div n = q /\ i % n = b
  <2> HIDE DEF q, i
  <2> QED BY <1>1, <1>4, <1>5, OneQuotient
<1>8. q % dev = v
  BY <1>1, OneQuotient
<1>9. i \in 0..(ranks * dev * n - 1)
  <2>1. m * (r + 1) <= m * ranks
    <3>1. r + 1 <= ranks
      OBVIOUS
    <3> HIDE DEF m
    <3> QED BY <3>1, <1>1
  <2>2. m * (r + 1) = m * r + m
    <3> HIDE DEF m
    <3> QED BY <1>1
  <2>3. m * ranks = ranks * dev * n
    BY <1>1
  <2>4. m * r \in Nat /\ m * ranks \in Nat
    <3> HIDE DEF m
    <3> QED BY <1>1
  <2> DEFINE a == m * r
             z == m * ranks
  <2>5. i = a + low /\ a + m <= z /\ a \in Nat /\ z \in Nat /\ z = ranks * dev * n
    BY <1>3, <2>1, <2>2, <2>3, <2>4
  <2> HIDE DEF m, low, i, a, z
  <2>6. i \in 0..(z - 1)
    BY <1>1, <1>2, <2>5
  <2> QED BY <2>5, <2>6
<1>10. OffsetIn(n, dev, cell) = i
  BY DEF OffsetIn
<1>11. (i \div n) % dev = v
  BY <1>7, <1>8
<1> HIDE DEF i
<1> QED BY <1>6, <1>7, <1>9, <1>10, <1>11 DEF Offsets, CellAt, m

LEMMA OffsetOfCell ==
    ASSUME NEW n, NEW dev, NEW ranks, Sizes(n, dev, ranks), NEW i \in Offsets(n, dev, ranks)
    PROVE  \E cell \in Cells(n, dev, ranks) : OffsetIn(n, dev, cell) = i
<1> DEFINE q == i \div n
           b == i % n
           r == q \div dev
           v == q % dev
<1>1. i \in Nat /\ i \in 0..(ranks * dev * n - 1)
      /\ n \in Nat \ {0} /\ dev \in Nat \ {0} /\ ranks \in Nat
  <2>1. i \in 0..(ranks * dev * n - 1) /\ n \in Nat /\ dev \in Nat \ {0} /\ ranks \in Nat
    BY DEF Offsets, Sizes
  <2>2. CASE n = 0
    <3>1. ranks * dev * n = 0
      BY <2>1, <2>2
    <3> QED BY <2>1, <3>1
  <2> QED BY <2>1, <2>2
<1> USE <1>1
<1>2. q \in Nat /\ b \in 0..(n - 1) /\ i = n * q + b
  BY <1>1, Division
<1> HIDE DEF q, b
<1>3. r \in Nat /\ v \in 0..(dev - 1) /\ q = dev * r + v
  BY <1>2, Division
<1> HIDE DEF r, v
<1>4. i = r * n * dev + v * n + b
  <2>1. n * (dev * r + v) = r * n * dev + v * n
    BY <1>3
  <2> QED BY <1>2, <1>3, <2>1
<1>5. r <= ranks - 1
  <2>1. SUFFICES ASSUME ranks <= r PROVE FALSE
    BY <1>3
  <2> DEFINE z == ranks * dev * n
             y == r * n * dev
             w == v * n
  <2>2. z <= y
    <3> DEFINE m == n * dev
    <3>1. m \in Nat
      OBVIOUS
    <3>2. z = m * ranks /\ y = m * r
      BY <1>3
    <3> HIDE DEF m, y, z
    <3> QED BY <2>1, <3>1, <3>2, <1>3
  <2>3. z \in Nat /\ y \in Nat /\ w \in Nat
    BY <1>3
  <2>4. i \in 0..(z - 1)
    OBVIOUS
  <2>5. i = y + w + b
    BY <1>4
  <2> HIDE DEF y, z, w
  <2> QED BY <1>2, <2>2, <2>3, <2>4, <2>5
<1>6. r \in 0..(ranks - 1)
  BY <1>3, <1>5
<1>7. <<r, v, b>> \in Cells(n, dev, ranks) /\ OffsetIn(n, dev, <<r, v, b>>) = i
  BY <1>2, <1>3, <1>4, <1>6 DEF Cells, OffsetIn
<1> QED BY <1>7


\* The banks that there are energies for.
LEMMA BanksCounted ==
    ASSUME NEW sheet, Organised(sheet)
    PROVE  LET a == SpecOf(sheet).common
           IN  Sizes(a.numberOfBanks, a.numberOfDevices, a.numberOfRanks)
<1> DEFINE a == Common(sheet)
           Counted(c) == Sizes(c.numberOfBanks, c.numberOfDevices, c.numberOfRanks)
<1>1. Counted(a)
  BY DEF Organised, Common, Sizes
<1>2. CASE sheet.standard = "LPDDR5"
  <2> DEFINE arch == BankArchitecture(sheet)
             b == [a EXCEPT !.numberOfBanks = arch.numberOfBanks,
                            !.numberOfBankGroups = arch.numberOfBankGroups]
  <2>1. arch.numberOfBanks \in {8, 16}
    BY DEF BankArchitecture, Architecture
  <2>2. SpecOf(sheet) = MemSpecLPDDR5(sheet)
    BY <1>2 DEF SpecOf
  <2>3. MemSpecLPDDR5(sheet).common = b
    BY DEF MemSpecLPDDR5
  <2> HIDE DEF arch
  <2>4. b.numberOfBanks = arch.numberOfBanks /\ b.numberOfDevices = a.numberOfDevices
        /\ b.numberOfRanks = a.numberOfRanks
    BY DEF Common
  <2> HIDE DEF a, b
  <2> QED BY <1>1, <2>1, <2>2, <2>3, <2>4 DEF Sizes
<1>3. CASE sheet.standard # "LPDDR5"
  <2>1. SpecOf(sheet) \in {MemSpecDDR4(sheet), MemSpecDDR5(sheet), MemSpecLPDDR4(sheet),
                          MemSpecLPDDR6(sheet)}
    BY <1>3 DEF Organised, Standards, SpecOf
  <2>2. MemSpecDDR4(sheet).common = a
    BY DEF MemSpecDDR4
  <2>3. MemSpecDDR5(sheet).common = a
    BY DEF MemSpecDDR5
  <2>4. MemSpecLPDDR4(sheet).common = a
    BY DEF MemSpecLPDDR4
  <2>5. MemSpecLPDDR6(sheet).common = a
    BY DEF MemSpecLPDDR6
  <2> HIDE DEF a
  <2>6. SpecOf(sheet).common = a
    BY <2>1, <2>2, <2>3, <2>4, <2>5
  <2> QED BY <1>1, <2>6
<1> QED BY <1>2, <1>3

LEMMA LabelsInOrder ==
    ASSUME NEW d, Organised(d.sheet)
    PROVE  LabelledInOrder(Labels(d), SpecOf(d.sheet).common)
<1> DEFINE a == SpecOf(d.sheet).common
           n == a.numberOfBanks
           dev == a.numberOfDevices
           ranks == a.numberOfRanks
           cells == Cells(n, dev, ranks)
           offset(cell) == OffsetIn(n, dev, cell)
<1>1. Sizes(n, dev, ranks)
  BY BanksCounted
<1>2. Labels(d) = [i \in {offset(cell) : cell \in cells} |-> CHOOSE cell \in cells : offset(cell) = i]
  BY DEF Labels, Cells, OffsetIn
<1>3. LabelledInOrder(Labels(d), a)
        <=> /\ DOMAIN Labels(d) = Offsets(n, dev, ranks)
            /\ \A i \in DOMAIN Labels(d) : Labels(d)[i] = CellAt(n, dev, i)
  BY DEF LabelledInOrder, Offsets, CellAt
<1> HIDE DEF a, n, dev, ranks
<1>4. \A cell \in cells :
        offset(cell) \in Offsets(n, dev, ranks) /\ CellAt(n, dev, offset(cell)) = cell
  BY <1>1, CellOf
<1>5. \A i \in Offsets(n, dev, ranks) : \E cell \in cells : offset(cell) = i
  BY <1>1, OffsetOfCell
<1> HIDE DEF cells, offset
<1>6. {offset(cell) : cell \in cells} = Offsets(n, dev, ranks)
  BY <1>4, <1>5
<1>7. ASSUME NEW i \in Offsets(n, dev, ranks)
      PROVE  (CHOOSE cell \in cells : offset(cell) = i) = CellAt(n, dev, i)
  BY <1>4, <1>5
<1> QED BY <1>2, <1>3, <1>6, <1>7 DEF a
-----------------------------------------------------------------------------
(* The result                                                              *)

\* The first n rows that there is a case for, and that what was done are these.
First(n, types) == {i \in DOMAIN trace : i <= n /\ from_string(trace[i].text) \in types}
ExecutedFirst(n, done, types) ==
    /\ Len(done) = Cardinality(First(n, types))
    /\ \A i \in First(n, types) : Carries(done[Cardinality(First(i, types))], trace[i])

LEMMA FirstFinite ==
    ASSUME trace \in Traces, NEW n \in Nat, NEW types
    PROVE  /\ IsFiniteSet(First(n, types)) /\ Cardinality(First(n, types)) \in Nat
           /\ \A i \in First(n, types) :
                /\ i \in Nat /\ i <= n
                /\ Cardinality(First(i, types)) \in 1..Cardinality(First(n, types))
<1> DEFINE F(m) == First(m, types)
<1>1. DOMAIN trace \subseteq Nat
  BY TraceTyped
<1>2. \A m \in Nat : IsFiniteSet(F(m)) /\ Cardinality(F(m)) \in Nat
  <2> TAKE m \in Nat
  <2>1. IsFiniteSet(0..m)
    BY FS_Interval
  <2>2. F(m) \subseteq 0..m
    BY <1>1 DEF First
  <2> HIDE DEF F
  <2> QED BY <2>1, <2>2, FS_Subset, FS_CardinalityType
<1>3. ASSUME NEW i \in F(n)
      PROVE  i \in Nat /\ i <= n /\ Cardinality(F(i)) \in 1..Cardinality(F(n))
  <2>1. i \in Nat /\ i <= n /\ i \in F(i) /\ F(i) \subseteq F(n)
    BY <1>1 DEF First
  <2>2. Cardinality(F(i)) <= Cardinality(F(n))
    <3> HIDE DEF F
    <3> QED BY <1>2, <2>1, FS_Subset
  <2>3. Cardinality(F(i)) # 0
    <3> HIDE DEF F
    <3> QED BY <1>2, <2>1, FS_EmptySet
  <2> HIDE DEF F
  <2> QED BY <1>2, <2>1, <2>2, <2>3
<1> QED BY <1>2, <1>3

LEMMA NoneExecuted ==
    ASSUME trace \in Traces, NEW types
    PROVE  ExecutedFirst(0, <<>>, types)
<1>1. First(0, types) = {}
  BY TraceTyped DEF First
<1> QED BY <1>1, FS_EmptySet DEF ExecutedFirst

\* One row more.
LEMMA NextExecuted ==
    ASSUME trace \in Traces, NEW types, NEW n \in Nat, n + 1 \in DOMAIN trace,
           NEW done \in Seq(CommandSet), ExecutedFirst(n, done, types),
           NEW c \in CommandSet, Carries(c, trace[n + 1])
    PROVE  ExecutedFirst(n + 1, IF c.type \in types THEN Append(done, c) ELSE done, types)
<1> DEFINE k == Cardinality(First(n, types))
<1>1. k \in Nat /\ k = Len(done) /\ n + 1 \in Nat /\ IsFiniteSet(First(n, types))
  BY FirstFinite DEF ExecutedFirst
<1>2. c.type = from_string(trace[n + 1].text)
  BY DEF Carries
<1>3. DOMAIN trace \subseteq Nat
  BY TraceTyped
<1>4. \A i \in First(n, types) : i \in Nat /\ i <= n /\ Cardinality(First(i, types)) \in 1..k
  BY FirstFinite
<1>5. CASE c.type \in types
  <2> DEFINE more == Append(done, c)
  <2>1. First(n + 1, types) = First(n, types) \cup {n + 1} /\ n + 1 \notin First(n, types)
    BY <1>2, <1>3, <1>5 DEF First
  <2>2. Cardinality(First(n + 1, types)) = k + 1
    BY <1>1, <2>1, FS_AddElement
  <2>3. Len(more) = k + 1 /\ more[k + 1] = c /\ \A j \in 1..k : more[j] = done[j]
    BY <1>1
  <2> HIDE DEF more, k
  <2>4. ASSUME NEW i \in First(n + 1, types)
        PROVE  Carries(more[Cardinality(First(i, types))], trace[i])
    <3>1. CASE i = n + 1
      BY <2>2, <2>3, <3>1
    <3>2. CASE i \in First(n, types)
      <4>1. more[Cardinality(First(i, types))] = done[Cardinality(First(i, types))]
        BY <1>4, <2>3, <3>2
      <4> QED BY <3>2, <4>1 DEF ExecutedFirst
    <3> QED BY <2>1, <3>1, <3>2
  <2> QED BY <1>5, <2>2, <2>3, <2>4 DEF ExecutedFirst, more
<1>6. CASE c.type \notin types
  <2>1. First(n + 1, types) = First(n, types)
    BY <1>2, <1>3, <1>6 DEF First
  <2> QED BY <1>6, <2>1 DEF ExecutedFirst
<1> QED BY <1>5, <1>6

LEMMA AllExecuted ==
    ASSUME trace \in Traces, NEW types, NEW done, ExecutedFirst(Len(trace), done, types)
    PROVE  ExecutedAs(done, types)
<1>1. DOMAIN trace = 1..Len(trace) /\ Len(trace) \in Nat
  BY TraceTyped
<1> DEFINE executable == {i \in DOMAIN trace : from_string(trace[i].text) \in types}
<1>2. executable = First(Len(trace), types)
  BY <1>1 DEF First
<1>3. \A i \in executable : {j \in executable : j <= i} = First(i, types)
  BY DEF First
<1> HIDE DEF executable
<1>4. ExecutedAs(done, types)
        <=> /\ Len(done) = Cardinality(executable)
            /\ \A i \in executable :
                  Carries(done[Cardinality({j \in executable : j <= i})], trace[i])
  BY DEF ExecutedAs, executable
<1> QED BY <1>2, <1>3, <1>4 DEF ExecutedFirst

\* A row that does not fail becomes a command that carries it.
LEMMA RowCarried ==
    ASSUME NEW row \in TraceRow, RowFails(row) = "none"
    PROVE  Carries(RowCommand(row), row)
<1> DEFINE c == RowCommand(row)
           type == from_string(row.text)
           digits == row.digits
           half == Len(digits) \div 2
<1>1. c.t = row.t /\ c.bank = row.bank /\ c.type = type
  BY DEF RowCommand
<1>2. ASSUME needs_data(type)
      PROVE  /\ 2 * Len(c.data) = Len(digits)
             /\ NotHex \notin ToSet(digits) =>
                    \A i \in DOMAIN c.data : /\ c.data[i] \div 16 = digits[2 * i - 1]
                                             /\ c.data[i] % 16 = digits[2 * i]
  <2>1. digits \in Seq(0..NotHex) /\ Len(digits) \in Nat
        /\ \A j \in 1..Len(digits) : digits[j] \in 0..16 /\ digits[j] \in ToSet(digits)
    BY DEF TraceRow, NotHex, ToSet
  <2>2. IsData(digits)
    BY <1>2 DEF RowFails
  <2>3. half \in Nat /\ 2 * half = Len(digits)
    <3>1. Len(digits) % 2 = 0
      BY <2>2 DEF IsData
    <3>2. \A n \in Nat : n % 2 = 0 => n \div 2 \in Nat /\ 2 * (n \div 2) = n
      OBVIOUS
    <3> HIDE DEF digits
    <3> QED BY <2>1, <3>1, <3>2
  <2>4. c.data = [i \in 1..half |-> Byte(digits[2 * i - 1], digits[2 * i])]
    BY <1>2 DEF RowCommand, hexStringToUint8Array
  <2> HIDE DEF half, digits, c
  <2>5. Len(c.data) = half /\ DOMAIN c.data = 1..half
    BY <2>3, <2>4
  <2>6. ASSUME NotHex \notin ToSet(digits), NEW i \in 1..half
        PROVE  c.data[i] \div 16 = digits[2 * i - 1] /\ c.data[i] % 16 = digits[2 * i]
    <3>1. 2 * i \in 1..Len(digits) /\ 2 * i - 1 \in 1..Len(digits)
      BY <2>3
    <3> DEFINE a == digits[2 * i - 1]
               b == digits[2 * i]
    <3>2. a \in 0..15 /\ b \in 0..15
      <4>1. a \in 0..16 /\ a \in ToSet(digits) /\ b \in 0..16 /\ b \in ToSet(digits)
        BY <2>1, <3>1
      <4>2. a # 16 /\ b # 16
        BY <2>6, <4>1 DEF NotHex
      <4> HIDE DEF a, b
      <4> QED BY <4>1, <4>2
    <3>3. c.data[i] = Byte(a, b)
      BY <2>4
    <3> HIDE DEF a, b
    <3>4. Byte(a, b) = 16 * a + b
      BY <3>2 DEF Byte, NotHex
    <3> QED BY <3>2, <3>3, <3>4 DEF a, b
  <2> QED BY <2>3, <2>5, <2>6
<1> QED BY <1>1, <1>2 DEF Carries

\* A command that neither fails nor stops the program was executed by each part that
\* has a case for it.
LEMMA CommandRuns ==
    ASSUME NEW d \in DramSet, NEW c \in CommandSet, NEW result \in CoreOutcomes(d, c),
           Command(d, c, result).outcome \notin {"aborted", "thrown"}
    PROVE  LET e == Command(d, c, result).dram
           IN  /\ Onward(d, e)
               /\ e.core.last = Larger(d.core.last, c.t) /\ e.interface.last = c.t
               /\ e.core.done = IF c.type \in CoreTypes(d.standard) THEN Append(d.core.done, c)
                                ELSE d.core.done
               /\ e.interface.done = IF c.type \in InterfaceTypes(d.standard)
                                     THEN Append(d.interface.done, c) ELSE d.interface.done
<1> DEFINE k == CoreCommand(d, c, result).dram
           says == InterfaceOutcome(k, c)
           e == InterfaceCommand(k, c).dram
<1>1. CoreCommand(d, c, result).outcome = result /\ InterfaceCommand(k, c).outcome = says
  BY DEF CoreCommand, InterfaceCommand
<1>2. result \in {"done", "ignored"}
  BY <1>1 DEF Command, CoreOutcomes, Unsupported, Asserted
<1>3. Command(d, c, result).dram = e /\ Command(d, c, result).outcome = says
  BY <1>1, <1>2 DEF Command
<1>4. result = "done" <=> c.type \in CoreTypes(d.standard)
  BY <1>2 DEF CoreOutcomes, Unsupported, Asserted
<1>5. says \in {"done", "ignored"}
      /\ (says = "done" <=> c.type \in InterfaceTypes(k.standard))
  BY <1>3 DEF InterfaceOutcome, Unsupported
<1>6. /\ Onward(d, k) /\ k.interface = d.interface
      /\ k.core.last = Larger(d.core.last, c.t)
      /\ k.core.done = IF result = "done" THEN Append(d.core.done, c) ELSE d.core.done
  BY CoreCommandDoes
<1>7. k \in DramSet /\ k.standard = d.standard
  BY <1>6 DEF Onward
<1> HIDE DEF k
<1>8. /\ Onward(k, e) /\ e.core = k.core
      /\ e.interface.last = c.t
      /\ e.interface.done = IF says = "done" THEN Append(k.interface.done, c)
                            ELSE k.interface.done
  BY <1>5, <1>7, InterfaceCommandDoes
<1> HIDE DEF e, says
<1>9. Onward(d, e)
  BY <1>6, <1>8 DEF Onward
<1> QED BY <1>3, <1>4, <1>5, <1>6, <1>7, <1>8, <1>9

\* What a run holds when it has read the arguments and the configuration, the trace,
\* and executed the first commands.
Times == {trace[i].t : i \in DOMAIN trace} \cup {0}
Configured ==
    config.rates = (arguments.config = "rates") /\ jsonfile = arguments.json
Read ==
    /\ trace \in Traces /\ \A i \in DOMAIN trace : RowFails(trace[i]) = "none"
    /\ commandList = [i \in DOMAIN trace |-> RowCommand(trace[i])]
RunTo(n, d) ==
    /\ ExecutedFirst(n, d.core.done, CoreTypes(d.standard))
    /\ ExecutedFirst(n, d.interface.done, InterfaceTypes(d.standard))
    /\ d.core.last \in Times /\ d.interface.last \in Times
    /\ \A i \in DOMAIN trace : i <= n => trace[i].t <= d.core.last
Running ==
    /\ next \in 1..(Len(trace) + 1) /\ Exists("ddr") /\ drams["ddr"].rates = config.rates
    /\ RunTo(next - 1, drams["ddr"])

Progress ==
    driver = "tool" =>
        /\ phase \in {"arguments", "config", "trace", "memory"} => next = 1
        /\ phase = "config" => jsonfile = arguments.json
        /\ phase \in {"trace", "memory", "run"} => Configured
        /\ phase \in {"memory", "run"} => Read
        /\ phase = "run" => Running
        /\ exit = "0" => phase = "exit"
        /\ ResultOfWholeTrace

LEMMA RunStarts ==
    ASSUME Types, Progress, Tool, GetMemory
    PROVE  Progress'
<1>1. driver = "tool" /\ phase = "memory" /\ next = 1 /\ Configured /\ Read /\ exit # "0"
      /\ UNCHANGED <<driver, arguments, files, jsonfile, config, trace, commandList, next, report>>
  BY DEF Tool, GetMemory, Progress
<1>2. Configured' /\ Read'
  BY <1>1 DEF Configured, Read
<1>3. CASE phase' = "exit" /\ exit' # "0"
  BY <1>1, <1>3 DEF Progress, ResultOfWholeTrace
<1>4. ASSUME NEW sheet \in Sheets \ {Nothing}, Continues("run"),
             Construct("ddr", sheet, config.rates)
      PROVE  Progress'
  <2> DEFINE d == Constructed(sheet, config.rates)
  <2>1. d \in DramSet /\ d.core.done = <<>> /\ d.core.last = 0 /\ d.interface.done = <<>>
        /\ d.interface.last = 0 /\ d.rates = config.rates
    <3>1. sheet \in GivenSheets /\ config.rates \in BOOLEAN
      BY DEF GivenSheets, Types
    <3> QED BY <3>1, ConstructedDram DEF Constructed
  <2>2. drams' = [drams EXCEPT !["ddr"] = d]
    BY <1>4 DEF Construct, Called
  <2>3. drams'["ddr"] = d
    BY <2>2, HandleAssumption DEF Types, HandleAssumption
  <2> HIDE DEF d
  <2>4. Exists("ddr")'
    BY <2>1, <2>3, DramsDiffer DEF Exists
  <2>5. RunTo(0, d)
    <3>1. ExecutedFirst(0, <<>>, CoreTypes(d.standard))
          /\ ExecutedFirst(0, <<>>, InterfaceTypes(d.standard))
      BY <1>1, NoneExecuted DEF Read
    <3>2. \A i \in DOMAIN trace : ~(i <= 0)
      BY <1>1, TraceTyped DEF Read
    <3> QED BY <2>1, <3>1, <3>2 DEF RunTo, Times
  <2>6. RunTo(next - 1, drams["ddr"])'
    BY <1>1, <2>3, <2>5 DEF RunTo, ExecutedFirst, First, Times
  <2>7. Running'
    <3>1. Len(trace) \in Nat
      BY <1>1, TraceTyped DEF Read
    <3> QED BY <1>1, <2>1, <2>3, <2>4, <2>6, <3>1 DEF Running
  <2> QED BY <1>1, <1>2, <1>4, <2>7 DEF Progress, Continues, ResultOfWholeTrace
<1> QED BY <1>1, <1>3, <1>4 DEF Tool, GetMemory, Exits

LEMMA RunGoesOn ==
    ASSUME Types, Progress, Tool, RunCommand
    PROVE  Progress'
<1>1. /\ driver = "tool" /\ phase = "run" /\ Configured /\ Read /\ Running /\ exit # "0"
      /\ UNCHANGED <<driver, arguments, files, jsonfile, config, trace, commandList, report>>
      /\ next' = next + 1 /\ next <= Len(commandList)
  BY DEF Tool, RunCommand, Progress
<1>2. Configured' /\ Read'
  BY <1>1 DEF Configured, Read
<1>3. CASE phase' = "exit" /\ exit' # "0"
  BY <1>1, <1>3 DEF Progress, ResultOfWholeTrace
<1>4. CASE phase' = "run" /\ exit' = exit /\ outcome' \notin {"aborted", "thrown"}
  <2> DEFINE d == drams["ddr"]
             n == next - 1
             row == trace[next]
             c == commandList[next]
  <2>1. /\ DOMAIN trace = 1..Len(trace) /\ Len(trace) \in Nat /\ Len(commandList) = Len(trace)
        /\ n \in Nat /\ n + 1 = next /\ next \in DOMAIN trace /\ row \in TraceRow
    <3>1. DOMAIN trace = 1..Len(trace) /\ Len(trace) \in Nat
          /\ \A i \in DOMAIN trace : trace[i] \in TraceRow
      BY <1>1, TraceTyped DEF Read
    <3>2. Len(commandList) = Len(trace)
      BY <1>1, <3>1 DEF Read
    <3> QED BY <1>1, <3>1, <3>2 DEF Running
  <2>2. c = RowCommand(row) /\ Carries(c, row) /\ c \in CommandSet
    BY <1>1, <2>1, RowCarried, RowCommandTyped DEF Read
  <2>3. d \in DramSet
    BY <1>1, HandleAssumption, ExistsTyped DEF Running, HandleAssumption
  <2>4. PICK result \in CoreOutcomes(d, c) : Called("ddr", Command(d, c, result))
    BY DEF RunCommand, DoCommand
  <2> DEFINE e == Command(d, c, result).dram
  <2>5. Command(d, c, result).outcome \notin {"aborted", "thrown"} /\ drams' = [drams EXCEPT !["ddr"] = e]
    BY <1>4, <2>4 DEF Called
  <2>6. /\ Onward(d, e)
        /\ e.core.last = Larger(d.core.last, c.t) /\ e.interface.last = c.t
        /\ e.core.done = IF c.type \in CoreTypes(d.standard) THEN Append(d.core.done, c)
                         ELSE d.core.done
        /\ e.interface.done = IF c.type \in InterfaceTypes(d.standard)
                              THEN Append(d.interface.done, c) ELSE d.interface.done
    BY <2>2, <2>3, <2>5, CommandRuns
  <2>7. drams'["ddr"] = e
    BY <2>5, HandleAssumption DEF Types, HandleAssumption
  <2> HIDE DEF e, c, d
  <2>8. e \in DramSet /\ e.standard = d.standard /\ e.rates = d.rates
    BY <2>6 DEF Onward
  <2>9. RunTo(n + 1, e)
    <3>1. RunTo(n, d)
      BY <1>1 DEF Running, d
    <3>2. ExecutedFirst(n + 1, e.core.done, CoreTypes(e.standard))
      <4>1. d.core.done \in Seq(CommandSet) /\ ExecutedFirst(n, d.core.done, CoreTypes(d.standard))
        BY <2>3, <3>1 DEF RunTo, DramSet, CoreSet
      <4> QED BY <1>1, <2>1, <2>2, <2>6, <2>8, <4>1, NextExecuted DEF Read
    <3>3. ExecutedFirst(n + 1, e.interface.done, InterfaceTypes(e.standard))
      <4>1. d.interface.done \in Seq(CommandSet)
            /\ ExecutedFirst(n, d.interface.done, InterfaceTypes(d.standard))
        BY <2>3, <3>1 DEF RunTo, DramSet, InterfaceSet
      <4> QED BY <1>1, <2>1, <2>2, <2>6, <2>8, <4>1, NextExecuted DEF Read
    <3>4. c.t = row.t /\ c.t \in Times
      BY <2>1, <2>2 DEF Carries, Times
    <3>5. e.core.last \in {d.core.last, c.t} /\ e.core.last >= d.core.last /\ e.core.last >= c.t
          /\ d.core.last \in Nat
      <4>1. d.core.last \in Nat /\ c.t \in Nat
        BY <2>2, <2>3 DEF DramSet, CoreSet, CommandSet
      <4> QED BY <2>6, <4>1 DEF Larger
    <3>6. ASSUME NEW i \in DOMAIN trace, i <= n + 1
          PROVE  trace[i].t <= e.core.last
      <4>1. CASE i <= n
        <5>1. trace[i].t <= d.core.last /\ trace[i].t \in Nat /\ e.core.last \in Nat
          BY <1>1, <2>8, <3>1, <4>1, TraceTyped DEF RunTo, Read, TraceRow, DramSet, CoreSet
        <5> QED BY <3>5, <5>1
      <4>2. CASE i = n + 1
        BY <2>1, <3>4, <3>5, <4>2
      <4> QED BY <2>1, <3>6, <4>1, <4>2
    <3> QED BY <2>6, <3>1, <3>2, <3>3, <3>4, <3>5, <3>6 DEF RunTo
  <2>10. RunTo(next - 1, drams["ddr"])'
    <3>1. next' - 1 = n + 1
      BY <1>1, <2>1
    <3> QED BY <1>1, <2>7, <2>9, <3>1 DEF RunTo, ExecutedFirst, First, Times
  <2>11. Running'
    BY <1>1, <2>1, <2>7, <2>8, <2>10, DramsDiffer DEF Running, Exists, d
  <2> QED BY <1>1, <1>2, <1>4, <2>11 DEF Progress, ResultOfWholeTrace
<1> QED BY <1>3, <1>4 DEF RunCommand, Exits, Continues

\* A trace whose parsing does not end early has no row that fails.
LEMMA ParsedRows ==
    ASSUME NEW rows \in Traces, ParseEnds(rows) = "none"
    PROVE  \A i \in DOMAIN rows : RowFails(rows[i]) = "none"
<1> DEFINE failing == {i \in DOMAIN rows : RowFails(rows[i]) # "none"}
<1>1. SUFFICES ASSUME failing # {} PROVE FALSE
  BY <1>1
<1>2. failing \subseteq Nat
  BY TraceTyped
<1>3. Min(failing) \in failing
  <2> HIDE DEF failing
  <2> QED BY <1>1, <1>2, Least DEF Min
<1>4. ParseEnds(rows) = RowFails(rows[Min(failing)])
  BY <1>1 DEF ParseEnds
<1> QED BY <1>3, <1>4

LEMMA TraceIsRead ==
    ASSUME Progress, Tool, ParseCommandList
    PROVE  Progress'
<1>1. /\ driver = "tool" /\ phase = "trace" /\ next = 1 /\ Configured /\ exit # "0"
      /\ UNCHANGED <<driver, arguments, files, jsonfile, config, next, report>>
  BY DEF Tool, ParseCommandList, Progress
<1>2. Configured'
  BY <1>1 DEF Configured
<1>3. CASE ParseEnds(trace') = "none"
  <2>1. phase' = "memory" /\ exit' # "0"
    BY <1>1, <1>3 DEF ParseCommandList, Continues
  <2>2. Read'
    BY <1>3, ParsedRows DEF ParseCommandList, Read
  <2> QED BY <1>1, <1>2, <2>1, <2>2 DEF Progress, ResultOfWholeTrace
<1>4. CASE ParseEnds(trace') # "none"
  <2>1. phase' = "exit" /\ exit' # "0"
    BY <1>4, ParsingFails DEF ParseCommandList, Exits
  <2> QED BY <1>1, <2>1 DEF Progress, ResultOfWholeTrace
<1> QED BY <1>3, <1>4

LEMMA ResultIsMade ==
    ASSUME Types, Progress, Tool, MakeResult
    PROVE  Progress'
<1>1. /\ driver = "tool" /\ phase = "run" /\ Configured /\ Read /\ Running /\ exit # "0"
      /\ UNCHANGED <<driver, arguments, jsonfile, config, trace, commandList, next>>
      /\ next > Len(commandList) /\ phase' = "exit"
  BY DEF Tool, MakeResult, Progress, Exits
<1>2. CASE exit' # "0"
  BY <1>1, <1>2 DEF Progress, ResultOfWholeTrace
<1>3. CASE exit' = "0"
  <2> DEFINE d == drams["ddr"]
             t == LastCommandTime(d)
             e == WindowStats(d, t)
  <2>1. d \in DramSet /\ Organised(d.sheet)
    BY <1>1, HandleAssumption, ExistsTyped, GivenOrganised DEF Running, HandleAssumption, DramSet
  <2>2. RunTo(Len(trace), d) /\ Len(trace) \in Nat /\ DOMAIN trace = 1..Len(trace)
        /\ \A i \in DOMAIN trace : trace[i].t \in Nat
    <3>1. DOMAIN trace = 1..Len(trace) /\ Len(trace) \in Nat
          /\ \A i \in DOMAIN trace : trace[i] \in TraceRow
      BY <1>1, TraceTyped DEF Read
    <3>2. Len(commandList) = Len(trace)
      BY <1>1, <3>1 DEF Read
    <3>3. next - 1 = Len(trace)
      BY <1>1, <3>1, <3>2 DEF Running
    <3> QED BY <1>1, <3>1, <3>3 DEF Running, TraceRow
  <2>3. t \in Times /\ t \in Nat /\ \A i \in DOMAIN trace : trace[i].t <= t
    <3>1. d.core.last \in Nat /\ d.interface.last \in Nat
      BY <2>1 DEF DramSet, CoreSet, InterfaceSet
    <3>2. t \in {d.core.last, d.interface.last} /\ d.core.last <= t
      BY <3>1 DEF LastCommandTime, Larger
    <3> HIDE DEF t, d
    <3> QED BY <2>2, <3>1, <3>2 DEF RunTo
  <2>4. drams' = [drams EXCEPT !["ddr"] = e]
    BY DEF MakeResult, GetStats, Called
  <2>5. drams'["ddr"] = e
    BY <2>4, HandleAssumption DEF Types, HandleAssumption
  <2>6. Onward(d, e) /\ e.core.done = d.core.done /\ e.interface.done = d.interface.done
    <3> HIDE DEF t, d
    <3> QED BY <2>1, <2>3, WindowStatsDoes
  <2>7. report' = <<[t |-> t, labels |-> Labels(d)]>>
    BY <1>3 DEF MakeResult, Exits
  <2>8. arguments.json # <<>> => (Entry(Located(arguments.json[1])) = File("result"))'
    <3>1. SUFFICES ASSUME arguments.json # <<>>
                   PROVE  (Entry(Located(arguments.json[1])) = File("result"))'
      OBVIOUS
    <3> DEFINE path == jsonfile[1]
    <3>2. jsonfile # <<>> /\ jsonfile = arguments.json
      BY <1>1, <3>1 DEF Configured
    <3>3. Opens(path) /\ files' = Written(path, "result")
      BY <1>3, <3>2 DEF MakeResult, Exits
    <3>4. \A q : Opens(q) /\ files' = Written(q, "result") =>
              /\ Located(q) \in DOMAIN files' /\ files'[Located(q)] = File("result")
              /\ Located(q)' = Located(q)
      BY WrittenLocated
    <3>5. /\ Located(path)' = Located(path) /\ Located(path) \in DOMAIN files'
          /\ files'[Located(path)] = File("result")
      BY <1>1, <3>3, <3>4
    <3>6. (Located(arguments.json[1]))' = Located(path)
      BY <1>1, <3>2, <3>5
    <3> QED BY <3>5, <3>6 DEF Entry
  <2>9. /\ ExecutedAs(d.core.done, CoreTypes(d.standard))
        /\ ExecutedAs(d.interface.done, InterfaceTypes(d.standard))
    BY <1>1, <2>2, AllExecuted DEF RunTo, Read
  <2>10. LabelledInOrder(Labels(d), SpecOf(d.sheet).common)
    BY <2>1, LabelsInOrder
  <2>11. d.rates = (arguments.config = "rates")
    BY <1>1 DEF Running, Configured
  <2> HIDE DEF d, t, e
  <2>12. /\ e.standard = d.standard /\ e.sheet = d.sheet /\ e.rates = d.rates
         /\ report'[1].t = t /\ report'[1].labels = Labels(d)
    BY <2>6, <2>7 DEF Onward
  <2>13. /\ ExecutedAs(drams["ddr"].core.done, CoreTypes(drams["ddr"].standard))'
         /\ ExecutedAs(drams["ddr"].interface.done, InterfaceTypes(drams["ddr"].standard))'
    BY <1>1, <2>5, <2>6, <2>9, <2>12 DEF ExecutedAs
  <2>14. /\ \A row \in ToSet(trace) : row.t <= t
         /\ t \in {row.t : row \in ToSet(trace)} \cup {0}
    BY <2>3 DEF ToSet, Times
  <2>15. ResultOfWholeTrace'
    BY <1>1, <2>5, <2>8, <2>10, <2>11, <2>12, <2>13, <2>14 DEF ResultOfWholeTrace
  <2> QED BY <1>1, <2>15 DEF Progress
<1> QED BY <1>2, <1>3

LEMMA ArgumentsAreRead ==
    ASSUME FilesKept, Progress, Tool, ParseArgs
    PROVE  Progress'
<1>1. /\ driver = "tool" /\ phase = "arguments" /\ next = 1 /\ exit # "0"
      /\ UNCHANGED <<driver, arguments, config, trace, commandList, next, report>>
  BY DEF Tool, ParseArgs, Progress
<1>2. CASE phase' = "exit" /\ exit' # "0"
  BY <1>1, <1>2 DEF Progress, ResultOfWholeTrace
<1>3. CASE phase' = "config" /\ exit' = exit /\ jsonfile' = arguments.json
  BY <1>1, <1>3 DEF Progress, ResultOfWholeTrace
<1> QED BY <1>2, <1>3, ArgumentsParsed

LEMMA ConfigIsRead ==
    ASSUME Progress, Tool, GetConfig
    PROVE  Progress'
<1>1. /\ driver = "tool" /\ phase = "config" /\ next = 1 /\ exit # "0"
      /\ UNCHANGED <<driver, arguments, files, jsonfile, trace, commandList, next, report>>
      /\ jsonfile = arguments.json
  BY DEF Tool, GetConfig, Progress
<1>2. CASE phase' = "exit" /\ exit' # "0"
  BY <1>1, <1>2 DEF Progress, ResultOfWholeTrace
<1>3. CASE arguments.given = "all" /\ phase' = "trace" /\ exit' = exit
           /\ config' = [rates |-> arguments.config = "rates"]
  <2>1. Configured'
    BY <1>1, <1>3 DEF Configured
  <2> QED BY <1>1, <1>3, <2>1 DEF Progress, ResultOfWholeTrace
<1> QED BY <1>2, <1>3 DEF GetConfig, Exits, Continues

LEMMA ProgressStep ==
    ASSUME Types, FilesKept, Progress, [Next]_vars
    PROVE  Progress'
<1>1. CASE Tool
  BY <1>1, ArgumentsAreRead, ConfigIsRead, TraceIsRead, RunStarts, RunGoesOn, ResultIsMade
     DEF Tool, ToolNext
<1>2. CASE driver # "tool" /\ driver' = driver
  BY <1>2 DEF Progress, ResultOfWholeTrace
<1>3. CASE UNCHANGED vars
  <2>1. UNCHANGED <<driver, phase, next, arguments, jsonfile, config, trace, commandList, drams,
                    exit, report, files>>
    BY <1>3 DEF vars, dramVars, toolVars
  <2>2. \A path : Located(path)' = Located(path)
    BY <2>1 DEF Located, IsLink, Target, Entry
  <2>3. ResultOfWholeTrace' <=> ResultOfWholeTrace
    BY <2>1, <2>2 DEF ResultOfWholeTrace, ExecutedAs, Entry
  <2>4. Running' <=> Running
    BY <2>1 DEF Running, RunTo, ExecutedFirst, First, Times, Exists
  <2>5. (Configured' <=> Configured) /\ (Read' <=> Read)
    BY <2>1 DEF Configured, Read
  <2> QED BY <2>1, <2>3, <2>4, <2>5 DEF Progress
<1> QED BY <1>1, <1>2, <1>3 DEF Next, Library, Datasheet

\* A run of the tool that exits with 0 executed the whole trace, in each part that has
\* a case for the command, reports at its latest time, labels every energy in place and
\* holds the result where -j names it, for any trace, data sheet and file system
\* (main.cpp, run.cpp).
THEOREM ResultsAreWhole == Spec => []ResultOfWholeTrace
<1>1. Init => Types /\ FilesKept /\ Progress
  <2>1. Init => Progress
    BY DEF Init, ToolInit, Progress, ResultOfWholeTrace
  <2> QED BY <2>1, InitTypes, InitFilesKept
<1>2. Types /\ FilesKept /\ Progress /\ [Next]_vars => (Types /\ FilesKept /\ Progress)'
  BY NextStep, FilesKeptStep, ProgressStep
<1>3. Progress => ResultOfWholeTrace
  BY DEF Progress, ResultOfWholeTrace
<1> QED BY <1>1, <1>2, <1>3, PTL DEF Spec
=============================================================================
