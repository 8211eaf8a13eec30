--------------------------------- MODULE MCTool ---------------------------------
(***************************************************************************)
(* The users of the front ends: the command line tool, over the arguments, *)
(* files, traces and data sheets it may be given; and a program that uses  *)
(* the library, which drives core and interface together or one by one,    *)
(* switches extensions, and saves one object and restores another.         *)
(***************************************************************************)
EXTENDS CommandLine, TLC

CONSTANTS MaxTime, MaxCommands, MaxCalls

ASSUME BoundAssumption == MaxTime \in Nat
ASSUME HandleAssumption == "ddr" \in Handles       \* the object of main

VARIABLES driver,           \* "tool", "library" or "sheets"
          now, commands, calls,
          restored,         \* the handles that were restored
          original          \* the files at the start

vars == <<dramVars, toolVars, driver, now, commands, calls, restored, original>>

--------------------------------------------------------------------------------
(* Data sheets: small ones that differ in what the program tells apart.    *)

Power == [VDD |-> [v |-> 1, i0 |-> 3, i2N |-> 1, i3N |-> 2, i5 |-> 4, i5B |-> 4, i5F |-> 5,
                   i5F2 |-> 5, i5F4 |-> 6, iBeta |-> <<>>]]

Timing == [tCK |-> 4, RFC1 |-> 5, RFC2 |-> 4, RFC4 |-> 3, RFCab |-> 5, RFCpb |-> 3, RFCdb |-> 3,
           RFCsb |-> 3, AL |-> 0, RTP |-> 2, RBTP |-> 2, WL |-> 2, WR |-> 2]

Sheet(standard, banks, groups, width, bankwise) ==
    [standard |-> standard, nbrOfBanks |-> banks, nbrOfBankGroups |-> groups, nbrOfRanks |-> 2,
     nbrOfDevices |-> IF standard = "DDR4" THEN 2 ELSE 0, burstLength |-> 16, dataRate |-> 2,
     width |-> width, RefMode |-> "REF_MODE_1", WCK2CK |-> 2, WCKalwaysOn |-> FALSE,
     dataRates |-> <<>>, timing |-> Timing, power |-> Power, bankwise |-> bankwise]

Small == {Sheet("DDR4", 2, 1, 8, <<>>), Sheet("DDR4", 2, 1, 4, <<>>), Sheet("DDR5", 2, 1, 8, <<>>),
          Sheet("LPDDR4", 2, 1, 8, <<>>), Sheet("LPDDR6", 2, 1, 8, <<>>),
          Sheet("LPDDR5", 8, 1, 8, <<>>), Sheet("LPDDR5", 2, 2, 8, <<>>)}

PASRMode(mode) == <<[factRho |-> <<>>, hasPASR |-> <<TRUE>>, pasrMode |-> <<mode>>]>>

ToolSheets ==
    {Nothing, Sheet("DDR4", 2, 1, 8, <<>>), Sheet("DDR5", 2, 1, 8, <<>>), Sheet("LPDDR5", 8, 1, 8, <<>>),
     Sheet("DDR5", 2, 0, 8, <<>>), Sheet("DDR5", 2, 4, 8, <<>>), Sheet("DDR4", 0, 1, 8, <<>>),
     Sheet("LPDDR4", 4, 1, 8, PASRMode(2))}

AllSheets ==
    {Sheet(s, bg[1], bg[2], 8, bankwise) :
        s \in {"DDR4", "DDR5", "LPDDR4", "LPDDR5", "LPDDR6"},
        bg \in {0, 2, 4, 8, 16} \X {0, 1, 2, 4},
        bankwise \in {<<>>} \cup {PASRMode(mode) : mode \in 0..8}}

--------------------------------------------------------------------------------
(* Traces: rows that parse, and rows that do not in each way there is.     *)

Row(t, text, bank, digits) ==
    [columns |-> IF digits = <<>> THEN 7 ELSE 8, number |-> TRUE, t |-> t, text |-> text,
     bank |-> bank, digits |-> digits]

Good == {Row(0, "ACT", 0, <<>>), Row(1, "RD", 0, <<1, 2>>), Row(1, "WRA", 1, <<10, 11>>),
         Row(2, "END", 0, <<>>), Row(1, "REFP2B", 0, <<>>), Row(1, "SREFEX", 0, <<>>),
         Row(1, "REFSB", 0, <<>>)}
Odd == {Row(1, "RD", 0, <<1, NotHex>>), Row(1, "act", 0, <<>>), Row(1, "ACT", 9, <<>>)}
Bad == {Row(1, "WR", 0, <<>>), Row(1, "RD", 0, <<1>>), Row(1, "RD", 0, <<NotHex, 1>>),
        [Row(1, "ACT", 0, <<>>) EXCEPT !.columns = 6],
        [Row(1, "ACT", 0, <<>>) EXCEPT !.number = FALSE]}
Rows == Good \cup Odd \cup Bad
ToolTraces == {<<>>} \cup {<<row>> : row \in Rows} \cup {<<a, b>> : a, b \in Rows}

--------------------------------------------------------------------------------
(* File systems: "out" is what -j names, a link there leads to "result" of *)
(* the directory "sub", of its own directory, or to itself.                *)

Out == {Absent, File("old"), [kind |-> "directory"], [kind |-> "other"],
        Link(TRUE, <<"sub", "result">>), Link(TRUE, <<"gone", "result">>)}
Result == {Absent, File("old"), [kind |-> "directory"], [kind |-> "other"],
           Link(TRUE, <<"cwd", "result">>)}

Places(json) == Out \cup {Link(FALSE, <<".", "result">>), Link(TRUE, json)}

FileSystem(json, out, sub, cwd) ==
    [p \in Directories \X {"out", "result"} |->
        IF p = json THEN out ELSE IF p = <<"sub", "result">> THEN sub
        ELSE IF p = <<"cwd", "result">> THEN cwd ELSE Absent]

FileSystems(json) ==
    {FileSystem(json, out, sub, cwd) :
        out \in Places(json), sub \in Result, cwd \in {Absent, File("old")}}

JsonPaths == {<<>>, <<<<"cwd", "out">>>>, <<<<"sub", "out">>>>, <<<<"gone", "out">>>>}

Arguments ==
    [given : {"all"}, json : JsonPaths, config : {"data", "rates"}]
        \cup [given : {"all"}, json : {<<>>}, config : {"undefined rates", "unreadable"}]
        \cup [given : {"missing", "help"}, json : JsonPaths, config : {"data"}]

Init ==
    /\ DramInit /\ ToolInit
    /\ driver \in {"tool", "library", "sheets"}
    /\ now = 0 /\ commands = 0 /\ calls = 0 /\ restored = {}
    /\ IF driver = "tool"
       THEN /\ arguments \in Arguments
            /\ files \in FileSystems(IF arguments.json = <<>> THEN <<"none", "out">>
                                     ELSE arguments.json[1])
       ELSE /\ arguments = [given |-> "help", json |-> <<>>, config |-> "data"]
            /\ files = [p \in {} |-> Absent]
    /\ original = files

--------------------------------------------------------------------------------
(* A program that uses the library.                                        *)

LibraryCommands ==
    [t : now..MaxTime, type : {"ACT", "RDA", "NOP", "REFP2B", "SREFEX"}, bank : {0}, data : {<<>>}]
        \cup [t : now..MaxTime, type : {"ACT"}, bank : {16}, data : {<<>>}]

Call(command) ==
    /\ \/ DoCoreCommand("ddr", command)
       \/ DoInterfaceCommand("ddr", command)
       \/ DoCommand("ddr", command)
    /\ commands < MaxCommands
    /\ commands' = commands + 1 /\ now' = command.t
    /\ UNCHANGED restored

Settings(h) ==
    /\ \/ \E enable \in BOOLEAN : EnableDBI(h, enable)
       \/ \E meta \in {0, 1} : SetMetaData(h, meta)
       \/ GetStats(h)
    /\ UNCHANGED <<commands, now, restored>>

Library ==
    /\ driver = "library"
    /\ IF \E h \in Handles : ~Exists(h)
       THEN /\ \E sheet \in Small :
                /\ Runs
                /\ drams' = [h \in Handles |-> Constructed(sheet, FALSE)]
                /\ UNCHANGED <<build, stream, outcome>>
            /\ UNCHANGED <<commands, calls, now, restored>>
       ELSE /\ calls < MaxCalls /\ calls' = calls + 1
            /\ \/ \E command \in LibraryCommands : Call(command)
               \/ \E h \in Handles :
                    \/ Settings(h)
                    \/ Serialize(h) /\ UNCHANGED <<commands, now, restored>>
                    \/ Deserialize(h) /\ restored' = restored \cup {h} /\ UNCHANGED <<commands, now>>
    /\ UNCHANGED <<toolVars, driver, original>>

\* A program that only reads a data sheet.
Datasheet ==
    /\ driver = "sheets" /\ build = "release"
    /\ \E sheet \in AllSheets :
        /\ ~Traps(sheet) /\ ~LengthError(sheet)
        /\ Construct("ddr", sheet, FALSE)
    /\ UNCHANGED <<toolVars, driver, now, commands, calls, restored, original>>

Tool == driver = "tool" /\ ToolNext /\ UNCHANGED <<driver, now, commands, calls, restored, original>>

Next == Tool \/ Library \/ Datasheet

Spec == Init /\ [][Next]_vars

--------------------------------------------------------------------------------
(* Properties.                                                             *)

\* A command that carries what a row says: the bytes are written in its digits.
Carries(command, row) ==
    /\ command.t = row.t /\ command.bank = row.bank /\ command.type = from_string(row.text)
    /\ needs_data(command.type) =>
        /\ 2 * Len(command.data) = Len(row.digits)
        /\ NotHex \notin ToSet(row.digits) =>
            \A i \in DOMAIN command.data :
                /\ command.data[i] \div 16 = row.digits[2 * i - 1]
                /\ command.data[i] % 16 = row.digits[2 * i]

\* What was done are the rows that a part of the object has a case for, in the order
\* of the trace.
ExecutedAs(done, types) ==
    LET executable == {i \in DOMAIN trace : from_string(trace[i].text) \in types}
    IN  /\ Len(done) = Cardinality(executable)
        /\ \A i \in executable :
              Carries(done[Cardinality({j \in executable : j <= i})], trace[i])

\* The energies of the banks are in the order of ranks, devices and banks, each with
\* a label.
LabelledInOrder(labels, a) ==
    LET n == a.numberOfBanks
    IN  /\ DOMAIN labels = 0..(a.numberOfRanks * a.numberOfDevices * n - 1)
        /\ \A i \in DOMAIN labels :
              labels[i] = <<i \div (n * a.numberOfDevices), (i \div n) % a.numberOfDevices, i % n>>

\* A run of the tool that exits with 0 parsed every row of the trace, executed it
\* in the core and in the interface in the order of the file (a row whose name is
\* unknown as NOP), and reports at the latest time of the trace, per rank, device
\* and bank in the order of the energies, in the file that -j names; it estimated
\* from rates if the configuration asks for it (main.cpp and run.cpp).
ResultOfWholeTrace ==
    driver = "tool" /\ exit = "0" =>
        LET d == drams["ddr"]
            t == report[1].t
        IN  /\ ExecutedAs(d.core.done, CoreTypes(d.standard))
            /\ ExecutedAs(d.interface.done, InterfaceTypes(d.standard))
            /\ \A row \in ToSet(trace) : row.t <= t
            /\ t \in {row.t : row \in ToSet(trace)} \cup {0}
            /\ LabelledInOrder(report[1].labels, SpecOf(d.sheet).common)
            /\ d.rates = (arguments.config = "rates")
            /\ arguments.json # <<>> =>
                Entry(Located(arguments.json[1])) = File("result")

\* The tool holds a result only where -j leads, and only if it exits with 0: else
\* what was there before is as it was, but for a file that was absent and is now
\* empty (EnsureFileExists creates one before the inputs are read, beside a relative
\* link or in the working directory; jsonFileResult opens the file after the run).
NoResultOnFailure ==
    \A p \in DOMAIN files :
        files[p] # original[p] =>
            \/ /\ exit = "0" /\ files[p] = File("result")
               /\ arguments.json # <<>> /\ p = Located(arguments.json[1])
            \/ original[p] = Absent /\ files[p] = File("")

\* Once the arguments are accepted, the file that -j names exists: "the output JSON
\* file must exist" (README.md), which EnsureFileExists is to ensure for a link too.
JsonFileExists ==
    arguments.given = "all" /\ phase \notin {"arguments", "exit"} /\ arguments.json # <<>> =>
        Status(arguments.json[1]) = "file"

\* The DBI extension tells the truth about the interface it switches, after
\* switches that were refused, and after a restore of a DDR4; the other standards
\* do not save the setting of the interface (extensions.cpp, DDR4Interface.cpp).
ExtensionAgrees ==
    \A h \in Handles :
        Exists(h) /\ (h \in restored => drams[h].standard = "DDR4") =>
            drams[h].extension.dbi = drams[h].interface.dbi

\* getLastCommandTime, the time statistics are asked at, is not before a command
\* that the core or the interface executed, each alone or together, with commands
\* that fail between, and not after the latest call; each part has executed its
\* commands in the order of their times (dram_base.h).
AskedInTime ==
    driver = "library" =>
        \A h \in Handles : Exists(h) =>
            LET d == drams[h]
            IN  /\ LastCommandTime(d) <= now
                /\ \A done \in {d.core.done, d.interface.done} :
                    \A i \in DOMAIN done :
                        /\ done[i].t <= LastCommandTime(d)
                        /\ i > 1 => done[i - 1].t <= done[i].t

\* The banks that the handler of a command reaches in the end: those that it computes
\* of the one that is named (DDR5Core.cpp, LPDDR5Core.cpp).
BanksReached(s, type, bank) ==
    IF type = "REFP2B" THEN {bank, (bank + s.perTwoBankOffset) % 16}
    ELSE {g * s.banksPerGroup + (bank % s.banksPerGroup) : g \in 0..(s.common.numberOfBankGroups - 1)}

\* Whatever a data sheet says of banks and groups, a two-bank refresh of LPDDR5 or a
\* same-bank command of DDR5 that is not refused reaches banks that there are: the
\* constructors, the guards and the index arithmetic agree (MemSpecLPDDR5.cpp,
\* LPDDR5Core.cpp, DDR5Core.cpp).
BanksReachedExist ==
    \A h \in Handles : Exists(h) =>
        LET d == drams[h]
            s == SpecOf(d.sheet)
            named(type, bank) == [t |-> 0, type |-> type, bank |-> bank, data |-> <<>>]
        IN  \A type \in {"REFP2B", "PRESB", "REFSB"}, bank \in 0..s.common.numberOfBanks :
                "done" \in CoreOutcomes(d, named(type, bank)) =>
                    BanksReached(s, type, bank) \subseteq 0..(s.common.numberOfBanks - 1)
=============================================================================
