------------------------------- MODULE CommandLine -------------------------------
(***************************************************************************)
(* The command line tool: arguments, configuration, trace, memory, run and *)
(* result.  A path is a directory and a name; files maps the paths of the  *)
(* directories that exist to what is there.  The working directory is      *)
(* "cwd".  A link that is not absolute names a file beside itself.         *)
(***************************************************************************)
EXTENDS Dram, FiniteSets, SequencesExt

CONSTANTS Directories,          \* those that exist
          Traces, Sheets        \* what the files given may hold; Nothing: unreadable

\* Text that is to be hexadecimal: digits, or NotHex, behind an optional prefix.
NotHex == 16

\* A sheet may have any number of banks and of groups, as no constructor checks them.
ASSUME InputAssumption ==
    /\ IsFiniteSet(Directories)
    /\ Traces \subseteq Seq([columns : Nat, number : BOOLEAN, t : Nat, text : STRING,
                             bank : Nat, digits : Seq(0..NotHex)])
    /\ \A sheet \in Sheets \ {Nothing} :
        /\ sheet.standard \in {"DDR4", "DDR5", "LPDDR4", "LPDDR5", "LPDDR6"}
        /\ sheet.nbrOfRanks \in Nat /\ sheet.nbrOfDevices \in Nat
        /\ sheet.nbrOfBanks \in Nat /\ sheet.nbrOfBankGroups \in Nat

VARIABLES phase,        \* what main does next
          arguments,    \* [given, json, config]
          files,
          jsonfile,     \* the path that the parser assigned for -j, as an option
          config,       \* [rates], once read
          trace,        \* the rows of the file
          commandList, next,
          report,       \* what the result says, as an option
          exit          \* "none", "0", "1" (any other code) or "aborted"

toolVars == <<phase, arguments, files, jsonfile, config, trace, commandList, next, report, exit>>

--------------------------------------------------------------------------------
(* The file system.                                                        *)

Absent == [kind |-> "absent"]
File(content) == [kind |-> "file", content |-> content]
Link(absolute, path) == [kind |-> "link", absolute |-> absolute, path |-> path]

Entry(path) == IF path \in DOMAIN files THEN files[path] ELSE Absent
IsLink(path) == Entry(path).kind = "link"

\* Where the operating system looks for a link's target, and where the program
\* does: read_symlink returns the text, which the program resolves like any path.
Target(path) ==
    LET link == Entry(path)
    IN  IF link.absolute THEN link.path ELSE <<path[1], link.path[2]>>

ReadLink(path) ==
    LET link == Entry(path)
    IN  IF link.absolute THEN link.path ELSE <<"cwd", link.path[2]>>

\* What opening a path opens: the end of its chain of links.
Located(path) ==
    LET chain[n \in 0..Cardinality(DOMAIN files)] ==
            IF n = 0 THEN path
            ELSE IF IsLink(chain[n - 1]) THEN Target(chain[n - 1]) ELSE chain[n - 1]
    IN  chain[Cardinality(DOMAIN files)]

Status(path) == Entry(Located(path)).kind       \* "link" if the chain has no end

\* An output stream opens a file that is there, empty now, or creates one.
Opens(path) == Located(path) \in DOMAIN files /\ Status(path) \in {"absent", "file"}
Written(path, content) == [files EXCEPT ![Located(path)] = File(content)]

--------------------------------------------------------------------------------
(* validators.cpp: EnsureFileExists, the check of the argument of -j.      *)

MaxIterations == 10

\* One round of the loop: nothing more is done once it returned.
Followed(r) ==
    LET q == ReadLink(r.path)
    IN  IF r.type # "UNRESOLVED" \/ ~IsLink(r.path) THEN r
        ELSE [path |-> q,
              type |-> CASE Status(q) = "link" -> "THROWS"
                         [] Status(q) = "absent" -> "NOT_FOUND"
                         [] Status(q) = "file" -> "FILE"
                         [] Status(q) = "directory" -> "DIRECTORY"
                         [] OTHER -> "UNRESOLVED"]

resolve_symlink(path) ==
    LET round[n \in 0..MaxIterations] ==
            IF n = 0 THEN [path |-> path, type |-> "UNRESOLVED"] ELSE Followed(round[n - 1])
    IN  round[MaxIterations]

\* What a validator says of an argument, and the files as they are then.  The path
\* that it puts in its place is lost: check(), unlike transform(), gives it a copy.
Validation(result, fs) == [result |-> result, files |-> fs]

createFileInParentDirectory(path) ==
    IF Opens(path) THEN {Validation("valid", Written(path, "")), Validation("error", files)}
    ELSE {Validation("error", files)}

\* A faulty variant of EnsureFileExists: creates the file even if there is one.
EnsureFileIsNew(path) ==
    IF IsLink(path) /\ resolve_symlink(path).type \in {"FILE", "NOT_FOUND"}
    THEN createFileInParentDirectory(resolve_symlink(path).path)
    ELSE createFileInParentDirectory(path)

EnsureFileExists(path) ==
    IF IsLink(path)
    THEN LET resolved == resolve_symlink(path)
         IN  CASE resolved.type = "FILE" -> {Validation("valid", files)}
               [] resolved.type = "NOT_FOUND" -> createFileInParentDirectory(resolved.path)
               [] resolved.type = "THROWS" -> {Validation("aborted", files)}
               [] OTHER -> {Validation("error", files)}
    ELSE CASE Entry(path).kind = "file" -> {Validation("valid", files)}
           [] Entry(path).kind = "absent" -> createFileInParentDirectory(path)
           [] OTHER -> {Validation("error", files)}

--------------------------------------------------------------------------------
(* CmdType.h and util.cpp.                                                 *)

needs_data(type) == type \in {"RD", "RDA", "WR", "WRA"}

Named == {"ACT", "PRE", "PREA", "PRESB", "REFA", "REFB", "REFSB", "REFP2B", "REFDB", "RD",
          "RDA", "WR", "WRA", "PDEA", "PDEP", "PDXA", "PDXP", "SREFEN", "SREFEX", "DSMEN",
          "DSMEX"}

from_string(text) ==
    IF text \in Named THEN text ELSE IF text = "END" THEN "END_OF_SIMULATION" ELSE "NOP"

\* A number ends before the first character that is no digit: the second of two
\* may be anything, the first may not.
Byte(first, second) == IF second = NotHex THEN first ELSE 16 * first + second

IsData(digits) ==
    Len(digits) % 2 = 0 /\ \A i \in 1..(Len(digits) \div 2) : digits[2 * i - 1] # NotHex

hexStringToUint8Array(digits) ==
    [i \in 1..(Len(digits) \div 2) |-> Byte(digits[2 * i - 1], digits[2 * i])]

--------------------------------------------------------------------------------
(* parse_command_list: [columns, number, t, text, bank, digits] are a row; *)
(* number tells whether the columns that are to be numbers are.            *)

RowFails(row) ==
    IF row.columns < 7 THEN "1"
    ELSE IF ~row.number THEN "aborted"          \* no one catches the exception
    ELSE IF needs_data(from_string(row.text))
              /\ (row.columns < 8 \/ ~IsData(row.digits)) THEN "1"
    ELSE "none"

\* A faulty variant of RowCommand: the command before its name is parsed.
RowCommandAsNamed(row) ==
    [t |-> row.t, type |-> row.text, bank |-> row.bank,
     data |-> IF needs_data(row.text) THEN hexStringToUint8Array(row.digits) ELSE <<>>]

RowCommand(row) ==
    LET type == from_string(row.text)
    IN  [t |-> row.t, type |-> type, bank |-> row.bank,
         data |-> IF needs_data(type) THEN hexStringToUint8Array(row.digits) ELSE <<>>]

\* How parsing ends: with the first row that fails.
ParseEnds(rows) ==
    LET failing == {i \in DOMAIN rows : RowFails(rows[i]) # "none"}
    IN  IF failing = {} THEN "none" ELSE RowFails(rows[Min(failing)])

--------------------------------------------------------------------------------
(* The result: labels of the bank energies, by their offset.               *)

Labels(d) ==
    LET a == SpecOf(d.sheet).common
        offset(cell) == cell[1] * a.numberOfBanks * a.numberOfDevices
                            + cell[2] * a.numberOfBanks + cell[3]
        cells == (0..(a.numberOfRanks - 1)) \X (0..(a.numberOfDevices - 1)) \X (0..(a.numberOfBanks - 1))
    IN  [i \in {offset(cell) : cell \in cells} |-> CHOOSE cell \in cells : offset(cell) = i]

--------------------------------------------------------------------------------
(* main.                                                                   *)

ToolInit ==
    /\ phase = "arguments"
    /\ jsonfile = <<>> /\ config = [rates |-> FALSE]
    /\ trace = <<>> /\ commandList = <<>> /\ next = 1
    /\ report = <<>> /\ exit = "none"

Exits(code) == phase' = "exit" /\ exit' = code
Continues(with) == phase' = with /\ exit' = exit

\* parseArgs.  The parser validates -j with the other options, before it notices
\* --help or that an option is missing; if an argument is missing, or what it names,
\* the check of an earlier option may end parsing first.  --help ends it like an
\* error, but returns 0, so that main goes on, here without the paths of the inputs.
ParseArgs ==
    /\ phase = "arguments"
    /\ \/ arguments.given = "missing" /\ Exits("1") /\ UNCHANGED <<files, jsonfile>>
       \/ \E check \in IF arguments.json = <<>> THEN {Validation("valid", files)}
                       ELSE EnsureFileExists(arguments.json[1]) :
            /\ files' = check.files
            /\ CASE check.result = "aborted" -> Exits("aborted") /\ UNCHANGED jsonfile
                 [] check.result = "valid" /\ arguments.given # "missing" ->
                        Continues("config") /\ jsonfile' = arguments.json
                 [] OTHER -> Exits("1") /\ UNCHANGED jsonfile
    /\ UNCHANGED <<dramVars, arguments, config, trace, commandList, next, report>>

\* getConfig.  Without all arguments the path of the configuration is empty.
GetConfig ==
    /\ phase = "config"
    /\ IF arguments.given = "all" /\ arguments.config \in {"data", "rates"}
       THEN Continues("trace") /\ config' = [rates |-> arguments.config = "rates"]
       ELSE Exits("1") /\ UNCHANGED config
    /\ UNCHANGED <<dramVars, arguments, files, jsonfile, trace, commandList, next, report>>

ParseCommandList ==
    /\ phase = "trace"
    /\ trace' \in Traces
    /\ IF ParseEnds(trace') = "none"
       THEN Continues("memory") /\ commandList' = [i \in DOMAIN trace' |-> RowCommand(trace'[i])]
       ELSE Exits(ParseEnds(trace')) /\ UNCHANGED commandList
    /\ UNCHANGED <<dramVars, arguments, files, jsonfile, config, next, report>>

\* getMemory: no memory if the sheet does not parse or its constructor throws.
GetMemory ==
    /\ phase = "memory"
    /\ \E sheet \in Sheets :
        IF sheet = Nothing THEN Exits("1") /\ UNCHANGED dramVars
        ELSE IF Traps(sheet) THEN Exits("aborted") /\ UNCHANGED dramVars
        ELSE IF LengthError(sheet) THEN Exits("1") /\ UNCHANGED dramVars
        ELSE Continues("run") /\ Construct("ddr", sheet, config.rates)
    /\ UNCHANGED <<arguments, files, jsonfile, config, trace, commandList, next, report>>

\* runCommands: one command per step.
RunCommand ==
    /\ phase = "run" /\ next <= Len(commandList)
    /\ DoCommand("ddr", commandList[next])
    /\ next' = next + 1
    /\ CASE outcome' = "aborted" -> Exits("aborted")
         [] outcome' = "thrown" -> Exits("1")
         [] OTHER -> Continues("run")
    /\ UNCHANGED <<arguments, files, jsonfile, config, trace, commandList, report>>

\* makeResult, with jsonFileResult or stdoutResult.
MakeResult ==
    /\ phase = "run" /\ next > Len(commandList)
    /\ GetStats("ddr")
    /\ LET says == [t |-> LastCommandTime(drams["ddr"]), labels |-> Labels(drams["ddr"])]
       IN  \/ jsonfile = <<>> /\ Exits("0") /\ report' = <<says>> /\ UNCHANGED files
           \/ /\ jsonfile # <<>> /\ Opens(jsonfile[1])
              /\ files' = Written(jsonfile[1], "result")
              /\ Exits("0") /\ report' = <<says>>
           \/ jsonfile # <<>> /\ Exits("1") /\ UNCHANGED <<files, report>>
    /\ UNCHANGED <<arguments, jsonfile, config, trace, commandList, next>>

ToolNext ==
    ParseArgs \/ GetConfig \/ ParseCommandList \/ GetMemory \/ RunCommand \/ MakeResult
=============================================================================
