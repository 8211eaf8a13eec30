--------------------------- MODULE LPDDR5Interface ---------------------------
(***************************************************************************)
(* LPDDR5Interface.  Of the seven lines of the command bus 0, 2, 3 and 6   *)
(* are kept.  A command has two words, ACT four; the bus takes two words a *)
(* cycle.  What addresses a bank depends on the architecture of the banks. *)
(***************************************************************************)
EXTENDS Interface

CONSTANT BankArch   \* "MBG", "M16B" or "M8B"

InitSettings == <<>>
LPDDR5Init == InterfaceInit(InitSettings)

Third(other) == IF BankArch = "MBG" THEN "BG0" ELSE other
Fourth(other) == CASE BankArch = "MBG" -> "BG1"
                   [] BankArch = "M16B" -> "BA3"
                   [] BankArch = "M8B" -> other
Column(other, precharge) == <<"BA0", Third("BA2"), Fourth(other), precharge>>
Enter(kind) == <<<<"L", "L", "H", "H">>, <<"V", "V", "V", kind>>>>
Exit == <<<<"L", "L", "H", "L">>, <<"V", "V", "V", "V">>>>
RefreshBank == <<<<"L", "L", "H", "L">>, <<"BA0", Third("BA2"), "V", "L">>>>

\* registerPatterns
AllPatterns ==
    [ACT |-> <<<<"H", "H", "R14", "R17">>, Column("V", "R13"), <<"H", "L", "R7", "R10">>, <<"R0", "R2", "R3", "R6">>>>,
     PRE |-> <<<<"L", "L", "H", "H">>, Column("V", "L")>>,
     PREA |-> <<<<"L", "L", "H", "H">>, <<"V", Third("V"), IF BankArch = "MBG" THEN "BG1" ELSE "V", "H">>>>,
     REFB |-> RefreshBank,
     REFA |-> <<<<"L", "L", "H", "L">>, <<"V", Third("V"), "V", "H">>>>,
     RD |-> <<<<"H", "L", "C0", "C5">>, Column("L", "L")>>,
     RDA |-> <<<<"H", "L", "C0", "C5">>, Column("L", "H")>>,
     WR |-> <<<<"L", "H", "C0", "C5">>, Column("V", "L")>>,
     WRA |-> <<<<"L", "H", "C0", "C5">>, Column("V", "H")>>,
     SREFEN |-> Enter("L"), PDEA |-> Enter("H"), PDEP |-> Enter("H"), DSMEN |-> Enter("L"),
     SREFEX |-> Exit, PDXA |-> Exit, PDXP |-> Exit, DSMEX |-> Exit, REFP2B |-> RefreshBank]

\* REFP2B has none, and throws, where banks are not paired.
Patterns ==
    IF BankArch = "M8B" THEN Restrict(AllPatterns, DOMAIN AllPatterns \ {"REFP2B"}) ELSE AllPatterns

Encode(encoding, cmd) ==
    LET pattern == Patterns[cmd.type]
    IN  Words(pattern, {d \in Descriptors(pattern) : Bit(encoding, d, cmd.address)})

\* handleOverrides
Overridden(encoding, n, d) ==
    IF n * BeatScale = 32 THEN updateSettings(encoding, [C0 |-> "L"])
    ELSE removeSetting(encoding, "C0")

\* There are no write strobes; the write clock runs in both directions.
handleData(cmd, d) ==
    LET n == length(cmd)
        encoding == Overridden(encoder, n, d)
    IN  /\ updateDBI(cmd, d, Config)
        /\ loadData(cmd, d, Beats(Driven(cmd, Config)))
        /\ IF d = "read" THEN handleDQs(cmd.time, d, n) ELSE UNCHANGED dqs
        /\ handleWck(cmd.time, n)
        /\ encoder' = encoding
        /\ handleCommandBus(cmd.time, Encode(encoding, cmd))
        /\ UNCHANGED <<clock, access, meta>>

\* doCommand
doCommand(cmd) ==
    \/ cmd.type \in {"RD", "RDA"} /\ handleData(cmd, "read")
    \/ cmd.type \in {"WR", "WRA"} /\ handleData(cmd, "write")
    \/ cmd.type \in DOMAIN Patterns \ {"RD", "RDA", "WR", "WRA"}
          /\ busCommand(cmd, Encode(encoder, cmd))
    \/ cmd.type = "END_OF_SIMULATION" /\ endOfSimulation(cmd.time, Config)

\* serialize and deserialize
Restore == RestoreWithoutDBI(InitSettings)
=============================================================================
