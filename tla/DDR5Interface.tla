---------------------------- MODULE DDR5Interface ----------------------------
(***************************************************************************)
(* DDR5Interface, without DBI.  Of the 14 lines of the command bus six are *)
(* kept: 0, 1, 4, 6, 8 and 10.  A command has one or two words.            *)
(***************************************************************************)
EXTENDS Interface

InitSettings == [V |-> "H", X |-> "H", C0 |-> "H", C1 |-> "H"]
DDR5Init == InterfaceInit(InitSettings)

PowerDownExit == <<<<"H", "H", "H", "V", "V", "V">>>>

\* registerPatterns; there is none for SREFEX, which doCommand accepts: it throws.
Patterns ==
    [ACT |-> <<<<"L", "L", "R2", "BA0", "BG0", "BG2">>, <<"R4", "R5", "R8", "R10", "R12", "R14">>>>,
     PRE |-> <<<<"H", "H", "H", "BA0", "BG0", "BG2">>>>,
     RD |-> <<<<"H", "L", "H", "BA0", "BG0", "BG2">>, <<"C2", "C3", "C6", "C8", "C10", "H">>>>,
     RDA |-> <<<<"H", "L", "H", "BA0", "BG0", "BG2">>, <<"C2", "C3", "C6", "C8", "C10", "L">>>>,
     WR |-> <<<<"H", "L", "L", "BA0", "BG0", "BG2">>, <<"V", "C3", "C6", "C8", "C10", "H">>>>,
     WRA |-> <<<<"H", "L", "L", "BA0", "BG0", "BG2">>, <<"V", "C3", "C6", "C8", "C10", "L">>>>,
     PRESB |-> <<<<"H", "H", "L", "BA0", "V", "H">>>>,
     REFSB |-> <<<<"H", "H", "H", "BA0", "V", "H">>>>,
     REFA |-> <<<<"H", "H", "H", "V", "V", "L">>>>,
     PREA |-> <<<<"H", "H", "L", "V", "V", "L">>>>,
     SREFEN |-> <<<<"H", "H", "H", "V", "V", "L">>>>,
     PDEA |-> <<<<"H", "H", "H", "V", "V", "H">>>>, PDEP |-> <<<<"H", "H", "H", "V", "V", "H">>>>,
     PDXA |-> PowerDownExit, PDXP |-> PowerDownExit, NOP |-> PowerDownExit]

Encode(encoding, cmd) ==
    LET pattern == Patterns[cmd.type]
    IN  Words(pattern, {d \in Descriptors(pattern) : Bit(encoding, d, cmd.address)})

\* handleOverrides: a burst of another length counts as one of 16.
Overridden(encoding, n, d) ==
    LET level == IF d = "write" /\ n * BeatScale # 8 THEN "H" ELSE "L"
        first == IF d = "write" THEN "H" ELSE "L"
    IN  IF n * BeatScale = 32
        THEN updateSettings(encoding, [C10 |-> "L", C3 |-> level, C2 |-> first])
        ELSE updateSettings(removeSetting(encoding, "C10"), [C3 |-> level, C2 |-> first])

handleData(cmd, d) ==
    LET n == length(cmd)
        encoding == Overridden(encoder, n, d)
    IN  /\ loadData(cmd, d, Beats(cmd.data))
        /\ handleDQs(cmd.time, d, n)
        /\ encoder' = encoding
        /\ handleCommandBus(cmd.time, Encode(encoding, cmd))
        /\ UNCHANGED <<wck, clock, dbiVars, access, meta>>

\* doCommand; at the end of the simulation there is nothing to reset.
doCommand(cmd) ==
    \/ cmd.type \in {"RD", "RDA"} /\ handleData(cmd, "read")
    \/ cmd.type \in {"WR", "WRA"} /\ handleData(cmd, "write")
    \/ cmd.type \in DOMAIN Patterns \ {"RD", "RDA", "WR", "WRA"}
          /\ busCommand(cmd, Encode(encoder, cmd))
    \/ cmd.type = "END_OF_SIMULATION" /\ cmd.time >= now /\ now' = cmd.time
          /\ UNCHANGED <<lines, encoder, strobes, dbiVars, access, meta>>

\* serialize and deserialize
Restore == RestoreWithoutDBI(InitSettings)
=============================================================================
