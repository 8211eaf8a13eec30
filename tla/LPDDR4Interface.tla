--------------------------- MODULE LPDDR4Interface ---------------------------
(***************************************************************************)
(* LPDDR4Interface.  Of the six lines of the command bus the first, third  *)
(* and sixth are kept; a command has two or four words.                    *)
(***************************************************************************)
EXTENDS Interface

InitSettings == [C0 |-> "L", C1 |-> "L"]
LPDDR4Init == InterfaceInit(InitSettings)

Column == <<<<"L", "L", "C8">>, <<"C2", "C4", "C7">>>>

\* registerPatterns
Patterns ==
    [ACT |-> <<<<"H", "R12", "R15">>, <<"BA0", "BA2", "R11">>, <<"R17", "R6", "R9">>, <<"R0", "R2", "R5">>>>,
     PRE |-> <<<<"L", "L", "L">>, <<"BA0", "BA2", "V">>>>,
     PREA |-> <<<<"L", "L", "H">>, <<"V", "V", "V">>>>,
     REFB |-> <<<<"L", "L", "L">>, <<"BA0", "BA2", "V">>>>,
     RD |-> <<<<"L", "L", "BL">>, <<"BA0", "BA2", "L">>>> \o Column,
     RDA |-> <<<<"L", "L", "BL">>, <<"BA0", "BA2", "H">>>> \o Column,
     WR |-> <<<<"L", "H", "BL">>, <<"BA0", "BA2", "L">>>> \o Column,
     WRA |-> <<<<"L", "H", "BL">>, <<"BA0", "BA2", "H">>>> \o Column,
     REFA |-> <<<<"L", "L", "H">>, <<"V", "V", "V">>>>,
     SREFEN |-> <<<<"L", "L", "V">>, <<"V", "V", "V">>>>,
     SREFEX |-> <<<<"L", "H", "V">>, <<"V", "V", "V">>>>]

Encode(encoding, cmd) ==
    LET pattern == Patterns[cmd.type]
    IN  Words(pattern, {d \in Descriptors(pattern) : Bit(encoding, d, cmd.address)})

\* handleOverrides: a burst of another length counts as one of 16.
Overridden(encoding, n, d) ==
    IF n * BeatScale = 32
    THEN updateSettings(encoding, [C4 |-> "L", C3 |-> "L", C2 |-> "L", BL |-> "H"])
    ELSE updateSettings(removeSetting(encoding, "C4"), [C3 |-> "L", C2 |-> "L", BL |-> "L"])

handleData(cmd, d) ==
    LET n == length(cmd)
        encoding == Overridden(encoder, n, d)
    IN  /\ updateDBI(cmd, d, Config)
        /\ loadData(cmd, d, Beats(Driven(cmd, Config)))
        /\ handleDQs(cmd.time, d, n)
        /\ encoder' = encoding
        /\ handleCommandBus(cmd.time, Encode(encoding, cmd))
        /\ UNCHANGED <<wck, clock, access, meta>>

\* The power-down commands load nothing: CKE is not a line of the bus.
PowerDowns == {"PDEA", "PDEP", "PDXA", "PDXP"}

\* doCommand
doCommand(cmd) ==
    \/ cmd.type \in {"RD", "RDA"} /\ handleData(cmd, "read")
    \/ cmd.type \in {"WR", "WRA"} /\ handleData(cmd, "write")
    \/ cmd.type \in DOMAIN Patterns \ {"RD", "RDA", "WR", "WRA"}
          /\ busCommand(cmd, Encode(encoder, cmd))
    \/ cmd.type = "END_OF_SIMULATION" /\ endOfSimulation(cmd.time, Config)
    \/ cmd.type \in PowerDowns /\ cmd.time >= now /\ now' = cmd.time
          /\ UNCHANGED <<lines, encoder, strobes, dbiVars, access, meta>>

\* serialize and deserialize
Restore == RestoreWithoutDBI(InitSettings)
=============================================================================
