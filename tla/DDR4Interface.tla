---------------------------- MODULE DDR4Interface ----------------------------
(***************************************************************************)
(* DDR4Interface.  Of the 27 lines of the command bus five are kept: the   *)
(* first (chip select), the fifth (write enable), BA0, A10 and A2, which   *)
(* tell the commands, banks, rows and burst lengths apart.                 *)
(***************************************************************************)
EXTENDS Interface

InitSettings == [V |-> "H", X |-> "H"]
DDR4Init == InterfaceInit(InitSettings)

Deselect == <<"H", "X", "X", "X", "X">>

\* registerPatterns
Patterns ==
    [ACT |-> <<<<"L", "R14", "BA0", "R10", "R2">>>>,
     PRE |-> <<<<"L", "L", "BA0", "L", "V">>>>,
     PREA |-> <<<<"L", "L", "V", "H", "V">>>>,
     REFA |-> <<<<"L", "H", "V", "V", "V">>>>,
     RD |-> <<<<"L", "H", "BA0", "L", "C2">>>>,
     RDA |-> <<<<"L", "H", "BA0", "H", "C2">>>>,
     WR |-> <<<<"L", "L", "BA0", "L", "C2">>>>,
     WRA |-> <<<<"L", "L", "BA0", "H", "C2">>>>,
     SREFEN |-> <<<<"L", "H", "V", "V", "V">>>>,
     SREFEX |-> <<Deselect, <<"L", "H", "V", "V", "V">>>>,
     PDEA |-> <<Deselect>>, PDEP |-> <<Deselect>>,
     PDXA |-> <<Deselect>>, PDXP |-> <<Deselect>>]

Encode(encoding, cmd) ==
    LET pattern == Patterns[cmd.type]
    IN  Words(pattern, {d \in Descriptors(pattern) : Bit(encoding, d, cmd.address)})

\* handleOverrides: a burst of another length counts as one of 8.
Overrides(n, d) ==
    CASE d = "read" -> [C2 |-> "L", C1 |-> "L", C0 |-> "L"]
      [] d = "write" /\ n * BeatScale = 4 -> [C2 |-> "L", C1 |-> "H", C0 |-> "H"]
      [] OTHER -> [C2 |-> "H", C1 |-> "H", C0 |-> "H"]

\* A faulty variant of Overridden: a short burst leaves the overrides as they are.
OverriddenByLong(encoding, n, d) ==
    IF n * BeatScale = 4 THEN encoding ELSE updateSettings(encoding, Overrides(n, d))

Overridden(encoding, n, d) == updateSettings(encoding, Overrides(n, d))

\* A faulty variant of handlePrePostamble: the end of the burst is not stored.
handlePrePostambleOnce(cmd, d, n) ==
    /\ cmd.time >= access[cmd.rank][d].end
    /\ access' = [access EXCEPT ![cmd.rank][d].seamless =
                     IF cmd.time = access[cmd.rank][d].end THEN @ + 1 ELSE @]

\* handlePrePostamble, whose assertion is the caller's to keep.
handlePrePostamble(cmd, d, n) ==
    LET last == access[cmd.rank][d]
        seamless == IF cmd.time = last.end THEN 1 ELSE 0
    IN  /\ cmd.time >= last.end
        /\ access' = [access EXCEPT ![cmd.rank][d] =
               [end |-> cmd.time + n \div DataRate, seamless |-> last.seamless + seamless]]

handleData(cmd, d) ==
    LET n == length(cmd)
        encoding == Overridden(encoder, n, d)
    IN  /\ updateDBI(cmd, d, Config)
        /\ loadData(cmd, d, Beats(Driven(cmd, Config)))
        /\ encoder' = encoding
        /\ handleDQs(cmd.time, d, n)
        /\ handleCommandBus(cmd.time, Encode(encoding, cmd))
        /\ handlePrePostamble(cmd, d, n)
        /\ UNCHANGED <<wck, clock, meta>>

\* doCommand
doCommand(cmd) ==
    \/ cmd.type \in {"RD", "RDA"} /\ handleData(cmd, "read")
    \/ cmd.type \in {"WR", "WRA"} /\ handleData(cmd, "write")
    \/ cmd.type \in DOMAIN Patterns \ {"RD", "RDA", "WR", "WRA"}
          /\ busCommand(cmd, Encode(encoder, cmd))
    \/ cmd.type = "END_OF_SIMULATION" /\ endOfSimulation(cmd.time, Config)

\* serialize and deserialize
Restore ==
    /\ RestoreLines(InitSettings)
    /\ \E rest \in BOOLEAN :
          dbi' = [dbi EXCEPT !.last = [d \in Dirs |-> RestoredBurst(@[d], rest)]]
    /\ pins' = [d \in Dirs |-> [p \in 1..Width |-> RestoredPin(NewPins[d][p], pins[d][p])]]
    /\ UNCHANGED access
=============================================================================
