--------------------------- MODULE LPDDR6Interface ---------------------------
(***************************************************************************)
(* LPDDR6Interface.  Its bursts carry more than the data: in some of the   *)
(* beats some lines carry meta data, in others what DBI has inverted, so   *)
(* there are no pins for that.  Of the 24 beats on twelve lines four are   *)
(* kept, on the lines there are, with the second for the meta data and the *)
(* fourth for the inversions; the four special lines of the code are the   *)
(* constant Special.  The bits of the data go to the other places in       *)
(* order; the permutation dataBitMapping is left out.                      *)
(***************************************************************************)
EXTENDS Interface

CONSTANT Special

ShortBurst == 4     \* beats
InitSettings == <<>>
LPDDR6Init == InterfaceInit(InitSettings)

Simple(f1) == <<<<"L", "L", "L", "PAR">>, f1, <<"X", "X", "X", "X">>, <<"X", "X", "X", "X">>>>
Exit == <<"V", "X", "X", "X">>
Banks == <<"BA0", "BA1", "BG0", "BG1">>
NoBanks == <<"X", "X", "X", "X">>
Column(r1, precharge) ==
    <<r1, <<"C0", "C1", precharge, "SC">>, <<"C2", "C3", "C4", "C5">>, Banks>>
Read == <<"BL", "H", "L", "PAR">>
Write == <<"BL", "L", "H", "PAR">>

\* registerPatterns
Patterns ==
    [NOP |-> Simple(<<"L", "L", "L", "V">>),
     PDEA |-> Simple(<<"L", "H", "L", "V">>), PDEP |-> Simple(<<"L", "H", "L", "V">>),
     PDXA |-> <<Exit, Exit, Exit, Exit>>, PDXP |-> <<Exit, Exit, Exit, Exit>>,
     SREFEN |-> Simple(<<"L", "L", "H", "H">>), SREFEX |-> Simple(<<"L", "H", "H", "V">>),
     PRE |-> <<<<"L", "L", "L", "PAR">>, <<"H", "H", "V", "SC">>, <<"V", "V", "V", "L">>, Banks>>,
     PREA |-> <<<<"L", "L", "L", "PAR">>, <<"H", "H", "V", "SC">>, <<"V", "V", "V", "H">>, NoBanks>>,
     REFDB |-> <<<<"L", "L", "L", "PAR">>, <<"H", "L", "L", "SC">>, <<"DBG0", "DBG1", "V", "L">>, Banks>>,
     REFA |-> <<<<"L", "L", "L", "PAR">>, <<"H", "L", "L", "SC">>, <<"X", "X", "V", "H">>, NoBanks>>,
     ACT |-> <<<<"H", "H", "H", "PAR">>, <<"H", "R15", "R16", "SC">>, <<"R11", "R12", "R13", "R14">>, Banks,
               <<"H", "H", "H", "PAR">>, <<"L", "R8", "R9", "R10">>, <<"R4", "R5", "R6", "R7">>, <<"R0", "R1", "R2", "R3">>>>,
     WR |-> Column(Write, "L"), WRA |-> Column(Write, "H"),
     RD |-> Column(Read, "L"), RDA |-> Column(Read, "H")]

Encode(encoding, cmd) ==
    LET pattern == Patterns[cmd.type]
    IN  Words(pattern, {d \in Descriptors(pattern) : BitLPDDR6(encoding, d, cmd.address, ShortBurst)})

\* The extra data of the encoder takes the place of the overrides.
Overridden(encoding, n, d) == [encoding EXCEPT !.burstLength = n]

-----------------------------------------------------------------------------
\* What a line carries in beat n of a burst: meta data in the second, inversions
\* in the fourth, else data.
IsMeta(n, line) == n = 2 /\ line \in Special
IsInversion(n, line) == n = 4 /\ line \in Special
DataLines(n) == IF n \in {2, 4} THEN Lines \ Special ELSE Lines

\* How many of some lines come before this one, entry by entry.
Before(line, some) ==
    Cardinality({l \in some : l[1] < line[1] \/ (l[1] = line[1] /\ l[2] < line[2])})

\* The number of a line of beat n among the bits of the data, from 0.
DataIndex(n, line) ==
    (n - 1) * Cardinality(Lines) - ((n - 1) \div 2) * Cardinality(Special)
        + Before(line, DataLines(n))

BitsPerEntry == Cardinality(Bits)
BitsPerBurst == ShortBurst * Cardinality(Lines) - 2 * Cardinality(Special)
EntriesPerBurst == BitsPerBurst \div BitsPerEntry

\* Whether bit i of the data is 1, counted from 0.
DataBit(data, i) == 1 + (i % BitsPerEntry) \in data[i \div BitsPerEntry + 1]

\* formatData, for the bursts of the data.  The inversions are those the vector
\* says it holds; the result is reversed, as the bus takes it from its end.
formatData(data, metaData, inversions) ==
    LET inverted == {c \in DOMAIN inversions : inversions[c]}
        high(b, n, line) ==
            CASE IsMeta(n, line) -> <<b, Before(line, Special)>> \in metaData
              [] IsInversion(n, line) ->
                    b * Cardinality(Special) + Before(line, Special) + 1 \in inverted
              [] OTHER -> DataBit(data, b * BitsPerBurst + DataIndex(n, line))
        beat(i) == LET n == 1 + ((i - 1) % ShortBurst)
                   IN  {line \in Lines : high((i - 1) \div ShortBurst, n, line)}
    IN  Reverse([i \in 1..((Len(data) \div EntriesPerBurst) * ShortBurst) |-> beat(i)])

\* A faulty variant of Inverted: the inversions of the burst before.
InvertedBefore(cmd, d) ==
    IF dbi.enabled THEN SubSeq(dbi.last[d].inversions, 1, dbi.last[d].size) ELSE <<>>

\* The inversions of the burst, once updateDBI has computed them.
Inverted(cmd, d) ==
    IF ~dbi.enabled THEN <<>>
    ELSE LET last == IF UsesDBI(cmd)
                     THEN Updated(dbi.last[d], cmd.time * DataRate, cmd.data, NoWidth, BurstLength)
                     ELSE dbi.last[d]
         IN  SubSeq(last.inversions, 1, last.size)

\* The beats with what formatData adds; mode TogglingRate counts them too.
Formatted(cmd, d) == formatData(Driven(cmd, NoWidth), meta, Inverted(cmd, d))
formattedLength(cmd) ==
    IF cmd.data = <<>> THEN BurstLength ELSE (Len(cmd.data) \div EntriesPerBurst) * ShortBurst

handleData(cmd, d) ==
    LET n == formattedLength(cmd)
        encoding == Overridden(encoder, n, d)
    IN  /\ updateDBI(cmd, d, NoWidth)
        /\ loadData(cmd, d, Formatted(cmd, d))
        /\ IF d = "read" THEN handleDQs(cmd.time, d, n) ELSE UNCHANGED dqs
        /\ handleWck(cmd.time, n)
        /\ encoder' = encoding
        /\ handleCommandBus(cmd.time, Encode(encoding, cmd))
        /\ UNCHANGED <<clock, access, meta>>

\* doCommand
doCommand(cmd) ==
    \/ cmd.type \in {"RD", "RDA"} /\ handleData(cmd, "read")
    \/ cmd.type \in {"WR", "WRA"} /\ handleData(cmd, "write")
    \/ cmd.type \in DOMAIN Patterns \ {"RD", "RDA", "WR", "WRA"}
          /\ busCommand(cmd, Encode(encoder, cmd))
    \/ cmd.type = "END_OF_SIMULATION" /\ endOfSimulation(cmd.time, NoWidth)

\* The extension MetaData.
setMetaData(metaData) ==
    /\ meta' = metaData
    /\ UNCHANGED <<lines, now, encoder, strobes, dbiVars, access>>

\* serialize and deserialize
Restore == RestoreWithoutDBI(InitSettings)
=============================================================================
