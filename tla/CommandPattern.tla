---------------------------- MODULE CommandPattern ----------------------------
(***************************************************************************)
(* PatternHandler and its encoders: what a command puts on the command     *)
(* bus.  A pattern is a sequence of words, one for each slot, and a word   *)
(* gives each line a descriptor: "H", "L", or the name of what it carries. *)
(* The address of a command is the set of the descriptors whose bit is 1   *)
(* in its coordinate.  The pattern of the command before, which the        *)
(* handler keeps, is only read for the setting LAST_BIT, and no standard   *)
(* makes that setting.                                                     *)
(***************************************************************************)
EXTENDS Integers, Sequences, Functions

\* BasePatternEncoder: the settings override what a descriptor stands for; the
\* length of the burst is LPDDR6PatternExtraData.
NewEncoder(settings) == [settings |-> settings, burstLength |-> 0]

\* Each setting is put in the place of the one there was, if any.
Assigned(settings, new) ==
    [d \in DOMAIN settings \cup DOMAIN new |->
        IF d \in DOMAIN new THEN new[d] ELSE settings[d]]

updateSettings(encoder, settings) == [encoder EXCEPT !.settings = Assigned(@, settings)]
removeSetting(encoder, descriptor) ==
    [encoder EXCEPT !.settings = Restrict(@, DOMAIN @ \ {descriptor})]

\* serialize, and deserialize into a new encoder.
RestoredEncoder(new, encoder) ==
    [new EXCEPT !.settings = encoder.settings, !.burstLength = encoder.burstLength]

\* The descriptors whose setting the encoder looks up; the others are not
\* overridden, whatever the settings are.
Overridable == {"BL", "CID0", "CID1", "CID2", "CID3", "V", "X", "AP",
                "C0", "C1", "C2", "C3", "C4", "C10"}

\* patternApplyBitSpec and DefaultEncoder::encode.
Bit(encoder, descriptor, address) ==
    IF descriptor \in Overridable \cap DOMAIN encoder.settings
    THEN encoder.settings[descriptor] = "H"
    ELSE descriptor \in {"H", "BL", "CID0", "CID1", "CID2", "CID3"} \union address

\* LPDDR6Encoder::encode.  It looks up no setting; the parity stays low, as the
\* encoder looks for it in a place where no pattern has it.
BitLPDDR6(encoder, descriptor, address, shortBurst) ==
    CASE descriptor = "BL" -> encoder.burstLength = shortBurst
      [] descriptor = "C0" -> encoder.burstLength = shortBurst /\ "C0" \in address
      [] OTHER -> descriptor \in {"H"} \union address

Descriptors(pattern) == UNION {{pattern[w][line] : line \in DOMAIN pattern[w]} : w \in DOMAIN pattern}

\* The words as sets of the lines that are high; high are the descriptors of high bits.
Words(pattern, high) ==
    [w \in DOMAIN pattern |-> {line \in DOMAIN pattern[w] : pattern[w][line] \in high}]
=============================================================================
