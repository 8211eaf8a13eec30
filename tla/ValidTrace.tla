------------------------------ MODULE ValidTrace ------------------------------
(***************************************************************************)
(* The commands a core is driven with.  The program takes any trace, but   *)
(* its README (Disclaimer) expects a valid one, from a memory controller.  *)
(* With ValidOnly the commands are those a controller may send in the      *)
(* state the ranks are in; without it, any command at any time.  Minimal   *)
(* distances between commands are not demanded, so a valid trace here may  *)
(* be denser than a real one.                                              *)
(***************************************************************************)
EXTENDS CoreState

CONSTANTS
    Commands,    \* the commands of the trace
    ValidOnly,   \* whether the trace is valid
    EarlyExits,  \* the exits a valid trace may send before the delayed entry
    PowerDowns   \* what a valid trace demands of a PDEA: "settled", that no bank
                 \* closes at that time or later; "open", that a bank is open

ASSUME TraceAssumption ==
    ValidOnly \in BOOLEAN /\ PowerDowns \subseteq {"settled", "open"}

\* Entries that change the power state of a rank.
PowerOps == {"SREF_ENTRY", "PDA_ENTRY", "PDA_EXIT", "PDP_ENTRY", "PDP_EXIT"}
Pending(op, r) == \E i \in 1..Len(queue) : queue[i].op = op /\ queue[i].rank = r

\* The rank takes normal commands.
Available(r) == rank[r].memState = "NOT_IN_PD" /\ \A op \in PowerOps : ~Pending(op, r)

Refreshing(r, b, t) == t < bank[r][b].refreshEndTime
AutoPrechargePending(r, b) ==
    \E i \in 1..Len(queue) :
        queue[i].op = "AUTO_PRECHARGE" /\ queue[i].rank = r /\ queue[i].bank = b

PrechargePending(r) ==
    \E i \in 1..Len(queue) :
        queue[i].op \in {"AUTO_PRECHARGE", "REFRESH_END"} /\ queue[i].rank = r

\* The bank can be read, written and precharged.
Open(r, b, t) == /\ Active(bank[r][b]) /\ ~Refreshing(r, b, t)
                 /\ ~AutoPrechargePending(r, b)
Closed(r, b) == ~Active(bank[r][b])

\* The exit x from a state of S, entered by op.
MayExit(x, S, op, r) ==
    \/ rank[r].memState \in S
    \/ x \in EarlyExits /\ Pending(op, r)

\* Whether cmd may address the banks bs of the rank r at time t.
Valid(cmd, r, bs, t) ==
    CASE cmd \in {"ACT", "REFA", "REFB", "REFSB", "REFP2B", "REFDB", "SREFEN"} ->
            Available(r) /\ \A b \in bs : Closed(r, b)
      [] cmd \in {"RD", "RDA", "WR", "WRA"} ->
            Available(r) /\ \A b \in bs : Open(r, b, t)
      [] cmd \in {"PRE", "PREA", "PRESB"} ->
            Available(r) /\ \A b \in bs : Closed(r, b) \/ Open(r, b, t)
      [] cmd = "PDEA" ->
            /\ Available(r)
            /\ "settled" \in PowerDowns => ~PrechargePending(r) /\ \A b \in bs : bank[r][b].act.end # t
            /\ "open" \in PowerDowns => \E b \in bs : Open(r, b, t)
      [] cmd = "PDEP" ->
            Available(r) /\ \A b \in bs : Closed(r, b) \/ Refreshing(r, b, t)
      [] cmd = "PDXA" -> MayExit(cmd, {"PDN_ACT"}, "PDA_ENTRY", r) /\ ~Pending("PDA_EXIT", r)
      [] cmd = "PDXP" -> MayExit(cmd, {"PDN_PRE"}, "PDP_ENTRY", r) /\ ~Pending("PDP_EXIT", r)
      [] cmd = "SREFEX" -> MayExit(cmd, {"SREF"}, "SREF_ENTRY", r)
      [] cmd = "DSMEN" -> rank[r].memState = "SREF"
      [] cmd = "DSMEX" -> rank[r].memState = "DSM"

Permitted(cmd, r, bs) ==
    cmd \in Commands /\ (ValidOnly => Valid(cmd, r, bs, target))
=============================================================================
