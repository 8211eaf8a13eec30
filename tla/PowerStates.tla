----------------------------- MODULE PowerStates -----------------------------
(***************************************************************************)
(* What the cycle statistics of a core mean.  Every unit (a rank, or a     *)
(* bank) is in one power state at a time, moves between them along the     *)
(* state diagram of a DRAM, and the time it spends in each adds up.        *)
(***************************************************************************)
EXTENDS Integers

CONSTANTS Units, MaxClock

VARIABLES clock, state, residency
ledger == <<clock, state, residency>>

States == {"PRE", "ACT", "PDA", "PDP", "SREF", "DSM"}

\* A rank powers down from the precharged or the active state, but refreshes
\* itself, or enters precharge power-down, only when it is precharged.
Diagram ==
    {"PRE"} \X {"ACT", "PDA", "PDP", "SREF"}
    \cup {"ACT"} \X {"PRE", "PDA"}
    \cup {"PDA"} \X {"PRE", "ACT"}
    \cup {"PDP", "SREF"} \X {"PRE"}
    \cup {<<"SREF", "DSM">>, <<"DSM", "SREF">>}

Init ==
    /\ clock = 0
    /\ state = [u \in Units |-> "PRE"]
    /\ residency = [u \in Units |-> [s \in States |-> 0]]

\* Time passes, in the state each unit was in, and then units change state.
Step ==
    /\ clock' \in clock..MaxClock
    /\ residency' = [u \in Units |->
            [residency[u] EXCEPT ![state[u]] = @ + (clock' - clock)]]
    /\ state' \in [Units -> States]
    /\ \A u \in Units : state'[u] = state[u] \/ <<state[u], state'[u]>> \in Diagram

Spec == Init /\ [][Step]_ledger

\* No time is lost and none is counted under two states.
AllTimeAccounted ==
    \A u \in Units :
        residency[u]["PRE"] + residency[u]["ACT"] + residency[u]["PDA"]
            + residency[u]["PDP"] + residency[u]["SREF"] + residency[u]["DSM"] = clock
=============================================================================
