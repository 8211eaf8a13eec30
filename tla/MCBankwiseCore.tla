---------------------------- MODULE MCBankwiseCore ----------------------------
(***************************************************************************)
(* The cores that refresh single banks and their properties, for TLC:      *)
(* which one of the standards given is simulated is chosen at the start.   *)
(***************************************************************************)
EXTENDS CoreProperties

CONSTANTS
    Standards,  \* those simulated
    tRAS, tRCD, tRP, prechargeOffsetRD, prechargeOffsetWR,
    tRFC, tRFCsb, tRFCPB, tRFCAB, tRFCDB,
    banksPerGroup, numberOfBankGroups,
    bank_arch, perTwoBankOffset, TwoBankModulus,
    TwoRanks    \* the standards whose traces address more than rank 0,
                \* and are one call and one cycle shorter

VARIABLE standard

DDR5 == INSTANCE DDR5Core
\* Commands that the LPDDR cores handle alike are left to one or two of them.
LPDDR4 == INSTANCE LPDDR4Core WITH Commands <- Commands \ {"PRE", "RDA"}
LPDDR5 == INSTANCE LPDDR5Core WITH Commands <- Commands \ {"PRE", "RDA", "REFB"}
\* Its exit from active power-down starts the active interval of the rank without
\* looking at the banks: its traces power down with an open bank.
LPDDR6 == INSTANCE LPDDR6Core WITH
    Commands <- Commands \ {"PREA", "PDEP", "PDXP"}, PowerDowns <- PowerDowns \cup {"open"}

ASSUME StandardsAssumption ==
    /\ Standards \subseteq {"DDR5", "LPDDR4", "LPDDR5", "LPDDR6"} /\ TwoRanks \subseteq Standards
    /\ DDR5!GroupAssumption
    /\ LPDDR4!RefreshAssumption /\ LPDDR5!RefreshAssumption /\ LPDDR6!RefreshAssumption

BankwiseInit == Init /\ standard \in Standards

Serves ==
    \/ standard = "DDR5" /\ DDR5!Serve
    \/ standard = "LPDDR4" /\ LPDDR4!Serve
    \/ standard = "LPDDR5" /\ LPDDR5!Serve
    \/ standard = "LPDDR6" /\ LPDDR6!Serve

Executes ==
    \/ standard = "DDR5" /\ DDR5!ExecuteImplicit
    \/ standard = "LPDDR4" /\ LPDDR4!ExecuteImplicit
    \/ standard = "LPDDR5" /\ LPDDR5!ExecuteImplicit
    \/ standard = "LPDDR6" /\ LPDDR6!ExecuteImplicit

\* The ranks a command leaves as they are.
Untouched(r) ==
    rank'[r] = rank[r] /\ bank'[r] = bank[r] /\ \A i \in 1..Len(queue') : queue'[i].rank # r

BankwiseNext ==
    /\ UNCHANGED standard
    /\ \/ standard \in TwoRanks /\ calls < MaxCalls - 1 /\ \E t \in now..(MaxTime - 1) : Call(t)
       \/ standard \notin TwoRanks /\ \E t \in now..MaxTime : Call(t)
       \/ Executes
       \/ Serves /\ (standard \in TwoRanks \/ \A r \in Ranks \ {0} : Untouched(r))

BankwiseSpec == BankwiseInit /\ [][BankwiseNext]_<<vars, standard>>
-----------------------------------------------------------------------------
\* Same-bank commands work across the bank groups: the banks whose refresh
\* begins in a step are those of one index, one in every group, or all banks.
RefreshesSameBank ==
    [][standard = "DDR5" => \A r \in Ranks :
        LET refreshed == {b \in Banks :
                bank'[r][b].refreshEndTime # bank[r][b].refreshEndTime}
        IN  \/ refreshed \in {{}, Banks}
            \/ \E b \in Banks :
                refreshed = {x \in Banks : x % banksPerGroup = b % banksPerGroup}]_bank
=============================================================================
