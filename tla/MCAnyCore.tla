------------------------------ MODULE MCAnyCore ------------------------------
(***************************************************************************)
(* The cores of all standards, for TLC: which one is simulated is chosen   *)
(* at the start.  For what has to hold of each of them alike.              *)
(***************************************************************************)
EXTENDS CoreProperties, BankwiseCore

CONSTANTS
    tRFC, tRFCsb, tRFCPB, tRFCAB, tRFCDB,
    banksPerGroup, numberOfBankGroups,
    bank_arch, perTwoBankOffset, TwoBankModulus

VARIABLE standard

DDR4 == INSTANCE DDR4Core
DDR5 == INSTANCE DDR5Core
LPDDR4 == INSTANCE LPDDR4Core
LPDDR5 == INSTANCE LPDDR5Core
LPDDR6 == INSTANCE LPDDR6Core

\* A refresh of two banks meets banks that exist, on the architectures that have it.
ASSUME AnyCoreAssumption ==
    /\ DDR5!GroupAssumption
    /\ LPDDR4!RefreshAssumption /\ LPDDR5!RefreshAssumption /\ LPDDR6!RefreshAssumption
    /\ LPDDR5!SupportsRefPerTwoBanks => TwoBankModulus <= NumBanks

AnyInit == Init /\ standard \in {"DDR4", "DDR5", "LPDDR4", "LPDDR5", "LPDDR6"}

Running ==
    /\ UNCHANGED standard
    /\ \/ standard = "DDR4" /\ (DDR4!ExecuteImplicit \/ DDR4!Serve)
       \/ standard = "DDR5" /\ (DDR5!ExecuteImplicit \/ DDR5!Serve)
       \/ standard = "LPDDR4" /\ (LPDDR4!ExecuteImplicit \/ LPDDR4!Serve)
       \/ standard = "LPDDR5" /\ (LPDDR5!ExecuteImplicit \/ LPDDR5!Serve)
       \/ standard = "LPDDR6" /\ (LPDDR6!ExecuteImplicit \/ LPDDR6!Serve)

AnyNext ==
    \/ UNCHANGED standard /\ \E t \in now..MaxTime : Call(t)
    \/ Running
    \/ UNCHANGED standard /\ Restore

\* Each core's FairSpec.
AnySpec == AnyInit /\ [][AnyNext]_<<vars, standard>> /\ WF_<<vars, standard>>(Running)
-----------------------------------------------------------------------------
\* A core that is saved when it is serializable, and restored, is the same: the
\* commands that follow do to it what they would have done without.
RestoreChangesNothing == [][phase = "idle" /\ phase' = "idle" => UNCHANGED coreVars]_vars
=============================================================================
