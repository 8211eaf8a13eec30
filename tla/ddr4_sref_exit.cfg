SPECIFICATION Spec
CONSTANTS
  NumRanks = 1
  NumBanks = 2
  MaxTime = 7
  MaxCalls = 3
  ValidOnly = TRUE
  EarlyExits = {"SREFEX"}
  PowerDowns = {}
  tRAS = 2
  tRCD = 2
  tRP = 1
  prechargeOffsetRD = 1
  prechargeOffsetWR = 2
  tRFC = 3
  Commands = {"ACT", "PRE", "SREFEN", "SREFEX"}
CHECK_DEADLOCK FALSE
INVARIANTS
  SelfRefreshExitAsserted
