SPECIFICATION Spec
CONSTANTS
  NumRanks = 1
  NumBanks = 2
  MaxTime = 7
  MaxCalls = 5
  ValidOnly = TRUE
  EarlyExits = {"PDXA", "PDXP"}
  PowerDowns = {}
  tRAS = 2
  tRCD = 2
  tRP = 1
  prechargeOffsetRD = 1
  prechargeOffsetWR = 2
  tRFC = 3
  Commands = {"ACT", "PRE", "RDA", "PREA", "REFA", "SREFEN", "SREFEX", "PDEA", "PDXA", "PDEP", "PDXP"}
CHECK_DEADLOCK FALSE
INVARIANTS
  StateMatchesIntervals
  BankActiveCounted
  RankActiveCounted
  EveryRowClosedOnce
  SelfRefreshWithBanksClosed
  ExitAfterEntry
  PowerDownAfterRefresh
PROPERTIES
  ReportsPowerStates
