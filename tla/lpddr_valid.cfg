SPECIFICATION BankwiseSpec
CONSTANTS
  Standards = {"LPDDR4", "LPDDR5", "LPDDR6"}
  NumRanks = 2
  NumBanks = 2
  MaxTime = 6
  MaxCalls = 5
  ValidOnly = TRUE
  EarlyExits = {"PDXA", "PDXP"}
  PowerDowns = {"settled"}
  tRAS = 2
  tRCD = 2
  tRP = 1
  prechargeOffsetRD = 1
  prechargeOffsetWR = 2
  tRFC = 3
  tRFCsb = 2
  tRFCPB = 2
  tRFCAB = 3
  tRFCDB = 2
  banksPerGroup = 1
  numberOfBankGroups = 2
  bank_arch = "MBG"
  perTwoBankOffset = 1
  TwoBankModulus = 2
  TwoRanks = {"LPDDR6"}
  Commands = {"ACT", "PRE", "RDA", "REFB", "REFP2B", "REFDB", "DSMEN", "DSMEX", "PREA", "REFA", "SREFEN", "SREFEX", "PDEA", "PDXA", "PDEP", "PDXP"}
CHECK_DEADLOCK FALSE
INVARIANTS
  StateMatchesIntervals
  RankActiveCounted
  SelfRefreshWithBanksClosed
  PowerDownAfterRefresh
PROPERTIES
  ReportsPowerStates
