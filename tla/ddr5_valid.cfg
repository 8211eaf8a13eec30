SPECIFICATION BankwiseSpec
CONSTANTS
  Standards = {"DDR5"}
  NumRanks = 1
  NumBanks = 4
  MaxTime = 7
  MaxCalls = 4
  ValidOnly = TRUE
  EarlyExits = {"PDXA", "PDXP"}
  PowerDowns = {"settled"}
  tRAS = 2
  tRCD = 2
  tRP = 1
  prechargeOffsetRD = 1
  prechargeOffsetWR = 2
  tRFC = 3
  tRFCsb = 2
  tRFCPB = 2
  tRFCAB = 3
  tRFCDB = 2
  banksPerGroup = 2
  numberOfBankGroups = 2
  bank_arch = "MBG"
  perTwoBankOffset = 1
  TwoBankModulus = 2
  TwoRanks = {}
  Commands = {"ACT", "PRE", "PRESB", "RDA", "REFSB", "PREA", "REFA", "SREFEN", "SREFEX", "PDEA", "PDXA", "PDEP", "PDXP"}
CHECK_DEADLOCK FALSE
INVARIANTS
  BankActiveCounted
PROPERTIES
  RefreshesSameBank
  ReportsPowerStates
