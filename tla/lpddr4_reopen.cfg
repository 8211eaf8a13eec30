SPECIFICATION BankwiseSpec
CONSTANTS
  Standards = {"LPDDR4", "LPDDR5", "LPDDR6"}
  NumRanks = 1
  NumBanks = 2
  MaxTime = 3
  MaxCalls = 7
  ValidOnly = TRUE
  EarlyExits = {"PDXA", "PDXP"}
  PowerDowns = {"open"}
  tRAS = 2
  tRCD = 2
  tRP = 1
  prechargeOffsetRD = 1
  prechargeOffsetWR = 2
  tRFC = 3
  tRFCsb = 2
  tRFCPB = 2
  tRFCAB = 3
  tRFCDB = 2
  banksPerGroup = 1
  numberOfBankGroups = 2
  bank_arch = "MBG"
  perTwoBankOffset = 1
  TwoBankModulus = 2
  TwoRanks = {}
  Commands = {"ACT", "PREA", "REFB", "PDEA", "PDXA"}
CHECK_DEADLOCK FALSE
INVARIANTS
  BankActiveCounted
