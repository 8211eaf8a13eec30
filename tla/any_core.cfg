SPECIFICATION AnySpec
CONSTANTS
  NumRanks = 1
  NumBanks = 2
  MaxTime = 4
  MaxCalls = 3
  ValidOnly = FALSE
  EarlyExits = {}
  PowerDowns = {}
  tRAS = 2
  tRCD = 1
  tRP = 1
  prechargeOffsetRD = 1
  prechargeOffsetWR = 2
  tRFC = 2
  tRFCsb = 2
  tRFCPB = 2
  tRFCAB = 2
  tRFCDB = 2
  banksPerGroup = 1
  numberOfBankGroups = 2
  bank_arch = "M8B"
  perTwoBankOffset = 1
  TwoBankModulus = 2
  Commands = {"ACT", "PRE", "RD", "RDA", "WR", "WRA", "REFB", "REFSB", "PRESB", "REFP2B", "REFDB", "DSMEN", "DSMEX", "PREA", "REFA", "SREFEN", "SREFEX", "PDEA", "PDXA", "PDEP", "PDXP"}
CHECK_DEADLOCK FALSE
INVARIANTS
  TypeOK
  QueueInOrder
  CountsWithinTime
PROPERTIES
  LastNeverDecreases
  RestoreChangesNothing
  CallReturns
