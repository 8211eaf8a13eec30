SPECIFICATION EnergySpec
CONSTANTS
  NumRanks = 1
  NumBanks = 2
  MaxTime = 4
  MaxCalls = 4
  ValidOnly = TRUE
  EarlyExits = {}
  PowerDowns = {"settled", "open"}
  tRAS = 2
  tRCD = 1
  tRP = 1
  prechargeOffsetRD = 1
  prechargeOffsetWR = 2
  tRFC = 2
  tRFCsb = 2
  tRFCPB = 2
  tRFCAB = 2
  tRFCDB = 2
  tREFI = 32
  banksPerGroup = 1
  numberOfBankGroups = 2
  bank_arch = "MBG"
  perTwoBankOffset = 1
  TwoBankModulus = 2
  numberOfDevices = 2
  memPowerSpec <- MCPower
  rho = 1
  rhoUnit = 3
  burstLength = 4
  dataRate = 2
  tCK = 2
  tWCK = 1
  Commands = {"ACT", "PRE", "RD", "WR", "RDA", "REFB", "REFSB", "REFP2B", "REFDB", "DSMEN", "DSMEX", "REFA", "SREFEN", "SREFEX", "PDEA", "PDXA", "PDEP", "PDXP"}
CHECK_DEADLOCK FALSE
INVARIANTS
  BackgroundMetered
  DatasheetCurrents
