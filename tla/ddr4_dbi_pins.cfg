SPECIFICATION MCSpec
CONSTANTS
  Dirs = {"read", "write"}
  Bits <- MCBits
  Lines <- MCLines
  Width = 2
  DataRate = 2
  WckRate = 1
  WckAlwaysOn = FALSE
  TogglingRate <- MCTogglingRate
  DutyCycle <- MCTogglingRate
  Bursts <- MCBursts
  Ranks = {1, 2}
  IdlePattern <- Low
  Standards = {"DDR4"}
  Types = {"ACT", "SREFEX", "PDEA"}
  MaxTime = 0
  MaxCalls = 3
  impedances <- MCImpedances
  tCK = 4
  tWCK = 2
  dqsBusRate = 1
  NumDQsPairs = 1
  prePostamble <- MCPrePostamble
  Modulus = 1000
CHECK_DEADLOCK FALSE
INVARIANTS
  PinBurstFits
