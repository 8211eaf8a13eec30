SPECIFICATION MCSpec
CONSTANTS
  Lines = {1, 2}
  Dirs = {"read", "write"}
  DataRate = 2
  IdlePattern <- MCIdlePattern
  TogglingRate <- MCTogglingRate
  DutyCycle <- MCDutyCycle
  Bursts <- MCBursts
  Nothing = Nothing
  MaxTime = 4
CHECK_DEADLOCK FALSE
INVARIANTS
  BusCounted
  HandleCounted
  EstimateCoversSlots
