CONSTANTS
  None = None
  Torn = Torn
  Size <- MCSize
  PersistEvery = 2
  HighWater = 2
  SendBuffer = 2
  Kept <- MCKept
  MaxAttempts = 3
  MaxFaults = 1
  MaxCrashes = 1
SPECIFICATION Spec
INVARIANTS  DeliveredWhole
PROPERTIES TransferCompletes
CHECK_DEADLOCK FALSE
