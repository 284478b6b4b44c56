CONSTANTS
  Videos = {v1}
  Paths = {1}
  MaxAttempts = 1
  Scenarios <- LossesOnly
SPECIFICATION ImportSpec
INVARIANTS
  WaitingFingerprintHasSprites
CHECK_DEADLOCK FALSE
