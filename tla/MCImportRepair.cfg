CONSTANTS
  Videos = {v1}
  Paths = {1}
  MaxAttempts = 1
  Scenarios <- Repairs
SPECIFICATION ImportSpec
PROPERTIES
  RepairRestoresWork
CHECK_DEADLOCK FALSE
