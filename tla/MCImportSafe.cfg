CONSTANTS
  Videos = {v1}
  Paths = {1, 2, 3}
  MaxAttempts = 2
  Scenarios <- Interrupted
SPECIFICATION ImportSpec
CONSTRAINT OneLocation
INVARIANTS
  ImportTypeOK
  PendingHasWork
  ForceHonoured
  EditSurvives
PROPERTIES
  GivesUpAfterAllLocations
CHECK_DEADLOCK FALSE
