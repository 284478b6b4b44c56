CONSTANTS
  Videos = {v1, v2}
  Paths = {1, 2}
  MaxAttempts = 1
  Scenarios <- Progressing
SPECIFICATION FairImport
PROPERTIES
  ImportSettles
  MissingPreviewReturns
CHECK_DEADLOCK FALSE
