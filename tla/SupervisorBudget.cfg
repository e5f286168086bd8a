SPECIFICATION FairSpec
CONSTANTS
  Blocks = 1
  Diagnostics = 0
  PipeSize = 1
  HasHelper = TRUE
  HelperHoldsPipes = TRUE
  HelperStays = TRUE
  ReadsFail = FALSE
PROPERTIES
  StopIsHonoured
CHECK_DEADLOCK FALSE
