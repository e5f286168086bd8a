SPECIFICATION FairSpec
CONSTANTS
  Blocks = 2
  Diagnostics = 2
  PipeSize = 1
  HasHelper = TRUE
  HelperHoldsPipes = TRUE
  HelperStays = FALSE
  ReadsFail = TRUE
INVARIANTS
  TypeOK
  ReturnMeansExited
  VerdictIsTrue
  DiagnosticIsComplete
PROPERTIES
  StopIsHonoured
  WorkingBackendReturns
CHECK_DEADLOCK FALSE
