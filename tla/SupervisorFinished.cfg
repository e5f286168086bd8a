SPECIFICATION Spec
CONSTANTS
  Blocks = 2
  Diagnostics = 0
  PipeSize = 2
  HasHelper = FALSE
  HelperHoldsPipes = FALSE
  HelperStays = FALSE
  ReadsFail = FALSE
INVARIANTS
  FinishedIsReported
CHECK_DEADLOCK FALSE
