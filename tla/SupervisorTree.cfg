SPECIFICATION Spec
CONSTANTS
  Blocks = 1
  Diagnostics = 0
  PipeSize = 1
  HasHelper = TRUE
  HelperHoldsPipes = FALSE
  HelperStays = TRUE
  ReadsFail = FALSE
INVARIANTS
  CancellationEndsTree
CHECK_DEADLOCK FALSE
