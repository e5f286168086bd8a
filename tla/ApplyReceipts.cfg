SPECIFICATION FairSpec
CONSTANTS
  p1 = p1
  p2 = p2
  p3 = p3
  r1 = r1
  s1 = s1
  s2 = s2
  s3 = s3
  Foreign = Foreign
  NoFile = NoFile
  Invocations = {p1, p2}
  Plans = {"plan1", "plan2"}
  Outputs = {"out1", "out2"}
  ReceiptPaths = {r1}
  StorePaths = {}
  PlanOf <- TwoPlans
  OutputOf <- TwoOutputs
  ReceiptOf <- OneReceipt
  LoudnessPlans = {}
  Pins = 0
  SharedOutputs = {"out1"}
  CrashProne = {p2}
  Unkillable = {p1}
  Unremovable = {"plan1"}
INVARIANTS
  ReceiptMatchesDestination
  OutcomeIsTrue
PROPERTIES
  ReceiptsAreKept
  EveryInvocationEnds
CHECK_DEADLOCK FALSE
