SPECIFICATION Spec
CONSTANTS
  p1 = p1
  p2 = p2
  p3 = p3
  r1 = r1
  s1 = s1
  s2 = s2
  s3 = s3
  Foreign = Foreign
  NoFile = NoFile
  Invocations = {p1, p2}
  Plans = {"plan1", "plan2"}
  Outputs = {"out"}
  ReceiptPaths = {r1, s2}
  StorePaths = {s2}
  PlanOf <- TwoPlans
  OutputOf <- OneOutput
  ReceiptOf <- MixedReceipts
  LoudnessPlans = {"plan1"}
  Pins = 0
  SharedOutputs = {}
  CrashProne = {}
  Unkillable = {}
  Unremovable = {}
INVARIANTS
  FailedApplyCleansUp
CHECK_DEADLOCK FALSE
