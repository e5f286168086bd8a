SPECIFICATION SequentialSpec
CONSTANTS
  p1 = p1
  p2 = p2
  p3 = p3
  r1 = r1
  s1 = s1
  s2 = s2
  s3 = s3
  Foreign = Foreign
  NoFile = NoFile
  Invocations = {p1, p2, p3}
  Plans = {"plan1"}
  Outputs = {"out"}
  ReceiptPaths = {s1, s2, s3}
  StorePaths = {s1, s2, s3}
  PlanOf <- SamePlan
  OutputOf <- OneOutput
  ReceiptOf <- StoreReceipts
  LoudnessPlans = {}
  Pins = 0
  SharedOutputs = {}
  CrashProne = {p1, p2, p3}
  Unkillable = {p1}
  Unremovable = {}
INVARIANTS
  VerifiedPublication
CHECK_DEADLOCK FALSE
