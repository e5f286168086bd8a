------------------------------ MODULE MCApply ------------------------------
(***************************************************************************)
(* Small instances of Apply.tla.                                           *)
(***************************************************************************)
EXTENDS Apply, TLC

CONSTANTS p1, p2, p3, r1, s1, s2, s3

\* Two different plans that name one destination; p1's normalizes loudness.
\* p1 asks for an explicit receipt path, p2 uses the store.
TwoPlans == p1 :> "plan1" @@ p2 :> "plan2"
OneOutput == [plan \in Plans |-> "out"]
MixedReceipts == p1 :> r1 @@ p2 :> s2

\* Two plans with a destination each, and one explicit receipt path for both.
TwoOutputs == "plan1" :> "out1" @@ "plan2" :> "out2"
OneReceipt == [p \in Invocations |-> r1]

\* The same plan, applied again and again; every receipt goes to the store.
SamePlan == [p \in Invocations |-> "plan1"]
StoreReceipts == p1 :> s1 @@ p2 :> s2 @@ p3 :> s3
=============================================================================
