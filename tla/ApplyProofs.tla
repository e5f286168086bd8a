---------------------------- MODULE ApplyProofs ----------------------------
(***************************************************************************)
(* Theorems about Apply.tla, for every set of invocations, plans, outputs  *)
(* and receipt paths, and every number of pinned identities: what is       *)
(* refused, what is published, what the invocations report and leave       *)
(* behind, what their receipts say, and that together they implement       *)
(* Publication.tla.                                                        *)
(***************************************************************************)
EXTENDS Apply, TLAPS

-----------------------------------------------------------------------------
(* Type correctness.  Only the variables an action assigns need a step.    *)

\* Every variable has its type to begin with.
LEMMA TypeInit == Init => TypeOK
  BY ApplyAssumption DEF Init, TypeOK, Phases, Outcomes, BackendStates, DataStates

\* Moving on, with or without an error, keeps the program counters typed.
LEMMA GotoTyped ==
  ASSUME pc \in [Invocations -> Phases], NEW p \in Invocations,
         NEW from, NEW to \in Phases, Goto(p, from, to)
  PROVE  pc' \in [Invocations -> Phases]
  BY DEF Goto

LEMMA FailTyped ==
  ASSUME pc \in [Invocations -> Phases], outcome \in [Invocations -> Outcomes],
         NEW p \in Invocations, NEW from, NEW to \in Phases, NEW e \in Outcomes,
         Fail(p, from, to, e)
  PROVE  pc' \in [Invocations -> Phases] /\ outcome' \in [Invocations -> Outcomes]
  BY DEF Fail, Goto

\* Every step of an invocation, a backend or the surroundings keeps the types.
LEMMA TypeStep ==
  ASSUME TypeOK, [Next]_vars
  PROVE  TypeOK'
<1> USE ApplyAssumption
    DEF TypeOK, BackendStates, DataStates, Versions, fileVars, readVars,
        receiptVars, pinVars
<1>1. ASSUME NEW p \in Invocations, PreflightReceipt(p) PROVE TypeOK'
  <2> USE <1>1 DEF PreflightReceipt
  <2>1. pc' \in [Invocations -> Phases] /\ outcome' \in [Invocations -> Outcomes]
    <3>1. CASE Goto(p, "idle", "read_plan") /\ UNCHANGED outcome
      BY <3>1, GotoTyped DEF Phases
    <3>2. CASE \E e \in Refusals : Fail(p, "idle", "done", e)
      BY <3>2, FailTyped DEF Phases, Outcomes
    <3> QED
      BY <3>1, <3>2 DEF Refusals
  <2>2. startDrift' \in [Invocations -> SUBSET (1 .. Pins)]
    OBVIOUS
  <2> QED
    BY <2>1, <2>2
<1>2. ASSUME NEW p \in Invocations, ReadPlan(p) PROVE TypeOK'
  <2> USE <1>2 DEF ReadPlan, Temporary, Dest
  <2>1. pc' \in [Invocations -> Phases] /\ outcome' \in [Invocations -> Outcomes]
    <3>1. CASE Goto(p, "read_plan", "check_output") /\ UNCHANGED outcome
      BY <3>1, GotoTyped DEF Phases
    <3>2. CASE Fail(p, "read_plan", "done", "PlanInvalid")
      BY <3>2, FailTyped DEF Phases, Outcomes, Refusals, Failures
    <3> QED
      BY <3>1, <3>2
  <2> QED
    BY <2>1
<1>3. ASSUME NEW p \in Invocations, CheckOutput(p) PROVE TypeOK'
  <2> USE <1>3 DEF CheckOutput, Temporary, Dest
  <2>1. pc' \in [Invocations -> Phases] /\ outcome' \in [Invocations -> Outcomes]
    <3>1. CASE Goto(p, "check_output", "check_temporary") /\ UNCHANGED outcome
      BY <3>1, GotoTyped DEF Phases
    <3>2. CASE Fail(p, "check_output", "done", "OutputExists")
      BY <3>2, FailTyped DEF Phases, Outcomes, Refusals, Failures
    <3> QED
      BY <3>1, <3>2
  <2> QED
    BY <2>1
<1>4. ASSUME NEW p \in Invocations, CheckTemporary(p) PROVE TypeOK'
  <2> USE <1>4 DEF CheckTemporary, Temporary, Dest
  <2>1. pc' \in [Invocations -> Phases] /\ outcome' \in [Invocations -> Outcomes]
    <3>1. CASE Goto(p, "check_temporary", "revalidate") /\ UNCHANGED outcome
      BY <3>1, GotoTyped DEF Phases
    <3>2. CASE \E e \in {"ResourceLimitExceeded", "TemporaryOutputExists"} :
                  Fail(p, "check_temporary", "done", e)
      BY <3>2, FailTyped DEF Phases, Outcomes, Refusals, Failures
    <3> QED
      BY <3>1, <3>2
  <2> QED
    BY <2>1
<1>5. ASSUME NEW p \in Invocations, Revalidate(p) PROVE TypeOK'
  <2> USE <1>5 DEF Revalidate, Temporary, Dest
  <2>1. pc' \in [Invocations -> Phases] /\ outcome' \in [Invocations -> Outcomes]
    <3>1. CASE Goto(p, "revalidate", "revalidate") /\ UNCHANGED outcome
      BY <3>1, GotoTyped DEF Phases
    <3>2. CASE Fail(p, "revalidate", "done", "InputChanged")
      BY <3>2, FailTyped DEF Phases, Outcomes, Refusals, Failures
    <3> QED
      BY <3>1, <3>2
  <2>2. checked' \in [Invocations -> 0 .. Pins]
    OBVIOUS
  <2> QED
    BY <2>1, <2>2
<1>6. ASSUME NEW p \in Invocations, Spawn(p) PROVE TypeOK'
  <2> USE <1>6 DEF Spawn, Temporary, Dest
  <2>1. pc' \in [Invocations -> Phases] /\ outcome' \in [Invocations -> Outcomes]
    <3>1. CASE Goto(p, "revalidate", "running") /\ UNCHANGED outcome
      BY <3>1, GotoTyped DEF Phases
    <3>2. CASE Fail(p, "revalidate", "cleanup", "BackendFailed")
      BY <3>2, FailTyped DEF Phases, Outcomes, Refusals, Failures
    <3> QED
      BY <3>1, <3>2
  <2>2. backend' \in [Invocations -> BackendStates]
    OBVIOUS
  <2> QED
    BY <2>1, <2>2
<1>7. ASSUME NEW p \in Invocations, Reap(p) PROVE TypeOK'
  <2> USE <1>7 DEF Reap, Temporary, Dest
  <2>1. pc' \in [Invocations -> Phases] /\ outcome' \in [Invocations -> Outcomes]
    <3>1. CASE Goto(p, "running", "join") /\ UNCHANGED outcome
      BY <3>1, GotoTyped DEF Phases
    <3>2. CASE Fail(p, "running", "join", "BackendFailed")
      BY <3>2, FailTyped DEF Phases, Outcomes, Refusals, Failures
    <3> QED
      BY <3>1, <3>2
  <2> QED
    BY <2>1
<1>8. ASSUME NEW p \in Invocations, Stop(p) PROVE TypeOK'
  BY <1>8 DEF Stop, Goto, Fail, Phases, Outcomes, Failures, Temporary, Current, Ended
<1>29. ASSUME NEW p \in Invocations, Abandon(p) PROVE TypeOK'
  BY <1>29 DEF Abandon, Goto, Fail, Phases, Outcomes, Failures
<1>30. ASSUME NEW p \in Invocations, Join(p) PROVE TypeOK'
  BY <1>30 DEF Join, Goto, Phases
<1>9. ASSUME NEW p \in Invocations, Hash(p) PROVE TypeOK'
  BY <1>9 DEF Hash, Goto, Fail, Phases, Outcomes, Failures, Temporary, Current, Ended
<1>10. ASSUME NEW p \in Invocations, Probe(p) PROVE TypeOK'
  BY <1>10 DEF Probe, Goto, Fail, Phases, Outcomes, Failures, Temporary, Current, Ended
<1>11. ASSUME NEW p \in Invocations, Measure(p) PROVE TypeOK'
  BY <1>11 DEF Measure, Goto, Fail, Phases, Outcomes, Failures, Temporary, Current,
    Ended
<1>12. ASSUME NEW p \in Invocations, VerificationError(p) PROVE TypeOK'
  BY <1>12 DEF VerificationError, Goto, Fail, Phases, Outcomes, Failures, Temporary,
    Current, Ended
<1>13. ASSUME NEW p \in Invocations, Judge(p) PROVE TypeOK'
  <2> USE <1>13 DEF Judge, Temporary, Dest
  <2>1. pc' \in [Invocations -> Phases] /\ outcome' \in [Invocations -> Outcomes]
    <3>1. CASE Goto(p, "judge", "link") /\ UNCHANGED outcome
      BY <3>1, GotoTyped DEF Phases
    <3>2. CASE Fail(p, "judge", "cleanup", "VerificationFailed")
      BY <3>2, FailTyped DEF Phases, Outcomes, Refusals, Failures
    <3> QED
      BY <3>1, <3>2
  <2> QED
    BY <2>1
<1>14. ASSUME NEW p \in Invocations, Cleanup(p) PROVE TypeOK'
  BY <1>14 DEF Cleanup, RemoveTemporary, Goto, Fail, Phases, Outcomes, Failures,
    Temporary, Current, Ended
<1>15. ASSUME NEW p \in Invocations, Link(p) PROVE TypeOK'
  <2> USE <1>15 DEF Link, Temporary, Dest
  <2>1. pc' \in [Invocations -> Phases] /\ outcome' \in [Invocations -> Outcomes]
    <3>1. CASE Goto(p, "link", "unlink") /\ UNCHANGED outcome
      BY <3>1, GotoTyped DEF Phases
    <3>2. CASE Fail(p, "link", "done", "PublishFailed")
      BY <3>2, FailTyped DEF Phases, Outcomes, Refusals, Failures
    <3> QED
      BY <3>1, <3>2
  <2>2. out' \in [Outputs -> Invocations \union {Foreign, NoFile}]
    OBVIOUS
  <2>3. linked' \in [Invocations -> Invocations \union {NoFile}]
    OBVIOUS
  <2> QED
    BY <2>1, <2>2, <2>3
<1>16. ASSUME NEW p \in Invocations, Unlink(p) PROVE TypeOK'
  <2> USE <1>16 DEF Unlink, RemoveTemporary, Temporary, Dest
  <2>1. pc' \in [Invocations -> Phases] /\ outcome' \in [Invocations -> Outcomes]
    BY GotoTyped, FailTyped DEF Phases, Outcomes, Refusals, Failures
  <2>2. tmp' \in [Plans -> Invocations \union {NoFile}]
    OBVIOUS
  <2> QED
    BY <2>1, <2>2
<1>17. ASSUME NEW p \in Invocations, CreateReceipt(p) PROVE TypeOK'
  <2> USE <1>17 DEF CreateReceipt, Temporary, Dest
  <2>1. pc' \in [Invocations -> Phases] /\ outcome' \in [Invocations -> Outcomes]
    BY GotoTyped, FailTyped DEF Phases, Outcomes, Refusals, Failures
  <2>2. receipt' \in [ReceiptPaths -> Invocations \union {Foreign, NoFile}]
    OBVIOUS
  <2> QED
    BY <2>1, <2>2
<1>18. ASSUME NEW p \in Invocations, WriteReceipt(p) PROVE TypeOK'
  <2> USE <1>18 DEF WriteReceipt, Temporary, Dest
  <2>1. pc' \in [Invocations -> Phases] /\ outcome' \in [Invocations -> Outcomes]
    BY GotoTyped DEF Phases
  <2>2. whole' \subseteq ReceiptPaths
    OBVIOUS
  <2> QED
    BY <2>1, <2>2
<1>31. ASSUME NEW p \in Invocations, SyncReceipt(p) PROVE TypeOK'
  <2> USE <1>31 DEF SyncReceipt
  <2>1. pc' \in [Invocations -> Phases] /\ outcome' \in [Invocations -> Outcomes]
    <3>1. CASE Goto(p, "sync_receipt", "create_recovery") /\ UNCHANGED outcome
      BY <3>1, GotoTyped DEF Phases
    <3>2. CASE Fail(p, "sync_receipt", "done", "ok")
      BY <3>2, FailTyped DEF Phases, Outcomes, Refusals, Failures
    <3> QED
      BY <3>1, <3>2
  <2> QED
    BY <2>1
<1>19. ASSUME NEW p \in Invocations, CreateRecovery(p) PROVE TypeOK'
  <2> USE <1>19 DEF CreateRecovery, Temporary, Dest
  <2>1. pc' \in [Invocations -> Phases] /\ outcome' \in [Invocations -> Outcomes]
    <3>1. CASE Goto(p, "create_recovery", "write_recovery") /\ UNCHANGED outcome
      BY <3>1, GotoTyped DEF Phases
    <3>2. CASE Fail(p, "create_recovery", "done", "ReceiptRecoveryFailed")
      BY <3>2, FailTyped DEF Phases, Outcomes, Refusals, Failures
    <3> QED
      BY <3>1, <3>2
  <2>2. recovery' \in [Invocations -> {"absent", "partial", "whole"}]
    OBVIOUS
  <2> QED
    BY <2>1, <2>2
<1>20. ASSUME NEW p \in Invocations, WriteRecovery(p) PROVE TypeOK'
  <2> USE <1>20 DEF WriteRecovery, Temporary, Dest
  <2>1. pc' \in [Invocations -> Phases] /\ outcome' \in [Invocations -> Outcomes]
    <3>1. CASE Goto(p, "write_recovery", "sync_recovery") /\ UNCHANGED outcome
      BY <3>1, GotoTyped DEF Phases
    <3>2. CASE Fail(p, "write_recovery", "done", "ReceiptRecoveryFailed")
      BY <3>2, FailTyped DEF Phases, Outcomes, Refusals, Failures
    <3> QED
      BY <3>1, <3>2
  <2>2. recovery' \in [Invocations -> {"absent", "partial", "whole"}]
    OBVIOUS
  <2> QED
    BY <2>1, <2>2
<1>32. ASSUME NEW p \in Invocations, SyncRecovery(p) PROVE TypeOK'
  <2> USE <1>32 DEF SyncRecovery
  <2>1. pc' \in [Invocations -> Phases] /\ outcome' \in [Invocations -> Outcomes]
    BY FailTyped DEF Phases, Outcomes, Refusals, Failures
  <2> QED
    BY <2>1
<1>21. ASSUME NEW p \in Invocations, BackendOpen(p) PROVE TypeOK'
  <2> USE <1>21 DEF BackendOpen, Temporary, Dest
  <2>1. tmp' \in [Plans -> Invocations \union {NoFile}]
    OBVIOUS
  <2>2. data' \in [Invocations -> DataStates]
    OBVIOUS
  <2>3. backend' \in [Invocations -> BackendStates]
    OBVIOUS
  <2> QED
    BY <2>1, <2>2, <2>3
<1>22. ASSUME NEW p \in Invocations, BackendFinish(p) PROVE TypeOK'
  BY <1>22 DEF BackendFinish, Goto, Fail, Phases, Outcomes, Failures, Temporary,
    Current, Ended
<1>23. ASSUME NEW p \in Invocations, BackendFail(p) PROVE TypeOK'
  BY <1>23 DEF BackendFail, Goto, Fail, Phases, Outcomes, Failures, Temporary,
    Current, Ended
<1>24. ASSUME NEW p \in Invocations, Crash(p) PROVE TypeOK'
  BY <1>24 DEF Crash, Goto, Fail, Phases, Outcomes, Failures, Temporary, Current, Ended
<1>25. ASSUME NEW pin \in 1 .. Pins, Drift(pin) PROVE TypeOK'
  BY <1>25 DEF Drift
<1>26. ASSUME NEW o \in SharedOutputs, OccupyOutput(o) PROVE TypeOK'
  BY <1>26 DEF OccupyOutput
<1>27. ASSUME NEW r \in ReceiptPaths \ StorePaths, OccupyReceipt(r) PROVE TypeOK'
  BY <1>27 DEF OccupyReceipt
<1>28. CASE UNCHANGED vars
  BY <1>28 DEF vars
<1> QED
  BY <1>1, <1>2, <1>3, <1>4, <1>5, <1>6, <1>7, <1>8, <1>9, <1>10, <1>11,
     <1>12, <1>13, <1>14, <1>15, <1>16, <1>17, <1>18, <1>19, <1>20, <1>21,
     <1>22, <1>23, <1>24, <1>25, <1>26, <1>27, <1>28, <1>29, <1>30, <1>31, <1>32
     DEF Next, Invocation, Bounded, Unbounded, Backend, Surroundings

\* Every variable keeps its type in every behaviour of `avpact apply`.
THEOREM TypeCorrect == Spec => []TypeOK
  BY TypeInit, TypeStep, PTL DEF Spec

-----------------------------------------------------------------------------
(* Drift.                                                                  *)

BeforeBackend == {"idle", "read_plan", "check_output", "check_temporary", "revalidate"}

\* What has been revalidated had not drifted when the invocation began, and a
\* backend exists only once everything has been revalidated.
DriftInv ==
  \A p \in Invocations :
    /\ startDrift[p] \subseteq drifted
    /\ pc[p] = "idle" => checked[p] = 0 /\ backend[p] = "none"
    /\ 1 .. checked[p] \cap startDrift[p] = {}
    /\ backend[p] # "none" \/ pc[p] = "running" => checked[p] = Pins

\* Every step keeps DriftInv.
LEMMA DriftStep ==
  ASSUME TypeOK, DriftInv, [Next]_vars
  PROVE  DriftInv'
<1> USE DEF TypeOK, DriftInv, pinVars, Goto, Fail
<1>1. ASSUME NEW q \in Invocations, PreflightReceipt(q) PROVE DriftInv'
  BY <1>1 DEF PreflightReceipt
<1>2. ASSUME NEW q \in Invocations, Revalidate(q) PROVE DriftInv'
  <2>1. UNCHANGED <<startDrift, drifted, backend>>
    BY <1>2 DEF Revalidate
  <2>2. \A p \in Invocations : pc'[p] \in {"idle", "running"} => pc'[p] = pc[p] /\ p # q
    BY <1>2 DEF Revalidate
  <2>3. \A p \in Invocations \ {q} : checked'[p] = checked[p]
    BY <1>2 DEF Revalidate
  <2>4. checked[q] # Pins \/ checked'[q] = checked[q]
    BY <1>2, ApplyAssumption DEF Revalidate
  <2>5. 1 .. checked'[q] \cap startDrift[q] = {}
    <3>1. CASE /\ checked[q] + 1 \notin drifted
               /\ checked' = [checked EXCEPT ![q] = checked[q] + 1]
      BY <3>1, ApplyAssumption
    <3>2. CASE UNCHANGED checked
      BY <3>2
    <3> QED
      BY <1>2, <3>1, <3>2 DEF Revalidate
  <2> QED
    BY <2>1, <2>2, <2>3, <2>4, <2>5
<1>3. ASSUME NEW q \in Invocations, Spawn(q) PROVE DriftInv'
  BY <1>3 DEF Spawn
<1>4. ASSUME NEW q \in Invocations, Stop(q) PROVE DriftInv'
  <2>1. /\ \A p \in Invocations : backend'[p] # "none" => backend[p] # "none" \/ p = q
        /\ \A p \in Invocations : pc'[p] = "idle" => pc[p] = "idle" /\ p # q
        /\ backend'[q] # "none" => backend[q] # "none" \/ pc[q] = "running"
    BY <1>4 DEF Stop
  <2> QED
    BY <1>4, <2>1 DEF Stop
<1>5. ASSUME NEW q \in Invocations, Backend(q) PROVE DriftInv'
  BY <1>5 DEF Backend, BackendOpen, BackendFinish, BackendFail
<1>6. ASSUME NEW pin \in 1 .. Pins, Drift(pin) PROVE DriftInv'
  BY <1>6 DEF Drift
<1>7. ASSUME NEW q \in Invocations,
             \/ ReadPlan(q) \/ CheckOutput(q) \/ CheckTemporary(q) \/ Reap(q)
             \/ Abandon(q) \/ Join(q) \/ Hash(q) \/ Probe(q) \/ Measure(q)
             \/ VerificationError(q) \/ Judge(q) \/ Cleanup(q) \/ Link(q) \/ Unlink(q)
             \/ CreateReceipt(q) \/ WriteReceipt(q) \/ SyncReceipt(q)
             \/ CreateRecovery(q) \/ WriteRecovery(q) \/ SyncRecovery(q) \/ Crash(q)
      PROVE  DriftInv'
  <2>1. UNCHANGED <<checked, drifted, startDrift, backend>>
    BY <1>7 DEF ReadPlan, CheckOutput, CheckTemporary, Reap, Abandon, Join, Hash,
      Probe, Measure, VerificationError, Judge, Cleanup, Link, Unlink, CreateReceipt,
      WriteReceipt, SyncReceipt, CreateRecovery, WriteRecovery, SyncRecovery, Crash
  <2>2. \A p \in Invocations : pc'[p] \in {"idle", "running"} => pc'[p] = pc[p]
    BY <1>7 DEF ReadPlan, CheckOutput, CheckTemporary, Reap, Abandon, Join, Hash,
      Probe, Measure, VerificationError, Judge, Cleanup, Link, Unlink, CreateReceipt,
      WriteReceipt, SyncReceipt, CreateRecovery, WriteRecovery, SyncRecovery, Crash
  <2> QED
    BY <2>1, <2>2
<1>8. CASE UNCHANGED vars \/ (\E o \in SharedOutputs : OccupyOutput(o))
                          \/ (\E r \in ReceiptPaths \ StorePaths : OccupyReceipt(r))
  BY <1>8 DEF vars, OccupyOutput, OccupyReceipt
<1> QED
  BY <1>1, <1>2, <1>3, <1>4, <1>5, <1>6, <1>7, <1>8
     DEF Next, Invocation, Bounded, Unbounded, Surroundings

\* An input, ffprobe or ffmpeg that had changed when the invocation began is
\* noticed before any backend is started (execute_plan_with_cancellation).
THEOREM DriftRefused == Spec => []DriftIsRefused
<1>1. Init => DriftInv
  <2> SUFFICES ASSUME Init
               PROVE  DriftInv
    OBVIOUS
  <2>1. \A p \in Invocations : 1 .. checked[p] \cap startDrift[p] = {}
    BY DEF Init
  <2> QED
    BY <2>1 DEF Init, DriftInv
<1>2. TypeOK /\ DriftInv => DriftIsRefused
  BY ApplyAssumption DEF TypeOK, DriftInv, DriftIsRefused
<1> QED
  BY <1>1, <1>2, TypeCorrect, DriftStep, PTL DEF Spec

-----------------------------------------------------------------------------
(* Nothing is overwritten.                                                 *)

\* A destination that names something keeps naming it, whatever the plans, the
\* overlap of the invocations and the crashes (publish_no_clobber).
THEOREM NothingClobbered == Spec => NeverClobbers
<1>1. ASSUME TypeOK, [Next]_vars
      PROVE  \A o \in Outputs : out[o] # NoFile => out'[o] = out[o]
  <2>1. ASSUME NEW p \in Invocations, Link(p)
        PROVE  \A o \in Outputs : out[o] # NoFile => out'[o] = out[o]
    BY <1>1, <2>1 DEF TypeOK, Link
  <2>2. ASSUME NEW o \in SharedOutputs, OccupyOutput(o)
        PROVE  \A x \in Outputs : out[x] # NoFile => out'[x] = out[x]
    BY <1>1, <2>2 DEF TypeOK, OccupyOutput
  <2>3. ASSUME NEW p \in Invocations, Invocation(p), ~Link(p)
        PROVE  UNCHANGED out
    BY <2>3 DEF Invocation, Bounded, Unbounded, PreflightReceipt, ReadPlan,
      CheckOutput, CheckTemporary, Revalidate, Spawn, Reap, Stop, Abandon, Join, Hash,
      Probe, Measure, VerificationError, Judge, Cleanup, Unlink, CreateReceipt,
      WriteReceipt, SyncReceipt, CreateRecovery, WriteRecovery, SyncRecovery, fileVars
  <2>4. ASSUME NEW p \in Invocations, Backend(p) \/ Crash(p)
        PROVE  UNCHANGED out
    BY <2>4 DEF Backend, BackendOpen, BackendFinish, BackendFail, Crash, fileVars
  <2>5. CASE \/ \E pin \in 1 .. Pins : Drift(pin)
             \/ \E r \in ReceiptPaths \ StorePaths : OccupyReceipt(r)
             \/ UNCHANGED vars
    BY <2>5 DEF Drift, OccupyReceipt, vars, fileVars
  <2> QED
    BY <1>1, <2>1, <2>2, <2>3, <2>4, <2>5 DEF Next, Surroundings
<1> QED
  BY <1>1, TypeCorrect, PTL DEF Spec, NeverClobbers

-----------------------------------------------------------------------------
(* Only verified bytes are published, as long as nobody else can put a file *)
(* at the temporary path of an invocation that verifies.                   *)

Verifying == {"hash", "probe", "measure", "judge", "link"}
Publishing == {"unlink", "create_receipt", "write_receipt", "sync_receipt",
               "create_recovery", "write_recovery", "sync_recovery"}

\* From the moment its backend has succeeded nobody writes p's file, so all
\* reads of it see the one final version.
FileInv(p) ==
  /\ pc[p] \in BeforeBackend => backend[p] = "none"
  /\ pc[p] \in Verifying \union Publishing \/ linked[p] # NoFile => backend[p] = "succeeded"
  /\ pc[p] \in BeforeBackend \union Verifying \union {"running", "join", "cleanup"} =>
       linked[p] = NoFile
  /\ pc[p] \in BeforeBackend \union {"running"} => outcome[p] = "none"
  /\ pc[p] = "join" /\ outcome[p] = "none" => backend[p] = "succeeded"
  /\ data[p] = "loud" => PlanOf[p] \in LoudnessPlans
  /\ pc[p] \in {"probe", "measure", "judge", "link"} => hashed[p] = <<p, data[p]>>
  /\ pc[p] \in {"measure", "judge", "link"} => probed[p] = <<p, data[p]>>
  /\ pc[p] \in {"judge", "link"} /\ PlanOf[p] \in LoudnessPlans => measured[p] = <<p, data[p]>>
  /\ pc[p] = "link" => data[p] = "good"
  /\ linked[p] # NoFile =>
       linked[p] = p /\ data[p] = "good" /\ hashed[p] = <<p, "good">> /\ probed[p] = <<p, "good">>

\* What p reads and links at its temporary path is its own.
OwnFile(p) == pc[p] \in Verifying => Temporary(p) \in {p, NoFile}

PubInv == \A p \in Invocations : FileInv(p) /\ OwnFile(p)

\* Every step keeps what was read and linked.
LEMMA FileStep ==
  ASSUME TypeOK, PubInv, [Next]_vars
  PROVE  \A p \in Invocations : FileInv(p)'
<1> SUFFICES ASSUME NEW p \in Invocations PROVE FileInv(p)'
  OBVIOUS
<1> USE ApplyAssumption DEF TypeOK, PubInv, FileInv, OwnFile, Goto, Fail, Temporary, BeforeBackend,
        Verifying, Publishing, pinVars, fileVars, readVars, receiptVars
<1>1. ASSUME NEW q \in Invocations, PreflightReceipt(q) PROVE FileInv(p)'
  BY <1>1 DEF PreflightReceipt
<1>2. ASSUME NEW q \in Invocations, ReadPlan(q) PROVE FileInv(p)'
  BY <1>2 DEF ReadPlan
<1>3. ASSUME NEW q \in Invocations, CheckOutput(q) PROVE FileInv(p)'
  BY <1>3 DEF CheckOutput
<1>4. ASSUME NEW q \in Invocations, CheckTemporary(q) PROVE FileInv(p)'
  BY <1>4 DEF CheckTemporary
<1>5. ASSUME NEW q \in Invocations, Revalidate(q) PROVE FileInv(p)'
  BY <1>5 DEF Revalidate
<1>6. ASSUME NEW q \in Invocations, Spawn(q) PROVE FileInv(p)'
  BY <1>6 DEF Spawn
<1>7. ASSUME NEW q \in Invocations, Reap(q) PROVE FileInv(p)'
  BY <1>7 DEF Reap
<1>8. ASSUME NEW q \in Invocations, Stop(q) PROVE FileInv(p)'
  BY <1>8 DEF Stop, Ended
<1>28. ASSUME NEW q \in Invocations, Abandon(q) PROVE FileInv(p)'
  BY <1>28 DEF Abandon
<1>29. ASSUME NEW q \in Invocations, Join(q) PROVE FileInv(p)'
  BY <1>29 DEF Join
<1>9. ASSUME NEW q \in Invocations, Hash(q) PROVE FileInv(p)'
  BY <1>9 DEF Hash, Current
<1>10. ASSUME NEW q \in Invocations, Probe(q) PROVE FileInv(p)'
  BY <1>10 DEF Probe, Current
<1>11. ASSUME NEW q \in Invocations, Measure(q) PROVE FileInv(p)'
  BY <1>11 DEF Measure, Current
<1>12. ASSUME NEW q \in Invocations, VerificationError(q) PROVE FileInv(p)'
  BY <1>12 DEF VerificationError
<1>13. ASSUME NEW q \in Invocations, Judge(q) PROVE FileInv(p)'
  BY <1>13 DEF Judge, ChecksPass, ProbeChecksPass, LoudnessCheckPasses, Versions,
    DataStates
<1>14. ASSUME NEW q \in Invocations, Cleanup(q) PROVE FileInv(p)'
  BY <1>14 DEF Cleanup, RemoveTemporary
<1>15. ASSUME NEW q \in Invocations, Link(q) PROVE FileInv(p)'
  BY <1>15 DEF Link, Dest
<1>16. ASSUME NEW q \in Invocations, Unlink(q) PROVE FileInv(p)'
  BY <1>16 DEF Unlink, RemoveTemporary
<1>17. ASSUME NEW q \in Invocations, CreateReceipt(q) PROVE FileInv(p)'
  BY <1>17 DEF CreateReceipt
<1>18. ASSUME NEW q \in Invocations, WriteReceipt(q) PROVE FileInv(p)'
  BY <1>18 DEF WriteReceipt
<1>30. ASSUME NEW q \in Invocations, SyncReceipt(q) PROVE FileInv(p)'
  BY <1>30 DEF SyncReceipt
<1>19. ASSUME NEW q \in Invocations, CreateRecovery(q) PROVE FileInv(p)'
  BY <1>19 DEF CreateRecovery
<1>20. ASSUME NEW q \in Invocations, WriteRecovery(q) PROVE FileInv(p)'
  BY <1>20 DEF WriteRecovery
<1>31. ASSUME NEW q \in Invocations, SyncRecovery(q) PROVE FileInv(p)'
  BY <1>31 DEF SyncRecovery
<1>21. ASSUME NEW q \in Invocations, BackendOpen(q) PROVE FileInv(p)'
  BY <1>21 DEF BackendOpen
<1>22. ASSUME NEW q \in Invocations, BackendFinish(q) PROVE FileInv(p)'
  BY <1>22 DEF BackendFinish
<1>23. ASSUME NEW q \in Invocations, BackendFail(q) PROVE FileInv(p)'
  BY <1>23 DEF BackendFail
<1>24. ASSUME NEW q \in Invocations, Crash(q) PROVE FileInv(p)'
  BY <1>24 DEF Crash
<1>25. CASE \/ \E pin \in 1 .. Pins : Drift(pin)
            \/ \E o \in SharedOutputs : OccupyOutput(o)
            \/ \E r \in ReceiptPaths \ StorePaths : OccupyReceipt(r)
  BY <1>25 DEF Drift, OccupyOutput, OccupyReceipt
<1>26. CASE UNCHANGED vars
  BY <1>26 DEF vars
<1> HIDE DEF TypeOK, PubInv, FileInv, OwnFile
<1>27. ASSUME NEW q \in Invocations, Invocation(q) \/ Backend(q) PROVE FileInv(p)'
  BY <1>1, <1>2, <1>3, <1>4, <1>5, <1>6, <1>7, <1>8, <1>9, <1>10, <1>11, <1>12,
     <1>13, <1>14, <1>15, <1>16, <1>17, <1>18, <1>19, <1>20, <1>21, <1>22, <1>23,
     <1>27, <1>28, <1>29, <1>30, <1>31 DEF Invocation, Bounded, Unbounded, Backend
<1> QED
  BY <1>24, <1>25, <1>26, <1>27 DEF Next, Surroundings

\* Who opens or removes a temporary path.
LEMMA TemporaryStep ==
  ASSUME TypeOK, [Next]_vars, NEW p \in Invocations
  PROVE  \/ UNCHANGED Temporary(p)
         \/ \E q \in Invocations :
              /\ PlanOf[q] = PlanOf[p]
              /\ \/ BackendOpen(q) /\ Temporary(p) = NoFile /\ Temporary(p)' = q
                 \/ (Cleanup(q) \/ Unlink(q)) /\ Temporary(p)' = NoFile
<1> USE ApplyAssumption DEF TypeOK, Temporary
<1>1. ASSUME NEW q \in Invocations, BackendOpen(q), ~UNCHANGED Temporary(p)
      PROVE  PlanOf[q] = PlanOf[p] /\ Temporary(p) = NoFile /\ Temporary(p)' = q
  BY <1>1 DEF BackendOpen
<1>2. ASSUME NEW q \in Invocations, Cleanup(q) \/ Unlink(q), ~UNCHANGED Temporary(p)
      PROVE  PlanOf[q] = PlanOf[p] /\ Temporary(p)' = NoFile
  BY <1>2 DEF Cleanup, Unlink, RemoveTemporary
<1>3. ASSUME NEW q \in Invocations, Invocation(q), ~Cleanup(q), ~Unlink(q)
      PROVE  UNCHANGED tmp
  BY <1>3 DEF Invocation, Bounded, Unbounded, PreflightReceipt, ReadPlan, CheckOutput,
    CheckTemporary, Revalidate, Spawn, Reap, Stop, Abandon, Join, Hash, Probe,
    Measure, VerificationError, Judge, Link, CreateReceipt, WriteReceipt, SyncReceipt,
    CreateRecovery, WriteRecovery, SyncRecovery, fileVars
<1>4. ASSUME NEW q \in Invocations, BackendFinish(q) \/ BackendFail(q) \/ Crash(q)
      PROVE  UNCHANGED tmp
  BY <1>4 DEF BackendFinish, BackendFail, Crash, fileVars
<1>5. CASE \/ \E pin \in 1 .. Pins : Drift(pin)
           \/ \E o \in SharedOutputs : OccupyOutput(o)
           \/ \E r \in ReceiptPaths \ StorePaths : OccupyReceipt(r)
           \/ UNCHANGED vars
  BY <1>5 DEF Drift, OccupyOutput, OccupyReceipt, vars, fileVars
<1> HIDE DEF TypeOK, Temporary
<1>6. UNCHANGED tmp => UNCHANGED Temporary(p)
  BY DEF Temporary
<1> QED
  BY <1>1, <1>2, <1>3, <1>4, <1>5, <1>6 DEF Next, Backend, Surroundings

\* PubInv holds of every behaviour, if no two invocations apply the same plan:
\* then a temporary path is one invocation's alone.
LEMMA PubInvariant == DistinctPlans /\ Spec => []PubInv
<1> DEFINE Alone1 == \A p \in Invocations : Temporary(p) \in {p, NoFile}
           Inv    == Alone1 /\ \A p \in Invocations : FileInv(p)
<1> SUFFICES ASSUME DistinctPlans
             PROVE  Spec => []PubInv
  OBVIOUS
<1>1. Init => Inv
  <2> SUFFICES ASSUME Init, NEW p \in Invocations
               PROVE  Temporary(p) \in {p, NoFile} /\ FileInv(p)
    OBVIOUS
  <2> QED
    BY ApplyAssumption DEF Init, FileInv, Temporary, BeforeBackend, Verifying,
      Publishing
<1>2. Inv => PubInv
  BY DEF PubInv, OwnFile
<1>3. TypeOK /\ Inv /\ [Next]_vars => Inv'
  <2> SUFFICES ASSUME TypeOK, Inv, [Next]_vars PROVE Inv'
    OBVIOUS
  <2>1. \A p \in Invocations : FileInv(p)'
    BY <1>2, FileStep
  <2>2. ASSUME NEW p \in Invocations PROVE Temporary(p)' \in {p, NoFile}
    BY TemporaryStep DEF DistinctPlans
  <2> QED
    BY <2>1, <2>2
<1> QED
  BY <1>1, <1>2, <1>3, TypeCorrect, PTL DEF Spec

-----------------------------------------------------------------------------
(* The same of one plan applied again and again.                           *)

Busy(p) == pc[p] \notin {"idle", "done", "crashed"}

\* One invocation at a time; and the file that its backend made stays at its
\* temporary path until it removes it, since a backend that outlived another
\* invocation opens nothing that exists.
Solo == \A p, q \in Invocations : Busy(p) /\ Busy(q) => p = q
Holds(p) ==
  (\/ pc[p] \in Verifying
   \/ (pc[p] \in {"running", "join"} /\ backend[p] \in {"writing", "succeeded"})) =>
    Temporary(p) = p
RetryInv == Solo /\ \A p \in Invocations : Holds(p) /\ FileInv(p)

\* Invocations that do not overlap take steps that any invocation may take.
LEMMA SequentialStep == SequentialNext => Next
  BY DEF SequentialNext, Next

\* An invocation begins only when no other is busy, so two never are.
LEMMA SoloStep ==
  ASSUME TypeOK, Solo, [SequentialNext]_vars
  PROVE  Solo'
<1> USE DEF TypeOK, Busy, Solo
<1>1. ASSUME NEW q \in Invocations, Invocation(q), pc[q] = "idle" => Alone(q) PROVE Solo'
  <2>1. pc[q] # "idle" => Busy(q)
    BY <1>1 DEF Invocation, Bounded, Unbounded, PreflightReceipt, ReadPlan,
      CheckOutput, CheckTemporary, Revalidate, Spawn, Reap, Stop, Abandon, Join, Hash,
      Probe, Measure, VerificationError, Judge, Cleanup, Link, Unlink, CreateReceipt,
      WriteReceipt, SyncReceipt, CreateRecovery, WriteRecovery, SyncRecovery, Goto,
      Fail
  <2>2. \A p \in Invocations : p # q => pc'[p] = pc[p] /\ ~Busy(p)
    <3>1. \A p \in Invocations : p # q => pc'[p] = pc[p]
      BY <1>1 DEF Invocation, Bounded, Unbounded, PreflightReceipt, ReadPlan,
        CheckOutput, CheckTemporary, Revalidate, Spawn, Reap, Stop, Abandon, Join,
        Hash, Probe, Measure, VerificationError, Judge, Cleanup, Link, Unlink,
        CreateReceipt, WriteReceipt, SyncReceipt, CreateRecovery,
      WriteRecovery, SyncRecovery, Goto, Fail
    <3> QED
      BY <1>1, <2>1, <3>1 DEF Alone
  <2> QED
    BY <2>2
<1>2. ASSUME NEW q \in Invocations, Crash(q) PROVE Solo'
  BY <1>2 DEF Crash
<1>3. ASSUME NEW q \in Invocations, Backend(q) PROVE Solo'
  BY <1>3 DEF Backend, BackendOpen, BackendFinish, BackendFail
<1>4. CASE \/ \E pin \in 1 .. Pins : Drift(pin)
           \/ \E o \in SharedOutputs : OccupyOutput(o)
           \/ \E r \in ReceiptPaths \ StorePaths : OccupyReceipt(r)
           \/ UNCHANGED vars
  BY <1>4 DEF Drift, OccupyOutput, OccupyReceipt, vars
<1> HIDE DEF TypeOK, Busy, Solo
<1> QED
  BY <1>1, <1>2, <1>3, <1>4 DEF SequentialNext, Surroundings

\* Between its backend's opening of the file and its own removal of it, an
\* invocation holds its temporary path.
LEMMA HoldsStep ==
  ASSUME TypeOK, RetryInv, [Next]_vars, NEW p \in Invocations
  PROVE  Holds(p)'
<1> SUFFICES ASSUME \/ pc'[p] \in Verifying
                    \/ /\ pc'[p] \in {"running", "join"}
                       /\ backend'[p] \in {"writing", "succeeded"}
             PROVE  Temporary(p)' = p
  BY DEF Holds
<1>1. \/ Temporary(p) = p
      \/ BackendOpen(p) /\ Temporary(p)' = p
  <2> USE DEF TypeOK, Goto, Fail, BeforeBackend, Verifying
  <2>1. FileInv(p) /\ Holds(p)
    BY DEF RetryInv
  <2>2. ASSUME NEW q \in Invocations, Spawn(q) PROVE Temporary(p) = p
    BY <2>1, <2>2 DEF Spawn, Holds, FileInv
  <2>3. ASSUME NEW q \in Invocations, Reap(q) PROVE Temporary(p) = p
    BY <2>1, <2>3 DEF Reap, Holds
  <2>4. ASSUME NEW q \in Invocations, BackendOpen(q)
        PROVE  Temporary(p) = p \/ (q = p /\ Temporary(p)' = p)
    BY <2>1, <2>4, ApplyAssumption DEF BackendOpen, Holds, Temporary
  <2>8. ASSUME NEW q \in Invocations, Join(q) PROVE Temporary(p) = p
    BY <2>1, <2>8 DEF Join, Holds, FileInv
  <2>9. ASSUME NEW q \in Invocations, Stop(q) PROVE Temporary(p) = p
    BY <2>1, <2>9 DEF Stop, Holds, Ended
  <2>5. ASSUME NEW q \in Invocations, BackendFinish(q) \/ BackendFail(q)
        PROVE  Temporary(p) = p
    BY <2>1, <2>5 DEF BackendFinish, BackendFail, Holds
  <2>6. ASSUME NEW q \in Invocations, Invocation(q) \/ Crash(q), ~Spawn(q), ~Reap(q),
               ~Join(q), ~Stop(q)
        PROVE  Temporary(p) = p
    BY <2>1, <2>6 DEF Invocation, Bounded, Unbounded, PreflightReceipt, ReadPlan,
      CheckOutput, CheckTemporary, Revalidate, Abandon, Hash, Probe, Measure,
      VerificationError, Judge, Cleanup, Link, Unlink, CreateReceipt, WriteReceipt,
      SyncReceipt, CreateRecovery, WriteRecovery, SyncRecovery, Crash, Holds
  <2>7. CASE \/ \E pin \in 1 .. Pins : Drift(pin)
             \/ \E o \in SharedOutputs : OccupyOutput(o)
             \/ \E r \in ReceiptPaths \ StorePaths : OccupyReceipt(r)
             \/ UNCHANGED vars
    BY <2>1, <2>7 DEF Drift, OccupyOutput, OccupyReceipt, vars, Holds
  <2> HIDE DEF TypeOK, Goto, Fail, BeforeBackend, Verifying
  <2> QED
    BY <2>2, <2>3, <2>4, <2>5, <2>6, <2>7, <2>8, <2>9 DEF Next, Backend, Surroundings
<1>2. ASSUME NEW q \in Invocations, Cleanup(q) \/ Unlink(q), Temporary(p) = p
      PROVE  FALSE
  <2>1. /\ pc[q] \in {"cleanup", "unlink"}
        /\ pc'[q] \in {"done", "create_receipt"}
        /\ q # p => pc'[p] = pc[p]
    BY <1>2 DEF TypeOK, Cleanup, Unlink, Goto
  <2>2. q # p
    BY <2>1 DEF Verifying
  <2>3. Busy(p) /\ Busy(q)
    BY <2>1, <2>2 DEF Busy, Verifying
  <2> QED
    BY <2>2, <2>3 DEF RetryInv, Solo
<1>3. CASE Temporary(p) = p
  <2>1. Temporary(p) # NoFile
    BY <1>3, ApplyAssumption
  <2> QED
    BY <1>2, <1>3, <2>1, TemporaryStep
<1> QED
  BY <1>1, <1>3

\* RetryInv holds of every behaviour in which no two invocations overlap.
LEMMA RetryInvariant == SequentialSpec => Spec /\ []PubInv
<1>1. Init => RetryInv
  <2> SUFFICES ASSUME Init
               PROVE  RetryInv
    OBVIOUS
  <2>1. Solo
    BY DEF Init, Solo, Busy
  <2>2. ASSUME NEW p \in Invocations PROVE Holds(p)
    BY DEF Init, Holds, Verifying
  <2>3. ASSUME NEW p \in Invocations PROVE FileInv(p)
    BY ApplyAssumption DEF Init, FileInv, BeforeBackend, Verifying, Publishing
  <2> QED
    BY <2>1, <2>2, <2>3 DEF RetryInv
<1>2. RetryInv => PubInv
  BY DEF RetryInv, PubInv, OwnFile, Holds
<1>3. TypeOK /\ RetryInv /\ [SequentialNext]_vars => TypeOK' /\ RetryInv'
  <2> SUFFICES ASSUME TypeOK, RetryInv, [SequentialNext]_vars
               PROVE  TypeOK' /\ RetryInv'
    OBVIOUS
  <2>1. [Next]_vars
    BY SequentialStep
  <2>2. TypeOK'
    BY <2>1, TypeStep
  <2>3. Solo'
    BY SoloStep DEF RetryInv
  <2>4. \A p \in Invocations : Holds(p)'
    BY <2>1, HoldsStep
  <2>5. \A p \in Invocations : FileInv(p)'
    BY <1>2, <2>1, FileStep
  <2> QED
    BY <2>2, <2>3, <2>4, <2>5 DEF RetryInv
<1>4. [SequentialNext]_vars => [Next]_vars
  BY SequentialStep
<1> QED
  BY <1>1, <1>2, <1>3, <1>4, TypeInit, PTL DEF SequentialSpec, Spec

\* Where PubInv holds, what is linked is verified.
LEMMA PubVerifies == PubInv => VerifiedPublication
  BY DEF PubInv, FileInv, VerifiedPublication

\* The file an invocation published is the finished version that it hashed and
\* probed, for ever, if no two invocations apply the same plan.
THEOREM PublishedIsVerified == DistinctPlans /\ Spec => []VerifiedPublication
  BY PubVerifies, PubInvariant, PTL

\* The same of one plan applied again and again, without overlap, after crashes
\* and past backends that no signal reached.
THEOREM RetriesPublishVerified == SequentialSpec => []VerifiedPublication
  BY PubVerifies, RetryInvariant, PTL

\* A destination that names an invocation's file names one which that invocation
\* linked.
LinkedInv == \A o \in Outputs : out[o] \in Invocations => linked[out[o]] = out[o]

\* Every step keeps LinkedInv, where what an invocation links is its own.
LEMMA LinkedStep ==
  ASSUME TypeOK, PubInv, LinkedInv, [Next]_vars
  PROVE  LinkedInv'
<1>1. ASSUME NEW q \in Invocations, Link(q) PROVE LinkedInv'
  <2>1. CASE UNCHANGED <<out, linked>>
    BY <2>1 DEF LinkedInv
  <2>2. CASE /\ Temporary(q) # NoFile
             /\ out' = [out EXCEPT ![Dest(q)] = Temporary(q)]
             /\ linked' = [linked EXCEPT ![q] = Temporary(q)]
    <3>1. FileInv(q) /\ OwnFile(q)
      BY DEF PubInv
    <3>2. Temporary(q) = q /\ linked[q] = NoFile
      BY <1>1, <2>2, <3>1 DEF Link, Goto, Fail, FileInv, OwnFile, Verifying
    <3> QED
      BY <2>2, <3>2, ApplyAssumption DEF TypeOK, LinkedInv
  <2> QED
    BY <1>1, <2>1, <2>2 DEF Link
<1>2. ASSUME NEW o \in SharedOutputs, OccupyOutput(o) PROVE LinkedInv'
  BY <1>2, ApplyAssumption DEF TypeOK, LinkedInv, OccupyOutput
<1>3. ASSUME NEW q \in Invocations, Invocation(q), ~Link(q)
      PROVE  UNCHANGED <<out, linked>>
  BY <1>3 DEF Invocation, Bounded, Unbounded, PreflightReceipt, ReadPlan, CheckOutput,
    CheckTemporary, Revalidate, Spawn, Reap, Stop, Abandon, Join, Hash, Probe,
    Measure, VerificationError, Judge, Cleanup, Unlink, CreateReceipt, WriteReceipt,
    SyncReceipt, CreateRecovery, WriteRecovery, SyncRecovery, fileVars
<1>4. ASSUME NEW q \in Invocations, Backend(q) \/ Crash(q)
      PROVE  UNCHANGED <<out, linked>>
  BY <1>4 DEF Backend, BackendOpen, BackendFinish, BackendFail, Crash, fileVars
<1>5. CASE \/ \E pin \in 1 .. Pins : Drift(pin)
           \/ \E r \in ReceiptPaths \ StorePaths : OccupyReceipt(r)
           \/ UNCHANGED vars
  BY <1>5 DEF Drift, OccupyReceipt, vars, fileVars, LinkedInv
<1>6. UNCHANGED <<out, linked>> => LinkedInv'
  BY DEF LinkedInv
<1> QED
  BY <1>1, <1>2, <1>3, <1>4, <1>5, <1>6 DEF Next, Surroundings

\* Where what is verified and published is an invocation's own, nothing but
\* good files has the name of a destination.
LEMMA GoodFiles == Spec /\ []PubInv => []OnlyGoodFilesPublished
<1>1. Init => LinkedInv
  BY ApplyAssumption DEF Init, LinkedInv
<1>2. TypeOK /\ PubInv /\ LinkedInv => OnlyGoodFilesPublished
  <2> SUFFICES ASSUME PubInv, LinkedInv, NEW o \in Outputs, out[o] \in Invocations
               PROVE  data[out[o]] = "good"
    BY DEF OnlyGoodFilesPublished
  <2>1. linked[out[o]] = out[o] /\ out[o] # NoFile /\ FileInv(out[o])
    BY ApplyAssumption DEF LinkedInv, PubInv
  <2> QED
    BY <2>1 DEF FileInv
<1> QED
  BY <1>1, <1>2, LinkedStep, TypeCorrect, PTL DEF Spec

\* No destination ever names an unfinished file or one off contract, if no two
\* invocations apply the same plan.
THEOREM OnlyGoodIsPublished == DistinctPlans /\ Spec => []OnlyGoodFilesPublished
  BY GoodFiles, PubInvariant, PTL

\* The same of one plan applied again and again without overlap: what the run
\* apply_same_plan refutes takes two invocations at once.
THEOREM RetriesPublishOnlyGood == SequentialSpec => []OnlyGoodFilesPublished
  BY GoodFiles, RetryInvariant, PTL

-----------------------------------------------------------------------------
(* Outcomes and receipts.                                                  *)

Published == {"ok", "ReceiptRecoveryRequired", "ReceiptRecoveryFailed"}

\* An invocation has linked its file from "unlink" on, and says so at the end;
\* it has a complete receipt only when it has linked its file.
AttestInv(p) ==
  /\ pc[p] \in Publishing => linked[p] # NoFile
  /\ pc[p] \notin Publishing \union {"done", "crashed"} => linked[p] = NoFile
  /\ linked[p] # NoFile => out[Dest(p)] = linked[p]
  /\ pc[p] \in BeforeBackend \union {"running"} => outcome[p] = "none"
  /\ pc[p] = "join" => outcome[p] \in Failures \union {"none"}
  /\ pc[p] = "cleanup" => outcome[p] \in Failures
  /\ pc[p] = "done" => (outcome[p] \in Published <=> linked[p] # NoFile)
  /\ pc[p] \in {"write_receipt", "sync_receipt"} => receipt[ReceiptOf[p]] = p
  /\ pc[p] = "sync_receipt" => ReceiptOf[p] \in whole
  /\ pc[p] = "sync_recovery" => recovery[p] = "whole"
  /\ recovery[p] = "whole" => pc[p] \in {"sync_recovery", "done", "crashed"}
  /\ HasReceipt(p) => linked[p] # NoFile
  /\ pc[p] = "done" /\ outcome[p] = "ok" => ReceiptOf[p] \in whole /\ receipt[ReceiptOf[p]] = p
  /\ pc[p] = "done" /\ outcome[p] = "ReceiptRecoveryRequired" => recovery[p] = "whole"

ReceiptInv ==
  /\ \A r \in whole : receipt[r] # NoFile
  /\ \A p \in Invocations : AttestInv(p)

\* A temporary file has the path of its maker's plan, and stays there only for a
\* cause; it appears only under an invocation that supervises its backend.
LeftoverInv(p) ==
  /\ \A plan \in Plans : tmp[plan] = p => plan = PlanOf[p]
  /\ Temporary(p) = p =>
       \/ pc[p] \in AtWork \union {"crashed"}
       \/ p \in Unkillable
       \/ outcome[p] = "PublishFailed"
       \/ PlanOf[p] \in Unremovable
  /\ backend[p] = "starting" => pc[p] \in {"running", "crashed"} \/ p \in Unkillable
  /\ outcome[p] = "PublishFailed" => pc[p] = "done"

\* What has not been read yet is not there; only loudness plans are measured.
UnreadInv ==
  \A p \in Invocations :
    /\ pc[p] \in BeforeBackend \union {"running", "join", "hash", "probe"} =>
         probed[p] = NoFile
    /\ pc[p] \in BeforeBackend \union {"running", "join", "hash", "probe", "measure"} =>
         measured[p] = NoFile
    /\ pc[p] = "measure" => PlanOf[p] \in LoudnessPlans

\* Every step keeps what ReceiptInv says of receipt paths.
LEMMA WholeStep ==
  ASSUME TypeOK, ReceiptInv, [Next]_vars
  PROVE  \A r \in whole' : receipt'[r] # NoFile
<1>1. (\A r \in whole : receipt[r] # NoFile) /\ (\A p \in Invocations : AttestInv(p))
  BY DEF ReceiptInv
<1>2. ASSUME NEW q \in Invocations, CreateReceipt(q)
      PROVE  \A r \in whole' : receipt'[r] # NoFile
  BY <1>1, <1>2, ApplyAssumption DEF TypeOK, CreateReceipt
<1>3. ASSUME NEW q \in Invocations, WriteReceipt(q)
      PROVE  \A r \in whole' : receipt'[r] # NoFile
  BY <1>1, <1>3, ApplyAssumption DEF TypeOK, WriteReceipt, AttestInv, Fail, Goto
<1>4. ASSUME NEW r \in ReceiptPaths \ StorePaths, OccupyReceipt(r)
      PROVE  \A x \in whole' : receipt'[x] # NoFile
  BY <1>1, <1>4, ApplyAssumption DEF TypeOK, OccupyReceipt
<1>5. ASSUME NEW q \in Invocations, Invocation(q), ~CreateReceipt(q), ~WriteReceipt(q)
      PROVE  UNCHANGED <<receipt, whole>>
  BY <1>5 DEF Invocation, Bounded, Unbounded, PreflightReceipt, ReadPlan, CheckOutput,
    CheckTemporary, Revalidate, Spawn, Reap, Stop, Abandon, Join, Hash, Probe,
    Measure, VerificationError, Judge, Cleanup, Link, Unlink, SyncReceipt,
    CreateRecovery, WriteRecovery, SyncRecovery, receiptVars
<1>6. ASSUME NEW q \in Invocations, Backend(q) \/ Crash(q)
      PROVE  UNCHANGED <<receipt, whole>>
  BY <1>6 DEF Backend, BackendOpen, BackendFinish, BackendFail, Crash, receiptVars
<1>7. CASE \/ \E pin \in 1 .. Pins : Drift(pin)
           \/ \E o \in SharedOutputs : OccupyOutput(o)
           \/ UNCHANGED vars
  BY <1>1, <1>7 DEF Drift, OccupyOutput, vars, receiptVars
<1> QED
  BY <1>1, <1>2, <1>3, <1>4, <1>5, <1>6, <1>7 DEF Next, Surroundings

\* Every step of anyone keeps what ReceiptInv says of an invocation.
LEMMA AttestStep ==
  ASSUME TypeOK, ReceiptInv, [Next]_vars, NEW p \in Invocations
  PROVE  AttestInv(p)'
<1>0. AttestInv(p) /\ (\A q \in Invocations : AttestInv(q))
  BY DEF ReceiptInv
<1> USE <1>0, ApplyAssumption DEF TypeOK, AttestInv, HasReceipt, Goto, Fail, Dest,
        BeforeBackend, Publishing, Published, Failures,
        pinVars, fileVars, readVars, receiptVars
<1>1. ASSUME NEW q \in Invocations, PreflightReceipt(q) PROVE AttestInv(p)'
  BY <1>1 DEF PreflightReceipt
<1>2. ASSUME NEW q \in Invocations, ReadPlan(q) PROVE AttestInv(p)'
  BY <1>2 DEF ReadPlan
<1>3. ASSUME NEW q \in Invocations, CheckOutput(q) PROVE AttestInv(p)'
  BY <1>3 DEF CheckOutput
<1>4. ASSUME NEW q \in Invocations, CheckTemporary(q) PROVE AttestInv(p)'
  BY <1>4 DEF CheckTemporary
<1>5. ASSUME NEW q \in Invocations, Revalidate(q) PROVE AttestInv(p)'
  BY <1>5 DEF Revalidate
<1>6. ASSUME NEW q \in Invocations, Spawn(q) PROVE AttestInv(p)'
  BY <1>6 DEF Spawn
<1>7. ASSUME NEW q \in Invocations, Reap(q) PROVE AttestInv(p)'
  BY <1>7 DEF Reap
<1>8. ASSUME NEW q \in Invocations, Stop(q) PROVE AttestInv(p)'
  BY <1>8 DEF Stop
<1>28. ASSUME NEW q \in Invocations, Abandon(q) PROVE AttestInv(p)'
  BY <1>28 DEF Abandon
<1>29. ASSUME NEW q \in Invocations, Join(q) PROVE AttestInv(p)'
  BY <1>29 DEF Join
<1>9. ASSUME NEW q \in Invocations, Hash(q) PROVE AttestInv(p)'
  BY <1>9 DEF Hash
<1>10. ASSUME NEW q \in Invocations, Probe(q) PROVE AttestInv(p)'
  BY <1>10 DEF Probe
<1>11. ASSUME NEW q \in Invocations, Measure(q) PROVE AttestInv(p)'
  BY <1>11 DEF Measure
<1>12. ASSUME NEW q \in Invocations, VerificationError(q) PROVE AttestInv(p)'
  BY <1>12 DEF VerificationError
<1>13. ASSUME NEW q \in Invocations, Judge(q) PROVE AttestInv(p)'
  BY <1>13 DEF Judge
<1>14. ASSUME NEW q \in Invocations, Cleanup(q) PROVE AttestInv(p)'
  BY <1>14 DEF Cleanup, RemoveTemporary
<1>15. ASSUME NEW q \in Invocations, Link(q) PROVE AttestInv(p)'
  BY <1>15 DEF Link, Temporary
<1>16. ASSUME NEW q \in Invocations, Unlink(q) PROVE AttestInv(p)'
  BY <1>16 DEF Unlink, RemoveTemporary
<1>17. ASSUME NEW q \in Invocations, CreateReceipt(q) PROVE AttestInv(p)'
  <2>1. \A r \in whole : receipt'[r] = receipt[r]
    BY <1>17 DEF CreateReceipt, ReceiptInv
  <2>2. UNCHANGED <<outcome, linked, out, whole, recovery>>
    BY <1>17 DEF CreateReceipt
  <2>3. HasReceipt(p)' <=> HasReceipt(p)
    BY <2>1, <2>2
  <2>4. receipt[ReceiptOf[p]] = p => receipt'[ReceiptOf[p]] = p
    BY <1>17 DEF CreateReceipt
  <2>5. pc[q] = "create_receipt" /\ pc'[q] \in {"write_receipt", "create_recovery"}
    BY <1>17 DEF CreateReceipt
  <2>6. pc'[q] = "write_receipt" => receipt'[ReceiptOf[q]] = q
    BY <1>17 DEF CreateReceipt
  <2>7. p # q => pc'[p] = pc[p]
    BY <1>17 DEF CreateReceipt
  <2> HIDE DEF HasReceipt
  <2> QED
    BY <2>1, <2>2, <2>3, <2>4, <2>5, <2>6, <2>7
<1>18. ASSUME NEW q \in Invocations, WriteReceipt(q) PROVE AttestInv(p)'
  BY <1>18 DEF WriteReceipt
<1>30. ASSUME NEW q \in Invocations, SyncReceipt(q) PROVE AttestInv(p)'
  BY <1>30 DEF SyncReceipt
<1>19. ASSUME NEW q \in Invocations, CreateRecovery(q) PROVE AttestInv(p)'
  BY <1>19 DEF CreateRecovery
<1>20. ASSUME NEW q \in Invocations, WriteRecovery(q) PROVE AttestInv(p)'
  BY <1>20 DEF WriteRecovery
<1>31. ASSUME NEW q \in Invocations, SyncRecovery(q) PROVE AttestInv(p)'
  BY <1>31 DEF SyncRecovery
<1>21. ASSUME NEW q \in Invocations, BackendOpen(q) PROVE AttestInv(p)'
  BY <1>21 DEF BackendOpen
<1>22. ASSUME NEW q \in Invocations, BackendFinish(q) PROVE AttestInv(p)'
  BY <1>22 DEF BackendFinish
<1>23. ASSUME NEW q \in Invocations, BackendFail(q) PROVE AttestInv(p)'
  BY <1>23 DEF BackendFail
<1>24. ASSUME NEW q \in Invocations, Crash(q) PROVE AttestInv(p)'
  BY <1>24 DEF Crash
<1>25. CASE \/ \E pin \in 1 .. Pins : Drift(pin)
            \/ \E o \in SharedOutputs : OccupyOutput(o)
            \/ \E r \in ReceiptPaths \ StorePaths : OccupyReceipt(r)
  BY <1>25 DEF Drift, OccupyOutput, OccupyReceipt
<1>26. CASE UNCHANGED vars
  BY <1>26 DEF vars
<1> HIDE DEF TypeOK, AttestInv, HasReceipt
<1>27. ASSUME NEW q \in Invocations, Invocation(q) \/ Backend(q) PROVE AttestInv(p)'
  BY <1>1, <1>2, <1>3, <1>4, <1>5, <1>6, <1>7, <1>8, <1>9, <1>10, <1>11,
     <1>12, <1>13, <1>14, <1>15, <1>16, <1>17, <1>18, <1>19, <1>20, <1>21,
     <1>22, <1>23, <1>27, <1>28, <1>29, <1>30, <1>31
     DEF Invocation, Bounded, Unbounded, Backend
<1> QED
  BY <1>24, <1>25, <1>26, <1>27 DEF Next, Surroundings

\* Every step keeps LeftoverInv.
LEMMA LeftoverStep ==
  ASSUME TypeOK, [Next]_vars, NEW p \in Invocations, LeftoverInv(p)
  PROVE  LeftoverInv(p)'
<1> USE ApplyAssumption DEF TypeOK, LeftoverInv, AtWork, Goto, Fail, Temporary,
        pinVars, fileVars, readVars, receiptVars
<1>1. ASSUME NEW q \in Invocations, PreflightReceipt(q) PROVE LeftoverInv(p)'
  BY <1>1 DEF PreflightReceipt
<1>2. ASSUME NEW q \in Invocations, ReadPlan(q) PROVE LeftoverInv(p)'
  BY <1>2 DEF ReadPlan
<1>3. ASSUME NEW q \in Invocations, CheckOutput(q) PROVE LeftoverInv(p)'
  BY <1>3 DEF CheckOutput
<1>4. ASSUME NEW q \in Invocations, CheckTemporary(q) PROVE LeftoverInv(p)'
  BY <1>4 DEF CheckTemporary
<1>5. ASSUME NEW q \in Invocations, Revalidate(q) PROVE LeftoverInv(p)'
  BY <1>5 DEF Revalidate
<1>6. ASSUME NEW q \in Invocations, Spawn(q) PROVE LeftoverInv(p)'
  BY <1>6 DEF Spawn
<1>7. ASSUME NEW q \in Invocations, Reap(q) PROVE LeftoverInv(p)'
  BY <1>7 DEF Reap
<1>8. ASSUME NEW q \in Invocations, Stop(q) PROVE LeftoverInv(p)'
  BY <1>8 DEF Stop, Ended
<1>28. ASSUME NEW q \in Invocations, Abandon(q) PROVE LeftoverInv(p)'
  BY <1>28 DEF Abandon, Ended
<1>29. ASSUME NEW q \in Invocations, Join(q) PROVE LeftoverInv(p)'
  BY <1>29 DEF Join
<1>9. ASSUME NEW q \in Invocations, Hash(q) PROVE LeftoverInv(p)'
  BY <1>9 DEF Hash
<1>10. ASSUME NEW q \in Invocations, Probe(q) PROVE LeftoverInv(p)'
  BY <1>10 DEF Probe
<1>11. ASSUME NEW q \in Invocations, Measure(q) PROVE LeftoverInv(p)'
  BY <1>11 DEF Measure
<1>12. ASSUME NEW q \in Invocations, VerificationError(q) PROVE LeftoverInv(p)'
  BY <1>12 DEF VerificationError
<1>13. ASSUME NEW q \in Invocations, Judge(q) PROVE LeftoverInv(p)'
  BY <1>13 DEF Judge
<1>14. ASSUME NEW q \in Invocations, Cleanup(q) PROVE LeftoverInv(p)'
  BY <1>14 DEF Cleanup, RemoveTemporary
<1>15. ASSUME NEW q \in Invocations, Link(q) PROVE LeftoverInv(p)'
  BY <1>15 DEF Link
<1>16. ASSUME NEW q \in Invocations, Unlink(q) PROVE LeftoverInv(p)'
  BY <1>16 DEF Unlink, RemoveTemporary
<1>17. ASSUME NEW q \in Invocations, CreateReceipt(q) PROVE LeftoverInv(p)'
  BY <1>17 DEF CreateReceipt
<1>18. ASSUME NEW q \in Invocations, WriteReceipt(q) PROVE LeftoverInv(p)'
  BY <1>18 DEF WriteReceipt
<1>30. ASSUME NEW q \in Invocations, SyncReceipt(q) PROVE LeftoverInv(p)'
  BY <1>30 DEF SyncReceipt
<1>19. ASSUME NEW q \in Invocations, CreateRecovery(q) PROVE LeftoverInv(p)'
  BY <1>19 DEF CreateRecovery
<1>20. ASSUME NEW q \in Invocations, WriteRecovery(q) PROVE LeftoverInv(p)'
  BY <1>20 DEF WriteRecovery
<1>31. ASSUME NEW q \in Invocations, SyncRecovery(q) PROVE LeftoverInv(p)'
  BY <1>31 DEF SyncRecovery
<1>21. ASSUME NEW q \in Invocations, BackendOpen(q) PROVE LeftoverInv(p)'
  BY <1>21 DEF BackendOpen
<1>22. ASSUME NEW q \in Invocations, BackendFinish(q) PROVE LeftoverInv(p)'
  BY <1>22 DEF BackendFinish
<1>23. ASSUME NEW q \in Invocations, BackendFail(q) PROVE LeftoverInv(p)'
  BY <1>23 DEF BackendFail
<1>24. ASSUME NEW q \in Invocations, Crash(q) PROVE LeftoverInv(p)'
  BY <1>24 DEF Crash
<1>25. CASE \/ \E pin \in 1 .. Pins : Drift(pin)
            \/ \E o \in SharedOutputs : OccupyOutput(o)
            \/ \E r \in ReceiptPaths \ StorePaths : OccupyReceipt(r)
  BY <1>25 DEF Drift, OccupyOutput, OccupyReceipt
<1>26. CASE UNCHANGED vars
  BY <1>26 DEF vars
<1> HIDE DEF TypeOK, LeftoverInv
<1>27. ASSUME NEW q \in Invocations, Invocation(q) \/ Backend(q) PROVE LeftoverInv(p)'
  BY <1>1, <1>2, <1>3, <1>4, <1>5, <1>6, <1>7, <1>8, <1>9, <1>10, <1>11,
     <1>12, <1>13, <1>14, <1>15, <1>16, <1>17, <1>18, <1>19, <1>20, <1>21,
     <1>22, <1>23, <1>27, <1>28, <1>29, <1>30, <1>31
     DEF Invocation, Bounded, Unbounded, Backend
<1> QED
  BY <1>24, <1>25, <1>26, <1>27 DEF Next, Surroundings

-----------------------------------------------------------------------------
(* What invocations report and leave behind, whatever their plans.         *)

\* ReceiptInv holds of every behaviour.
LEMMA ReceiptInvariant == Spec => []ReceiptInv
<1>1. Init => ReceiptInv
  BY ApplyAssumption DEF Init, ReceiptInv, AttestInv, HasReceipt, Publishing
<1>2. TypeOK /\ ReceiptInv /\ [Next]_vars => ReceiptInv'
  <2> SUFFICES ASSUME TypeOK, ReceiptInv, [Next]_vars
               PROVE  ReceiptInv'
    OBVIOUS
  <2>1. (\A r \in whole : receipt[r] # NoFile)'
    BY WholeStep
  <2>2. \A p \in Invocations : AttestInv(p)'
    BY AttestStep
  <2> QED
    BY <2>1, <2>2 DEF ReceiptInv
<1> QED
  BY <1>1, <1>2, TypeCorrect, PTL DEF Spec

\* What an invocation reports is what it left on disk: success, the demand for
\* recovery, the loss of both receipts, and every refusal before publication
\* (persist_receipt_with_recovery and the early returns before it).
THEOREM ReportsAreTrue == Spec => []OutcomeIsTrue
<1>1. ReceiptInv => OutcomeIsTrue
  BY DEF ReceiptInv, AttestInv, Published, OutcomeIsTrue
<1> QED
  BY <1>1, ReceiptInvariant, PTL

\* A receipt path never changes hands and a complete receipt stays complete:
\* write_new_receipt creates its file or fails.
THEOREM NoReceiptLost == Spec => ReceiptsAreKept
<1> DEFINE Kept ==
      /\ \A r \in ReceiptPaths : receipt[r] # NoFile => receipt'[r] = receipt[r]
      /\ whole \subseteq whole'
      /\ \A p \in Invocations : recovery[p] = "whole" => recovery'[p] = "whole"
<1>1. ASSUME TypeOK, ReceiptInv, [Next]_vars
      PROVE  Kept
  <2>1. ASSUME NEW q \in Invocations, CreateReceipt(q) \/ WriteReceipt(q) \/ SyncReceipt(q)
        PROVE  Kept
    BY <1>1, <2>1 DEF TypeOK, CreateReceipt, WriteReceipt, SyncReceipt, receiptVars
  <2>2. ASSUME NEW q \in Invocations, CreateRecovery(q) \/ WriteRecovery(q) \/ SyncRecovery(q)
        PROVE  Kept
    BY <1>1, <2>2 DEF TypeOK, CreateRecovery, WriteRecovery, SyncRecovery, Goto, Fail,
      ReceiptInv, AttestInv, HasReceipt, receiptVars
  <2>3. ASSUME NEW r \in ReceiptPaths \ StorePaths, OccupyReceipt(r)
        PROVE  Kept
    BY <1>1, <2>3 DEF TypeOK, OccupyReceipt
  <2>4. ASSUME NEW q \in Invocations, Invocation(q),
               ~CreateReceipt(q), ~WriteReceipt(q), ~SyncReceipt(q),
               ~CreateRecovery(q), ~WriteRecovery(q), ~SyncRecovery(q)
        PROVE  UNCHANGED <<receipt, whole, recovery>>
    BY <2>4 DEF Invocation, Bounded, Unbounded, PreflightReceipt, ReadPlan,
      CheckOutput, CheckTemporary, Revalidate, Spawn, Reap, Stop, Abandon, Join, Hash,
      Probe, Measure, VerificationError, Judge, Cleanup, Link, Unlink, receiptVars
  <2>5. ASSUME NEW q \in Invocations, Backend(q) \/ Crash(q)
        PROVE  UNCHANGED <<receipt, whole, recovery>>
    BY <2>5 DEF Backend, BackendOpen, BackendFinish, BackendFail, Crash, receiptVars
  <2>6. CASE \/ \E pin \in 1 .. Pins : Drift(pin)
             \/ \E o \in SharedOutputs : OccupyOutput(o)
             \/ UNCHANGED vars
    BY <2>6 DEF Drift, OccupyOutput, vars, receiptVars
  <2> QED
    BY <1>1, <2>1, <2>2, <2>3, <2>4, <2>5, <2>6 DEF Next, Surroundings
<1> QED
  BY <1>1, TypeCorrect, ReceiptInvariant, PTL DEF Spec, ReceiptsAreKept

\* A temporary file that blocks its plan has an invocation at work on it or one
\* of four causes: a kill, a backend that cannot be signalled, a failed hard
\* link, a failed removal (every error path of execute_plan_with_cancellation).
THEOREM LeftoversExplained == Spec => []LeftoverHasCause
<1> DEFINE Inv == \A p \in Invocations : LeftoverInv(p)
<1>1. Init => Inv
  <2> SUFFICES ASSUME Init, NEW p \in Invocations
               PROVE  LeftoverInv(p)
    OBVIOUS
  <2>1. p # NoFile
    BY ApplyAssumption
  <2>2. \A plan \in Plans : tmp[plan] = NoFile
    BY DEF Init
  <2>3. PlanOf[p] \in Plans
    BY ApplyAssumption
  <2>4. backend[p] # "starting" /\ outcome[p] # "PublishFailed"
    BY DEF Init
  <2> QED
    BY <2>1, <2>2, <2>3, <2>4 DEF LeftoverInv, Temporary
<1>2. TypeOK /\ Inv /\ [Next]_vars => Inv'
  BY LeftoverStep
<1>3. TypeOK /\ Inv => LeftoverHasCause
  BY ApplyAssumption DEF TypeOK, LeftoverInv, LeftoverHasCause, Temporary
<1> QED
  BY <1>1, <1>2, <1>3, TypeCorrect, PTL DEF Spec

-----------------------------------------------------------------------------
(* With a plan for each invocation: receipts, and the abstract publication.*)

\* Where both invariants hold, a complete receipt matches its destination.
LEMMA ReceiptsMatch == ReceiptInv /\ PubInv => ReceiptMatchesDestination
<1> SUFFICES ASSUME ReceiptInv, PubInv, NEW p \in Invocations, HasReceipt(p)
             PROVE  out[Dest(p)] # NoFile /\ hashed[p] = <<out[Dest(p)], "good">>
  BY DEF ReceiptMatchesDestination
<1>1. AttestInv(p) /\ FileInv(p)
  BY DEF ReceiptInv, PubInv
<1>2. linked[p] # NoFile
  BY <1>1 DEF AttestInv, Published
<1> QED
  BY <1>1, <1>2 DEF AttestInv, FileInv

\* A complete receipt, requested or recovered, holds the digest of the file that
\* the destination names, and that file kept the contract.
THEOREM ReceiptsAreTrue == DistinctPlans /\ Spec => []ReceiptMatchesDestination
  BY ReceiptsMatch, ReceiptInvariant, PubInvariant, PTL

\* The same of one plan applied again and again.
THEOREM RetriedReceiptsAreTrue == SequentialSpec => []ReceiptMatchesDestination
  BY ReceiptsMatch, ReceiptInvariant, RetryInvariant, PTL

\* Nothing is accepted before it has been read for the last time.
LEMMA UnreadStep ==
  ASSUME TypeOK, UnreadInv, [Next]_vars
  PROVE  UnreadInv'
<1> USE DEF TypeOK, UnreadInv, BeforeBackend, Goto, Fail
<1>1. ASSUME NEW q \in Invocations, Probe(q) PROVE UnreadInv'
  BY <1>1 DEF Probe
<1>2. ASSUME NEW q \in Invocations, Measure(q) PROVE UnreadInv'
  BY <1>2 DEF Measure
<1>3. ASSUME NEW q \in Invocations, Invocation(q), ~Probe(q), ~Measure(q)
      PROVE  UNCHANGED <<probed, measured>>
  BY <1>3 DEF Invocation, Bounded, Unbounded, PreflightReceipt, ReadPlan, CheckOutput,
    CheckTemporary, Revalidate, Spawn, Reap, Stop, Abandon, Join, Hash,
    VerificationError, Judge, Cleanup, Link, Unlink, CreateReceipt, WriteReceipt,
    SyncReceipt, CreateRecovery, WriteRecovery, SyncRecovery, readVars
<1>4. ASSUME NEW q \in Invocations, Invocation(q), ~Probe(q), ~Measure(q)
      PROVE  \A p \in Invocations :
               /\ pc'[p] \in BeforeBackend \union {"running", "join", "hash", "probe"} =>
                    pc[p] \in BeforeBackend \union {"running", "join", "hash", "probe"}
               /\ pc'[p] # "measure" \/ pc[p] = "measure"
  BY <1>4 DEF Invocation, Bounded, Unbounded, PreflightReceipt, ReadPlan, CheckOutput,
    CheckTemporary, Revalidate, Spawn, Reap, Stop, Abandon, Join, Hash,
    VerificationError, Judge, Cleanup, Link, Unlink, CreateReceipt, WriteReceipt,
    SyncReceipt, CreateRecovery, WriteRecovery, SyncRecovery
<1>5. ASSUME NEW q \in Invocations, Backend(q) \/ Crash(q) PROVE UnreadInv'
  BY <1>5 DEF Backend, BackendOpen, BackendFinish, BackendFail, Crash, readVars
<1>6. CASE \/ \E pin \in 1 .. Pins : Drift(pin)
           \/ \E o \in SharedOutputs : OccupyOutput(o)
           \/ \E r \in ReceiptPaths \ StorePaths : OccupyReceipt(r)
           \/ UNCHANGED vars
  BY <1>6 DEF Drift, OccupyOutput, OccupyReceipt, vars, readVars
<1> QED
  BY <1>1, <1>2, <1>3, <1>4, <1>5, <1>6 DEF Next, Surroundings
\* Every step is one of the abstract publication, or changes nothing it sees.
LEMMA AbstractStep ==
  ASSUME TypeOK, PubInv, ReceiptInv, UnreadInv, [Next]_vars
  PROVE  [Abstract!PubNext]_(Abstract!pubVars)
<1> DEFINE Verified == {p \in Invocations : Accepted(p)}
           Attested == {p \in Invocations : HasReceipt(p)}
           Stutter == UNCHANGED <<out, Verified, Attested>>
<1>s. Stutter => [Abstract!PubNext]_(Abstract!pubVars)
  BY DEF Abstract!pubVars
<1>v. UNCHANGED readVars => UNCHANGED Verified
  BY DEF readVars, Accepted
<1>a. UNCHANGED receiptVars => UNCHANGED Attested
  BY DEF receiptVars, HasReceipt
<1>1. ASSUME NEW q \in Invocations, Link(q) PROVE [Abstract!PubNext]_(Abstract!pubVars)
  <2>1. UNCHANGED Verified /\ UNCHANGED Attested
    BY <1>1, <1>v, <1>a DEF Link
  <2>2. CASE UNCHANGED out
    BY <2>1, <2>2, <1>s
  <2>3. CASE ~UNCHANGED out
    <3>1. /\ pc[q] = "link" /\ Temporary(q) # NoFile /\ out[Dest(q)] = NoFile
          /\ out' = [out EXCEPT ![Dest(q)] = Temporary(q)]
      BY <1>1, <2>3 DEF Link, Goto, Fail
    <3>2. Temporary(q) = q /\ Accepted(q)
      BY <3>1 DEF PubInv, FileInv, OwnFile, Verifying, Accepted
    <3>3. Abstract!Bind(q)
      BY <2>1, <3>1, <3>2 DEF Abstract!Bind
    <3> QED
      BY <3>3 DEF Abstract!PubNext
  <2> QED
    BY <2>2, <2>3
<1>2. ASSUME NEW q \in Invocations, Hash(q) \/ Probe(q) \/ Measure(q)
      PROVE  [Abstract!PubNext]_(Abstract!pubVars)
  <2>1. UNCHANGED out /\ UNCHANGED Attested
    BY <1>2, <1>a DEF Hash, Probe, Measure, fileVars
  <2>2. ~Accepted(q)
    <3>1. NoFile # <<q, "good">>
      BY ApplyAssumption
    <3>2. CASE Hash(q) \/ Probe(q)
      BY <3>1, <3>2 DEF Hash, Probe, Goto, UnreadInv, Accepted
    <3>3. CASE Measure(q)
      BY <3>1, <3>3 DEF Measure, Goto, UnreadInv, Accepted
    <3> QED
      BY <1>2, <3>2, <3>3
  <2>3. \A p \in Invocations : p # q => (Accepted(p)' <=> Accepted(p))
    BY <1>2 DEF TypeOK, Hash, Probe, Measure, Accepted
  <2>4. CASE Accepted(q)'
    <3>1. Verified' = Verified \union {q}
      BY <2>2, <2>3, <2>4
    <3>2. Abstract!Accept(q)
      BY <2>1, <2>2, <3>1 DEF Abstract!Accept
    <3> QED
      BY <3>2 DEF Abstract!PubNext
  <2>5. CASE ~Accepted(q)'
    <3>1. Verified' = Verified
      BY <2>2, <2>3, <2>5
    <3> QED
      BY <2>1, <3>1, <1>s
  <2> QED
    BY <2>4, <2>5
<1>3. ASSUME NEW q \in Invocations,
             \/ CreateReceipt(q) \/ WriteReceipt(q) \/ SyncReceipt(q)
             \/ CreateRecovery(q) \/ WriteRecovery(q) \/ SyncRecovery(q)
      PROVE  [Abstract!PubNext]_(Abstract!pubVars)
  <2>1. UNCHANGED out /\ UNCHANGED Verified
    BY <1>3, <1>v DEF CreateReceipt, WriteReceipt, SyncReceipt,
      CreateRecovery, WriteRecovery, SyncRecovery, fileVars
  <2>2. \A p \in Invocations : p # q => (HasReceipt(p)' <=> HasReceipt(p))
    <3>1. CASE CreateReceipt(q) \/ WriteReceipt(q)
      BY <3>1, ApplyAssumption DEF TypeOK, CreateReceipt, WriteReceipt, Goto, Fail,
        HasReceipt, ReceiptInv, AttestInv
    <3>2. CASE CreateRecovery(q) \/ WriteRecovery(q)
      BY <3>2 DEF TypeOK, CreateRecovery, WriteRecovery, HasReceipt
    <3>3. CASE SyncReceipt(q) \/ SyncRecovery(q)
      BY <3>3 DEF SyncReceipt, SyncRecovery, receiptVars, HasReceipt
    <3> QED
      BY <1>3, <3>1, <3>2, <3>3
  <2>3. HasReceipt(q) => HasReceipt(q)'
    BY <1>3, ApplyAssumption DEF TypeOK, CreateReceipt, WriteReceipt, SyncReceipt,
      CreateRecovery, WriteRecovery, SyncRecovery, Goto, Fail, HasReceipt, ReceiptInv,
      AttestInv, receiptVars
  <2>4. out[Dest(q)] = q
    <3>1. pc[q] \in Publishing /\ AttestInv(q) /\ FileInv(q)
      BY <1>3 DEF CreateReceipt, WriteReceipt, SyncReceipt, CreateRecovery,
      WriteRecovery, SyncRecovery, Goto, Fail,
        Publishing, ReceiptInv, PubInv
    <3> QED
      BY <3>1 DEF AttestInv, FileInv
  <2>5. CASE HasReceipt(q)'
    <3>1. Attested' = Attested \union {q}
      BY <2>2, <2>5
    <3>2. Abstract!Attest(q)
      BY <2>1, <2>4, <3>1 DEF Abstract!Attest
    <3> QED
      BY <3>2 DEF Abstract!PubNext
  <2>6. CASE ~HasReceipt(q)'
    <3>1. Attested' = Attested
      BY <2>2, <2>3, <2>6
    <3> QED
      BY <2>1, <3>1, <1>s
  <2> QED
    BY <2>5, <2>6
<1>4. ASSUME NEW o \in SharedOutputs, OccupyOutput(o)
      PROVE  [Abstract!PubNext]_(Abstract!pubVars)
  <2>1. UNCHANGED Verified /\ UNCHANGED Attested
    BY <1>4, <1>v, <1>a DEF OccupyOutput
  <2>2. o \in Outputs /\ Abstract!Occupy(o)
    BY <1>4, <2>1, ApplyAssumption DEF OccupyOutput, Abstract!Occupy
  <2> QED
    BY <2>2 DEF Abstract!PubNext
<1>5. ASSUME NEW r \in ReceiptPaths \ StorePaths, OccupyReceipt(r)
      PROVE  Stutter
  <2>1. UNCHANGED out /\ UNCHANGED Verified
    BY <1>5, <1>v DEF OccupyReceipt, fileVars
  <2>2. \A p \in Invocations : HasReceipt(p)' <=> HasReceipt(p)
    BY <1>5, ApplyAssumption DEF TypeOK, OccupyReceipt, HasReceipt, ReceiptInv
  <2> QED
    BY <2>1, <2>2
<1>6. ASSUME NEW q \in Invocations, Invocation(q), ~Link(q), ~Hash(q), ~Probe(q), ~Measure(q),
             ~CreateReceipt(q), ~WriteReceipt(q), ~SyncReceipt(q),
             ~CreateRecovery(q), ~WriteRecovery(q), ~SyncRecovery(q)
      PROVE  Stutter
  <2>1. UNCHANGED <<out, readVars, receiptVars>>
    BY <1>6 DEF Invocation, Bounded, Unbounded, PreflightReceipt, ReadPlan,
      CheckOutput, CheckTemporary, Revalidate, Spawn, Reap, Stop, Abandon, Join,
      VerificationError, Judge, Cleanup, Unlink, fileVars
  <2> QED
    BY <2>1, <1>v, <1>a
<1>7. ASSUME NEW q \in Invocations, Backend(q) \/ Crash(q)
      PROVE  Stutter
  <2>1. UNCHANGED <<out, readVars, receiptVars>>
    BY <1>7 DEF Backend, BackendOpen, BackendFinish, BackendFail, Crash, fileVars
  <2> QED
    BY <2>1, <1>v, <1>a
<1>8. CASE (\E pin \in 1 .. Pins : Drift(pin)) \/ UNCHANGED vars
  <2>1. UNCHANGED <<out, readVars, receiptVars>>
    BY <1>8 DEF Drift, vars, fileVars
  <2> QED
    BY <2>1, <1>v, <1>a, <1>s
<1> QED
  BY <1>s, <1>1, <1>2, <1>3, <1>4, <1>5, <1>6, <1>7, <1>8 DEF Next, Surroundings

\* Where what is verified and published is an invocation's own, every behaviour
\* is one of the abstract publication.
LEMMA PublicationImplemented == Spec /\ []PubInv => ImplementsPublication
<1>1. Init => UnreadInv
  <2> SUFFICES ASSUME Init
               PROVE  UnreadInv
    OBVIOUS
  <2>1. \A p \in Invocations :
          pc[p] = "idle" /\ probed[p] = NoFile /\ measured[p] = NoFile
    BY DEF Init
  <2> QED
    BY <2>1 DEF UnreadInv
<1>2. Init => Abstract!PubInit
  <2> SUFFICES ASSUME Init
               PROVE  Abstract!PubInit
    OBVIOUS
  <2>1. ASSUME NEW p \in Invocations
        PROVE  ~Accepted(p) /\ ~HasReceipt(p)
    <3>1. NoFile # <<p, "good">>
      BY ApplyAssumption
    <3> QED
      BY <3>1 DEF Init, Accepted, HasReceipt
  <2>2. out \in [Outputs -> {Foreign, NoFile}]
    BY DEF Init
  <2> QED
    BY <2>1, <2>2 DEF Abstract!PubInit
<1>3. TypeOK /\ UnreadInv /\ [Next]_vars => UnreadInv'
  BY UnreadStep
<1>4. TypeOK /\ PubInv /\ ReceiptInv /\ UnreadInv /\ [Next]_vars =>
        [Abstract!PubNext]_(Abstract!pubVars)
  BY AbstractStep
<1> QED
  BY <1>1, <1>2, <1>3, <1>4, TypeCorrect, ReceiptInvariant, PTL
     DEF Spec, ImplementsPublication, Abstract!PubSpec

\* `avpact apply`, with a plan for each invocation, implements the publication
\* promise: a destination is bound at most once, to an accepted artifact, and
\* only who bound it has a receipt.
THEOREM RefinesPublication == DistinctPlans /\ Spec => ImplementsPublication
  BY PublicationImplemented, PubInvariant, PTL

\* So do invocations that apply one plan again and again, never two at a time.
THEOREM RetriesRefinePublication == SequentialSpec => ImplementsPublication
  BY PublicationImplemented, RetryInvariant, PTL
=============================================================================
