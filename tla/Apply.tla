------------------------------- MODULE Apply -------------------------------
(***************************************************************************)
(* `avpact apply`: several invocations share one file system.  Each one    *)
(* reads a plan, refuses what it can refuse early, revalidates every input *)
(* and both backends, runs ffmpeg into a temporary file named after the    *)
(* plan, verifies that file, hard-links it to the destination, and writes  *)
(* a receipt (src/src/apply.rs).                                           *)
(*                                                                         *)
(* A file is identified with the invocation whose backend created its      *)
(* inode; a path is a function value that names an inode, Foreign or       *)
(* NoFile.  A version of a file is an inode with the state of its bytes.   *)
(***************************************************************************)
EXTENDS Naturals

CONSTANTS
  Invocations,      \* runs of `avpact apply`
  Plans,            \* plan identifiers, part of the temporary file's name
  Outputs,          \* destination paths
  ReceiptPaths,     \* requested receipt paths (--receipt-out or the store)
  PlanOf,           \* PlanOf[p]: the plan that invocation p executes
  OutputOf,         \* OutputOf[plan]: the destination the plan names
  ReceiptOf,        \* ReceiptOf[p]: the receipt path of invocation p
  StorePaths,       \* the receipt paths named after a receipt id
  LoudnessPlans,    \* plans whose expectation includes integrated loudness
  Pins,             \* how many identities a plan pins: inputs, ffprobe, ffmpeg
  SharedOutputs,    \* destinations another program may create
  CrashProne,       \* invocations that may be killed
  Unkillable,       \* invocations whose backend cannot be signalled
  Unremovable,      \* plans whose temporary file may resist removal
  Foreign,          \* stands for a file some other program created
  NoFile            \* the path does not exist; also "nothing read yet"

ASSUME ApplyAssumption ==
  /\ PlanOf \in [Invocations -> Plans]
  /\ OutputOf \in [Plans -> Outputs]
  /\ ReceiptOf \in [Invocations -> ReceiptPaths]
  /\ StorePaths \subseteq ReceiptPaths
  /\ \A p, q \in Invocations :
       ReceiptOf[p] = ReceiptOf[q] /\ ReceiptOf[p] \in StorePaths => p = q
  /\ LoudnessPlans \subseteq Plans
  /\ Pins \in Nat
  /\ SharedOutputs \subseteq Outputs
  /\ CrashProne \subseteq Invocations
  /\ Unkillable \subseteq Invocations
  /\ Unremovable \subseteq Plans
  /\ Foreign # NoFile
  /\ {Foreign, NoFile} \cap Invocations = {}
  /\ NoFile \notin Invocations \X {"none", "partial", "bad", "loud", "good"}

VARIABLES
  pc,         \* where each invocation is
  outcome,    \* the error each invocation is about to report, or "ok"
  checked,    \* how many pinned identities each invocation has revalidated
  drifted,    \* pinned identities that no longer match the plan
  startDrift, \* history: what had drifted when the invocation started
  backend,    \* each invocation's ffmpeg process
  data,       \* the bytes of the file each backend created
  tmp,        \* what each plan's temporary path names
  out,        \* what each destination path names
  hashed,     \* the version whose SHA-256 each invocation took
  probed,     \* the version each invocation probed
  measured,   \* the version whose loudness each invocation measured
  linked,     \* the file each invocation published
  receipt,    \* whose receipt each requested path holds
  whole,      \* requested receipt paths whose document is complete
  recovery    \* each invocation's recovery receipt

fileVars == <<data, tmp, out>>
readVars == <<hashed, probed, measured>>
receiptVars == <<receipt, whole, recovery>>
pinVars == <<checked, drifted, startDrift>>
vars == <<pc, outcome, pinVars, backend, fileVars, readVars, linked, receiptVars>>

Phases == {"idle", "read_plan", "check_output", "check_temporary", "revalidate",
           "running", "join", "hash", "probe", "measure", "judge", "link", "unlink",
           "create_receipt", "write_receipt", "sync_receipt", "create_recovery",
           "write_recovery", "sync_recovery", "cleanup", "done", "crashed"}
\* The errors apply can end in before it touched the destination.
Refusals == {"ReceiptExists", "ReceiptWrite", "PlanInvalid", "OutputExists",
             "TemporaryOutputExists", "ResourceLimitExceeded", "InputChanged"}
Failures == {"BackendFailed", "Stopped", "VerificationError", "VerificationFailed"}
Outcomes == Refusals \union Failures \union
            {"none", "PublishFailed", "ok", "ReceiptRecoveryRequired",
             "ReceiptRecoveryFailed"}
BackendStates == {"none", "starting", "writing", "succeeded", "failed"}
DataStates == {"none", "partial", "bad", "loud", "good"}
Versions == Invocations \X DataStates

TypeOK ==
  /\ pc \in [Invocations -> Phases]
  /\ outcome \in [Invocations -> Outcomes]
  /\ checked \in [Invocations -> 0 .. Pins]
  /\ drifted \subseteq 1 .. Pins
  /\ startDrift \in [Invocations -> SUBSET (1 .. Pins)]
  /\ backend \in [Invocations -> BackendStates]
  /\ data \in [Invocations -> DataStates]
  /\ tmp \in [Plans -> Invocations \union {NoFile}]
  /\ out \in [Outputs -> Invocations \union {Foreign, NoFile}]
  /\ hashed \in [Invocations -> Versions \union {NoFile}]
  /\ probed \in [Invocations -> Versions \union {NoFile}]
  /\ measured \in [Invocations -> Versions \union {NoFile}]
  /\ linked \in [Invocations -> Invocations \union {NoFile}]
  /\ receipt \in [ReceiptPaths -> Invocations \union {Foreign, NoFile}]
  /\ whole \subseteq ReceiptPaths
  /\ recovery \in [Invocations -> {"absent", "partial", "whole"}]

Init ==
  /\ pc = [p \in Invocations |-> "idle"]
  /\ outcome = [p \in Invocations |-> "none"]
  /\ checked = [p \in Invocations |-> 0]
  /\ drifted = {}
  /\ startDrift = [p \in Invocations |-> {}]
  /\ backend = [p \in Invocations |-> "none"]
  /\ data = [p \in Invocations |-> "none"]
  /\ tmp = [plan \in Plans |-> NoFile]
  /\ out = [o \in Outputs |-> NoFile]
  /\ hashed = [p \in Invocations |-> NoFile]
  /\ probed = [p \in Invocations |-> NoFile]
  /\ measured = [p \in Invocations |-> NoFile]
  /\ linked = [p \in Invocations |-> NoFile]
  /\ receipt = [r \in ReceiptPaths |-> NoFile]
  /\ whole = {}
  /\ recovery = [p \in Invocations |-> "absent"]

-----------------------------------------------------------------------------
Dest(p) == OutputOf[PlanOf[p]]
Temporary(p) == tmp[PlanOf[p]]
\* What a program that opens the temporary path of p's plan reads now.
Current(p) == <<Temporary(p), data[Temporary(p)]>>
Ended == {"succeeded", "failed"}

\* The temporary path is removed, whatever it names by now; a failure is at
\* most a warning.
RemoveTemporary(p) ==
  \/ tmp' = [tmp EXCEPT ![PlanOf[p]] = NoFile]
  \/ PlanOf[p] \in Unremovable /\ UNCHANGED tmp

Goto(p, from, to) ==
  /\ pc[p] = from
  /\ pc' = [pc EXCEPT ![p] = to]

\* p gives up with error e; from execute_backend on, it first cleans up.
Fail(p, from, to, e) ==
  /\ Goto(p, from, to)
  /\ outcome' = [outcome EXCEPT ![p] = e]

-----------------------------------------------------------------------------
(* Before the backend starts.                                              *)

\* preflight_receipt_path, or ensure_receipt_store for a receipt in the store.
PreflightReceipt(p) ==
  /\ startDrift' = [startDrift EXCEPT ![p] = drifted]
  /\ \/ /\ ReceiptOf[p] \in StorePaths \/ receipt[ReceiptOf[p]] = NoFile
        /\ Goto(p, "idle", "read_plan")
        /\ UNCHANGED outcome
     \/ /\ ReceiptOf[p] \notin StorePaths
        /\ receipt[ReceiptOf[p]] # NoFile
        /\ Fail(p, "idle", "done", "ReceiptExists")
     \/ Fail(p, "idle", "done", "ReceiptWrite")  \* no such directory
  /\ UNCHANGED <<checked, drifted, backend, fileVars, readVars, linked, receiptVars>>

\* read_plan and validate_plan.
ReadPlan(p) ==
  /\ \/ Goto(p, "read_plan", "check_output") /\ UNCHANGED outcome
     \/ Fail(p, "read_plan", "done", "PlanInvalid")
  /\ UNCHANGED <<pinVars, backend, fileVars, readVars, linked, receiptVars>>

\* preflight_output, first question: does the destination exist?
CheckOutput(p) ==
  /\ \/ /\ out[Dest(p)] = NoFile
        /\ Goto(p, "check_output", "check_temporary")
        /\ UNCHANGED outcome
     \/ /\ out[Dest(p)] # NoFile
        /\ Fail(p, "check_output", "done", "OutputExists")
  /\ UNCHANGED <<pinVars, backend, fileVars, readVars, linked, receiptVars>>

\* preflight_output, then: the temporary path, and the free space.
CheckTemporary(p) ==
  /\ \/ /\ Temporary(p) = NoFile
        /\ \/ Goto(p, "check_temporary", "revalidate") /\ UNCHANGED outcome
           \/ Fail(p, "check_temporary", "done", "ResourceLimitExceeded")
     \/ /\ Temporary(p) # NoFile
        /\ Fail(p, "check_temporary", "done", "TemporaryOutputExists")
  /\ UNCHANGED <<pinVars, backend, fileVars, readVars, linked, receiptVars>>

\* Fault: the loop over the identities runs once too often.
RevalidateTooOften(p) ==
  /\ Goto(p, "revalidate", "revalidate")
  /\ checked[p] <= Pins
  /\ checked' = [checked EXCEPT ![p] = @ + 1]
  /\ UNCHANGED <<outcome, drifted, startDrift, backend, fileVars, readVars, linked,
                 receiptVars>>

\* One pinned identity: an input's bytes, ffprobe's version, ffmpeg's build.
Revalidate(p) ==
  LET pin == checked[p] + 1 IN
  /\ checked[p] < Pins
  /\ \/ /\ pin \notin drifted
        /\ Goto(p, "revalidate", "revalidate")
        /\ checked' = [checked EXCEPT ![p] = pin]
        /\ UNCHANGED outcome
     \/ /\ pin \in drifted
        /\ Fail(p, "revalidate", "done", "InputChanged")
        /\ UNCHANGED checked
  /\ UNCHANGED <<drifted, startDrift, backend, fileVars, readVars, linked, receiptVars>>

\* Fault: the last identity, ffmpeg's own, is not revalidated.
SpawnUnchecked(p) ==
  /\ checked[p] >= Pins - 1
  /\ Goto(p, "revalidate", "running")
  /\ backend' = [backend EXCEPT ![p] = "starting"]
  /\ UNCHANGED <<outcome, pinVars, fileVars, readVars, linked, receiptVars>>

\* execute_backend spawns ffmpeg once every identity has been revalidated.
Spawn(p) ==
  /\ checked[p] = Pins
  /\ \/ /\ Goto(p, "revalidate", "running")
        /\ backend' = [backend EXCEPT ![p] = "starting"]
        /\ UNCHANGED outcome
     \/ /\ Fail(p, "revalidate", "cleanup", "BackendFailed")
        /\ UNCHANGED backend
  /\ UNCHANGED <<pinVars, fileVars, readVars, linked, receiptVars>>

-----------------------------------------------------------------------------
(* The backend process.  It runs on its own, and outlives a crash.         *)

\* ffmpeg -n opens its output: it creates the file, or refuses to overwrite.
\* One step here; ffmpeg itself looks whether the path exists and then opens it
\* with O_CREAT and O_TRUNC, so that two backends of one plan that open within
\* that gap would write one file.
BackendOpen(p) ==
  /\ backend[p] = "starting"
  /\ \/ /\ Temporary(p) = NoFile
        /\ tmp' = [tmp EXCEPT ![PlanOf[p]] = p]
        /\ data' = [data EXCEPT ![p] = "partial"]
        /\ backend' = [backend EXCEPT ![p] = "writing"]
     \/ /\ Temporary(p) # NoFile
        /\ backend' = [backend EXCEPT ![p] = "failed"]
        /\ UNCHANGED <<tmp, data>>
  /\ UNCHANGED <<pc, outcome, pinVars, out, readVars, linked, receiptVars>>

\* ffmpeg exits with status 0; what it wrote may still break the contract.
BackendFinish(p) ==
  /\ backend[p] = "writing"
  /\ backend' = [backend EXCEPT ![p] = "succeeded"]
  /\ \E d \in {"good", "bad"} \union (IF PlanOf[p] \in LoudnessPlans THEN {"loud"} ELSE {}) :
       data' = [data EXCEPT ![p] = d]
  /\ UNCHANGED <<pc, outcome, pinVars, tmp, out, readVars, linked, receiptVars>>

\* ffmpeg fails by itself, leaving whatever it has written.
BackendFail(p) ==
  /\ backend[p] \in {"starting", "writing"}
  /\ backend' = [backend EXCEPT ![p] = "failed"]
  /\ UNCHANGED <<pc, outcome, pinVars, fileVars, readVars, linked, receiptVars>>

-----------------------------------------------------------------------------
(* Supervising the backend, and verifying what it wrote.                   *)

\* Fault: the exit status is not looked at.
ReapIgnoringStatus(p) ==
  /\ backend[p] \in Ended
  /\ Goto(p, "running", "join")
  /\ UNCHANGED <<outcome, pinVars, backend, fileVars, readVars, linked, receiptVars>>

\* try_wait reports the exit status.
Reap(p) ==
  /\ \/ /\ backend[p] = "succeeded"
        /\ Goto(p, "running", "join")
        /\ UNCHANGED outcome
     \/ /\ backend[p] = "failed"
        /\ Fail(p, "running", "join", "BackendFailed")
  /\ UNCHANGED <<pinVars, backend, fileVars, readVars, linked, receiptVars>>

\* Fault: limits are looked at only once the backend has exited.
StopTooLate(p) ==
  /\ backend[p] \in Ended
  /\ Fail(p, "running", "join", "Stopped")
  /\ UNCHANGED <<pinVars, backend, fileVars, readVars, linked, receiptVars>>

\* Cancellation, a resource limit or a broken progress pipe, noticed before
\* try_wait: terminate_process_tree returns once the backend has exited.
Stop(p) ==
  /\ p \notin Unkillable \/ backend[p] \in Ended
  /\ Fail(p, "running", "join", "Stopped")
  /\ backend' = IF backend[p] \in Ended THEN backend
                ELSE [backend EXCEPT ![p] = "failed"]
  /\ UNCHANGED <<pinVars, fileVars, readVars, linked, receiptVars>>

\* The errors that are returned without joining the readers: the backend cannot
\* be signalled or waited for, or progress could not be read before its exit.
Abandon(p) ==
  /\ p \in Unkillable \/ backend[p] \in Ended
  /\ Fail(p, "running", "cleanup", "Stopped")
  /\ UNCHANGED <<pinVars, backend, fileVars, readVars, linked, receiptVars>>

\* Both reader threads have ended, for which every process that holds the
\* backend's pipes must have let go of them (Supervisor.tla).
Join(p) ==
  /\ Goto(p, "join", IF outcome[p] = "none" THEN "hash" ELSE "cleanup")
  /\ UNCHANGED <<outcome, pinVars, backend, fileVars, readVars, linked, receiptVars>>

\* One of verify_output's reads finds no file, or fails.
VerificationError(p) ==
  /\ \E phase \in {"hash", "probe", "measure"} :
       Fail(p, phase, "cleanup", "VerificationError")
  /\ UNCHANGED <<pinVars, backend, fileVars, readVars, linked, receiptVars>>

\* inspect -> identify_source: size and SHA-256 of what the path names now.
Hash(p) ==
  /\ Temporary(p) # NoFile
  /\ Goto(p, "hash", "probe")
  /\ hashed' = [hashed EXCEPT ![p] = Current(p)]
  /\ UNCHANGED <<outcome, pinVars, backend, fileVars, probed, measured, linked, receiptVars>>

\* inspect -> ffprobe, a second open of the path.
Probe(p) ==
  /\ Temporary(p) # NoFile
  /\ Goto(p, "probe", IF PlanOf[p] \in LoudnessPlans THEN "measure" ELSE "judge")
  /\ probed' = [probed EXCEPT ![p] = Current(p)]
  /\ UNCHANGED <<outcome, pinVars, backend, fileVars, hashed, measured, linked, receiptVars>>

\* measure_integrated_loudness, a third open of the path.
Measure(p) ==
  /\ Temporary(p) # NoFile
  /\ Goto(p, "measure", "judge")
  /\ measured' = [measured EXCEPT ![p] = Current(p)]
  /\ UNCHANGED <<outcome, pinVars, backend, fileVars, hashed, probed, linked, receiptVars>>

\* The checks, each over the version its own read saw.
ProbeChecksPass(p) == probed[p] \in Invocations \X {"good", "loud"}
LoudnessCheckPasses(p) == measured[p] \notin Invocations \X {"loud"}
\* Fault: the loudness check does not count.
ChecksPassButLoudness(p) == ProbeChecksPass(p)
ChecksPass(p) == ProbeChecksPass(p) /\ LoudnessCheckPasses(p)

\* Fault: output that breaks the contract is refused but not removed.
JudgeLeavingTemporary(p) ==
  /\ \/ /\ Goto(p, "judge", "link")
        /\ ChecksPass(p)
        /\ UNCHANGED outcome
     \/ /\ Fail(p, "judge", "done", "VerificationFailed")
        /\ ~ChecksPass(p)
  /\ UNCHANGED <<pinVars, backend, fileVars, readVars, linked, receiptVars>>

Judge(p) ==
  /\ \/ /\ Goto(p, "judge", "link")
        /\ ChecksPass(p)
        /\ UNCHANGED outcome
     \/ /\ Fail(p, "judge", "cleanup", "VerificationFailed")
        /\ ~ChecksPass(p)
  /\ UNCHANGED <<pinVars, backend, fileVars, readVars, linked, receiptVars>>

\* remove_generated_temporary, before the error is returned.
Cleanup(p) ==
  /\ Goto(p, "cleanup", "done")
  /\ RemoveTemporary(p)
  /\ UNCHANGED <<outcome, pinVars, backend, data, out, readVars, linked, receiptVars>>

-----------------------------------------------------------------------------
(* Publication and the receipt.                                            *)

\* Fault: the temporary file is renamed over the destination.
LinkReplacing(p) ==
  /\ Temporary(p) # NoFile
  /\ Goto(p, "link", "unlink")
  /\ out' = [out EXCEPT ![Dest(p)] = Temporary(p)]
  /\ linked' = [linked EXCEPT ![p] = Temporary(p)]
  /\ UNCHANGED <<outcome, pinVars, backend, data, tmp, readVars, receiptVars>>

\* Fault: a failed publication is not noticed, and a receipt follows.
LinkUnnoticed(p) ==
  /\ Goto(p, "link", "unlink")
  /\ IF Temporary(p) # NoFile /\ out[Dest(p)] = NoFile
     THEN /\ out' = [out EXCEPT ![Dest(p)] = Temporary(p)]
          /\ linked' = [linked EXCEPT ![p] = Temporary(p)]
     ELSE UNCHANGED <<out, linked>>
  /\ UNCHANGED <<outcome, pinVars, backend, data, tmp, readVars, receiptVars>>

\* publish_no_clobber: hard_link refuses an existing destination.  A failure
\* leaves the temporary file where it is.
Link(p) ==
  /\ \/ /\ Temporary(p) # NoFile
        /\ out[Dest(p)] = NoFile
        /\ Goto(p, "link", "unlink")
        /\ out' = [out EXCEPT ![Dest(p)] = Temporary(p)]
        /\ linked' = [linked EXCEPT ![p] = Temporary(p)]
        /\ UNCHANGED outcome
     \/ /\ Fail(p, "link", "done", "PublishFailed")
        /\ UNCHANGED <<out, linked>>
  /\ UNCHANGED <<pinVars, backend, data, tmp, readVars, receiptVars>>

\* publish_no_clobber, then: the temporary link goes.
Unlink(p) ==
  /\ Goto(p, "unlink", "create_receipt")
  /\ RemoveTemporary(p)
  /\ UNCHANGED <<outcome, pinVars, backend, data, out, readVars, linked, receiptVars>>

\* Fault: the receipt file is opened for truncation.
CreateReceiptTruncating(p) ==
  /\ Goto(p, "create_receipt", "write_receipt")
  /\ receipt' = [receipt EXCEPT ![ReceiptOf[p]] = p]
  /\ whole' = whole \ {ReceiptOf[p]}
  /\ UNCHANGED <<outcome, pinVars, backend, fileVars, readVars, linked, recovery>>

\* write_new_receipt at the requested path: create_new, then the bytes.
CreateReceipt(p) ==
  /\ \/ /\ receipt[ReceiptOf[p]] = NoFile
        /\ Goto(p, "create_receipt", "write_receipt")
        /\ receipt' = [receipt EXCEPT ![ReceiptOf[p]] = p]
     \/ /\ Goto(p, "create_receipt", "create_recovery")
        /\ UNCHANGED receipt
  /\ UNCHANGED <<outcome, pinVars, backend, fileVars, readVars, linked, whole, recovery>>

\* Fault: a failed write of the receipt goes unnoticed.
WriteReceiptUnnoticed(p) ==
  /\ Goto(p, "write_receipt", "sync_receipt")
  /\ whole' \in {whole, whole \union {ReceiptOf[p]}}
  /\ UNCHANGED <<outcome, pinVars, backend, fileVars, readVars, linked, receipt, recovery>>

\* write_all of the document and of the final newline, or of a part of it.
WriteReceipt(p) ==
  /\ \/ /\ Goto(p, "write_receipt", "sync_receipt")
        /\ whole' = whole \union {ReceiptOf[p]}
     \/ /\ Goto(p, "write_receipt", "create_recovery")
        /\ UNCHANGED whole
  /\ UNCHANGED <<outcome, pinVars, backend, fileVars, readVars, linked, receipt, recovery>>

\* sync_all.  When it fails, the document that was written is there to be read
\* all the same, and a recovery receipt is written beside it.
SyncReceipt(p) ==
  /\ \/ Fail(p, "sync_receipt", "done", "ok")
     \/ Goto(p, "sync_receipt", "create_recovery") /\ UNCHANGED outcome
  /\ UNCHANGED <<pinVars, backend, fileVars, readVars, linked, receiptVars>>

\* The same beside the output, under a name made from the receipt's own id.
CreateRecovery(p) ==
  /\ \/ /\ Goto(p, "create_recovery", "write_recovery")
        /\ recovery' = [recovery EXCEPT ![p] = "partial"]
        /\ UNCHANGED outcome
     \/ /\ Fail(p, "create_recovery", "done", "ReceiptRecoveryFailed")
        /\ UNCHANGED recovery
  /\ UNCHANGED <<pinVars, backend, fileVars, readVars, linked, receipt, whole>>

WriteRecovery(p) ==
  /\ \/ /\ Goto(p, "write_recovery", "sync_recovery")
        /\ recovery' = [recovery EXCEPT ![p] = "whole"]
        /\ UNCHANGED outcome
     \/ /\ Fail(p, "write_recovery", "done", "ReceiptRecoveryFailed")
        /\ UNCHANGED recovery
  /\ UNCHANGED <<pinVars, backend, fileVars, readVars, linked, receipt, whole>>

SyncRecovery(p) ==
  /\ \E e \in {"ReceiptRecoveryRequired", "ReceiptRecoveryFailed"} :
       Fail(p, "sync_recovery", "done", e)
  /\ UNCHANGED <<pinVars, backend, fileVars, readVars, linked, receiptVars>>

-----------------------------------------------------------------------------
(* The surroundings.                                                       *)

\* The process is killed: nothing is cleaned up, and the backend lives on.
Crash(p) ==
  /\ p \in CrashProne
  /\ pc[p] \notin {"idle", "done", "crashed"}
  /\ pc' = [pc EXCEPT ![p] = "crashed"]
  /\ UNCHANGED <<outcome, pinVars, backend, fileVars, readVars, linked, receiptVars>>

\* An input is edited, or a backend upgraded.
Drift(pin) ==
  /\ drifted' = drifted \union {pin}
  /\ UNCHANGED <<pc, outcome, checked, startDrift, backend, fileVars, readVars, linked,
                 receiptVars>>

\* Another program creates a destination, or a file at a requested receipt path.
OccupyOutput(o) ==
  /\ out[o] = NoFile
  /\ out' = [out EXCEPT ![o] = Foreign]
  /\ UNCHANGED <<pc, outcome, pinVars, backend, data, tmp, readVars, linked, receiptVars>>

OccupyReceipt(r) ==
  /\ receipt[r] = NoFile
  /\ receipt' = [receipt EXCEPT ![r] = Foreign]
  /\ UNCHANGED <<pc, outcome, pinVars, backend, fileVars, readVars, linked, whole, recovery>>

\* The steps that end by themselves, and those that wait for something nobody
\* bounds: a version query, the backend's pipes, or a read of the output, by
\* ffprobe or by an ffmpeg that runs without any of the backend's limits.
Bounded(p) ==
  \/ PreflightReceipt(p) \/ ReadPlan(p) \/ CheckOutput(p) \/ CheckTemporary(p)
  \/ Spawn(p) \/ Reap(p) \/ Stop(p) \/ Abandon(p) \/ Judge(p) \/ Cleanup(p)
  \/ Link(p) \/ Unlink(p) \/ CreateReceipt(p) \/ WriteReceipt(p) \/ SyncReceipt(p)
  \/ CreateRecovery(p) \/ WriteRecovery(p) \/ SyncRecovery(p)
Unbounded(p) ==
  \/ Revalidate(p) \/ Join(p) \/ Hash(p) \/ Probe(p) \/ Measure(p)
  \/ VerificationError(p)
Invocation(p) == Bounded(p) \/ Unbounded(p)

Backend(p) == BackendOpen(p) \/ BackendFinish(p) \/ BackendFail(p)

Surroundings ==
  \/ \E p \in Invocations : Crash(p)
  \/ \E pin \in 1 .. Pins : Drift(pin)
  \/ \E o \in SharedOutputs : OccupyOutput(o)
  \/ \E r \in ReceiptPaths \ StorePaths : OccupyReceipt(r)

Next ==
  \/ \E p \in Invocations : Invocation(p) \/ Backend(p)
  \/ Surroundings

Spec == Init /\ [][Next]_vars

\* An invocation that is not killed keeps running: none of its steps waits for
\* another invocation, and once max_runtime_ms is over the loop stops a backend
\* that does not exit.  What has no bound in the code gets no fairness, nor do
\* backends and surroundings.
FairSpec == Spec /\ \A p \in Invocations : WF_vars(Bounded(p))

\* Retries one after the other: an invocation starts once all others ended.
\* Backends of killed invocations may still be running.
Alone(p) == \A q \in Invocations \ {p} : pc[q] \in {"idle", "done", "crashed"}

SequentialNext ==
  \/ \E p \in Invocations :
       \/ (pc[p] = "idle" => Alone(p)) /\ Invocation(p)
       \/ Backend(p)
  \/ Surroundings

SequentialSpec == Init /\ [][SequentialNext]_vars

-----------------------------------------------------------------------------
(* Correctness.                                                            *)

\* No two invocations execute the same plan, so none share a temporary file.
DistinctPlans == \A p, q \in Invocations : PlanOf[p] = PlanOf[q] => p = q

\* Published bytes are verified bytes: the file an invocation linked is, now
\* and ever after, the finished version that it hashed and probed, and it kept
\* the plan's contract (publish_no_clobber after verify_output, by path).
VerifiedPublication ==
  \A p \in Invocations : linked[p] # NoFile =>
    /\ hashed[p] = <<linked[p], data[linked[p]]>>
    /\ probed[p] = hashed[p]
    /\ data[linked[p]] = "good"

\* The same, of destinations: nothing unfinished or off contract has its name.
OnlyGoodFilesPublished ==
  \A o \in Outputs : out[o] \in Invocations => data[out[o]] = "good"

\* A receipt tells the truth: once its document is complete, at the requested
\* or the recovery path, the destination names the file whose digest it holds.
HasReceipt(p) ==
  recovery[p] = "whole" \/ (ReceiptOf[p] \in whole /\ receipt[ReceiptOf[p]] = p)

ReceiptMatchesDestination ==
  \A p \in Invocations : HasReceipt(p) =>
    /\ out[Dest(p)] # NoFile
    /\ hashed[p] = <<out[Dest(p)], "good">>

\* What an invocation reports is what it left behind: success means its file
\* at the destination and its complete receipt at the requested path; a demand
\* for recovery means its file at the destination and the recovery receipt; the
\* loss of both means its file at the destination, with or without a receipt
\* that could not be synced; any other error means it published nothing.
OutcomeIsTrue ==
  \A p \in Invocations : pc[p] = "done" =>
    /\ outcome[p] \in {"ok", "ReceiptRecoveryRequired", "ReceiptRecoveryFailed"} <=>
         linked[p] # NoFile
    /\ linked[p] # NoFile => out[Dest(p)] = linked[p]
    /\ outcome[p] = "ok" => ReceiptOf[p] \in whole /\ receipt[ReceiptOf[p]] = p
    /\ outcome[p] = "ReceiptRecoveryRequired" => recovery[p] = "whole"

\* A temporary file that blocks later applies of its plan belongs to an
\* invocation still at work on it, or is left over for one of four causes: the
\* invocation was killed, its backend could not be signalled, the hard link
\* failed, or the file could not be removed.  The third is a defect of the
\* code, which FailedApplyCleansUp states; this property says there is no
\* fifth.
AtWork == {"running", "join", "hash", "probe", "measure", "judge", "link", "unlink",
           "cleanup"}

LeftoverHasCause ==
  \A plan \in Plans : tmp[plan] # NoFile =>
    LET p == tmp[plan] IN
    \/ pc[p] \in AtWork \union {"crashed"}
    \/ p \in Unkillable
    \/ outcome[p] = "PublishFailed"
    \/ plan \in Unremovable

\* What CONTRIBUTING.md says of an apply that fails or is cancelled: it cleans
\* up its temporary output.
FailedApplyCleansUp ==
  \A p \in Invocations : pc[p] = "done" /\ linked[p] = NoFile => Temporary(p) # p

\* An input or backend that no longer matched its plan when the invocation
\* began is noticed: no backend is ever started.
DriftIsRefused ==
  \A p \in Invocations : backend[p] # "none" => startDrift[p] = {}

\* A destination never changes what it names once it names something.
NeverClobbers ==
  [][\A o \in Outputs : out[o] # NoFile => out'[o] = out[o]]_vars

\* A receipt path never changes hands, and a complete receipt stays complete.
ReceiptsAreKept ==
  [][/\ \A r \in ReceiptPaths : receipt[r] # NoFile => receipt'[r] = receipt[r]
     /\ whole \subseteq whole'
     /\ \A p \in Invocations : recovery[p] = "whole" => recovery'[p] = "whole"]_vars

\* The abstract promise.  An artifact is accepted by its last read.
Accepted(p) ==
  /\ hashed[p] = <<p, "good">>
  /\ probed[p] = <<p, "good">>
  /\ PlanOf[p] \in LoudnessPlans => measured[p] = <<p, "good">>

Abstract == INSTANCE Publication WITH
  Target <- [p \in Invocations |-> Dest(p)],
  dest <- out,
  verified <- {p \in Invocations : Accepted(p)},
  attested <- {p \in Invocations : HasReceipt(p)}

ImplementsPublication == Abstract!PubSpec

\* An invocation ends, even when its backend hangs, if every unbounded wait of
\* its own does: no backend keeps it in execute_backend's loop, and no step of
\* its verification, publication or recovery leads back.
EveryInvocationEnds ==
  \A p \in Invocations :
    WF_vars(Unbounded(p)) => <>(pc[p] \in {"done", "crashed"})
=============================================================================
