# Verification of AVPact

TLA+ models, model-checking runs and proofs for AVPact, a command-line program
that plans a media operation, applies it with FFmpeg, verifies the result and
publishes it with a receipt. Source paths below are relative to the directory
that holds `src/`, the repository.

## 1. Inventory

AVPact is a synchronous Rust program. One command is one process; `apply` adds
two reader threads, a Ctrl-C handler thread and one FFmpeg process group.
Nothing is locked: concurrent invocations meet only in the file system, through
paths. That is where its correctness is decided.

| Component | State it keeps | Operations | Hard parts | What makes it correct |
|---|---|---|---|---|
| **Apply** (`src/src/apply.rs` 125-309, 554-599, 974-1067) | temporary file, destination, receipt files, all by path | preflight, revalidate, run backend, verify, hard-link, unlink, persist receipt, recover | overlapping invocations, checks by path used later, kill at any point, failed writes, leftovers | only verified bytes published; nothing overwritten; receipts and errors tell the truth |
| **Backend supervision** (`apply.rs` 601-906) | child, two pipes, channel, cancellation flag, clock | spawn, poll limits, receive progress, reap, terminate group, join readers | four concurrent actors, races between exit, progress and cancellation, pipe back-pressure, helpers | a verdict with its cause, after the backend's end, always |
| **Verification** (`apply.rs` 319-552, 912-964) | none | hash, probe, measure loudness, compare | three separate reads of one path | all reads saw one version; planned checks are performed |
| **Receipt documents** (`apply.rs` 1069-1270, `receipt show`) | receipt store | name, validate, read | wall clock, document limits | what was written is accepted when read |
| **Plan compiler** (`src/src/plan.rs` 365-522, 1158-2314, 2403-2995) | none | resolve, inspect inputs, select streams, build argv, expectations, warnings | many operations, agreement of parts | its plans validate; every dropped stream has a warning |
| **Plan reading** (`plan.rs` 524-1156) | none | bounded read, parse, recompile, compare | must accept exactly what the compiler writes | a changed plan is refused |
| **Geometry, estimates** (`plan.rs` 2316-2439) | none | fit, round to even, estimate bytes | zero, overflow, rounding | within the box, even, no overflow |
| **Inspection** (`src/src/inspect.rs`) | none | identify (size, SHA-256), ffprobe, normalise numbers | two reads by path; decimal times | identity of the bytes that are used |
| **Capabilities, CLI, schemas, errors, hex** | none | listing, dispatch, formatting | none over time | - |

How they interact: the CLI calls the plan compiler, which inspects the inputs
and writes a plan file once. `apply` reads and validates that file, inspects the
inputs again, lets the supervisor run the plan's argument vector into
`.<name>.<plan id>.tmp.<ext>` beside the destination, verifies that path through
inspection, links it to the destination and writes a receipt. Progress travels
from FFmpeg's stdout through a reader thread and a channel to the main thread;
Ctrl-C sets an atomic flag that only the supervisor's loop reads.

The hazards, one by one with their lines, are in `PROJECT.json`.

## 2. Modules

| Module | Models | Status |
|---|---|---|
| `Apply` | any number of `avpact apply` invocations on one file system | done |
| `Publication` | abstract specification: what they promise about destinations | done |
| `MCApply` | the small instances of `Apply` | done |
| `ApplyProofs` | theorems about `Apply`: types, drift, no overwriting, verified publication (distinct plans, or one plan retried), reports, receipts, leftovers, refinement of `Publication` | done |
| `Supervisor` | `execute_backend`, reader threads, process group | done |
| `SupervisorProofs` | theorems about `Supervisor`: types, reaped leader, true verdicts, complete diagnostics | done |
| `Readers`, `MCReaders` | the two reader threads, byte by byte | done |
| `ReadersProofs` | theorems about `Readers`: lines, events and the tail are what ffmpeg wrote | done |
| `Positions` | picking elements of a sequence by position; sums | done |
| `PositionsProofs` | lemmas about `Positions`, by minimal counterexample | done |
| `Geometry` | frame sizes, resource estimates, decimal notations of `plan.rs` and `inspect.rs` | done |
| `PlanModel` | what the compiler and the validator share: selection, expectations, checks, argument vectors, identity, recipe rules, capabilities | done |
| `Compiler` | `compile_*`, `assemble_plan`, `plan_recipe`: the plan or the refusal | done |
| `Validator` | `validate_plan` and the nine `validate_*_plan` | done |
| `Verification` | `verify_output`'s checks, receipts, `validate_receipt` | done |
| `Pipeline`, `MCPipeline` | the commands one after the other over one recipe, with one disturbance | done |
| `PipelineProofs` | theorems about `Pipeline`: codes, repeated verdicts, readable receipts | done |
| `PlanProofs` | theorems about `Geometry`, for every width of the integers, and about `Pipeline`: compiler and validator agree, the arithmetic of a plan, recorded drops | done |
| `AcceptanceProofs` | theorems about `Pipeline`: what an accepted plan is, what a published file is | done |
| `RenderingProofs` | theorems about `Pipeline`: what a plan's arguments make is what the plan expects | done |

Two compositions: `Apply` with `Supervisor` under it (many invocations, files and
processes; documents are opaque), and `Pipeline`, which extends `Compiler`,
`Validator` and `Verification` (one user, documents in detail). They meet in
`validate_plan` and `verify_output`, whose verdicts `Apply` leaves open and
`Pipeline` computes.

### Apply.tla and the code

A file is named by the invocation whose backend created its inode, so `tmp`,
`out` and `receipt` map paths to inodes, and a *version* is an inode with the
state of its bytes: `partial` (being written), `good`, `bad` (breaks what ffprobe
sees), `loud` (breaks only what the loudness measurement sees). This keeps what
the code depends on: every step after the backend opens a **path**, and may find
another inode or another version there than the step before it.

| Action | Code |
|---|---|
| `PreflightReceipt` | `preflight_receipt_path`, or `ensure_receipt_store` when the receipt goes to the store (`StorePaths`) |
| `ReadPlan` | `read_plan` and `validate_plan`: a verdict |
| `CheckOutput`, `CheckTemporary` | `preflight_output`: two `exists()` calls and the disk space, two steps because another process may act between them |
| `Revalidate` | one pinned identity at a time: each input, ffprobe, ffmpeg; an identity that cannot be read counts as drifted |
| `Spawn`, `BackendOpen`, `BackendFinish`, `BackendFail` | the backend; `ffmpeg -n` refuses an existing file |
| `Reap`, `Stop`, `Abandon`, `Join` | the ways out of `execute_backend`'s loop, the errors that skip the joins, and the joins of the reader threads; `Supervisor` has the detail |
| `Hash`, `Probe`, `Measure`, `VerificationError`, `Judge` | `verify_output`: the three reads and the verdict |
| `Cleanup` | `remove_generated_temporary`, before any error from the backend or the verification is returned; its own failure is ignored, as in the code |
| `Link`, `Unlink` | `publish_no_clobber` |
| `CreateReceipt`, `WriteReceipt`, `SyncReceipt`, `CreateRecovery`, `WriteRecovery`, `SyncRecovery` | `persist_receipt_with_recovery`: `create_new`, then the bytes, then the sync, each of which may fail; a failed sync leaves the whole document readable although it counts as a failure |
| `Crash`, `Drift`, `OccupyOutput`, `OccupyReceipt` | a killed process, changed inputs or backends, other programs |

`startDrift` is a history variable; nothing in `Next` reads it. A `Crash` leaves
everything as it is, the running backend included: it has its own process group.

### Supervisor.tla and the code

`pc` is the main thread's place in `execute_backend` and
`terminate_process_tree`: `poll` (cancellation, runtime, size, in that order),
`wait` (`try_wait`), `recv` (`recv_timeout`), `sigterm` and `grace`, `drain`,
`join_out`, `join_err`. The stdout pipe holds progress blocks, numbered, the last
of which says `progress=end`; the stderr pipe holds chunks. Both are bounded, so
a writer may block. A pipe ends when no process is left that holds it. The
backend may start a helper; constants say whether it inherited the pipes and
whether it exits. The three copies of "terminate, join both, return" share the
states from `sigterm` on. `SystemRefuses` is the early return when a kill or a
wait is refused. A failure of reading stdout, `OutFails`, travels through the
channel and is handled in the loop and, without joining, in the drain. A failure of
reading stderr, `ErrFails`, ends `read_bounded_tail` as the end of the pipe does, and
is told to nobody; `collected` counts the chunks that the diagnostic is taken from.

The interface between the two modules is what `Apply.Reap`, `Apply.Stop` and
`Apply.Abandon` assume: `ReturnMeansExited`, checked in `Supervisor`; its exception
is `Unkillable` in `Apply`.

### Geometry.tla, PlanModel.tla, Compiler.tla, Validator.tla and the code

All operators are pure functions and keep the source's names where there is one
(`fit_dimensions`, `select_default_stream`, `validate_clip_plan`, ...). `u32` and
`u64` are `0..MaxU32` and `0..MaxU64`; the rates, class thresholds and document
limits are constants as well, about which only `WidthAssumption`,
`RateAssumption` and `ThresholdAssumption` are known (all widths are natural
numbers, u64 holds the product of two u32, a join may have two segments and each
segment two warnings). A document has the fields and the types that parsing it
yields (`Recipe`, `InspectionReport`, `StreamSummary`); nothing more is assumed of
the media and recipes of an instance (`MediaAssumption`, `CaseAssumption`), save
that ffprobe numbers the streams of a file and has a version, that a canonical path
names one file however a recipe spells it, and that no input has the content of a
rendering or of a replacement (a backend that reproduces one of its inputs bit by
bit fails `distinct_from_inputs`, as it should). `AbsenceAssumption` and
`RenderedAssumption` say that `None` is no expectation, argument or stream. Rust's filters and
searches over slices pick elements by their positions (`Chosen`, `FirstAt` of
`Positions`), not by recursion, so that what they pick can be reasoned about.

- A *medium* is what inspection reports: path, size, digest, duration, ffprobe's
  version and the streams, each with its index, kind, disposition, sides, rate and
  channels. Source indices count from 1 instead of 0.
- A *plan* is a record with the fields of `Plan`. The digest behind its id is a
  tuple of what `PlanIdentityMaterial` lists, so two plans have one id exactly if
  they agree in all of that. `recipe_digest` stands for both digests of the recipe.
- An *argument vector* is a record of what it asks for: inputs, seek and length as
  numerals (a whole part and its digits), maps, filter with the frame it makes,
  encoders, number of frames, muxer, output. The fixed quality options are left out.
- A warning keeps its code and the streams it names; `MAX_WARNING_CHARACTERS`
  becomes `MaxNamed` names.
- `CompileRefusal` has the error returns of the `compile_*` functions in their
  order, `Compile` their results. `plan_refusal` has those of `plan_recipe`. A
  division by zero is the code `panic`: known sides need not be positive
  (`stream_dimensions`), so planning a fitted resize, a thumbnail or a contact sheet of
  a stream with sides of zero aborts the process (`plan.rs` 2391, 1890). `pipeline` has
  such inputs.
- The validator is a predicate, since every refusal of it is `plan_invalid`. It is
  written from its own source, not from the compiler's: that the two agree is
  `InvalidPlanHasCause` and `AcceptedIsRecompiled`.

### Verification.tla, Pipeline.tla and the code

`PerformedChecks` is the list of `verify_output`, in its order; `Receipt` and
`validate_receipt` are those of `apply.rs`.

| Action | Code |
|---|---|
| `PlanRefused`, `PlanWritten`, `PlanCutShort` | `main.rs`'s `plan`: `plan_recipe`, then `write_new_plan` |
| `ApplyRefused`, `ApplyStarts` | `read_plan`, `validate_plan`, `preflight_output`, the revalidation, in that order; then the first clock reading |
| `BackendRenders`, `BackendDeviates`, `BackendFails` | ffmpeg (external): the file the arguments ask for, one that differs in a single attribute, or none |
| `LimitExceeded` | the polled size limit, which may or may not see the file in time |
| `ApplyFails`, `ApplySucceeds` | `verify_output`, then removal, or publication, the second clock reading and the receipt |
| `Verify`, `ShowReceipt` | `main.rs`'s `verify` (exit code 2 is `failed_checks`) and `receipt show` |
| `EditPlan`, `ReplaceInput`, `ReplaceTools`, `ReplaceOutput` | other programs, between the commands; an input is replaced under every name that a recipe has for it |

`exit` is the command that ended last and its code (`AvpactError::code`).
`disturbance` is a history variable that also limits a behaviour to one
disturbance; `EditPlan` either leaves the id of the edited document or computes
it anew (`Resealed`). A rendering starts and ends with the inputs that were
revalidated: inputs that change in between are `Apply`'s.

`Encodable` says what the encoders accept: an odd or empty frame is refused by
libx264 with 4:2:0, so a transcode of such a source fails as `backend_failed`. So
does a seek past the last picture.

Two constants hold what a medium has and the plan compiler does not look at.
`Shorter` says which streams end before their file does, and when; a rendering ends
with the last stream it takes (`End`), as ffmpeg's does, while the plan expects the
container's duration. `Turned` says which pictures are to be displayed by a quarter
turn; ffmpeg turns them before it filters them (`Upright`), while the plan expects
the stored sides. `Foreseen` says that neither concerns an argument vector. Where one
does, a backend that obeys is refused by `verify_output`.

The identity check of `apply` looks at the inputs one after the other
(`InputRefusal`), so the first bad one decides the code. `Codes` has the codes that
an action of this module can end with; left out are those for what is not modelled
(paths that cannot be resolved, executables that cannot be started, I/O errors).

### Readers.tla and the code

`text` is what ffmpeg has written, in tokens: a newline, a carriage return, a key
with its equals sign, or a byte of a value (`Bytes`; in the proofs any set
without the newline). A read returns any non-empty part of
what is there, so lines come in all possible pieces. `TakePiece`, `TakeLine` and
`LastLine` are the three ways through the loop of `read_bounded_line`;
`HandleLine` is the rest of the thread; `ReadTail` is `read_bounded_tail`.

## 3. Runs

| Run | Instance | Shows |
|---|---|---|
| `apply_rivals` | 2 plans, 1 destination, 3 pins, one explicit and one stored receipt, crashes, one unkillable backend, one temporary file that resists removal | `TypeOK`, `VerifiedPublication`, `LeftoverHasCause`, `DriftIsRefused`, `NeverClobbers`, `ImplementsPublication` |
| `apply_receipts` | 2 plans, 2 destinations, 1 receipt path for both, one crash, fairness | `ReceiptMatchesDestination`, `OutcomeIsTrue`, `ReceiptsAreKept`, `EveryInvocationEnds` |
| `apply_retries` | 1 plan, 3 invocations one after the other, crashes that leave a backend behind | `VerifiedPublication` |
| `apply_same_plan` | 1 plan, 3 overlapping invocations, no crash | `OnlyGoodFilesPublished` fails |
| `apply_leftover` | 2 plans, 1 destination, no crash, every removal succeeds | `FailedApplyCleansUp` fails |
| `supervisor_stops` | 2 blocks, 2 chunks, pipes of size 1, a helper holding them, errors reading either, fairness | `TypeOK`, `ReturnMeansExited`, `VerdictIsTrue`, `DiagnosticIsComplete`, `StopIsHonoured`, `WorkingBackendReturns` |
| `supervisor_finished` | 2 blocks, no helper | `FinishedIsReported` fails |
| `supervisor_tree` | a helper that survives SIGTERM and holds no pipe | `CancellationEndsTree` fails |
| `supervisor_budget` | a helper that holds the pipes and stays | `StopIsHonoured` fails |
| `pipeline` | 170 recipes with installations: nine operations, twenty media, every boundary of every parameter, one disturbance | thirteen invariants and an action property, below |
| `pipeline_clock` | one recipe, a clock that may be set back | `ReceiptShowable` fails |
| `readers` | two lines of seven kinds and an unfinished one, lines of 3 bytes, a tail of 4, reads of up to 6 | `LinesAreAsWritten`, `BlocksStandAlone`, `TailIsTheEnd`, `DrainsThePipe` |

The properties of `pipeline`, by the question they answer:

- *Do the compiler and the validator agree?* `InvalidPlanHasCause` (a plan that
  nobody touched is never called invalid), `EditsAreRefused` (no edit goes
  unnoticed while the id stays), `AcceptedIsRecompiled` (an accepted plan is the
  compiler's for its own operation and inputs, even with a recomputed id. A
  normalisation may aim at a hundredth of a LUFS, which no recipe can name:
  `NormalizeTo` of that target. A clip may cut other streams, into another container
  or with another tolerance, because `validate_clip_plan` takes these from the plan;
  the rest is `ClipOf` of them).
- *Do the expectations fit the arguments?* `VerificationFailureHasCause` (a
  backend that obeys is blamed only where the inspection of an input leaves out what
  the plan needs to know: `~Foreseen`), `PublishedFulfilsRecipe` (whatever the
  backend does, what is published is what the recipe asked for: container, codecs,
  streams, sides, length, loudness, bytes, frame rate, channels),
  `PlannedChecksArePerformed`, `PublishedVerifiesAgain`.
- *Do the documents stay within their limits?* `DropsAreRecorded`,
  `ReceiptShowable`.
- *Is the arithmetic right at the boundaries?* `FitsInTheBox`, `EstimateIsEnough`
  (both estimates cover what they are made from unless they reach the width of the
  integers), `SeekTextIsExact`.
- *Does each command answer as it should?* `TypeOK` (codes of its own),
  `CapabilityReportIsEnough` (what the report supports, planning does not refuse
  for a missing encoder or filter; the converse does not hold: the report demands
  `scale` for a resize and planning does not).

**Bounds.** Two invocations are enough for every pairwise race on a destination,
a temporary path or a receipt path; the same-plan defect needs three (one that
verifies, one that removes, one that creates), and retries use three so that a
retry of a retry happens. Three pins distinguish the input, ffprobe and ffmpeg
steps, with drift between any two. Pipes of size one with two items each make a
writer block in the middle. Every counter is bounded by these constants
(`Pins`, `Blocks`, `Diagnostics`, `PipeSize`); no run uses a state constraint.
`Pipeline` scales the numbers of the source down and keeps their relations:
`MaxU32 = 127` and `MaxU64 = 50000` so that estimates saturate, limits of six
warnings and two names so that both are exceeded, thresholds so that all three
resource classes and both budget refusals happen; its media have odd, flat, tall,
unknown and missing sizes, several default streams, no audio, no duration, no
disposition, streams that end early (one of them, or all that are taken), and a
picture displayed by a quarter turn. One disturbance per behaviour is enough for a property about who is
to blame; the combinations are bounded away. `Readers` has lines that fit the bound
exactly, exceed it by one and by more, with a carriage return on either side of it.
Invocations are not symmetric in most runs, so no symmetry is declared.
Deadlock is not checked where the systems really stop: when every invocation is
done, when `execute_backend` has returned, when a reader thread has ended.
`Pipeline` never stops, and there deadlock is checked.

**Fairness.** `Apply!FairSpec`: an invocation that is not killed takes its next
step if that step ends by itself (`Bounded`). No step waits for another invocation,
and the runtime limit takes a backend that does not exit out of the loop (`Stop`,
whose detail is `Supervisor`'s). The steps that wait for something nobody bounds get
no fairness (`Unbounded`): the version queries and the hashing of the inputs, the
joins of the reader threads (`apply.rs` 666, 753), and the reads of verification,
among them an ffprobe and an ffmpeg without limits (918-931). `EveryInvocationEnds`
has fairness of these as its premise, invocation by invocation. `supervisor_budget`
shows that the premise can fail for the joins. Backends and the surroundings get no
fairness.
`Supervisor!FairSpec`: the threads run, time passes in the grace period, and
`WF(leader # "running" /\ HelperExits)`: a helper does not outlive its leader for
ever. The code does not enforce the last one, and `supervisor_budget` shows what
happens without it. The backend itself may hang; only `WorkingBackendReturns`
assumes that it works, inside the property.
`Readers!Fairness`: a reader thread that can take a step does, as a thread blocked
only on its pipe; the backend need not write or close.
`Pipeline` has no liveness: commands are started by a user.

**Faults.** Above several actions stands a variant whose comment begins with
"Fault:": the action with a plausible bug, used to see that a property notices it.
No specification refers to them.

### What the failing runs say

1. `apply_same_plan`. The temporary path depends only on the plan. An invocation
   whose backend is refused (`ffmpeg -n`) removes that path although the file is
   another's; a third invocation passes preflight and creates it anew; the first
   one, already verified, links the unfinished file to the destination. It takes
   the overlap of three applies of one plan. With distinct plans it cannot happen
   (`OnlyGoodIsPublished`), nor with retries one after the other
   (`RetriesPublishOnlyGood`).
2. `apply_leftover`. `publish_no_clobber(&plan)?` is the one failure after the
   backend's start that is returned without removing the temporary file. A
   destination taken during the rendering is enough; the file that stays makes
   `preflight_output` refuse every later apply of the plan until someone removes it.
   `CONTRIBUTING.md` says that a failed apply cleans up its temporary output.
   `LeftoverHasCause` lists this cause among four and says that there is no fifth.
3. `supervisor_finished`. The channel is drained before the reader thread is
   joined, so a successful run may report no `finished` event.
4. `supervisor_tree`. The group gets SIGKILL only if its leader outlives the
   grace period.
5. `supervisor_budget`. The runtime budget does not cover the joins.
6. `pipeline_clock`. The two timestamps of a receipt are wall-clock readings, and
   its reader refuses a receipt that ends before it starts. If the clock is set
   back during an apply, the receipt that was reported and stored cannot be shown.

## 4. Proofs

### Applying and publishing

`ApplyProofs` proves, for every finite or infinite set of invocations, plans,
destinations and receipt paths, and every number of pins, under
`ApplyAssumption` alone (what the constants are, that `Foreign` and `NoFile` are
not invocations, and that stored receipts have paths of their own):

| Theorem | Statement | Inductive invariant |
|---|---|---|
| `TypeCorrect` | `Spec => []TypeOK` | itself |
| `DriftRefused` | `Spec => []DriftIsRefused` | `DriftInv` |
| `NothingClobbered` | `Spec => NeverClobbers` | `TypeOK` |
| `PublishedIsVerified` | `DistinctPlans /\ Spec => []VerifiedPublication` | `PubInv` |
| `RetriesPublishVerified` | `SequentialSpec => []VerifiedPublication` | `RetryInv` |
| `OnlyGoodIsPublished` | `DistinctPlans /\ Spec => []OnlyGoodFilesPublished` | `PubInv`, `LinkedInv` |
| `RetriesPublishOnlyGood` | `SequentialSpec => []OnlyGoodFilesPublished` | `RetryInv`, `LinkedInv` |
| `ReportsAreTrue` | `Spec => []OutcomeIsTrue` | `ReceiptInv` |
| `NoReceiptLost` | `Spec => ReceiptsAreKept` | `ReceiptInv` |
| `LeftoversExplained` | `Spec => []LeftoverHasCause` | `LeftoverInv` |
| `ReceiptsAreTrue` | `DistinctPlans /\ Spec => []ReceiptMatchesDestination` | `PubInv`, `ReceiptInv` |
| `RetriedReceiptsAreTrue` | `SequentialSpec => []ReceiptMatchesDestination` | `RetryInv`, `ReceiptInv` |
| `RefinesPublication` | `DistinctPlans /\ Spec => ImplementsPublication` | `PubInv`, `ReceiptInv`, `UnreadInv` |
| `RetriesRefinePublication` | `SequentialSpec => ImplementsPublication` | `RetryInv`, `ReceiptInv`, `UnreadInv` |

The properties are not inductive by themselves; the argument is in the
strengthenings, each of which TLC checked on the instances of the runs before it
was proved.

- `DriftInv`: what has been revalidated had not drifted when the invocation
  began, and a backend exists only after the last identity was revalidated.
- `PubInv` (a `FileInv` and an `OwnFile` per invocation): while an invocation
  verifies, its temporary path names its own file or nothing; once its backend has
  succeeded, nobody writes that file, so hash, probe and loudness saw the one final
  version, and what is linked is that. `FileInv` follows from `PubInv` in every step
  of `Spec` (`FileStep`); `OwnFile` needs an assumption about who else uses the path.
  With `DistinctPlans` nobody does. Without it `OwnFile` fails, and `apply_same_plan`
  shows the consequence.
- `RetryInv` gives `OwnFile` for one plan applied again and again: at most one
  invocation is busy (`Solo`), and from its backend's opening of the file on it holds
  its path (`Holds`). What an invocation that ended or was killed left behind cannot
  take it away: a left-over backend opens only a path that names nothing, and only
  busy invocations remove.
- `LinkedInv`: a destination that names an invocation's file names one which that
  invocation linked.
- `ReceiptInv` (an `AttestInv` per invocation): from `unlink` on, and only then,
  an invocation has linked its file, its destination names that file, and the phase
  says which of its two receipts is complete, save that a receipt whose sync failed
  may be complete beside a reported error.
- `LeftoverInv`: a temporary file has the path of its maker's plan, and its maker
  leaves the supervised phases only through a removal or one of the four causes.
- `UnreadInv`: a step that accepts an artifact is its last read, so `Hash`,
  `Probe` and `Measure` map to `Accept` or to a stutter; `Link` maps to `Bind`,
  completing a receipt to `Attest`, `OccupyOutput` to `Occupy`, all else to a
  stutter.

### The supervisor and the readers

`SupervisorProofs` proves, for every number of blocks and chunks, every pipe size
and every kind of helper, `Spec => []` of `TypeOK`, `ReturnMeansExited`,
`VerdictIsTrue` and `DiagnosticIsComplete` (`TypeCorrect`, `LeaderHasExited`,
`VerdictsAreTrue`, `DiagnosticsAreComplete`). Three facts make them inductive:
past the loop the leader has exited (`LoopEndsWithLeader`); a stderr reader that has
met the end of its pipe has left an empty pipe that nobody will fill
(`ErrReaderEndsLast`); and what was written to stderr has been collected or is in
the pipe (`NothingLost`), unless the reader failed, which is the exception in
`DiagnosticIsComplete`.

`ReadersProofs` proves, for every set of lines, every bound and every way in which
the reads cut the text up (`LineAssumption`, `LimitAssumption`, `NoneAssumption`):

| Theorem | Statement | Inductive invariant |
|---|---|---|
| `TailIsKept` | `Spec => []TailIsTheEnd` | `TailInv` |
| `LinesAreFaithful` | `Spec => []LinesAreAsWritten` | `LinesInv` |
| `EventsStandAlone` | `Spec => []BlocksStandAlone` | `BlocksInv` |

- `TailInv` is `TailIsTheEnd` with types; its step is a fact about sequences: the
  tail of (a tail followed by a chunk) is the tail of the whole.
- `LinesInv`: every newline that was consumed has returned the line it ends, at the
  position that counts the newlines before it (`EndedLines`); the line begun is what
  was consumed since the last newline, cut at the bound (`BegunLine`); and the
  buffer holds the bytes of the text that follow (`Buffered`). Cutting piece by piece
  is cutting once, because what is kept never shrinks.
- `BlocksInv`: as many blocks were sent as lines said `progress`, each with the last
  value of each key since the block before, and the fields are those of the block
  begun. It needs nothing of the text: an ended block is a fact about `lines`.

### Arithmetic

`PlanProofs` proves facts about the pure functions for all their arguments,
from `WidthAssumption` and `RateAssumption`: `FittedFrame` (inside the box,
touching it, even, and the other side as large as the source's shape allows),
`TimesReadBack`, `EstimateCovers`, `TemporaryCovers` (up to the largest estimate
whose six fifths u64 can count). They rest on lemmas about quotients and remainders
(`DivisionBounds`, `Remainder`, `DivisionMonotone`, ...), which the arithmetic
backend does not know.

`PositionsProofs` proves what picking by position yields (`ChosenElements`,
`NthExists`, `FirstPosition`) and the two facts every other induction over data
goes through: `Induction`, stated about a set of numbers instead of a predicate,
and `Recursion`, that a function defined by recursion over `0..n` has its values
step by step.

### Planning and accepting

`PipelineProofs`, `PlanProofs`, `AcceptanceProofs` and `RenderingProofs` prove, for every recipe, medium,
installation, threshold, number of inputs and streams, disturbance and deviation of
the backend, under the assumptions named in section 2:

| Theorem | Statement | Inductive invariant |
|---|---|---|
| `CodesAreTheirOwn` | `Spec => []TypeOK` | `IInv` |
| `VerdictsRepeat` | `Spec => []PublishedVerifiesAgain` | `IInv` |
| `ReceiptsCanBeShown` | `~ClockMaySetBack /\ Spec => []ReceiptShowable` | `IInv` |
| `InvalidPlansHaveACause` | `Spec => []InvalidPlanHasCause` | `PlanInv` |
| `EditsAreNeverApplied` | `Spec => []EditsAreRefused` | `PlanInv` |
| `SeekTextsAreExact` | `Spec => []SeekTextIsExact` | `PlanInv` |
| `FittedFramesFit` | `Spec => []FitsInTheBox` | `PlanInv` |
| `EstimatesAreEnough` | `Spec => []EstimateIsEnough` | `PlanInv` |
| `DropsAreAlwaysRecorded` | `Spec => []DropsAreRecorded` | `PlanInv` |
| `CapabilityReportsSuffice` | `Spec => []CapabilityReportIsEnough` | `PlanInv` |
| `AcceptedPlansAreRecompiled` | `Spec => []AcceptedIsRecompiled` | `DocumentInv` |
| `PlannedChecksAreAllPerformed` | `Spec => []PlannedChecksArePerformed` | `DocumentInv` |
| `PublishedFilesFulfilTheirRecipe` | `Spec => []PublishedFulfilsRecipe` | `JudgedInv` |
| `VerificationFailuresHaveACause` | `Spec => VerificationFailureHasCause` | `BlameInv` |

- `IInv`: the plan under way was accepted and started no later than now
  (`Accepted`); while nothing but a rendering was disturbed it is the plan on disk
  (`Agrees`), and everything published passes again (`Confirmed`); a stored receipt
  is one that its reader accepts (`Showable`). The last follows from `validate_plan`
  having bounded the warnings, from `ReceiptAssumption` (the receipt's and the plan's
  limits on warnings agree) and from the judgement of a file not depending on its
  path (`MovedFile`), which is what lets a receipt repeat under the destination's name
  a report made about the temporary file. `pipeline_clock` shows that
  `~ClockMaySetBack` is needed.
- `PlanInv`: a plan on disk that nobody touched is what `Assemble` made of the recipe
  and of inputs that `plan_recipe` did not refuse (`Compiled`), and the inputs are
  still those unless one was replaced; the plan under way is the one on disk and was
  accepted; a plan edited under its old id is refused. The work is in two lemmas about
  documents. `CompiledValid`: the validator, written from its own source, accepts all
  that the compiler writes, operation by operation. `OneDocument`: the id determines
  the document, because every field is in the identity or recomputed from it.
- `DocumentInv` adds what a resealed document keeps: its shape (`DocumentShape`), that
  is the kinds of its operation's fields and that no division by zero follows from it.
  For such a document, `validate_plan` accepting it means that the compiler writes it
  for the operation it names (`AcceptedPlansAreRecompiled`): that direction needs no
  history, only that both computations are functions of the same inputs. Two parts of a
  document are taken from itself, as the validator does: the loudness target of a
  normalisation, where recipes name whole LUFS and plans hundredths, and the streams,
  the container and the tolerance of a clip. What follows from these is compared all the
  same, through the parts of the compiler that take them as parameters (`NormalizeTo`,
  `ClipOf`).
- `JudgedInv` adds that every published file passed `verify_output` against the plan
  on disk, whose expectations are the compiler's for this recipe. That a passed report
  says what the recipe asks follows per operation, for a join by an induction over the
  segments (`JoinedDuration`).

- `BlameInv` is the converse: what obeys the arguments passes. It adds that one path
  is one file and that only a replacement has a replacement's digest (`FilesDiffer`);
  that an input with the identity which the plan recorded *is* the input the plan was
  made from (`IdentityTells`: path, size and digest are all that `apply` compares);
  hence that a genuine plan under way still has its own inputs (`InputsInPlace`); and
  that the file under way passes every check unless the backend deviated or the
  arguments are not `Foreseen` (`RenderedPasses`). The last rests on `PlanSuits`, one lemma per operation: the
  streams that the arguments map, found again by their indices in the file
  (`StreamFound`), encoded, framed and cut as the arguments say, have the container,
  codecs, sides, frame rate, channels, duration and loudness that the plan expects.
  Times and loudness go through their notations and back (`TimesReadBack`,
  `LoudnessReadsBack`), the cells of a contact sheet through their division
  (`CellsFill`), a frame through `Encodable`, which bounds it by the width of the
  integers. A document edited under its old id never gets that far
  (`EditIsRefused`), so the causes that remain are a deviation, a resealed plan and an
  argument vector that is not `Foreseen`. That exception is the code's: with a stream
  that ends early, or with a picture displayed turned whose frame is kept, an obeying
  backend *is* refused, and `pipeline` has such cases.

Only model-checked: liveness (`EveryInvocationEnds`, `StopIsHonoured`,
`WorkingBackendReturns`, `DrainsThePipe`), which TLAPS cannot reach.

## 5. Not modelled

The Windows and other-platform variants of process termination. Reading recipe
files, parsing JSON, resolving paths against the file system, symbolic links and
directories at the paths involved. Wording, schemas, error formatting,
hexadecimal forms, shell completions, fuzzing and benchmarks: nothing happens over
time in them. The limits on the bytes of a document (16 MiB, 1 MiB). Numbers
parsed from a progress block. The quality options of the argument vectors, and
how well ffmpeg follows them: the backend is what its arguments say, or deviates
in one attribute. `Supervisor` reduces file sizes to "the limit may fire";
`Pipeline` has them. File systems where a hard link or `O_EXCL` is not atomic;
power loss (the published file is not synced; the receipt is). Free disk space is
a refusal of `Apply.CheckTemporary` without a number.

Inputs that change after their own revalidation are rendered unnoticed: the code
cannot detect it and no document promises that it does.

Assumed of what surrounds the code, where the results rest on it:

- `ffmpeg -n` looks for the file and then opens it for writing; `Apply.BackendOpen`
  makes that one step. Two backends of one plan that are started together could both
  pass the look. `VerifiedPublication` in `apply_retries` and the theorems about
  `SequentialSpec` rest on it, through a backend that outlived its killed invocation
  and had not opened its file yet. With distinct plans no two backends have a path in
  common, and the trace of `apply_same_plan` does not need the gap.
- A failed `sync_all` leaves the document readable (`SyncReceipt`); whether it would
  survive a power loss is not modelled.
- A wait for something without a deadline ends, where `EveryInvocationEnds` says so.
- A rendering differs from what its arguments ask for in one attribute, or in none.
  The streams of an input end when `Shorter` says, and its pictures are displayed as
  `Turned` says; other ways in which ffmpeg's reading of a file may differ from
  ffprobe's report (start times, variable frame rates, sample aspect ratios of inputs)
  are not modelled.
- `validate_receipt` checks the lengths of texts and the form of identifiers as well;
  `Verification` leaves them out, since its texts are opaque.
