--------------------------- MODULE PipelineProofs ---------------------------
(***************************************************************************)
(* Proofs about Pipeline.tla, for every recipe, every medium, every        *)
(* installation and every threshold.                                       *)
(*                                                                         *)
(* Two arguments share what is known of an application under way: its plan *)
(* was accepted, and as long as nothing but a rendering was disturbed it   *)
(* is still the plan on disk.  From the first, a receipt is one that its   *)
(* reader accepts; from the second, verifying again gives the verdict that *)
(* publication was based on.                                               *)
(***************************************************************************)
EXTENDS Pipeline, TLAPS

-----------------------------------------------------------------------------
(* Shapes of records, which EXCEPT keeps.                                  *)

FileShape(f) ==
  f = [path |-> f.path, container |-> f.container, duration |-> f.duration,
       bytes |-> f.bytes, streams |-> f.streams, loudness |-> f.loudness, sha |-> f.sha]

Shape ==
  applying /= None =>
    /\ applying = [plan |-> applying.plan, seal |-> applying.seal,
                   started |-> applying.started, file |-> applying.file]
    /\ applying.file /= None => FileShape(applying.file)

\* What the backend makes, by its arguments or not, is a file.
LEMMA RenderedShape == ASSUME NEW argv PROVE FileShape(Rendered(argv))
BY DEF Rendered, FileShape

LEMMA DeviationShape ==
  ASSUME NEW p, NEW file, FileShape(file), NEW other \in Deviations(p, file)
  PROVE  FileShape(other)
BY DEF Deviations, FileShape

\* Where a file lies does not matter to its judgement.
LEMMA MovedFile ==
  ASSUME NEW p, NEW file, NEW path, NEW probe, FileShape(file)
  PROVE  LET moved == [file EXCEPT !.path = path]
         IN  /\ FileShape(moved) /\ moved.path = path /\ moved.sha = file.sha
             /\ VerificationRefusal(p, moved, probe) = VerificationRefusal(p, file, probe)
             /\ verify_output(p, moved).passed = verify_output(p, file).passed
<1> DEFINE moved == [file EXCEPT !.path = path]
<1>1. /\ moved.path = path /\ moved.container = file.container
      /\ moved.duration = file.duration /\ moved.bytes = file.bytes
      /\ moved.streams = file.streams /\ moved.loudness = file.loudness
      /\ moved.sha = file.sha /\ FileShape(moved)
  BY DEF FileShape
<1> HIDE DEF moved
<1>2. \A kind : FirstRendered(moved, kind) = FirstRendered(file, kind)
  BY <1>1 DEF FirstRendered
<1>3. StreamLayout(moved) = StreamLayout(file)
  BY <1>1 DEF StreamLayout, Count
<1>4. \A e : DurationPasses(e, moved) = DurationPasses(e, file)
  BY <1>1 DEF DurationPasses
<1>5. PerformedChecks(p, moved) = PerformedChecks(p, file)
  <2> DEFINE e == p.expected
             first(f) == <<check("parseable", TRUE),
                           check("container", f.container = e.container)>>
             timed(f) == IF e.duration = None THEN <<>>
                         ELSE <<check("duration", DurationPasses(e, f))>>
             seen(f)  == IF e.video = None THEN <<>>
                         ELSE <<check("video", VideoPasses(e.video, FirstRendered(f, "video")))>>
             heard(f) == IF e.audio = None THEN <<>>
                         ELSE <<check("audio", AudioPasses(e.audio, FirstRendered(f, "audio")))>>
                                \o (IF e.audio.loudness = None THEN <<>>
                                    ELSE <<check("integrated_loudness",
                                                 AbsDiff(f.loudness, e.audio.loudness.target)
                                                   <= e.audio.loudness.tolerance)>>)
             last(f)  == <<check("stream_layout", StreamLayout(f) = ExpectedLayout(e)),
                           check("output_size", f.bytes <= p.resources.budgets.output),
                           check("distinct_from_inputs",
                                 \A i \in DOMAIN p.inputs : f.sha /= p.inputs[i].sha)>>
  <2>1. first(moved) = first(file)
    BY <1>1, Zenon
  <2>2. timed(moved) = timed(file)
    BY <1>4, Zenon
  <2>3. seen(moved) = seen(file) /\ heard(moved) = heard(file)
    BY <1>1, <1>2, Zenon
  <2>4. last(moved) = last(file)
    BY <1>1, <1>3, Zenon
  <2>5. \A f : PerformedChecks(p, f) = first(f) \o timed(f) \o seen(f) \o heard(f) \o last(f)
    BY Zenon DEF PerformedChecks
  <2> HIDE DEF first, timed, seen, heard, last
  <2> QED
    BY <2>1, <2>2, <2>3, <2>4, <2>5, Zenon
<1>6. verify_output(p, moved).passed = verify_output(p, file).passed
  BY <1>5 DEF verify_output
<1>7. VerificationRefusal(p, moved, probe) = VerificationRefusal(p, file, probe)
  BY <1>1, <1>2 DEF VerificationRefusal
<1> QED
  BY <1>1, <1>6, <1>7 DEF moved

-----------------------------------------------------------------------------
(* The invariants.                                                         *)

Types == {"clip", "transcode", "resize", "extract_audio", "normalize_audio", "concatenate",
          "thumbnail", "contact_sheet", "burn_subtitles"}
RecipeKnown == recipe.operation.type \in Types

Undisturbed == disturbance \in {"none", "rendering_deviates"}

\* What an application under way was started with.
Accepted ==
  /\ clock \in Nat
  /\ applying /= None =>
       /\ Len(applying.plan.warnings) <= MaxWarnings
       /\ \A i \in DOMAIN applying.plan.warnings :
            Len(applying.plan.warnings[i].streams) <= MaxNamed
       /\ applying.plan.backend.version /= "" /\ applying.plan.backend.libraries /= {}
       /\ applying.started \in Nat
       /\ ~ClockMaySetBack => applying.started <= clock

\* While nothing but a rendering is disturbed, the plan applied is the one on disk.
Agrees ==
  applying /= None /\ Undisturbed => applying.plan = planFile /\ PlanRefusal = None

\* While nothing but a rendering is disturbed, all that is published passes again.
Confirmed ==
  Undisturbed =>
    /\ receipt /= None => published /= {}
    /\ published /= {} => PlanRefusal = None
    /\ \A file \in published : /\ VerificationRefusal(planFile, file, tools.probe) = None
                               /\ verify_output(planFile, file).passed

\* A stored receipt is one that its reader accepts, if the clock only advances.
Showable == ~ClockMaySetBack /\ receipt /= None => validate_receipt(receipt)

IInv == RecipeKnown /\ Shape /\ Accepted /\ Agrees /\ Confirmed /\ PublishedVerifiesAgain
          /\ Showable /\ (~ClockMaySetBack => ReceiptShowable)

LEMMA OperationTypes == ASSUME NEW op \in Operation PROVE op.type \in Types
BY DEF Operation, Types

LEMMA InitHolds == Init => IInv
<1> SUFFICES ASSUME Init PROVE IInv
  OBVIOUS
<1>1. exit.command = None /\ exit.code = None /\ clock = 0 /\ applying = None
      /\ published = {} /\ receipt = None
  BY DEF Init
<1>2. exit.command /= "verify" /\ exit.code /= "receipt_invalid"
  BY <1>1, CodeAssumption DEF Commands, Codes
<1>3. RecipeKnown
  <2>1. recipe.operation \in Operation
    BY CaseAssumption DEF Init, Recipe
  <2> QED
    BY <2>1, OperationTypes DEF RecipeKnown
<1> QED
  BY <1>1, <1>2, <1>3
     DEF IInv, Shape, Accepted, Agrees, Confirmed,
         PublishedVerifiesAgain, Showable, ReceiptShowable

-----------------------------------------------------------------------------
(* Steps that leave what was planned, judged and stored alone.             *)

\* A command that ends with a code of its own and changes nothing else.
LEMMA QuietStep ==
  ASSUME IInv, NEW command, NEW code, Ends(command, code),
         UNCHANGED <<world, planFile, applying, kept, clock, disturbance>>,
         command = "verify" /\ receipt /= None /\ Undisturbed => code = "ok",
         ~ClockMaySetBack => code /= "receipt_invalid"
  PROVE  IInv'
<1>1. /\ planFile' = planFile /\ applying' = applying /\ published' = published
      /\ receipt' = receipt /\ clock' = clock /\ disturbance' = disturbance /\ tools' = tools
      /\ recipe' = recipe
      /\ exit'.command = command /\ exit'.code = code
  BY DEF Ends, world, kept
<1>2. PlanRefusal' = PlanRefusal /\ (Undisturbed' <=> Undisturbed)
  BY <1>1 DEF PlanRefusal, Unreadable, Undisturbed
<1>3. RecipeKnown' /\ Shape' /\ Accepted' /\ Agrees' /\ Showable'
  BY <1>1, <1>2 DEF IInv, RecipeKnown, Shape, FileShape, Accepted, Agrees, Showable
<1>4. Confirmed'
  BY <1>1, <1>2 DEF IInv, Confirmed
<1>5. PublishedVerifiesAgain' /\ (~ClockMaySetBack => ReceiptShowable)'
  BY <1>1 DEF PublishedVerifiesAgain, ReceiptShowable, Undisturbed
<1> QED
  BY <1>3, <1>4, <1>5 DEF IInv

\* An application that ends without publishing.
LEMMA FailedStep ==
  ASSUME IInv, NEW code, ApplyEnds(code), code /= "receipt_invalid",
         UNCHANGED <<world, planFile, kept, clock, disturbance>>
  PROVE  IInv'
<1>1. /\ planFile' = planFile /\ applying' = None /\ published' = published
      /\ receipt' = receipt /\ clock' = clock /\ disturbance' = disturbance /\ tools' = tools
      /\ recipe' = recipe
      /\ exit'.command = "apply" /\ exit'.code = code
  BY DEF ApplyEnds, Ends, world, kept
<1>2. PlanRefusal' = PlanRefusal /\ (Undisturbed' <=> Undisturbed)
  BY <1>1 DEF PlanRefusal, Unreadable, Undisturbed
<1>3. RecipeKnown' /\ Shape' /\ Accepted' /\ Agrees' /\ Showable'
  BY <1>1 DEF IInv, RecipeKnown, Shape, Accepted, Agrees, Showable
<1>4. Confirmed'
  BY <1>1, <1>2 DEF IInv, Confirmed
<1>5. PublishedVerifiesAgain' /\ (~ClockMaySetBack => ReceiptShowable)'
  BY <1>1 DEF PublishedVerifiesAgain, ReceiptShowable
<1> QED
  BY <1>3, <1>4, <1>5 DEF IInv

\* Between the commands something other than a rendering is disturbed.
LEMMA DisturbedStep ==
  ASSUME IInv, ~Undisturbed', applying' = None, receipt' = receipt, clock' = clock,
         recipe' = recipe,
         exit' = exit \/ exit'.code = "plan_write_failed"
  PROVE  IInv'
BY DEF IInv, RecipeKnown, Shape, Accepted, Agrees, Confirmed, PublishedVerifiesAgain,
       Undisturbed, Showable, ReceiptShowable

-----------------------------------------------------------------------------
(* The commands.                                                           *)

LEMMA CompileCodes ==
  ASSUME NEW op, op.type \in Types, NEW inputs
  PROVE  CompileRefusal(op, inputs) \in {"unsupported", "recipe_invalid", "panic", None}
BY DEF CompileRefusal, Types

LEMMA PlanningCodes == RecipeKnown => Planning \in Codes("plan") \union {None}
BY CompileCodes DEF RecipeKnown, Planning, plan_refusal, Codes

LEMMA VerificationCodes ==
  ASSUME NEW p, NEW file, NEW probe
  PROVE  VerificationRefusal(p, file, probe)
           \in {"backend_identity_mismatch", "backend_failed",
                "verification_measurement_failed", None}
BY DEF VerificationRefusal

LEMMA PlanHolds == IInv /\ Plan => IInv'
<1> SUFFICES ASSUME IInv, Plan PROVE IInv'
  OBVIOUS
<1>1. CASE PlanRefused
  <2>1. Planning /= "receipt_invalid"
    BY <1>1, PlanningCodes DEF PlanRefused, Codes, IInv
  <2>2. "plan" /= "verify"
    OBVIOUS
  <2> QED
    BY <1>1, <2>1, <2>2, QuietStep DEF PlanRefused
<1>2. CASE PlanWritten
  <2>1. CASE planFile = None
    <3>1. PlanRefusal /= None
      BY <2>1, CodeAssumption DEF PlanRefusal, Commands, Codes
    <3>2. /\ applying' = applying /\ published' = published /\ receipt' = receipt
          /\ clock' = clock /\ disturbance' = disturbance /\ tools' = tools
          /\ exit'.command = "plan" /\ exit'.code = "ok" /\ applying = None
          /\ recipe' = recipe
      BY <1>2, <2>1 DEF PlanWritten, Ends, world, kept
    <3> QED
      BY <3>1, <3>2 DEF IInv, RecipeKnown, Shape, Accepted, Agrees, Confirmed, PublishedVerifiesAgain,
                        Undisturbed, Showable, ReceiptShowable
  <2>2. CASE planFile /= None
    <3>1. /\ Ends("plan", "plan_write_failed")
          /\ UNCHANGED <<world, planFile, applying, kept, clock, disturbance>>
      BY <1>2, <2>2 DEF PlanWritten
    <3> QED
      BY <3>1, QuietStep
  <2> QED
    BY <2>1, <2>2
<1>3. CASE PlanCutShort
  BY <1>3, DisturbedStep DEF PlanCutShort, Disturbed, Undisturbed, Ends, kept, world
<1> QED
  BY <1>1, <1>2, <1>3 DEF Plan

\* An application starts only with a plan that was accepted, for whose output
\* there is no file yet.
LEMMA StartFacts ==
  ASSUME ApplyStarts
  PROVE  /\ PlanRefusal = None /\ planFile /= None
         /\ Len(planFile.warnings) <= MaxWarnings
         /\ \A i \in DOMAIN planFile.warnings : Len(planFile.warnings[i].streams) <= MaxNamed
         /\ planFile.backend.version /= "" /\ planFile.backend.libraries /= {}
<1>1. ApplyRefusal = None
  BY DEF ApplyStarts
<1>2. PlanRefusal = None
  BY <1>1 DEF ApplyRefusal
<1>3. planFile /= None /\ validate_plan(planFile)
  BY <1>2, CodeAssumption DEF PlanRefusal, Commands, Codes
<1> QED
  BY <1>2, <1>3 DEF validate_plan, ValidHeader

LEMMA StartHolds == IInv /\ ApplyStarts => IInv'
<1> SUFFICES ASSUME IInv, ApplyStarts PROVE IInv'
  OBVIOUS
<1>1. PICK now \in Readings :
        /\ clock' = now
        /\ applying' = [plan |-> planFile, seal |-> disturbance, started |-> now, file |-> None]
  BY DEF ApplyStarts
<1>2. /\ planFile' = planFile /\ published' = published /\ receipt' = receipt
      /\ disturbance' = disturbance /\ tools' = tools /\ exit' = exit /\ recipe' = recipe
  BY DEF ApplyStarts, world, kept
<1>3. now \in Nat
  <2>1. clock \in Nat /\ MaxClock \in Nat
    BY ClockAssumption DEF IInv, Accepted
  <2>2. Readings \subseteq Nat
    <3>1. CASE ClockMaySetBack
      BY <2>1, <3>1 DEF Readings
    <3>2. CASE ~ClockMaySetBack
      BY <2>1, <3>2 DEF Readings
    <3> QED
      BY <3>1, <3>2
  <2> QED
    BY <2>2
<1>4. PlanRefusal' = PlanRefusal /\ (Undisturbed' <=> Undisturbed)
  BY <1>2 DEF PlanRefusal, Unreadable, Undisturbed
<1>5. /\ applying'.plan = planFile /\ applying'.started = now /\ applying'.file = None
      /\ applying' = [plan |-> applying'.plan, seal |-> applying'.seal,
                      started |-> applying'.started, file |-> applying'.file]
  BY <1>1
<1>8. RecipeKnown' /\ Shape' /\ Agrees'
  BY <1>2, <1>4, <1>5, StartFacts DEF IInv, RecipeKnown, Shape, Agrees
<1>9. Accepted'
  <2>1. /\ Len(planFile.warnings) <= MaxWarnings
        /\ \A i \in DOMAIN planFile.warnings : Len(planFile.warnings[i].streams) <= MaxNamed
        /\ planFile.backend.version /= "" /\ planFile.backend.libraries /= {}
    BY StartFacts
  <2>2. clock' \in Nat /\ applying'.started \in Nat /\ applying'.started <= clock'
    BY <1>1, <1>3, <1>5
  <2> QED
    BY <1>5, <2>1, <2>2, Zenon DEF Accepted
<1>6. Confirmed'
  BY <1>2, <1>4 DEF IInv, Confirmed
<1>7. PublishedVerifiesAgain' /\ Showable' /\ (~ClockMaySetBack => ReceiptShowable)'
  BY <1>2 DEF IInv, PublishedVerifiesAgain, Undisturbed, Showable, ReceiptShowable
<1> QED
  BY <1>8, <1>9, <1>6, <1>7 DEF IInv

\* What is published was judged, and a receipt repeats the judgement.
LEMMA SucceedHolds == IInv /\ ApplySucceeds => IInv'
<1> SUFFICES ASSUME IInv, ApplySucceeds PROVE IInv'
  OBVIOUS
<1> DEFINE p      == applying.plan
           file   == applying.file
           report == verify_output(p, file)
           moved  == [file EXCEPT !.path = p.path]
<1>1. /\ applying /= None /\ file /= None
      /\ VerificationRefusal(p, file, tools.probe) = None
      /\ report.passed
      /\ published' = published \union {moved}
      /\ applying' = None /\ exit' = [command |-> "apply", code |-> "ok"]
      /\ planFile' = planFile /\ disturbance' = disturbance
      /\ tools' = tools /\ recipe' = recipe
  BY DEF ApplySucceeds, ApplyEnds, Ends, world
<1>2. PICK now \in Readings :
        clock' = now /\ receipt' = Receipt(p, report, applying.started, now)
  BY DEF ApplySucceeds
<1>3. now \in Nat /\ (~ClockMaySetBack => clock <= now)
  <2>1. clock \in Nat /\ MaxClock \in Nat
    BY ClockAssumption DEF IInv, Accepted
  <2>2. CASE ClockMaySetBack
    BY <2>1, <2>2 DEF Readings
  <2>3. CASE ~ClockMaySetBack
    BY <2>1, <2>3 DEF Readings
  <2> QED
    BY <2>2, <2>3
<1>4. FileShape(file)
  BY <1>1 DEF IInv, Shape
<1>5. /\ FileShape(moved) /\ moved.path = p.path /\ moved.sha = file.sha
      /\ VerificationRefusal(p, moved, tools.probe) = None
      /\ verify_output(p, moved).passed
  <2> HIDE DEF p, file, report
  <2>1. /\ FileShape(moved) /\ moved.path = p.path /\ moved.sha = file.sha
        /\ VerificationRefusal(p, moved, tools.probe) = VerificationRefusal(p, file, tools.probe)
        /\ verify_output(p, moved).passed = verify_output(p, file).passed
    BY <1>4, MovedFile
  <2>2. verify_output(p, file).passed
    BY <1>1 DEF report
  <2> HIDE DEF moved
  <2> QED
    BY <1>1, <2>1, <2>2
<1>6. PlanRefusal' = PlanRefusal /\ (Undisturbed' <=> Undisturbed)
  BY <1>1 DEF PlanRefusal, Unreadable, Undisturbed
<1>7. RecipeKnown' /\ Shape' /\ Agrees' /\ Accepted'
  BY <1>1, <1>2, <1>3 DEF IInv, RecipeKnown, Shape, Agrees, Accepted
<1> HIDE DEF moved
<1>8. Confirmed'
  <2> SUFFICES ASSUME Undisturbed PROVE Confirmed'
    BY <1>6 DEF Confirmed
  <2>1. p = planFile /\ PlanRefusal = None
    BY <1>1 DEF IInv, Agrees
  <2>2. \A other \in published : /\ VerificationRefusal(planFile, other, tools.probe) = None
                                 /\ verify_output(planFile, other).passed
    BY DEF IInv, Confirmed
  <2>3. \A other \in published' : /\ VerificationRefusal(planFile, other, tools.probe) = None
                                  /\ verify_output(planFile, other).passed
    BY <1>1, <1>5, <2>1, <2>2
  <2>4. published' /= {}
    BY <1>1
  <2> QED
    BY <1>1, <1>6, <2>1, <2>3, <2>4 DEF Confirmed
<1>9. Showable'
  <2> SUFFICES ASSUME ~ClockMaySetBack PROVE validate_receipt(receipt')
    BY DEF Showable
  <2> DEFINE judged == [report EXCEPT !.output.path = p.path]
  <2>1. /\ report.plan = p.id /\ report.checks = PerformedChecks(p, file)
        /\ report.output = file /\ report.passed = Passed(report.checks)
    BY DEF verify_output
  <2>2. /\ judged.plan = p.id /\ judged.checks = report.checks
        /\ judged.passed = report.passed /\ judged.output = moved
    BY DEF verify_output, moved
  <2>3. judged.output.path = p.path /\ judged.output.sha = report.output.sha
    BY <1>5, <2>1, <2>2
  <2>4. /\ Len(p.warnings) <= MaxWarnings
        /\ \A i \in DOMAIN p.warnings : Len(p.warnings[i].streams) <= MaxNamed
        /\ p.backend.version /= "" /\ p.backend.libraries /= {}
    BY <1>1 DEF IInv, Accepted
  <2>5. applying.started <= now
    <3>1. applying.started \in Nat /\ clock \in Nat /\ applying.started <= clock
      BY <1>1 DEF IInv, Accepted
    <3>2. clock <= now /\ now \in Nat
      BY <1>3
    <3> QED
      BY <3>1, <3>2
  <2> HIDE DEF p, report, judged
  <2>6. receipt' = [schema |-> ReceiptSchema,
                    id |-> receipt_id(p.id, report.output.sha, now),
                    plan |-> p.id, plan_digest |-> p, started |-> applying.started,
                    completed |-> now, backend |-> p.backend, warnings |-> p.warnings,
                    verification |-> judged, output |-> p.path]
    BY <1>2 DEF Receipt, judged
  <2> QED
    BY <1>1, <2>1, <2>2, <2>3, <2>4, <2>5, <2>6, ReceiptAssumption
       DEF validate_receipt
<1>10. PublishedVerifiesAgain' /\ (~ClockMaySetBack => ReceiptShowable)'
  BY <1>1 DEF PublishedVerifiesAgain, ReceiptShowable
<1> QED
  BY <1>7, <1>8, <1>9, <1>10 DEF IInv

LEMMA ApplyHolds == IInv /\ Apply => IInv'
<1> SUFFICES ASSUME IInv, Apply PROVE IInv'
  OBVIOUS
<1>1. CASE ApplyRefused
  <2>1. ApplyRefusal /= "receipt_invalid"
    BY <1>1, CodeAssumption DEF ApplyRefused, ApplyRefusal, InputRefusal, PlanRefusal
  <2> QED
    BY <1>1, <2>1, QuietStep DEF ApplyRefused
<1>2. CASE LimitExceeded
  BY <1>2, FailedStep DEF LimitExceeded
<1>3. CASE ApplyFails
  <2>1. PICK code : /\ ApplyEnds(code)
                    /\ code \in {VerificationRefusal(applying.plan, applying.file, tools.probe),
                                 "verification_failed"}
    BY <1>3 DEF ApplyFails
  <2>2. CASE code = "verification_failed"
    BY <1>3, <2>1, <2>2, FailedStep DEF ApplyFails
  <2>3. CASE code = VerificationRefusal(applying.plan, applying.file, tools.probe)
    <3>1. code /= "receipt_invalid"
      BY <2>3, VerificationCodes, CodeAssumption DEF Commands, Codes
    <3> QED
      BY <1>3, <2>1, <3>1, FailedStep DEF ApplyFails
  <2> QED
    BY <2>1, <2>2, <2>3
<1> QED
  BY <1>1, <1>2, <1>3, StartHolds, SucceedHolds DEF Apply

LEMMA BackendHolds == IInv /\ Backend => IInv'
<1> SUFFICES ASSUME IInv, Backend PROVE IInv'
  OBVIOUS
<1>1. CASE BackendFails
  BY <1>1, FailedStep DEF BackendFails
<1>2. CASE BackendRenders \/ BackendDeviates
  <2>1. PICK file : FileShape(file) /\ applying' = [applying EXCEPT !.file = file]
    BY <1>2, RenderedShape, DeviationShape DEF BackendRenders, BackendDeviates
  <2>2. /\ applying /= None /\ planFile' = planFile /\ published' = published
        /\ receipt' = receipt /\ clock' = clock /\ tools' = tools /\ recipe' = recipe
        /\ exit' = exit /\ (Undisturbed' => Undisturbed)
    BY <1>2 DEF BackendRenders, BackendDeviates, Disturbed, Undisturbed, world, kept
  <2>3. /\ applying'.plan = applying.plan /\ applying'.started = applying.started
        /\ applying'.file = file
        /\ applying' = [plan |-> applying'.plan, seal |-> applying'.seal,
                        started |-> applying'.started, file |-> applying'.file]
    BY <2>1, <2>2 DEF IInv, Shape
  <2>4. PlanRefusal' = PlanRefusal
    BY <2>2 DEF PlanRefusal, Unreadable
  <2>5. RecipeKnown' /\ Shape' /\ Agrees'
    BY <2>1, <2>2, <2>3, <2>4 DEF IInv, RecipeKnown, Shape, Agrees
  <2>6. Accepted'
    BY <2>2, <2>3 DEF IInv, Accepted
  <2>7. Confirmed'
    BY <2>2, <2>4 DEF IInv, Confirmed
  <2>8. PublishedVerifiesAgain' /\ Showable' /\ (~ClockMaySetBack => ReceiptShowable)'
    BY <2>2 DEF IInv, PublishedVerifiesAgain, Undisturbed, Showable, ReceiptShowable
  <2> QED
    BY <2>5, <2>6, <2>7, <2>8 DEF IInv
<1> QED
  BY <1>1, <1>2 DEF Backend

LEMMA VerifyHolds == IInv /\ Verify => IInv'
<1> SUFFICES ASSUME IInv, Verify PROVE IInv'
  OBVIOUS
<1> DEFINE ending == IF PlanRefusal /= None THEN PlanRefusal ELSE "input_not_found"
<1>1. CASE published = {} /\ Ends("verify", ending)
  <2>1. ~(receipt /= None /\ Undisturbed)
    BY <1>1 DEF IInv, Confirmed
  <2>2. ending /= "receipt_invalid"
    BY DEF PlanRefusal
  <2> QED
    BY <1>1, <2>1, <2>2, QuietStep DEF Verify
<1>2. ASSUME NEW file \in published, Ends("verify", VerifyOutcome(file)) PROVE IInv'
  <2>1. Undisturbed => VerifyOutcome(file) = "ok"
    BY <1>2 DEF IInv, Confirmed, VerifyOutcome
  <2>2. VerifyOutcome(file) /= "receipt_invalid"
    <3>1. VerificationRefusal(planFile, file, tools.probe) /= "receipt_invalid"
      BY VerificationCodes, CodeAssumption DEF Commands, Codes
    <3> QED
      BY <3>1 DEF VerifyOutcome, PlanRefusal
  <2> QED
    BY <1>2, <2>1, <2>2, QuietStep DEF Verify
<1> QED
  BY <1>1, <1>2 DEF Verify

LEMMA ShowHolds == IInv /\ ShowReceipt => IInv'
<1> SUFFICES ASSUME IInv, ShowReceipt PROVE IInv'
  OBVIOUS
<1> DEFINE code == IF validate_receipt(receipt) THEN "ok" ELSE "receipt_invalid"
<1>1. Ends("show", code)
  BY DEF ShowReceipt
<1>2. ~ClockMaySetBack => code = "ok"
  BY DEF ShowReceipt, IInv, Showable
<1> QED
  BY <1>1, <1>2, QuietStep DEF ShowReceipt

LEMMA OthersHold == IInv /\ Others => IInv'
<1> SUFFICES ASSUME IInv, Others PROVE IInv'
  OBVIOUS
<1>1. /\ applying' = None /\ receipt' = receipt /\ clock' = clock /\ recipe' = recipe
      /\ exit' = exit
  BY DEF Others, EditPlan, ReplaceInput, ReplaceTools, ReplaceOutput, world, kept
<1>2. ~Undisturbed'
  BY DEF Others, EditPlan, ReplaceInput, ReplaceTools, ReplaceOutput, Disturbed, Undisturbed
<1> QED
  BY <1>1, <1>2, DisturbedStep

-----------------------------------------------------------------------------
(* Each command ends with a code of its own.                               *)

LEMMA TypeStep == IInv /\ TypeOK /\ [Next]_vars => TypeOK'
<1> SUFFICES ASSUME IInv, TypeOK, [Next]_vars PROVE TypeOK'
  OBVIOUS
<1>1. ASSUME NEW now \in Readings PROVE now \in 0..MaxClock
  BY <1>1, ClockAssumption DEF TypeOK, Readings
<1>2. ASSUME NEW command, NEW code \in Codes(command), Ends(command, code),
             clock' \in 0..MaxClock
      PROVE  TypeOK'
  BY <1>2 DEF Ends, TypeOK
<1>3. PlanRefusal \in {"plan_read_failed", "plan_invalid", None}
  BY DEF PlanRefusal
<1>4. CASE Plan
  <2>1. clock' = clock
    BY <1>4 DEF Plan, PlanRefused, PlanWritten, PlanCutShort
  <2>2. RecipeKnown
    BY DEF IInv
  <2>3. PICK code \in Codes("plan") : Ends("plan", code)
    <3>1. CASE PlanRefused
      BY <2>2, <3>1, PlanningCodes DEF PlanRefused
    <3>2. CASE PlanWritten
      BY <3>2 DEF PlanWritten, Codes
    <3>3. CASE PlanCutShort
      BY <3>3 DEF PlanCutShort, Codes
    <3> QED
      BY <1>4, <3>1, <3>2, <3>3 DEF Plan
  <2> QED
    BY <1>2, <2>1, <2>3 DEF TypeOK
<1>5. CASE ApplyStarts
  BY <1>1, <1>5 DEF ApplyStarts, TypeOK
<1>6. CASE ApplyRefused \/ LimitExceeded \/ ApplyFails \/ ApplySucceeds \/ BackendFails
  <2>1. clock' \in 0..MaxClock
    BY <1>1, <1>6 DEF ApplyRefused, LimitExceeded, ApplyFails, ApplySucceeds, BackendFails, TypeOK
  <2>2. PICK code \in Codes("apply") : Ends("apply", code)
    <3>1. CASE ApplyRefused
      <4>1. ApplyRefusal \in {"plan_read_failed", "plan_invalid", "output_exists",
                              "input_not_found", "input_changed",
                              "backend_identity_mismatch", None}
        BY <1>3 DEF ApplyRefusal, InputRefusal
      <4> QED
        BY <3>1, <4>1 DEF ApplyRefused, Codes
    <3>2. CASE LimitExceeded \/ ApplySucceeds \/ BackendFails
      BY <3>2 DEF LimitExceeded, ApplySucceeds, BackendFails, ApplyEnds, Codes
    <3>3. CASE ApplyFails
      BY <3>3, VerificationCodes DEF ApplyFails, ApplyEnds, Codes
    <3> QED
      BY <1>6, <3>1, <3>2, <3>3
  <2> QED
    BY <1>2, <2>1, <2>2
<1>7. CASE Verify
  <2>1. clock' = clock
    BY <1>7 DEF Verify
  <2>2. \A file : VerifyOutcome(file) \in Codes("verify")
    BY <1>3, VerificationCodes DEF VerifyOutcome, Codes
  <2>3. PICK code \in Codes("verify") : Ends("verify", code)
    BY <1>3, <1>7, <2>2 DEF Verify, Codes
  <2> QED
    BY <1>2, <2>1, <2>3 DEF TypeOK
<1>8. CASE ShowReceipt
  <2>1. clock' = clock
    BY <1>8 DEF ShowReceipt
  <2>2. PICK code \in Codes("show") : Ends("show", code)
    BY <1>8 DEF ShowReceipt, Codes
  <2> QED
    BY <1>2, <2>1, <2>2 DEF TypeOK
<1>9. CASE exit' = exit /\ clock' = clock
  BY <1>9 DEF TypeOK
<1>10. BackendRenders \/ BackendDeviates \/ Others => exit' = exit /\ clock' = clock
  BY DEF BackendRenders, BackendDeviates, Others, EditPlan, ReplaceInput, ReplaceTools,
         ReplaceOutput, kept
<1>11. UNCHANGED vars => exit' = exit /\ clock' = clock
  BY DEF vars
<1> QED
  BY <1>4, <1>5, <1>6, <1>7, <1>8, <1>9, <1>10, <1>11 DEF Next, Apply, Backend

-----------------------------------------------------------------------------
(* The theorems.                                                           *)

\* What the documents, the backend's file and the receipts have in common, in
\* every behaviour of the pipeline.
THEOREM Invariance == Spec => []IInv
<1>1. IInv /\ UNCHANGED vars => IInv'
  BY DEF vars, world, kept, IInv, RecipeKnown, Shape, FileShape, Accepted, Agrees, Confirmed,
         PublishedVerifiesAgain, Undisturbed, Showable, ReceiptShowable, PlanRefusal, Unreadable
<1>2. IInv /\ [Next]_vars => IInv'
  BY <1>1, PlanHolds, ApplyHolds, BackendHolds, VerifyHolds, ShowHolds, OthersHold DEF Next
<1> QED
  BY InitHolds, <1>2, PTL DEF Spec

\* No command ends with an error of another: `plan`, `apply`, `verify` and
\* `receipt show` answer with the codes their users are told to expect.
THEOREM CodesAreTheirOwn == Spec => []TypeOK
<1>1. Init => TypeOK
  BY CodeAssumption, ClockAssumption DEF Init, TypeOK, Commands, Codes
<1> QED
  BY <1>1, TypeStep, Invariance, PTL DEF Spec

\* What apply published, verify confirms, as long as nothing else changes,
\* whatever the recipe, the media and the deviations of the backend.
THEOREM VerdictsRepeat == Spec => []PublishedVerifiesAgain
<1>1. IInv => PublishedVerifiesAgain
  BY DEF IInv
<1> QED
  BY <1>1, Invariance, PTL

\* If the wall clock is never set back, every receipt that apply stored can be
\* shown, whatever the plan, its edits and the disturbances.
THEOREM ReceiptsCanBeShown ==
  ASSUME ~ClockMaySetBack
  PROVE  Spec => []ReceiptShowable
<1>1. IInv => ReceiptShowable
  BY DEF IInv
<1> QED
  BY <1>1, Invariance, PTL
=============================================================================
