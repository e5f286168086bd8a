------------------------------ MODULE Pipeline ------------------------------
(***************************************************************************)
(* The commands of avpact one after the other over one recipe: `plan`      *)
(* writes a plan document, `apply` validates, renders, judges, publishes   *)
(* and records, `verify` judges the published file against the document,   *)
(* `receipt show` reads the record.                                        *)
(*                                                                         *)
(* One disturbance may come between the commands or into a rendering: the  *)
(* document is edited (and perhaps given the identity of its new content), *)
(* an input or a tool is replaced, the plan file is cut short, the backend *)
(* deviates from its arguments, or the published file is replaced.         *)
(* Rival invocations, crashes and unwritable receipts are Apply.tla's.     *)
(***************************************************************************)
EXTENDS Compiler, Validator, Verification

CONSTANTS
  Cases,           \* the recipe documents considered, each with installed tools
  Media,           \* [declared path -> what inspecting it reports, or None]
  Shorter,         \* [<<digest, stream>> -> when it ends], for streams that end before
                   \* the container that they are in
  Turned,          \* <<digest, stream>> of pictures displayed by a quarter turn
  MaxClock,        \* the last reading of the wall clock
  ClockMaySetBack, \* whether the wall clock may be set back
  Partial          \* a plan file cut short

Commands == {"plan", "apply", "verify", "show"}

\* What each command may end with: success or one of the program's error codes.
\* Left out: the codes of failing disks and of absent or unintelligible tools
\* (input_read_failed, output_path_invalid, backend_unavailable and the like), and
\* those of Apply.tla (cancelled, temporary_output_exists, publish_failed, the
\* failures to write a receipt).
Codes(command) ==
  CASE command = "plan" -> {"ok", "recipe_invalid", "input_not_found", "unsupported",
                            "input_output_conflict", "output_exists", "plan_write_failed",
                            "panic"}
    [] command = "apply" -> {"ok", "plan_read_failed", "plan_invalid", "output_exists",
                             "input_not_found", "input_changed", "backend_identity_mismatch",
                             "backend_failed", "resource_limit_exceeded", "verification_failed",
                             "verification_measurement_failed"}
    [] command = "verify" -> {"ok", "plan_read_failed", "plan_invalid", "input_not_found",
                              "backend_identity_mismatch", "backend_failed",
                              "verification_measurement_failed", "failed_checks"}
    [] command = "show" -> {"ok", "receipt_invalid"}
    [] OTHER -> {None}

ASSUME CodeAssumption ==
  None \notin Commands /\ \A command \in Commands : None \notin Codes(command)
ASSUME CaseAssumption ==
  \A case \in Cases :
    /\ case.recipe \in Recipe /\ Arity(case.recipe)
    /\ ToSet(case.recipe.inputs) \subseteq DOMAIN Media
    /\ case.tools \in [version: STRING \ {""}, libraries: (SUBSET STRING) \ {{}},
                       probe: STRING, features: SUBSET STRING]
ASSUME MediaAssumption ==
  /\ \A n \in DOMAIN Media :
       Media[n] /= None => /\ Media[n] \in InspectionReport /\ Media[n].probe /= ""
                           /\ IndicesDiffer(Media[n].streams)
                           /\ Media[n].sha \notin {"other", "rendered"}
  /\ \A m, n \in DOMAIN Media :   \* one file at a path, however it is spelled
       Media[m] /= None /\ Media[n] /= None /\ Media[m].path = Media[n].path =>
         Media[m] = Media[n]
ASSUME FootageAssumption == \A at \in DOMAIN Shorter : Shorter[at] \in Nat
ASSUME ClockAssumption == MaxClock \in Nat /\ ClockMaySetBack \in BOOLEAN

VARIABLES
  recipe, files, tools,     \* the recipe, the inputs and the tools
  planFile,                 \* the plan document
  applying,                 \* the plan being applied and what the backend made of it
  published, receipt,       \* the published files and the stored receipt
  exit,                     \* the command that ended last, and how
  clock,                    \* the wall clock
  disturbance               \* the disturbance that has happened

world == <<recipe, files, tools>>
kept  == <<published, receipt>>
vars  == <<world, planFile, applying, kept, exit, clock, disturbance>>

Init ==
  /\ \E case \in Cases : recipe = case.recipe /\ tools = case.tools
  /\ files = [n \in ToSet(recipe.inputs) |-> Media[n]]
  /\ planFile = None /\ applying = None
  /\ published = {} /\ receipt = None
  /\ exit = [command |-> None, code |-> None]
  /\ clock = 0
  /\ disturbance = "none"

Disturbed(kind) == disturbance = "none" /\ disturbance' = kind
Ends(command, result) == exit' = [command |-> command, code |-> result]

-----------------------------------------------------------------------------
(* avpact plan.                                                            *)

Exists(path) == \E file \in published : file.path = path

Planning == plan_refusal(recipe, files, Exists(recipe.path), tools)

PlanRefused ==
  /\ applying = None /\ Planning /= None
  /\ Ends("plan", Planning)
  /\ UNCHANGED <<world, planFile, applying, kept, clock, disturbance>>

\* write_new_plan creates the file, or fails because there is one.
PlanWritten ==
  /\ applying = None /\ Planning = None
  /\ IF planFile = None
     THEN /\ planFile' = plan_recipe(recipe, files, tools)
          /\ Ends("plan", "ok")
     ELSE /\ Ends("plan", "plan_write_failed")
          /\ UNCHANGED planFile
  /\ UNCHANGED <<world, applying, kept, clock, disturbance>>

\* A write that fails after the file is created leaves what it wrote.
PlanCutShort ==
  /\ applying = None /\ Planning = None /\ planFile = None
  /\ Disturbed("plan_cut_short")
  /\ planFile' = Partial /\ Ends("plan", "plan_write_failed")
  /\ UNCHANGED <<world, applying, kept, clock>>

-----------------------------------------------------------------------------
(* Reading a plan document.                                                *)

\* An empty disposition is not written, and a stream without one not read.
Unreadable(p) ==
  \E i \in DOMAIN p.inputs : \E j \in DOMAIN p.inputs[i].streams :
    p.inputs[i].streams[j].disposition = "absent"

PlanRefusal ==
  IF planFile = None THEN "plan_read_failed"
  ELSE IF planFile = Partial THEN "plan_invalid"
  ELSE IF Unreadable(planFile) \/ ~validate_plan(planFile) THEN "plan_invalid"
  ELSE None

-----------------------------------------------------------------------------
(* avpact apply.                                                           *)

\* The file at a canonical path, or None.
FileAt(path) ==
  LET found == {n \in DOMAIN files : files[n] /= None /\ files[n].path = path}
  IN  IF found = {} THEN None ELSE files[CHOOSE n \in found : TRUE]

Identity(file) == <<file.path, file.bytes, file.sha>>

\* The inputs are looked at one after the other: the first that is not what the
\* plan recorded decides.
InputRefusal(p) ==
  LET now(i) == FileAt(p.inputs[i].path)
      bad    == {i \in DOMAIN p.inputs :
                   now(i) = None \/ Identity(now(i)) /= Identity(p.inputs[i])}
  IN  IF bad = {} THEN None
      ELSE IF now(Nth(bad, 1)) = None THEN "input_not_found" ELSE "input_changed"

ApplyRefusal ==
  IF PlanRefusal /= None THEN PlanRefusal
  ELSE IF Exists(planFile.path) THEN "output_exists"
  ELSE IF InputRefusal(planFile) /= None THEN InputRefusal(planFile)
  ELSE IF \/ \E i \in DOMAIN planFile.inputs : planFile.inputs[i].probe /= tools.probe
          \/ planFile.backend /= [version |-> tools.version, libraries |-> tools.libraries]
  THEN "backend_identity_mismatch" ELSE None

Readings == IF ClockMaySetBack THEN 0..MaxClock ELSE clock..MaxClock

ApplyRefused ==
  /\ applying = None /\ ApplyRefusal /= None
  /\ Ends("apply", ApplyRefusal)
  /\ UNCHANGED <<world, planFile, applying, kept, clock, disturbance>>

ApplyStarts ==
  /\ applying = None /\ ApplyRefusal = None
  /\ \E now \in Readings :
       /\ clock' = now
       /\ applying' = [plan |-> planFile, seal |-> disturbance, started |-> now, file |-> None]
  /\ UNCHANGED <<world, planFile, exit, kept, disturbance>>

ApplyEnds(code) == applying' = None /\ Ends("apply", code)

-----------------------------------------------------------------------------
(* The backend, as the argument vectors use it.                            *)

StreamAt(path, index) ==
  CHOOSE s \in ToSet(FileAt(path).streams) : s.index = index

\* The stream an argument vector takes a kind of stream from, or None.
SourceStream(argv, kind) ==
  LET maps    == {StreamAt(argv.inputs[1], argv.maps[i][2]) : i \in DOMAIN argv.maps}
      chosen  == {s \in maps : s.kind = kind}
      segment == argv.filter.segments[1]
  IN  IF argv.maps = <<>>
      THEN IF kind = "video" THEN StreamAt(argv.inputs[1], segment.video)
           ELSE IF segment.audio = None THEN None ELSE StreamAt(argv.inputs[1], segment.audio)
      ELSE IF chosen = {} THEN None ELSE CHOOSE s \in chosen : TRUE

\* The backend turns a picture upright before it filters it.
Upright(argv) ==
  <<FileAt(argv.inputs[1]).sha, SourceStream(argv, "video").index>> \notin Turned

Frame(argv) ==
  LET stored == Size(SourceStream(argv, "video"))
      source == IF Upright(argv) THEN stored ELSE Rotated(stored, "clockwise90")
      filter == argv.filter
  IN  IF filter = None THEN source
      ELSE CASE filter.name \in {"resize", "scale"} -> filter.frame
             [] filter.name = "tile" ->
                  <<filter.cell[1] * filter.columns, filter.cell[2] * filter.rows>>
             [] OTHER -> source

\* A stream of a rendered file; an encoder without a rate takes 25 a second.
RenderedStream ==
  [kind: {"video", "audio"}, codec: {"h264", "mjpeg", "aac"}, width: Optional(Nat),
   height: Optional(Nat), aspect: {None, "1:1"}, rate: Optional(STRING) \union {"25/1"},
   channels: Optional(Nat)]
ASSUME RenderedAssumption == None \notin RenderedStream

Known(value, default) == IF value = None THEN default ELSE value

EncodedVideo(argv) ==
  [kind |-> "video", codec |-> IF argv.video = "libx264" THEN "h264" ELSE "mjpeg",
   width |-> Frame(argv)[1], height |-> Frame(argv)[2], aspect |-> "1:1",
   rate |-> Known(SourceStream(argv, "video").rate, "25/1"), channels |-> None]

EncodedAudio(argv) ==
  [kind |-> "audio", codec |-> argv.audio, width |-> None, height |-> None,
   aspect |-> None, rate |-> None,
   channels |-> IF argv.maps = <<>> THEN 2
                ELSE Known(SourceStream(argv, "audio").channels, 2)]

\* The streams an argument vector takes from its k-th input.
Taken(argv, k) ==
  LET segment == argv.filter.segments[k]
  IN  IF argv.maps /= <<>> THEN {argv.maps[i][2] : i \in DOMAIN argv.maps}
      ELSE IF argv.filter.audio THEN {segment.video, segment.audio} ELSE {segment.video}

\* An input is taken whole when one of the streams lasts as long as the file;
\* otherwise it ends with the last of them.
Whole(argv, k) ==
  \E i \in Taken(argv, k) : <<FileAt(argv.inputs[k]).sha, i>> \notin DOMAIN Shorter

End(argv, k) ==
  LET file == FileAt(argv.inputs[k])
  IN  IF Whole(argv, k) THEN file.duration
      ELSE Max({Shorter[<<file.sha, i>>] : i \in Taken(argv, k)})

RenderedDuration(argv) ==
  LET ends == [k \in DOMAIN argv.inputs |-> [duration |-> End(argv, k)]]
  IN  IF argv.frames /= None THEN None
      ELSE IF argv.length /= None
      THEN AtMost(decimal_ms(argv.length), End(argv, 1) - decimal_ms(argv.seek))
      ELSE IF argv.maps = <<>> THEN Known(JoinedDuration(ends), 1)
      ELSE Known(End(argv, 1), 1)

Loudness(numeral) ==
  LET size == numeral.whole * 100 + numeral.digits[1] * 10 + numeral.digits[2]
  IN  IF numeral.negative THEN -size ELSE size

Rendered(argv) ==
  [path      |-> argv.output,
   container |-> IF argv.muxer \in {"mp4", "ipod"} THEN Mp4Family ELSE argv.muxer,
   duration  |-> RenderedDuration(argv),
   bytes     |-> 1,
   streams   |-> (IF argv.video = None THEN <<>> ELSE <<EncodedVideo(argv)>>)
                   \o (IF argv.audio = None THEN <<>> ELSE <<EncodedAudio(argv)>>),
   loudness  |-> IF argv.filter /= None /\ argv.filter.name = "loudnorm"
                 THEN Loudness(argv.filter.target) ELSE -2000,
   sha       |-> "rendered"]

\* libx264 with 4:2:0 refuses a frame with an odd or empty side, and every
\* encoder a frame too large for its format; past the end there is no frame.
Encodable(argv) ==
  /\ argv.video /= None =>
       \A side \in {Frame(argv)[1], Frame(argv)[2]} :
         side \in 1..MaxU32 /\ (argv.video = "libx264" => side % 2 = 0)
  /\ argv.seek /= None /\ End(argv, 1) /= None => decimal_ms(argv.seek) < End(argv, 1)

\* One attribute of a file other than the arguments ask for.
Deviations(p, file) ==
  LET first == file.streams[1]
  IN  {[file EXCEPT !.container = "other"],
       [file EXCEPT !.duration = IF @ = None THEN None ELSE @ + p.expected.tolerance + 1],
       [file EXCEPT !.duration = None],
       [file EXCEPT !.bytes = p.resources.budgets.output + 1],
       [file EXCEPT !.loudness = @ + 501],
       [file EXCEPT !.loudness = None],
       [file EXCEPT !.sha = p.inputs[Len(p.inputs)].sha],
       [file EXCEPT !.streams = Front(@)],
       [file EXCEPT !.streams = Append(@, [first EXCEPT !.kind = "subtitle"])],
       [file EXCEPT !.streams[1].codec = "other"],
       [file EXCEPT !.streams[1].width = IF @ = None THEN None ELSE @ + 2],
       [file EXCEPT !.streams[1].aspect = "4:3"],
       [file EXCEPT !.streams[1].rate = "1/1"],
       [file EXCEPT !.streams[Len(file.streams)].channels = 1]} \ {file}

BackendRenders ==
  /\ applying /= None /\ applying.file = None
  /\ Encodable(applying.plan.argv)
  /\ applying' = [applying EXCEPT !.file = Rendered(applying.plan.argv)]
  /\ UNCHANGED <<world, planFile, exit, kept, clock, disturbance>>

BackendDeviates ==
  /\ applying /= None /\ applying.file = None
  /\ Encodable(applying.plan.argv)
  /\ Disturbed("rendering_deviates")
  /\ \E file \in Deviations(applying.plan, Rendered(applying.plan.argv)) :
       applying' = [applying EXCEPT !.file = file]
  /\ UNCHANGED <<world, planFile, exit, kept, clock>>

BackendFails ==
  /\ applying /= None /\ applying.file = None
  /\ ApplyEnds("backend_failed")
  /\ UNCHANGED <<world, planFile, kept, clock, disturbance>>

\* The output's size is polled while the backend runs: it may be seen in time.
LimitExceeded ==
  /\ applying /= None /\ applying.file /= None
  /\ LET budgets == applying.plan.resources.budgets
     IN  applying.file.bytes > AtMost(budgets.output, budgets.temporary)
  /\ ApplyEnds("resource_limit_exceeded")
  /\ UNCHANGED <<world, planFile, kept, clock, disturbance>>

-----------------------------------------------------------------------------
(* Judging, publishing and recording.                                      *)

\* A temporary file that is not published is removed.
ApplyFails ==
  /\ applying /= None /\ applying.file /= None
  /\ LET refusal == VerificationRefusal(applying.plan, applying.file, tools.probe)
     IN  \/ refusal /= None /\ ApplyEnds(refusal)
         \/ /\ refusal = None
            /\ ~verify_output(applying.plan, applying.file).passed
            /\ ApplyEnds("verification_failed")
  /\ UNCHANGED <<world, planFile, kept, clock, disturbance>>

ApplyUnjudged ==   \* a file is published whatever its report says
  /\ applying /= None /\ applying.file /= None
  /\ LET p      == applying.plan
         report == verify_output(p, applying.file)
     IN  /\ VerificationRefusal(p, applying.file, tools.probe) = None
         /\ published' = published \union {[applying.file EXCEPT !.path = p.path]}
         /\ \E now \in Readings :
              /\ clock' = now
              /\ receipt' = Receipt(p, report, applying.started, now)
  /\ ApplyEnds("ok")
  /\ UNCHANGED <<world, planFile, disturbance>>

ApplySucceeds ==
  /\ applying /= None /\ applying.file /= None
  /\ LET p      == applying.plan
         report == verify_output(p, applying.file)
     IN  /\ VerificationRefusal(p, applying.file, tools.probe) = None
         /\ report.passed
         /\ published' = published \union {[applying.file EXCEPT !.path = p.path]}
         /\ \E now \in Readings :
              /\ clock' = now
              /\ receipt' = Receipt(p, report, applying.started, now)
  /\ ApplyEnds("ok")
  /\ UNCHANGED <<world, planFile, disturbance>>

-----------------------------------------------------------------------------
(* avpact verify and avpact receipt show.                                  *)

VerifyLikeApply(file) ==   \* a failed check reported as apply reports it
  IF PlanRefusal /= None THEN PlanRefusal
  ELSE IF VerificationRefusal(planFile, file, tools.probe) /= None
  THEN VerificationRefusal(planFile, file, tools.probe)
  ELSE IF verify_output(planFile, file).passed THEN "ok" ELSE "verification_failed"

\* The process exits 0, 2 for a failed check, 1 for an error.
VerifyOutcome(file) ==
  IF PlanRefusal /= None THEN PlanRefusal
  ELSE IF VerificationRefusal(planFile, file, tools.probe) /= None
  THEN VerificationRefusal(planFile, file, tools.probe)
  ELSE IF verify_output(planFile, file).passed THEN "ok" ELSE "failed_checks"

Verify ==
  /\ applying = None
  /\ \/ /\ published = {}
        /\ Ends("verify", IF PlanRefusal /= None THEN PlanRefusal ELSE "input_not_found")
     \/ \E file \in published : Ends("verify", VerifyOutcome(file))
  /\ UNCHANGED <<world, planFile, applying, kept, clock, disturbance>>

ShowReceipt ==
  /\ applying = None /\ receipt /= None
  /\ Ends("show", IF validate_receipt(receipt) THEN "ok" ELSE "receipt_invalid")
  /\ UNCHANGED <<world, planFile, applying, kept, clock, disturbance>>

-----------------------------------------------------------------------------
(* Other programs.                                                         *)

\* A document with its identity, and all that follows from its content,
\* computed anew.
Resealed(p) ==
  LET derived == [p EXCEPT
                    !.resources = estimate_resources(p.inputs, p.expected, p.resources.budgets),
                    !.checks = verification_checks_with_size(p.expected,
                                                             p.resources.budgets.output)]
      id   == expected_plan_id(derived)
      path == temporary_output_path(p.path, id)
  IN  [derived EXCEPT !.id = id, !.temporary = path, !.argv.output = path]

\* Edits of what only some operations have.
Reframed(p, size) ==   \* another frame size, throughout
  IF p.operation.type = "resize"
  THEN [p EXCEPT !.operation.output = size,
                 !.expected.video = [@ EXCEPT !.width = size[1], !.height = size[2]],
                 !.argv.filter = resize_filter(p.operation.requested, size,
                                               p.operation.mode, p.operation.rotation)]
  ELSE [p EXCEPT !.expected.video =
                   IF @ = None THEN None ELSE [@ EXCEPT !.width = size[1], !.height = size[2]]]

Retargeted(p, target) ==   \* another loudness, throughout
  IF p.operation.type = "normalize_audio"
  THEN [p EXCEPT !.operation.target = target, !.expected.audio.loudness.target = target,
                 !.argv.filter = [name |-> "loudnorm", target |-> format_loudness(target)]]
  ELSE p

OtherStream(p, stream) ==   \* another stream, throughout
  IF \E i \in DOMAIN p.selected : p.selected[i].kind = stream.kind
  THEN LET at == CHOOSE i \in DOMAIN p.selected : p.selected[i].kind = stream.kind
       IN  [p EXCEPT !.selected[at] = Selected(1, stream, @.codec),
                     !.argv.maps = [i \in DOMAIN @ |-> IF i = at THEN <<1, stream.index>>
                                                       ELSE @[i]]]
  ELSE p

Edits(p) ==
  {[p EXCEPT !.schema = "other"], [p EXCEPT !.atomic = FALSE],
   [p EXCEPT !.backend.version = "other"], [p EXCEPT !.backend.libraries = {}],
   [p EXCEPT !.inputs[1].sha = "other"], [p EXCEPT !.inputs = Front(@)],
   [p EXCEPT !.path = [@ EXCEPT !.file = "elsewhere"]],
   [p EXCEPT !.path = p.inputs[1].path],
   [p EXCEPT !.selected = Front(@)], [p EXCEPT !.checks = Front(@)],
   [p EXCEPT !.warnings = <<>>],
   [p EXCEPT !.expected.tolerance = MaxTolerance + 1],
   [p EXCEPT !.expected.container = "other"],
   [p EXCEPT !.expected.audio = IF @ = None THEN None ELSE [@ EXCEPT !.channels = 7]],
   [p EXCEPT !.expected.duration = IF @ = None THEN 1 ELSE @ - 1],
   [p EXCEPT !.resources.budgets.output = @ + 1], [p EXCEPT !.resources.class = "none"],
   [p EXCEPT !.argv.output = p.path], [p EXCEPT !.argv.muxer = "other"],
   Reframed(p, <<4, 2>>), Reframed(p, <<6, 6>>),
   Retargeted(p, -600), Retargeted(p, -650)}
  \union {OtherStream(p, s) : s \in ToSet(p.inputs[1].streams)}

EditPlan ==
  /\ applying = None /\ disturbance = "none" /\ planFile \notin {None, Partial}
  /\ \E edit \in Edits(planFile) \ {planFile} :
       \/ Disturbed("edited") /\ planFile' = edit
       \/ /\ edit.inputs /= <<>> /\ Resealed(edit) /= planFile
          /\ Disturbed("resealed") /\ planFile' = Resealed(edit)
  /\ planFile' \notin {None, Partial}   \* an edited document is a document
  /\ UNCHANGED <<world, exit, applying, kept, clock>>

ReplaceInput ==
  /\ applying = None
  /\ Disturbed("input_replaced")
  /\ \E path \in {files[n].path : n \in {m \in DOMAIN files : files[m] /= None}} :
       files' = [n \in DOMAIN files |->
                   IF files[n] /= None /\ files[n].path = path
                   THEN [files[n] EXCEPT !.sha = "other", !.streams = Front(@)] ELSE files[n]]
  /\ UNCHANGED <<recipe, tools, planFile, applying, kept, exit, clock>>

ReplaceTools ==
  /\ applying = None
  /\ Disturbed("tools_replaced")
  /\ tools' \in {[tools EXCEPT !.version = "newer"], [tools EXCEPT !.probe = "newer"]}
  /\ UNCHANGED <<recipe, files, planFile, applying, kept, exit, clock>>

ReplaceOutput ==
  /\ applying = None
  /\ Disturbed("output_replaced")
  /\ \E file \in published :
       \/ published' = published \ {file}
       \/ published' = (published \ {file})
                         \union {[file EXCEPT !.sha = "other", !.container = "other"]}
  /\ UNCHANGED <<world, planFile, applying, receipt, exit, clock>>

-----------------------------------------------------------------------------

Plan  == PlanRefused \/ PlanWritten \/ PlanCutShort
Apply == \/ ApplyRefused \/ ApplyStarts \/ LimitExceeded \/ ApplyFails \/ ApplySucceeds
Backend == BackendRenders \/ BackendDeviates \/ BackendFails
Others  == EditPlan \/ ReplaceInput \/ ReplaceTools \/ ReplaceOutput

Next == Plan \/ Apply \/ Backend \/ Verify \/ ShowReceipt \/ Others

Spec == Init /\ [][Next]_vars

-----------------------------------------------------------------------------
(* What must hold.                                                         *)

Genuine == disturbance \notin {"edited", "resealed"}
Planned == planFile \notin {None, Partial} /\ Genuine

\* TYPE: each command ends with a code of its own.
TypeOK == exit.code \in Codes(exit.command) /\ clock \in 0..MaxClock

\* The validator accepts what the compiler wrote: apply and verify call a
\* plan invalid only if it was edited, cut short, or holds a stream without
\* dispositions, which the document format cannot carry.
InvalidPlanHasCause ==
  exit.code = "plan_invalid" =>
    \/ ~Genuine
    \/ planFile = Partial
    \/ Unreadable(planFile)

\* No edit of a plan document, whatever field it touches, is ever applied,
\* unless the document was given the identity of its new content.
EditsAreRefused == applying /= None => applying.seal /= "edited"

\* Whatever its identity and whoever sealed it, an accepted plan is one the
\* compiler could have written for its own inputs: the same streams,
\* expectations, checks, estimates and arguments.  The validator leaves two
\* things to the plan: a loudness between two whole LUFS, which no recipe
\* names, and in a clip which streams are cut (any video stream with a size
\* and any audio stream, or none), the container and the tolerance.
RecipeOperation(p) ==
  LET op == p.operation
  IN  CASE op.type = "resize" ->
             [type |-> "resize", width |-> op.requested[1], height |-> op.requested[2],
              mode |-> op.mode, rotation |-> op.rotation]
        [] op.type = "thumbnail" -> [type |-> op.type, at |-> op.at, width |-> op.size[1]]
        [] op.type = "contact_sheet" ->
             [type |-> op.type, interval |-> op.interval, columns |-> op.columns,
              rows |-> op.rows, width |-> op.size[1]]
        [] OTHER -> [type |-> op.type]

Redraft(p) ==
  IF p.operation.type = "normalize_audio"
  THEN NormalizeTo(p.operation.target, p.operation.tolerance, p.inputs, p.expected.tolerance)
  ELSE Compile(RecipeOperation(p), p.inputs, p.expected.tolerance)

Follows(p, draft) ==
  /\ p.operation = draft.operation /\ p.selected = draft.selected
  /\ p.checks = verification_checks_with_size(p.expected, p.resources.budgets.output)
  /\ p.resources = estimate_resources(p.inputs, p.expected, p.resources.budgets)
  /\ p.argv = [draft.argv EXCEPT !.output = p.temporary]

Recompiled(p) ==
  /\ CompileRefusal(RecipeOperation(p), p.inputs) = None
  /\ p.expected = Redraft(p).expected
  /\ Follows(p, Redraft(p))

Recut(p) ==
  LET input   == p.inputs[1]
      streams == ToSet(input.streams)
  IN  /\ input.duration /= None /\ p.operation.end <= input.duration
      /\ p.operation.start < p.operation.end
      /\ \E video \in {s \in streams : s.kind = "video" /\ Size(s) /= None},
            audio \in {s \in streams : s.kind = "audio"} \union {None} :
           LET draft == ClipOf(p.operation, p.inputs, video, audio, p.expected.tolerance)
           IN  /\ \A part \in {"duration", "video", "audio"} :
                    p.expected[part] = draft.expected[part]
               /\ Follows(p, draft)

AcceptedIsRecompiled ==
  applying /= None =>
    IF applying.plan.operation.type = "clip" THEN Recut(applying.plan)
    ELSE Recompiled(applying.plan)

\* The expectations fit the arguments: a backend that does what the argument
\* vector says is blamed for its output only where the inspection of an input
\* does not tell what the plan needs to know: that every stream taken from it
\* ends before its container does (plans expect the container's duration), or
\* that a picture whose frame is kept is displayed by a quarter turn.
Foreseen(argv) ==
  /\ argv.frames = None => \A k \in DOMAIN argv.inputs : Whole(argv, k)
  /\ \/ argv.video = None \/ Upright(argv)
     \/ argv.filter /= None /\ argv.filter.name \in {"resize", "scale", "tile"}

JudgedBad(code) == code \in {"verification_failed", "verification_measurement_failed"}

VerificationFailureHasCause ==
  [][applying /= None /\ applying.file /= None /\ applying' = None
       /\ JudgedBad(exit'.code) =>
       \/ disturbance \in {"rendering_deviates", "resealed"}
       \/ ~Foreseen(applying.plan.argv)]_vars

\* A published file is what the recipe asked for, however the backend behaved:
\* encoded as the operation encodes, with the streams of the input and no other,
\* of the length, the frame and the loudness asked for, and within the budget.
Within(file, duration) ==
  duration = None \/ (file.duration /= None
                        /\ AbsDiff(file.duration, duration) <= recipe.tolerance)

IsStill(op) == op.type \in {"thumbnail", "contact_sheet"}

Encoded(file, op, inputs) ==
  LET video  == FirstRendered(file, "video")
      audio  == FirstRendered(file, "audio")
      source == Video(inputs[1])
  IN  /\ file.container = IF IsStill(op) THEN "image2" ELSE Mp4Family
      /\ video /= None => /\ video.codec = IF IsStill(op) THEN "mjpeg" ELSE "h264"
                          /\ video.aspect = "1:1"
                          /\ IsStill(op) \/ source.rate \in {None, video.rate}
      /\ audio /= None =>
           /\ audio.codec = "aac"
           /\ IF op.type = "concatenate" THEN audio.channels = 2
              ELSE Audio(inputs[1]).channels \in {None, audio.channels}

Fulfils(file, op, inputs) ==
  LET video == FirstRendered(file, "video")
      audio == FirstRendered(file, "audio")
  IN  /\ file.bytes <= recipe.budgets.output
      /\ Len(file.streams) = One(video /= None) + One(audio /= None)
      /\ (video = None) <=> op.type \in {"extract_audio", "normalize_audio"}
      /\ (audio = None) <=> (IsStill(op) \/ Audio(inputs[1]) = None)
      /\ Encoded(file, op, inputs)
      /\ CASE op.type = "clip" -> Within(file, op.end - op.start)
           [] op.type = "concatenate" -> Within(file, JoinedDuration(inputs))
           [] IsStill(op) -> video.width = op.width
           [] OTHER -> Within(file, inputs[1].duration)
      /\ op.type \in {"clip", "transcode", "concatenate", "burn_subtitles"} =>
           <<video.width, video.height>> = Size(Video(inputs[1]))
      /\ op.type = "resize" =>
           IF op.mode = "fit" THEN video.width <= op.width /\ video.height <= op.height
           ELSE video.width = op.width /\ video.height = op.height
      /\ op.type = "normalize_audio" =>
           AbsDiff(file.loudness, op.lufs * 100) <= op.tolerance

PublishedFulfilsRecipe ==
  disturbance \notin {"edited", "resealed", "output_replaced", "input_replaced"} =>
    \A file \in published : Fulfils(file, recipe.operation, Inspected(recipe, files))

\* Every check the plan promises is in the receipt, and no other.
CheckName(planned) == IF planned.check = "loudness" THEN "integrated_loudness" ELSE planned.check

PlannedChecksArePerformed ==
  receipt /= None =>
    [i \in DOMAIN receipt.verification.checks |-> receipt.verification.checks[i].check]
      = [i \in DOMAIN receipt.plan_digest.checks |-> CheckName(receipt.plan_digest.checks[i])]

\* Every stream a plan drops is named by one of its warnings, however many
\* inputs compete for the bounded list (a message names at most MaxNamed).
DropsAreRecorded ==
  Planned =>
    \A i \in DOMAIN planFile.inputs :
      LET streams == planFile.inputs[i].streams
          dropped == Chosen(streams, {k \in DOMAIN streams :
                                        \A j \in DOMAIN planFile.selected :
                                          \/ planFile.selected[j].source /= i
                                          \/ planFile.selected[j].index /= streams[k].index})
      IN  \A k \in DOMAIN dropped : k <= MaxNamed =>
            \E w \in ToSet(planFile.warnings) :
              w.source = i /\ dropped[k].index \in ToSet(w.streams)

\* A receipt that apply stored can be shown.
ReceiptShowable == exit.code /= "receipt_invalid"

\* When the capability report supports an operation, planning never refuses a
\* recipe for a missing encoder or filter.
CapabilityReportIsEnough ==
  exit = [command |-> "plan", code |-> "unsupported"]
    /\ supported(recipe.operation.type, tools)
    /\ disturbance /= "input_replaced" =>
       \/ recipe.path.extension /= Extension(recipe.operation)
       \/ CompileRefusal(recipe.operation, Inspected(recipe, files)) = "unsupported"

\* A fitted frame lies in the requested box and touches it, has even sides,
\* and its other side is the largest even number that keeps the shape (or 2).
FitsInTheBox ==
  Planned /\ planFile.operation.type = "resize" /\ planFile.operation.mode = "fit" =>
    LET box    == planFile.operation.requested
        fitted == planFile.operation.output
        source == Rotated(Size(Video(planFile.inputs[1])), planFile.operation.rotation)
        Keeps(a, b) ==   \* side b follows from side a
          /\ fitted[a] = box[a]
          /\ \/ /\ fitted[b] * source[a] <= source[b] * box[a]
                /\ source[b] * box[a] < (fitted[b] + 2) * source[a]
             \/ fitted[b] = 2 /\ source[b] * box[a] < 2 * source[a]
    IN  /\ \A side \in 1..2 : fitted[side] \in 2..box[side] /\ fitted[side] % 2 = 0
        /\ Keeps(1, 2) \/ Keeps(2, 1)

\* The estimate a plan was admitted with covers its duration at the assumed
\* rates, and the temporary estimate covers the output estimate, both up to
\* the width of the integers.
EstimateIsEnough ==
  Planned =>
    LET e    == planFile.expected
        rate == (IF e.video = None THEN 0 ELSE VideoBitrate)
                  + (IF e.audio = None THEN 0 ELSE AudioBitrate)
        need == e.duration * rate
    IN  /\ e.duration /= None =>
             planFile.resources.output >= AtMost(need, MaxU64) \div BitsPerByteMs
        /\ planFile.resources.temporary >= AtMost(planFile.resources.output, MaxU64 \div 5)

\* The times in the arguments, read back, are the times of the recipe.
SeekTextIsExact ==
  Planned =>
    LET op == planFile.operation
    IN  /\ op.type = "clip" => /\ decimal_ms(planFile.argv.seek) = op.start
                               /\ decimal_ms(planFile.argv.length) = op.duration
        /\ op.type = "thumbnail" => decimal_ms(planFile.argv.seek) = op.at

\* What apply published, verify confirms, as long as nothing else changes.
PublishedVerifiesAgain ==
  receipt /= None /\ disturbance \in {"none", "rendering_deviates"} /\ exit.command = "verify"
    => exit.code = "ok"
=============================================================================
