--------------------------- MODULE AcceptanceProofs ---------------------------
(***************************************************************************)
(* Proofs about what the validator accepts and what verification lets      *)
(* through: an accepted plan is the plan that the compiler writes for its  *)
(* own recipe and its own inputs, the verification of its output performs  *)
(* every check that it promises, and a published file is what the recipe   *)
(* asked for.                                                              *)
(***************************************************************************)
EXTENDS PlanProofs


-----------------------------------------------------------------------------
(* The shape of a resealed document.                                       *)

\* An operation of a document, as the compiler lays one out.
OperationShape(op) ==
  /\ op.type \in Types
  /\ op.type \in {"transcode", "extract_audio", "burn_subtitles"} => op = [type |-> op.type]
  /\ op.type = "clip" =>
       \E start, end, duration :
         op = [type |-> "clip", start |-> start, end |-> end, duration |-> duration]
  /\ op.type = "resize" =>
       \E w, h, size, mode, rotation :
         op = [type |-> "resize", requested |-> <<w, h>>, output |-> size,
               mode |-> mode, rotation |-> rotation]
  /\ op.type = "normalize_audio" =>
       \E target, tolerance :
         op = [type |-> "normalize_audio", target |-> target, tolerance |-> tolerance]
  /\ op.type = "concatenate" =>
       \E count, duration :
         op = [type |-> "concatenate", count |-> count, duration |-> duration]
  /\ op.type = "thumbnail" =>
       \E at \in Nat : \E w, h : op = [type |-> "thumbnail", at |-> at, size |-> <<w, h>>]
  /\ op.type = "contact_sheet" =>
       \E interval, columns, rows, w, h :
         op = [type |-> "contact_sheet", interval |-> interval, columns |-> columns,
               rows |-> rows, size |-> <<w, h>>]

\* The first input has streams, its duration is known to be a number or to be
\* unknown, and no division by a side of its frame fails.
Divides(op, input) ==
  LET size   == Size(Video(input))
      source == Rotated(size, op.rotation)
  IN  /\ input.duration \in Optional(Nat) /\ input.streams \in Seq(StreamSummary)
      /\ op.type = "resize" /\ op.mode = "fit" =>
           ~FitPanics(source[1], source[2], op.requested[1], op.requested[2])
      /\ op.type \in {"thumbnail", "contact_sheet"} => size[1] /= 0

DocumentShape(p) == OperationShape(p.operation) /\ Divides(p.operation, p.inputs[1])

LEMMA ShapesOfRecords ==
  /\ \A start, end, duration :
       OperationShape([type |-> "clip", start |-> start, end |-> end, duration |-> duration])
  /\ \A w, h, size, mode, rotation :
       OperationShape([type |-> "resize", requested |-> <<w, h>>, output |-> size,
                       mode |-> mode, rotation |-> rotation])
  /\ \A target, tolerance :
       OperationShape([type |-> "normalize_audio", target |-> target, tolerance |-> tolerance])
  /\ \A count, duration :
       OperationShape([type |-> "concatenate", count |-> count, duration |-> duration])
  /\ \A at \in Nat : \A w, h :
       OperationShape([type |-> "thumbnail", at |-> at, size |-> <<w, h>>])
  /\ \A interval, columns, rows, w, h :
       OperationShape([type |-> "contact_sheet", interval |-> interval, columns |-> columns,
                       rows |-> rows, size |-> <<w, h>>])
<1>1. ASSUME NEW w, NEW h, NEW size, NEW mode, NEW rotation
      PROVE  OperationShape([type |-> "resize", requested |-> <<w, h>>, output |-> size,
                             mode |-> mode, rotation |-> rotation])
  BY DEF OperationShape, Types
<1>2. ASSUME NEW target, NEW tolerance
      PROVE  OperationShape([type |-> "normalize_audio", target |-> target,
                             tolerance |-> tolerance])
  BY DEF OperationShape, Types
<1>3. ASSUME NEW count, NEW duration
      PROVE  OperationShape([type |-> "concatenate", count |-> count, duration |-> duration])
  BY DEF OperationShape, Types
<1>4. ASSUME NEW at \in Nat, NEW w, NEW h
      PROVE  OperationShape([type |-> "thumbnail", at |-> at, size |-> <<w, h>>])
  BY DEF OperationShape, Types
<1>5. ASSUME NEW interval, NEW columns, NEW rows, NEW w, NEW h
      PROVE  OperationShape([type |-> "contact_sheet", interval |-> interval,
                             columns |-> columns, rows |-> rows, size |-> <<w, h>>])
  BY DEF OperationShape, Types
<1>6. ASSUME NEW start, NEW end, NEW duration
      PROVE  OperationShape([type |-> "clip", start |-> start, end |-> end,
                             duration |-> duration])
  BY DEF OperationShape, Types
<1> QED
  BY <1>1, <1>2, <1>3, <1>4, <1>5, <1>6

LEMMA RecipeShape ==
  ASSUME NEW op, NEW edited, OperationShape(op), KeepsRecipe(op, edited), NEW input,
         Divides(op, input)
  PROVE  OperationShape(edited) /\ Divides(edited, input)
<1>1. CASE edited = op
  BY <1>1
<1>2. ASSUME op.type = "resize", NEW size, edited = Part(op, "output", size)
      PROVE  OperationShape(edited) /\ Divides(edited, input)
  <2>1. PICK w, h, old, mode, rotation :
          op = [type |-> "resize", requested |-> <<w, h>>, output |-> old,
                mode |-> mode, rotation |-> rotation]
    BY <1>2 DEF OperationShape
  <2>2. edited = [type |-> "resize", requested |-> <<w, h>>, output |-> size,
                  mode |-> mode, rotation |-> rotation]
    BY <1>2, <2>1 DEF Part
  <2>3. OperationShape(edited)
    BY <2>2 DEF OperationShape, Types
  <2> QED
    BY <2>1, <2>2, <2>3 DEF Divides
<1>3. ASSUME op.type = "normalize_audio", NEW target, edited = Part(op, "target", target)
      PROVE  OperationShape(edited) /\ Divides(edited, input)
  <2>1. PICK old, tolerance :
          op = [type |-> "normalize_audio", target |-> old, tolerance |-> tolerance]
    BY <1>3 DEF OperationShape
  <2>2. edited = [type |-> "normalize_audio", target |-> target, tolerance |-> tolerance]
    BY <1>3, <2>1 DEF Part
  <2>3. OperationShape(edited)
    BY <2>2 DEF OperationShape, Types
  <2> QED
    BY <2>2, <2>3 DEF Divides
<1> QED
  BY <1>1, <1>2, <1>3 DEF KeepsRecipe

LEMMA InputShape ==
  ASSUME NEW n \in Nat, NEW inputs, inputs = [i \in 1..n |-> inputs[i]],
         \A i \in 1..n : Inspectable(inputs[i]), NEW edited, KeepsInputs(inputs, edited),
         edited /= <<>>, n >= 1
  PROVE  edited[1].streams = inputs[1].streams /\ edited[1].duration = inputs[1].duration
<1>1. Len(inputs) = n /\ DOMAIN inputs = 1..n
  OBVIOUS
<1>2. CASE edited = Front(inputs)
  <2> DEFINE T == {inputs[i] : i \in 1..n}
  <2>1. \A i \in 1..(n - 1) : inputs[i] \in T
    OBVIOUS
  <2>2. edited = SubSeq(inputs, 1, n - 1)
    BY <1>1, <1>2 DEF Front
  <2> HIDE DEF T
  <2>3. n >= 2
    <3>1. n - 1 < 1 => SubSeq(inputs, 1, n - 1) = <<>>
      BY SubSeqEmpty
    <3> QED
      BY <2>2, <3>1
  <2>4. \A i \in 1..(n - 1) : SubSeq(inputs, 1, n - 1)[i] = inputs[i]
    <3>1. \A i \in 1..(n - 1) - 1 + 1 : SubSeq(inputs, 1, n - 1)[i] = inputs[1 + i - 1]
      BY <2>1, SubSeqProperties
    <3> QED
      BY <3>1
  <2> QED
    BY <2>2, <2>3, <2>4
<1>3. CASE edited = Part(inputs, 1, Part(inputs[1], "sha", "other"))
  <2> DEFINE first == inputs[1]
             changed == Part(first, "sha", "other")
  <2>1. first = [path |-> first.path, bytes |-> first.bytes, duration |-> first.duration,
                 streams |-> first.streams, probe |-> first.probe, sha |-> first.sha]
    <3>1. Inspectable(inputs[1])
      OBVIOUS
    <3> QED
      BY <3>1, Zenon DEF Inspectable
  <2> HIDE DEF first
  <2>2. changed.streams = first.streams /\ changed.duration = first.duration
    BY <2>1 DEF Part
  <2> HIDE DEF changed
  <2>3. edited[1] = changed
    BY <1>1, <1>3 DEF Part, changed, first
  <2> QED
    BY <2>2, <2>3 DEF first
<1> QED
  BY <1>2, <1>3 DEF KeepsInputs

\* A resealed document has the operation and the inputs of the edit.
Alike(p, q) == Document(q) /\ q.operation = p.operation /\ q.inputs = p.inputs

LEMMA PartAlike ==
  ASSUME NEW p, NEW q, Alike(p, q), NEW field \in Fields \ {"operation", "inputs"}, NEW value
  PROVE  Alike(p, Part(q, field, value))
BY DEF Alike, Document, Part, Fields

LEMMA ResealedAlike ==
  ASSUME NEW p, Document(p)
  PROVE  Alike(p, Resealed(p))
<1>1. Alike(p, p)
  BY DEF Alike
<1>2. ASSUME NEW a, NEW b, NEW c, NEW d, NEW e
      PROVE  Alike(p, Part(Part(Part(Part(Part(p, "resources", a), "checks", b),
                                     "id", c), "temporary", d), "argv", e))
  BY <1>1, PartAlike DEF Fields
<1> QED
  BY <1>2, Zenon DEF Resealed, Part

-----------------------------------------------------------------------------
(* What the compiler writes has that shape.                                *)

LEMMA CompiledShape ==
  ASSUME NEW p, NEW r, r \in Recipe, Arity(r), Compiled(p, r)
  PROVE  DocumentShape(p)
<1> DEFINE op    == r.operation
           input == p.inputs[1]
           size  == Size(Video(input))
           draft == Compile(op, p.inputs, r.tolerance)
<1>1. /\ AssembledFrom(p, r, p.inputs, p.backend, draft)
      /\ op \in Operation /\ CompileRefusal(op, p.inputs) = None
  BY CompiledParts
<1>2. op.type \in Types
  BY <1>1, OperationTypes
<1>3. Inspectable(input)
  <2>1. 1 \in DOMAIN p.inputs
    BY CompiledInputs
  <2> QED
    BY <2>1 DEF Compiled
<1>4. input.duration \in Optional(Nat) /\ input.streams \in Seq(StreamSummary)
  BY <1>3, InspectableTypes DEF Optional
<1>5. p.operation = draft.operation
  <2> HIDE DEF draft
  <2> QED
    BY <1>1 DEF AssembledFrom
<1>6. p.operation.type = op.type
  BY CompiledOperation
<1>7. ~(op.type \in {"resize", "thumbnail", "contact_sheet"}) => Divides(p.operation, input)
  BY <1>4, <1>6 DEF Divides
<1> HIDE DEF draft
<1>8. ASSUME op.type \in {"transcode", "extract_audio", "burn_subtitles"},
             p.operation = [type |-> op.type]
      PROVE  DocumentShape(p)
  BY <1>2, <1>7, <1>8 DEF DocumentShape, OperationShape
<1>10. CASE op.type = "transcode"
  <2>1. draft.operation = [type |-> "transcode"]
    BY <1>10 DEF draft, Compile, CompileTranscode, CompileWeb
  <2> QED
    BY <1>5, <1>8, <1>10, <2>1
<1>11. CASE op.type = "extract_audio"
  <2>1. draft.operation = [type |-> "extract_audio"]
    BY <1>11 DEF draft, Compile, CompileExtractAudio, CompileAudio
  <2> QED
    BY <1>5, <1>8, <1>11, <2>1
<1>12. CASE op.type = "burn_subtitles"
  <2> DEFINE web == CompileWeb([type |-> "burn_subtitles"], p.inputs, size,
                               subtitles_filter(p.inputs[2].path), r.tolerance)
  <2>2. draft = CompileBurnSubtitles(op, p.inputs, r.tolerance)
    BY <1>12 DEF draft, Compile
  <2>3. \E selected, warnings : draft = Part(Part(web, "selected", selected), "warnings", warnings)
    BY <2>2, Zenon DEF CompileBurnSubtitles, Part
  <2>4. /\ web.operation = [type |-> "burn_subtitles"]
        /\ DOMAIN web = {"operation", "selected", "expected", "warnings", "argv"}
    BY DEF CompileWeb
  <2> HIDE DEF web
  <2>1. draft.operation = web.operation
    BY <2>3, <2>4 DEF Part
  <2> QED
    BY <1>5, <1>8, <1>12, <2>1, <2>4
<1>13. CASE op.type = "clip"
  <2>1. draft.operation = [type |-> "clip", start |-> op.start, end |-> op.end,
                           duration |-> op.end - op.start]
    BY <1>13 DEF draft, Compile, CompileClip, ClipOf
  <2>2. OperationShape(p.operation)
    BY <1>5, <2>1, ShapesOfRecords, Zenon
  <2> QED
    BY <1>7, <1>13, <2>2 DEF DocumentShape
<1>14. CASE op.type = "normalize_audio"
  <2>1. draft.operation = [type |-> "normalize_audio", target |-> op.lufs * 100,
                           tolerance |-> op.tolerance]
    BY <1>14 DEF draft, Compile, CompileNormalizeAudio, NormalizeTo, CompileAudio
  <2>2. OperationShape(p.operation)
    BY <1>5, <2>1, ShapesOfRecords, Zenon
  <2> QED
    BY <1>7, <1>14, <2>2 DEF DocumentShape
<1>15. CASE op.type = "concatenate"
  <2>1. draft.operation = [type |-> "concatenate", count |-> Len(p.inputs),
                           duration |-> JoinedDuration(p.inputs)]
    BY <1>15 DEF draft, Compile, CompileConcatenate
  <2>2. OperationShape(p.operation)
    BY <1>5, <2>1, ShapesOfRecords, Zenon
  <2> QED
    BY <1>7, <1>15, <2>2 DEF DocumentShape
<1>16. CASE op.type = "resize"
  <2> DEFINE source == Rotated(size, op.rotation)
             output == IF op.mode = "fit"
                       THEN fit_dimensions(source[1], source[2], op.width, op.height)
                       ELSE <<op.width, op.height>>
  <2>1. draft.operation = [type |-> "resize", requested |-> <<op.width, op.height>>,
                           output |-> output, mode |-> op.mode, rotation |-> op.rotation]
    BY <1>16 DEF draft, Compile, CompileResize, CompileWeb
  <2>2. op.mode = "fit" => ~FitPanics(source[1], source[2], op.width, op.height)
    BY <1>1, <1>16, CodeAssumption DEF CompileRefusal, Commands, Codes
  <2> HIDE DEF output
  <2>3. OperationShape(p.operation)
    BY <1>5, <2>1, ShapesOfRecords, Zenon
  <2>4. Divides(p.operation, input)
    BY <1>4, <1>5, <2>1, <2>2 DEF Divides
  <2> QED
    BY <2>3, <2>4 DEF DocumentShape
<1>17. CASE op.type = "thumbnail"
  <2> DEFINE h == AspectHeight(size, op.width)
  <2>1. draft.operation = [type |-> "thumbnail", at |-> op.at, size |-> <<op.width, h>>]
    BY <1>17 DEF draft, Compile, CompileThumbnail, CompileImage
  <2>2. size[1] /= 0
    BY <1>1, <1>17, CodeAssumption DEF CompileRefusal, Commands, Codes
  <2>3. op.at \in Nat
    BY <1>1, <1>17, WidthAssumption DEF Operation, U64
  <2> HIDE DEF h
  <2>4. OperationShape(p.operation)
    BY <1>5, <2>1, <2>3, ShapesOfRecords, Zenon
  <2>5. Divides(p.operation, input)
    BY <1>4, <1>5, <2>1, <2>2 DEF Divides
  <2> QED
    BY <2>4, <2>5 DEF DocumentShape
<1>18. CASE op.type = "contact_sheet"
  <2> DEFINE cell == <<op.width \div op.columns, AspectHeight(size, op.width \div op.columns)>>
             h    == AtMost(cell[2] * op.rows, MaxU32)
  <2>1. draft.operation = [type |-> "contact_sheet", interval |-> op.interval,
                           columns |-> op.columns, rows |-> op.rows, size |-> <<op.width, h>>]
    BY <1>18 DEF draft, Compile, CompileContactSheet, CompileImage
  <2>2. size[1] /= 0
    BY <1>1, <1>18, CodeAssumption DEF CompileRefusal, Commands, Codes
  <2> HIDE DEF h
  <2>4. OperationShape(p.operation)
    BY <1>5, <2>1, ShapesOfRecords, Zenon
  <2>5. Divides(p.operation, input)
    BY <1>4, <1>5, <2>1, <2>2 DEF Divides
  <2> QED
    BY <2>4, <2>5 DEF DocumentShape
<1> QED
  BY <1>2, <1>10, <1>11, <1>12, <1>13, <1>14, <1>15, <1>16, <1>17, <1>18 DEF Types

-----------------------------------------------------------------------------
(* Every accepted document has that shape.                                 *)

ResealedShape ==
  disturbance = "resealed" => planFile \notin {None, Partial} /\ DocumentShape(planFile)

LEMMA ResealedShapeEdited == PlanInv /\ EditPlan => ResealedShape'
<1> SUFFICES ASSUME PlanInv, EditPlan, disturbance' = "resealed" PROVE ResealedShape'
  BY DEF ResealedShape
<1>1. /\ planFile' \notin {None, Partial} /\ disturbance = "none"
      /\ planFile \notin {None, Partial}
  BY DEF EditPlan
<1>2. PICK edit \in Edits(planFile) \ {planFile} :
        edit.inputs /= <<>> /\ planFile' = Resealed(edit)
  BY DEF EditPlan, Disturbed
<1> DEFINE p == planFile
<1>3. Compiled(p, recipe) /\ recipe \in Recipe /\ Arity(recipe)
  BY <1>1 DEF PlanInv, PlanIsCompiled, Planned, Genuine, World
<1>4. DocumentShape(p)
  BY <1>3, CompiledShape
<1>5. AssembledFrom(p, recipe, p.inputs, p.backend,
                    Compile(recipe.operation, p.inputs, recipe.tolerance))
  BY <1>3, CompiledParts
<1>6. Document(p) /\ p.atomic = TRUE
  BY <1>5 DEF AssembledFrom
<1>7. KeepsId(p, edit)
  BY <1>2, <1>6, EditKeepsId
<1>8. Alike(edit, planFile')
  BY <1>2, <1>7, ResealedAlike DEF KeepsId
<1>9. edit.inputs[1].streams = p.inputs[1].streams
      /\ edit.inputs[1].duration = p.inputs[1].duration
  <2> DEFINE n == Len(recipe.inputs)
  <2>1. /\ n \in Nat /\ DOMAIN p.inputs = 1..n /\ 1 \in DOMAIN p.inputs
    BY <1>3, CompiledInputs
  <2>2. p.inputs = [i \in 1..n |-> p.inputs[i]] /\ \A i \in 1..n : Inspectable(p.inputs[i])
    BY <1>3, <2>1 DEF Compiled
  <2> HIDE DEF n
  <2>3. n >= 1
    BY <2>1
  <2> QED
    BY <1>2, <1>7, <2>1, <2>2, <2>3, InputShape DEF KeepsId
<1>10. DocumentShape(edit)
  <2>1. OperationShape(edit.operation) /\ Divides(edit.operation, p.inputs[1])
    BY <1>4, <1>7, RecipeShape DEF DocumentShape, KeepsId
  <2>2. Divides(edit.operation, edit.inputs[1])
    BY <1>9, <2>1 DEF Divides, Video
  <2> QED
    BY <2>1, <2>2 DEF DocumentShape
<1> QED
  BY <1>1, <1>8, <1>10 DEF Alike, DocumentShape, ResealedShape

LEMMA ResealedShapeStep == PlanInv /\ ResealedShape /\ [Next]_vars => ResealedShape'
<1> SUFFICES ASSUME PlanInv, ResealedShape, [Next]_vars PROVE ResealedShape'
  OBVIOUS
<1>1. CASE EditPlan
  BY <1>1, ResealedShapeEdited
<1>2. CASE PlanWritten
  BY <1>2 DEF PlanWritten, ResealedShape, DocumentShape
<1>3. CASE PlanCutShort
  BY <1>3 DEF PlanCutShort, Disturbed, ResealedShape
<1>4. CASE /\ planFile' = planFile
           /\ disturbance' = disturbance \/ disturbance' /= "resealed"
  BY <1>4 DEF ResealedShape, DocumentShape
<1>5. CASE PlanRefused \/ Apply \/ Backend \/ Verify \/ ShowReceipt \/ ReplaceInput
           \/ ReplaceTools \/ ReplaceOutput \/ UNCHANGED vars
  BY <1>4, <1>5
     DEF PlanRefused, Apply, ApplyRefused, ApplyStarts, LimitExceeded, ApplyFails,
         ApplySucceeds, Backend, BackendRenders, BackendDeviates, BackendFails, Verify,
         ShowReceipt, ReplaceInput, ReplaceTools, ReplaceOutput, Disturbed, vars
<1> QED
  BY <1>1, <1>2, <1>3, <1>5 DEF Next, Plan, Others

\* What can be reasoned from about every document in circulation: that the
\* compiler wrote it, or that it was resealed and kept its shape.
DocumentInv == PlanInv /\ IInv /\ ResealedShape

\* Every document in circulation is the compiler's, up to an edit that kept its
\* identity or a resealing that kept its shape, in every behaviour.
THEOREM DocumentInvariance == Spec => []DocumentInv
<1>1. Init => ResealedShape
  BY DEF Init, ResealedShape
<1> QED
  BY <1>1, ResealedShapeStep, PlanInvariance, PTL DEF Spec, DocumentInv

\* An accepted document has its shape, whoever sealed it.
LEMMA AcceptedShape ==
  ASSUME DocumentInv, PlanRefusal = None
  PROVE  planFile \notin {None, Partial} /\ validate_plan(planFile) /\ DocumentShape(planFile)
<1>1. planFile \notin {None, Partial} /\ validate_plan(planFile) /\ disturbance /= "edited"
  BY CodeAssumption DEF PlanRefusal, DocumentInv, PlanInv, EditIsRefused, Commands, Codes
<1>2. CASE Genuine
  BY <1>1, <1>2, CompiledShape DEF DocumentInv, PlanInv, PlanIsCompiled, Planned, World
<1>3. CASE disturbance = "resealed"
  BY <1>1, <1>3 DEF DocumentInv, ResealedShape
<1> QED
  BY <1>1, <1>2, <1>3 DEF Genuine

-----------------------------------------------------------------------------
(* What the validator accepts, the compiler could have written.            *)

\* Drawn from an accepted document p: the draft that the compiler makes of
\* the operation that p names, and how p agrees with it.
Redrafted(p, draft) ==
  /\ Redraft(p) = draft
  /\ CompileRefusal(RecipeOperation(p), p.inputs) = None
  /\ p.operation = draft.operation /\ p.selected = draft.selected
  /\ p.expected = draft.expected
  /\ p.checks = verification_checks_with_size(p.expected, p.resources.budgets.output)
  /\ p.argv = Part(draft.argv, "output", p.temporary)

LEMMA RedraftedIsRecompiled ==
  ASSUME NEW p, validate_plan(p), NEW draft, Redrafted(p, draft)
  PROVE  Recompiled(p)
<1>1. p.resources = estimate_resources(p.inputs, p.expected, p.resources.budgets)
  BY DEF validate_plan, ValidResources
<1>2. p.argv = [draft.argv EXCEPT !.output = p.temporary]
  BY Zenon DEF Redrafted, Part
<1>3. Follows(p, draft)
  BY <1>1, <1>2 DEF Redrafted, Follows
<1> QED
  BY <1>3 DEF Recompiled, Redrafted

\* The expectations that a validator compares are the document's.
LEMMA ValidExpected ==
  ASSUME NEW p, NEW expected, validate_expected_output(p, expected)
  PROVE  /\ p.expected = expected
         /\ p.checks = verification_checks_with_size(p.expected, p.resources.budgets.output)
BY DEF validate_expected_output

LEMMA TranscodeRedrafted ==
  ASSUME NEW p, validate_transcode_plan(p), p.operation.type = "transcode", DocumentShape(p)
  PROVE  \E draft : Redrafted(p, draft)
<1> DEFINE input == p.inputs[1]
           video == Video(input)
           audio == Audio(input)
           op    == RecipeOperation(p)
           tolerance == p.expected.tolerance
           draft == CompileTranscode(op, p.inputs, tolerance)
<1>1. op = [type |-> "transcode"] /\ p.operation = [type |-> "transcode"]
  BY DEF RecipeOperation, DocumentShape, OperationShape
<1> HIDE DEF op
<1>2. Compile(op, p.inputs, tolerance) = draft
  BY <1>1 DEF Compile
<1>3. /\ draft.operation = [type |-> "transcode"]
      /\ draft.selected = selected_streams(1, video, audio)
      /\ draft.expected = expected_web_output(input, video, Size(video), audio, tolerance)
      /\ draft.argv = transcode_argv(input.path, None, video.index, Index(audio), None)
  BY DEF CompileTranscode, CompileWeb
<1> HIDE DEF draft
<1>4. /\ default_video(input) /\ stream_dimensions_for_plan(video)
      /\ p.selected = draft.selected
      /\ validate_expected_output(p, draft.expected)
      /\ p.argv = transcode_argv(input.path, p.temporary, video.index, Index(audio), None)
  BY <1>3 DEF validate_transcode_plan, validate_web_expectations
<1>5. CompileRefusal(op, p.inputs) = None
  BY <1>1, <1>4
     DEF CompileRefusal, NoSizedVideo, default_video, stream_dimensions_for_plan
<1>6. p.argv = Part(draft.argv, "output", p.temporary)
  BY <1>3, <1>4, TranscodeOutput
<1>7. Redrafted(p, draft)
  BY <1>1, <1>2, <1>3, <1>4, <1>5, <1>6, ValidExpected DEF Redrafted, Redraft, op
<1> QED
  BY <1>7

LEMMA ResizeRedrafted ==
  ASSUME NEW p, validate_resize_plan(p), p.operation.type = "resize", DocumentShape(p)
  PROVE  \E draft : Redrafted(p, draft)
<1>1. PICK w, h, planned, mode, rotation :
        p.operation = [type |-> "resize", requested |-> <<w, h>>, output |-> planned,
                       mode |-> mode, rotation |-> rotation]
  BY DEF DocumentShape, OperationShape
<1> DEFINE input  == p.inputs[1]
           video  == Video(input)
           audio  == Audio(input)
           source == Rotated(Size(video), rotation)
           size   == IF mode = "fit" THEN fit_dimensions(source[1], source[2], w, h)
                     ELSE <<w, h>>
           filter == resize_filter(<<w, h>>, size, mode, rotation)
           op     == RecipeOperation(p)
           tolerance == p.expected.tolerance
           draft  == CompileResize(op, p.inputs, tolerance)
<1>2. op = [type |-> "resize", width |-> w, height |-> h, mode |-> mode, rotation |-> rotation]
  BY <1>1 DEF RecipeOperation
<1> HIDE DEF op
<1>3. Compile(op, p.inputs, tolerance) = draft
  BY <1>2 DEF Compile
<1>4. /\ draft.operation = [type |-> "resize", requested |-> <<w, h>>, output |-> size,
                            mode |-> mode, rotation |-> rotation]
      /\ draft.selected = selected_streams(1, video, audio)
      /\ draft.expected = expected_web_output(input, video, size, audio, tolerance)
      /\ draft.argv = transcode_argv(input.path, None, video.index, Index(audio), filter)
  BY <1>2 DEF CompileResize, CompileWeb
<1> HIDE DEF draft, size
<1>5. /\ default_video(input) /\ stream_dimensions_for_plan(video)
      /\ size = planned
      /\ p.selected = draft.selected
      /\ validate_expected_output(p, draft.expected)
      /\ p.argv = transcode_argv(input.path, p.temporary, video.index, Index(audio), filter)
  BY <1>1, <1>4 DEF validate_resize_plan, validate_web_expectations, size
<1>6. CompileRefusal(op, p.inputs) = None
  <2>1. mode = "fit" => ~FitPanics(source[1], source[2], w, h)
    BY <1>1 DEF DocumentShape, Divides
  <2> QED
    BY <1>2, <1>5, <2>1
       DEF CompileRefusal, NoSizedVideo, default_video, stream_dimensions_for_plan
<1>7. p.argv = Part(draft.argv, "output", p.temporary)
  BY <1>4, <1>5, TranscodeOutput
<1>8. Redrafted(p, draft)
  BY <1>1, <1>3, <1>4, <1>5, <1>6, <1>7, ValidExpected DEF Redrafted, Redraft, op
<1> QED
  BY <1>8

LEMMA ExtractRedrafted ==
  ASSUME NEW p, validate_extract_audio_plan(p), p.operation.type = "extract_audio",
         DocumentShape(p)
  PROVE  \E draft : Redrafted(p, draft)
<1> DEFINE input == p.inputs[1]
           audio == Audio(input)
           op    == RecipeOperation(p)
           tolerance == p.expected.tolerance
           draft == CompileExtractAudio(op, p.inputs, tolerance)
<1>1. op = [type |-> "extract_audio"] /\ p.operation = [type |-> "extract_audio"]
  BY DEF RecipeOperation, DocumentShape, OperationShape
<1> HIDE DEF op
<1>2. Compile(op, p.inputs, tolerance) = draft
  BY <1>1 DEF Compile
<1>3. /\ draft.operation = [type |-> "extract_audio"]
      /\ draft.selected = selected_audio_stream(audio)
      /\ draft.expected = ExpectedAudioOnly(input, audio, None, tolerance)
      /\ draft.argv = extract_audio_argv(input.path, None, audio.index)
  BY DEF CompileExtractAudio, CompileAudio
<1> HIDE DEF draft
<1>4. /\ audio /= None
      /\ p.selected = draft.selected
      /\ validate_expected_output(p, draft.expected)
      /\ p.argv = extract_audio_argv(input.path, p.temporary, audio.index)
  BY <1>3 DEF validate_extract_audio_plan, ValidAudio
<1>5. CompileRefusal(op, p.inputs) = None
  BY <1>1, <1>4 DEF CompileRefusal
<1>6. p.argv = Part(draft.argv, "output", p.temporary)
  BY <1>3, <1>4, AudioOutput
<1>7. Redrafted(p, draft)
  BY <1>1, <1>2, <1>3, <1>4, <1>5, <1>6, ValidExpected DEF Redrafted, Redraft, op
<1> QED
  BY <1>7

LEMMA NormalizeRedrafted ==
  ASSUME NEW p, validate_normalize_audio_plan(p), p.operation.type = "normalize_audio",
         DocumentShape(p)
  PROVE  \E draft : Redrafted(p, draft)
<1>1. PICK target, margin :
        p.operation = [type |-> "normalize_audio", target |-> target, tolerance |-> margin]
  BY DEF DocumentShape, OperationShape
<1> DEFINE input == p.inputs[1]
           audio == Audio(input)
           loudness == [target |-> target, tolerance |-> margin]
           op    == RecipeOperation(p)
           tolerance == p.expected.tolerance
           draft == NormalizeTo(target, margin, p.inputs, tolerance)
<1>2. op.type = "normalize_audio"
  BY <1>1 DEF RecipeOperation
<1> HIDE DEF op
<1>3. Redraft(p) = draft
  BY <1>1 DEF Redraft
<1>4. /\ draft.operation = [type |-> "normalize_audio", target |-> target, tolerance |-> margin]
      /\ draft.selected = selected_audio_stream(audio)
      /\ draft.expected = ExpectedAudioOnly(input, audio, loudness, tolerance)
      /\ draft.argv = normalize_audio_argv(input.path, None, audio.index, target)
  BY DEF NormalizeTo, CompileAudio
<1> HIDE DEF draft
<1>5. ValidAudio(p, loudness, normalize_audio_argv(input.path, p.temporary, audio.index, target))
  <2>1. p.operation.target = target /\ p.operation.tolerance = margin
    BY <1>1
  <2> QED
    BY <2>1, Zenon DEF validate_normalize_audio_plan
<1>6. /\ audio /= None
      /\ p.selected = draft.selected
      /\ validate_expected_output(p, draft.expected)
      /\ p.argv = normalize_audio_argv(input.path, p.temporary, audio.index, target)
  BY <1>4, <1>5 DEF ValidAudio
<1>7. CompileRefusal(op, p.inputs) = None
  BY <1>2, <1>6 DEF CompileRefusal
<1>8. p.argv = Part(draft.argv, "output", p.temporary)
  BY <1>4, <1>6, NormalizeOutput
<1>9. Redrafted(p, draft)
  BY <1>1, <1>3, <1>4, <1>6, <1>7, <1>8, ValidExpected DEF Redrafted, op
<1> QED
  BY <1>9

LEMMA ConcatenateRedrafted ==
  ASSUME NEW p, validate_concatenate_plan(p), p.operation.type = "concatenate",
         DocumentShape(p)
  PROVE  \E draft : Redrafted(p, draft)
<1>1. PICK count, duration :
        p.operation = [type |-> "concatenate", count |-> count, duration |-> duration]
  BY DEF DocumentShape, OperationShape
<1> DEFINE inputs == p.inputs
           first == Video(inputs[1])
           paths == [i \in DOMAIN inputs |-> inputs[i].path]
           op    == RecipeOperation(p)
           tolerance == p.expected.tolerance
           draft == CompileConcatenate(op, inputs, tolerance)
<1>2. op = [type |-> "concatenate"]
  BY <1>1 DEF RecipeOperation
<1> HIDE DEF op
<1>3. Compile(op, p.inputs, tolerance) = draft
  BY <1>2 DEF Compile
<1>4. /\ draft.operation = [type |-> "concatenate", count |-> Len(inputs),
                            duration |-> JoinedDuration(inputs)]
      /\ draft.selected = ConcatSelection(inputs)
      /\ draft.expected = ExpectedJoined(inputs, tolerance)
      /\ draft.argv = concatenate_argv(paths, None, Segments(inputs), HasAudio(inputs))
  BY DEF CompileConcatenate
<1>5. /\ p.operation.count = Len(inputs) /\ p.operation.duration = JoinedDuration(inputs)
      /\ p.selected = ConcatSelection(inputs)
      /\ validate_expected_output(p, ExpectedJoined(inputs, tolerance))
      /\ p.argv = concatenate_argv(paths, p.temporary, Segments(inputs), HasAudio(inputs))
      /\ \A i \in DOMAIN inputs :
           /\ default_video(inputs[i]) /\ stream_dimensions_for_plan(Video(inputs[i]))
           /\ Size(Video(inputs[i])) = Size(first) /\ Video(inputs[i]).rate = first.rate
      /\ HasAudio(inputs) \/ \A i \in DOMAIN inputs : Audio(inputs[i]) = None
  BY Zenon DEF validate_concatenate_plan
<1> HIDE DEF draft, paths
<1>6. CompileRefusal(op, p.inputs) = None
  <2>1. ~((\E i \in DOMAIN inputs : NoSizedVideo(inputs[i])) \/ Mismatched(inputs))
    BY <1>5, Zenon
       DEF NoSizedVideo, Mismatched, HasAudio, default_video, stream_dimensions_for_plan
  <2> QED
    BY <1>2, <2>1 DEF CompileRefusal
<1>7. p.argv = Part(draft.argv, "output", p.temporary)
  BY <1>4, <1>5, ConcatenateOutput
<1>8. p.operation = draft.operation
  BY <1>1, <1>4, <1>5
<1>9. validate_expected_output(p, draft.expected) /\ p.selected = draft.selected
  BY <1>4, <1>5
<1>10. Redrafted(p, draft)
  BY <1>3, <1>6, <1>7, <1>8, <1>9, ValidExpected DEF Redrafted, Redraft, op
<1> QED
  BY <1>10

LEMMA ThumbnailRedrafted ==
  ASSUME NEW p, validate_thumbnail_plan(p), p.operation.type = "thumbnail", DocumentShape(p)
  PROVE  \E draft : Redrafted(p, draft)
<1>1. PICK at, w, h :
        /\ at \in Nat
        /\ p.operation = [type |-> "thumbnail", at |-> at, size |-> <<w, h>>]
  BY DEF DocumentShape, OperationShape
<1> DEFINE input == p.inputs[1]
           video == Video(input)
           size  == <<w, AspectHeight(Size(video), w)>>
           op    == RecipeOperation(p)
           tolerance == p.expected.tolerance
           draft == CompileThumbnail(op, p.inputs, tolerance)
<1>2. op = [type |-> "thumbnail", at |-> at, width |-> w]
  BY <1>1 DEF RecipeOperation
<1> HIDE DEF op
<1>3. Compile(op, p.inputs, tolerance) = draft
  BY <1>2 DEF Compile
<1>4. /\ draft.operation = [type |-> "thumbnail", at |-> at, size |-> size]
      /\ draft.selected = selected_image_stream(video)
      /\ draft.expected = expected_jpeg(size)
      /\ draft.argv = thumbnail_argv(input.path, None, video.index, at, size)
  BY <1>2 DEF CompileThumbnail, CompileImage
<1> HIDE DEF draft
<1>5. /\ default_video(input) /\ stream_dimensions_for_plan(video)
      /\ input.duration = None \/ at < input.duration
      /\ size = <<w, h>>
      /\ validate_image_expectations(p, video, <<w, h>>)
      /\ p.argv = thumbnail_argv(input.path, p.temporary, video.index, at, <<w, h>>)
  BY <1>1 DEF validate_thumbnail_plan
<1>6. validate_expected_output(p, draft.expected) /\ p.selected = draft.selected
  BY <1>4, <1>5 DEF validate_image_expectations
<1>7. CompileRefusal(op, p.inputs) = None
  <2>1. Size(video)[1] /= 0 /\ input.duration \in Optional(Nat)
    BY <1>1 DEF DocumentShape, Divides
  <2>2. ~(input.duration /= None /\ at >= input.duration)
    BY <1>1, <1>5, <2>1 DEF Optional
  <2> QED
    BY <1>2, <1>5, <2>1, <2>2
       DEF CompileRefusal, NoSizedVideo, default_video, stream_dimensions_for_plan
<1> HIDE DEF size
<1>8. p.argv = Part(draft.argv, "output", p.temporary)
  BY <1>4, <1>5, ThumbnailOutput
<1>9. Redrafted(p, draft)
  BY <1>1, <1>3, <1>4, <1>5, <1>6, <1>7, <1>8, ValidExpected DEF Redrafted, Redraft, op
<1> QED
  BY <1>9

LEMMA ContactSheetRedrafted ==
  ASSUME NEW p, validate_contact_sheet_plan(p), p.operation.type = "contact_sheet",
         DocumentShape(p)
  PROVE  \E draft : Redrafted(p, draft)
<1>1. PICK interval, columns, rows, w, h :
        p.operation = [type |-> "contact_sheet", interval |-> interval, columns |-> columns,
                       rows |-> rows, size |-> <<w, h>>]
  BY DEF DocumentShape, OperationShape
<1> DEFINE input == p.inputs[1]
           video == Video(input)
           width == w \div columns
           cell  == <<width, AspectHeight(Size(video), width)>>
           size  == <<w, AtMost(cell[2] * rows, MaxU32)>>
           op    == RecipeOperation(p)
           tolerance == p.expected.tolerance
           draft == CompileContactSheet(op, p.inputs, tolerance)
<1>2. op = [type |-> "contact_sheet", interval |-> interval, columns |-> columns,
            rows |-> rows, width |-> w]
  BY <1>1 DEF RecipeOperation
<1> HIDE DEF op
<1>3. Compile(op, p.inputs, tolerance) = draft
  BY <1>2 DEF Compile
<1>4. /\ draft.operation = [type |-> "contact_sheet", interval |-> interval,
                            columns |-> columns, rows |-> rows, size |-> size]
      /\ draft.selected = selected_image_stream(video)
      /\ draft.expected = expected_jpeg(size)
      /\ draft.argv = contact_sheet_argv(input.path, None, video.index, interval, columns,
                                         rows, cell)
  BY <1>2 DEF CompileContactSheet, CompileImage
<1> HIDE DEF draft
<1>5. /\ default_video(input) /\ stream_dimensions_for_plan(video)
      /\ size = <<w, h>>
      /\ validate_image_expectations(p, video, <<w, h>>)
      /\ p.argv = contact_sheet_argv(input.path, p.temporary, video.index, interval, columns,
                                     rows, cell)
  BY <1>1 DEF validate_contact_sheet_plan
<1>6. validate_expected_output(p, draft.expected) /\ p.selected = draft.selected
  BY <1>4, <1>5 DEF validate_image_expectations
<1>7. CompileRefusal(op, p.inputs) = None
  <2>1. Size(video)[1] /= 0
    BY <1>1 DEF DocumentShape, Divides
  <2> QED
    BY <1>2, <1>5, <2>1
       DEF CompileRefusal, NoSizedVideo, default_video, stream_dimensions_for_plan
<1> HIDE DEF size, cell
<1>8. p.argv = Part(draft.argv, "output", p.temporary)
  BY <1>4, <1>5, ImageOutput DEF contact_sheet_argv
<1>9. Redrafted(p, draft)
  BY <1>1, <1>3, <1>4, <1>5, <1>6, <1>7, <1>8, ValidExpected DEF Redrafted, Redraft, op
<1> QED
  BY <1>9

LEMMA BurnRedrafted ==
  ASSUME NEW p, validate_burn_subtitles_plan(p), p.operation.type = "burn_subtitles",
         DocumentShape(p)
  PROVE  \E draft : Redrafted(p, draft)
<1> DEFINE media    == p.inputs[1]
           video    == Video(media)
           audio    == Audio(media)
           subtitle == Subtitle(p.inputs[2])
           filter   == subtitles_filter(p.inputs[2].path)
           op       == RecipeOperation(p)
           tolerance == p.expected.tolerance
           web      == CompileWeb([type |-> "burn_subtitles"], p.inputs, Size(video), filter,
                                  tolerance)
           selected == web.selected \o selected_subtitle_stream(subtitle)
           warnings == dropped_stream_warnings(1, media, selected)
                         \o dropped_stream_warnings(2, p.inputs[2], selected)
                         \o <<Warning("subtitles_burned")>>
           draft    == CompileBurnSubtitles(op, p.inputs, tolerance)
<1>1. op = [type |-> "burn_subtitles"] /\ p.operation = [type |-> "burn_subtitles"]
  BY DEF RecipeOperation, DocumentShape, OperationShape
<1> HIDE DEF op
<1>2. Compile(op, p.inputs, tolerance) = draft
  BY <1>1 DEF Compile
<1>3. /\ web.operation = [type |-> "burn_subtitles"]
      /\ web.selected = selected_streams(1, video, audio)
      /\ web.expected = expected_web_output(media, video, Size(video), audio, tolerance)
      /\ web.argv = transcode_argv(media.path, None, video.index, Index(audio), filter)
      /\ DOMAIN web = {"operation", "selected", "expected", "warnings", "argv"}
  BY DEF CompileWeb
<1>4. draft = Part(Part(web, "selected", selected), "warnings", warnings)
  BY Zenon DEF CompileBurnSubtitles, Part
<1> HIDE DEF draft, web, warnings
<1>5. /\ draft.operation = web.operation /\ draft.selected = selected
      /\ draft.expected = web.expected /\ draft.argv = web.argv
  <2> HIDE DEF selected
  <2> QED
    BY <1>3, <1>4 DEF Part
<1>6. /\ default_video(media) /\ stream_dimensions_for_plan(video) /\ subtitle /= None
      /\ p.selected = selected_streams(1, video, audio) \o selected_subtitle_stream(subtitle)
      /\ validate_expected_output(p, expected_web_output(media, video, Size(video), audio,
                                                         tolerance))
      /\ p.argv = transcode_argv(media.path, p.temporary, video.index, Index(audio), filter)
  BY Zenon DEF validate_burn_subtitles_plan
<1>7. CompileRefusal(op, p.inputs) = None
  BY <1>1, <1>6 DEF CompileRefusal, NoSizedVideo, default_video, stream_dimensions_for_plan
<1>8. p.argv = Part(draft.argv, "output", p.temporary)
  BY <1>3, <1>5, <1>6, TranscodeOutput
<1>9. validate_expected_output(p, draft.expected) /\ p.selected = draft.selected
  BY <1>3, <1>5, <1>6
<1>10. p.operation = draft.operation
  BY <1>1, <1>3, <1>5
<1>11. Redrafted(p, draft)
  BY <1>2, <1>7, <1>8, <1>9, <1>10, ValidExpected DEF Redrafted, Redraft, op
<1> QED
  BY <1>11

\* An accepted clip is cut from streams that its input has.
LEMMA ClipRecut ==
  ASSUME NEW p, validate_plan(p), p.operation.type = "clip", DocumentShape(p)
  PROVE  Recut(p)
<1>1. PICK start, end, length :
        p.operation = [type |-> "clip", start |-> start, end |-> end, duration |-> length]
  BY DEF DocumentShape, OperationShape
<1> DEFINE input   == p.inputs[1]
           streams == input.streams
           videos  == selected_kind(p, "video")
           audios  == selected_kind(p, "audio")
           video   == input_stream(input, videos[1].index, "video")
           audio   == input_stream(input, audios[1].index, "audio")
           sound   == IF audios = <<>> THEN None ELSE audio
           web     == expected_web_output(input, video, Size(video), sound, p.expected.tolerance)
           draft   == ClipOf(p.operation, p.inputs, video, sound, p.expected.tolerance)
<1>2. /\ validate_clip_plan(p)
      /\ p.operation.start = start /\ p.operation.end = end /\ p.operation.duration = length
  BY <1>1 DEF validate_plan, ValidOperation
<1>3. /\ start < end /\ end - start = length
      /\ input.duration /= None /\ end <= input.duration
      /\ p.expected.duration = length
      /\ video /= None /\ (audios /= <<>> => audio /= None)
      /\ p.selected = selected_streams(1, video, sound)
      /\ stream_dimensions_for_plan(video)
      /\ p.expected.video = expected_video("h264", Size(video), video.rate)
      /\ p.expected.audio = IF sound = None THEN None ELSE ExpectedAac(sound.channels, None)
      /\ p.checks = verification_checks_with_size(p.expected, p.resources.budgets.output)
      /\ p.argv = clip_argv(input.path, p.temporary, start, length, video.index, Index(sound))
  BY <1>2, Zenon DEF validate_clip_plan
<1>4. ASSUME NEW index, NEW kind, input_stream(input, index, kind) /= None
      PROVE  LET stream == input_stream(input, index, kind)
             IN  stream \in ToSet(streams) /\ stream.kind = kind
  <2> DEFINE named == {i \in OfKind(streams, kind) : streams[i].index = index}
  <2>1. named \in SUBSET (1..Len(streams)) /\ streams \in Seq(StreamSummary)
    BY DEF DocumentShape, Divides, OfKind
  <2>2. PICK i \in named : FirstAt(streams, named) = streams[i]
    BY <1>4, <2>1, FirstAtElement DEF input_stream
  <2>3. i \in DOMAIN streams /\ streams[i].kind = kind
    BY DEF OfKind
  <2> QED
    BY <2>2, <2>3 DEF input_stream, ToSet
<1>5. video \in ToSet(streams) /\ video.kind = "video"
  BY <1>3, <1>4
<1>6. sound /= None => sound \in ToSet(streams) /\ sound.kind = "audio"
  BY <1>4
<1> HIDE DEF video, audio, audios, sound
<1>7. /\ draft.operation = [type |-> "clip", start |-> start, end |-> end,
                            duration |-> end - start]
      /\ draft.selected = selected_streams(1, video, sound)
      /\ draft.argv = clip_argv(input.path, None, start, end - start, video.index, Index(sound))
      /\ draft.expected = Part(web, "duration", end - start)
  BY <1>2, Zenon DEF ClipOf, Part
<1> HIDE DEF draft
<1>8. /\ web.video = expected_video("h264", Size(video), video.rate)
      /\ web.audio = IF sound = None THEN None ELSE ExpectedAac(sound.channels, None)
      /\ DOMAIN web = {"container", "duration", "tolerance", "video", "audio"}
  BY DEF expected_web_output
<1> HIDE DEF web
<1>9. \A part \in {"duration", "video", "audio"} : p.expected[part] = draft.expected[part]
  <2>1. /\ draft.expected.duration = end - start /\ draft.expected.video = web.video
        /\ draft.expected.audio = web.audio
    BY <1>7, <1>8 DEF Part
  <2> QED
    BY <1>3, <1>8, <2>1
<1>10. Follows(p, draft)
  <2>1. p.resources = estimate_resources(p.inputs, p.expected, p.resources.budgets)
    BY DEF validate_plan, ValidResources
  <2>2. p.argv = Part(draft.argv, "output", p.temporary)
    BY <1>3, <1>7, ClipOutput
  <2>3. p.argv = [draft.argv EXCEPT !.output = p.temporary]
    BY <2>2, Zenon DEF Part
  <2> QED
    BY <1>1, <1>3, <1>7, <2>1, <2>3 DEF Follows
<1>11. video \in {s \in ToSet(streams) : s.kind = "video" /\ Size(s) /= None}
  BY <1>3, <1>5 DEF stream_dimensions_for_plan
<1>12. sound \in {s \in ToSet(streams) : s.kind = "audio"} \union {None}
  BY <1>6
<1> QED
  BY <1>2, <1>3, <1>9, <1>10, <1>11, <1>12 DEF Recut, draft

LEMMA ValidIsRecompiled ==
  ASSUME NEW p, validate_plan(p), DocumentShape(p), p.operation.type /= "clip"
  PROVE  Recompiled(p)
<1>1. ValidOperation(p) /\ p.operation.type \in Types
  BY DEF validate_plan, DocumentShape, OperationShape
<1>2. \E draft : Redrafted(p, draft)
  <2>1. CASE p.operation.type = "transcode"
    BY <1>1, <2>1, TranscodeRedrafted DEF ValidOperation
  <2>2. CASE p.operation.type = "resize"
    BY <1>1, <2>2, ResizeRedrafted DEF ValidOperation
  <2>3. CASE p.operation.type = "extract_audio"
    BY <1>1, <2>3, ExtractRedrafted DEF ValidOperation
  <2>4. CASE p.operation.type = "normalize_audio"
    BY <1>1, <2>4, NormalizeRedrafted DEF ValidOperation
  <2>5. CASE p.operation.type = "concatenate"
    BY <1>1, <2>5, ConcatenateRedrafted DEF ValidOperation
  <2>6. CASE p.operation.type = "thumbnail"
    BY <1>1, <2>6, ThumbnailRedrafted DEF ValidOperation
  <2>7. CASE p.operation.type = "contact_sheet"
    BY <1>1, <2>7, ContactSheetRedrafted DEF ValidOperation
  <2>8. CASE p.operation.type = "burn_subtitles"
    BY <1>1, <2>8, BurnRedrafted DEF ValidOperation
  <2> QED
    BY <1>1, <2>1, <2>2, <2>3, <2>4, <2>5, <2>6, <2>7, <2>8 DEF Types
<1> QED
  BY <1>2, RedraftedIsRecompiled

\* Whatever its identity and whoever sealed it, an accepted plan is one that the
\* compiler could have written for the inputs that the plan itself names: with
\* its own loudness, and, for a clip, with streams of the plan's choice.
THEOREM AcceptedPlansAreRecompiled == Spec => []AcceptedIsRecompiled
<1>1. ASSUME DocumentInv PROVE AcceptedIsRecompiled
  <2> SUFFICES ASSUME applying /= None
               PROVE  IF applying.plan.operation.type = "clip" THEN Recut(applying.plan)
                      ELSE Recompiled(applying.plan)
    BY DEF AcceptedIsRecompiled
  <2>1. applying.plan = planFile /\ PlanRefusal = None
    BY <1>1 DEF DocumentInv, PlanInv, Applies
  <2>2. validate_plan(applying.plan) /\ DocumentShape(applying.plan)
    BY <1>1, <2>1, AcceptedShape
  <2> QED
    BY <2>2, ValidIsRecompiled, ClipRecut
<1> QED
  BY <1>1, DocumentInvariance, PTL

-----------------------------------------------------------------------------
(* The checks of an accepted document.                                     *)

LEMMA ValidChecks ==
  ASSUME NEW p, validate_plan(p), DocumentShape(p)
  PROVE  p.checks = verification_checks_with_size(p.expected, p.resources.budgets.output)
<1>1. ValidOperation(p) /\ p.operation.type \in Types
  BY DEF validate_plan, DocumentShape, OperationShape
<1>2. CASE p.operation.type = "clip"
  <2>1. validate_clip_plan(p)
    BY <1>1, <1>2 DEF ValidOperation
  <2> QED
    BY <2>1, Zenon DEF validate_clip_plan
<1>3. CASE p.operation.type = "transcode"
  BY <1>1, <1>3, TranscodeRedrafted DEF ValidOperation, Redrafted
<1>4. CASE p.operation.type = "resize"
  BY <1>1, <1>4, ResizeRedrafted DEF ValidOperation, Redrafted
<1>5. CASE p.operation.type = "extract_audio"
  BY <1>1, <1>5, ExtractRedrafted DEF ValidOperation, Redrafted
<1>6. CASE p.operation.type = "normalize_audio"
  <2>1. validate_normalize_audio_plan(p)
    BY <1>1, <1>6 DEF ValidOperation
  <2>2. \E expected : validate_expected_output(p, expected)
    BY <2>1, Zenon DEF validate_normalize_audio_plan, ValidAudio
  <2> QED
    BY <2>2, ValidExpected
<1>7. CASE p.operation.type = "concatenate"
  BY <1>1, <1>7, ConcatenateRedrafted DEF ValidOperation, Redrafted
<1>8. CASE p.operation.type = "thumbnail"
  BY <1>1, <1>8, ThumbnailRedrafted DEF ValidOperation, Redrafted
<1>9. CASE p.operation.type = "contact_sheet"
  BY <1>1, <1>9, ContactSheetRedrafted DEF ValidOperation, Redrafted
<1>10. CASE p.operation.type = "burn_subtitles"
  BY <1>1, <1>10, BurnRedrafted DEF ValidOperation, Redrafted
<1> QED
  BY <1>1, <1>2, <1>3, <1>4, <1>5, <1>6, <1>7, <1>8, <1>9, <1>10 DEF Types

\* The names of the checks that a report holds, and of those a plan promises.
Names(checks) == [i \in DOMAIN checks |-> checks[i].check]
Promised(checks) == [i \in DOMAIN checks |-> CheckName(checks[i])]

\* A report and a plan whose checks have the same names, piece by piece.
SameNames(T, performed, planned) ==
  performed \in Seq(T) /\ planned \in Seq(T) /\ Names(performed) = Promised(planned)

LEMMA NamesJoined ==
  ASSUME NEW T, NEW a, NEW b, NEW c, NEW d, SameNames(T, a, b), SameNames(T, c, d)
  PROVE  SameNames(T, a \o c, b \o d)
<1>1. a \in Seq(T) /\ b \in Seq(T) /\ c \in Seq(T) /\ d \in Seq(T)
  BY DEF SameNames
<1>2. /\ a \o c \in Seq(T) /\ Len(a \o c) = Len(a) + Len(c)
      /\ \A i \in 1..Len(a) + Len(c) :
           (a \o c)[i] = IF i <= Len(a) THEN a[i] ELSE c[i - Len(a)]
  BY <1>1, ConcatProperties
<1>3. /\ b \o d \in Seq(T) /\ Len(b \o d) = Len(b) + Len(d)
      /\ \A i \in 1..Len(b) + Len(d) :
           (b \o d)[i] = IF i <= Len(b) THEN b[i] ELSE d[i - Len(b)]
  BY <1>1, ConcatProperties
<1>4. /\ DOMAIN a = 1..Len(a) /\ DOMAIN b = 1..Len(b) /\ DOMAIN c = 1..Len(c)
      /\ DOMAIN d = 1..Len(d) /\ DOMAIN (a \o c) = 1..Len(a \o c)
      /\ DOMAIN (b \o d) = 1..Len(b \o d)
      /\ Len(a) \in Nat /\ Len(b) \in Nat /\ Len(c) \in Nat /\ Len(d) \in Nat
  BY <1>1, <1>2, <1>3, LenProperties
<1>5. /\ DOMAIN Names(a) = DOMAIN Promised(b) /\ DOMAIN Names(c) = DOMAIN Promised(d)
      /\ \A i \in 1..Len(a) : a[i].check = CheckName(b[i])
      /\ \A i \in 1..Len(c) : c[i].check = CheckName(d[i])
  <2>1. Names(a) = Promised(b) /\ Names(c) = Promised(d)
    BY DEF SameNames
  <2>2. /\ \A i \in 1..Len(a) : Names(a)[i] = a[i].check
        /\ \A i \in 1..Len(c) : Names(c)[i] = c[i].check
        /\ \A i \in 1..Len(b) : Promised(b)[i] = CheckName(b[i])
        /\ \A i \in 1..Len(d) : Promised(d)[i] = CheckName(d[i])
    BY <1>4, Zenon DEF Names, Promised
  <2>3. DOMAIN Names(a) = 1..Len(a) /\ DOMAIN Promised(b) = 1..Len(b)
        /\ DOMAIN Names(c) = 1..Len(c) /\ DOMAIN Promised(d) = 1..Len(d)
    BY <1>4, Zenon DEF Names, Promised
  <2> QED
    BY <2>1, <2>2, <2>3
<1>6. Len(a) = Len(b) /\ Len(c) = Len(d)
  <2>1. 1..Len(a) = 1..Len(b) /\ 1..Len(c) = 1..Len(d)
    BY <1>4, <1>5 DEF Names, Promised
  <2>2. \A m, n \in Nat : 1..m = 1..n => m = n
    OBVIOUS
  <2> QED
    BY <1>4, <2>1, <2>2
<1>7. \A i \in 1..Len(a) + Len(c) : (a \o c)[i].check = CheckName((b \o d)[i])
  <2> TAKE i \in 1..Len(a) + Len(c)
  <2>1. CASE i <= Len(a)
    BY <1>2, <1>3, <1>4, <1>5, <1>6, <2>1
  <2>2. CASE ~(i <= Len(a))
    <3>1. i - Len(a) \in 1..Len(c)
      BY <1>4, <2>2
    <3> QED
      BY <1>2, <1>3, <1>4, <1>5, <1>6, <2>2, <3>1
  <2> QED
    BY <2>1, <2>2
<1> DEFINE whole == a \o c
           other == b \o d
           n     == Len(a) + Len(c)
<1>8. DOMAIN whole = 1..n /\ DOMAIN other = 1..n
  BY <1>2, <1>3, <1>4, <1>6
<1>9. \A i \in 1..n : whole[i].check = CheckName(other[i])
  BY <1>7
<1> HIDE DEF whole, other, n
<1>10. Names(whole) = Promised(other)
  BY <1>8, <1>9 DEF Names, Promised
<1> QED
  BY <1>2, <1>3, <1>10 DEF SameNames, whole, other

LEMMA NamesOfOne ==
  ASSUME NEW T, NEW a \in T, NEW b \in T, a.check = CheckName(b)
  PROVE  SameNames(T, <<a>>, <<b>>)
BY DEF SameNames, Names, Promised

LEMMA NamesOfNone == ASSUME NEW T PROVE SameNames(T, <<>>, <<>>)
BY DEF SameNames, Names, Promised

\* A report on a document whose checks follow from its expectations holds the
\* checks that the document promises, in their order.
LEMMA ReportHoldsChecks ==
  ASSUME NEW p, NEW file,
         p.checks = verification_checks_with_size(p.expected, p.resources.budgets.output)
  PROVE  Names(PerformedChecks(p, file)) = Promised(p.checks)
<1> DEFINE e  == p.expected
           a1 == check("parseable", TRUE)
           b1 == [check |-> "parseable"]
           a2 == check("container", file.container = e.container)
           b2 == [check |-> "container", name |-> e.container]
           a3 == check("duration", DurationPasses(e, file))
           b3 == [check |-> "duration", expected |-> e.duration, tolerance |-> e.tolerance]
           a4 == check("video", VideoPasses(e.video, FirstRendered(file, "video")))
           b4 == [check |-> "video", stream |-> e.video]
           a5 == check("audio", AudioPasses(e.audio, FirstRendered(file, "audio")))
           b5 == [check |-> "audio", codec |-> e.audio.codec, channels |-> e.audio.channels]
           a6 == check("integrated_loudness",
                       AbsDiff(file.loudness, e.audio.loudness.target)
                         <= e.audio.loudness.tolerance)
           b6 == [check |-> "loudness", loudness |-> e.audio.loudness]
           a7 == check("stream_layout", StreamLayout(file) = ExpectedLayout(e))
           b7 == [check |-> "stream_layout",
                  streams |-> <<One(e.video /= None), One(e.audio /= None), 0, 0>>]
           a8 == check("output_size", file.bytes <= p.resources.budgets.output)
           b8 == [check |-> "output_size", max |-> p.resources.budgets.output]
           a9 == check("distinct_from_inputs",
                       \A i \in DOMAIN p.inputs : file.sha /= p.inputs[i].sha)
           b9 == [check |-> "distinct_from_inputs"]
           T  == {a1, a2, a3, a4, a5, a6, a7, a8, a9, b1, b2, b3, b4, b5, b6, b7, b8, b9}
           timed  == IF e.duration = None THEN <<>> ELSE <<a3>>
           timely == IF e.duration = None THEN <<>> ELSE <<b3>>
           seen   == IF e.video = None THEN <<>> ELSE <<a4>>
           shown  == IF e.video = None THEN <<>> ELSE <<b4>>
           loud   == IF e.audio.loudness = None THEN <<>> ELSE <<a6>>
           level  == IF e.audio.loudness = None THEN <<>> ELSE <<b6>>
           heard  == IF e.audio = None THEN <<>> ELSE <<a5>> \o loud
           played == IF e.audio = None THEN <<>> ELSE <<b5>> \o level
           before == <<a1, a2>> \o timed \o seen \o heard
           after  == <<b1, b2>> \o timely \o shown \o played
<1>1. PerformedChecks(p, file) = before \o <<a7, a8, a9>>
  BY Zenon DEF PerformedChecks
<1>2. p.checks = (after \o <<b7>>) \o <<b8, b9>>
  BY Zenon DEF verification_checks_with_size, verification_checks
<1>3. /\ a1.check = CheckName(b1) /\ a2.check = CheckName(b2) /\ a3.check = CheckName(b3)
      /\ a4.check = CheckName(b4) /\ a5.check = CheckName(b5) /\ a6.check = CheckName(b6)
      /\ a7.check = CheckName(b7) /\ a8.check = CheckName(b8) /\ a9.check = CheckName(b9)
  BY DEF check, CheckName
<1> HIDE DEF a1, a2, a3, a4, a5, a6, a7, a8, a9, b1, b2, b3, b4, b5, b6, b7, b8, b9
<1>4. /\ a1 \in T /\ a2 \in T /\ a3 \in T /\ a4 \in T /\ a5 \in T /\ a6 \in T /\ a7 \in T
      /\ a8 \in T /\ a9 \in T /\ b1 \in T /\ b2 \in T /\ b3 \in T /\ b4 \in T /\ b5 \in T
      /\ b6 \in T /\ b7 \in T /\ b8 \in T /\ b9 \in T
  OBVIOUS
<1> HIDE DEF T
<1>5. SameNames(T, <<a1, a2>>, <<b1, b2>>) /\ SameNames(T, <<a8, a9>>, <<b8, b9>>)
  BY <1>3, <1>4 DEF SameNames, Names, Promised
<1>6. SameNames(T, timed, timely) /\ SameNames(T, seen, shown) /\ SameNames(T, loud, level)
      /\ SameNames(T, <<a5>>, <<b5>>) /\ SameNames(T, <<a7>>, <<b7>>)
  BY <1>3, <1>4, NamesOfOne, NamesOfNone
<1> HIDE DEF timed, timely, seen, shown, loud, level
<1>7. SameNames(T, heard, played)
  BY <1>6, NamesJoined, NamesOfNone
<1> HIDE DEF heard, played
<1>8. SameNames(T, before, after)
  BY <1>5, <1>6, <1>7, NamesJoined
<1> HIDE DEF before, after
<1>9. SameNames(T, (before \o <<a7>>) \o <<a8, a9>>, (after \o <<b7>>) \o <<b8, b9>>)
  BY <1>5, <1>6, <1>8, NamesJoined
<1>10. (before \o <<a7>>) \o <<a8, a9>> = before \o <<a7, a8, a9>>
  <2>1. <<a7>> \o <<a8, a9>> = <<a7, a8, a9>>
    <3> DEFINE one == <<a7>>
               two == <<a8, a9>>
               three == <<a7, a8, a9>>
    <3>1. one \in Seq(T) /\ two \in Seq(T) /\ three \in Seq(T)
      BY <1>4
    <3>2. Len(one) = 1 /\ Len(two) = 2 /\ Len(three) = 3
      OBVIOUS
    <3>3. /\ one[1] = a7 /\ two[1] = a8 /\ two[2] = a9
          /\ three[1] = a7 /\ three[2] = a8 /\ three[3] = a9
      OBVIOUS
    <3> HIDE DEF one, two, three
    <3>4. /\ one \o two \in Seq(T) /\ Len(one \o two) = 3
          /\ \A i \in 1..3 : (one \o two)[i] = IF i <= 1 THEN one[i] ELSE two[i - 1]
      <4>1. /\ one \o two \in Seq(T) /\ Len(one \o two) = Len(one) + Len(two)
            /\ \A i \in 1..Len(one) + Len(two) :
                 (one \o two)[i] = IF i <= Len(one) THEN one[i] ELSE two[i - Len(one)]
        BY <3>1, ConcatProperties
      <4> QED
        BY <3>2, <4>1
    <3>5. \A i \in 1..3 : (one \o two)[i] = three[i]
      BY <3>3, <3>4
    <3>6. one \o two = three
      BY <3>1, <3>2, <3>4, <3>5, SeqEqual
    <3> QED
      BY <3>6 DEF one, two, three
  <2>2. before \in Seq(T) /\ <<a7>> \in Seq(T) /\ <<a8, a9>> \in Seq(T)
    BY <1>5, <1>6, <1>8 DEF SameNames
  <2> QED
    BY <2>1, <2>2, ConcatAssociative
<1> QED
  BY <1>1, <1>2, <1>9, <1>10 DEF SameNames

\* Every check that a published plan promises is in its receipt, and no other,
\* whoever sealed the plan.
THEOREM PlannedChecksAreAllPerformed == Spec => []PlannedChecksArePerformed
<1>1. Init => PlannedChecksArePerformed
  BY DEF Init, PlannedChecksArePerformed
<1>2. ASSUME DocumentInv, PlannedChecksArePerformed, [Next]_vars
      PROVE  PlannedChecksArePerformed'
  <2>1. CASE ApplySucceeds
    <3> DEFINE p      == applying.plan
               report == verify_output(p, applying.file)
    <3>1. PICK now \in Readings : receipt' = Receipt(p, report, applying.started, now)
      BY <2>1 DEF ApplySucceeds
    <3>2. validate_plan(p) /\ DocumentShape(p)
      BY <1>2, <2>1, AcceptedShape DEF ApplySucceeds, DocumentInv, PlanInv, Applies
    <3>3. Names(PerformedChecks(p, applying.file)) = Promised(p.checks)
      BY <3>2, ValidChecks, ReportHoldsChecks
    <3>4. /\ receipt'.verification.checks = PerformedChecks(p, applying.file)
          /\ receipt'.plan_digest = p
      BY <3>1 DEF Receipt, verify_output
    <3> HIDE DEF p
    <3>5. Names(receipt'.verification.checks) = Promised(receipt'.plan_digest.checks)
      BY <3>3, <3>4
    <3> QED
      BY <3>5 DEF Names, Promised, PlannedChecksArePerformed
  <2>2. CASE receipt' = receipt
    BY <1>2, <2>2 DEF PlannedChecksArePerformed
  <2>3. ApplySucceeds \/ receipt' = receipt
    BY <1>2
       DEF Next, Plan, PlanRefused, PlanWritten, PlanCutShort, Apply, ApplyRefused,
           ApplyStarts, LimitExceeded, ApplyFails, Backend, BackendRenders, BackendDeviates,
           BackendFails, Verify, ShowReceipt, Others, EditPlan, ReplaceInput, ReplaceTools,
           ReplaceOutput, kept, vars
  <2> QED
    BY <2>1, <2>2, <2>3
<1> QED
  BY <1>1, <1>2, DocumentInvariance, PTL DEF Spec

-----------------------------------------------------------------------------
(* The streams of a rendered file.                                         *)

\* Streams each of which is of one of the kinds that ffprobe tells apart.
Kinded(T) == \A s \in T : "kind" \in DOMAIN s /\ s.kind \in StreamKind
KnownStreams(streams) == \E T : streams \in Seq(T) /\ Kinded(T)

LEMMA StreamRendered ==
  ASSUME NEW argv, argv.video /= None \/ argv.audio /= None
  PROVE  KnownStreams(Rendered(argv).streams) /\ Rendered(argv).streams /= <<>>
<1> DEFINE video == EncodedVideo(argv)
           audio == EncodedAudio(argv)
           T     == {video, audio}
<1>1. Kinded(T)
  BY DEF EncodedVideo, EncodedAudio, Kinded, StreamKind
<1>2. Rendered(argv).streams = (IF argv.video = None THEN <<>> ELSE <<video>>)
                                 \o (IF argv.audio = None THEN <<>> ELSE <<audio>>)
  BY DEF Rendered
<1> HIDE DEF video, audio
<1>3. <<video>> \in Seq(T) /\ <<audio>> \in Seq(T) /\ <<video>> /= <<>> /\ <<audio>> /= <<>>
  OBVIOUS
<1>4. CASE argv.video /= None /\ argv.audio /= None
  <2>1. Rendered(argv).streams = <<video>> \o <<audio>>
    BY <1>2, <1>4
  <2>2. <<video>> \o <<audio>> \in Seq(T) /\ <<video>> \o <<audio>> /= <<>>
    OBVIOUS
  <2> QED
    BY <1>1, <2>1, <2>2 DEF KnownStreams
<1>5. CASE argv.video /= None /\ argv.audio = None
  <2>1. Rendered(argv).streams = <<video>>
    BY <1>2, <1>3, <1>5, ConcatEmptySeq
  <2> QED
    BY <1>1, <1>3, <2>1 DEF KnownStreams
<1>6. CASE argv.video = None /\ argv.audio /= None
  <2>1. Rendered(argv).streams = <<audio>>
    BY <1>2, <1>3, <1>6, ConcatEmptySeq
  <2> QED
    BY <1>1, <1>3, <2>1 DEF KnownStreams
<1> QED
  BY <1>4, <1>5, <1>6

\* A stream changed in anything but its kind, one left out, one added.
LEMMA StreamChanged ==
  ASSUME NEW streams, KnownStreams(streams), NEW i \in DOMAIN streams,
         NEW field, field /= "kind", NEW value
  PROVE  KnownStreams(Part(streams, i, Part(streams[i], field, value)))
<1>1. PICK T : streams \in Seq(T) /\ Kinded(T)
  BY DEF KnownStreams
<1> DEFINE changed == Part(streams[i], field, value)
           Wider   == T \union {changed}
<1>2. DOMAIN streams = 1..Len(streams) /\ streams[i] \in T
  BY <1>1, LenProperties, ElementOfSeq
<1>3. "kind" \in DOMAIN changed /\ changed.kind \in StreamKind
  BY <1>1, <1>2 DEF Kinded, Part
<1> HIDE DEF changed
<1>4. Kinded(Wider)
  BY <1>1, <1>3 DEF Kinded
<1>5. streams \in Seq(Wider)
  BY <1>1, SeqMonotonic
<1>6. [streams EXCEPT ![i] = changed] \in Seq(Wider)
  BY <1>2, <1>5, ExceptSeq
<1> QED
  BY <1>4, <1>6 DEF KnownStreams, Part, changed

LEMMA StreamLeftOut ==
  ASSUME NEW streams, KnownStreams(streams)
  PROVE  KnownStreams(Front(streams))
<1>1. PICK T : streams \in Seq(T) /\ Kinded(T)
  BY DEF KnownStreams
<1>2. Len(streams) \in Nat /\ \A i \in 1..Len(streams) - 1 : streams[i] \in T
  BY <1>1, LenProperties, ElementOfSeq
<1>3. SubSeq(streams, 1, Len(streams) - 1) \in Seq(T)
  BY <1>2, SubSeqProperties
<1> QED
  BY <1>1, <1>3 DEF KnownStreams, Front

LEMMA StreamAdded ==
  ASSUME NEW streams, KnownStreams(streams), streams /= <<>>
  PROVE  KnownStreams(Append(streams, Part(streams[1], "kind", "subtitle")))
<1>1. PICK T : streams \in Seq(T) /\ Kinded(T)
  BY DEF KnownStreams
<1> DEFINE added == Part(streams[1], "kind", "subtitle")
           Wider == T \union {added}
<1>2. streams[1] \in T
  BY <1>1, EmptySeq, ElementOfSeq
<1>3. "kind" \in DOMAIN added /\ added.kind \in StreamKind
  BY <1>1, <1>2 DEF Kinded, Part, StreamKind
<1> HIDE DEF added
<1>4. Kinded(Wider)
  BY <1>1, <1>3 DEF Kinded
<1>5. streams \in Seq(Wider)
  BY <1>1, SeqMonotonic
<1>6. Append(streams, added) \in Seq(Wider)
  BY <1>5
<1> QED
  BY <1>4, <1>6 DEF KnownStreams, added

\* However the backend deviates, the streams of its file are of known kinds.
LEMMA DeviationKnown ==
  ASSUME NEW p, NEW file, FileShape(file), KnownStreams(file.streams), file.streams /= <<>>,
         NEW other \in Deviations(p, file)
  PROVE  KnownStreams(other.streams)
<1> DEFINE streams == file.streams
           last    == Len(file.streams)
           Restreamed(new) == other = Part(file, "streams", new)
           Stream(i, field, value) == Part(streams, i, Part(streams[i], field, value))
<1>1. 1 \in DOMAIN streams /\ last \in DOMAIN streams
  <2>1. PICK T : streams \in Seq(T)
    BY DEF KnownStreams
  <2>2. Len(streams) \in Nat \ {0} /\ DOMAIN streams = 1..Len(streams)
    BY <2>1, EmptySeq, LenProperties
  <2> QED
    BY <2>2
<1>2. "streams" \in DOMAIN file
  BY DEF FileShape
<1>3. ASSUME NEW new, Restreamed(new) PROVE other.streams = new
  BY <1>2, <1>3 DEF Part
<1>4. \/ \E field \in {"container", "duration", "bytes", "loudness", "sha"} : \E value :
           other = Part(file, field, value)
      \/ Restreamed(Front(streams))
      \/ Restreamed(Append(streams, Part(streams[1], "kind", "subtitle")))
      \/ \E i \in {1, last} : \E field \in {"codec", "width", "aspect", "rate", "channels"} :
           \E value : Restreamed(Stream(i, field, value))
  <2>1. \/ other = Part(file, "container", "other")
        \/ other = Part(file, "duration", IF file.duration = None THEN None
                                          ELSE file.duration + p.expected.tolerance + 1)
        \/ other = Part(file, "duration", None)
        \/ other = Part(file, "bytes", p.resources.budgets.output + 1)
        \/ other = Part(file, "loudness", file.loudness + 501)
        \/ other = Part(file, "loudness", None)
        \/ other = Part(file, "sha", p.inputs[Len(p.inputs)].sha)
        \/ Restreamed(Front(streams))
        \/ Restreamed(Append(streams, Part(streams[1], "kind", "subtitle")))
        \/ Restreamed(Stream(1, "codec", "other"))
        \/ Restreamed(Stream(1, "width", IF streams[1].width = None THEN None
                                         ELSE streams[1].width + 2))
        \/ Restreamed(Stream(1, "aspect", "4:3"))
        \/ Restreamed(Stream(1, "rate", "1/1"))
        \/ Restreamed(Stream(last, "channels", 1))
    BY Zenon DEF Deviations, Part
  <2>2. ASSUME NEW field \in {"container", "duration", "bytes", "loudness", "sha"}, NEW value,
               other = Part(file, field, value)
        PROVE  \E x \in {"container", "duration", "bytes", "loudness", "sha"} : \E v :
                 other = Part(file, x, v)
    BY <2>2, Zenon
  <2>3. ASSUME NEW i \in {1, last}, NEW value,
               NEW field \in {"codec", "width", "aspect", "rate", "channels"},
               Restreamed(Stream(i, field, value))
        PROVE  \E j \in {1, last} : \E x \in {"codec", "width", "aspect", "rate", "channels"} :
                 \E v : Restreamed(Stream(j, x, v))
    <3> HIDE DEF Restreamed, Stream, last
    <3> QED
      BY <2>3, Zenon
  <2> HIDE DEF Restreamed, Stream, streams, last
  <2> QED
    BY <2>1, <2>2, <2>3
<1>5. ASSUME NEW field, field /= "streams", NEW value, other = Part(file, field, value)
      PROVE  other.streams = streams
  BY <1>2, <1>5 DEF Part
<1>6. CASE \E field \in {"container", "duration", "bytes", "loudness", "sha"} : \E value :
             other = Part(file, field, value)
  BY <1>5, <1>6
<1>7. CASE Restreamed(Front(streams))
  BY <1>3, <1>7, StreamLeftOut
<1>8. CASE Restreamed(Append(streams, Part(streams[1], "kind", "subtitle")))
  BY <1>3, <1>8, StreamAdded
<1>9. ASSUME NEW i \in {1, last}, NEW field \in {"codec", "width", "aspect", "rate", "channels"},
             NEW value, Restreamed(Stream(i, field, value))
      PROVE  KnownStreams(other.streams)
  <2>1. other.streams = Stream(i, field, value)
    BY <1>3, <1>9
  <2>2. i \in DOMAIN streams /\ field /= "kind"
    BY <1>1, <1>9
  <2>3. KnownStreams(Stream(i, field, value))
    BY <2>2, StreamChanged
  <2> QED
    BY <2>1, <2>3
<1> HIDE DEF Restreamed, Stream
<1> QED
  BY <1>4, <1>6, <1>7, <1>8, <1>9

-----------------------------------------------------------------------------
(* What a report that passed says of a file.                               *)

LEMMA DisjointUnion ==
  ASSUME NEW S, IsFiniteSet(S), NEW T, IsFiniteSet(T), S \intersect T = {}
  PROVE  IsFiniteSet(S \union T) /\ Cardinality(S \union T) = Cardinality(S) + Cardinality(T)
<1>1. /\ IsFiniteSet(S \union T)
      /\ Cardinality(S \union T)
           = Cardinality(S) + Cardinality(T) - Cardinality(S \intersect T)
  BY FS_Union
<1>2. Cardinality(S \intersect T) = 0
  BY FS_EmptySet
<1>3. Cardinality(S) \in Nat /\ Cardinality(T) \in Nat
  BY FS_CardinalityType
<1> QED
  BY <1>1, <1>2, <1>3

\* The four counts of a layout leave no stream out.
LEMMA CountsCover ==
  ASSUME NEW file, KnownStreams(file.streams)
  PROVE  /\ Len(file.streams)
              = Count(file, {"video"}) + Count(file, {"audio"}) + Count(file, {"subtitle"})
                  + Count(file, {"data", "attachment", "unknown"})
         /\ \A kind : Count(file, {kind}) = 0 => FirstRendered(file, kind) = None
<1> DEFINE streams == file.streams
           n       == Len(streams)
           At(kinds) == {i \in DOMAIN streams : streams[i].kind \in kinds}
           V == At({"video"})
           A == At({"audio"})
           S == At({"subtitle"})
           O == At({"data", "attachment", "unknown"})
<1>1. PICK T : streams \in Seq(T) /\ Kinded(T)
  BY DEF KnownStreams
<1>2. n \in Nat /\ DOMAIN streams = 1..n
  BY <1>1, LenProperties
<1>3. \A i \in 1..n : streams[i].kind \in StreamKind
  BY <1>1, ElementOfSeq DEF Kinded
<1>4. IsFiniteSet(1..n) /\ Cardinality(1..n) = n
  BY <1>2, FS_Interval
<1>5. ASSUME NEW kinds PROVE IsFiniteSet(At(kinds)) /\ Cardinality(At(kinds)) \in Nat
  <2>1. At(kinds) \in SUBSET (1..n)
    BY <1>2
  <2> QED
    BY <1>4, <2>1, FS_Subset, FS_CardinalityType
<1>6. /\ V \union A \union S \union O = 1..n
      /\ V \intersect A = {} /\ (V \union A) \intersect S = {}
      /\ (V \union A \union S) \intersect O = {}
  BY <1>2, <1>3 DEF StreamKind
<1>7. /\ IsFiniteSet(V) /\ IsFiniteSet(A) /\ IsFiniteSet(S) /\ IsFiniteSet(O)
      /\ Cardinality(V) \in Nat /\ Cardinality(A) \in Nat
      /\ Cardinality(S) \in Nat /\ Cardinality(O) \in Nat
  BY <1>5
<1>8. /\ Count(file, {"video"}) = Cardinality(V) /\ Count(file, {"audio"}) = Cardinality(A)
      /\ Count(file, {"subtitle"}) = Cardinality(S)
      /\ Count(file, {"data", "attachment", "unknown"}) = Cardinality(O)
  BY Zenon DEF Count
<1>10. \A kind : Count(file, {kind}) = 0 => FirstRendered(file, kind) = None
  <2> TAKE kind
  <2> HAVE Count(file, {kind}) = 0
  <2>1. Count(file, {kind}) = Cardinality(At({kind})) /\ OfKind(streams, kind) = At({kind})
    BY DEF Count, OfKind
  <2>2. At({kind}) = {}
    <3>1. IsFiniteSet(At({kind}))
      BY <1>5
    <3> QED
      BY <2>1, <3>1, FS_EmptySet
  <2> QED
    BY <2>1, <2>2 DEF FirstRendered, FirstStream, FirstAt
<1> HIDE DEF V, A, S, O, n
<1>9. n = Cardinality(V) + Cardinality(A) + Cardinality(S) + Cardinality(O)
  <2>1. /\ IsFiniteSet(V \union A)
        /\ Cardinality(V \union A) = Cardinality(V) + Cardinality(A)
    BY <1>6, <1>7, DisjointUnion
  <2>2. /\ IsFiniteSet(V \union A \union S)
        /\ Cardinality(V \union A \union S) = Cardinality(V) + Cardinality(A) + Cardinality(S)
    BY <1>6, <1>7, <2>1, DisjointUnion
  <2>3. Cardinality(V \union A \union S \union O)
          = Cardinality(V) + Cardinality(A) + Cardinality(S) + Cardinality(O)
    BY <1>6, <1>7, <2>2, DisjointUnion
  <2> QED
    BY <1>4, <1>6, <2>3
<1> QED
  BY <1>8, <1>9, <1>10 DEF n

LEMMA PassedParts ==
  ASSUME NEW T, NEW a \in Seq(T), NEW b \in Seq(T), Passed(a \o b)
  PROVE  Passed(a) /\ Passed(b) /\ a \o b \in Seq(T)
<1>1. /\ a \o b \in Seq(T) /\ Len(a \o b) = Len(a) + Len(b)
      /\ \A i \in 1..Len(a) + Len(b) :
           (a \o b)[i] = IF i <= Len(a) THEN a[i] ELSE b[i - Len(a)]
  BY ConcatProperties
<1>2. /\ DOMAIN a = 1..Len(a) /\ DOMAIN b = 1..Len(b) /\ DOMAIN (a \o b) = 1..Len(a \o b)
      /\ Len(a) \in Nat /\ Len(b) \in Nat
  BY <1>1, LenProperties
<1>3. \A i \in 1..Len(a) + Len(b) : (a \o b)[i].passed
  BY <1>1, <1>2 DEF Passed
<1>4. ASSUME NEW i \in 1..Len(a) PROVE a[i].passed
  <2>1. i \in 1..Len(a) + Len(b) /\ i <= Len(a)
    BY <1>2
  <2> QED
    BY <1>1, <1>3, <2>1
<1>5. ASSUME NEW i \in 1..Len(b) PROVE b[i].passed
  <2>1. Len(a) + i \in 1..Len(a) + Len(b) /\ ~(Len(a) + i <= Len(a))
        /\ (Len(a) + i) - Len(a) = i
    BY <1>2
  <2> QED
    BY <1>1, <1>3, <2>1
<1> QED
  BY <1>1, <1>2, <1>4, <1>5 DEF Passed

LEMMA PassedOne == ASSUME NEW a, Passed(<<a>>) PROVE a.passed
BY DEF Passed

LEMMA CheckPassed == ASSUME NEW name, NEW passed PROVE check(name, passed).passed = passed
BY DEF check

\* A report that passed found what each check looks for.
LEMMA ChecksHold ==
  ASSUME NEW p, NEW file, verify_output(p, file).passed
  PROVE  LET e == p.expected
         IN  /\ file.container = e.container
             /\ e.duration /= None => DurationPasses(e, file)
             /\ e.video /= None => VideoPasses(e.video, FirstRendered(file, "video"))
             /\ e.audio /= None =>
                  /\ AudioPasses(e.audio, FirstRendered(file, "audio"))
                  /\ e.audio.loudness /= None =>
                       AbsDiff(file.loudness, e.audio.loudness.target)
                         <= e.audio.loudness.tolerance
             /\ StreamLayout(file) = ExpectedLayout(e)
             /\ file.bytes <= p.resources.budgets.output
<1> DEFINE e  == p.expected
           loud == AbsDiff(file.loudness, e.audio.loudness.target) <= e.audio.loudness.tolerance
           a1 == check("parseable", TRUE)
           a2 == check("container", file.container = e.container)
           a3 == check("duration", DurationPasses(e, file))
           a4 == check("video", VideoPasses(e.video, FirstRendered(file, "video")))
           a5 == check("audio", AudioPasses(e.audio, FirstRendered(file, "audio")))
           a6 == check("integrated_loudness", loud)
           a7 == check("stream_layout", StreamLayout(file) = ExpectedLayout(e))
           a8 == check("output_size", file.bytes <= p.resources.budgets.output)
           a9 == check("distinct_from_inputs",
                       \A i \in DOMAIN p.inputs : file.sha /= p.inputs[i].sha)
           T  == {a1, a2, a3, a4, a5, a6, a7, a8, a9}
           timed == IF e.duration = None THEN <<>> ELSE <<a3>>
           seen  == IF e.video = None THEN <<>> ELSE <<a4>>
           loudness == IF e.audio.loudness = None THEN <<>> ELSE <<a6>>
           heard == IF e.audio = None THEN <<>> ELSE <<a5>> \o loudness
<1>1. PerformedChecks(p, file) = <<a1, a2>> \o timed \o seen \o heard \o <<a7, a8, a9>>
  BY Zenon DEF PerformedChecks
<1>2. Passed(PerformedChecks(p, file))
  BY DEF verify_output
<1>3. /\ a2.passed = (file.container = e.container)
      /\ a3.passed = DurationPasses(e, file)
      /\ a4.passed = VideoPasses(e.video, FirstRendered(file, "video"))
      /\ a5.passed = AudioPasses(e.audio, FirstRendered(file, "audio"))
      /\ a6.passed = loud
      /\ a7.passed = (StreamLayout(file) = ExpectedLayout(e))
      /\ a8.passed = (file.bytes <= p.resources.budgets.output)
  BY CheckPassed, Zenon
<1> HIDE DEF a1, a2, a3, a4, a5, a6, a7, a8, a9, loud
<1>4. /\ <<a1, a2>> \in Seq(T) /\ <<a3>> \in Seq(T) /\ <<a4>> \in Seq(T) /\ <<a5>> \in Seq(T)
      /\ <<a6>> \in Seq(T) /\ <<a7, a8, a9>> \in Seq(T) /\ <<>> \in Seq(T)
  OBVIOUS
<1> HIDE DEF T
<1>5. timed \in Seq(T) /\ seen \in Seq(T) /\ loudness \in Seq(T)
  BY <1>4
<1> HIDE DEF loudness
<1>6. heard \in Seq(T)
  BY <1>4, <1>5, ConcatProperties
<1> HIDE DEF timed, seen, heard
<1>7. Passed(<<a1, a2>>) /\ Passed(timed) /\ Passed(seen) /\ Passed(heard)
      /\ Passed(<<a7, a8, a9>>)
  <2> DEFINE s1 == <<a1, a2>> \o timed
             s2 == s1 \o seen
             s3 == s2 \o heard
  <2>1. s1 \in Seq(T)
    BY <1>4, <1>5, ConcatProperties
  <2>2. s2 \in Seq(T)
    <3> HIDE DEF s1
    <3> QED
      BY <1>5, <2>1, ConcatProperties
  <2>3. s3 \in Seq(T)
    <3> HIDE DEF s2
    <3> QED
      BY <1>6, <2>2, ConcatProperties
  <2>4. Passed(s3) /\ Passed(<<a7, a8, a9>>)
    <3>1. Passed(s3 \o <<a7, a8, a9>>)
      BY <1>1, <1>2
    <3> HIDE DEF s3
    <3> QED
      BY <1>4, <2>3, <3>1, PassedParts
  <2>5. Passed(s2) /\ Passed(heard)
    <3> HIDE DEF s2
    <3> QED
      BY <1>6, <2>2, <2>4, PassedParts
  <2>6. Passed(s1) /\ Passed(seen)
    <3> HIDE DEF s1
    <3> QED
      BY <1>5, <2>1, <2>5, PassedParts
  <2>7. Passed(<<a1, a2>>) /\ Passed(timed)
    BY <1>4, <1>5, <2>6, PassedParts
  <2> QED
    BY <2>4, <2>5, <2>6, <2>7
<1>8. a2.passed /\ a7.passed /\ a8.passed
  BY <1>7 DEF Passed
<1>9. e.duration /= None => a3.passed
  BY <1>7, PassedOne DEF timed
<1>10. e.video /= None => a4.passed
  BY <1>7, PassedOne DEF seen
<1>11. ASSUME e.audio /= None
       PROVE  a5.passed /\ (e.audio.loudness /= None => a6.passed)
  <2>1. heard = <<a5>> \o loudness
    BY <1>11 DEF heard
  <2>2. Passed(<<a5>>) /\ Passed(loudness)
    BY <1>4, <1>5, <1>7, <2>1, PassedParts
  <2>3. a5.passed
    BY <2>2, PassedOne
  <2>4. e.audio.loudness /= None => a6.passed
    BY <2>2, PassedOne DEF loudness
  <2> QED
    BY <2>3, <2>4
<1> QED
  BY <1>3, <1>8, <1>9, <1>10, <1>11, Zenon DEF loud

\* A file that passed has the streams that were expected and no other.
LEMMA StreamsAsExpected ==
  ASSUME NEW p, NEW file, KnownStreams(file.streams), verify_output(p, file).passed
  PROVE  LET e == p.expected
             video == FirstRendered(file, "video")
             audio == FirstRendered(file, "audio")
         IN  /\ (video = None) <=> (e.video = None)
             /\ (audio = None) <=> (e.audio = None)
             /\ Len(file.streams) = One(video /= None) + One(audio /= None)
<1> DEFINE e == p.expected
           video == FirstRendered(file, "video")
           audio == FirstRendered(file, "audio")
<1>1. StreamLayout(file) = ExpectedLayout(e)
  BY ChecksHold
<1>2. /\ Count(file, {"video"}) = One(e.video /= None)
      /\ Count(file, {"audio"}) = One(e.audio /= None)
      /\ Count(file, {"subtitle"}) = 0
      /\ Count(file, {"data", "attachment", "unknown"}) = 0
  <2> DEFINE s == StreamLayout(file)
             x == ExpectedLayout(e)
  <2>1. /\ s[1] = Count(file, {"video"}) /\ s[2] = Count(file, {"audio"})
        /\ s[3] = Count(file, {"subtitle"})
        /\ s[4] = Count(file, {"data", "attachment", "unknown"})
    BY DEF StreamLayout
  <2>2. x[1] = One(e.video /= None) /\ x[2] = One(e.audio /= None) /\ x[3] = 0 /\ x[4] = 0
    BY DEF ExpectedLayout
  <2> HIDE DEF s, x
  <2> QED
    BY <1>1, <2>1, <2>2 DEF s, x
<1>3. e.video /= None => video /= None
  <2> HAVE e.video /= None
  <2>1. VideoPasses(e.video, video)
    BY ChecksHold
  <2> QED
    BY <2>1 DEF VideoPasses
<1>4. e.audio /= None => audio /= None
  <2> HAVE e.audio /= None
  <2>1. AudioPasses(e.audio, audio)
    BY ChecksHold
  <2> QED
    BY <2>1 DEF AudioPasses
<1>5. e.video = None => video = None
  BY <1>2, CountsCover DEF One
<1>6. e.audio = None => audio = None
  BY <1>2, CountsCover DEF One
<1>7. Len(file.streams) = One(e.video /= None) + One(e.audio /= None)
  BY <1>2, CountsCover DEF One
<1> HIDE DEF e, video, audio
<1>8. One(e.video /= None) = One(video /= None) /\ One(e.audio /= None) = One(audio /= None)
  BY <1>3, <1>4, <1>5, <1>6 DEF One
<1> QED
  BY <1>3, <1>4, <1>5, <1>6, <1>7, <1>8 DEF e, video, audio

-----------------------------------------------------------------------------
(* What the compiler expects.                                              *)

LEMMA AudioExpected ==
  ASSUME NEW audio \in StreamSummary, NEW loudness \in Optional(ExpectedLoudness)
  PROVE  /\ ExpectedAac(audio.channels, loudness) /= None
         /\ ExpectedAac(2, loudness) /= None
<1>1. audio.channels \in Optional(U32)
  BY DEF StreamSummary
<1>2. \A n \in U32 : n \in Nat
  BY WidthAssumption DEF U32
<1>3. audio.channels \in Optional(Nat) /\ 2 \in Optional(Nat)
  BY <1>1, <1>2 DEF Optional
<1>4. \A channels \in Optional(Nat) : ExpectedAac(channels, loudness) \in ExpectedAudio
  BY DEF ExpectedAac, ExpectedAudio
<1> QED
  BY <1>3, <1>4, AbsenceAssumption

\* A web output has sound if its input has.
LEMMA WebExpects ==
  ASSUME NEW input, input.streams \in Seq(StreamSummary), NEW video, NEW size, NEW tolerance
  PROVE  LET web == expected_web_output(input, video, size, Audio(input), tolerance)
         IN  /\ web.tolerance = tolerance /\ web.duration = input.duration
             /\ web.video = expected_video("h264", size, video.rate)
             /\ (web.audio = None) <=> (Audio(input) = None)
             /\ web = [container |-> web.container, duration |-> web.duration,
                       tolerance |-> web.tolerance, video |-> web.video, audio |-> web.audio]
<1> DEFINE web == expected_web_output(input, video, size, Audio(input), tolerance)
<1>1. /\ web.tolerance = tolerance /\ web.duration = input.duration
      /\ web.video = expected_video("h264", size, video.rate)
      /\ web.audio = IF Audio(input) = None THEN None
                     ELSE ExpectedAac(Audio(input).channels, None)
      /\ web = [container |-> web.container, duration |-> web.duration,
                tolerance |-> web.tolerance, video |-> web.video, audio |-> web.audio]
  BY DEF expected_web_output
<1>2. Audio(input) /= None => ExpectedAac(Audio(input).channels, None) /= None
  <2> HAVE Audio(input) /= None
  <2>1. Audio(input) \in StreamSummary /\ None \in Optional(ExpectedLoudness)
    BY SelectionType DEF Optional
  <2> QED
    BY <2>1, AudioExpected
<1> HIDE DEF web
<1> QED
  BY <1>1, <1>2 DEF web

Kept == {"clip", "transcode", "concatenate", "burn_subtitles"}   \* with the source's frame

\* What a plan for a recipe expects of the encoding.
Encodes(op, inputs, e) ==
  LET source == Video(inputs[1])
  IN  /\ e.container = IF IsStill(op) THEN "image2" ELSE Mp4Family
      /\ e.video /= None => /\ e.video.codec = IF IsStill(op) THEN "mjpeg" ELSE "h264"
                            /\ e.video.aspect = "1:1"
                            /\ IsStill(op) \/ e.video.rate = source.rate
      /\ e.audio /= None =>
           /\ e.audio.codec = "aac"
           /\ e.audio.channels = IF op.type = "concatenate" THEN 2
                                 ELSE Audio(inputs[1]).channels
      /\ IsStill(op) => e.audio = None
      /\ op.type \in Kept => <<e.video.width, e.video.height>> = Size(source)

\* A web output encodes as its operation asks for, and so do the sound alone, a
\* still image and a joined film.
LEMMA WebEncodes ==
  ASSUME NEW op, ~IsStill(op), op.type /= "concatenate", NEW inputs, NEW size, NEW tolerance,
         op.type \in Kept => size = Size(Video(inputs[1])) /\ ~NoSizedVideo(inputs[1]),
         NEW e,
         LET web == expected_web_output(inputs[1], Video(inputs[1]), size, Audio(inputs[1]),
                                        tolerance)
         IN  e.container = web.container /\ e.video = web.video /\ e.audio = web.audio
  PROVE  Encodes(op, inputs, e)
<1> DEFINE source == Video(inputs[1])
           audio  == Audio(inputs[1])
<1>1. /\ e.container = Mp4Family
      /\ e.video = expected_video("h264", size, source.rate)
      /\ e.audio = IF audio = None THEN None ELSE ExpectedAac(audio.channels, None)
  BY DEF expected_web_output
<1>2. /\ e.video.codec = "h264" /\ e.video.aspect = "1:1" /\ e.video.rate = source.rate
      /\ e.video.width = size[1] /\ e.video.height = size[2]
  BY <1>1 DEF expected_video
<1>3. e.audio /= None => e.audio.codec = "aac" /\ e.audio.channels = audio.channels
  BY <1>1 DEF ExpectedAac
<1>4. op.type \in Kept => <<size[1], size[2]>> = Size(source)
  BY DEF NoSizedVideo, Size
<1> HIDE DEF source, audio
<1> QED
  BY <1>1, <1>2, <1>3, <1>4 DEF Encodes, source, audio

LEMMA SoundEncodes ==
  ASSUME NEW op, op.type \in SoundAlone, NEW inputs, NEW loudness, NEW tolerance
  PROVE  Encodes(op, inputs, ExpectedAudioOnly(inputs[1], Audio(inputs[1]), loudness, tolerance))
<1> DEFINE e == ExpectedAudioOnly(inputs[1], Audio(inputs[1]), loudness, tolerance)
<1>1. /\ e.container = Mp4Family /\ e.video = None
      /\ e.audio.codec = "aac" /\ e.audio.channels = Audio(inputs[1]).channels
  BY DEF ExpectedAudioOnly, ExpectedAac
<1>2. ~IsStill(op) /\ op.type /= "concatenate" /\ op.type \notin Kept
  BY DEF IsStill, SoundAlone, Kept
<1> HIDE DEF e
<1> QED
  BY <1>1, <1>2 DEF Encodes, e

LEMMA StillEncodes ==
  ASSUME NEW op, IsStill(op), NEW inputs, NEW size
  PROVE  Encodes(op, inputs, expected_jpeg(size))
<1> DEFINE e == expected_jpeg(size)
<1>1. /\ e.container = "image2" /\ e.audio = None
      /\ e.video.codec = "mjpeg" /\ e.video.aspect = "1:1"
  BY DEF expected_jpeg, expected_video
<1>2. op.type \notin Kept
  BY DEF IsStill, Kept
<1> HIDE DEF e
<1> QED
  BY <1>1, <1>2 DEF Encodes, e

LEMMA JoinedEncodes ==
  ASSUME NEW op, op.type = "concatenate", NEW inputs, ~NoSizedVideo(inputs[1]), NEW tolerance
  PROVE  Encodes(op, inputs, ExpectedJoined(inputs, tolerance))
<1> DEFINE e == ExpectedJoined(inputs, tolerance)
           source == Video(inputs[1])
           size == Size(source)
<1>1. /\ e.container = Mp4Family /\ e.video = expected_video("h264", size, source.rate)
      /\ e.audio = IF HasAudio(inputs) THEN ExpectedAac(2, None) ELSE None
  BY DEF ExpectedJoined
<1> HIDE DEF e
<1>2. /\ e.video.codec = "h264" /\ e.video.aspect = "1:1" /\ e.video.rate = source.rate
      /\ e.video.width = size[1] /\ e.video.height = size[2]
  BY <1>1 DEF expected_video
<1>3. e.audio /= None => e.audio.codec = "aac" /\ e.audio.channels = 2
  BY <1>1 DEF ExpectedAac
<1>4. <<size[1], size[2]>> = size
  BY DEF NoSizedVideo, Size
<1>5. ~IsStill(op)
  BY DEF IsStill
<1> HIDE DEF source, size
<1> QED
  BY <1>1, <1>2, <1>3, <1>4, <1>5 DEF Encodes, e, source, size

\* What a plan for a recipe expects of the encoding, the sound, the duration and
\* the frame.
Expects(op, inputs, tolerance, e) ==
  /\ Encodes(op, inputs, e)
  /\ op.type \notin {"thumbnail", "contact_sheet"} =>
       e.tolerance = tolerance /\ ((e.audio = None) <=> (Audio(inputs[1]) = None))
  /\ op.type = "clip" => e.duration = op.end - op.start
  /\ op.type = "concatenate" => e.duration = JoinedDuration(inputs)
  /\ op.type \in {"transcode", "resize", "extract_audio", "normalize_audio",
                  "burn_subtitles"} => e.duration = inputs[1].duration
  /\ op.type \in {"thumbnail", "contact_sheet"} => e.video.width = op.width
  /\ op.type = "resize" =>
       IF op.mode = "fit" THEN e.video.width <= op.width /\ e.video.height <= op.height
       ELSE e.video.width = op.width /\ e.video.height = op.height
  /\ op.type = "normalize_audio" =>
       /\ e.audio /= None /\ e.audio.loudness /= None
       /\ e.audio.loudness.target = op.lufs * 100
       /\ e.audio.loudness.tolerance = op.tolerance

LEMMA WebPlanExpects ==
  ASSUME NEW p, NEW r, r \in Recipe, Arity(r), Compiled(p, r),
         r.operation.type \in {"clip", "transcode", "burn_subtitles"}
  PROVE  Expects(r.operation, p.inputs, r.tolerance,
                 Compile(r.operation, p.inputs, r.tolerance).expected)
<1> DEFINE op    == r.operation
           input == p.inputs[1]
           video == Video(input)
           web   == expected_web_output(input, video, Size(video), Audio(input), r.tolerance)
           e     == Compile(op, p.inputs, r.tolerance).expected
<1>1. input.streams \in Seq(StreamSummary)
  BY CompiledInputs
<1>2. /\ web.tolerance = r.tolerance /\ web.duration = input.duration
      /\ (web.audio = None) <=> (Audio(input) = None)
      /\ web = [container |-> web.container, duration |-> web.duration,
                tolerance |-> web.tolerance, video |-> web.video, audio |-> web.audio]
  BY <1>1, WebExpects
<1>6. ~NoSizedVideo(input) /\ ~IsStill(op) /\ op.type /= "concatenate"
  <2>1. CompileRefusal(op, p.inputs) = None
    BY CompiledParts
  <2> QED
    BY <2>1, CodeAssumption DEF CompileRefusal, Commands, Codes, IsStill
<1>7. ASSUME NEW x, x.container = web.container, x.video = web.video, x.audio = web.audio
      PROVE  Encodes(op, p.inputs, x)
  BY <1>6, <1>7, WebEncodes
<1>3. CASE op.type = "clip"
  <2>1. e = Part(web, "duration", op.end - op.start)
    BY <1>3, Zenon DEF Compile, CompileClip, ClipOf, Part
  <2> HIDE DEF web, e
  <2>2. /\ e.tolerance = web.tolerance /\ e.audio = web.audio /\ e.duration = op.end - op.start
        /\ e.container = web.container /\ e.video = web.video
    BY <1>2, <2>1 DEF Part
  <2>3. Encodes(op, p.inputs, e)
    BY <1>7, <2>2
  <2> QED
    BY <1>2, <1>3, <2>2, <2>3 DEF Expects, e
<1>4. CASE op.type = "transcode"
  <2>1. e = web
    BY <1>4 DEF Compile, CompileTranscode, CompileWeb
  <2> HIDE DEF web, e
  <2>2. Encodes(op, p.inputs, e)
    BY <1>7, <2>1
  <2> QED
    BY <1>2, <1>4, <2>1, <2>2 DEF Expects, e
<1>5. CASE op.type = "burn_subtitles"
  <2> DEFINE draft == CompileWeb([type |-> "burn_subtitles"], p.inputs, Size(video),
                                 subtitles_filter(p.inputs[2].path), r.tolerance)
  <2>1. /\ draft.expected = web
        /\ draft = [operation |-> draft.operation, selected |-> draft.selected,
                    expected |-> draft.expected, warnings |-> draft.warnings,
                    argv |-> draft.argv]
    BY DEF CompileWeb
  <2>2. \E selected, warnings :
          Compile(op, p.inputs, r.tolerance)
            = Part(Part(draft, "selected", selected), "warnings", warnings)
    <3>1. Compile(op, p.inputs, r.tolerance) = CompileBurnSubtitles(op, p.inputs, r.tolerance)
      BY <1>5 DEF Compile
    <3> QED
      BY <3>1, Zenon DEF CompileBurnSubtitles, Part
  <2> HIDE DEF draft
  <2>3. \A selected, warnings :
          Part(Part(draft, "selected", selected), "warnings", warnings).expected = web
    BY <2>1 DEF Part
  <2>4. e = web
    BY <2>2, <2>3
  <2> HIDE DEF web, e
  <2>5. Encodes(op, p.inputs, e)
    BY <1>7, <2>4
  <2> QED
    BY <1>2, <1>5, <2>4, <2>5 DEF Expects, e
<1> QED
  BY <1>3, <1>4, <1>5

LEMMA ResizePlanExpects ==
  ASSUME NEW p, NEW r, r \in Recipe, Arity(r), Compiled(p, r), r.operation.type = "resize"
  PROVE  Expects(r.operation, p.inputs, r.tolerance,
                 Compile(r.operation, p.inputs, r.tolerance).expected)
<1> DEFINE op     == r.operation
           input  == p.inputs[1]
           video  == Video(input)
           source == Rotated(Size(video), op.rotation)
           fitted == fit_dimensions(source[1], source[2], op.width, op.height)
           size   == IF op.mode = "fit" THEN fitted ELSE <<op.width, op.height>>
           web    == expected_web_output(input, video, size, Audio(input), r.tolerance)
           e      == Compile(op, p.inputs, r.tolerance).expected
<1>1. input.streams \in Seq(StreamSummary)
  BY CompiledInputs
<1>2. /\ web.tolerance = r.tolerance /\ web.duration = input.duration
      /\ (web.audio = None) <=> (Audio(input) = None)
      /\ web.video = expected_video("h264", size, video.rate)
  BY <1>1, WebExpects
<1>3. e = web
  BY DEF Compile, CompileResize, CompileWeb
<1>4. ASSUME op.mode = "fit"
      PROVE  fitted[1] <= op.width /\ fitted[2] <= op.height
  <2>1. /\ source[1] \in Nat /\ source[2] \in Nat
        /\ ~FitPanics(source[1], source[2], op.width, op.height)
    BY <1>4, FittedPlan
  <2>2. op \in Operation /\ validate_recipe(r)
    BY CompiledParts
  <2>3. /\ op.width \in Nat /\ op.width >= 2 /\ Even(op.width) /\ op.width <= MaxU32
        /\ op.height \in Nat /\ op.height >= 2 /\ Even(op.height) /\ op.height <= MaxU32
    BY <2>2, RequestedSides
  <2> HIDE DEF source
  <2>4. fitted[1] \in 2..op.width /\ fitted[2] \in 2..op.height
    BY <2>1, <2>3, FittedFrame
  <2> HIDE DEF fitted
  <2> QED
    BY <2>3, <2>4
<1> HIDE DEF fitted, e, web
<1>5. e.video.width = size[1] /\ e.video.height = size[2]
  BY <1>2, <1>3 DEF expected_video
<1>6. IF op.mode = "fit" THEN e.video.width <= op.width /\ e.video.height <= op.height
      ELSE e.video.width = op.width /\ e.video.height = op.height
  BY <1>4, <1>5
<1>7. Encodes(op, p.inputs, e)
  <2>1. ~IsStill(op) /\ op.type \notin Kept /\ op.type /= "concatenate"
    BY DEF IsStill, Kept
  <2> HIDE DEF size, op
  <2> QED
    BY <1>3, <2>1, WebEncodes DEF web
<1> HIDE DEF size
<1> QED
  BY <1>2, <1>3, <1>6, <1>7 DEF Expects, e

LEMMA AudioPlanExpects ==
  ASSUME NEW p, NEW r, r \in Recipe, Arity(r), Compiled(p, r),
         r.operation.type \in SoundAlone
  PROVE  Expects(r.operation, p.inputs, r.tolerance,
                 Compile(r.operation, p.inputs, r.tolerance).expected)
<1> DEFINE op    == r.operation
           input == p.inputs[1]
           audio == Audio(input)
           loudness == IF op.type = "extract_audio" THEN None
                       ELSE [target |-> op.lufs * 100, tolerance |-> op.tolerance]
           e     == Compile(op, p.inputs, r.tolerance).expected
<1>1. e = ExpectedAudioOnly(input, audio, loudness, r.tolerance)
  BY DEF Compile, CompileExtractAudio, CompileNormalizeAudio, NormalizeTo, CompileAudio, SoundAlone
<1>2. /\ e.tolerance = r.tolerance /\ e.duration = input.duration
      /\ e.audio = ExpectedAac(audio.channels, loudness)
  BY <1>1 DEF ExpectedAudioOnly
<1>3. audio /= None /\ audio \in StreamSummary
  <2>1. CompileRefusal(op, p.inputs) = None /\ input.streams \in Seq(StreamSummary)
    BY CompiledParts, CompiledInputs
  <2>2. audio /= None
    BY <2>1, CodeAssumption DEF CompileRefusal, SoundAlone, Commands, Codes
  <2> QED
    BY <2>1, <2>2, SelectionType
<1>4. op.type = "normalize_audio" => loudness \in ExpectedLoudness
  <2> HAVE op.type = "normalize_audio"
  <2>1. op \in Operation
    BY CompiledParts
  <2>2. op.lufs \in Int /\ op.tolerance \in Nat
    BY <2>1 DEF Operation
  <2>3. op.lufs * 100 \in Int
    BY <2>2
  <2> QED
    BY <2>2, <2>3 DEF ExpectedLoudness
<1>5. op.type = "normalize_audio" =>
        loudness.target = op.lufs * 100 /\ loudness.tolerance = op.tolerance
  OBVIOUS
<1>6. loudness \in Optional(ExpectedLoudness)
  BY <1>4 DEF Optional, SoundAlone
<1> HIDE DEF loudness, e
<1>7. e.audio /= None /\ e.audio.loudness = loudness
  BY <1>2, <1>3, <1>6, AudioExpected DEF ExpectedAac
<1>8. op.type = "normalize_audio" => e.audio.loudness /= None
  BY <1>4, <1>7, AbsenceAssumption
<1>9. Encodes(op, p.inputs, e)
  BY <1>1, SoundEncodes
<1> QED
  BY <1>2, <1>3, <1>5, <1>7, <1>8, <1>9 DEF Expects, SoundAlone, e

LEMMA ImagePlanExpects ==
  ASSUME NEW p, NEW r, r.operation.type \in {"thumbnail", "contact_sheet"}
  PROVE  Expects(r.operation, p.inputs, r.tolerance,
                 Compile(r.operation, p.inputs, r.tolerance).expected)
<1> DEFINE e == Compile(r.operation, p.inputs, r.tolerance).expected
<1>1. \E height : e = expected_jpeg(<<r.operation.width, height>>)
  BY DEF Compile, CompileThumbnail, CompileContactSheet, CompileImage
<1> HIDE DEF e
<1>2. e.video.width = r.operation.width
  BY <1>1 DEF expected_jpeg, expected_video
<1>3. Encodes(r.operation, p.inputs, e)
  BY <1>1, StillEncodes DEF IsStill
<1> QED
  BY <1>2, <1>3 DEF Expects, e

LEMMA ConcatenatePlanExpects ==
  ASSUME NEW p, NEW r, r \in Recipe, Arity(r), Compiled(p, r),
         r.operation.type = "concatenate"
  PROVE  Expects(r.operation, p.inputs, r.tolerance,
                 Compile(r.operation, p.inputs, r.tolerance).expected)
<1> DEFINE inputs == p.inputs
           e == Compile(r.operation, inputs, r.tolerance).expected
<1>1. e = ExpectedJoined(inputs, r.tolerance)
  BY DEF Compile, CompileConcatenate
<1>2. /\ e.tolerance = r.tolerance /\ e.duration = JoinedDuration(inputs)
      /\ e.audio = IF HasAudio(inputs) THEN ExpectedAac(2, None) ELSE None
  BY <1>1 DEF ExpectedJoined
<1>3. 1 \in DOMAIN inputs /\ inputs[1].streams \in Seq(StreamSummary)
  BY CompiledInputs
<1>4. HasAudio(inputs) <=> Audio(inputs[1]) /= None
  <2>1. CompileRefusal(r.operation, inputs) = None
    BY CompiledParts
  <2>2. ~Mismatched(inputs)
    BY <2>1, CodeAssumption DEF CompileRefusal, Commands, Codes
  <2> QED
    BY <1>3, <2>2 DEF Mismatched, HasAudio
<1>5. Audio(inputs[1]) /= None => ExpectedAac(2, None) /= None
  <2> HAVE Audio(inputs[1]) /= None
  <2>1. Audio(inputs[1]) \in StreamSummary /\ None \in Optional(ExpectedLoudness)
    BY <1>3, SelectionType DEF Optional
  <2> QED
    BY <2>1, AudioExpected
<1>6. Encodes(r.operation, inputs, e)
  <2>1. CompileRefusal(r.operation, inputs) = None
    BY CompiledParts
  <2>2. ~NoSizedVideo(inputs[1])
    BY <1>3, <2>1, CodeAssumption DEF CompileRefusal, Commands, Codes
  <2> QED
    BY <1>1, <2>2, JoinedEncodes
<1> HIDE DEF e
<1> QED
  BY <1>2, <1>4, <1>5, <1>6 DEF Expects, e

LEMMA PlanExpects ==
  ASSUME NEW p, NEW r, r \in Recipe, Arity(r), Compiled(p, r)
  PROVE  /\ Expects(r.operation, p.inputs, r.tolerance, p.expected)
         /\ ExpectedFits(p.expected, r.operation.type)
         /\ p.resources.budgets = r.budgets
<1> DEFINE draft == Compile(r.operation, p.inputs, r.tolerance)
<1>1. /\ AssembledFrom(p, r, p.inputs, p.backend, draft) /\ p.resources.budgets = r.budgets
      /\ r.operation \in Operation /\ DraftFits(draft, p.inputs, r.operation.type)
  BY CompiledParts, DraftOfCompiled
<1>2. r.operation.type \in Types
  BY <1>1, OperationTypes
<1>3. Expects(r.operation, p.inputs, r.tolerance, draft.expected)
  <2>1. CASE r.operation.type \in {"clip", "transcode", "burn_subtitles"}
    BY <2>1, WebPlanExpects
  <2>2. CASE r.operation.type = "resize"
    BY <2>2, ResizePlanExpects
  <2>3. CASE r.operation.type \in SoundAlone
    BY <2>3, AudioPlanExpects
  <2>4. CASE r.operation.type \in {"thumbnail", "contact_sheet"}
    BY <2>4, ImagePlanExpects
  <2>5. CASE r.operation.type = "concatenate"
    BY <2>5, ConcatenatePlanExpects
  <2> HIDE DEF draft
  <2> QED
    BY <1>2, <2>1, <2>2, <2>3, <2>4, <2>5 DEF Types, SoundAlone
<1> HIDE DEF draft
<1>4. p.expected = draft.expected
  BY <1>1 DEF AssembledFrom
<1> QED
  BY <1>1, <1>3, <1>4 DEF DraftFits

-----------------------------------------------------------------------------
(* What is published was judged.                                           *)

RenderedKnown ==
  Genuine /\ applying /= None /\ applying.file /= None =>
    KnownStreams(applying.file.streams)

\* As long as neither the plan nor the published file is tampered with, every
\* published file passes against the plan on disk.
PublishedJudged ==
  Genuine /\ disturbance /= "output_replaced" =>
    \A file \in published :
      /\ planFile \notin {None, Partial}
      /\ KnownStreams(file.streams)
      /\ verify_output(planFile, file).passed

\* Every plan that the compiler writes asks for a picture or for sound.
LEMMA ArgvAsks ==
  ASSUME NEW p, NEW r, r \in Recipe, Arity(r), Compiled(p, r)
  PROVE  p.argv.video /= None \/ p.argv.audio /= None
<1>1. \A path, o, video, audio, filter :
        transcode_argv(path, o, video, audio, filter).video = "libx264"
  BY DEF transcode_argv, BackendPrefix
<1>2. \A path, o, start, duration, video, audio :
        clip_argv(path, o, start, duration, video, audio).video = "libx264"
  BY DEF clip_argv, transcode_argv, BackendPrefix
<1>3. \A path, o, audio : extract_audio_argv(path, o, audio).audio = "aac"
  BY DEF extract_audio_argv, BackendPrefix
<1>4. \A path, o, audio, target : normalize_audio_argv(path, o, audio, target).audio = "aac"
  BY DEF normalize_audio_argv, extract_audio_argv, BackendPrefix
<1>5. \A paths, o, segments, sound : concatenate_argv(paths, o, segments, sound).video = "libx264"
  BY DEF concatenate_argv, BackendPrefix
<1>6. \A path, o, video, filter : ImageArgv(path, o, video, filter).video = "mjpeg"
  BY DEF ImageArgv, BackendPrefix
<1>7. /\ \A path, o, video, at, size :
           thumbnail_argv(path, o, video, at, size).video = "mjpeg"
      /\ \A path, o, video, interval, columns, rows, cell :
           contact_sheet_argv(path, o, video, interval, columns, rows, cell).video = "mjpeg"
  BY <1>6 DEF thumbnail_argv, contact_sheet_argv, ImageArgv, BackendPrefix
<1>8. p.argv.video \in {"libx264", "mjpeg"} \/ p.argv.audio = "aac"
  <2>1. ValidOperation(p) /\ p.operation.type \in Types
    BY CompiledOperation, OperationTypes DEF Recipe
  <2>2. CASE p.operation.type = "clip"
    <3>1. validate_clip_plan(p)
      BY <2>1, <2>2 DEF ValidOperation
    <3>2. \E path, o, start, duration, video, audio :
            p.argv = clip_argv(path, o, start, duration, video, audio)
      BY <3>1, Zenon DEF validate_clip_plan
    <3> QED
      BY <1>2, <3>2
  <2>3. CASE p.operation.type = "transcode"
    BY <1>1, <2>1, <2>3 DEF ValidOperation, validate_transcode_plan
  <2>4. CASE p.operation.type = "resize"
    <3>1. validate_resize_plan(p)
      BY <2>1, <2>4 DEF ValidOperation
    <3>2. \E path, o, video, audio, filter : p.argv = transcode_argv(path, o, video, audio, filter)
      BY <3>1, Zenon DEF validate_resize_plan
    <3> QED
      BY <1>1, <3>2
  <2>5. CASE p.operation.type = "extract_audio"
    BY <1>3, <2>1, <2>5 DEF ValidOperation, validate_extract_audio_plan, ValidAudio
  <2>6. CASE p.operation.type = "normalize_audio"
    BY <1>4, <2>1, <2>6 DEF ValidOperation, validate_normalize_audio_plan, ValidAudio
  <2>7. CASE p.operation.type = "concatenate"
    BY <1>5, <2>1, <2>7 DEF ValidOperation, validate_concatenate_plan
  <2>8. CASE p.operation.type = "thumbnail"
    BY <1>7, <2>1, <2>8 DEF ValidOperation, validate_thumbnail_plan
  <2>9. CASE p.operation.type = "contact_sheet"
    BY <1>7, <2>1, <2>9 DEF ValidOperation, validate_contact_sheet_plan
  <2>10. CASE p.operation.type = "burn_subtitles"
    BY <1>1, <2>1, <2>10 DEF ValidOperation, validate_burn_subtitles_plan
  <2> QED
    BY <2>1, <2>2, <2>3, <2>4, <2>5, <2>6, <2>7, <2>8, <2>9, <2>10 DEF Types
<1> QED
  BY <1>8, AbsenceAssumption

JudgedInv == DocumentInv /\ RenderedKnown /\ PublishedJudged

\* A genuine plan under way is the one that the compiler wrote.
LEMMA ApplyingIsPlanned ==
  ASSUME DocumentInv, applying /= None, Genuine
  PROVE  /\ applying.plan = planFile /\ planFile \notin {None, Partial}
         /\ Compiled(planFile, recipe) /\ recipe \in Recipe /\ Arity(recipe)
<1>1. applying.plan = planFile /\ PlanRefusal = None
  BY DEF DocumentInv, PlanInv, Applies
<1>2. planFile \notin {None, Partial}
  BY <1>1, CodeAssumption DEF PlanRefusal, Commands, Codes
<1> QED
  BY <1>1, <1>2 DEF Planned, DocumentInv, PlanInv, PlanIsCompiled, World

LEMMA RenderedKnownStep ==
  ASSUME JudgedInv, [Next]_vars
  PROVE  RenderedKnown'
<1>1. CASE BackendRenders \/ BackendDeviates
  <2> SUFFICES ASSUME Genuine' PROVE KnownStreams(applying'.file.streams)
    BY DEF RenderedKnown
  <2> DEFINE argv == applying.plan.argv
             rendered == Rendered(argv)
  <2>1. Genuine /\ applying /= None
    BY <1>1, Disturbances DEF Genuine, BackendRenders, BackendDeviates
  <2>2. argv.video /= None \/ argv.audio /= None
    BY <2>1, ApplyingIsPlanned, ArgvAsks DEF JudgedInv
  <2>3. KnownStreams(rendered.streams) /\ rendered.streams /= <<>> /\ FileShape(rendered)
    BY <2>2, StreamRendered, RenderedShape
  <2> HIDE DEF rendered
  <2>4. applying'.file = rendered \/ applying'.file \in Deviations(applying.plan, rendered)
    <3>1. "file" \in DOMAIN applying
      BY <2>1 DEF JudgedInv, DocumentInv, IInv, Shape
    <3> QED
      BY <1>1, <3>1 DEF BackendRenders, BackendDeviates, rendered
  <2> QED
    BY <2>3, <2>4, DeviationKnown
<1>2. CASE ApplyStarts
  <2>1. applying'.file = None
    BY <1>2 DEF ApplyStarts
  <2> QED
    BY <2>1 DEF RenderedKnown
<1>3. CASE applying' = applying \/ applying' = None
  BY <1>3, Disturbances DEF JudgedInv, RenderedKnown, Genuine
<1>4. BackendRenders \/ BackendDeviates \/ ApplyStarts \/ applying' = applying \/ applying' = None
  BY DEF Next, Plan, PlanRefused, PlanWritten, PlanCutShort, Apply, ApplyRefused,
         LimitExceeded, ApplyFails, ApplySucceeds, ApplyEnds, Backend, BackendFails, Verify,
         ShowReceipt, Others, EditPlan, ReplaceInput, ReplaceTools, ReplaceOutput, vars
<1> QED
  BY <1>1, <1>2, <1>3, <1>4

LEMMA PublishedJudgedStep ==
  ASSUME JudgedInv, [Next]_vars
  PROVE  PublishedJudged'
<1> SUFFICES ASSUME Genuine', disturbance' /= "output_replaced", NEW file \in published'
             PROVE  /\ planFile' \notin {None, Partial}
                    /\ KnownStreams(file.streams)
                    /\ verify_output(planFile', file).passed
  BY DEF PublishedJudged
<1>1. Genuine /\ disturbance /= "output_replaced"
  BY Disturbances DEF Genuine
<1>2. \A other \in published : /\ planFile \notin {None, Partial}
                               /\ KnownStreams(other.streams)
                               /\ verify_output(planFile, other).passed
  BY <1>1 DEF JudgedInv, PublishedJudged
<1>3. CASE ApplySucceeds
  <2> DEFINE rendered == applying.file
             moved    == [rendered EXCEPT !.path = planFile.path]
  <2>1. applying /= None /\ rendered /= None /\ planFile' = planFile
    BY <1>3 DEF ApplySucceeds
  <2>2. applying.plan = planFile /\ planFile \notin {None, Partial}
    BY <1>1, <2>1, ApplyingIsPlanned DEF JudgedInv
  <2>3. verify_output(planFile, rendered).passed /\ published' = published \union {moved}
    BY <1>3, <2>2 DEF ApplySucceeds
  <2>4. FileShape(rendered) /\ KnownStreams(rendered.streams)
    BY <1>1, <2>1 DEF JudgedInv, DocumentInv, IInv, Shape, RenderedKnown
  <2> HIDE DEF rendered
  <2>5. /\ FileShape(moved) /\ moved.path = planFile.path /\ moved.sha = rendered.sha
        /\ VerificationRefusal(planFile, moved, tools.probe)
             = VerificationRefusal(planFile, rendered, tools.probe)
        /\ verify_output(planFile, moved).passed = verify_output(planFile, rendered).passed
    BY <2>4, MovedFile
  <2>6. moved.streams = rendered.streams
    BY <2>4 DEF FileShape
  <2> HIDE DEF moved
  <2> QED
    BY <1>2, <2>1, <2>2, <2>3, <2>4, <2>5, <2>6
<1>4. CASE published' = published /\ planFile' = planFile
  BY <1>2, <1>4
<1>5. CASE PlanWritten \/ PlanCutShort
  <2>1. published' = published /\ (planFile' = planFile \/ planFile = None)
    BY <1>5 DEF PlanWritten, PlanCutShort, kept
  <2> QED
    BY <1>2, <2>1
<1>6. \/ ApplySucceeds \/ PlanWritten \/ PlanCutShort
      \/ published' = published /\ planFile' = planFile
  <2>1. ~EditPlan /\ ~ReplaceOutput
    BY DEF EditPlan, ReplaceOutput, Disturbed, Genuine
  <2> QED
    BY <2>1
       DEF Next, Plan, PlanRefused, Apply, ApplyRefused, ApplyStarts, LimitExceeded,
           ApplyFails, Backend, BackendRenders, BackendDeviates, BackendFails, Verify,
           ShowReceipt, Others, ReplaceInput, ReplaceTools, kept, vars
<1> QED
  BY <1>3, <1>4, <1>5, <1>6

\* Every published file was judged against the plan that is still on disk, and
\* what the backend rendered has only streams of the kinds that ffprobe tells
\* apart, in every behaviour.
THEOREM JudgedInvariance == Spec => []JudgedInv
<1>1. Init => RenderedKnown /\ PublishedJudged
  BY DEF Init, RenderedKnown, PublishedJudged
<1>2. JudgedInv /\ [Next]_vars /\ DocumentInv' => JudgedInv'
  BY RenderedKnownStep, PublishedJudgedStep DEF JudgedInv
<1>3. DocumentInv /\ RenderedKnown /\ PublishedJudged <=> JudgedInv
  BY DEF JudgedInv
<1> QED
  BY <1>1, <1>2, <1>3, DocumentInvariance, PTL DEF Spec

\* What was judged against the plan is what the recipe asked for.
LEMMA JudgedFulfils ==
  ASSUME NEW p, NEW r, r \in Recipe, Arity(r), Compiled(p, r), r = recipe,
         NEW file, KnownStreams(file.streams), verify_output(p, file).passed
  PROVE  Fulfils(file, r.operation, p.inputs)
<1> DEFINE op    == r.operation
           e     == p.expected
           video == FirstRendered(file, "video")
           audio == FirstRendered(file, "audio")
           still == op.type \in {"thumbnail", "contact_sheet"}
<1>1. /\ Expects(op, p.inputs, r.tolerance, e) /\ ExpectedFits(e, op.type)
      /\ p.resources.budgets = r.budgets
  BY PlanExpects
<1>2. /\ file.container = e.container
      /\ e.duration /= None => DurationPasses(e, file)
      /\ e.video /= None => VideoPasses(e.video, video)
      /\ e.audio /= None => AudioPasses(e.audio, audio)
      /\ e.audio /= None /\ e.audio.loudness /= None =>
           AbsDiff(file.loudness, e.audio.loudness.target) <= e.audio.loudness.tolerance
      /\ file.bytes <= p.resources.budgets.output
  BY ChecksHold
<1>3. /\ (video = None) <=> (e.video = None)
      /\ (audio = None) <=> (e.audio = None)
      /\ Len(file.streams) = One(video /= None) + One(audio /= None)
  BY StreamsAsExpected
<1>4. op.type \in Types
  BY OperationTypes DEF Recipe
<1> HIDE DEF e, video, audio
<1>5. (e.video = None) <=> op.type \in SoundAlone
  BY <1>1, AbsenceAssumption DEF ExpectedFits
<1>6. ~still => Within(file, e.duration)
  BY <1>1, <1>2 DEF Expects, DurationPasses, Within
<1>7. e.video /= None =>
        /\ video.width = e.video.width /\ video.height = e.video.height
        /\ video.codec = e.video.codec /\ video.aspect = e.video.aspect
        /\ e.video.rate \in {None, video.rate}
  BY <1>2 DEF VideoPasses
<1>8. e.audio /= None =>
        audio.codec = e.audio.codec /\ e.audio.channels \in {None, audio.channels}
  BY <1>2 DEF AudioPasses
<1>9. /\ Encodes(op, p.inputs, e)
      /\ still <=> IsStill(op)
  BY <1>1 DEF Expects, IsStill
<1>10. Encoded(file, op, p.inputs)
  <2> DEFINE source == Video(p.inputs[1])
             sound  == Audio(p.inputs[1])
  <2>1. file.container = IF IsStill(op) THEN "image2" ELSE Mp4Family
    BY <1>2, <1>9 DEF Encodes
  <2>2. video /= None => /\ video.codec = IF IsStill(op) THEN "mjpeg" ELSE "h264"
                         /\ video.aspect = "1:1"
                         /\ IsStill(op) \/ source.rate \in {None, video.rate}
    BY <1>3, <1>7, <1>9 DEF Encodes
  <2>3. audio /= None =>
          /\ audio.codec = "aac"
          /\ IF op.type = "concatenate" THEN 2 \in {None, audio.channels}
             ELSE sound.channels \in {None, audio.channels}
    BY <1>3, <1>8, <1>9 DEF Encodes
  <2>4. 2 /= None
    BY AbsenceAssumption
  <2> HIDE DEF source, sound, op
  <2> QED
    BY <2>1, <2>2, <2>3, <2>4 DEF Encoded, source, sound, video, audio
<1>11. (audio = None) <=> (IsStill(op) \/ Audio(p.inputs[1]) = None)
  BY <1>1, <1>3, <1>9 DEF Expects, Encodes
<1>12. op.type \in Kept => <<video.width, video.height>> = Size(Video(p.inputs[1]))
  BY <1>5, <1>7, <1>9 DEF Encodes, Kept, SoundAlone
<1>13. (video = None) <=> op.type \in {"extract_audio", "normalize_audio"}
  BY <1>3, <1>5 DEF SoundAlone
<1>14. (CASE op.type = "clip" -> Within(file, op.end - op.start)
          [] op.type = "concatenate" -> Within(file, JoinedDuration(p.inputs))
          [] IsStill(op) -> video.width = op.width
          [] OTHER -> Within(file, p.inputs[1].duration))
  <2>1. CASE op.type = "clip"
    BY <1>1, <1>6, <2>1 DEF Expects, IsStill
  <2>2. CASE op.type = "concatenate"
    BY <1>1, <1>6, <2>2 DEF Expects, IsStill
  <2>3. CASE IsStill(op)
    BY <1>1, <1>5, <1>7, <1>9, <2>3 DEF Expects, IsStill, SoundAlone
  <2>4. CASE op.type \in {"transcode", "resize", "extract_audio", "normalize_audio",
                          "burn_subtitles"}
    BY <1>1, <1>6, <1>9, <2>4 DEF Expects, IsStill
  <2> QED
    BY <1>4, <2>1, <2>2, <2>3, <2>4 DEF Types, IsStill
<1>15. op.type = "resize" =>
         IF op.mode = "fit" THEN video.width <= op.width /\ video.height <= op.height
         ELSE video.width = op.width /\ video.height = op.height
  BY <1>1, <1>5, <1>7 DEF Expects, SoundAlone
<1>16. op.type = "normalize_audio" =>
         AbsDiff(file.loudness, op.lufs * 100) <= op.tolerance
  BY <1>1, <1>2 DEF Expects
<1>17. file.bytes <= recipe.budgets.output
  BY <1>1, <1>2
<1> HIDE DEF still
<1> QED
  BY <1>3, <1>10, <1>11, <1>12, <1>13, <1>14, <1>15, <1>16, <1>17
     DEF Fulfils, Kept, video, audio

\* A published file is what the recipe asked for, however the backend behaved:
\* in the operation's container and codecs, with square pixels, with the rate and
\* the channels of the source where the source has them (two channels if joined),
\* with the streams of the input and no other, of the length, the frame and the
\* loudness asked for, and within the budget.
THEOREM PublishedFilesFulfilTheirRecipe == Spec => []PublishedFulfilsRecipe
<1>1. ASSUME JudgedInv PROVE PublishedFulfilsRecipe
  <2> SUFFICES ASSUME disturbance \notin {"edited", "resealed", "output_replaced",
                                          "input_replaced"},
                      NEW file \in published
               PROVE  Fulfils(file, recipe.operation, Inspected(recipe, files))
    BY DEF PublishedFulfilsRecipe
  <2>1. /\ Planned /\ KnownStreams(file.streams) /\ verify_output(planFile, file).passed
    BY <1>1 DEF JudgedInv, PublishedJudged, Planned, Genuine
  <2>2. Compiled(planFile, recipe) /\ recipe \in Recipe /\ Arity(recipe)
    BY <1>1, <2>1, PlannedFacts DEF JudgedInv, DocumentInv
  <2>3. planFile.inputs = Inspected(recipe, files)
    BY <1>1, <2>1 DEF JudgedInv, DocumentInv, PlanInv, InputsAreKnown
  <2>4. Fulfils(file, recipe.operation, planFile.inputs)
    BY <2>1, <2>2, JudgedFulfils
  <2> QED
    BY <2>3, <2>4
<1> QED
  BY <1>1, JudgedInvariance, PTL
====
