------------------------------ MODULE Compiler ------------------------------
(***************************************************************************)
(* The plan compiler: one draft per operation, and assemble_plan, which    *)
(* adds warnings, estimates, checks, identity and the argument vector.     *)
(***************************************************************************)
EXTENDS PlanModel

-----------------------------------------------------------------------------
(* Warnings.                                                               *)

Warning(code) == [code |-> code, source |-> None, streams |-> <<>>]

\* One warning names the unselected streams of an input, one says that its
\* metadata goes.
MetadataFirst(source, input, selected) ==   \* the two warnings in the other order
  LET kept    == {selected[i].index : i \in {j \in DOMAIN selected :
                                               selected[j].source = source}}
      dropped == Chosen(input.streams, {i \in DOMAIN input.streams :
                                          input.streams[i].index \notin kept})
  IN  <<Warning("metadata_removed")>>
        \o (IF dropped = <<>> THEN <<>>
            ELSE <<[code |-> "streams_dropped", source |-> source,
                    streams |-> [i \in DOMAIN dropped |-> dropped[i].index]]>>)

dropped_stream_warnings(source, input, selected) ==
  LET kept    == {selected[i].index : i \in {j \in DOMAIN selected :
                                               selected[j].source = source}}
      dropped == Chosen(input.streams, {i \in DOMAIN input.streams :
                                          input.streams[i].index \notin kept})
  IN  (IF dropped = <<>> THEN <<>>
       ELSE <<[code |-> "streams_dropped", source |-> source,
               streams |-> [i \in DOMAIN dropped |-> dropped[i].index]]>>)
        \o <<Warning("metadata_removed")>>

\* A message is cut at MAX_WARNING_CHARACTERS, the list at MAX_PLAN_WARNINGS.
Cut(seq, length) == SubSeq(seq, 1, AtMost(Len(seq), length))

UnboundedWarnings(warnings) ==   \* only the messages cut
  LET all == <<Warning("lossy_encoding")>> \o warnings
  IN  [i \in DOMAIN all |-> [all[i] EXCEPT !.streams = Cut(@, MaxNamed)]]

BoundedWarnings(warnings) ==
  LET all == <<Warning("lossy_encoding")>> \o warnings
  IN  Cut([i \in DOMAIN all |-> [all[i] EXCEPT !.streams = Cut(@, MaxNamed)]], MaxWarnings)

-----------------------------------------------------------------------------
(* Drafts: what each compile_* function hands to assemble_plan.  A draft's *)
(* argument vector waits for the temporary path.                           *)

ClipOf(op, inputs, video, audio, tolerance) ==   \* a clip of these streams
  LET input    == inputs[1]
      duration == op.end - op.start
      selected == selected_streams(1, video, audio)
  IN  [operation |-> [type |-> "clip", start |-> op.start, end |-> op.end,
                      duration |-> duration],
       selected  |-> selected,
       expected  |-> [expected_web_output(input, video, Size(video), audio, tolerance)
                        EXCEPT !.duration = duration],
       warnings  |-> dropped_stream_warnings(1, input, selected),
       argv      |-> clip_argv(input.path, None, op.start, duration,
                               video.index, Index(audio))]

CompileClip(op, inputs, tolerance) ==
  ClipOf(op, inputs, Video(inputs[1]), Audio(inputs[1]), tolerance)

\* Transcode, resize and subtitle burn-in differ in size, filter and operation.
CompileWeb(operation, inputs, size, filter, tolerance) ==
  LET input    == inputs[1]
      video    == Video(input)
      audio    == Audio(input)
      selected == selected_streams(1, video, audio)
  IN  [operation |-> operation,
       selected  |-> selected,
       expected  |-> expected_web_output(input, video, size, audio, tolerance),
       warnings  |-> dropped_stream_warnings(1, input, selected),
       argv      |-> transcode_argv(input.path, None, video.index, Index(audio), filter)]

CompileTranscode(op, inputs, tolerance) ==
  CompileWeb([type |-> "transcode"], inputs, Size(Video(inputs[1])), None, tolerance)

CompileResize(op, inputs, tolerance) ==
  LET source    == Rotated(Size(Video(inputs[1])), op.rotation)
      requested == <<op.width, op.height>>
      output    == IF op.mode = "fit"
                   THEN fit_dimensions(source[1], source[2], op.width, op.height)
                   ELSE requested
  IN  CompileWeb([type |-> "resize", requested |-> requested, output |-> output,
                  mode |-> op.mode, rotation |-> op.rotation],
                 inputs, output,
                 resize_filter(requested, output, op.mode, op.rotation), tolerance)

CompileBurnSubtitles(op, inputs, tolerance) ==
  LET media    == inputs[1]
      subtitle == selected_subtitle_stream(Subtitle(inputs[2]))
      draft    == CompileWeb([type |-> "burn_subtitles"], inputs, Size(Video(media)),
                             subtitles_filter(inputs[2].path), tolerance)
      selected == draft.selected \o subtitle
  IN  [draft EXCEPT
         !.selected = selected,
         !.warnings = dropped_stream_warnings(1, media, selected)
                        \o dropped_stream_warnings(2, inputs[2], selected)
                        \o <<Warning("subtitles_burned")>>]

CompileAudio(operation, inputs, loudness, argv, tolerance) ==
  LET input    == inputs[1]
      audio    == Audio(input)
      selected == selected_audio_stream(audio)
  IN  [operation |-> operation,
       selected  |-> selected,
       expected  |-> ExpectedAudioOnly(input, audio, loudness, tolerance),
       warnings  |-> dropped_stream_warnings(1, input, selected),
       argv      |-> argv]

CompileExtractAudio(op, inputs, tolerance) ==
  CompileAudio([type |-> "extract_audio"], inputs, None,
               extract_audio_argv(inputs[1].path, None, Audio(inputs[1]).index), tolerance)

NormalizeTo(target, accuracy, inputs, tolerance) ==   \* in hundredths of a LUFS
  CompileAudio([type |-> "normalize_audio", target |-> target, tolerance |-> accuracy],
               inputs, [target |-> target, tolerance |-> accuracy],
               normalize_audio_argv(inputs[1].path, None, Audio(inputs[1]).index, target),
               tolerance)

CompileNormalizeAudio(op, inputs, tolerance) ==
  NormalizeTo(op.lufs * 100, op.tolerance, inputs, tolerance)

CompileConcatenate(op, inputs, tolerance) ==
  LET selected == ConcatSelection(inputs)
  IN  [operation |-> [type |-> "concatenate", count |-> Len(inputs),
                      duration |-> JoinedDuration(inputs)],
       selected  |-> selected,
       expected  |-> ExpectedJoined(inputs, tolerance),
       warnings  |-> FlattenSeq([i \in DOMAIN inputs |->
                                   dropped_stream_warnings(i, inputs[i], selected)]),
       argv      |-> concatenate_argv([i \in DOMAIN inputs |-> inputs[i].path], None,
                                      Segments(inputs), HasAudio(inputs))]

CompileImage(operation, inputs, size, argv) ==
  LET selected == selected_image_stream(Video(inputs[1]))
  IN  [operation |-> operation,
       selected  |-> selected,
       expected  |-> expected_jpeg(size),
       warnings  |-> dropped_stream_warnings(1, inputs[1], selected),
       argv      |-> argv]

CompileThumbnail(op, inputs, tolerance) ==
  LET video == Video(inputs[1])
      size  == <<op.width, AspectHeight(Size(video), op.width)>>
  IN  CompileImage([type |-> "thumbnail", at |-> op.at, size |-> size], inputs, size,
                   thumbnail_argv(inputs[1].path, None, video.index, op.at, size))

CompileContactSheet(op, inputs, tolerance) ==
  LET video == Video(inputs[1])
      width == op.width \div op.columns
      cell  == <<width, AspectHeight(Size(video), width)>>
      size  == <<op.width, AtMost(cell[2] * op.rows, MaxU32)>>
  IN  CompileImage([type |-> "contact_sheet", interval |-> op.interval,
                    columns |-> op.columns, rows |-> op.rows, size |-> size], inputs, size,
                   contact_sheet_argv(inputs[1].path, None, video.index, op.interval,
                                      op.columns, op.rows, cell))

Compile(op, inputs, tolerance) ==
  CASE op.type = "clip"            -> CompileClip(op, inputs, tolerance)
    [] op.type = "transcode"       -> CompileTranscode(op, inputs, tolerance)
    [] op.type = "resize"          -> CompileResize(op, inputs, tolerance)
    [] op.type = "extract_audio"   -> CompileExtractAudio(op, inputs, tolerance)
    [] op.type = "normalize_audio" -> CompileNormalizeAudio(op, inputs, tolerance)
    [] op.type = "concatenate"     -> CompileConcatenate(op, inputs, tolerance)
    [] op.type = "thumbnail"       -> CompileThumbnail(op, inputs, tolerance)
    [] op.type = "contact_sheet"   -> CompileContactSheet(op, inputs, tolerance)
    [] op.type = "burn_subtitles"  -> CompileBurnSubtitles(op, inputs, tolerance)

-----------------------------------------------------------------------------
(* Refusals: the error code a compile_* function ends with, or None.       *)
(* "panic" is a division by a source side of zero, which aborts the        *)
(* process.                                                                *)

NoSizedVideo(input) ==
  Video(input) = None \/ Size(Video(input)) = None

Mismatched(inputs) ==
  LET first == Video(inputs[1])
  IN  \/ \E i \in DOMAIN inputs :
           \/ Size(Video(inputs[i])) /= Size(first)
           \/ Video(inputs[i]).rate /= first.rate
      \/ /\ \E i \in DOMAIN inputs : Audio(inputs[i]) /= None
         /\ \E i \in DOMAIN inputs : Audio(inputs[i]) = None

CompileRefusal(op, inputs) ==
  LET input == inputs[1]
      size  == Size(Video(input))
  IN
  CASE op.type = "clip" ->
         IF input.duration = None THEN "unsupported"
         ELSE IF op.end > input.duration THEN "recipe_invalid"
         ELSE IF NoSizedVideo(input) THEN "unsupported" ELSE None
    [] op.type = "transcode" ->
         IF NoSizedVideo(input) THEN "unsupported" ELSE None
    [] op.type = "resize" ->
         IF NoSizedVideo(input) THEN "unsupported"
         ELSE IF /\ op.mode = "fit"
                 /\ FitPanics(Rotated(size, op.rotation)[1], Rotated(size, op.rotation)[2],
                              op.width, op.height)
         THEN "panic" ELSE None
    [] op.type \in {"extract_audio", "normalize_audio"} ->
         IF Audio(input) = None THEN "unsupported" ELSE None
    [] op.type = "concatenate" ->
         IF (\E i \in DOMAIN inputs : NoSizedVideo(inputs[i])) \/ Mismatched(inputs)
         THEN "unsupported" ELSE None
    [] op.type = "thumbnail" ->
         IF input.duration /= None /\ op.at >= input.duration
         THEN "recipe_invalid"
         ELSE IF NoSizedVideo(input) THEN "unsupported"
         ELSE IF size[1] = 0 THEN "panic" ELSE None
    [] op.type = "contact_sheet" ->
         IF NoSizedVideo(input) THEN "unsupported"
         ELSE IF size[1] = 0 THEN "panic" ELSE None
    [] op.type = "burn_subtitles" ->
         IF NoSizedVideo(input) \/ Subtitle(inputs[2]) = None
         THEN "unsupported" ELSE None

-----------------------------------------------------------------------------
(* Assembly.                                                               *)

OverBudget(resources) ==
  \/ resources.output > resources.budgets.output
  \/ resources.temporary > resources.budgets.temporary

Assemble(recipe, inputs, backend, draft) ==
  LET document(id, temporary) ==
        [schema        |-> PlanSchema,
         recipe_digest |-> recipe,
         inputs        |-> inputs,
         path          |-> recipe.path,
         temporary     |-> temporary,
         atomic        |-> TRUE,
         operation     |-> draft.operation,
         selected      |-> draft.selected,
         backend       |-> [version |-> backend.version, libraries |-> backend.libraries],
         expected      |-> draft.expected,
         checks        |-> verification_checks_with_size(draft.expected, recipe.budgets.output),
         warnings      |-> BoundedWarnings(draft.warnings),
         resources     |-> estimate_resources(inputs, draft.expected, recipe.budgets),
         argv          |-> [draft.argv EXCEPT !.output = temporary],
         id            |-> id]
      id == expected_plan_id(document(None, None))
  IN  document(id, temporary_output_path(recipe.path, id))

-----------------------------------------------------------------------------
(* plan_recipe, from the parsed recipe to the plan or the first refusal.   *)
(* media[path] is what inspecting path reports, None when nothing is there.*)

Inspected(recipe, media) == [i \in DOMAIN recipe.inputs |-> media[recipe.inputs[i]]]

plan_refusal(recipe, media, outputExists, backend) ==
  LET inputs == Inspected(recipe, media)
      op     == recipe.operation
  IN  IF ~validate_recipe(recipe) THEN "recipe_invalid"
      ELSE IF \E i \in DOMAIN inputs : inputs[i] = None THEN "input_not_found"
      ELSE IF inputs[1].path = recipe.path THEN "input_output_conflict"
      ELSE IF outputExists \/ \E i \in DOMAIN inputs : inputs[i].path = recipe.path
      THEN "output_exists"
      ELSE IF recipe.path.extension /= Extension(op) THEN "unsupported"
      ELSE IF ~(RequiredEncoders(op, inputs) \union RequiredFilters(op) \subseteq backend.features)
      THEN "unsupported"
      ELSE IF CompileRefusal(op, inputs) /= None THEN CompileRefusal(op, inputs)
      ELSE IF OverBudget(estimate_resources(inputs, Compile(op, inputs, recipe.tolerance).expected,
                                            recipe.budgets))
      THEN "recipe_invalid" ELSE None

plan_recipe(recipe, media, backend) ==
  LET inputs == Inspected(recipe, media)
  IN  Assemble(recipe, inputs, backend,
               Compile(recipe.operation, inputs, recipe.tolerance))
=============================================================================
