----------------------------- MODULE Validator ------------------------------
(***************************************************************************)
(* The plan validator: what validate_plan demands of a plan document       *)
(* before it is applied or verified against.  Each operation recomputes    *)
(* what the compiler would have written from the plan's own inputs, except *)
(* a clip, whose streams are looked up by the indices the plan names.      *)
(*                                                                         *)
(* Every refusal is plan_invalid, so the validator is a predicate; the     *)
(* guards are in the order of the code.                                    *)
(***************************************************************************)
EXTENDS PlanModel

-----------------------------------------------------------------------------
(* The document as a whole.                                                *)

ValidHeader(p) ==
  /\ p.schema = PlanSchema
  /\ p.backend.version /= "" /\ p.backend.libraries /= {}
  /\ Len(p.warnings) <= MaxWarnings
  /\ \A i \in DOMAIN p.warnings : Len(p.warnings[i].streams) <= MaxNamed
  /\ p.atomic
  /\ p.inputs /= <<>>
  /\ \A i \in DOMAIN p.inputs : p.inputs[i].probe /= ""

ValidPaths(p) ==
  /\ \A i \in DOMAIN p.inputs : p.inputs[i].path \notin {p.path, p.temporary}
  /\ p.temporary /= p.path
  /\ p.path.dir = p.temporary.dir

ValidResources(p) ==
  /\ p.resources = estimate_resources(p.inputs, p.expected, p.resources.budgets)
  /\ p.resources.output <= p.resources.budgets.output
  /\ p.resources.temporary <= p.resources.budgets.temporary
  /\ p.resources.budgets.runtime >= MinRuntime

IdUnchecked(p) ==   \* the plan's identifier taken on trust
  p.temporary = temporary_output_path(p.path, p.id)
ValidIdentity(p) ==
  /\ p.id = expected_plan_id(p)
  /\ p.temporary = temporary_output_path(p.path, p.id)

-----------------------------------------------------------------------------
(* What the operations share.                                              *)

single_input(p) == Len(p.inputs) = 1

default_video(input) == Video(input) /= None
stream_dimensions_for_plan(stream) == Size(stream) /= None

validate_expected_output(p, expected) ==
  /\ p.expected.tolerance <= MaxTolerance
  /\ p.expected = expected
  /\ p.checks = verification_checks_with_size(expected, p.resources.budgets.output)

validate_web_expectations(p, input, size) ==
  /\ p.selected = selected_streams(1, Video(input), Audio(input))
  /\ validate_expected_output(p, expected_web_output(input, Video(input), size, Audio(input),
                                                     p.expected.tolerance))

validate_image_expectations(p, video, size) ==
  /\ p.selected = selected_image_stream(video)
  /\ validate_expected_output(p, expected_jpeg(size))

-----------------------------------------------------------------------------
(* One predicate per operation.                                            *)

\* The selected streams of a kind, and the input's stream of an index and kind.
selected_kind(p, kind) == Chosen(p.selected, OfKind(p.selected, kind))
input_stream(input, index, kind) ==
  FirstAt(input.streams, {i \in OfKind(input.streams, kind) : input.streams[i].index = index})

validate_clip_plan(p) ==
  LET op     == p.operation
      input  == p.inputs[1]
      videos == selected_kind(p, "video")
      audios == selected_kind(p, "audio")
      video  == input_stream(input, videos[1].index, "video")
      audio  == input_stream(input, audios[1].index, "audio")
      sound  == IF audios = <<>> THEN None ELSE audio
  IN  /\ op.start < op.end /\ op.end - op.start = op.duration
      /\ single_input(p)
      /\ input.duration /= None /\ op.end <= input.duration
      /\ p.expected.duration = op.duration
      /\ Len(videos) = 1 /\ Len(audios) <= 1
      /\ Len(p.selected) = Len(audios) + 1
      /\ \A i \in DOMAIN p.selected : p.selected[i].source = 1
      /\ video /= None /\ (audios /= <<>> => audio /= None)
      /\ p.selected = selected_streams(1, video, sound)
      /\ stream_dimensions_for_plan(video)
      /\ p.expected.video = expected_video("h264", Size(video), video.rate)
      /\ p.expected.audio = IF sound = None THEN None ELSE ExpectedAac(sound.channels, None)
      /\ p.checks = verification_checks_with_size(p.expected, p.resources.budgets.output)
      /\ p.argv = clip_argv(input.path, p.temporary, op.start, op.duration,
                            video.index, Index(sound))

validate_transcode_plan(p) ==
  LET input == p.inputs[1]
      video == Video(input)
  IN  /\ single_input(p) /\ default_video(input) /\ stream_dimensions_for_plan(video)
      /\ validate_web_expectations(p, input, Size(video))
      /\ p.argv = transcode_argv(input.path, p.temporary, video.index, Index(Audio(input)), None)

ResizeTrusted(p) ==   \* the planned size taken on trust
  LET op    == p.operation
      input == p.inputs[1]
      video == Video(input)
  IN  /\ single_input(p) /\ default_video(input) /\ stream_dimensions_for_plan(video)
      /\ validate_web_expectations(p, input, op.output)
      /\ p.argv = transcode_argv(input.path, p.temporary, video.index, Index(Audio(input)),
                                 resize_filter(op.requested, op.output, op.mode, op.rotation))

validate_resize_plan(p) ==
  LET op      == p.operation
      input   == p.inputs[1]
      video   == Video(input)
      rotated == Rotated(Size(video), op.rotation)
      size    == IF op.mode = "fit"
                 THEN fit_dimensions(rotated[1], rotated[2], op.requested[1], op.requested[2])
                 ELSE op.requested
  IN  /\ single_input(p) /\ default_video(input) /\ stream_dimensions_for_plan(video)
      /\ size = op.output
      /\ validate_web_expectations(p, input, size)
      /\ p.argv = transcode_argv(input.path, p.temporary, video.index, Index(Audio(input)),
                                 resize_filter(op.requested, op.output, op.mode, op.rotation))

ValidAudio(p, loudness, argv) ==
  LET input == p.inputs[1]
      audio == Audio(input)
  IN  /\ single_input(p) /\ audio /= None
      /\ p.selected = selected_audio_stream(audio)
      /\ validate_expected_output(p, ExpectedAudioOnly(input, audio, loudness,
                                                       p.expected.tolerance))
      /\ p.argv = argv

validate_extract_audio_plan(p) ==
  ValidAudio(p, None,
             extract_audio_argv(p.inputs[1].path, p.temporary, Audio(p.inputs[1]).index))

LoudnessAllowed(op) == op.target \in (-7000)..(-500) /\ op.tolerance \in 1..500

validate_normalize_audio_plan(p) ==
  LET op == p.operation
  IN  /\ LoudnessAllowed(op)
      /\ ValidAudio(p, [target |-> op.target, tolerance |-> op.tolerance],
                    normalize_audio_argv(p.inputs[1].path, p.temporary,
                                         Audio(p.inputs[1]).index, op.target))

validate_concatenate_plan(p) ==
  LET op     == p.operation
      inputs == p.inputs
      first  == Video(inputs[1])
  IN  /\ op.count \in 2..MaxSegments /\ Len(inputs) = op.count
      /\ \A i \in DOMAIN inputs :
           /\ default_video(inputs[i]) /\ stream_dimensions_for_plan(Video(inputs[i]))
           /\ Size(Video(inputs[i])) = Size(first) /\ Video(inputs[i]).rate = first.rate
      /\ op.duration = JoinedDuration(inputs)
      /\ p.selected = ConcatSelection(inputs)
      /\ HasAudio(inputs) \/ \A i \in DOMAIN inputs : Audio(inputs[i]) = None
      /\ validate_expected_output(p, ExpectedJoined(inputs, p.expected.tolerance))
      /\ p.argv = concatenate_argv([i \in DOMAIN inputs |-> inputs[i].path], p.temporary,
                                   Segments(inputs), HasAudio(inputs))

validate_thumbnail_plan(p) ==
  LET op    == p.operation
      input == p.inputs[1]
      video == Video(input)
  IN  /\ single_input(p)
      /\ input.duration = None \/ op.at < input.duration
      /\ default_video(input) /\ stream_dimensions_for_plan(video)
      /\ op.size[2] = AspectHeight(Size(video), op.size[1])
      /\ validate_image_expectations(p, video, op.size)
      /\ p.argv = thumbnail_argv(input.path, p.temporary, video.index, op.at, op.size)

validate_contact_sheet_plan(p) ==
  LET op    == p.operation
      input == p.inputs[1]
      video == Video(input)
      width == op.size[1] \div op.columns
      cell  == <<width, AspectHeight(Size(video), width)>>
  IN  /\ op.interval >= MinInterval /\ op.columns > 0 /\ op.rows > 0
      /\ op.columns * op.rows <= MaxCells
      /\ op.size[1] % op.columns = 0
      /\ single_input(p) /\ default_video(input) /\ stream_dimensions_for_plan(video)
      /\ op.size[2] = AtMost(cell[2] * op.rows, MaxU32)
      /\ validate_image_expectations(p, video, op.size)
      /\ p.argv = contact_sheet_argv(input.path, p.temporary, video.index, op.interval,
                                     op.columns, op.rows, cell)

validate_burn_subtitles_plan(p) ==
  LET media    == p.inputs[1]
      subtitle == Subtitle(p.inputs[2])
      video    == Video(media)
  IN  /\ Len(p.inputs) = 2
      /\ default_video(media) /\ subtitle /= None
      /\ p.selected = selected_streams(1, video, Audio(media))
                        \o selected_subtitle_stream(subtitle)
      /\ stream_dimensions_for_plan(video)
      /\ validate_expected_output(p, expected_web_output(media, video, Size(video),
                                                         Audio(media), p.expected.tolerance))
      /\ p.argv = transcode_argv(media.path, p.temporary, video.index, Index(Audio(media)),
                                 subtitles_filter(p.inputs[2].path))

ValidOperation(p) ==
  CASE p.operation.type = "clip"            -> validate_clip_plan(p)
    [] p.operation.type = "transcode"       -> validate_transcode_plan(p)
    [] p.operation.type = "resize"          -> validate_resize_plan(p)
    [] p.operation.type = "extract_audio"   -> validate_extract_audio_plan(p)
    [] p.operation.type = "normalize_audio" -> validate_normalize_audio_plan(p)
    [] p.operation.type = "concatenate"     -> validate_concatenate_plan(p)
    [] p.operation.type = "thumbnail"       -> validate_thumbnail_plan(p)
    [] p.operation.type = "contact_sheet"   -> validate_contact_sheet_plan(p)
    [] p.operation.type = "burn_subtitles"  -> validate_burn_subtitles_plan(p)

validate_plan(p) ==
  ValidHeader(p) /\ ValidPaths(p) /\ ValidResources(p) /\ ValidIdentity(p)
    /\ ValidOperation(p)
=============================================================================
