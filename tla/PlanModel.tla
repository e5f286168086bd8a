----------------------------- MODULE PlanModel ------------------------------
(***************************************************************************)
(* The vocabulary that the plan compiler and the plan validator of         *)
(* src/src/plan.rs share: stream selection, expectations, verification     *)
(* checks, argument vectors, recipes and capabilities.                     *)
(*                                                                         *)
(* Documents are records.  A digest is the tuple of what it is computed    *)
(* from (SHA-256 is taken as injective); an argument vector is a record of *)
(* its options; source positions count from 1.                             *)
(***************************************************************************)
EXTENDS Geometry

CONSTANTS
  MaxFrame, MaxThumbnail,   \* widest frames: 16_384 and 8_192
  MinInterval, MaxInterval, \* 100 and 3_600_000 ms
  MaxCells,                 \* 100
  MaxSegments,              \* 64
  MaxTolerance,             \* 10_000 ms
  MinRuntime,               \* 100 ms
  MaxWarnings,              \* MAX_PLAN_WARNINGS, 128
  MaxNamed                  \* dropped streams whose names fit MAX_WARNING_CHARACTERS

ASSUME ThresholdAssumption ==
  /\ {MaxFrame, MaxThumbnail, MinInterval, MaxInterval, MaxCells, MaxSegments, MaxTolerance,
      MinRuntime, MaxWarnings, MaxNamed} \subseteq Nat
  /\ MaxSegments >= 2
  /\ 2 * MaxSegments <= MaxWarnings

PlanSchema == "avpact.plan/v0.1"
Mp4Family  == "mov,mp4,m4a,3gp,3g2,mj2"

-----------------------------------------------------------------------------
(* The types of the documents: what parsing one can yield.                 *)

U32 == 0..MaxU32
U64 == 0..MaxU64
Optional(T) == T \union {None}

StreamKind == {"video", "audio", "subtitle", "data", "attachment", "unknown"}

\* The disposition is what selection reads of the map of flags.  A stream's own
\* duration, which nothing reads, and its rotation, which inspection does not
\* keep, are properties of the media in Pipeline.tla.
StreamSummary ==
  [index: U32, kind: StreamKind, disposition: {"default", "other", "absent"},
   width: Optional(U32), height: Optional(U32), rate: Optional(STRING),
   channels: Optional(U32)]

\* A canonical path; the name of a temporary file holds a plan's identity too.
Paths == [dir: STRING, file: STRING, extension: STRING, id: {<<>>}]

InspectionReport ==
  [path: Paths, bytes: U64, duration: Optional(U64), streams: Seq(StreamSummary),
   probe: STRING, sha: STRING]

\* ffprobe numbers the streams of a file.
IndicesDiffer(streams) ==
  \A i, j \in DOMAIN streams : streams[i].index = streams[j].index => i = j

ResizeMode == {"stretch", "fit", "crop", "pad"}
Rotation == {"none", "clockwise90", "clockwise180", "counter_clockwise90"}

Operation ==
  [type: {"clip"}, start: U64, end: U64]
    \union [type: {"transcode", "extract_audio", "concatenate", "burn_subtitles"}]
    \union [type: {"resize"}, width: U32, height: U32, mode: ResizeMode, rotation: Rotation]
    \union [type: {"normalize_audio"}, lufs: Int, tolerance: Nat]
    \union [type: {"thumbnail"}, at: U64, width: U32]
    \union [type: {"contact_sheet"}, interval: U64, columns: U32, rows: U32, width: U32]

Recipe ==
  [operation: Operation, inputs: Seq(STRING), path: Paths, tolerance: U64,
   budgets: [output: U64, temporary: U64, runtime: U64]]

\* What a plan expects of the output's streams.
ExpectedVideo ==
  [codec: {"h264", "mjpeg"}, width: Nat, height: Nat, aspect: {"1:1"}, rate: Optional(STRING)]
ExpectedLoudness == [target: Int, tolerance: Nat]
ExpectedAudio ==
  [codec: {"aac"}, channels: Optional(Nat), loudness: Optional(ExpectedLoudness)]

\* What an argument vector asks for: times and levels as numerals, one filter.
Numeral == [negative: BOOLEAN, whole: Nat, digits: Seq(Nat)]
Filter ==
  [name: {"reset_timestamps"}]
    \union [name: {"resize"}, rotation: Rotation, mode: ResizeMode, frame: Nat \X Nat]
    \union [name: {"scale"}, frame: Nat \X Nat]
    \union [name: {"tile"}, every: Nat, cell: Nat \X Nat, columns: Nat, rows: Nat]
    \union [name: {"loudnorm"}, target: Numeral]
    \union [name: {"concat"}, segments: Seq([video: Nat, audio: Optional(Nat)]), audio: BOOLEAN]
    \union [name: {"subtitles"}, path: Paths]

\* What is expected, and what an argument vector asks for, are not absent.
ASSUME AbsenceAssumption ==
  /\ None \notin {"libx264", "mjpeg", "aac"} /\ None \notin Int
  /\ None \notin ExpectedVideo /\ None \notin ExpectedAudio /\ None \notin ExpectedLoudness
  /\ None \notin Numeral /\ None \notin Filter

\* Every operation but concatenate names its inputs one by one.
Arity(recipe) ==
  CASE recipe.operation.type = "concatenate" -> TRUE
    [] recipe.operation.type = "burn_subtitles" -> Len(recipe.inputs) = 2
    [] OTHER -> Len(recipe.inputs) = 1

-----------------------------------------------------------------------------
(* Stream selection.                                                       *)

\* Streams marked "default" come before their order in the file.
FirstAt(seq, positions) == IF positions = {} THEN None ELSE seq[Nth(positions, 1)]

OfKind(streams, kind) == {i \in DOMAIN streams : streams[i].kind = kind}
FirstStream(streams, kind) == FirstAt(streams, OfKind(streams, kind))

select_default_stream(streams, kind) ==
  LET marked == {i \in OfKind(streams, kind) : streams[i].disposition = "default"}
  IN  IF marked /= {} THEN FirstAt(streams, marked) ELSE FirstStream(streams, kind)

Video(input)    == select_default_stream(input.streams, "video")
Audio(input)    == select_default_stream(input.streams, "audio")
Subtitle(input) == select_default_stream(input.streams, "subtitle")

Size(stream) ==
  IF stream.width = None \/ stream.height = None THEN None
  ELSE <<stream.width, stream.height>>

Index(stream) == IF stream = None THEN None ELSE stream.index

Selected(source, stream, codec) ==
  [source |-> source, index |-> stream.index, kind |-> stream.kind,
   reason |-> IF stream.disposition = "default" THEN "default" ELSE "first",
   codec  |-> codec]

\* selected_streams: the video stream and, when there is one, the audio stream.
selected_streams(source, video, audio) ==
  <<Selected(source, video, "h264/libx264")>>
    \o (IF audio = None THEN <<>> ELSE <<Selected(source, audio, "aac")>>)

selected_audio_stream(audio) == <<Selected(1, audio, "aac")>>
selected_image_stream(video) == <<Selected(1, video, "mjpeg")>>
selected_subtitle_stream(subtitle) == <<Selected(2, subtitle, "burned_into_video")>>

ConcatSelection(inputs) ==
  FlattenSeq([i \in DOMAIN inputs |->
                selected_streams(i, Video(inputs[i]), Audio(inputs[i]))])

-----------------------------------------------------------------------------
(* What the output is expected to be, and the checks that establish it.    *)

expected_video(codec, size, rate) ==
  [codec |-> codec, width |-> size[1], height |-> size[2],
   aspect |-> "1:1", rate |-> rate]

ExpectedAac(channels, loudness) ==
  [codec |-> "aac", channels |-> channels, loudness |-> loudness]

expected_web_output(input, video, size, audio, tolerance) ==
  [container |-> Mp4Family, duration |-> input.duration, tolerance |-> tolerance,
   video |-> expected_video("h264", size, video.rate),
   audio |-> IF audio = None THEN None ELSE ExpectedAac(audio.channels, None)]

ExpectedAudioOnly(input, audio, loudness, tolerance) ==
  [container |-> Mp4Family, duration |-> input.duration, tolerance |-> tolerance,
   video |-> None, audio |-> ExpectedAac(audio.channels, loudness)]

expected_jpeg(size) ==
  [container |-> "image2", duration |-> None, tolerance |-> 0,
   video |-> expected_video("mjpeg", size, None), audio |-> None]

\* The sum of the durations, unless one is unknown or the sum leaves u64.
JoinedDuration(inputs) ==
  IF \E i \in DOMAIN inputs : inputs[i].duration = None THEN None
  ELSE LET total == Total([i \in DOMAIN inputs |-> inputs[i].duration])
       IN  IF total > MaxU64 THEN None ELSE total

HasAudio(inputs) == \A i \in DOMAIN inputs : Audio(inputs[i]) /= None

ExpectedJoined(inputs, tolerance) ==
  [container |-> Mp4Family, duration |-> JoinedDuration(inputs), tolerance |-> tolerance,
   video |-> expected_video("h264", Size(Video(inputs[1])), Video(inputs[1]).rate),
   audio |-> IF HasAudio(inputs) THEN ExpectedAac(2, None) ELSE None]

One(condition) == IF condition THEN 1 ELSE 0

verification_checks(expected) ==
  LET video == expected.video
      audio == expected.audio
  IN  <<[check |-> "parseable"],
        [check |-> "container", name |-> expected.container]>>
      \o (IF expected.duration = None THEN <<>>
          ELSE <<[check |-> "duration", expected |-> expected.duration,
                  tolerance |-> expected.tolerance]>>)
      \o (IF video = None THEN <<>> ELSE <<[check |-> "video", stream |-> video]>>)
      \o (IF audio = None THEN <<>>
          ELSE <<[check |-> "audio", codec |-> audio.codec, channels |-> audio.channels]>>
               \o (IF audio.loudness = None THEN <<>>
                   ELSE <<[check |-> "loudness", loudness |-> audio.loudness]>>))
      \o <<[check |-> "stream_layout",
            streams |-> <<One(video /= None), One(audio /= None), 0, 0>>]>>

verification_checks_with_size(expected, max_output_bytes) ==
  verification_checks(expected)
    \o <<[check |-> "output_size", max |-> max_output_bytes],
         [check |-> "distinct_from_inputs"]>>

-----------------------------------------------------------------------------
(* Argument vectors.                                                       *)

BackendPrefix(paths, output) ==
  [inputs |-> paths, seek |-> None, length |-> None, maps |-> <<>>, filter |-> None,
   video |-> None, audio |-> None, frames |-> None, muxer |-> None, output |-> output]

Maps(video, audio) ==
  <<<<1, video>>>> \o (IF audio = None THEN <<>> ELSE <<<<1, audio>>>>)

AacArgs(audio) == IF audio = None THEN None ELSE "aac"

transcode_argv(path, output, video, audio, filter) ==
  [BackendPrefix(<<path>>, output) EXCEPT
     !.maps = Maps(video, audio), !.filter = filter,
     !.video = "libx264", !.audio = AacArgs(audio), !.muxer = "mp4"]

clip_argv(path, output, start, duration, video, audio) ==
  [transcode_argv(path, output, video, audio, [name |-> "reset_timestamps"]) EXCEPT
     !.seek = format_milliseconds(start), !.length = format_milliseconds(duration)]

extract_audio_argv(path, output, audio) ==
  [BackendPrefix(<<path>>, output) EXCEPT
     !.maps = <<<<1, audio>>>>, !.audio = "aac", !.muxer = "ipod"]

normalize_audio_argv(path, output, audio, target) ==
  [extract_audio_argv(path, output, audio) EXCEPT
     !.filter = [name |-> "loudnorm", target |-> format_loudness(target)]]

\* Every segment's streams go through one concat filter.
concatenate_argv(paths, output, segments, hasAudio) ==
  [BackendPrefix(paths, output) EXCEPT
     !.filter = [name |-> "concat", segments |-> segments, audio |-> hasAudio],
     !.video = "libx264", !.audio = IF hasAudio THEN "aac" ELSE None, !.muxer = "mp4"]

Segments(inputs) ==
  [i \in DOMAIN inputs |->
     [video |-> Video(inputs[i]).index, audio |-> Index(Audio(inputs[i]))]]

ImageArgv(path, output, video, filter) ==
  [BackendPrefix(<<path>>, output) EXCEPT
     !.maps = <<<<1, video>>>>, !.filter = filter,
     !.frames = 1, !.video = "mjpeg", !.muxer = "image2"]

thumbnail_argv(path, output, video, at, size) ==
  [ImageArgv(path, output, video, [name |-> "scale", frame |-> size]) EXCEPT
     !.seek = format_milliseconds(at)]

contact_sheet_argv(path, output, video, interval, columns, rows, cell) ==
  ImageArgv(path, output, video,
            [name |-> "tile", every |-> interval, cell |-> cell,
             columns |-> columns, rows |-> rows])

ScaleToRequested(requested, output, mode, rotation) ==   \* a fitted frame not kept
  [name |-> "resize", rotation |-> rotation, mode |-> mode, frame |-> requested]

\* fit and stretch scale to the planned size; crop and pad to the requested one.
resize_filter(requested, output, mode, rotation) ==
  [name |-> "resize", rotation |-> rotation, mode |-> mode,
   frame |-> IF mode \in {"stretch", "fit"} THEN output ELSE requested]

subtitles_filter(path) == [name |-> "subtitles", path |-> path]

-----------------------------------------------------------------------------
(* Identity.  The argument vector, the temporary path and the fixed fields *)
(* are not part of the material: the validator compares them one by one.   *)

expected_plan_id(p) ==
  <<"plan", p.recipe_digest, p.inputs, p.path, p.operation, p.selected, p.backend,
    p.expected, p.checks, p.warnings, p.resources>>

\* ".{name}.{id}.tmp.{extension}" beside the output.
temporary_output_path(path, id) == [path EXCEPT !.id = id]

-----------------------------------------------------------------------------
(* Recipes and capabilities.                                               *)

\* validate_recipe: everything it refuses, it refuses as recipe_invalid.
validate_recipe(r) ==
  LET op == r.operation
  IN  /\ CASE op.type = "clip" -> op.start < op.end
           [] op.type = "resize" ->
                \A side \in {op.width, op.height} : side \in 2..MaxFrame /\ side % 2 = 0
           [] op.type = "normalize_audio" ->
                op.lufs \in (-70)..(-5) /\ op.tolerance \in 1..500
           [] op.type = "concatenate" -> Len(r.inputs) \in 2..MaxSegments
           [] op.type = "thumbnail" -> op.width \in 2..MaxThumbnail /\ op.width % 2 = 0
           [] op.type = "contact_sheet" ->
                /\ op.interval \in MinInterval..MaxInterval
                /\ op.columns > 0 /\ op.rows > 0 /\ op.columns * op.rows <= MaxCells
                /\ op.width \in 2..MaxFrame
                /\ op.width % op.columns = 0 /\ (op.width \div op.columns) % 2 = 0
           [] OTHER -> TRUE
      /\ r.tolerance <= MaxTolerance
      /\ r.budgets.output > 0 /\ r.budgets.temporary >= r.budgets.output
      /\ r.budgets.runtime >= MinRuntime

Extension(op) ==
  CASE op.type \in {"extract_audio", "normalize_audio"} -> "m4a"
    [] op.type \in {"thumbnail", "contact_sheet"} -> "jpg"
    [] OTHER -> "mp4"

\* The encoders and filters plan_recipe insists on.
RequiredEncoders(op, inputs) ==
  LET someAudio == \E i \in DOMAIN inputs : \E j \in DOMAIN inputs[i].streams :
                     inputs[i].streams[j].kind = "audio"
  IN  CASE op.type \in {"extract_audio", "normalize_audio"} -> {"aac"}
        [] op.type \in {"thumbnail", "contact_sheet"} -> {"mjpeg"}
        [] OTHER -> {"libx264"} \union (IF someAudio THEN {"aac"} ELSE {})

RequiredFilters(op) ==
  CASE op.type = "normalize_audio" -> {"loudnorm"}
    [] op.type = "concatenate" -> {"concat"}
    [] op.type = "thumbnail" -> {"scale"}
    [] op.type = "contact_sheet" -> {"fps", "scale", "tile"}
    [] op.type = "burn_subtitles" -> {"subtitles"}
    [] OTHER -> {}

\* What `avpact capabilities` says an operation requires.
Requirements(type) ==
  LET web == {"libx264", "aac"}
  IN  CASE type \in {"clip", "transcode"} -> web
        [] type = "resize" -> web \union {"scale"}
        [] type = "extract_audio" -> {"aac"}
        [] type = "normalize_audio" -> {"aac", "loudnorm"}
        [] type = "concatenate" -> web \union {"concat"}
        [] type = "thumbnail" -> {"mjpeg", "scale"}
        [] type = "contact_sheet" -> {"mjpeg", "fps", "scale", "tile"}
        [] type = "burn_subtitles" -> web \union {"subtitles"}

SupportedEncoders(type, backend) ==   \* filters left out of the report
  Requirements(type) \intersect {"libx264", "aac", "mjpeg"} \subseteq backend.features

\* An operation is reported as supported when nothing it requires is missing.
supported(type, backend) == Requirements(type) \subseteq backend.features
=============================================================================
