----------------------------- MODULE MCPipeline -----------------------------
(***************************************************************************)
(* A small instance of Pipeline.tla: twenty media, every operation, the      *)
(* boundaries of every parameter, and tools that have just the features an *)
(* operation requires, or one fewer.                                       *)
(***************************************************************************)
EXTENDS Pipeline

Path(file, extension) == [dir |-> "media", file |-> file, extension |-> extension, id |-> <<>>]

Stream(index, kind, disposition) ==
  [index |-> index, kind |-> kind, disposition |-> disposition,
   width |-> None, height |-> None, rate |-> None, channels |-> None]
V(index, width, height, disposition) ==
  [Stream(index, "video", disposition) EXCEPT !.width = width, !.height = height,
                                              !.rate = "30/1"]
A(index, channels, disposition) ==
  [Stream(index, "audio", disposition) EXCEPT !.channels = channels]

File(name, bytes, duration, streams) ==
  [path |-> Path(name, "mkv"), bytes |-> bytes, duration |-> duration,
   streams |-> streams, probe |-> "probe", sha |-> name]

Still(name, width, height) == File(name, 9, 2050, <<V(0, width, height, "other")>>)

MCMedia ==
  [plain   |-> File("plain", 9, 1007, <<V(0, 6, 4, "other"), A(1, 2, "other")>>),
   silent  |-> Still("silent", 6, 4),
   marked  |-> File("marked", 9, 1007,
                    <<V(0, 4, 2, "other"), V(1, 6, 4, "default"), A(2, 1, "other"),
                      A(3, 2, "default"), Stream(4, "subtitle", "other"),
                      Stream(5, "data", "other")>>),
   radio   |-> File("radio", 9, 1007, <<A(0, 1, "other")>>),
   unsized |-> Still("unsized", None, None),
   blank   |-> Still("blank", 0, 0),
   undated |-> File("undated", 9, None,
                    <<[V(0, 2, 4, "other") EXCEPT !.rate = None], A(1, None, "default")>>),
   long    |-> File("long", 9, 30000,
                    <<A(0, 2, "other"), V(1, 6, 4, "other"), Stream(2, "data", "other")>>),
   subs    |-> File("subs", 1, None,
                    <<Stream(0, "subtitle", "other"), Stream(1, "subtitle", "default"),
                      Stream(2, "data", "other")>>),
   bulk    |-> File("bulk", 12000, None, <<A(0, 2, "other")>>),
   bare    |-> File("bare", 9, 1007, <<V(0, 6, 4, "absent")>>),
   uneven  |-> File("uneven", 9, 1007,
                    <<V(0, 6, 4, "other"), A(1, 2, "other"), A(2, 1, "default")>>),
   early   |-> File("early", 9, 1007,
                    <<V(0, 6, 4, "other"), A(1, 2, "other"), Stream(2, "data", "other")>>),
   turned  |-> File("turned", 9, 1007, <<V(0, 6, 4, "other"), A(1, 2, "other")>>),
   missing |-> None,
   g16 |-> Still("g16", 1, 6), g61 |-> Still("g61", 6, 1), g33 |-> Still("g33", 3, 3),
   g52 |-> Still("g52", 5, 2), g99 |-> Still("g99", 1, 99)]

\* The sound that "uneven" marks as default ends before the picture does; the
\* picture and the sound of "early", before its data.  "turned" is to be
\* displayed by a quarter turn.
MCShorter == [at \in {<<"uneven", 2>>, <<"early", 0>>, <<"early", 1>>} |->
                IF at = <<"early", 0>> THEN 900 ELSE 800]
MCTurned  == {<<"turned", 0>>}

Budgets == [output |-> 7000, temporary |-> 8000, runtime |-> 2]

Request(op, inputs) ==
  [operation |-> op, inputs |-> inputs, path |-> Path("result", Extension(op)),
   tolerance |-> 2, budgets |-> Budgets]

Clips == {Request([type |-> "clip", start |-> range[1], end |-> range[2]], <<input>>) :
            range \in {<<0, 1007>>, <<34, 1004>>, <<5, 5>>, <<0, 1008>>},
            input \in {"plain", "marked", "undated"}}
           \union {Request([type |-> "clip", start |-> 1050, end |-> 30000], <<"long">>)}
           \union {Request([type |-> "clip", start |-> range[1], end |-> range[2]], <<"early">>) :
                     range \in {<<34, 899>>, <<34, 950>>, <<900, 1007>>}}

Transcodes == {Request([type |-> "transcode"], <<input>>) :
                 input \in {"plain", "marked", "radio", "unsized", "blank", "undated", "bare",
                            "missing", "g33", "uneven", "early", "turned"}}

Resize(box, mode, rotation, input) ==
  Request([type |-> "resize", width |-> box[1], height |-> box[2], mode |-> mode,
           rotation |-> rotation], <<input>>)
Resizes ==
  {Resize(box, "fit", "none", input) :
     box \in {<<2, 2>>, <<2, 6>>, <<6, 2>>, <<4, 6>>, <<6, 4>>},
     input \in {"plain", "g16", "g61", "g33", "g52"}}
  \union {Resize(<<4, 6>>, mode, rotation, "marked") :
            mode \in {"fit", "stretch", "crop", "pad"},
            rotation \in {"none", "clockwise90", "clockwise180"}}
  \union {Resize(<<4, 6>>, "fit", "none", "blank"), Resize(<<3, 6>>, "fit", "none", "plain"),
          Resize(<<4, 6>>, "fit", "none", "turned"), Resize(<<4, 6>>, "pad", "none", "early"),
          Resize(<<4, 10>>, "pad", "none", "plain"), Resize(<<4, 6>>, "crop", "none", "radio")}

Sounds == {Request([type |-> "extract_audio"], <<input>>) :
             input \in {"marked", "radio", "silent", "uneven", "early"}}
            \union {Request([type |-> "normalize_audio", lufs |-> lufs, tolerance |-> 500],
                            <<input>>) :
                      lufs \in {-71, -70, -5}, input \in {"plain", "undated"}}
            \union {[Request([type |-> "extract_audio"], <<"bulk">>) EXCEPT
                      !.budgets.output = MaxU64, !.budgets.temporary = MaxU64]}

Joins == {Request([type |-> "concatenate"], inputs) :
            inputs \in {<<"plain", "long">>, <<"plain", "silent">>, <<"silent", "g33">>,
                        <<"long", "long">>, <<"marked", "marked", "marked">>,
                        <<"silent", "silent">>, <<"plain">>,
                        <<"plain", "uneven">>, <<"early", "plain">>, <<"turned", "turned">>,
                        <<"plain", "plain", "plain", "plain">>}}

Stills ==
  {Request([type |-> "thumbnail", at |-> at, width |-> 4], <<input>>) :
     at \in {0, 1006, 1007}, input \in {"marked", "undated"}}
  \union {Request([type |-> "thumbnail", at |-> at, width |-> 4], <<input>>) :
            at \in {899, 1006}, input \in {"early", "turned"}}
  \union {Request([type |-> "thumbnail", at |-> 2049, width |-> 6], <<input>>) :
            input \in {"g99", "g61", "blank", "unsized"}}
  \union {Request([type |-> "contact_sheet", interval |-> 2, columns |-> columns,
                   rows |-> rows, width |-> 4], <<input>>) :
            columns \in 1..2, rows \in 2..4, input \in {"marked", "g99", "blank"}}

Burns == {Request([type |-> "burn_subtitles"], inputs) :
            inputs \in {<<"plain", "subs">>, <<"early", "subs">>, <<"turned", "subs">>,
                        <<"marked", "marked">>, <<"plain", "plain">>}}

Plain == Request([type |-> "transcode"], <<"plain">>)
Odd == {[Plain EXCEPT !.path = Path("result", "mkv")], [Plain EXCEPT !.path = Path("plain", "mkv")],
        [Plain EXCEPT !.tolerance = 4], [Plain EXCEPT !.budgets.output = 1],
        [Plain EXCEPT !.budgets.runtime = 1]}

MCRecipes == Clips \union Transcodes \union Resizes \union Sounds \union Joins
               \union Stills \union Burns \union Odd

Features == {"libx264", "aac", "mjpeg", "loudnorm", "concat", "scale", "fps", "tile", "subtitles"}

Installed(features) == [version |-> "ffmpeg", libraries |-> {"libavcodec"}, probe |-> "probe",
                        features |-> features]

\* Every recipe with everything installed; one of every operation, and one
\* without sound, with just what the operation asks for, whole and with each
\* feature of it missing.
Sparse == {Plain, Request([type |-> "transcode"], <<"silent">>),
           Request([type |-> "clip", start |-> 0, end |-> 1007], <<"plain">>),
           Resize(<<4, 6>>, "pad", "none", "plain"),
           Request([type |-> "extract_audio"], <<"radio">>),
           Request([type |-> "normalize_audio", lufs |-> -70, tolerance |-> 500], <<"plain">>),
           Request([type |-> "concatenate"], <<"silent", "silent">>),
           Request([type |-> "thumbnail", at |-> 0, width |-> 4], <<"marked">>),
           Request([type |-> "contact_sheet", interval |-> 2, columns |-> 1, rows |-> 2,
                    width |-> 4], <<"marked">>),
           Request([type |-> "burn_subtitles"], <<"plain", "subs">>)}

MCCases == {[recipe |-> r, tools |-> Installed(Features)] : r \in MCRecipes}
             \union {[recipe |-> r, tools |-> Installed(Requirements(r.operation.type) \ {f})] :
                       r \in Sparse, f \in Features}

\* One ordinary recipe, for a wall clock that may be set back.
MCClockCases == {[recipe |-> Plain, tools |-> Installed(Features)]}
=============================================================================
