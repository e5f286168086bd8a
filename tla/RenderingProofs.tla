-------------------------- MODULE RenderingProofs ---------------------------
(***************************************************************************)
(* Proofs that the expectations of a plan fit its arguments: a backend     *)
(* that does what the argument vector of a compiled plan says, to the      *)
(* inputs that the plan was compiled for, makes a file that passes every   *)
(* check of the plan; so a failed verification has another cause.          *)
(***************************************************************************)
EXTENDS AcceptanceProofs

-----------------------------------------------------------------------------
(* Where a rendering takes its streams from.                               *)

\* A stream is found by its index in the file it was selected from.
LEMMA StreamFound ==
  ASSUME NEW input, input.streams \in Seq(StreamSummary), IndicesDiffer(input.streams),
         FileAt(input.path) = input, NEW i \in DOMAIN input.streams
  PROVE  StreamAt(input.path, input.streams[i].index) = input.streams[i]
<1> DEFINE streams == input.streams
           index   == streams[i].index
           found   == StreamAt(input.path, index)
<1>1. found = CHOOSE s \in ToSet(streams) : s.index = index
  BY DEF StreamAt
<1>2. streams[i] \in ToSet(streams)
  BY DEF ToSet
<1>3. found \in ToSet(streams) /\ found.index = index
  BY <1>1, <1>2
<1> HIDE DEF found
<1>4. PICK j \in DOMAIN streams : found = streams[j]
  BY <1>3 DEF ToSet
<1>5. i = j
  BY <1>3, <1>4 DEF IndicesDiffer
<1> QED
  BY <1>4, <1>5 DEF found

\* The default streams of a file are found by their indices.
LEMMA DefaultFound ==
  ASSUME NEW input, Inspectable(input), FileAt(input.path) = input
  PROVE  /\ Video(input) /= None => StreamAt(input.path, Video(input).index) = Video(input)
         /\ Audio(input) /= None => StreamAt(input.path, Audio(input).index) = Audio(input)
<1>1. input.streams \in Seq(StreamSummary) /\ IndicesDiffer(input.streams)
  BY DEF Inspectable
<1>2. ASSUME NEW kind, select_default_stream(input.streams, kind) /= None
      PROVE  LET stream == select_default_stream(input.streams, kind)
             IN  StreamAt(input.path, stream.index) = stream
  <2>1. PICK i \in OfKind(input.streams, kind) :
          select_default_stream(input.streams, kind) = input.streams[i]
    BY <1>1, <1>2, SelectionFinds
  <2>2. i \in DOMAIN input.streams
    BY DEF OfKind
  <2> QED
    BY <1>1, <2>1, <2>2, StreamFound
<1> QED
  BY <1>2 DEF Video, Audio

\* The one stream of a kind among those that are mapped.
LEMMA OneSource ==
  ASSUME NEW argv, NEW kind, argv.maps /= <<>>, NEW at \in DOMAIN argv.maps,
         NEW stream, StreamAt(argv.inputs[1], argv.maps[at][2]) = stream, stream.kind = kind,
         \A i \in DOMAIN argv.maps :
           i /= at => StreamAt(argv.inputs[1], argv.maps[i][2]).kind /= kind
  PROVE  SourceStream(argv, kind) = stream
<1> DEFINE maps   == {StreamAt(argv.inputs[1], argv.maps[i][2]) : i \in DOMAIN argv.maps}
           chosen == {s \in maps : s.kind = kind}
<1>1. chosen = {stream}
  OBVIOUS
<1>2. SourceStream(argv, kind) = IF chosen = {} THEN None ELSE CHOOSE s \in chosen : TRUE
  BY DEF SourceStream
<1> HIDE DEF chosen
<1> QED
  BY <1>1, <1>2

\* The same where only one stream is mapped.
LEMMA OnlySource ==
  ASSUME NEW argv, NEW kind, argv.maps /= <<>>, 1 \in DOMAIN argv.maps,
         \A i \in DOMAIN argv.maps : i = 1,
         NEW stream, StreamAt(argv.inputs[1], argv.maps[1][2]) = stream, stream.kind = kind
  PROVE  SourceStream(argv, kind) = stream
BY OneSource

\* Two sequences of one element, joined.
LEMMA PairJoined ==
  ASSUME NEW a, NEW b
  PROVE  LET pair == <<a>> \o <<b>>
         IN  DOMAIN pair = {1, 2} /\ pair[1] = a /\ pair[2] = b /\ pair \in Seq({a, b})
<1> DEFINE pair == <<a>> \o <<b>>
<1>1. /\ <<a>> \in Seq({a, b}) /\ <<b>> \in Seq({a, b})
      /\ Len(<<a>>) = 1 /\ Len(<<b>>) = 1 /\ <<a>>[1] = a /\ <<b>>[1] = b
  OBVIOUS
<1>2. /\ pair \in Seq({a, b}) /\ Len(pair) = 1 + 1
      /\ \A i \in 1..1 + 1 : pair[i] = IF i <= 1 THEN <<a>>[i] ELSE <<b>>[i - 1]
  BY <1>1, ConcatProperties
<1>3. DOMAIN pair = 1..Len(pair)
  BY <1>2, LenProperties
<1> HIDE DEF pair
<1>4. DOMAIN pair = {1, 2}
  BY <1>2, <1>3
<1>5. pair[1] = a /\ pair[2] = b
  BY <1>1, <1>2
<1> QED
  BY <1>2, <1>4, <1>5 DEF pair

\* The two streams of a file that a transcoding maps.
LEMMA WebSources ==
  ASSUME NEW input, Inspectable(input), FileAt(input.path) = input, Video(input) /= None,
         NEW argv, argv.inputs = <<input.path>>,
         argv.maps = Maps(Video(input).index, Index(Audio(input)))
  PROVE  /\ argv.maps /= <<>>
         /\ SourceStream(argv, "video") = Video(input)
         /\ Audio(input) /= None => SourceStream(argv, "audio") = Audio(input)
<1> DEFINE video == Video(input)
           audio == Audio(input)
<1>1. /\ video \in StreamSummary /\ video.kind = "video"
      /\ audio /= None => audio \in StreamSummary /\ audio.kind = "audio"
  BY SelectionType DEF Inspectable
<1>2. /\ StreamAt(input.path, video.index) = video
      /\ audio /= None => StreamAt(input.path, audio.index) = audio
  BY DefaultFound
<1>3. argv.inputs[1] = input.path
  OBVIOUS
<1>4. CASE audio = None
  <2>1. argv.maps = <<<<1, video.index>>>>
    BY <1>4 DEF Maps, Index
  <2> HIDE DEF video, audio
  <2>2. argv.maps /= <<>> /\ 1 \in DOMAIN argv.maps /\ argv.maps[1][2] = video.index
        /\ \A i \in DOMAIN argv.maps : i = 1
    BY <2>1
  <2> QED
    BY <1>1, <1>2, <1>3, <1>4, <2>2, OneSource DEF video, audio
<1>5. CASE audio /= None
  <2>1. audio.index /= None
    BY <1>1, <1>5, NoneAssumption, WidthAssumption DEF StreamSummary, U32
  <2>2. argv.maps = <<<<1, video.index>>>> \o <<<<1, audio.index>>>>
    BY <1>5, <2>1 DEF Maps, Index
  <2> HIDE DEF video, audio
  <2>3. /\ DOMAIN argv.maps = {1, 2}
        /\ argv.maps[1] = <<1, video.index>> /\ argv.maps[2] = <<1, audio.index>>
    BY <2>2, PairJoined
  <2>4. argv.maps /= <<>> /\ argv.maps[1][2] = video.index /\ argv.maps[2][2] = audio.index
    BY <2>3
  <2>5. SourceStream(argv, "video") = video
    <3>1. \A i \in DOMAIN argv.maps :
            i /= 1 => StreamAt(argv.inputs[1], argv.maps[i][2]).kind /= "video"
      BY <1>1, <1>2, <1>3, <1>5, <2>3, <2>4
    <3> QED
      BY <1>1, <1>2, <1>3, <2>3, <2>4, <3>1, OneSource
  <2>6. SourceStream(argv, "audio") = audio
    <3>1. \A i \in DOMAIN argv.maps :
            i /= 2 => StreamAt(argv.inputs[1], argv.maps[i][2]).kind /= "audio"
      BY <1>1, <1>2, <1>3, <1>5, <2>3, <2>4
    <3> QED
      BY <1>1, <1>2, <1>3, <1>5, <2>3, <2>4, <3>1, OneSource
  <2> QED
    BY <2>4, <2>5, <2>6 DEF video, audio
<1> QED
  BY <1>4, <1>5

-----------------------------------------------------------------------------
(* The streams of a rendering, and why it passes.                          *)

\* A file with one stream of a kind, and with none.
LEMMA OnlyAt ==
  ASSUME NEW file, NEW T, file.streams \in Seq(T), NEW kind,
         NEW k \in DOMAIN file.streams,
         \A i \in DOMAIN file.streams : file.streams[i].kind = kind <=> i = k
  PROVE  Count(file, {kind}) = 1 /\ FirstRendered(file, kind) = file.streams[k]
<1> DEFINE At == {i \in DOMAIN file.streams : file.streams[i].kind \in {kind}}
<1>1. At = {k} /\ OfKind(file.streams, kind) = {k}
  BY DEF OfKind
<1>2. Count(file, {kind}) = Cardinality(At)
  BY DEF Count
<1> HIDE DEF At
<1>3. Cardinality({k}) = 1
  BY FS_Singleton
<1>4. {k} \in SUBSET DOMAIN file.streams /\ {k} /= {}
  OBVIOUS
<1>5. FirstAt(file.streams, {k}) = file.streams[k]
  <2>1. \E i \in {k} : FirstAt(file.streams, {k}) = file.streams[i]
    BY <1>4, FirstAtElement, Zenon
  <2> QED
    BY <2>1
<1> QED
  BY <1>1, <1>2, <1>3, <1>5 DEF FirstRendered, FirstStream

\* Streams of other kinds are not counted.
LEMMA NoneAt ==
  ASSUME NEW file, NEW kinds, \A i \in DOMAIN file.streams : file.streams[i].kind \notin kinds
  PROVE  Count(file, kinds) = 0
<1>1. {i \in DOMAIN file.streams : file.streams[i].kind \in kinds} = {}
  OBVIOUS
<1> QED
  BY <1>1, FS_EmptySet DEF Count

\* The streams of a rendered file: one picture at most, one sound at most.
LEMMA RenderedStreams ==
  ASSUME NEW argv, argv.video /= None \/ argv.audio /= None
  PROVE  LET file == Rendered(argv)
         IN  /\ argv.video /= None => FirstRendered(file, "video") = EncodedVideo(argv)
             /\ argv.audio /= None => FirstRendered(file, "audio") = EncodedAudio(argv)
             /\ StreamLayout(file) = <<One(argv.video /= None), One(argv.audio /= None), 0, 0>>
<1> DEFINE file    == Rendered(argv)
           streams == file.streams
           video   == EncodedVideo(argv)
           audio   == EncodedAudio(argv)
           others  == {"data", "attachment", "unknown"}
<1>1. streams = (IF argv.video = None THEN <<>> ELSE <<video>>)
                  \o (IF argv.audio = None THEN <<>> ELSE <<audio>>)
  BY DEF Rendered
<1>2. video.kind = "video" /\ audio.kind = "audio"
  BY DEF EncodedVideo, EncodedAudio
<1> HIDE DEF file, video, audio
<1>3. <<video>> \in Seq({video, audio}) /\ <<audio>> \in Seq({video, audio})
  OBVIOUS
<1>4. ASSUME \A i \in DOMAIN streams : streams[i].kind \in {"video", "audio"}
      PROVE  Count(file, {"subtitle"}) = 0 /\ Count(file, others) = 0
  <2>1. \A i \in DOMAIN streams :
          streams[i].kind \notin {"subtitle"} /\ streams[i].kind \notin others
    BY <1>4
  <2> HIDE DEF others
  <2> QED
    BY <2>1, NoneAt
<1>5. CASE argv.video /= None /\ argv.audio /= None
  <2>1. streams = <<video>> \o <<audio>>
    BY <1>1, <1>5
  <2>2. /\ DOMAIN streams = {1, 2} /\ streams[1] = video /\ streams[2] = audio
        /\ streams \in Seq({video, audio})
    BY <2>1, PairJoined
  <2>3. Count(file, {"video"}) = 1 /\ FirstRendered(file, "video") = video
    <3>1. \A i \in DOMAIN streams : streams[i].kind = "video" <=> i = 1
      BY <1>2, <2>2
    <3>2. 1 \in DOMAIN streams
      BY <2>2
    <3>3. Count(file, {"video"}) = 1 /\ FirstRendered(file, "video") = streams[1]
      BY <2>2, <3>1, <3>2, OnlyAt, Zenon
    <3> QED
      BY <2>2, <3>3
  <2>4. Count(file, {"audio"}) = 1 /\ FirstRendered(file, "audio") = audio
    <3>1. \A i \in DOMAIN streams : streams[i].kind = "audio" <=> i = 2
      BY <1>2, <2>2
    <3>2. 2 \in DOMAIN streams
      BY <2>2
    <3>3. Count(file, {"audio"}) = 1 /\ FirstRendered(file, "audio") = streams[2]
      BY <2>2, <3>1, <3>2, OnlyAt, Zenon
    <3> QED
      BY <2>2, <3>3
  <2>5. Count(file, {"subtitle"}) = 0 /\ Count(file, others) = 0
    BY <1>2, <1>4, <2>2
  <2> QED
    BY <1>5, <2>3, <2>4, <2>5 DEF StreamLayout, One, file, video, audio
<1>6. CASE argv.video /= None /\ argv.audio = None
  <2>1. streams = <<video>>
    BY <1>1, <1>3, <1>6, ConcatEmptySeq
  <2>2. DOMAIN streams = {1} /\ streams[1] = video /\ streams \in Seq({video, audio})
    BY <1>3, <2>1
  <2>3. Count(file, {"video"}) = 1 /\ FirstRendered(file, "video") = video
    <3>1. \A i \in DOMAIN streams : streams[i].kind = "video" <=> i = 1
      BY <1>2, <2>2
    <3>2. 1 \in DOMAIN streams
      BY <2>2
    <3>3. Count(file, {"video"}) = 1 /\ FirstRendered(file, "video") = streams[1]
      BY <2>2, <3>1, <3>2, OnlyAt, Zenon
    <3> QED
      BY <2>2, <3>3
  <2>4. Count(file, {"audio"}) = 0
    BY <1>2, <2>2, NoneAt
  <2>5. Count(file, {"subtitle"}) = 0 /\ Count(file, others) = 0
    BY <1>2, <1>4, <2>2
  <2> QED
    BY <1>6, <2>3, <2>4, <2>5 DEF StreamLayout, One, file, video
<1>7. CASE argv.video = None /\ argv.audio /= None
  <2>1. streams = <<audio>>
    BY <1>1, <1>3, <1>7, ConcatEmptySeq
  <2>2. DOMAIN streams = {1} /\ streams[1] = audio /\ streams \in Seq({video, audio})
    BY <1>3, <2>1
  <2>3. Count(file, {"audio"}) = 1 /\ FirstRendered(file, "audio") = audio
    <3>1. \A i \in DOMAIN streams : streams[i].kind = "audio" <=> i = 1
      BY <1>2, <2>2
    <3>2. 1 \in DOMAIN streams
      BY <2>2
    <3>3. Count(file, {"audio"}) = 1 /\ FirstRendered(file, "audio") = streams[1]
      BY <2>2, <3>1, <3>2, OnlyAt, Zenon
    <3> QED
      BY <2>2, <3>3
  <2>4. Count(file, {"video"}) = 0
    BY <1>2, <2>2, NoneAt
  <2>5. Count(file, {"subtitle"}) = 0 /\ Count(file, others) = 0
    BY <1>2, <1>4, <2>2
  <2> QED
    BY <1>7, <2>3, <2>4, <2>5 DEF StreamLayout, One, file, audio
<1> QED
  BY <1>5, <1>6, <1>7

\* Checks pass together when they pass apart.
LEMMA PassedJoined ==
  ASSUME NEW T, NEW a \in Seq(T), NEW b \in Seq(T), Passed(a), Passed(b)
  PROVE  Passed(a \o b) /\ a \o b \in Seq(T)
<1>1. /\ a \o b \in Seq(T) /\ Len(a \o b) = Len(a) + Len(b)
      /\ \A i \in 1..Len(a) + Len(b) :
           (a \o b)[i] = IF i <= Len(a) THEN a[i] ELSE b[i - Len(a)]
  BY ConcatProperties
<1>2. /\ DOMAIN a = 1..Len(a) /\ DOMAIN b = 1..Len(b) /\ DOMAIN (a \o b) = 1..Len(a \o b)
      /\ Len(a) \in Nat /\ Len(b) \in Nat
  BY <1>1, LenProperties
<1>3. ASSUME NEW i \in 1..Len(a) + Len(b) PROVE (a \o b)[i].passed
  <2>1. CASE i <= Len(a)
    <3>1. i \in DOMAIN a /\ (a \o b)[i] = a[i]
      BY <1>1, <1>2, <2>1
    <3> QED
      BY <3>1 DEF Passed
  <2>2. CASE ~(i <= Len(a))
    <3>1. i - Len(a) \in DOMAIN b /\ (a \o b)[i] = b[i - Len(a)]
      BY <1>1, <1>2, <2>2
    <3> QED
      BY <3>1 DEF Passed
  <2> QED
    BY <2>1, <2>2
<1> QED
  BY <1>1, <1>2, <1>3 DEF Passed

\* A file that has what each check looks for passes.
LEMMA ChecksPass ==
  ASSUME NEW p, NEW file,
         LET e == p.expected
         IN  /\ file.container = e.container
             /\ e.duration /= None => DurationPasses(e, file)
             /\ e.video /= None => VideoPasses(e.video, FirstRendered(file, "video"))
             /\ e.audio /= None =>
                  /\ AudioPasses(e.audio, FirstRendered(file, "audio"))
                  /\ e.audio.loudness /= None =>
                       AbsDiff(file.loudness, e.audio.loudness.target)
                         <= e.audio.loudness.tolerance
             /\ StreamLayout(file) = ExpectedLayout(e)
             /\ file.bytes <= p.resources.budgets.output
             /\ \A i \in DOMAIN p.inputs : file.sha /= p.inputs[i].sha
  PROVE  verify_output(p, file).passed
<1> DEFINE e  == p.expected
           loud == AbsDiff(file.loudness, e.audio.loudness.target) <= e.audio.loudness.tolerance
           a1 == check("parseable", TRUE)
           a2 == check("container", file.container = e.container)
           a3 == check("duration", DurationPasses(e, file))
           a4 == check("video", VideoPasses(e.video, FirstRendered(file, "video")))
           a5 == check("audio", AudioPasses(e.audio, FirstRendered(file, "audio")))
           a6 == check("integrated_loudness", loud)
           a7 == check("stream_layout", StreamLayout(file) = ExpectedLayout(e))
           a8 == check("output_size", file.bytes <= p.resources.budgets.output)
           a9 == check("distinct_from_inputs",
                       \A i \in DOMAIN p.inputs : file.sha /= p.inputs[i].sha)
           T  == {a1, a2, a3, a4, a5, a6, a7, a8, a9}
           timed == IF e.duration = None THEN <<>> ELSE <<a3>>
           seen  == IF e.video = None THEN <<>> ELSE <<a4>>
           loudness == IF e.audio.loudness = None THEN <<>> ELSE <<a6>>
           heard == IF e.audio = None THEN <<>> ELSE <<a5>> \o loudness
<1>1. PerformedChecks(p, file) = <<a1, a2>> \o timed \o seen \o heard \o <<a7, a8, a9>>
  BY Zenon DEF PerformedChecks
<1>2. /\ a1.passed = TRUE /\ a2.passed = (file.container = e.container)
      /\ a3.passed = DurationPasses(e, file)
      /\ a4.passed = VideoPasses(e.video, FirstRendered(file, "video"))
      /\ a5.passed = AudioPasses(e.audio, FirstRendered(file, "audio"))
      /\ a6.passed = loud
      /\ a7.passed = (StreamLayout(file) = ExpectedLayout(e))
      /\ a8.passed = (file.bytes <= p.resources.budgets.output)
      /\ a9.passed = (\A i \in DOMAIN p.inputs : file.sha /= p.inputs[i].sha)
  BY CheckPassed, Zenon
<1> HIDE DEF a1, a2, a3, a4, a5, a6, a7, a8, a9, loud
<1>3. /\ a1.passed /\ a2.passed /\ a7.passed /\ a8.passed /\ a9.passed
      /\ e.duration /= None => a3.passed
      /\ e.video /= None => a4.passed
      /\ e.audio /= None => a5.passed /\ (e.audio.loudness /= None => a6.passed)
  BY <1>2, Zenon DEF loud
<1>4. /\ <<a1, a2>> \in Seq(T) /\ <<a3>> \in Seq(T) /\ <<a4>> \in Seq(T) /\ <<a5>> \in Seq(T)
      /\ <<a6>> \in Seq(T) /\ <<a7, a8, a9>> \in Seq(T) /\ <<>> \in Seq(T)
  OBVIOUS
<1>5. /\ Passed(<<a1, a2>>) /\ Passed(<<a7, a8, a9>>) /\ Passed(<<>>)
      /\ a3.passed => Passed(<<a3>>)
      /\ a4.passed => Passed(<<a4>>)
      /\ a5.passed => Passed(<<a5>>)
      /\ a6.passed => Passed(<<a6>>)
  <2>1. Passed(<<a1, a2>>) /\ Passed(<<a7, a8, a9>>) /\ Passed(<<>>)
    BY <1>3 DEF Passed
  <2>2. \A a : a.passed => Passed(<<a>>)
    BY DEF Passed
  <2> QED
    BY <2>1, <2>2
<1> HIDE DEF T, e
<1>6. timed \in Seq(T) /\ Passed(timed) /\ seen \in Seq(T) /\ Passed(seen)
  BY <1>3, <1>4, <1>5
<1>7. heard \in Seq(T) /\ Passed(heard)
  <2>1. CASE e.audio /= None
    <3>1. loudness \in Seq(T) /\ Passed(loudness)
      BY <1>3, <1>4, <1>5, <2>1
    <3>2. heard = <<a5>> \o loudness /\ Passed(<<a5>>)
      BY <1>3, <1>5, <2>1
    <3> HIDE DEF loudness, heard
    <3> QED
      BY <1>4, <3>1, <3>2, PassedJoined
  <2> QED
    BY <1>4, <1>5, <2>1
<1> HIDE DEF timed, seen, heard
<1>8. Passed(<<a1, a2>> \o timed) /\ <<a1, a2>> \o timed \in Seq(T)
  BY <1>4, <1>5, <1>6, PassedJoined
<1>9. Passed(<<a1, a2>> \o timed \o seen) /\ <<a1, a2>> \o timed \o seen \in Seq(T)
  BY <1>6, <1>8, PassedJoined
<1>10. /\ Passed(<<a1, a2>> \o timed \o seen \o heard)
       /\ <<a1, a2>> \o timed \o seen \o heard \in Seq(T)
  BY <1>7, <1>9, PassedJoined
<1>11. Passed(<<a1, a2>> \o timed \o seen \o heard \o <<a7, a8, a9>>)
  BY <1>4, <1>5, <1>10, PassedJoined
<1> QED
  BY <1>1, <1>11 DEF verify_output

\* What an argument vector makes is what is expected.
Suits(argv, e) ==
  /\ Rendered(argv).container = e.container
  /\ (argv.video = None) <=> (e.video = None)
  /\ (argv.audio = None) <=> (e.audio = None)
  /\ argv.video /= None \/ argv.audio /= None
  /\ e.duration /= None =>
       RenderedDuration(argv) = e.duration /\ e.duration \in Nat /\ e.tolerance \in Nat
  /\ e.video /= None => VideoPasses(e.video, EncodedVideo(argv))
  /\ e.audio /= None =>
       /\ AudioPasses(e.audio, EncodedAudio(argv))
       /\ e.audio.loudness /= None =>
            /\ Rendered(argv).loudness = e.audio.loudness.target
            /\ e.audio.loudness.target \in Int /\ e.audio.loudness.tolerance \in Nat

\* A rendering that suits its expectations passes every check of the plan.
LEMMA SuitablePasses ==
  ASSUME NEW p, Suits(p.argv, p.expected), 1 <= p.resources.budgets.output,
         \A i \in DOMAIN p.inputs : p.inputs[i].sha /= "rendered"
  PROVE  /\ verify_output(p, Rendered(p.argv)).passed
         /\ Measured(p) => Rendered(p.argv).loudness /= None
<1> DEFINE e    == p.expected
           argv == p.argv
           file == Rendered(argv)
<1>1. /\ file.duration = RenderedDuration(argv) /\ file.bytes = 1 /\ file.sha = "rendered"
  BY DEF Rendered
<1>2. /\ argv.video /= None => FirstRendered(file, "video") = EncodedVideo(argv)
      /\ argv.audio /= None => FirstRendered(file, "audio") = EncodedAudio(argv)
      /\ StreamLayout(file) = <<One(argv.video /= None), One(argv.audio /= None), 0, 0>>
  BY RenderedStreams DEF Suits
<1>3. \A n \in Int : AbsDiff(n, n) = 0
  BY DEF AbsDiff
<1>4. e.duration /= None => DurationPasses(e, file)
  <2> HAVE e.duration /= None
  <2>1. file.duration = e.duration /\ e.duration \in Nat /\ e.tolerance \in Nat
    BY <1>1 DEF Suits
  <2> HIDE DEF file, e
  <2>2. e.duration \in Int /\ 0 <= e.tolerance
    BY <2>1
  <2>3. AbsDiff(file.duration, e.duration) = 0 /\ file.duration /= None
    BY <1>3, <2>1, <2>2, NoneAssumption
  <2> QED
    BY <2>2, <2>3 DEF DurationPasses
<1>5. e.audio /= None /\ e.audio.loudness /= None =>
        AbsDiff(file.loudness, e.audio.loudness.target) <= e.audio.loudness.tolerance
  <2> HAVE e.audio /= None /\ e.audio.loudness /= None
  <2>1. /\ file.loudness = e.audio.loudness.target
        /\ e.audio.loudness.target \in Int /\ e.audio.loudness.tolerance \in Nat
    BY DEF Suits
  <2>2. 0 <= e.audio.loudness.tolerance
    BY <2>1
  <2> HIDE DEF file, e
  <2> QED
    BY <1>3, <2>1, <2>2
<1>6. StreamLayout(file) = ExpectedLayout(e)
  <2>1. /\ One(argv.video /= None) = One(e.video /= None)
        /\ One(argv.audio /= None) = One(e.audio /= None)
    BY DEF Suits, One
  <2> HIDE DEF file, e, argv
  <2> QED
    BY <1>2, <2>1 DEF ExpectedLayout
<1>7. Measured(p) => file.loudness /= None
  <2> HAVE Measured(p)
  <2>1. file.loudness \in Int
    BY DEF Suits, Measured
  <2> QED
    BY <2>1, NoneAssumption
<1>8. /\ file.container = e.container
      /\ e.video /= None => VideoPasses(e.video, FirstRendered(file, "video"))
      /\ e.audio /= None => AudioPasses(e.audio, FirstRendered(file, "audio"))
  BY <1>2 DEF Suits
<1>9. /\ file.bytes <= p.resources.budgets.output
      /\ \A i \in DOMAIN p.inputs : file.sha /= p.inputs[i].sha
  BY <1>1
<1> HIDE DEF e, argv, file
<1>10. verify_output(p, file).passed
  BY <1>4, <1>5, <1>6, <1>8, <1>9, ChecksPass DEF e
<1> QED
  BY <1>7, <1>10 DEF file, argv

\* A picture of the expected frame, from a source of the expected rate.
LEMMA VideoSuits ==
  ASSUME NEW argv, argv.video \in {"libx264", "mjpeg"}, Encodable(argv),
         NEW size, Frame(argv)[1] = size[1], Frame(argv)[2] = size[2],
         SourceStream(argv, "video").rate \in Optional(STRING),
         NEW rate, rate \in {None, SourceStream(argv, "video").rate}
  PROVE  VideoPasses(expected_video(IF argv.video = "libx264" THEN "h264" ELSE "mjpeg",
                                    size, rate),
                     EncodedVideo(argv))
<1> DEFINE video  == EncodedVideo(argv)
           source == SourceStream(argv, "video")
           codec  == IF argv.video = "libx264" THEN "h264" ELSE "mjpeg"
<1>1. argv.video /= None
  BY AbsenceAssumption
<1>2. Frame(argv)[1] \in 1..MaxU32 /\ Frame(argv)[2] \in 1..MaxU32
  BY <1>1 DEF Encodable
<1>3. Frame(argv)[1] \in Nat /\ Frame(argv)[2] \in Nat
  BY <1>2, WidthAssumption
<1>4. Known(source.rate, "25/1") \in Optional(STRING) \union {"25/1"}
  BY DEF Known, Optional
<1>5. video = [kind |-> "video", codec |-> codec, width |-> size[1], height |-> size[2],
               aspect |-> "1:1", rate |-> Known(source.rate, "25/1"), channels |-> None]
  BY DEF EncodedVideo
<1>6. size[1] \in Optional(Nat) /\ size[2] \in Optional(Nat) /\ None \in Optional(Nat)
  BY <1>3 DEF Optional
<1>7. codec \in {"h264", "mjpeg", "aac"}
  OBVIOUS
<1>8. rate \in {None, Known(source.rate, "25/1")}
  BY DEF Known
<1> HIDE DEF video, codec, source
<1>9. video \in RenderedStream
  BY <1>4, <1>5, <1>6, <1>7 DEF RenderedStream
<1>10. video /= None
  BY <1>9, RenderedAssumption
<1> QED
  BY <1>5, <1>8, <1>10 DEF VideoPasses, expected_video, video, codec

\* Sound with the expected number of channels.
LEMMA AudioSuits ==
  ASSUME NEW argv, argv.audio = "aac", EncodedAudio(argv).channels \in Nat,
         NEW channels, channels \in {None, EncodedAudio(argv).channels}, NEW loudness
  PROVE  AudioPasses(ExpectedAac(channels, loudness), EncodedAudio(argv))
<1> DEFINE audio == EncodedAudio(argv)
           n     == audio.channels
<1>1. audio = [kind |-> "audio", codec |-> "aac", width |-> None, height |-> None,
               aspect |-> None, rate |-> None, channels |-> n]
  BY DEF EncodedAudio
<1>2. n \in Optional(Nat) /\ None \in Optional(Nat)
      /\ None \in Optional(STRING) \union {"25/1"}
  BY DEF Optional
<1> HIDE DEF audio, n
<1>3. audio \in RenderedStream
  BY <1>1, <1>2 DEF RenderedStream
<1>4. audio /= None
  BY <1>3, RenderedAssumption
<1>5. audio.codec = "aac" /\ channels \in {None, audio.channels}
  BY <1>1 DEF audio, n
<1> QED
  BY <1>4, <1>5 DEF AudioPasses, ExpectedAac, audio

-----------------------------------------------------------------------------
(* What each operation's argument vector makes.                            *)

\* The options that say which streams go where, and for how long.
Options == {"inputs", "seek", "length", "maps", "filter", "video", "audio", "frames", "muxer",
            "output"}

\* The options of the argument vectors, one operation after the other.
LEMMA TranscodeOptions ==
  ASSUME NEW path, NEW o, NEW v, NEW a, NEW f
  PROVE  LET argv == transcode_argv(path, o, v, a, f)
         IN  /\ DOMAIN argv = Options
             /\ argv.inputs = <<path>> /\ argv.maps = Maps(v, a) /\ argv.filter = f
             /\ argv.length = None /\ argv.frames = None
             /\ argv.video = "libx264" /\ argv.audio = AacArgs(a) /\ argv.muxer = "mp4"
BY DEF transcode_argv, BackendPrefix, Options

LEMMA ClipOptions ==
  ASSUME NEW path, NEW o, NEW start, NEW duration, NEW v, NEW a
  PROVE  LET argv == clip_argv(path, o, start, duration, v, a)
         IN  /\ argv.inputs = <<path>> /\ argv.maps = Maps(v, a)
             /\ argv.filter = [name |-> "reset_timestamps"]
             /\ argv.seek = format_milliseconds(start)
             /\ argv.length = format_milliseconds(duration) /\ argv.frames = None
             /\ argv.video = "libx264" /\ argv.audio = AacArgs(a) /\ argv.muxer = "mp4"
<1> DEFINE web == transcode_argv(path, o, v, a, [name |-> "reset_timestamps"])
           s   == format_milliseconds(start)
           d   == format_milliseconds(duration)
<1>1. clip_argv(path, o, start, duration, v, a) = Part(Part(web, "seek", s), "length", d)
  BY Zenon DEF clip_argv, Part
<1>2. /\ DOMAIN web = Options
      /\ web.inputs = <<path>> /\ web.maps = Maps(v, a)
      /\ web.filter = [name |-> "reset_timestamps"] /\ web.frames = None
      /\ web.video = "libx264" /\ web.audio = AacArgs(a) /\ web.muxer = "mp4"
  BY TranscodeOptions
<1> HIDE DEF web, s, d
<1>3. LET argv == Part(Part(web, "seek", s), "length", d)
      IN  /\ argv.seek = s /\ argv.length = d /\ argv.inputs = web.inputs /\ argv.maps = web.maps
          /\ argv.filter = web.filter /\ argv.frames = web.frames
          /\ argv.video = web.video /\ argv.audio = web.audio /\ argv.muxer = web.muxer
  BY <1>2 DEF Part, Options
<1> QED
  BY <1>1, <1>2, <1>3 DEF s, d

LEMMA ExtractOptions ==
  ASSUME NEW path, NEW o, NEW a
  PROVE  LET argv == extract_audio_argv(path, o, a)
         IN  /\ DOMAIN argv = Options
             /\ argv.inputs = <<path>> /\ argv.maps = <<<<1, a>>>> /\ argv.filter = None
             /\ argv.length = None /\ argv.frames = None
             /\ argv.video = None /\ argv.audio = "aac" /\ argv.muxer = "ipod"
BY DEF extract_audio_argv, BackendPrefix, Options

LEMMA NormalizeOptions ==
  ASSUME NEW path, NEW o, NEW a, NEW target
  PROVE  LET argv == normalize_audio_argv(path, o, a, target)
         IN  /\ argv.inputs = <<path>> /\ argv.maps = <<<<1, a>>>>
             /\ argv.filter = [name |-> "loudnorm", target |-> format_loudness(target)]
             /\ argv.length = None /\ argv.frames = None
             /\ argv.video = None /\ argv.audio = "aac" /\ argv.muxer = "ipod"
<1> DEFINE extract == extract_audio_argv(path, o, a)
           filter  == [name |-> "loudnorm", target |-> format_loudness(target)]
<1>1. normalize_audio_argv(path, o, a, target) = Part(extract, "filter", filter)
  BY Zenon DEF normalize_audio_argv, Part
<1>2. /\ DOMAIN extract = Options
      /\ extract.inputs = <<path>> /\ extract.maps = <<<<1, a>>>>
      /\ extract.length = None /\ extract.frames = None
      /\ extract.video = None /\ extract.audio = "aac" /\ extract.muxer = "ipod"
  BY ExtractOptions
<1> HIDE DEF extract, filter
<1>3. LET argv == Part(extract, "filter", filter)
      IN  /\ argv.filter = filter /\ argv.inputs = extract.inputs /\ argv.maps = extract.maps
          /\ argv.length = extract.length /\ argv.frames = extract.frames
          /\ argv.video = extract.video /\ argv.audio = extract.audio
          /\ argv.muxer = extract.muxer
  BY <1>2 DEF Part, Options
<1> QED
  BY <1>1, <1>2, <1>3 DEF filter

LEMMA ImageOptions ==
  ASSUME NEW path, NEW o, NEW v, NEW f
  PROVE  LET argv == ImageArgv(path, o, v, f)
         IN  /\ DOMAIN argv = Options
             /\ argv.inputs = <<path>> /\ argv.maps = <<<<1, v>>>> /\ argv.filter = f
             /\ argv.frames = 1
             /\ argv.video = "mjpeg" /\ argv.audio = None /\ argv.muxer = "image2"
BY DEF ImageArgv, BackendPrefix, Options

LEMMA ThumbnailOptions ==
  ASSUME NEW path, NEW o, NEW v, NEW at, NEW size
  PROVE  LET argv == thumbnail_argv(path, o, v, at, size)
         IN  /\ argv.inputs = <<path>> /\ argv.maps = <<<<1, v>>>>
             /\ argv.filter = [name |-> "scale", frame |-> size] /\ argv.frames = 1
             /\ argv.video = "mjpeg" /\ argv.audio = None /\ argv.muxer = "image2"
<1> DEFINE filter == [name |-> "scale", frame |-> size]
           image  == ImageArgv(path, o, v, filter)
           s      == format_milliseconds(at)
<1>1. thumbnail_argv(path, o, v, at, size) = Part(image, "seek", s)
  BY Zenon DEF thumbnail_argv, Part
<1> HIDE DEF filter
<1>2. /\ DOMAIN image = Options
      /\ image.inputs = <<path>> /\ image.maps = <<<<1, v>>>> /\ image.filter = filter
      /\ image.frames = 1
      /\ image.video = "mjpeg" /\ image.audio = None /\ image.muxer = "image2"
  BY ImageOptions
<1> HIDE DEF image, s
<1>3. LET argv == Part(image, "seek", s)
      IN  /\ argv.inputs = image.inputs /\ argv.maps = image.maps
          /\ argv.filter = image.filter /\ argv.frames = image.frames
          /\ argv.video = image.video /\ argv.audio = image.audio /\ argv.muxer = image.muxer
  BY <1>2 DEF Part, Options
<1> QED
  BY <1>1, <1>2, <1>3 DEF filter

\* An MP4 of one input: its picture in the given frame, and its sound.
LEMMA WebSuits ==
  ASSUME NEW input, Inspectable(input), FileAt(input.path) = input, ~NoSizedVideo(input),
         NEW argv, Encodable(argv), argv.inputs = <<input.path>>,
         argv.maps = Maps(Video(input).index, Index(Audio(input))), argv.frames = None,
         argv.video = "libx264", argv.audio = AacArgs(Index(Audio(input))), argv.muxer = "mp4",
         NEW size, Frame(argv)[1] = size[1], Frame(argv)[2] = size[2],
         NEW e, e.container = Mp4Family,
         e.duration /= None =>
           e.duration = RenderedDuration(argv) /\ e.duration \in Nat /\ e.tolerance \in Nat,
         e.video = expected_video("h264", size, Video(input).rate), e.video /= None,
         e.audio = IF Audio(input) = None THEN None
                   ELSE ExpectedAac(Audio(input).channels, None)
  PROVE  Suits(argv, e)
<1> DEFINE video == Video(input)
           audio == Audio(input)
<1>1. /\ video /= None /\ video.rate \in Optional(STRING)
      /\ audio /= None => audio \in StreamSummary
  BY SizedVideo, SelectionType DEF Inspectable, NoSizedVideo
<1>2. /\ argv.maps /= <<>> /\ SourceStream(argv, "video") = video
      /\ audio /= None => SourceStream(argv, "audio") = audio
  BY <1>1, WebSources
<1>3. VideoPasses(e.video, EncodedVideo(argv))
  <2>1. /\ argv.video \in {"libx264", "mjpeg"}
        /\ SourceStream(argv, "video").rate \in Optional(STRING)
        /\ video.rate \in {None, SourceStream(argv, "video").rate}
    BY <1>1, <1>2
  <2> HIDE DEF video
  <2>2. VideoPasses(expected_video(IF argv.video = "libx264" THEN "h264" ELSE "mjpeg",
                                   size, video.rate),
                    EncodedVideo(argv))
    BY <2>1, VideoSuits
  <2>3. (IF argv.video = "libx264" THEN "h264" ELSE "mjpeg") = "h264"
    OBVIOUS
  <2> QED
    BY <2>2, <2>3 DEF video
<1>4. Rendered(argv).container = Mp4Family
  BY DEF Rendered
<1>5. CASE audio = None
  <2>1. argv.audio = None /\ e.audio = None
    BY <1>5 DEF AacArgs, Index
  <2> QED
    BY <1>3, <1>4, <2>1, AbsenceAssumption DEF Suits
<1>6. CASE audio /= None
  <2>1. audio.channels \in Optional(U32) /\ audio.index \in U32
    BY <1>1, <1>6 DEF StreamSummary
  <2>2. audio.channels \in Optional(Nat) /\ audio.index /= None
    BY <2>1, WidthAssumption, NoneAssumption DEF U32, Optional
  <2>3. argv.audio = "aac"
    BY <1>6, <2>2 DEF AacArgs, Index
  <2>4. EncodedAudio(argv).channels = Known(audio.channels, 2)
    BY <1>2, <1>6 DEF EncodedAudio
  <2>5. /\ EncodedAudio(argv).channels \in Nat
        /\ audio.channels \in {None, EncodedAudio(argv).channels}
    BY <2>2, <2>4 DEF Known, Optional
  <2>6. AudioPasses(ExpectedAac(audio.channels, None), EncodedAudio(argv))
    BY <2>3, <2>5, AudioSuits
  <2>7. /\ e.audio = ExpectedAac(audio.channels, None) /\ e.audio.loudness = None
        /\ e.audio /= None
    <3>1. None \in Optional(ExpectedLoudness)
      BY DEF Optional
    <3> QED
      BY <1>1, <1>6, <3>1, AudioExpected DEF ExpectedAac
  <2> QED
    BY <1>3, <1>4, <2>3, <2>6, <2>7, AbsenceAssumption DEF Suits
<1> QED
  BY <1>5, <1>6

\* The inputs of a plan are still what it says they are.
Unchanged(p) == \A i \in DOMAIN p.inputs : FileAt(p.inputs[i].path) = p.inputs[i]

\* A plan that the compiler wrote, with arguments that the encoders take and that
\* inputs give what their inspection says.
Renderable(p, r) ==
  /\ r \in Recipe /\ Arity(r) /\ Compiled(p, r) /\ Unchanged(p)
  /\ Encodable(p.argv) /\ Foreseen(p.argv)

\* What holds of every such plan.
LEMMA RenderableFacts ==
  ASSUME NEW p, NEW r, Renderable(p, r)
  PROVE  /\ 1 \in DOMAIN p.inputs /\ Inspectable(p.inputs[1])
         /\ FileAt(p.inputs[1].path) = p.inputs[1]
         /\ ValidOperation(p) /\ p.operation.type = r.operation.type
         /\ ExpectedFits(p.expected, r.operation.type)
         /\ r.operation.type \notin {"thumbnail", "contact_sheet"} => p.expected.tolerance \in Nat
         /\ r.operation.type \in Types
<1>1. r \in Recipe /\ Arity(r) /\ Compiled(p, r)
  BY DEF Renderable
<1>2. 1 \in DOMAIN p.inputs
  BY <1>1, CompiledInputs
<1>3. Inspectable(p.inputs[1]) /\ FileAt(p.inputs[1].path) = p.inputs[1]
  BY <1>2 DEF Renderable, Unchanged, Compiled
<1>4. ValidOperation(p) /\ p.operation.type = r.operation.type
  BY <1>1, CompiledOperation
<1>5. /\ Expects(r.operation, p.inputs, r.tolerance, p.expected)
      /\ ExpectedFits(p.expected, r.operation.type)
  BY <1>1, PlanExpects
<1>6. r.tolerance \in Nat
  BY <1>1, WidthAssumption DEF Recipe, U64
<1>7. r.operation.type \in Types
  BY <1>1, OperationTypes DEF Recipe
<1> QED
  BY <1>2, <1>3, <1>4, <1>5, <1>6, <1>7 DEF Expects

\* An input that is taken whole ends when the file does.
LEMMA WholeEnds ==
  ASSUME NEW argv, Foreseen(argv), argv.frames = None, NEW k \in DOMAIN argv.inputs
  PROVE  End(argv, k) = FileAt(argv.inputs[k]).duration
BY DEF Foreseen, End

\* A picture that is not given another frame keeps the one that is stored.
LEMMA FrameKept ==
  ASSUME NEW argv, Foreseen(argv), argv.video = "libx264",
         argv.filter = None \/ argv.filter.name \in {"subtitles", "reset_timestamps", "concat"}
  PROVE  Frame(argv) = Size(SourceStream(argv, "video"))
<1>1. argv.video /= None
  BY AbsenceAssumption
<1>2. Upright(argv)
  BY <1>1 DEF Foreseen
<1> QED
  BY <1>2, Zenon DEF Frame

\* Without a length of its own, a rendering is as long as its one input.
LEMMA KeptDuration ==
  ASSUME NEW input, Inspectable(input), FileAt(input.path) = input,
         NEW argv, Foreseen(argv), argv.inputs = <<input.path>>, argv.maps /= <<>>, argv.frames = None,
         argv.length = None, input.duration /= None
  PROVE  RenderedDuration(argv) = input.duration /\ input.duration \in Nat
<1>2. argv.inputs[1] = input.path /\ 1 \in DOMAIN argv.inputs
  OBVIOUS
<1>4. End(argv, 1) = FileAt(argv.inputs[1]).duration
  BY <1>2, WholeEnds
<1>5. RenderedDuration(argv) = Known(End(argv, 1), 1)
  BY Zenon DEF RenderedDuration
<1>1. RenderedDuration(argv) = Known(FileAt(argv.inputs[1]).duration, 1)
  BY <1>4, <1>5
<1>3. input.duration \in Nat
  BY InspectableTypes
<1> QED
  BY <1>1, <1>2, <1>3 DEF Known

\* Transcode, resize and subtitle burn-in.
LEMMA WebPlanSuits ==
  ASSUME NEW p, NEW r, Renderable(p, r),
         r.operation.type \in {"transcode", "resize", "burn_subtitles"},
         ~NoSizedVideo(p.inputs[1]),
         NEW filter, NEW size, Frame(p.argv)[1] = size[1], Frame(p.argv)[2] = size[2],
         LET input == p.inputs[1]
         IN  /\ p.argv = transcode_argv(input.path, p.temporary, Video(input).index,
                                        Index(Audio(input)), filter)
             /\ p.expected = expected_web_output(input, Video(input), size, Audio(input),
                                                 p.expected.tolerance)
  PROVE  Suits(p.argv, p.expected)
<1> DEFINE input == p.inputs[1]
           video == Video(input)
           audio == Audio(input)
           argv  == p.argv
           e     == p.expected
<1>1. /\ Inspectable(input) /\ FileAt(input.path) = input /\ e.tolerance \in Nat
      /\ ExpectedFits(e, r.operation.type) /\ Encodable(argv) /\ Foreseen(argv)
  BY RenderableFacts DEF Renderable
<1>2. /\ argv.inputs = <<input.path>> /\ argv.maps = Maps(video.index, Index(audio))
      /\ argv.length = None /\ argv.frames = None
      /\ argv.video = "libx264" /\ argv.audio = AacArgs(Index(audio)) /\ argv.muxer = "mp4"
  BY TranscodeOptions
<1>3. /\ e.container = Mp4Family /\ e.duration = input.duration
      /\ e.video = expected_video("h264", size, video.rate)
      /\ e.audio = IF audio = None THEN None ELSE ExpectedAac(audio.channels, None)
  BY DEF expected_web_output
<1>4. e.video /= None
  BY <1>1, AbsenceAssumption DEF ExpectedFits, SoundAlone
<1> HIDE DEF argv, e
<1>5. argv.maps /= <<>>
  BY <1>1, <1>2, WebSources DEF NoSizedVideo
<1>6. e.duration /= None => e.duration = RenderedDuration(argv) /\ e.duration \in Nat
  BY <1>1, <1>2, <1>3, <1>5, KeptDuration
<1> HIDE DEF input, video, audio
<1>7. Suits(argv, e)
  BY <1>1, <1>2, <1>3, <1>4, <1>6, WebSuits DEF argv, e, input, video, audio
<1> QED
  BY <1>7 DEF argv, e

\* Transcoding and burning in subtitles keep the frame.
LEMMA TranscodeSuits ==
  ASSUME NEW p, NEW r, Renderable(p, r),
         r.operation.type \in {"transcode", "burn_subtitles"}
  PROVE  Suits(p.argv, p.expected)
<1> DEFINE input == p.inputs[1]
           video == Video(input)
           argv  == p.argv
           Web(filter) ==
             /\ ~NoSizedVideo(input)
             /\ argv = transcode_argv(input.path, p.temporary, video.index,
                                      Index(Audio(input)), filter)
             /\ p.expected = expected_web_output(input, video, Size(video), Audio(input),
                                                 p.expected.tolerance)
<1>1. ValidOperation(p) /\ p.operation.type = r.operation.type
      /\ Inspectable(input) /\ FileAt(input.path) = input /\ Foreseen(argv)
  BY RenderableFacts DEF Renderable
<1>2. PICK filter : Web(filter) /\ (filter = None \/ filter.name = "subtitles")
  <2>1. CASE r.operation.type = "transcode"
    <3>1. validate_transcode_plan(p)
      BY <1>1, <2>1 DEF ValidOperation
    <3>2. Web(None)
      BY <3>1 DEF validate_transcode_plan, default_video, stream_dimensions_for_plan,
                  validate_web_expectations, validate_expected_output, NoSizedVideo
    <3> QED
      BY <3>2
  <2>2. CASE r.operation.type = "burn_subtitles"
    <3> DEFINE filter == subtitles_filter(p.inputs[2].path)
    <3>1. validate_burn_subtitles_plan(p)
      BY <1>1, <2>2 DEF ValidOperation
    <3>2. Web(filter)
      BY <3>1 DEF validate_burn_subtitles_plan, default_video, stream_dimensions_for_plan,
                  validate_expected_output, NoSizedVideo
    <3>3. filter.name = "subtitles"
      BY DEF subtitles_filter
    <3> QED
      BY <3>2, <3>3
  <2> QED
    BY <2>1, <2>2
<1>3. argv.inputs = <<input.path>> /\ argv.filter = filter
      /\ argv.maps = Maps(video.index, Index(Audio(input))) /\ argv.video = "libx264"
  BY <1>2, TranscodeOptions
<1> HIDE DEF argv
<1>4. SourceStream(argv, "video") = video
  BY <1>1, <1>2, <1>3, WebSources DEF NoSizedVideo
<1>5. Frame(argv) = Size(video)
  BY <1>1, <1>2, <1>3, <1>4, FrameKept
<1> QED
  BY <1>2, <1>5, WebPlanSuits DEF argv

\* What the compiler wrote for a recipe to resize.
LEMMA ResizedPlan ==
  ASSUME NEW p, NEW r, r \in Recipe, Arity(r), Compiled(p, r), r.operation.type = "resize"
  PROVE  LET op == p.operation
         IN  /\ op.mode \in ResizeMode /\ op.rotation \in Rotation
             /\ op.requested \in Nat \X Nat /\ op.output \in Nat \X Nat
             /\ op.mode /= "fit" => op.output = op.requested
<1> DEFINE op     == r.operation
           source == Rotated(Size(Video(p.inputs[1])), op.rotation)
           box    == <<op.width, op.height>>
           fitted == fit_dimensions(source[1], source[2], op.width, op.height)
           draft  == CompileResize(op, p.inputs, r.tolerance)
<1>1. Compile(op, p.inputs, r.tolerance) = draft
  BY DEF Compile
<1>2. op \in Operation /\ validate_recipe(r) /\ AssembledFrom(p, r, p.inputs, p.backend, draft)
  BY <1>1, CompiledParts
<1>3. draft.operation = [type |-> "resize", requested |-> box,
                         output |-> IF op.mode = "fit" THEN fitted ELSE box,
                         mode |-> op.mode, rotation |-> op.rotation]
  BY DEF CompileResize, CompileWeb
<1>4. op.mode \in ResizeMode /\ op.rotation \in Rotation /\ op.width \in Nat /\ op.height \in Nat
  BY <1>2, WidthAssumption DEF Operation, U32
<1> HIDE DEF draft
<1>5. p.operation = draft.operation
  BY <1>2 DEF AssembledFrom
<1>6. op.mode = "fit" => fitted \in Nat \X Nat
  <2> HAVE op.mode = "fit"
  <2>1. /\ source[1] \in Nat /\ source[2] \in Nat
        /\ ~FitPanics(source[1], source[2], op.width, op.height)
    BY FittedPlan
  <2> HIDE DEF source
  <2>2. fitted[1] \in Nat /\ fitted[2] \in Nat
    BY <1>4, <2>1, FitType
  <2>3. fitted = <<fitted[1], fitted[2]>>
    BY DEF fit_dimensions
  <2> HIDE DEF fitted
  <2> QED
    BY <2>2, <2>3
<1> HIDE DEF fitted
<1> QED
  BY <1>3, <1>4, <1>5, <1>6

\* Resizing makes the frame that was planned.
LEMMA ResizeSuits ==
  ASSUME NEW p, NEW r, Renderable(p, r), r.operation.type = "resize"
  PROVE  Suits(p.argv, p.expected)
<1> DEFINE op     == p.operation
           input  == p.inputs[1]
           video  == Video(input)
           argv   == p.argv
           filter == resize_filter(op.requested, op.output, op.mode, op.rotation)
<1>1. validate_resize_plan(p) /\ Inspectable(input) /\ FileAt(input.path) = input
  BY RenderableFacts DEF ValidOperation
<1>2. /\ ~NoSizedVideo(input)
      /\ argv = transcode_argv(input.path, p.temporary, video.index, Index(Audio(input)), filter)
      /\ p.expected = expected_web_output(input, video, op.output, Audio(input),
                                          p.expected.tolerance)
  BY <1>1 DEF validate_resize_plan, default_video, stream_dimensions_for_plan,
              validate_web_expectations, validate_expected_output, NoSizedVideo
<1>3. /\ op.mode \in ResizeMode /\ op.rotation \in Rotation
      /\ op.requested \in Nat \X Nat /\ op.output \in Nat \X Nat
      /\ op.mode /= "fit" => op.output = op.requested
  BY ResizedPlan DEF Renderable
<1>4. filter = [name |-> "resize", rotation |-> op.rotation, mode |-> op.mode,
                frame |-> op.output]
  BY <1>3 DEF resize_filter
<1> HIDE DEF filter
<1>5. filter \in Filter
  BY <1>3, <1>4 DEF Filter
<1>6. argv.filter = filter
  BY <1>2, TranscodeOptions
<1> HIDE DEF argv
<1>7. Frame(argv) = op.output
  BY <1>4, <1>5, <1>6, AbsenceAssumption DEF Frame
<1> QED
  BY <1>2, <1>7, WebPlanSuits DEF argv

\* Times are written as numerals.
LEMMA TimeNumeral ==
  ASSUME NEW ms \in Nat
  PROVE  format_milliseconds(ms) \in Numeral
<1> DEFINE a == (ms % 1000) \div 100
           b == (ms % 100) \div 10
           c == ms % 10
<1>1. a \in Nat /\ b \in Nat /\ c \in Nat /\ ms \div 1000 \in Nat
  BY Z3
<1>2. format_milliseconds(ms)
        = [negative |-> FALSE, whole |-> ms \div 1000, digits |-> <<a, b, c>>]
  BY DEF format_milliseconds
<1> HIDE DEF a, b, c
<1>3. <<a, b, c>> \in Seq(Nat)
  BY <1>1
<1> QED
  BY <1>1, <1>2, <1>3 DEF Numeral

\* A clip is as long as its argument says, read back.
LEMMA ClipSuits ==
  ASSUME NEW p, NEW r, Renderable(p, r), r.operation.type = "clip"
  PROVE  Suits(p.argv, p.expected)
<1> DEFINE op       == r.operation
           input    == p.inputs[1]
           video    == Video(input)
           audio    == Audio(input)
           duration == op.end - op.start
           web      == expected_web_output(input, video, Size(video), audio, r.tolerance)
           draft    == CompileClip(op, p.inputs, r.tolerance)
           argv     == p.argv
           e        == p.expected
<1>1. Compile(op, p.inputs, r.tolerance) = draft
  BY DEF Compile
<1>2. /\ AssembledFrom(p, r, p.inputs, p.backend, draft) /\ op \in Operation
      /\ p.argv = Part(draft.argv, "output", p.temporary)
      /\ CompileRefusal(op, p.inputs) = None /\ validate_recipe(r)
  BY <1>1, CompiledParts DEF Renderable
<1>3. /\ Inspectable(input) /\ FileAt(input.path) = input
      /\ ExpectedFits(e, op.type) /\ e.tolerance \in Nat /\ Encodable(argv) /\ Foreseen(argv)
  BY RenderableFacts DEF Renderable
<1>4. ~NoSizedVideo(input) /\ input.duration /= None /\ ~(op.end > input.duration)
  BY <1>2, CodeAssumption DEF CompileRefusal, Commands, Codes
<1>5. /\ duration \in Nat /\ duration <= MaxU64 /\ op.start \in Nat /\ op.start <= MaxU64
      /\ input.duration \in Nat /\ duration <= input.duration - op.start
  <2>1. op.start \in U64 /\ op.end \in U64 /\ op.start < op.end
    BY <1>2 DEF Operation, validate_recipe
  <2>2. input.duration \in Nat
    BY <1>3, <1>4, InspectableTypes
  <2> HIDE DEF input, op
  <2> QED
    BY <1>4, <2>1, <2>2, WidthAssumption DEF U64
<1>6. argv = clip_argv(input.path, p.temporary, op.start, duration, video.index, Index(audio))
  <2>1. draft.argv = clip_argv(input.path, None, op.start, duration, video.index, Index(audio))
    BY DEF CompileClip, ClipOf
  <2> HIDE DEF draft
  <2> QED
    BY <1>2, <2>1, ClipOutput
<1>7. e = Part(web, "duration", duration)
  <2>1. draft.expected = Part(web, "duration", duration)
    BY Zenon DEF CompileClip, ClipOf, Part
  <2> HIDE DEF draft, web
  <2> QED
    BY <1>2, <2>1 DEF AssembledFrom
<1>8. /\ e.duration = duration /\ e.container = Mp4Family
      /\ e.video = expected_video("h264", Size(video), video.rate)
      /\ e.audio = IF audio = None THEN None ELSE ExpectedAac(audio.channels, None)
  <2>1. /\ DOMAIN web = {"container", "duration", "tolerance", "video", "audio"}
        /\ web.container = Mp4Family
        /\ web.video = expected_video("h264", Size(video), video.rate)
        /\ web.audio = IF audio = None THEN None ELSE ExpectedAac(audio.channels, None)
    BY DEF expected_web_output
  <2> HIDE DEF web
  <2>2. /\ e.duration = duration /\ e.container = web.container
        /\ e.video = web.video /\ e.audio = web.audio
    BY <1>7, <2>1 DEF Part
  <2> QED
    BY <2>1, <2>2
<1> HIDE DEF draft, web
<1>9. /\ argv.inputs = <<input.path>> /\ argv.maps = Maps(video.index, Index(audio))
      /\ argv.filter = [name |-> "reset_timestamps"]
      /\ argv.seek = format_milliseconds(op.start)
      /\ argv.length = format_milliseconds(duration) /\ argv.frames = None
      /\ argv.video = "libx264" /\ argv.audio = AacArgs(Index(audio)) /\ argv.muxer = "mp4"
  BY <1>6, ClipOptions
<1> HIDE DEF argv, e, duration
<1>10. SourceStream(argv, "video") = video
  BY <1>3, <1>4, <1>9, WebSources DEF NoSizedVideo
<1>11. Frame(argv) = Size(video)
  BY <1>3, <1>9, <1>10, FrameKept
<1>12. RenderedDuration(argv) = duration
  <2>1. argv.length /= None
    BY <1>5, <1>9, TimeNumeral, AbsenceAssumption
  <2>2. RenderedDuration(argv)
          = AtMost(decimal_ms(argv.length), End(argv, 1) - decimal_ms(argv.seek))
    BY <1>9, <2>1, Zenon DEF RenderedDuration
  <2>3. decimal_ms(argv.length) = duration /\ decimal_ms(argv.seek) = op.start
    BY <1>5, <1>9, TimesReadBack
  <2>4. End(argv, 1) = input.duration
    <3>1. 1 \in DOMAIN argv.inputs /\ argv.inputs[1] = input.path
      BY <1>9
    <3> QED
      BY <1>3, <1>9, <3>1, WholeEnds
  <2>5. AtMost(duration, input.duration - op.start) = duration
    <3> HIDE DEF input, op
    <3> QED
      BY <1>5 DEF AtMost
  <2> QED
    BY <2>2, <2>3, <2>4, <2>5, Zenon
<1>13. e.video /= None
  BY <1>3, AbsenceAssumption DEF ExpectedFits, SoundAlone
<1> HIDE DEF input, video, audio
<1>14. Suits(argv, e)
  BY <1>3, <1>4, <1>5, <1>8, <1>9, <1>11, <1>12, <1>13, WebSuits DEF input, video, audio
<1> QED
  BY <1>14 DEF argv, e

-----------------------------------------------------------------------------
(* Sound alone.                                                            *)

\* A negative level that is not above -1 LUFS, read.
LEMMA LevelRead ==
  ASSUME NEW w \in Nat, NEW a \in Nat, NEW b \in Nat, w /= 0
  PROVE  LET n == [negative |-> w /= 0, whole |-> w, digits |-> <<a, b>>]
         IN  n \in Numeral /\ Loudness(n) + (w * 100 + a * 10 + b) = 0 /\ Loudness(n) \in Int
<1> DEFINE n == [negative |-> w /= 0, whole |-> w, digits |-> <<a, b>>]
<1>1. <<a, b>> \in Seq(Nat) /\ <<a, b>>[1] = a /\ <<a, b>>[2] = b
  OBVIOUS
<1>2. n \in Numeral
  BY <1>1 DEF Numeral
<1>3. Loudness(n) = -(w * 100 + a * 10 + b)
  BY <1>1 DEF Loudness
<1> HIDE DEF n
<1> QED
  BY <1>2, <1>3 DEF n

\* The hundredths of LUFS that a filter is given, read back.
LEMMA LoudnessReadsBack ==
  ASSUME NEW target \in Int, target + 500 <= 0
  PROVE  /\ Loudness(format_loudness(target)) = target
         /\ format_loudness(target) \in Numeral
<1> DEFINE size == -target
           a == (size % 100) \div 10
           b == size % 10
           w == size \div 100
           n == format_loudness(target)
<1>1. size \in Nat /\ size >= 500 /\ target < 0 /\ target = -size
  OBVIOUS
<1>2. n = [negative |-> w /= 0, whole |-> w, digits |-> <<a, b>>]
  BY <1>1 DEF format_loudness
<1> HIDE DEF size
<1>3. w \in Nat /\ a \in Nat /\ b \in Nat /\ w /= 0
  BY <1>1, Z3
<1>4. size = w * 100 + a * 10 + b
  <2>1. size = w * 100 + (size % 100) /\ size % 100 \in 0..99
    BY <1>1, Remainder, 100 > 0
  <2>2. size % 100 = a * 10 + ((size % 100) % 10)
    BY <2>1, Remainder, 10 > 0
  <2>3. (size % 100) % 10 = b
    BY <1>1, Z3
  <2>4. size % 100 = a * 10 + b
    BY <2>2, <2>3
  <2> HIDE DEF w, a, b
  <2> QED
    BY <1>1, <1>3, <2>1, <2>4
<1> HIDE DEF w, a, b, n
<1>5. n \in Numeral /\ Loudness(n) + (w * 100 + a * 10 + b) = 0 /\ Loudness(n) \in Int
  BY <1>2, <1>3, LevelRead
<1> QED
  BY <1>1, <1>4, <1>5 DEF n

\* The one stream that an extraction maps.
LEMMA SoundSource ==
  ASSUME NEW input, Inspectable(input), FileAt(input.path) = input, Audio(input) /= None,
         NEW argv, argv.inputs = <<input.path>>, argv.maps = <<<<1, Audio(input).index>>>>
  PROVE  argv.maps /= <<>> /\ SourceStream(argv, "audio") = Audio(input)
<1> DEFINE audio == Audio(input)
<1>1. audio \in StreamSummary /\ audio.kind = "audio"
  BY SelectionType DEF Inspectable
<1>2. StreamAt(input.path, audio.index) = audio
  BY DefaultFound
<1>3. argv.maps = <<<<1, audio.index>>>>
  OBVIOUS
<1> HIDE DEF audio
<1>4. argv.inputs[1] = input.path /\ argv.maps /= <<>> /\ 1 \in DOMAIN argv.maps
      /\ argv.maps[1][2] = audio.index /\ \A i \in DOMAIN argv.maps : i = 1
  BY <1>3
<1>5. StreamAt(argv.inputs[1], argv.maps[1][2]) = audio
  BY <1>2, <1>4
<1>6. SourceStream(argv, "audio") = audio
  BY <1>1, <1>4, <1>5, OnlySource, Zenon
<1> QED
  BY <1>4, <1>6 DEF audio

\* The arguments of extract_audio and normalize_audio, and what is expected.
LEMMA SoundSuits ==
  ASSUME NEW input, Inspectable(input), FileAt(input.path) = input, Audio(input) /= None,
         NEW argv, Foreseen(argv), argv.inputs = <<input.path>>,
         argv.maps = <<<<1, Audio(input).index>>>>,
         argv.length = None, argv.frames = None, argv.video = None, argv.audio = "aac",
         argv.muxer = "ipod",
         NEW loudness, loudness /= None =>
           /\ Rendered(argv).loudness = loudness.target
           /\ loudness.target \in Int /\ loudness.tolerance \in Nat,
         NEW e, e.container = Mp4Family, e.duration = input.duration, e.tolerance \in Nat,
         e.video = None, e.audio = ExpectedAac(Audio(input).channels, loudness),
         e.audio /= None
  PROVE  Suits(argv, e)
<1> DEFINE audio == Audio(input)
<1>1. audio \in StreamSummary /\ audio.kind = "audio"
  BY SelectionType DEF Inspectable
<1>2. argv.maps /= <<>> /\ SourceStream(argv, "audio") = audio
  BY SoundSource
<1> HIDE DEF audio
<1>3. e.duration /= None => e.duration = RenderedDuration(argv) /\ e.duration \in Nat
  BY <1>2, KeptDuration
<1>4. AudioPasses(e.audio, EncodedAudio(argv))
  <2>1. audio.channels \in Optional(Nat)
    BY <1>1, WidthAssumption DEF StreamSummary, U32, Optional
  <2>2. EncodedAudio(argv).channels = Known(audio.channels, 2)
    BY <1>2 DEF EncodedAudio
  <2>3. /\ EncodedAudio(argv).channels \in Nat
        /\ audio.channels \in {None, EncodedAudio(argv).channels}
    BY <2>1, <2>2 DEF Known, Optional
  <2> QED
    BY <2>3, AudioSuits DEF audio
<1>5. Rendered(argv).container = Mp4Family
  BY DEF Rendered
<1>6. e.audio.loudness = loudness
  BY DEF ExpectedAac
<1>7. argv.audio /= None
  BY AbsenceAssumption
<1> QED
  BY <1>3, <1>4, <1>5, <1>6, <1>7 DEF Suits

\* The parts of an expectation of sound alone.
LEMMA SoundExpected ==
  ASSUME NEW input, NEW audio, NEW loudness, NEW tolerance, NEW e,
         e = ExpectedAudioOnly(input, audio, loudness, tolerance)
  PROVE  /\ e.container = Mp4Family /\ e.duration = input.duration /\ e.video = None
         /\ e.audio = ExpectedAac(audio.channels, loudness)
BY DEF ExpectedAudioOnly

\* Expected sound is not absent.
LEMMA SoundPresent ==
  ASSUME NEW input, Inspectable(input), Audio(input) /= None,
         NEW loudness \in Optional(ExpectedLoudness)
  PROVE  ExpectedAac(Audio(input).channels, loudness) /= None
<1>1. Audio(input) \in StreamSummary
  BY SelectionType DEF Inspectable
<1>2. Audio(input).channels \in Optional(Nat)
  BY <1>1, WidthAssumption DEF StreamSummary, U32, Optional
<1>3. ExpectedAac(Audio(input).channels, loudness) \in ExpectedAudio
  BY <1>2 DEF ExpectedAac, ExpectedAudio
<1> QED
  BY <1>3, AbsenceAssumption

\* Extracting takes the sound alone.
LEMMA ExtractSuits ==
  ASSUME NEW p, NEW r, Renderable(p, r), r.operation.type = "extract_audio"
  PROVE  Suits(p.argv, p.expected)
<1> DEFINE input == p.inputs[1]
           audio == Audio(input)
           argv  == p.argv
           e     == p.expected
<1>1. /\ ValidOperation(p) /\ p.operation.type = "extract_audio"
      /\ Inspectable(input) /\ FileAt(input.path) = input /\ e.tolerance \in Nat
      /\ Foreseen(argv)
  BY RenderableFacts DEF Renderable
<1>2. /\ audio /= None
      /\ argv = extract_audio_argv(input.path, p.temporary, audio.index)
      /\ e = ExpectedAudioOnly(input, audio, None, e.tolerance)
  BY <1>1 DEF ValidOperation, validate_extract_audio_plan, ValidAudio, validate_expected_output
<1> HIDE DEF argv, e, audio, input
<1>4. /\ argv.inputs = <<input.path>> /\ argv.maps = <<<<1, audio.index>>>>
      /\ argv.length = None /\ argv.frames = None
      /\ argv.video = None /\ argv.audio = "aac" /\ argv.muxer = "ipod"
  BY <1>2, ExtractOptions
<1>5. /\ e.container = Mp4Family /\ e.duration = input.duration /\ e.video = None
      /\ e.audio = ExpectedAac(audio.channels, None)
  BY <1>2, SoundExpected
<1>6. e.audio /= None
  BY <1>1, <1>2, <1>5, SoundPresent DEF audio, Optional
<1>7. Suits(argv, e)
  BY <1>1, <1>2, <1>4, <1>5, <1>6, SoundSuits DEF audio
<1> QED
  BY <1>7 DEF argv, e

\* The loudness of a recipe, in hundredths.
LEMMA LevelRange ==
  ASSUME NEW op, LoudnessAllowed(op)
  PROVE  op.target \in Int /\ op.target + 500 <= 0 /\ op.tolerance \in Nat
<1> DEFINE levels == (-7000)..(-500)
<1>1. op.target \in levels
  BY DEF LoudnessAllowed
<1>2. \A level \in levels : level \in Int /\ level + 500 <= 0
  OBVIOUS
<1> HIDE DEF levels
<1>3. op.target \in Int /\ op.target + 500 <= 0
  BY <1>1, <1>2
<1>4. op.tolerance \in Nat
  BY Z3 DEF LoudnessAllowed
<1> QED
  BY <1>3, <1>4

\* The loudness of a valid plan is far enough below zero to be read back.
LEMMA AllowedLevel ==
  ASSUME NEW p, validate_normalize_audio_plan(p)
  PROVE  LET target == p.operation.target
             margin == p.operation.tolerance
         IN  /\ target \in Int /\ margin \in Nat
             /\ Loudness(format_loudness(target)) = target
             /\ format_loudness(target) \in Numeral
<1>1. LoudnessAllowed(p.operation)
  BY Zenon DEF validate_normalize_audio_plan
<1>2. /\ p.operation.target \in Int /\ p.operation.target + 500 <= 0
      /\ p.operation.tolerance \in Nat
  BY <1>1, LevelRange, Zenon
<1> QED
  BY <1>2, LoudnessReadsBack

\* Normalizing reaches the loudness that its argument says, read back.
LEMMA NormalizeSuits ==
  ASSUME NEW p, NEW r, Renderable(p, r), r.operation.type = "normalize_audio"
  PROVE  Suits(p.argv, p.expected)
<1>1. PICK target, margin :
        target = p.operation.target /\ margin = p.operation.tolerance
  OBVIOUS
<1> DEFINE input == p.inputs[1]
           audio == Audio(input)
           argv  == p.argv
           e     == p.expected
           level == [target |-> target, tolerance |-> margin]
           filter == [name |-> "loudnorm", target |-> format_loudness(target)]
<1>2. /\ ValidOperation(p) /\ p.operation.type = "normalize_audio"
      /\ Inspectable(input) /\ FileAt(input.path) = input /\ e.tolerance \in Nat
      /\ Foreseen(argv)
  BY RenderableFacts DEF Renderable
<1>3. validate_normalize_audio_plan(p)
  BY <1>2 DEF ValidOperation
<1>4. /\ target \in Int /\ margin \in Nat
      /\ Loudness(format_loudness(target)) = target
      /\ format_loudness(target) \in Numeral
  BY <1>1, <1>3, AllowedLevel
<1>5. level.target = target /\ level.tolerance = margin /\ level \in ExpectedLoudness
  BY <1>4 DEF ExpectedLoudness
<1>6. /\ filter.name = "loudnorm" /\ filter.target = format_loudness(target)
      /\ filter \in Filter
  BY <1>4 DEF Filter
<1>7. /\ audio /= None
      /\ argv = normalize_audio_argv(input.path, p.temporary, audio.index, target)
      /\ e = ExpectedAudioOnly(input, audio, level, e.tolerance)
  <2>1. ValidAudio(p, level, normalize_audio_argv(input.path, p.temporary, audio.index, target))
    BY <1>1, <1>3, Zenon DEF validate_normalize_audio_plan
  <2> HIDE DEF level
  <2> QED
    BY <2>1 DEF ValidAudio, validate_expected_output
<1> HIDE DEF argv, e, audio, input, level
<1>8. /\ argv.inputs = <<input.path>> /\ argv.maps = <<<<1, audio.index>>>>
      /\ argv.filter = filter
      /\ argv.length = None /\ argv.frames = None
      /\ argv.video = None /\ argv.audio = "aac" /\ argv.muxer = "ipod"
  BY <1>7, NormalizeOptions
<1> HIDE DEF filter
<1>9. /\ Rendered(argv).loudness = level.target
      /\ level.target \in Int /\ level.tolerance \in Nat
  <2>1. argv.filter /= None /\ argv.filter.name = "loudnorm"
        /\ argv.filter.target = format_loudness(target)
    BY <1>6, <1>8, AbsenceAssumption
  <2>2. Rendered(argv).loudness = Loudness(argv.filter.target)
    BY <2>1 DEF Rendered
  <2> QED
    BY <1>4, <1>5, <2>1, <2>2
<1>10. /\ e.container = Mp4Family /\ e.duration = input.duration /\ e.video = None
       /\ e.audio = ExpectedAac(audio.channels, level)
  BY <1>7, SoundExpected
<1>11. e.audio /= None
  <2>1. level \in Optional(ExpectedLoudness)
    BY <1>5 DEF Optional
  <2>2. ExpectedAac(audio.channels, level) /= None
    BY <1>2, <1>7, <2>1, SoundPresent, Zenon DEF audio
  <2> QED
    BY <1>10, <2>2
<1>12. Suits(argv, e)
  BY <1>2, <1>7, <1>8, <1>9, <1>10, <1>11, SoundSuits DEF audio
<1> QED
  BY <1>12 DEF argv, e

-----------------------------------------------------------------------------
(* Still images.                                                           *)

\* The one stream that an image maps.
LEMMA StillSource ==
  ASSUME NEW input, Inspectable(input), FileAt(input.path) = input, ~NoSizedVideo(input),
         NEW argv, argv.inputs = <<input.path>>, argv.maps = <<<<1, Video(input).index>>>>
  PROVE  /\ SourceStream(argv, "video") = Video(input)
         /\ Video(input).rate \in Optional(STRING)
<1> DEFINE video == Video(input)
<1>1. video /= None /\ video.kind = "video" /\ video.rate \in Optional(STRING)
  BY SizedVideo DEF Inspectable, NoSizedVideo
<1>2. StreamAt(input.path, video.index) = video
  BY <1>1, DefaultFound
<1>3. argv.maps = <<<<1, video.index>>>>
  OBVIOUS
<1> HIDE DEF video
<1>4. argv.inputs[1] = input.path /\ argv.maps /= <<>> /\ 1 \in DOMAIN argv.maps
      /\ argv.maps[1][2] = video.index /\ \A i \in DOMAIN argv.maps : i = 1
  BY <1>3
<1>5. StreamAt(argv.inputs[1], argv.maps[1][2]) = video
  BY <1>2, <1>4
<1>6. SourceStream(argv, "video") = video
  BY <1>1, <1>4, <1>5, OnlySource, Zenon
<1> QED
  BY <1>1, <1>6 DEF video

\* The arguments of thumbnail and contact_sheet, and what is expected.
LEMMA StillSuits ==
  ASSUME NEW input, Inspectable(input), FileAt(input.path) = input, ~NoSizedVideo(input),
         NEW argv, Encodable(argv), argv.inputs = <<input.path>>,
         argv.maps = <<<<1, Video(input).index>>>>,
         argv.video = "mjpeg", argv.audio = None, argv.muxer = "image2",
         NEW size, Frame(argv)[1] = size[1], Frame(argv)[2] = size[2],
         NEW e, e = expected_jpeg(size), e.video /= None
  PROVE  Suits(argv, e)
<1>1. /\ e.container = "image2" /\ e.duration = None /\ e.audio = None
      /\ e.video = expected_video("mjpeg", size, None)
  BY DEF expected_jpeg
<1>2. SourceStream(argv, "video").rate \in Optional(STRING)
  BY StillSource
<1>3. Rendered(argv).container = "image2"
  BY DEF Rendered
<1>4. VideoPasses(e.video, EncodedVideo(argv))
  <2>1. argv.video \in {"libx264", "mjpeg"} /\ argv.video /= "libx264"
    OBVIOUS
  <2>2. (IF argv.video = "libx264" THEN "h264" ELSE "mjpeg") = "mjpeg"
    BY <2>1
  <2>3. VideoPasses(expected_video(IF argv.video = "libx264" THEN "h264" ELSE "mjpeg",
                                   size, None), EncodedVideo(argv))
    BY <1>2, <2>1, VideoSuits
  <2> QED
    BY <1>1, <2>2, <2>3
<1>5. argv.video /= None
  BY AbsenceAssumption
<1> QED
  BY <1>1, <1>3, <1>4, <1>5 DEF Suits

\* What the compiler wrote for a recipe for a thumbnail.
LEMMA ThumbnailPlan ==
  ASSUME NEW p, NEW r, r \in Recipe, Arity(r), Compiled(p, r), r.operation.type = "thumbnail"
  PROVE  p.operation.size \in Nat \X Nat
<1> DEFINE op    == r.operation
           input == p.inputs[1]
           video == Video(input)
           size  == <<op.width, AspectHeight(Size(video), op.width)>>
           draft == CompileThumbnail(op, p.inputs, r.tolerance)
<1>1. Compile(op, p.inputs, r.tolerance) = draft
  BY DEF Compile
<1>2. op \in Operation /\ AssembledFrom(p, r, p.inputs, p.backend, draft)
      /\ CompileRefusal(op, p.inputs) = None
  BY <1>1, CompiledParts
<1>3. draft.operation = [type |-> "thumbnail", at |-> op.at, size |-> size]
  BY DEF CompileThumbnail, CompileImage
<1>4. op.width \in Nat
  BY <1>2, WidthAssumption DEF Operation, U32
<1>5. ~NoSizedVideo(input) /\ Size(video)[1] /= 0
  BY <1>2, CodeAssumption DEF CompileRefusal, Commands, Codes
<1>6. input.streams \in Seq(StreamSummary)
  BY CompiledInputs DEF Arity
<1>7. AspectHeight(Size(video), op.width) \in Nat
  <2>1. /\ Size(video) = <<video.width, video.height>>
        /\ Size(video)[1] \in Nat /\ Size(video)[2] \in Nat
    BY <1>5, <1>6, SizedVideo
  <2> HIDE DEF video
  <2>2. video.width \in Nat /\ video.width /= 0 /\ video.height \in Nat
    BY <1>5, <2>1
  <2> QED
    BY <1>4, <2>1, <2>2, AspectType
<1>8. size \in Nat \X Nat
  BY <1>4, <1>7
<1> HIDE DEF draft, size
<1>9. p.operation.size = size
  BY <1>2, <1>3 DEF AssembledFrom
<1> QED
  BY <1>8, <1>9

\* A thumbnail has the frame that was planned.
LEMMA ThumbnailSuits ==
  ASSUME NEW p, NEW r, Renderable(p, r), r.operation.type = "thumbnail"
  PROVE  Suits(p.argv, p.expected)
<1> DEFINE op     == p.operation
           input  == p.inputs[1]
           video  == Video(input)
           argv   == p.argv
           e      == p.expected
           size   == op.size
           filter == [name |-> "scale", frame |-> size]
<1>1. /\ validate_thumbnail_plan(p) /\ Inspectable(input) /\ FileAt(input.path) = input
      /\ ExpectedFits(e, "thumbnail")
  BY RenderableFacts DEF ValidOperation
<1>2. /\ ~NoSizedVideo(input)
      /\ argv = thumbnail_argv(input.path, p.temporary, video.index, op.at, size)
      /\ e = expected_jpeg(size)
  BY <1>1 DEF validate_thumbnail_plan, default_video, stream_dimensions_for_plan,
              validate_image_expectations, validate_expected_output, NoSizedVideo
<1>3. size \in Nat \X Nat
  BY ThumbnailPlan DEF Renderable
<1>4. filter \in Filter /\ filter.name = "scale" /\ filter.frame = size
  BY <1>3 DEF Filter
<1>5. e.video /= None
  BY <1>1, AbsenceAssumption DEF ExpectedFits, SoundAlone
<1>6. Encodable(argv)
  BY DEF Renderable
<1> HIDE DEF argv, e, size, input, filter
<1>7. /\ argv.inputs = <<input.path>> /\ argv.maps = <<<<1, video.index>>>>
      /\ argv.filter = filter
      /\ argv.video = "mjpeg" /\ argv.audio = None /\ argv.muxer = "image2"
  BY <1>2, ThumbnailOptions DEF filter
<1>8. Frame(argv) = size
  BY <1>4, <1>7, AbsenceAssumption DEF Frame
<1>9. Suits(argv, e)
  BY <1>1, <1>2, <1>5, <1>6, <1>7, <1>8, StillSuits
<1> QED
  BY <1>9 DEF argv, e

\* What the compiler wrote for a recipe for a contact sheet.
LEMMA ContactSheetPlan ==
  ASSUME NEW p, NEW r, r \in Recipe, Arity(r), Compiled(p, r),
         r.operation.type = "contact_sheet"
  PROVE  LET op == p.operation
         IN  /\ op.interval \in Nat /\ op.columns \in Nat /\ op.rows \in Nat
             /\ op.size[1] \in Nat
             /\ ~NoSizedVideo(p.inputs[1]) /\ Size(Video(p.inputs[1]))[1] /= 0
<1> DEFINE op    == r.operation
           input == p.inputs[1]
           video == Video(input)
           width == op.width \div op.columns
           cell  == <<width, AspectHeight(Size(video), width)>>
           size  == <<op.width, AtMost(cell[2] * op.rows, MaxU32)>>
           draft == CompileContactSheet(op, p.inputs, r.tolerance)
<1>1. Compile(op, p.inputs, r.tolerance) = draft
  BY DEF Compile
<1>2. op \in Operation /\ AssembledFrom(p, r, p.inputs, p.backend, draft)
      /\ CompileRefusal(op, p.inputs) = None
  BY <1>1, CompiledParts
<1>3. draft.operation = [type |-> "contact_sheet", interval |-> op.interval,
                         columns |-> op.columns, rows |-> op.rows, size |-> size]
  BY DEF CompileContactSheet, CompileImage
<1>4. op.interval \in Nat /\ op.columns \in Nat /\ op.rows \in Nat /\ op.width \in Nat
  BY <1>2, WidthAssumption DEF Operation, U32, U64
<1>5. ~NoSizedVideo(input) /\ Size(video)[1] /= 0
  BY <1>2, CodeAssumption DEF CompileRefusal, Commands, Codes
<1>6. size[1] = op.width
  OBVIOUS
<1> HIDE DEF draft, size
<1>7. /\ p.operation.interval = op.interval /\ p.operation.columns = op.columns
      /\ p.operation.rows = op.rows /\ p.operation.size = size
  BY <1>2, <1>3 DEF AssembledFrom
<1> QED
  BY <1>4, <1>5, <1>6, <1>7

\* The cells of a sheet fill its width, and its height unless that is cut.
LEMMA CellsFill ==
  ASSUME NEW width \in Nat, NEW columns \in Nat, columns > 0, width % columns = 0
  PROVE  (width \div columns) * columns = width
<1>1. width = ((width \div columns) * columns) + (width % columns)
  BY Remainder
<1>2. width \div columns \in Nat
  BY DivisionBounds
<1>3. (width \div columns) * columns \in Nat
  BY <1>2, Z3
<1> DEFINE filled == (width \div columns) * columns
<1>4. width = filled + 0 /\ filled \in Nat
  BY <1>1, <1>3
<1> HIDE DEF filled
<1>5. filled = width
  BY <1>4
<1> QED
  BY <1>5 DEF filled

\* A side within the width of the integers is not cut.
LEMMA Uncut ==
  ASSUME NEW tall \in Nat, tall <= MaxU32
  PROVE  AtMost(tall, MaxU32) = tall
BY WidthAssumption DEF AtMost

\* A contact sheet has the frame that its cells fill.
LEMMA ContactSheetSuits ==
  ASSUME NEW p, NEW r, Renderable(p, r), r.operation.type = "contact_sheet"
  PROVE  Suits(p.argv, p.expected)
<1> DEFINE op     == p.operation
           input  == p.inputs[1]
           video  == Video(input)
           argv   == p.argv
           e      == p.expected
           width  == op.size[1] \div op.columns
           height == AspectHeight(Size(video), width)
           cell   == <<width, height>>
           filter == [name |-> "tile", every |-> op.interval, cell |-> cell,
                      columns |-> op.columns, rows |-> op.rows]
<1>1. /\ validate_contact_sheet_plan(p) /\ Inspectable(input) /\ FileAt(input.path) = input
      /\ ExpectedFits(e, "contact_sheet") /\ Encodable(argv)
  BY RenderableFacts DEF ValidOperation, Renderable
<1>2. /\ op.columns > 0 /\ op.size[1] % op.columns = 0
      /\ op.size[2] = AtMost(height * op.rows, MaxU32)
      /\ argv = contact_sheet_argv(input.path, p.temporary, video.index, op.interval,
                                   op.columns, op.rows, cell)
      /\ e = expected_jpeg(op.size)
  BY <1>1 DEF validate_contact_sheet_plan, validate_image_expectations,
              validate_expected_output
<1>3. /\ op.interval \in Nat /\ op.columns \in Nat /\ op.rows \in Nat /\ op.size[1] \in Nat
      /\ ~NoSizedVideo(input) /\ Size(video)[1] /= 0
  BY ContactSheetPlan DEF Renderable
<1>4. width \in Nat
  BY <1>2, <1>3, DivisionBounds
<1>5. height \in Nat
  <2>1. /\ Size(video) = <<video.width, video.height>>
        /\ Size(video)[1] \in Nat /\ Size(video)[2] \in Nat
    BY <1>1, <1>3, SizedVideo DEF Inspectable
  <2> HIDE DEF video, width
  <2>2. video.width \in Nat /\ video.width /= 0 /\ video.height \in Nat
    BY <1>3, <2>1
  <2> QED
    BY <1>4, <2>1, <2>2, AspectType
<1>6. e.video /= None
  BY <1>1, AbsenceAssumption DEF ExpectedFits, SoundAlone
<1> HIDE DEF height
<1>7. cell[1] = width /\ cell[2] = height
  OBVIOUS
<1>8. cell \in Nat \X Nat
  BY <1>4, <1>5
<1> HIDE DEF cell
<1>9. /\ filter \in Filter /\ filter.name = "tile" /\ filter.cell = cell
      /\ filter.columns = op.columns /\ filter.rows = op.rows
  BY <1>3, <1>8 DEF Filter
<1> HIDE DEF argv, e, input, filter
<1>10. /\ argv.inputs = <<input.path>> /\ argv.maps = <<<<1, video.index>>>>
       /\ argv.filter = filter
       /\ argv.video = "mjpeg" /\ argv.audio = None /\ argv.muxer = "image2"
  BY <1>2, ImageOptions DEF contact_sheet_argv, filter
<1> HIDE DEF width, op
<1>11. Frame(argv) = <<width * op.columns, height * op.rows>>
  BY <1>7, <1>9, <1>10, AbsenceAssumption DEF Frame
<1>12. height * op.rows \in Nat /\ height * op.rows <= MaxU32
  <2>1. Frame(argv)[2] \in 1..MaxU32
    BY <1>1, <1>10, AbsenceAssumption DEF Encodable
  <2>2. height * op.rows \in 1..MaxU32
    BY <1>11, <2>1
  <2> QED
    BY <2>2, WidthAssumption
<1>13. Frame(argv)[1] = op.size[1] /\ Frame(argv)[2] = op.size[2]
  <2>1. width * op.columns = op.size[1]
    BY <1>2, <1>3, CellsFill DEF width
  <2>2. AtMost(height * op.rows, MaxU32) = height * op.rows
    BY <1>12, Uncut, Zenon
  <2>3. op.size[2] = height * op.rows
    BY <1>2, <2>2, Zenon
  <2> QED
    BY <1>11, <2>1, <2>3
<1>14. Suits(argv, e)
  BY <1>1, <1>2, <1>3, <1>6, <1>10, <1>13, StillSuits
<1> QED
  BY <1>14 DEF argv, e

-----------------------------------------------------------------------------
(* Concatenations.                                                         *)

\* The options of a concatenation.
LEMMA ConcatOptions ==
  ASSUME NEW paths, NEW o, NEW segments, NEW sound, NEW argv,
         argv = concatenate_argv(paths, o, segments, sound)
  PROVE  /\ argv.inputs = paths /\ argv.maps = <<>>
         /\ argv.filter.name = "concat" /\ argv.filter.segments = segments
         /\ argv.length = None /\ argv.frames = None
         /\ argv.video = "libx264" /\ argv.audio = IF sound THEN "aac" ELSE None
         /\ argv.muxer = "mp4"
BY DEF concatenate_argv, BackendPrefix

\* The same for a plan.
LEMMA JoinedOptions ==
  ASSUME NEW inputs, 1 \in DOMAIN inputs, NEW argv, NEW o,
         argv = concatenate_argv([i \in DOMAIN inputs |-> inputs[i].path], o,
                                 Segments(inputs), HasAudio(inputs))
  PROVE  /\ argv.inputs = [i \in DOMAIN inputs |-> inputs[i].path] /\ argv.maps = <<>>
         /\ argv.filter.name = "concat"
         /\ argv.filter.segments[1].video = Video(inputs[1]).index
         /\ argv.length = None /\ argv.frames = None
         /\ argv.video = "libx264" /\ argv.muxer = "mp4"
         /\ argv.audio = IF HasAudio(inputs) THEN "aac" ELSE None
<1>1. Segments(inputs)[1].video = Video(inputs[1]).index
  BY DEF Segments
<1> DEFINE paths    == [i \in DOMAIN inputs |-> inputs[i].path]
           segments == Segments(inputs)
           sound    == HasAudio(inputs)
<1>2. argv = concatenate_argv(paths, o, segments, sound)
  OBVIOUS
<1> HIDE DEF paths, segments, sound
<1>3. /\ argv.inputs = paths /\ argv.maps = <<>>
      /\ argv.filter.name = "concat" /\ argv.filter.segments = segments
      /\ argv.length = None /\ argv.frames = None
      /\ argv.video = "libx264" /\ argv.audio = IF sound THEN "aac" ELSE None
      /\ argv.muxer = "mp4"
  BY <1>2, ConcatOptions
<1> QED
  BY <1>1, <1>3, Zenon DEF paths, segments, sound

\* The files that are joined are the inputs, so their durations add up alike.
LEMMA JoinedKept ==
  ASSUME NEW n \in Nat, NEW inputs, inputs = [i \in 1..n |-> inputs[i]],
         \A i \in 1..n : FileAt(inputs[i].path) = inputs[i],
         \A i \in 1..n : inputs[i].duration /= None => inputs[i].duration \in Nat,
         NEW argv, Foreseen(argv), argv.inputs = [i \in DOMAIN inputs |-> inputs[i].path],
         argv.maps = <<>>, argv.frames = None, argv.length = None,
         JoinedDuration(inputs) /= None
  PROVE  RenderedDuration(argv) = JoinedDuration(inputs) /\ JoinedDuration(inputs) \in Nat
<1> DEFINE ends == [k \in DOMAIN argv.inputs |-> [duration |-> End(argv, k)]]
<1>1. DOMAIN inputs = 1..n /\ DOMAIN argv.inputs = 1..n
      /\ \A i \in 1..n : argv.inputs[i] = inputs[i].path
  OBVIOUS
<1>2. DOMAIN ends = 1..n /\ \A i \in 1..n : ends[i].duration = inputs[i].duration
  BY <1>1, WholeEnds
<1>4. RenderedDuration(argv) = Known(JoinedDuration(ends), 1)
  BY Zenon DEF RenderedDuration
<1> HIDE DEF ends
<1>3. JoinedDuration(ends) = JoinedDuration(inputs)
  <2>1. [i \in DOMAIN ends |-> ends[i].duration] = [i \in DOMAIN inputs |-> inputs[i].duration]
    BY <1>1, <1>2
  <2>2. (\E i \in DOMAIN ends : ends[i].duration = None)
          <=> (\E i \in DOMAIN inputs : inputs[i].duration = None)
    BY <1>1, <1>2
  <2> QED
    BY <2>1, <2>2, Zenon DEF JoinedDuration
<1>5. RenderedDuration(argv) = JoinedDuration(inputs)
  BY <1>3, <1>4 DEF Known
<1>6. JoinedDuration(inputs) \in Nat
  BY <1>1, JoinedDurationType
<1> QED
  BY <1>5, <1>6

\* A concatenation keeps the first frame and adds up the lengths.
LEMMA ConcatenateSuits ==
  ASSUME NEW p, NEW r, Renderable(p, r), r.operation.type = "concatenate"
  PROVE  Suits(p.argv, p.expected)
<1> DEFINE inputs == p.inputs
           first  == Video(inputs[1])
           argv   == p.argv
           e      == p.expected
           n      == Len(r.inputs)
<1>1. /\ validate_concatenate_plan(p)
      /\ 1 \in DOMAIN inputs /\ Inspectable(inputs[1])
      /\ FileAt(inputs[1].path) = inputs[1] /\ Encodable(argv) /\ Foreseen(argv)
      /\ e.tolerance \in Nat
      /\ ExpectedFits(e, "concatenate")
  BY RenderableFacts DEF ValidOperation, Renderable
<1>2. /\ ~NoSizedVideo(inputs[1])
      /\ e = ExpectedJoined(inputs, e.tolerance)
      /\ argv = concatenate_argv([i \in DOMAIN inputs |-> inputs[i].path], p.temporary,
                                 Segments(inputs), HasAudio(inputs))
  BY <1>1 DEF validate_concatenate_plan, default_video, stream_dimensions_for_plan,
              validate_expected_output, NoSizedVideo
<1>3. /\ e.container = Mp4Family /\ e.duration = JoinedDuration(inputs)
      /\ e.video = expected_video("h264", Size(first), first.rate)
      /\ e.audio = IF HasAudio(inputs) THEN ExpectedAac(2, None) ELSE None
  <2> DEFINE expected == ExpectedJoined(inputs, e.tolerance)
  <2>1. /\ expected.container = Mp4Family /\ expected.duration = JoinedDuration(inputs)
        /\ expected.video = expected_video("h264", Size(first), first.rate)
        /\ expected.audio = IF HasAudio(inputs) THEN ExpectedAac(2, None) ELSE None
    BY DEF ExpectedJoined
  <2> HIDE DEF expected, e
  <2> QED
    BY <1>2, <2>1 DEF expected
<1>4. e.video /= None
  BY <1>1, AbsenceAssumption DEF ExpectedFits, SoundAlone
<1>5. /\ inputs = [i \in 1..n |-> inputs[i]] /\ n \in Nat
      /\ \A i \in 1..n : FileAt(inputs[i].path) = inputs[i]
      /\ \A i \in 1..n : inputs[i].duration /= None => inputs[i].duration \in Nat
  <2>1. DOMAIN inputs = 1..n /\ n \in Nat
        /\ \A i \in DOMAIN inputs : inputs[i].duration /= None => inputs[i].duration \in Nat
    BY CompiledInputs DEF Renderable
  <2>2. inputs = [i \in 1..n |-> inputs[i]]
    BY Zenon DEF Renderable, Compiled
  <2>3. \A i \in DOMAIN inputs : FileAt(inputs[i].path) = inputs[i]
    BY Zenon DEF Renderable, Unchanged
  <2> HIDE DEF inputs, n
  <2> QED
    BY <2>1, <2>2, <2>3
<1> HIDE DEF argv, e, inputs, n
<1>6. /\ argv.inputs = [i \in DOMAIN inputs |-> inputs[i].path] /\ argv.maps = <<>>
      /\ argv.filter.name = "concat"
      /\ argv.filter.segments[1].video = Video(inputs[1]).index
      /\ argv.length = None /\ argv.frames = None
      /\ argv.video = "libx264" /\ argv.muxer = "mp4"
      /\ argv.audio = IF HasAudio(inputs) THEN "aac" ELSE None
  BY <1>1, <1>2, JoinedOptions, Zenon
<1>7. first /= None /\ first.rate \in Optional(STRING)
  BY <1>1, <1>2, SizedVideo DEF Inspectable, NoSizedVideo
<1>8. SourceStream(argv, "video") = first
  <2>1. StreamAt(inputs[1].path, first.index) = first
    BY <1>1, <1>7, DefaultFound
  <2>2. argv.inputs[1] = inputs[1].path
    BY <1>1, <1>6
  <2>3. SourceStream(argv, "video")
          = StreamAt(argv.inputs[1], argv.filter.segments[1].video)
    BY <1>6, Zenon DEF SourceStream
  <2> QED
    BY <1>6, <2>1, <2>2, <2>3
<1> HIDE DEF first
<1>9. Frame(argv) = Size(first)
  BY <1>1, <1>6, <1>8, FrameKept
<1>10. VideoPasses(e.video, EncodedVideo(argv))
  <2>1. argv.video \in {"libx264", "mjpeg"}
        /\ (IF argv.video = "libx264" THEN "h264" ELSE "mjpeg") = "h264"
    BY <1>6
  <2>2. Frame(argv)[1] = Size(first)[1] /\ Frame(argv)[2] = Size(first)[2]
    BY <1>9
  <2>3. SourceStream(argv, "video").rate \in Optional(STRING)
        /\ first.rate \in {None, SourceStream(argv, "video").rate}
    BY <1>7, <1>8
  <2>4. VideoPasses(expected_video(IF argv.video = "libx264" THEN "h264" ELSE "mjpeg",
                                   Size(first), first.rate), EncodedVideo(argv))
    BY <1>1, <2>1, <2>2, <2>3, VideoSuits
  <2> QED
    BY <1>3, <2>1, <2>4, Zenon DEF first
<1>11. e.duration /= None =>
         RenderedDuration(argv) = e.duration /\ e.duration \in Nat /\ e.tolerance \in Nat
  <2> HAVE e.duration /= None
  <2>1. RenderedDuration(argv) = JoinedDuration(inputs) /\ JoinedDuration(inputs) \in Nat
    BY <1>1, <1>3, <1>5, <1>6, JoinedKept, Zenon
  <2> QED
    BY <1>1, <1>3, <2>1
<1>12. Rendered(argv).container = Mp4Family
  BY <1>6 DEF Rendered
<1>13. ExpectedAac(2, None) /= None /\ ExpectedAac(2, None).loudness = None
  <2>1. ExpectedAac(2, None) \in ExpectedAudio
    BY DEF ExpectedAac, ExpectedAudio, Optional
  <2> QED
    BY <2>1, AbsenceAssumption DEF ExpectedAac
<1>14. argv.audio = "aac" => AudioPasses(ExpectedAac(2, None), EncodedAudio(argv))
  <2> HAVE argv.audio = "aac"
  <2>1. EncodedAudio(argv).channels = 2
    BY <1>6 DEF EncodedAudio
  <2> QED
    BY <2>1, AudioSuits
<1>15. argv.video /= None /\ "aac" /= None
  BY <1>6, AbsenceAssumption
<1>16. CASE HasAudio(inputs)
  <2>1. argv.audio = "aac" /\ e.audio = ExpectedAac(2, None)
    BY <1>3, <1>6, <1>16
  <2> QED
    BY <1>3, <1>4, <1>10, <1>11, <1>12, <1>13, <1>14, <1>15, <2>1, Zenon DEF Suits, argv, e
<1>17. CASE ~HasAudio(inputs)
  <2>1. argv.audio = None /\ e.audio = None
    BY <1>3, <1>6, <1>17
  <2> QED
    BY <1>3, <1>4, <1>10, <1>11, <1>12, <1>15, <2>1, Zenon DEF Suits, argv, e
<1> QED
  BY <1>16, <1>17

-----------------------------------------------------------------------------
(* Every rendering of a plan passes.                                       *)

\* The arguments of every plan that the compiler writes make what it expects.
LEMMA PlanSuits ==
  ASSUME NEW p, NEW r, Renderable(p, r)
  PROVE  Suits(p.argv, p.expected)
<1>1. r.operation.type \in Types
  BY RenderableFacts
<1>2. CASE r.operation.type \in {"transcode", "burn_subtitles"}
  BY <1>2, TranscodeSuits
<1>3. CASE r.operation.type = "resize"
  BY <1>3, ResizeSuits
<1>4. CASE r.operation.type = "clip"
  BY <1>4, ClipSuits
<1>5. CASE r.operation.type = "extract_audio"
  BY <1>5, ExtractSuits
<1>6. CASE r.operation.type = "normalize_audio"
  BY <1>6, NormalizeSuits
<1>7. CASE r.operation.type = "concatenate"
  BY <1>7, ConcatenateSuits
<1>8. CASE r.operation.type = "thumbnail"
  BY <1>8, ThumbnailSuits
<1>9. CASE r.operation.type = "contact_sheet"
  BY <1>9, ContactSheetSuits
<1> QED
  BY <1>1, <1>2, <1>3, <1>4, <1>5, <1>6, <1>7, <1>8, <1>9 DEF Types

\* What a backend makes that does what a plan's arguments ask for passes every
\* check of that plan.
LEMMA RenderingPasses ==
  ASSUME NEW p, NEW r, Renderable(p, r),
         \A i \in DOMAIN p.inputs : p.inputs[i].sha /= "rendered"
  PROVE  /\ verify_output(p, Rendered(p.argv)).passed
         /\ Measured(p) => Rendered(p.argv).loudness /= None
<1>1. Suits(p.argv, p.expected)
  BY PlanSuits
<1>2. p.resources.budgets = r.budgets /\ r.budgets.output > 0 /\ r.budgets.output \in Nat
  <2>1. Compiled(p, r) /\ r \in Recipe
    BY DEF Renderable
  <2>2. validate_recipe(r)
    BY <2>1 DEF Compiled
  <2>3. r.budgets.output > 0
    BY <2>2, Zenon DEF validate_recipe
  <2>4. r.budgets.output \in Nat
    BY <2>1, WidthAssumption DEF Recipe, U64
  <2>5. p.resources.budgets = r.budgets
    BY <2>1, CompiledParts DEF estimate_resources
  <2> QED
    BY <2>3, <2>4, <2>5
<1>3. 1 <= p.resources.budgets.output
  BY <1>2
<1> QED
  BY <1>1, <1>3, SuitablePasses

-----------------------------------------------------------------------------
(* The inputs under way are those that the plan was made from.             *)

\* One file at a path, however it is spelled; no input is a rendering, and only
\* a replacement has the digest of one.
FilesDiffer ==
  /\ \A m, n \in DOMAIN files :
       files[m] /= None /\ files[n] /= None /\ files[m].path = files[n].path =>
         files[m] = files[n]
  /\ \A n \in DOMAIN files : files[n] /= None =>
       /\ files[n].sha /= "rendered"
       /\ disturbance /= "input_replaced" => files[n].sha /= "other"

\* An input with the identity that the plan recorded is the input it was made from.
IdentityTells ==
  Planned => \A i \in DOMAIN planFile.inputs :
    /\ planFile.inputs[i].sha /= "rendered"
    /\ disturbance /= "input_replaced" => planFile.inputs[i].sha /= "other"
    /\ \A n \in DOMAIN files :
         files[n] /= None /\ Identity(files[n]) = Identity(planFile.inputs[i]) =>
           files[n] = planFile.inputs[i]

InputsInPlace == applying /= None /\ Genuine => Unchanged(planFile)

\* A rendering that the backend did not deviate in passes, if the inspection of
\* the inputs told what there was to know.
RenderedPasses ==
  applying /= None /\ applying.file /= None /\ Genuine /\ disturbance /= "rendering_deviates" =>
    \A argv : argv = applying.plan.argv /\ Foreseen(argv) =>
      /\ verify_output(applying.plan, applying.file).passed
      /\ Measured(applying.plan) => applying.file.loudness /= None

BlameInv == FilesDiffer /\ IdentityTells /\ InputsInPlace /\ RenderedPasses

LEMMA BlameInvAtFirst == Init => BlameInv
<1> SUFFICES ASSUME Init PROVE BlameInv
  OBVIOUS
<1>1. PICK case \in Cases : recipe = case.recipe
  BY DEF Init
<1>2. ToSet(recipe.inputs) \subseteq DOMAIN Media
  BY <1>1, CaseAssumption
<1>3. files = [n \in ToSet(recipe.inputs) |-> Media[n]] /\ planFile = None /\ applying = None
  BY DEF Init
<1>4. \A n \in DOMAIN files : files[n] = Media[n] /\ n \in DOMAIN Media
  BY <1>2, <1>3
<1>5. \A n \in DOMAIN files : files[n] /= None => files[n].sha \notin {"other", "rendered"}
  BY <1>4, MediaAssumption
<1>6. FilesDiffer
  <2>1. ASSUME NEW m \in DOMAIN files, NEW n \in DOMAIN files, files[m] /= None,
               files[n] /= None, files[m].path = files[n].path
        PROVE  files[m] = files[n]
    BY <1>4, <2>1, MediaAssumption
  <2> QED
    BY <1>5, <2>1 DEF FilesDiffer
<1> QED
  BY <1>3, <1>6 DEF BlameInv, IdentityTells, InputsInPlace, RenderedPasses, Planned

\* Replacing an input leaves one file at a path, and none with its old identity.
LEMMA InputReplaced ==
  ASSUME World, FilesDiffer, IdentityTells, ReplaceInput
  PROVE  FilesDiffer' /\ IdentityTells'
<1> DEFINE Other(file) == [file EXCEPT !.sha = "other", !.streams = Front(@)]
<1>1. PICK path :
        files' = [n \in DOMAIN files |->
                    IF files[n] /= None /\ files[n].path = path THEN Other(files[n]) ELSE files[n]]
  BY DEF ReplaceInput
<1>2. disturbance = "none" /\ disturbance' = "input_replaced" /\ planFile' = planFile
  BY DEF ReplaceInput, Disturbed
<1>3. ASSUME NEW n \in DOMAIN files, files[n] /= None
      PROVE  Other(files[n]).path = files[n].path /\ Other(files[n]).sha = "other"
  <2>1. files[n] = [path |-> files[n].path, bytes |-> files[n].bytes,
                    duration |-> files[n].duration, streams |-> files[n].streams,
                    probe |-> files[n].probe, sha |-> files[n].sha]
    BY <1>3 DEF World, Inspectable
  <2> QED
    BY <2>1
<1> HIDE DEF Other
<1>4. DOMAIN files' = DOMAIN files
  BY <1>1
<1>5. ASSUME NEW n \in DOMAIN files, files'[n] /= None
      PROVE  /\ files[n] /= None /\ files'[n].path = files[n].path
             /\ files'[n] = IF files[n].path = path THEN Other(files[n]) ELSE files[n]
             /\ files[n].path = path => files'[n].sha = "other"
  BY <1>1, <1>3, <1>5
<1>6. FilesDiffer'
  <2>1. ASSUME NEW m \in DOMAIN files, NEW n \in DOMAIN files, files'[m] /= None,
               files'[n] /= None, files'[m].path = files'[n].path
        PROVE  files'[m] = files'[n]
    BY <1>5, <2>1 DEF FilesDiffer
  <2>2. ASSUME NEW n \in DOMAIN files, files'[n] /= None PROVE files'[n].sha /= "rendered"
    BY <1>5, <2>2 DEF FilesDiffer
  <2> QED
    BY <1>2, <1>4, <2>1, <2>2 DEF FilesDiffer
<1>7. IdentityTells'
  <2> SUFFICES ASSUME Planned', NEW i \in DOMAIN planFile.inputs
               PROVE  /\ planFile.inputs[i].sha /= "rendered"
                      /\ \A n \in DOMAIN files' :
                           files'[n] /= None
                             /\ Identity(files'[n]) = Identity(planFile.inputs[i]) =>
                               files'[n] = planFile.inputs[i]
    BY <1>2 DEF IdentityTells, Identity
  <2>1. Planned
    BY <1>2 DEF Planned, Genuine
  <2>2. /\ planFile.inputs[i].sha \notin {"rendered", "other"}
        /\ \A n \in DOMAIN files :
             files[n] /= None /\ Identity(files[n]) = Identity(planFile.inputs[i]) =>
               files[n] = planFile.inputs[i]
    BY <1>2, <2>1 DEF IdentityTells
  <2>3. ASSUME NEW n \in DOMAIN files, files'[n] /= None,
               Identity(files'[n]) = Identity(planFile.inputs[i])
        PROVE  files'[n] = planFile.inputs[i]
    <3>1. files'[n].sha = planFile.inputs[i].sha
      BY <2>3 DEF Identity
    <3>2. files'[n] = files[n] /\ files[n] /= None
      BY <1>5, <2>2, <2>3, <3>1
    <3> QED
      BY <2>2, <2>3, <3>2
  <2> QED
    BY <1>4, <2>2, <2>3
<1> QED
  BY <1>6, <1>7

\* Every input of a plan that is written is one of the files.
LEMMA InputsWritten ==
  ASSUME World, FilesDiffer, Planning = None, NEW p, p = plan_recipe(recipe, files, tools),
         NEW i \in DOMAIN p.inputs
  PROVE  /\ p.inputs[i].sha /= "rendered"
         /\ disturbance /= "input_replaced" => p.inputs[i].sha /= "other"
         /\ \A n \in DOMAIN files :
              files[n] /= None /\ Identity(files[n]) = Identity(p.inputs[i]) =>
                files[n] = p.inputs[i]
<1> DEFINE inputs == Inspected(recipe, files)
<1>1. p.inputs = inputs
  BY WrittenIsCompiled
<1>2. \A j \in DOMAIN inputs : inputs[j] /= None
  <2>1. None /= "recipe_invalid" /\ None /= "input_not_found"
    BY CodeAssumption DEF Commands, Codes
  <2> QED
    BY <2>1, Zenon DEF Planning, plan_refusal
<1>3. inputs[i] = files[recipe.inputs[i]] /\ recipe.inputs[i] \in DOMAIN files
  BY <1>1 DEF Inspected, World, ToSet
<1> HIDE DEF inputs
<1>4. PICK k \in DOMAIN files : p.inputs[i] = files[k] /\ files[k] /= None
  BY <1>1, <1>2, <1>3
<1>5. \A n \in DOMAIN files :
        Identity(files[n]) = Identity(files[k]) => files[n].path = files[k].path
  BY DEF Identity
<1> QED
  BY <1>4, <1>5 DEF FilesDiffer

\* An apply starts only with every input where and what the plan says it is.
LEMMA StartsInPlace ==
  ASSUME IdentityTells, Genuine, ApplyStarts
  PROVE  Unchanged(planFile)
<1>1. ApplyRefusal = None
  BY DEF ApplyStarts
<1>2. /\ planFile \notin {None, Partial}
      /\ InputRefusal(planFile) = None
  BY <1>1, CodeAssumption, Zenon DEF ApplyRefusal, PlanRefusal, Commands, Codes
<1> SUFFICES ASSUME NEW i \in DOMAIN planFile.inputs
             PROVE  FileAt(planFile.inputs[i].path) = planFile.inputs[i]
  BY DEF Unchanged
<1> DEFINE input == planFile.inputs[i]
           now   == FileAt(input.path)
           found == {n \in DOMAIN files : files[n] /= None /\ files[n].path = input.path}
<1>3. now /= None /\ Identity(now) = Identity(input)
  <2>1. "input_not_found" /= None /\ "input_changed" /= None
    BY CodeAssumption DEF Commands, Codes
  <2> HIDE DEF now
  <2> QED
    BY <1>2, <2>1 DEF InputRefusal, now
<1>4. now = IF found = {} THEN None ELSE files[CHOOSE n \in found : TRUE]
  BY DEF FileAt
<1>5. PICK n \in found : now = files[n]
  BY <1>3, <1>4
<1>6. n \in DOMAIN files /\ files[n] /= None
  OBVIOUS
<1>7. Planned
  BY <1>2 DEF Planned
<1> QED
  BY <1>3, <1>5, <1>6, <1>7 DEF IdentityTells

\* Steps that leave the files and the document alone.
LEMMA FilesKept ==
  ASSUME FilesDiffer, IdentityTells, files' = files, planFile' = planFile \/ ~Planned',
         disturbance' = disturbance
           \/ (disturbance = "none" /\ disturbance' /= "input_replaced")
  PROVE  FilesDiffer' /\ IdentityTells'
<1>1. disturbance' /= "input_replaced" => disturbance /= "input_replaced"
  OBVIOUS
<1>2. FilesDiffer'
  BY <1>1 DEF FilesDiffer
<1>3. IdentityTells'
  <2> SUFFICES ASSUME Planned', NEW i \in DOMAIN planFile'.inputs
               PROVE  /\ planFile'.inputs[i].sha /= "rendered"
                      /\ disturbance' /= "input_replaced" => planFile'.inputs[i].sha /= "other"
                      /\ \A n \in DOMAIN files' :
                           files'[n] /= None
                             /\ Identity(files'[n]) = Identity(planFile'.inputs[i]) =>
                               files'[n] = planFile'.inputs[i]
    BY DEF IdentityTells, Identity
  <2>1. planFile' = planFile
    OBVIOUS
  <2>2. Planned
    BY <2>1 DEF Planned, Genuine
  <2> QED
    BY <1>1, <2>1, <2>2 DEF IdentityTells
<1> QED
  BY <1>2, <1>3

\* Files and recorded identities through every step.
LEMMA FilesStep ==
  ASSUME World, FilesDiffer, IdentityTells, [Next]_vars
  PROVE  FilesDiffer' /\ IdentityTells'
<1>1. CASE ReplaceInput
  BY <1>1, InputReplaced
<1>2. CASE PlanWritten
  <2>1. Planning = None /\ files' = files /\ disturbance' = disturbance
    BY <1>2 DEF PlanWritten, world
  <2>2. CASE planFile = None
    <3> DEFINE p == plan_recipe(recipe, files, tools)
    <3>1. planFile' = p
      BY <1>2, <2>2 DEF PlanWritten
    <3> HIDE DEF p
    <3>2. \A i \in DOMAIN p.inputs :
            /\ p.inputs[i].sha /= "rendered"
            /\ disturbance /= "input_replaced" => p.inputs[i].sha /= "other"
            /\ \A n \in DOMAIN files :
                 files[n] /= None /\ Identity(files[n]) = Identity(p.inputs[i]) =>
                   files[n] = p.inputs[i]
      BY <2>1, InputsWritten DEF p
    <3>3. IdentityTells'
      BY <2>1, <3>1, <3>2 DEF IdentityTells, Identity
    <3> QED
      BY <2>1, <3>3 DEF FilesDiffer
  <2>3. CASE planFile /= None
    BY <1>2, <2>1, <2>3, FilesKept DEF PlanWritten
  <2> QED
    BY <2>2, <2>3
<1>3. CASE PlanCutShort \/ EditPlan
  <2>1. /\ files' = files /\ ~Planned'
        /\ disturbance = "none" /\ disturbance' /= "input_replaced"
    BY <1>3 DEF PlanCutShort, EditPlan, Disturbed, world, Planned, Genuine
  <2> QED
    BY <2>1, FilesKept
<1>4. CASE /\ files' = files /\ planFile' = planFile
           /\ \/ disturbance' = disturbance
              \/ disturbance = "none" /\ disturbance' /= "input_replaced"
  BY <1>4, FilesKept
<1>5. CASE PlanRefused \/ Apply \/ Backend \/ Verify \/ ShowReceipt \/ ReplaceTools
           \/ ReplaceOutput \/ UNCHANGED vars
  BY <1>4, <1>5
     DEF PlanRefused, Apply, ApplyRefused, ApplyStarts, LimitExceeded, ApplyFails,
         ApplySucceeds, Backend, BackendRenders, BackendDeviates, BackendFails, Verify,
         ShowReceipt, ReplaceTools, ReplaceOutput, Disturbed, vars, world
<1> QED
  BY <1>1, <1>2, <1>3, <1>5 DEF Next, Plan, Others

\* Nothing replaces an input while a plan is under way.
LEMMA InPlaceStep ==
  ASSUME IdentityTells, InputsInPlace, [Next]_vars
  PROVE  InputsInPlace'
<1> SUFFICES ASSUME applying' /= None, Genuine' PROVE Unchanged(planFile)'
  BY DEF InputsInPlace
<1>1. Genuine
  BY Disturbances DEF Genuine
<1>2. /\ files' = files /\ planFile' = planFile
      /\ applying /= None \/ ApplyStarts
  BY DEF Next, Plan, PlanRefused, PlanWritten, PlanCutShort, Apply, ApplyRefused, ApplyStarts,
         LimitExceeded, ApplyFails, ApplySucceeds, ApplyEnds, Backend, BackendRenders,
         BackendDeviates, BackendFails, Verify, ShowReceipt, Others, EditPlan, ReplaceInput,
         ReplaceTools, ReplaceOutput, vars, world
<1>3. Unchanged(planFile)
  BY <1>1, <1>2, StartsInPlace DEF InputsInPlace
<1> QED
  BY <1>2, <1>3 DEF Unchanged, FileAt

\* What is known of the inputs stays known while they stay.
LEMMA ForeseenStays ==
  ASSUME NEW argv, files' = files
  PROVE  Foreseen(argv)' <=> Foreseen(argv)
<1>1. \A path : FileAt(path)' = FileAt(path)
  BY DEF FileAt
<1>2. \A path, index : StreamAt(path, index)' = StreamAt(path, index)
  BY <1>1 DEF StreamAt
<1>3. SourceStream(argv, "video")' = SourceStream(argv, "video")
  BY <1>2, Zenon DEF SourceStream
<1>4. Upright(argv)' <=> Upright(argv)
  BY <1>1, <1>3 DEF Upright
<1>5. \A k : Whole(argv, k)' <=> Whole(argv, k)
  BY <1>1 DEF Whole, Taken
<1> QED
  BY <1>4, <1>5 DEF Foreseen

\* What a backend makes of a plan under way passes, unless it deviates.
LEMMA PassesStep ==
  ASSUME DocumentInv, BlameInv, [Next]_vars
  PROVE  RenderedPasses'
<1> SUFFICES ASSUME applying' /= None, applying'.file /= None, Genuine',
                    disturbance' /= "rendering_deviates",
                    NEW argv, argv = applying'.plan.argv, Foreseen(argv)'
             PROVE  /\ verify_output(applying'.plan, applying'.file).passed
                    /\ Measured(applying'.plan) => applying'.file.loudness /= None
  BY DEF RenderedPasses
<1>1. Genuine /\ disturbance /= "rendering_deviates"
  BY Disturbances DEF Genuine
<1>2. CASE BackendRenders
  <2> DEFINE p == applying.plan
  <2>1. applying /= None /\ Encodable(p.argv) /\ files' = files
    BY <1>2 DEF BackendRenders, world
  <2>2. applying'.plan = p /\ applying'.file = Rendered(p.argv)
    BY <1>2, <2>1 DEF BackendRenders, DocumentInv, IInv, Shape
  <2>3. /\ p = planFile /\ planFile \notin {None, Partial}
        /\ Compiled(p, recipe) /\ recipe \in Recipe /\ Arity(recipe)
    BY <1>1, <2>1, ApplyingIsPlanned
  <2>6. Foreseen(argv) /\ argv = p.argv
    BY <2>1, <2>2, ForeseenStays
  <2> HIDE DEF p
  <2>4. Renderable(p, recipe)
    BY <1>1, <2>1, <2>3, <2>6 DEF Renderable, BlameInv, InputsInPlace
  <2>5. \A i \in DOMAIN p.inputs : p.inputs[i].sha /= "rendered"
    BY <1>1, <2>3 DEF BlameInv, IdentityTells, Planned
  <2> QED
    BY <2>2, <2>4, <2>5, RenderingPasses
<1>3. CASE applying' = applying
  <2>1. files' = files
    <3>1. ~ReplaceInput
      BY <1>3 DEF ReplaceInput
    <3> QED
      BY <3>1 DEF Next, Plan, PlanRefused, PlanWritten, PlanCutShort, Apply, ApplyRefused,
         ApplyStarts, LimitExceeded, ApplyFails, ApplySucceeds, Backend, BackendRenders,
         BackendDeviates, BackendFails, Verify, ShowReceipt, Others, EditPlan,
         ReplaceTools, ReplaceOutput, vars, world
  <2>2. Foreseen(argv) /\ argv = applying.plan.argv
    BY <1>3, <2>1, ForeseenStays
  <2> QED
    BY <1>1, <1>3, <2>2 DEF BlameInv, RenderedPasses
<1>4. ~ApplyStarts
  <2>1. ApplyStarts => applying'.file = None
    BY DEF ApplyStarts
  <2> QED
    BY <2>1
<1>5. ~BackendDeviates
  BY DEF BackendDeviates, Disturbed
<1>6. BackendRenders \/ applying' = applying
  BY <1>4, <1>5, Zenon
     DEF Next, Plan, PlanRefused, PlanWritten, PlanCutShort, Apply, ApplyRefused,
         LimitExceeded, ApplyFails, ApplySucceeds, ApplyEnds, Backend, BackendFails, Verify,
         ShowReceipt, Others, EditPlan, ReplaceInput, ReplaceTools, ReplaceOutput, vars
<1> QED
  BY <1>2, <1>3, <1>6

\* What is rendered for a genuine plan is rendered from the very inputs that the
\* plan was made from, and passes every check of the plan unless the backend
\* deviates from its arguments, in every behaviour.
THEOREM BlameInvariance == Spec => [](DocumentInv /\ BlameInv)
<1>1. DocumentInv /\ BlameInv /\ [Next]_vars => BlameInv'
  BY FilesStep, InPlaceStep, PassesStep DEF BlameInv, DocumentInv, PlanInv
<1> QED
  BY <1>1, BlameInvAtFirst, DocumentInvariance, PTL DEF Spec

\* Only a failing apply ends with the error code of a failed verification.
LEMMA OnlyFailuresBlame ==
  ASSUME [Next]_vars, applying /= None, applying.file /= None, applying' = None,
         JudgedBad(exit'.code)
  PROVE  ApplyFails
<1>1. /\ ~LimitExceeded /\ ~ApplySucceeds
      /\ ~BackendRenders /\ ~BackendDeviates /\ ~BackendFails
  BY DEF JudgedBad, LimitExceeded, ApplySucceeds, BackendRenders, BackendDeviates, BackendFails,
         ApplyEnds, Ends
<1> QED
  BY <1>1, Zenon
     DEF Next, Plan, PlanRefused, PlanWritten, PlanCutShort, Apply, ApplyRefused, ApplyStarts,
         Backend, Verify, ShowReceipt, Others, EditPlan, ReplaceInput, ReplaceTools,
         ReplaceOutput, vars

\* The expectations that the compiler writes fit the arguments that it writes,
\* for whatever recipe and whatever inputs: `apply` fails verification, or the
\* measurement of it, only if the backend deviates from its arguments, the plan was
\* given the identity of an edit, or the inspection of an input left out how
\* long its streams last or how its picture is turned.
THEOREM VerificationFailuresHaveACause == Spec => VerificationFailureHasCause
<1>1. ASSUME DocumentInv, BlameInv, [Next]_vars
      PROVE  [applying /= None /\ applying.file /= None /\ applying' = None
                /\ JudgedBad(exit'.code) =>
                \/ disturbance \in {"rendering_deviates", "resealed"}
                \/ ~Foreseen(applying.plan.argv)]_vars
  <2> SUFFICES ASSUME applying /= None, applying.file /= None, applying' = None,
                      JudgedBad(exit'.code)
               PROVE  \/ disturbance \in {"rendering_deviates", "resealed"}
                      \/ ~Foreseen(applying.plan.argv)
    OBVIOUS
  <2> DEFINE p    == applying.plan
             file == applying.file
  <2>1. ApplyFails
    BY <1>1, OnlyFailuresBlame
  <2>2. \/ VerificationRefusal(p, file, tools.probe) = exit'.code
        \/ ~verify_output(p, file).passed
    BY <2>1 DEF ApplyFails, ApplyEnds, Ends
  <2> HIDE DEF p, file
  <2>3. ~(verify_output(p, file).passed /\ (Measured(p) => file.loudness /= None))
    BY <2>2, CodeAssumption DEF VerificationRefusal, JudgedBad, Commands, Codes
  <2>4. Genuine /\ disturbance /= "rendering_deviates" => ~Foreseen(applying.plan.argv)
    BY <1>1, <2>3 DEF BlameInv, RenderedPasses, p, file
  <2>5. disturbance /= "edited"
    BY <1>1 DEF DocumentInv, PlanInv, Applies, EditIsRefused
  <2> QED
    BY <2>4, <2>5 DEF Genuine
<1> QED
  BY <1>1, BlameInvariance, PTL DEF Spec, VerificationFailureHasCause
=============================================================================
