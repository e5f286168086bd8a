----------------------------- MODULE PlanProofs -----------------------------
(***************************************************************************)
(* Proofs about the plan documents of Pipeline.tla: what the compiler      *)
(* writes, the validator accepts.                                          *)
(***************************************************************************)
EXTENDS PipelineProofs, PositionsProofs

-----------------------------------------------------------------------------
(* What the arithmetic of Geometry.tla guarantees for every width of the   *)
(* integers, every rate and every threshold.                               *)

Even(n) == n % 2 = 0

-----------------------------------------------------------------------------
(* Integer division.                                                       *)

LEMMA DivisionBounds ==
  ASSUME NEW a \in Nat, NEW b \in Nat, b > 0
  PROVE  /\ a \div b \in Nat
         /\ (a \div b) * b <= a
         /\ a < (a \div b) * b + b
BY Z3

LEMMA Remainder ==
  ASSUME NEW a \in Nat, NEW b \in Nat, b > 0
  PROVE  /\ a = ((a \div b) * b) + (a % b)
         /\ a % b \in Nat /\ a % b < b
  OBVIOUS

LEMMA ProductMonotone ==
  ASSUME NEW a \in Nat, NEW b \in Nat, NEW c \in Nat, a <= b
  PROVE  a * c <= b * c
BY Z3

LEMMA DivisionMonotone ==
  ASSUME NEW a \in Nat, NEW b \in Nat, NEW c \in Nat, c > 0, a <= b
  PROVE  a \div c <= b \div c
BY Z3

\* A quotient is below what bounds the dividend.
LEMMA QuotientBelow ==
  ASSUME NEW a \in Nat, NEW b \in Nat, b > 0, NEW c \in Nat, a <= c * b
  PROVE  a \div b <= c
BY Z3

\* even_floor yields an even number from 2 up, and changes a number that u32
\* holds by less than two unless it is below 2.
LEMMA EvenFloor ==
  ASSUME NEW v \in Nat, v <= MaxU32
  PROVE  /\ even_floor(v) \in Nat /\ even_floor(v) >= 2 /\ Even(even_floor(v))
         /\ v >= 2 => even_floor(v) <= v /\ v < even_floor(v) + 2
         /\ v < 2 => even_floor(v) = 2
BY WidthAssumption DEF even_floor, AtLeast, Even

-----------------------------------------------------------------------------
(* Frame sizes.                                                            *)

\* One side of a fitted frame: a is the side that fills the box, b the other
\* one, s and t the source's and the box's sides.
LEMMA FittedSide ==
  ASSUME NEW sa \in Nat, sa > 0, NEW sb \in Nat, NEW ta \in Nat, NEW tb \in Nat,
         tb >= 2, Even(tb), tb <= MaxU32, sb * ta <= sa * tb
  PROVE  LET side == even_floor((sb * ta) \div sa)
         IN  /\ side \in 2 .. tb /\ Even(side)
             /\ \/ side * sa <= sb * ta /\ sb * ta < (side + 2) * sa
                \/ side = 2 /\ sb * ta < 2 * sa
<1> DEFINE q == (sb * ta) \div sa
           side == even_floor(q)
<1>1. sb * ta \in Nat
  BY Z3
<1>2. q \in Nat /\ q * sa <= sb * ta /\ sb * ta < q * sa + sa
  BY <1>1, DivisionBounds
<1>3. q <= tb
  BY <1>1, sb * ta <= tb * sa, QuotientBelow, Z3
<1> HIDE DEF q
<1>4. q <= MaxU32
  BY <1>2, <1>3, WidthAssumption
<1>5. /\ side \in Nat /\ side >= 2 /\ Even(side)
      /\ q >= 2 => side <= q /\ q < side + 2
      /\ q < 2 => side = 2
  BY <1>2, <1>4, EvenFloor
<1> HIDE DEF side
<1>6. side <= tb
  BY <1>2, <1>3, <1>5
<1>7. CASE q >= 2
  <2>1. side * sa <= q * sa
    BY <1>2, <1>5, <1>7, ProductMonotone
  <2>2. (q + 1) * sa <= (side + 2) * sa
    BY <1>2, <1>5, <1>7, ProductMonotone, q + 1 <= side + 2
  <2>3. (q + 1) * sa = q * sa + sa
    BY <1>2, Z3
  <2>4. q * sa \in Nat /\ side * sa \in Nat /\ (side + 2) * sa \in Nat
    BY <1>2, <1>5, Z3
  <2>5. side * sa <= sb * ta /\ sb * ta < (side + 2) * sa
    BY <1>1, <1>2, <2>1, <2>2, <2>3, <2>4
  <2> QED
    BY <1>5, <1>6, <2>5 DEF side, q
<1>8. CASE q < 2
  <2>1. (q + 1) * sa <= 2 * sa
    BY <1>2, <1>8, ProductMonotone, q + 1 <= 2
  <2>2. (q + 1) * sa = q * sa + sa
    BY <1>2, Z3
  <2>3. sb * ta < 2 * sa
    BY <1>1, <1>2, <2>1, <2>2, Z3
  <2> QED
    BY <1>5, <1>6, <1>8, <2>3 DEF side, q
<1> QED
  BY <1>2, <1>7, <1>8

\* fit_dimensions: for an even box within u32 and a source by whose sides it
\* can divide, the fitted frame lies in the box, touches it, is even, and its
\* other side is the largest even number that keeps the shape (or 2).
THEOREM FittedFrame ==
  ASSUME NEW sw \in Nat, NEW sh \in Nat,
         NEW tw \in Nat, tw >= 2, Even(tw), tw <= MaxU32,
         NEW th \in Nat, th >= 2, Even(th), th <= MaxU32,
         ~FitPanics(sw, sh, tw, th)
  PROVE  LET frame == fit_dimensions(sw, sh, tw, th)
         IN  /\ frame[1] \in 2 .. tw /\ Even(frame[1])
             /\ frame[2] \in 2 .. th /\ Even(frame[2])
             /\ \/ /\ frame[1] = tw
                   /\ \/ /\ frame[2] * sw <= sh * tw
                         /\ sh * tw < (frame[2] + 2) * sw
                      \/ frame[2] = 2 /\ sh * tw < 2 * sw
                \/ /\ frame[2] = th
                   /\ \/ /\ frame[1] * sh <= sw * th
                         /\ sw * th < (frame[1] + 2) * sh
                      \/ frame[1] = 2 /\ sw * th < 2 * sh
<1> DEFINE frame == fit_dimensions(sw, sh, tw, th)
<1>1. CASE sw * th > tw * sh
  <2>1. frame = <<tw, even_floor((sh * tw) \div sw)>>
    BY <1>1 DEF fit_dimensions
  <2>2. sh * tw <= sw * th /\ sw > 0
    BY <1>1, Z3 DEF FitPanics
  <2>3. LET side == even_floor((sh * tw) \div sw)
        IN  /\ side \in 2 .. th /\ Even(side)
            /\ \/ side * sw <= sh * tw /\ sh * tw < (side + 2) * sw
               \/ side = 2 /\ sh * tw < 2 * sw
    BY <2>2, FittedSide
  <2> QED
    BY <2>1, <2>3
<1>2. CASE ~(sw * th > tw * sh)
  <2>1. frame = <<even_floor((sw * th) \div sh), th>>
    BY <1>2 DEF fit_dimensions
  <2>2. sw * th <= sh * tw /\ sh > 0
    BY <1>2, Z3 DEF FitPanics
  <2>3. LET side == even_floor((sw * th) \div sh)
        IN  /\ side \in 2 .. tw /\ Even(side)
            /\ \/ side * sh <= sw * th /\ sw * th < (side + 2) * sh
               \/ side = 2 /\ sw * th < 2 * sh
    BY <2>2, FittedSide
  <2> QED
    BY <2>1, <2>3
<1> QED
  BY <1>1, <1>2

-----------------------------------------------------------------------------
(* Times.                                                                  *)

\* A time that is formatted for ffmpeg and read back is the same time, for
\* every time that u64 holds.
THEOREM TimesReadBack ==
  ASSUME NEW ms \in Nat, ms <= MaxU64
  PROVE  decimal_ms(format_milliseconds(ms)) = ms
<1> DEFINE n == format_milliseconds(ms)
<1>1. /\ n.negative = FALSE /\ n.whole = ms \div 1000
      /\ n.digits = <<(ms % 1000) \div 100, (ms % 100) \div 10, ms % 10>>
  BY DEF format_milliseconds
<1>2. ms = (ms \div 1000) * 1000 + ((ms % 1000) \div 100) * 100
             + ((ms % 100) \div 10) * 10 + (ms % 10)
  <2>1. ms = (ms \div 1000) * 1000 + (ms % 1000) /\ ms % 1000 \in 0 .. 999
    BY Remainder, 1000 > 0
  <2>2. ms % 1000 = ((ms % 1000) \div 100) * 100 + ((ms % 1000) % 100)
    BY <2>1, Remainder, 100 > 0
  <2>3. (ms % 1000) % 100 = ms % 100 /\ ms % 100 \in 0 .. 99
    BY Z3
  <2>4. ms % 100 = ((ms % 100) \div 10) * 10 + ((ms % 100) % 10)
    BY <2>3, Remainder, 10 > 0
  <2>5. (ms % 100) % 10 = ms % 10
    BY Z3
  <2>6. /\ ms \div 1000 \in Nat /\ (ms % 1000) \div 100 \in Nat
        /\ (ms % 100) \div 10 \in Nat /\ ms % 10 \in Nat
    BY Z3
  <2> QED
    BY <2>1, <2>2, <2>3, <2>4, <2>5, <2>6
<1>3. /\ Len(n.digits) = 3 /\ n.digits[1] = (ms % 1000) \div 100
      /\ n.digits[2] = (ms % 100) \div 10 /\ n.digits[3] = ms % 10
  BY <1>1
<1> HIDE DEF n
<1>4. decimal_ms(n) = IF n.negative \/ ms > MaxU64 THEN None ELSE ms
  BY <1>1, <1>2, <1>3 DEF decimal_ms
<1> QED
  BY <1>1, <1>4, WidthAssumption DEF n

-----------------------------------------------------------------------------
(* Estimates.                                                              *)

\* The estimate of a rendering covers its duration at the assumed rates, or
\* all that u64 can count.
THEOREM EstimateCovers ==
  ASSUME NEW duration \in Nat, NEW video \in BOOLEAN, NEW audio \in BOOLEAN
  PROVE  LET rate == (IF video THEN VideoBitrate ELSE 0) + (IF audio THEN AudioBitrate ELSE 0)
         IN  /\ RateEstimate(duration, video, audio) \in Nat
             /\ RateEstimate(duration, video, audio)
                  >= AtMost(duration * rate, MaxU64) \div BitsPerByteMs
<1> DEFINE rate  == (IF video THEN VideoBitrate ELSE 0) + (IF audio THEN AudioBitrate ELSE 0)
           used  == saturating_add(IF video THEN VideoBitrate ELSE 0,
                                   IF audio THEN AudioBitrate ELSE 0)
           bound == AtMost(duration * rate, MaxU64)
           total == saturating_mul(duration, used)
<1>1. rate \in Nat
  BY RateAssumption
<1>2. used \in Nat /\ used = AtMost(rate, MaxU64)
  BY RateAssumption, WidthAssumption DEF saturating_add, AtMost
<1> HIDE DEF rate, used
<1>3. duration * rate \in Nat /\ duration * used \in Nat
  BY <1>1, <1>2, Z3
<1>4. bound \in Nat /\ total \in Nat
  BY <1>3, WidthAssumption DEF AtMost, saturating_mul
<1>5. bound <= total
  <2>1. CASE rate <= MaxU64
    BY <1>1, <1>2, <2>1, WidthAssumption, used = rate DEF AtMost, saturating_mul
  <2>2. CASE rate > MaxU64 /\ duration = 0
    <3>1. duration * rate = 0
      BY <1>1, <2>2, Z3
    <3>2. bound = 0
      BY <3>1, WidthAssumption DEF AtMost
    <3> QED
      BY <1>4, <3>2
  <2>3. CASE rate > MaxU64 /\ duration > 0
    <3>1. used = MaxU64
      BY <1>1, <1>2, <2>3, WidthAssumption DEF AtMost
    <3>2. duration * MaxU64 >= MaxU64
      BY <2>3, WidthAssumption, Z3
    <3>3. total = MaxU64
      BY <1>3, <3>1, <3>2, WidthAssumption DEF saturating_mul, AtMost
    <3> QED
      BY <1>3, <3>3, WidthAssumption DEF AtMost
  <2> QED
    BY <1>1, <2>1, <2>2, <2>3, WidthAssumption
<1> HIDE DEF bound, total
<1>6. bound \div BitsPerByteMs <= total \div BitsPerByteMs
  BY <1>4, <1>5, RateAssumption, DivisionMonotone
<1>7. bound \div BitsPerByteMs \in Nat /\ total \div BitsPerByteMs \in Nat
  BY <1>4, RateAssumption, DivisionBounds
<1>8. RateEstimate(duration, video, audio) = AtLeast(total \div BitsPerByteMs, MinEstimate)
  BY DEF RateEstimate, total, used
<1> QED
  BY <1>6, <1>7, <1>8, RateAssumption DEF AtLeast, bound, rate

\* The temporary estimate covers the output estimate, or the largest estimate
\* whose six fifths u64 can count.
THEOREM TemporaryCovers ==
  ASSUME NEW output \in Nat
  PROVE  estimated_temporary_bytes(output) >= AtMost(output, MaxU64 \div 5)
<1>1. output * 6 \in Nat /\ MaxU64 \in Nat
  BY WidthAssumption
<1>2. CASE output * 6 <= MaxU64
  <2>1. estimated_temporary_bytes(output) = (output * 6) \div 5
    BY <1>1, <1>2 DEF estimated_temporary_bytes, saturating_mul, AtMost
  <2>2. (output * 6) \div 5 >= output /\ output <= MaxU64 \div 5
    BY <1>1, <1>2
  <2> QED
    BY <1>1, <2>1, <2>2 DEF AtMost
<1>3. CASE output * 6 > MaxU64
  <2>1. estimated_temporary_bytes(output) = MaxU64 \div 5
    BY <1>1, <1>3 DEF estimated_temporary_bytes, saturating_mul, AtMost
  <2> QED
    BY <1>1, <2>1 DEF AtMost
<1> QED
  BY <1>1, <1>2, <1>3

-----------------------------------------------------------------------------
(* Selection.                                                              *)

LEMMA FirstAtElement ==
  ASSUME NEW T, NEW seq \in Seq(T), NEW S \in SUBSET DOMAIN seq
  PROVE  IF S = {} THEN FirstAt(seq, S) = None
         ELSE \E i \in S : FirstAt(seq, S) = seq[i] /\ \A j \in S : i <= j
<1>1. Len(seq) \in Nat /\ DOMAIN seq = 1..Len(seq)
  BY LenProperties
<1>2. CASE S /= {}
  BY <1>1, <1>2, FirstPosition DEF FirstAt
<1> QED
  BY <1>2 DEF FirstAt

\* A selected stream is one of the kind, and there is none only if the file
\* has none of the kind.
LEMMA SelectionFinds ==
  ASSUME NEW streams \in Seq(StreamSummary), NEW kind
  PROVE  LET stream == select_default_stream(streams, kind)
         IN  \/ stream = None /\ OfKind(streams, kind) = {}
             \/ \E i \in OfKind(streams, kind) : stream = streams[i]
<1> DEFINE marked == {i \in OfKind(streams, kind) : streams[i].disposition = "default"}
<1>1. marked \in SUBSET OfKind(streams, kind) /\ OfKind(streams, kind) \in SUBSET DOMAIN streams
  BY DEF OfKind
<1>2. CASE marked = {}
  <2>1. select_default_stream(streams, kind) = FirstAt(streams, OfKind(streams, kind))
    BY <1>2 DEF select_default_stream, FirstStream
  <2> QED
    BY <1>1, <2>1, FirstAtElement
<1>3. CASE marked /= {}
  <2>1. select_default_stream(streams, kind) = FirstAt(streams, marked)
    BY <1>3 DEF select_default_stream
  <2> HIDE DEF marked
  <2> QED
    BY <1>1, <1>3, <2>1, FirstAtElement
<1> QED
  BY <1>2, <1>3

LEMMA SelectionType ==
  ASSUME NEW input, input.streams \in Seq(StreamSummary)
  PROVE  /\ Video(input) /= None => Video(input) \in StreamSummary /\ Video(input).kind = "video"
         /\ Audio(input) /= None => Audio(input) \in StreamSummary /\ Audio(input).kind = "audio"
         /\ Subtitle(input) /= None =>
              Subtitle(input) \in StreamSummary /\ Subtitle(input).kind = "subtitle"
<1>2. ASSUME NEW kind
      PROVE  LET stream == select_default_stream(input.streams, kind)
             IN  stream /= None => stream \in StreamSummary /\ stream.kind = kind
  <2>1. \A i \in OfKind(input.streams, kind) :
          input.streams[i] \in StreamSummary /\ input.streams[i].kind = kind
    BY ElementOfSeq, LenProperties DEF OfKind
  <2> QED
    BY <2>1, SelectionFinds
<1> QED
  BY <1>2 DEF Video, Audio, Subtitle

-----------------------------------------------------------------------------
(* What assemble_plan writes.                                              *)

Fields == {"schema", "recipe_digest", "inputs", "path", "temporary", "atomic", "operation",
           "selected", "backend", "expected", "checks", "warnings", "resources", "argv", "id"}

Document(p) == p = [field \in Fields |-> p[field]]

\* A record with one of its fields changed.
Part(r, field, value) == [r EXCEPT ![field] = value]

LEMMA PartsCommute ==
  ASSUME NEW r, NEW x, NEW y, NEW a, NEW b, x /= y
  PROVE  Part(Part(r, x, a), y, b) = Part(Part(r, y, b), x, a)
BY DEF Part

\* A document with its parts where they belong.
AssembledFrom(p, r, inputs, backend, draft) ==
  /\ Document(p)
  /\ p.schema = PlanSchema /\ p.recipe_digest = r /\ p.inputs = inputs
  /\ p.path = r.path /\ p.atomic = TRUE
  /\ p.temporary = temporary_output_path(p.path, p.id)
  /\ p.operation = draft.operation /\ p.selected = draft.selected
  /\ p.backend = [version |-> backend.version, libraries |-> backend.libraries]
  /\ p.expected = draft.expected
  /\ p.checks = verification_checks_with_size(draft.expected, r.budgets.output)
  /\ p.warnings = BoundedWarnings(draft.warnings)
  /\ p.resources = estimate_resources(inputs, draft.expected, r.budgets)
  /\ p.argv = [draft.argv EXCEPT !.output = p.temporary]
  /\ p.id = expected_plan_id(p)

LEMMA Assembled ==
  ASSUME NEW r, NEW inputs, NEW backend, NEW draft
  PROVE  AssembledFrom(Assemble(r, inputs, backend, draft), r, inputs, backend, draft)
<1> DEFINE document(id, temporary) ==
             [schema        |-> PlanSchema,
              recipe_digest |-> r,
              inputs        |-> inputs,
              path          |-> r.path,
              temporary     |-> temporary,
              atomic        |-> TRUE,
              operation     |-> draft.operation,
              selected      |-> draft.selected,
              backend       |-> [version |-> backend.version, libraries |-> backend.libraries],
              expected      |-> draft.expected,
              checks        |-> verification_checks_with_size(draft.expected, r.budgets.output),
              warnings      |-> BoundedWarnings(draft.warnings),
              resources     |-> estimate_resources(inputs, draft.expected, r.budgets),
              argv          |-> [draft.argv EXCEPT !.output = temporary],
              id            |-> id]
           id == expected_plan_id(document(None, None))
<1>1. Assemble(r, inputs, backend, draft) = document(id, temporary_output_path(r.path, id))
  BY Zenon DEF Assemble
<1>2. ASSUME NEW i, NEW t
      PROVE  expected_plan_id(document(i, t)) = expected_plan_id(document(None, None))
  BY DEF expected_plan_id
<1> HIDE DEF id
<1>3. ASSUME NEW i, NEW t PROVE Document(document(i, t))
  BY DEF Document, Fields
<1> QED
  BY <1>1, <1>2, <1>3 DEF id, AssembledFrom

-----------------------------------------------------------------------------
(* The invariant.                                                          *)

Inspectable(report) ==
  /\ report = [path |-> report.path, bytes |-> report.bytes, duration |-> report.duration,
               streams |-> report.streams, probe |-> report.probe, sha |-> report.sha]
  /\ report.path \in Paths /\ report.bytes \in U64 /\ report.duration \in Optional(U64)
  /\ report.streams \in Seq(StreamSummary) /\ IndicesDiffer(report.streams)
  /\ report.probe /= ""

\* What the recipe, the files and the tools always are.
World ==
  /\ recipe \in Recipe /\ Arity(recipe)
  /\ DOMAIN files = ToSet(recipe.inputs)
  /\ \A n \in DOMAIN files : files[n] /= None => Inspectable(files[n])
  /\ tools = [version |-> tools.version, libraries |-> tools.libraries,
              probe |-> tools.probe, features |-> tools.features]
  /\ tools.version /= "" /\ tools.libraries /= {}

\* A document that the compiler wrote for a recipe, from admissible inputs.
Compiled(p, r) ==
  /\ p.inputs = [i \in 1..Len(r.inputs) |-> p.inputs[i]]
  /\ \A i \in DOMAIN p.inputs : Inspectable(p.inputs[i]) /\ p.inputs[i].path /= r.path
  /\ p.backend.version /= "" /\ p.backend.libraries /= {}
  /\ validate_recipe(r)
  /\ CompileRefusal(r.operation, p.inputs) = None
  /\ ~OverBudget(p.resources)
  /\ p = Assemble(r, p.inputs, p.backend, Compile(r.operation, p.inputs, r.tolerance))

PlanIsCompiled == Planned => Compiled(planFile, recipe)
InputsAreKnown ==
  Planned /\ disturbance /= "input_replaced" => planFile.inputs = Inspected(recipe, files)

\* The document that is applied is the one on disk, and was accepted.
Applies ==
  applying /= None =>
    /\ applying.plan = planFile /\ PlanRefusal = None
    /\ applying.seal /= "edited"

EditIsRefused == disturbance = "edited" => planFile /= None /\ PlanRefusal /= None
CompiledIsValid == Planned => validate_plan(planFile)

-----------------------------------------------------------------------------
(* The recipe, the files and the tools.                                    *)

LEMMA WorldAtFirst == Init => World
<1> SUFFICES ASSUME Init PROVE World
  OBVIOUS
<1>1. PICK case \in Cases : recipe = case.recipe /\ tools = case.tools
  BY DEF Init
<1>2. recipe \in Recipe /\ Arity(recipe) /\ ToSet(recipe.inputs) \subseteq DOMAIN Media
  BY <1>1, CaseAssumption
<1>3. /\ tools = [version |-> tools.version, libraries |-> tools.libraries,
                  probe |-> tools.probe, features |-> tools.features]
      /\ tools.version /= "" /\ tools.libraries /= {}
  BY <1>1, CaseAssumption
<1>4. files = [n \in ToSet(recipe.inputs) |-> Media[n]]
  BY DEF Init
<1>5. ASSUME NEW report \in InspectionReport, report.probe /= "", IndicesDiffer(report.streams)
      PROVE  Inspectable(report)
  BY <1>5 DEF InspectionReport, Inspectable
<1>6. \A n \in DOMAIN files : files[n] /= None => Inspectable(files[n])
  BY <1>2, <1>4, <1>5, MediaAssumption
<1> QED
  BY <1>2, <1>3, <1>4, <1>6 DEF World

\* A replaced input is still one that can be inspected.
LEMMA ReplacedInspectable ==
  ASSUME NEW report, Inspectable(report)
  PROVE  Inspectable([report EXCEPT !.sha = "other", !.streams = Front(@)])
<1> DEFINE streams == report.streams
           resealed == [report EXCEPT !.sha = "other"]
           other   == [resealed EXCEPT !.streams = Front(streams)]
<1>1. streams \in Seq(StreamSummary)
  BY DEF Inspectable
<1>2. /\ Front(streams) \in Seq(StreamSummary)
      /\ DOMAIN Front(streams) \subseteq DOMAIN streams
      /\ \A i \in DOMAIN Front(streams) : Front(streams)[i] = streams[i]
  <2>1. Len(streams) \in Nat
    BY <1>1, LenProperties
  <2> QED
    BY <1>1, <2>1 DEF Front
<1>3. resealed = [path |-> report.path, bytes |-> report.bytes, duration |-> report.duration,
                  streams |-> report.streams, probe |-> report.probe, sha |-> "other"]
  <2>1. report = [path |-> report.path, bytes |-> report.bytes, duration |-> report.duration,
                  streams |-> report.streams, probe |-> report.probe, sha |-> report.sha]
    BY DEF Inspectable
  <2> QED
    BY <2>1
<1> HIDE DEF resealed
<1>4. other = [path |-> report.path, bytes |-> report.bytes, duration |-> report.duration,
               streams |-> Front(streams), probe |-> report.probe, sha |-> "other"]
  BY <1>3
<1> HIDE DEF other
<1>5. IndicesDiffer(Front(streams))
  BY <1>2 DEF Inspectable, IndicesDiffer
<1>6. Inspectable(other)
  BY <1>2, <1>4, <1>5 DEF Inspectable
<1>7. [report EXCEPT !.sha = "other", !.streams = Front(@)] = other
  BY Zenon DEF other, resealed
<1> QED
  BY <1>6, <1>7

LEMMA WorldStep == World /\ [Next]_vars => World'
<1> SUFFICES ASSUME World, [Next]_vars PROVE World'
  OBVIOUS
<1>1. CASE ReplaceInput
  <2> DEFINE Other(file) == [file EXCEPT !.sha = "other", !.streams = Front(@)]
  <2>1. PICK path :
          files' = [n \in DOMAIN files |->
                      IF files[n] /= None /\ files[n].path = path
                      THEN Other(files[n]) ELSE files[n]]
    BY <1>1 DEF ReplaceInput
  <2>2. recipe' = recipe /\ tools' = tools
    BY <1>1 DEF ReplaceInput
  <2>3. \A n \in DOMAIN files : files[n] /= None =>
          Inspectable(files[n]) /\ Inspectable(Other(files[n]))
    BY ReplacedInspectable DEF World
  <2> HIDE DEF Other
  <2>4. DOMAIN files' = DOMAIN files
    BY <2>1
  <2>5. \A n \in DOMAIN files' : files'[n] /= None => Inspectable(files'[n])
    BY <2>1, <2>3
  <2> QED
    BY <2>2, <2>4, <2>5 DEF World, Arity
<1>2. CASE ReplaceTools
  <2>1. recipe' = recipe /\ files' = files
    BY <1>2 DEF ReplaceTools
  <2>4. /\ tools' = [version |-> tools'.version, libraries |-> tools'.libraries,
                     probe |-> tools'.probe, features |-> tools'.features]
        /\ tools'.version /= "" /\ tools'.libraries /= {}
    BY <1>2 DEF ReplaceTools, World
  <2> QED
    BY <2>1, <2>4 DEF World, Arity, Inspectable, IndicesDiffer
<1>3. CASE UNCHANGED world
  BY <1>3 DEF world, World, Arity, Inspectable, IndicesDiffer
<1>4. ReplaceInput \/ ReplaceTools \/ UNCHANGED world
  BY DEF Next, Plan, Apply, Backend, Others, PlanRefused, PlanWritten, PlanCutShort,
         ApplyRefused, ApplyStarts, LimitExceeded, ApplyFails, ApplySucceeds, BackendRenders,
         BackendDeviates, BackendFails, Verify, ShowReceipt, EditPlan, ReplaceOutput,
         vars, world
<1> QED
  BY <1>1, <1>2, <1>3, <1>4

-----------------------------------------------------------------------------
(* What plan_recipe writes is compiled.                                    *)

LEMMA WrittenIsCompiled ==
  ASSUME World, Planning = None
  PROVE  LET p == plan_recipe(recipe, files, tools)
         IN  Compiled(p, recipe) /\ p.inputs = Inspected(recipe, files)
<1> DEFINE inputs == Inspected(recipe, files)
           draft  == Compile(recipe.operation, inputs, recipe.tolerance)
           p      == Assemble(recipe, inputs, tools, draft)
<1>1. /\ None /= "recipe_invalid" /\ None /= "input_not_found" /\ None /= "unsupported"
      /\ None /= "input_output_conflict" /\ None /= "output_exists"
  BY CodeAssumption DEF Commands, Codes
<1>2. /\ validate_recipe(recipe)
      /\ \A i \in DOMAIN inputs : inputs[i] /= None /\ inputs[i].path /= recipe.path
      /\ CompileRefusal(recipe.operation, inputs) = None
      /\ ~OverBudget(estimate_resources(inputs, draft.expected, recipe.budgets))
  BY <1>1, Zenon DEF Planning, plan_refusal
<1>3. recipe.inputs \in Seq(STRING)
  BY DEF World, Recipe
<1>4. /\ DOMAIN inputs = DOMAIN recipe.inputs
      /\ \A i \in DOMAIN inputs : inputs[i] = files[recipe.inputs[i]]
                                 /\ recipe.inputs[i] \in DOMAIN files
  BY DEF Inspected, World, ToSet
<1>5. \A i \in DOMAIN inputs : Inspectable(inputs[i])
  BY <1>2, <1>4 DEF World
<1>6. inputs = [i \in 1..Len(recipe.inputs) |-> inputs[i]]
  <2>1. DOMAIN recipe.inputs = 1..Len(recipe.inputs)
    BY <1>3, LenProperties
  <2> QED
    BY <2>1 DEF Inspected
<1>7. plan_recipe(recipe, files, tools) = p
  BY Zenon DEF plan_recipe
<1> HIDE DEF draft, inputs
<1>8. /\ p.inputs = inputs
      /\ p.backend = [version |-> tools.version, libraries |-> tools.libraries]
      /\ p.resources = estimate_resources(inputs, draft.expected, recipe.budgets)
  <2>1. AssembledFrom(p, recipe, inputs, tools, draft)
    BY Assembled, Zenon
  <2> HIDE DEF p
  <2> QED
    BY <2>1 DEF AssembledFrom
<1>9. p.backend.version = tools.version /\ p.backend.libraries = tools.libraries
  BY <1>8
<1>10. p = Assemble(recipe, p.inputs, p.backend, draft)
  BY <1>8, <1>9, Zenon DEF Assemble
<1>11. tools.version /= "" /\ tools.libraries /= {}
  BY DEF World
<1> HIDE DEF p
<1> QED
  BY <1>2, <1>5, <1>6, <1>7, <1>8, <1>9, <1>10, <1>11 DEF Compiled, draft, inputs

-----------------------------------------------------------------------------
(* Argument vectors: all that the temporary path changes is the output.    *)

LEMMA PrefixOutput ==
  ASSUME NEW paths, NEW o, NEW t
  PROVE  Part(BackendPrefix(paths, o), "output", t) = BackendPrefix(paths, t)
BY DEF Part, BackendPrefix

LEMMA TranscodeOutput ==
  ASSUME NEW path, NEW video, NEW audio, NEW filter, NEW t
  PROVE  Part(transcode_argv(path, None, video, audio, filter), "output", t)
           = transcode_argv(path, t, video, audio, filter)
<1>1. ASSUME NEW o
      PROVE  transcode_argv(path, o, video, audio, filter)
               = Part(Part(Part(Part(Part(BackendPrefix(<<path>>, o), "maps", Maps(video, audio)),
                                     "filter", filter), "video", "libx264"),
                           "audio", AacArgs(audio)), "muxer", "mp4")
  BY Zenon DEF transcode_argv, Part
<1>2. ASSUME NEW r, NEW m, NEW f, NEW v, NEW a, NEW u
      PROVE  Part(Part(Part(Part(Part(Part(r, "maps", m), "filter", f), "video", v),
                            "audio", a), "muxer", u), "output", t)
               = Part(Part(Part(Part(Part(Part(r, "output", t), "maps", m), "filter", f),
                                "video", v), "audio", a), "muxer", u)
  BY PartsCommute
<1> QED
  BY <1>1, <1>2, PrefixOutput

LEMMA ClipOutput ==
  ASSUME NEW path, NEW start, NEW duration, NEW video, NEW audio, NEW t
  PROVE  Part(clip_argv(path, None, start, duration, video, audio), "output", t)
           = clip_argv(path, t, start, duration, video, audio)
<1>1. ASSUME NEW o
      PROVE  clip_argv(path, o, start, duration, video, audio)
               = Part(Part(transcode_argv(path, o, video, audio, [name |-> "reset_timestamps"]),
                           "seek", format_milliseconds(start)),
                      "length", format_milliseconds(duration))
  BY Zenon DEF clip_argv, Part
<1>2. ASSUME NEW r, NEW a, NEW b
      PROVE  Part(Part(Part(r, "seek", a), "length", b), "output", t)
               = Part(Part(Part(r, "output", t), "seek", a), "length", b)
  BY PartsCommute
<1> QED
  BY <1>1, <1>2, TranscodeOutput

LEMMA AudioOutput ==
  ASSUME NEW path, NEW audio, NEW t
  PROVE  Part(extract_audio_argv(path, None, audio), "output", t)
           = extract_audio_argv(path, t, audio)
<1>1. ASSUME NEW o
      PROVE  extract_audio_argv(path, o, audio)
               = Part(Part(Part(BackendPrefix(<<path>>, o), "maps", <<<<1, audio>>>>),
                           "audio", "aac"), "muxer", "ipod")
  BY Zenon DEF extract_audio_argv, Part
<1>2. ASSUME NEW r, NEW m, NEW a, NEW u
      PROVE  Part(Part(Part(Part(r, "maps", m), "audio", a), "muxer", u), "output", t)
               = Part(Part(Part(Part(r, "output", t), "maps", m), "audio", a), "muxer", u)
  BY PartsCommute
<1> QED
  BY <1>1, <1>2, PrefixOutput

LEMMA NormalizeOutput ==
  ASSUME NEW path, NEW audio, NEW target, NEW t
  PROVE  Part(normalize_audio_argv(path, None, audio, target), "output", t)
           = normalize_audio_argv(path, t, audio, target)
<1>1. ASSUME NEW o
      PROVE  normalize_audio_argv(path, o, audio, target)
               = Part(extract_audio_argv(path, o, audio), "filter",
                      [name |-> "loudnorm", target |-> format_loudness(target)])
  BY Zenon DEF normalize_audio_argv, Part
<1>2. ASSUME NEW r, NEW f
      PROVE  Part(Part(r, "filter", f), "output", t) = Part(Part(r, "output", t), "filter", f)
  BY PartsCommute
<1> QED
  BY <1>1, <1>2, AudioOutput

LEMMA ConcatenateOutput ==
  ASSUME NEW paths, NEW segments, NEW hasAudio, NEW t
  PROVE  Part(concatenate_argv(paths, None, segments, hasAudio), "output", t)
           = concatenate_argv(paths, t, segments, hasAudio)
<1>1. ASSUME NEW o
      PROVE  concatenate_argv(paths, o, segments, hasAudio)
               = Part(Part(Part(Part(BackendPrefix(paths, o), "filter",
                                     [name |-> "concat", segments |-> segments, audio |-> hasAudio]),
                                "video", "libx264"),
                           "audio", IF hasAudio THEN "aac" ELSE None), "muxer", "mp4")
  BY Zenon DEF concatenate_argv, Part
<1>2. ASSUME NEW r, NEW f, NEW v, NEW a, NEW u
      PROVE  Part(Part(Part(Part(Part(r, "filter", f), "video", v), "audio", a), "muxer", u),
                  "output", t)
               = Part(Part(Part(Part(Part(r, "output", t), "filter", f), "video", v),
                           "audio", a), "muxer", u)
  BY PartsCommute
<1> QED
  BY <1>1, <1>2, PrefixOutput

LEMMA ImageOutput ==
  ASSUME NEW path, NEW video, NEW filter, NEW t
  PROVE  Part(ImageArgv(path, None, video, filter), "output", t)
           = ImageArgv(path, t, video, filter)
<1>1. ASSUME NEW o
      PROVE  ImageArgv(path, o, video, filter)
               = Part(Part(Part(Part(Part(BackendPrefix(<<path>>, o), "maps", <<<<1, video>>>>),
                                     "filter", filter), "frames", 1),
                           "video", "mjpeg"), "muxer", "image2")
  BY Zenon DEF ImageArgv, Part
<1>2. ASSUME NEW r, NEW m, NEW f, NEW n, NEW v, NEW u
      PROVE  Part(Part(Part(Part(Part(Part(r, "maps", m), "filter", f), "frames", n),
                            "video", v), "muxer", u), "output", t)
               = Part(Part(Part(Part(Part(Part(r, "output", t), "maps", m), "filter", f),
                                "frames", n), "video", v), "muxer", u)
  BY PartsCommute
<1> QED
  BY <1>1, <1>2, PrefixOutput

LEMMA ThumbnailOutput ==
  ASSUME NEW path, NEW video, NEW at, NEW size, NEW t
  PROVE  Part(thumbnail_argv(path, None, video, at, size), "output", t)
           = thumbnail_argv(path, t, video, at, size)
<1>1. ASSUME NEW o
      PROVE  thumbnail_argv(path, o, video, at, size)
               = Part(ImageArgv(path, o, video, [name |-> "scale", frame |-> size]),
                      "seek", format_milliseconds(at))
  BY Zenon DEF thumbnail_argv, Part
<1>2. ASSUME NEW r, NEW f
      PROVE  Part(Part(r, "seek", f), "output", t) = Part(Part(r, "output", t), "seek", f)
  BY PartsCommute
<1> QED
  BY <1>1, <1>2, ImageOutput

-----------------------------------------------------------------------------
(* The validator accepts what the compiler wrote.                          *)

LEMMA InspectableTypes ==
  ASSUME NEW report, Inspectable(report)
  PROVE  /\ report.path \in Paths /\ report.path.id = <<>>
         /\ report.bytes \in Nat /\ report.bytes <= MaxU64
         /\ report.duration /= None => report.duration \in Nat /\ report.duration <= MaxU64
         /\ report.streams \in Seq(StreamSummary) /\ IndicesDiffer(report.streams)
         /\ report.probe /= ""
<1>1. /\ report.path \in Paths /\ report.bytes \in U64 /\ report.duration \in Optional(U64)
      /\ report.streams \in Seq(StreamSummary) /\ IndicesDiffer(report.streams)
      /\ report.probe /= ""
  BY DEF Inspectable
<1>2. report.path.id = <<>>
  BY <1>1 DEF Paths
<1>3. U64 \subseteq Nat /\ \A n \in U64 : n <= MaxU64
  BY WidthAssumption DEF U64
<1> QED
  BY <1>1, <1>2, <1>3 DEF Optional

LEMMA CompiledParts ==
  ASSUME NEW p, NEW r, r \in Recipe, Compiled(p, r)
  PROVE  LET draft == Compile(r.operation, p.inputs, r.tolerance)
         IN  /\ AssembledFrom(p, r, p.inputs, p.backend, draft)
             /\ p.resources.budgets = r.budgets
             /\ p.argv = Part(draft.argv, "output", p.temporary)
             /\ r.operation \in Operation /\ r.inputs \in Seq(STRING) /\ r.path \in Paths
             /\ Len(p.inputs) = Len(r.inputs) /\ Len(r.inputs) \in Nat
             /\ DOMAIN p.inputs = 1..Len(r.inputs)
             /\ CompileRefusal(r.operation, p.inputs) = None
             /\ validate_recipe(r) /\ r.tolerance <= MaxTolerance
<1> DEFINE draft == Compile(r.operation, p.inputs, r.tolerance)
<1>1. p = Assemble(r, p.inputs, p.backend, draft)
  BY DEF Compiled
<1>2. r.operation \in Operation /\ r.inputs \in Seq(STRING) /\ r.path \in Paths
  BY DEF Recipe
<1>3. Len(r.inputs) \in Nat
  BY <1>2, LenProperties
<1>4. p.inputs = [i \in 1..Len(r.inputs) |-> p.inputs[i]]
  BY DEF Compiled
<1>5. Len(p.inputs) = Len(r.inputs) /\ DOMAIN p.inputs = 1..Len(r.inputs)
  BY <1>3, <1>4
<1> HIDE DEF draft
<1>6. AssembledFrom(Assemble(r, p.inputs, p.backend, draft), r, p.inputs, p.backend, draft)
  BY Assembled
<1>7. AssembledFrom(p, r, p.inputs, p.backend, draft)
  BY <1>1, <1>6
<1>8. p.resources.budgets = r.budgets
  BY <1>7 DEF AssembledFrom, estimate_resources
<1>9. p.argv = Part(draft.argv, "output", p.temporary)
  BY <1>7, Zenon DEF AssembledFrom, Part
<1>10. /\ CompileRefusal(r.operation, p.inputs) = None
       /\ validate_recipe(r) /\ r.tolerance <= MaxTolerance
  BY DEF Compiled, validate_recipe
<1> QED
  BY <1>2, <1>3, <1>5, <1>7, <1>8, <1>9, <1>10 DEF draft

LEMMA TranscodeIsValid ==
  ASSUME NEW p, NEW r, r \in Recipe, Arity(r), Compiled(p, r), r.operation.type = "transcode"
  PROVE  p.operation.type = "transcode" /\ validate_transcode_plan(p)
<1> DEFINE input == p.inputs[1]
           video == Video(input)
           audio == Audio(input)
           op    == r.operation
           draft == CompileTranscode(op, p.inputs, r.tolerance)
<1>1. Compile(r.operation, p.inputs, r.tolerance) = draft
  BY DEF Compile
<1>2. /\ draft.operation = [type |-> "transcode"]
      /\ draft.selected = selected_streams(1, video, audio)
      /\ draft.expected = expected_web_output(input, video, Size(video), audio, r.tolerance)
      /\ draft.argv = transcode_argv(input.path, None, video.index, Index(audio), None)
  BY DEF CompileTranscode, CompileWeb
<1>3. /\ AssembledFrom(p, r, p.inputs, p.backend, draft)
      /\ p.argv = Part(draft.argv, "output", p.temporary)
      /\ p.resources.budgets = r.budgets /\ r.tolerance <= MaxTolerance
      /\ Len(p.inputs) = Len(r.inputs)
      /\ CompileRefusal(op, p.inputs) = None
  BY <1>1, CompiledParts
<1>4. single_input(p)
  BY <1>3 DEF Arity, single_input
<1>5. default_video(input) /\ stream_dimensions_for_plan(video)
  BY <1>3, CodeAssumption
     DEF CompileRefusal, NoSizedVideo, Commands, Codes, default_video, stream_dimensions_for_plan
<1> HIDE DEF draft
<1>6. p.expected = expected_web_output(input, video, Size(video), audio, p.expected.tolerance)
      /\ p.expected.tolerance = r.tolerance
  BY <1>2, <1>3 DEF AssembledFrom, expected_web_output
<1>7. validate_web_expectations(p, input, Size(video))
  BY <1>2, <1>3, <1>6 DEF AssembledFrom, validate_web_expectations, validate_expected_output
<1>8. p.argv = transcode_argv(input.path, p.temporary, video.index, Index(audio), None)
  BY <1>2, <1>3, TranscodeOutput
<1>9. p.operation.type = "transcode"
  BY <1>2, <1>3 DEF AssembledFrom
<1> QED
  BY <1>4, <1>5, <1>7, <1>8, <1>9 DEF validate_transcode_plan

LEMMA ResizeIsValid ==
  ASSUME NEW p, NEW r, r \in Recipe, Arity(r), Compiled(p, r), r.operation.type = "resize"
  PROVE  p.operation.type = "resize" /\ validate_resize_plan(p)
<1> DEFINE input     == p.inputs[1]
           video     == Video(input)
           audio     == Audio(input)
           op        == r.operation
           source    == Rotated(Size(video), op.rotation)
           requested == <<op.width, op.height>>
           output    == IF op.mode = "fit"
                        THEN fit_dimensions(source[1], source[2], op.width, op.height)
                        ELSE requested
           draft     == CompileResize(op, p.inputs, r.tolerance)
<1>1. Compile(r.operation, p.inputs, r.tolerance) = draft
  BY DEF Compile
<1>2. /\ draft.operation = [type |-> "resize", requested |-> requested, output |-> output,
                            mode |-> op.mode, rotation |-> op.rotation]
      /\ draft.selected = selected_streams(1, video, audio)
      /\ draft.expected = expected_web_output(input, video, output, audio, r.tolerance)
      /\ draft.argv = transcode_argv(input.path, None, video.index, Index(audio),
                                     resize_filter(requested, output, op.mode, op.rotation))
  BY DEF CompileResize, CompileWeb
<1>3. /\ AssembledFrom(p, r, p.inputs, p.backend, draft)
      /\ p.argv = Part(draft.argv, "output", p.temporary)
      /\ p.resources.budgets = r.budgets /\ r.tolerance <= MaxTolerance
      /\ Len(p.inputs) = Len(r.inputs)
      /\ CompileRefusal(op, p.inputs) = None /\ validate_recipe(r)
  BY <1>1, CompiledParts
<1>4. single_input(p)
  BY <1>3 DEF Arity, single_input
<1>5. default_video(input) /\ stream_dimensions_for_plan(video)
  BY <1>3, CodeAssumption
     DEF CompileRefusal, NoSizedVideo, Commands, Codes, default_video, stream_dimensions_for_plan
<1> HIDE DEF draft
<1>6. /\ p.operation.type = "resize" /\ p.operation.requested = requested
      /\ p.operation.output = output
      /\ p.operation.mode = op.mode /\ p.operation.rotation = op.rotation
      /\ p.operation.requested[1] = op.width /\ p.operation.requested[2] = op.height
  BY <1>2, <1>3 DEF AssembledFrom
<1> HIDE DEF output
<1>7. p.expected = expected_web_output(input, video, output, audio, p.expected.tolerance)
      /\ p.expected.tolerance = r.tolerance
  BY <1>2, <1>3 DEF AssembledFrom, expected_web_output
<1>8. validate_web_expectations(p, input, output)
  BY <1>2, <1>3, <1>7 DEF AssembledFrom, validate_web_expectations, validate_expected_output
<1>9. p.argv = transcode_argv(input.path, p.temporary, video.index, Index(audio),
                              resize_filter(requested, output, op.mode, op.rotation))
  BY <1>2, <1>3, TranscodeOutput
<1> QED
  BY <1>4, <1>5, <1>6, <1>8, <1>9 DEF validate_resize_plan, output, source

LEMMA ExtractIsValid ==
  ASSUME NEW p, NEW r, r \in Recipe, Arity(r), Compiled(p, r),
         r.operation.type = "extract_audio"
  PROVE  p.operation.type = "extract_audio" /\ validate_extract_audio_plan(p)
<1> DEFINE input == p.inputs[1]
           audio == Audio(input)
           op    == r.operation
           draft == CompileExtractAudio(op, p.inputs, r.tolerance)
<1>1. Compile(r.operation, p.inputs, r.tolerance) = draft
  BY DEF Compile
<1>2. /\ draft.operation = [type |-> "extract_audio"]
      /\ draft.selected = selected_audio_stream(audio)
      /\ draft.expected = ExpectedAudioOnly(input, audio, None, r.tolerance)
      /\ draft.argv = extract_audio_argv(input.path, None, audio.index)
  BY DEF CompileExtractAudio, CompileAudio
<1>3. /\ AssembledFrom(p, r, p.inputs, p.backend, draft)
      /\ p.argv = Part(draft.argv, "output", p.temporary)
      /\ p.resources.budgets = r.budgets /\ r.tolerance <= MaxTolerance
      /\ Len(p.inputs) = Len(r.inputs)
      /\ CompileRefusal(op, p.inputs) = None /\ validate_recipe(r)
  BY <1>1, CompiledParts
<1>4. single_input(p) /\ audio /= None
  BY <1>3, CodeAssumption DEF Arity, single_input, CompileRefusal, Commands, Codes
<1> HIDE DEF draft
<1>5. p.expected = ExpectedAudioOnly(input, audio, None, p.expected.tolerance)
      /\ p.expected.tolerance = r.tolerance
  BY <1>2, <1>3 DEF AssembledFrom, ExpectedAudioOnly
<1>6. p.argv = extract_audio_argv(input.path, p.temporary, audio.index)
  BY <1>2, <1>3, AudioOutput
<1>7. p.operation.type = "extract_audio"
  BY <1>2, <1>3 DEF AssembledFrom
<1> QED
  BY <1>2, <1>3, <1>4, <1>5, <1>6, <1>7
     DEF AssembledFrom, validate_extract_audio_plan, ValidAudio, validate_expected_output

LEMMA NormalizeIsValid ==
  ASSUME NEW p, NEW r, r \in Recipe, Arity(r), Compiled(p, r),
         r.operation.type = "normalize_audio"
  PROVE  p.operation.type = "normalize_audio" /\ validate_normalize_audio_plan(p)
<1> DEFINE input    == p.inputs[1]
           audio    == Audio(input)
           op       == r.operation
           target   == op.lufs * 100
           loudness == [target |-> target, tolerance |-> op.tolerance]
           draft    == CompileNormalizeAudio(op, p.inputs, r.tolerance)
<1>1. Compile(r.operation, p.inputs, r.tolerance) = draft
  BY DEF Compile
<1>2. /\ draft.operation = [type |-> "normalize_audio", target |-> target,
                            tolerance |-> op.tolerance]
      /\ draft.selected = selected_audio_stream(audio)
      /\ draft.expected = ExpectedAudioOnly(input, audio, loudness, r.tolerance)
      /\ draft.argv = normalize_audio_argv(input.path, None, audio.index, target)
  BY DEF CompileNormalizeAudio, NormalizeTo, CompileAudio
<1>3. /\ AssembledFrom(p, r, p.inputs, p.backend, draft)
      /\ p.argv = Part(draft.argv, "output", p.temporary)
      /\ p.resources.budgets = r.budgets /\ r.tolerance <= MaxTolerance
      /\ Len(p.inputs) = Len(r.inputs)
      /\ CompileRefusal(op, p.inputs) = None /\ validate_recipe(r)
  BY <1>1, CompiledParts
<1>4. single_input(p) /\ audio /= None
  BY <1>3, CodeAssumption DEF Arity, single_input, CompileRefusal, Commands, Codes
<1>5. target \in (-7000)..(-500) /\ op.tolerance \in 1..500
  <2>1. op.lufs \in (-70)..(-5) /\ op.tolerance \in 1..500
    BY <1>3 DEF validate_recipe
  <2>2. PICK lufs \in (-70)..(-5) : op.lufs = lufs
    BY <2>1
  <2>3. lufs * 100 \in (-7000)..(-500)
    OBVIOUS
  <2>4. target = lufs * 100
    BY <2>2
  <2> HIDE DEF target, op
  <2> QED
    BY <2>1, <2>3, <2>4
<1> HIDE DEF draft, target
<1>6. /\ p.operation.type = "normalize_audio" /\ p.operation.target = target
      /\ p.operation.tolerance = op.tolerance
  BY <1>2, <1>3 DEF AssembledFrom
<1> HIDE DEF loudness
<1>7. p.expected = ExpectedAudioOnly(input, audio, loudness, p.expected.tolerance)
      /\ p.expected.tolerance = r.tolerance
  BY <1>2, <1>3 DEF AssembledFrom, ExpectedAudioOnly
<1>8. p.argv = normalize_audio_argv(input.path, p.temporary, audio.index, target)
  BY <1>2, <1>3, NormalizeOutput
<1>9. ValidAudio(p, loudness, normalize_audio_argv(input.path, p.temporary, audio.index, target))
  BY <1>2, <1>3, <1>4, <1>7, <1>8 DEF AssembledFrom, ValidAudio, validate_expected_output
<1> QED
  BY <1>5, <1>6, <1>9 DEF validate_normalize_audio_plan, LoudnessAllowed, loudness

LEMMA ThumbnailIsValid ==
  ASSUME NEW p, NEW r, r \in Recipe, Arity(r), Compiled(p, r), r.operation.type = "thumbnail"
  PROVE  p.operation.type = "thumbnail" /\ validate_thumbnail_plan(p)
<1> DEFINE input == p.inputs[1]
           video == Video(input)
           op    == r.operation
           size  == <<op.width, AspectHeight(Size(video), op.width)>>
           draft == CompileThumbnail(op, p.inputs, r.tolerance)
<1>1. Compile(r.operation, p.inputs, r.tolerance) = draft
  BY DEF Compile
<1>2. /\ draft.operation = [type |-> "thumbnail", at |-> op.at, size |-> size]
      /\ draft.selected = selected_image_stream(video)
      /\ draft.expected = expected_jpeg(size)
      /\ draft.argv = thumbnail_argv(input.path, None, video.index, op.at, size)
  BY DEF CompileThumbnail, CompileImage
<1>3. /\ AssembledFrom(p, r, p.inputs, p.backend, draft)
      /\ p.argv = Part(draft.argv, "output", p.temporary)
      /\ p.resources.budgets = r.budgets /\ r.tolerance <= MaxTolerance
      /\ Len(p.inputs) = Len(r.inputs)
      /\ CompileRefusal(op, p.inputs) = None /\ validate_recipe(r)
  BY <1>1, CompiledParts
<1>4. single_input(p)
  BY <1>3 DEF Arity, single_input
<1>5. /\ default_video(input) /\ stream_dimensions_for_plan(video)
      /\ ~(input.duration /= None /\ op.at >= input.duration)
  BY <1>3, CodeAssumption
     DEF CompileRefusal, NoSizedVideo, Commands, Codes, default_video, stream_dimensions_for_plan
<1>6. input.duration = None \/ op.at < input.duration
  <2>1. op.at \in Nat
    BY CompiledParts, WidthAssumption DEF Operation, U64
  <2>2. input.duration /= None => input.duration \in Nat
    <3>1. 1 \in DOMAIN p.inputs
      BY <1>4, CompiledParts DEF single_input
    <3>2. Inspectable(p.inputs[1])
      BY <3>1 DEF Compiled
    <3> QED
      BY <3>2, InspectableTypes
  <2> QED
    BY <1>5, <2>1, <2>2
<1> HIDE DEF draft
<1>7. /\ p.operation.type = "thumbnail" /\ p.operation.at = op.at /\ p.operation.size = size
      /\ p.operation.size[1] = op.width
      /\ p.operation.size[2] = AspectHeight(Size(video), op.width)
  BY <1>2, <1>3 DEF AssembledFrom
<1> HIDE DEF size
<1>8. p.argv = thumbnail_argv(input.path, p.temporary, video.index, op.at, size)
  BY <1>2, <1>3, ThumbnailOutput
<1>9. validate_image_expectations(p, video, size)
  BY <1>2, <1>3, ThresholdAssumption
     DEF AssembledFrom, validate_image_expectations, validate_expected_output, expected_jpeg
<1> QED
  BY <1>4, <1>5, <1>6, <1>7, <1>8, <1>9 DEF validate_thumbnail_plan

LEMMA ContactSheetIsValid ==
  ASSUME NEW p, NEW r, r \in Recipe, Arity(r), Compiled(p, r),
         r.operation.type = "contact_sheet"
  PROVE  p.operation.type = "contact_sheet" /\ validate_contact_sheet_plan(p)
<1> DEFINE input == p.inputs[1]
           video == Video(input)
           op    == r.operation
           width == op.width \div op.columns
           cell  == <<width, AspectHeight(Size(video), width)>>
           size  == <<op.width, AtMost(cell[2] * op.rows, MaxU32)>>
           draft == CompileContactSheet(op, p.inputs, r.tolerance)
<1>1. Compile(r.operation, p.inputs, r.tolerance) = draft
  BY DEF Compile
<1>2. /\ draft.operation = [type |-> "contact_sheet", interval |-> op.interval,
                            columns |-> op.columns, rows |-> op.rows, size |-> size]
      /\ draft.selected = selected_image_stream(video)
      /\ draft.expected = expected_jpeg(size)
      /\ draft.argv = contact_sheet_argv(input.path, None, video.index, op.interval,
                                         op.columns, op.rows, cell)
  BY DEF CompileContactSheet, CompileImage
<1>3. /\ AssembledFrom(p, r, p.inputs, p.backend, draft)
      /\ p.argv = Part(draft.argv, "output", p.temporary)
      /\ p.resources.budgets = r.budgets /\ r.tolerance <= MaxTolerance
      /\ Len(p.inputs) = Len(r.inputs)
      /\ CompileRefusal(op, p.inputs) = None /\ validate_recipe(r)
  BY <1>1, CompiledParts
<1>4. single_input(p)
  BY <1>3 DEF Arity, single_input
<1>5. default_video(input) /\ stream_dimensions_for_plan(video)
  BY <1>3, CodeAssumption
     DEF CompileRefusal, NoSizedVideo, Commands, Codes, default_video, stream_dimensions_for_plan
<1>6. /\ op.interval >= MinInterval /\ op.columns > 0 /\ op.rows > 0
      /\ op.columns * op.rows <= MaxCells /\ op.width % op.columns = 0
  BY <1>3, ThresholdAssumption DEF validate_recipe
<1> HIDE DEF draft
<1>7. /\ p.operation.type = "contact_sheet" /\ p.operation.interval = op.interval
      /\ p.operation.columns = op.columns /\ p.operation.rows = op.rows
      /\ p.operation.size = size /\ p.operation.size[1] = op.width
      /\ p.operation.size[2] = AtMost(cell[2] * op.rows, MaxU32)
  BY <1>2, <1>3 DEF AssembledFrom
<1> HIDE DEF size, cell
<1>8. p.argv = contact_sheet_argv(input.path, p.temporary, video.index, op.interval,
                                  op.columns, op.rows, cell)
  BY <1>2, <1>3, ImageOutput DEF contact_sheet_argv
<1>9. validate_image_expectations(p, video, size)
  BY <1>2, <1>3, ThresholdAssumption
     DEF AssembledFrom, validate_image_expectations, validate_expected_output, expected_jpeg
<1> QED
  BY <1>4, <1>5, <1>6, <1>7, <1>8, <1>9 DEF validate_contact_sheet_plan, cell

LEMMA BurnIsValid ==
  ASSUME NEW p, NEW r, r \in Recipe, Arity(r), Compiled(p, r),
         r.operation.type = "burn_subtitles"
  PROVE  p.operation.type = "burn_subtitles" /\ validate_burn_subtitles_plan(p)
<1> DEFINE media    == p.inputs[1]
           video    == Video(media)
           audio    == Audio(media)
           subtitle == Subtitle(p.inputs[2])
           op       == r.operation
           web      == CompileWeb([type |-> "burn_subtitles"], p.inputs, Size(video),
                                  subtitles_filter(p.inputs[2].path), r.tolerance)
           selected == web.selected \o selected_subtitle_stream(subtitle)
           warnings == dropped_stream_warnings(1, media, selected)
                         \o dropped_stream_warnings(2, p.inputs[2], selected)
                         \o <<Warning("subtitles_burned")>>
           draft    == CompileBurnSubtitles(op, p.inputs, r.tolerance)
<1>1. Compile(r.operation, p.inputs, r.tolerance) = draft
  BY DEF Compile
<1>2. /\ web.operation = [type |-> "burn_subtitles"]
      /\ web.selected = selected_streams(1, video, audio)
      /\ web.expected = expected_web_output(media, video, Size(video), audio, r.tolerance)
      /\ web.argv = transcode_argv(media.path, None, video.index, Index(audio),
                                   subtitles_filter(p.inputs[2].path))
  BY DEF CompileWeb
<1>13. web = [operation |-> web.operation, selected |-> web.selected,
              expected |-> web.expected, warnings |-> web.warnings, argv |-> web.argv]
  BY DEF CompileWeb
<1>3. /\ AssembledFrom(p, r, p.inputs, p.backend, draft)
      /\ p.argv = Part(draft.argv, "output", p.temporary)
      /\ p.resources.budgets = r.budgets /\ r.tolerance <= MaxTolerance
      /\ Len(p.inputs) = Len(r.inputs)
      /\ CompileRefusal(op, p.inputs) = None /\ validate_recipe(r)
  BY <1>1, CompiledParts
<1>4. draft = Part(Part(web, "selected", selected), "warnings", warnings)
  BY Zenon DEF CompileBurnSubtitles, Part
<1> HIDE DEF draft, web, warnings
<1>5. /\ draft.operation = web.operation /\ draft.selected = selected
      /\ draft.expected = web.expected /\ draft.argv = web.argv
  <2> DEFINE chosen == Part(web, "selected", selected)
  <2>1. /\ chosen.operation = web.operation /\ chosen.selected = selected
        /\ chosen.expected = web.expected /\ chosen.argv = web.argv
        /\ DOMAIN chosen = {"operation", "selected", "expected", "warnings", "argv"}
    <3> HIDE DEF selected
    <3> QED
      BY <1>13 DEF Part
  <2> HIDE DEF chosen
  <2> QED
    BY <1>4, <2>1 DEF Part, chosen
<1>6. Len(p.inputs) = 2
  BY <1>3 DEF Arity
<1>7. default_video(media) /\ stream_dimensions_for_plan(video) /\ subtitle /= None
  BY <1>3, CodeAssumption
     DEF CompileRefusal, NoSizedVideo, Commands, Codes, default_video, stream_dimensions_for_plan
<1>8. p.expected = expected_web_output(media, video, Size(video), audio, p.expected.tolerance)
      /\ p.expected.tolerance = r.tolerance
  BY <1>2, <1>3, <1>5 DEF AssembledFrom, expected_web_output
<1>9. validate_expected_output(p, expected_web_output(media, video, Size(video), audio,
                                                      p.expected.tolerance))
  BY <1>2, <1>3, <1>5, <1>8 DEF AssembledFrom, validate_expected_output
<1>10. p.selected = selected_streams(1, video, audio) \o selected_subtitle_stream(subtitle)
  BY <1>2, <1>3, <1>5 DEF AssembledFrom
<1>11. p.argv = transcode_argv(media.path, p.temporary, video.index, Index(audio),
                               subtitles_filter(p.inputs[2].path))
  BY <1>2, <1>3, <1>5, TranscodeOutput
<1>12. p.operation.type = "burn_subtitles"
  BY <1>2, <1>3, <1>5 DEF AssembledFrom
<1> QED
  BY <1>6, <1>7, <1>9, <1>10, <1>11, <1>12, Zenon DEF validate_burn_subtitles_plan

LEMMA ConcatenateIsValid ==
  ASSUME NEW p, NEW r, r \in Recipe, Arity(r), Compiled(p, r),
         r.operation.type = "concatenate"
  PROVE  p.operation.type = "concatenate" /\ validate_concatenate_plan(p)
<1> DEFINE inputs == p.inputs
           first  == Video(inputs[1])
           op     == r.operation
           paths  == [i \in DOMAIN inputs |-> inputs[i].path]
           draft  == CompileConcatenate(op, p.inputs, r.tolerance)
<1>1. Compile(r.operation, p.inputs, r.tolerance) = draft
  BY DEF Compile
<1>2. /\ draft.operation = [type |-> "concatenate", count |-> Len(inputs),
                            duration |-> JoinedDuration(inputs)]
      /\ draft.selected = ConcatSelection(inputs)
      /\ draft.expected = ExpectedJoined(inputs, r.tolerance)
      /\ draft.argv = concatenate_argv(paths, None, Segments(inputs), HasAudio(inputs))
  BY DEF CompileConcatenate
<1>3. /\ AssembledFrom(p, r, p.inputs, p.backend, draft)
      /\ p.argv = Part(draft.argv, "output", p.temporary)
      /\ p.resources.budgets = r.budgets /\ r.tolerance <= MaxTolerance
      /\ Len(p.inputs) = Len(r.inputs)
      /\ CompileRefusal(op, p.inputs) = None /\ validate_recipe(r)
  BY <1>1, CompiledParts
<1>4. Len(inputs) \in 2..MaxSegments
  BY <1>3 DEF validate_recipe
<1>5. ~((\E i \in DOMAIN inputs : NoSizedVideo(inputs[i])) \/ Mismatched(inputs))
  BY <1>3, CodeAssumption DEF CompileRefusal, Commands, Codes
<1>6. /\ \A i \in DOMAIN inputs :
           /\ default_video(inputs[i]) /\ stream_dimensions_for_plan(Video(inputs[i]))
           /\ Size(Video(inputs[i])) = Size(first) /\ Video(inputs[i]).rate = first.rate
      /\ HasAudio(inputs) \/ \A i \in DOMAIN inputs : Audio(inputs[i]) = None
  BY <1>5, Zenon
     DEF NoSizedVideo, Mismatched, HasAudio, default_video, stream_dimensions_for_plan
<1> HIDE DEF draft, paths
<1>7. /\ p.operation.type = "concatenate" /\ p.operation.count = Len(inputs)
      /\ p.operation.duration = JoinedDuration(inputs)
  BY <1>2, <1>3 DEF AssembledFrom
<1>8. p.expected = ExpectedJoined(inputs, p.expected.tolerance)
      /\ p.expected.tolerance = r.tolerance
  BY <1>2, <1>3 DEF AssembledFrom, ExpectedJoined
<1>9. validate_expected_output(p, ExpectedJoined(inputs, p.expected.tolerance))
  BY <1>2, <1>3, <1>8 DEF AssembledFrom, validate_expected_output
<1>10. p.selected = ConcatSelection(inputs)
  BY <1>2, <1>3 DEF AssembledFrom
<1>11. p.argv = concatenate_argv(paths, p.temporary, Segments(inputs), HasAudio(inputs))
  BY <1>2, <1>3, ConcatenateOutput
<1> QED
  BY <1>4, <1>6, <1>7, <1>9, <1>10, <1>11, Zenon DEF validate_concatenate_plan, paths

\* An index names one stream of an input.
LEMMA StreamByIndex ==
  ASSUME NEW streams \in Seq(StreamSummary), IndicesDiffer(streams), NEW kind,
         NEW i \in OfKind(streams, kind), NEW input, input.streams = streams
  PROVE  input_stream(input, streams[i].index, kind) = streams[i]
<1> DEFINE named == {j \in OfKind(streams, kind) : streams[j].index = streams[i].index}
<1>1. named \in SUBSET DOMAIN streams /\ i \in named /\ named \subseteq {i}
  BY DEF OfKind, IndicesDiffer
<1>2. input_stream(input, streams[i].index, kind) = FirstAt(streams, named)
  BY DEF input_stream
<1> HIDE DEF named
<1>3. \E j \in named : FirstAt(streams, named) = streams[j]
  BY <1>1, FirstAtElement
<1> QED
  BY <1>1, <1>2, <1>3

LEMMA ChosenOne ==
  ASSUME NEW T, NEW seq \in Seq(T), NEW j \in DOMAIN seq
  PROVE  /\ Len(Chosen(seq, {j})) = 1 /\ Chosen(seq, {j})[1] = seq[j]
         /\ Chosen(seq, {j}) /= <<>>
<1>1. {j} \in SUBSET DOMAIN seq /\ {j} /= {}
  OBVIOUS
<1>2. Cardinality({j}) = 1
  BY FS_Singleton
<1>3. /\ Len(Chosen(seq, {j})) = Cardinality({j})
      /\ \A k \in 1..Cardinality({j}) :
           Chosen(seq, {j})[k] = seq[Nth({j}, k)] /\ Nth({j}, k) \in {j}
      /\ Chosen(seq, {j}) /= <<>>
  BY <1>1, ChosenElements
<1>4. Chosen(seq, {j})[1] = seq[Nth({j}, 1)] /\ Nth({j}, 1) = j
  <2>1. 1 \in 1..Cardinality({j})
    BY <1>2
  <2>2. Chosen(seq, {j})[1] = seq[Nth({j}, 1)] /\ Nth({j}, 1) \in {j}
    BY <1>3, <2>1, Zenon
  <2> QED
    BY <2>2
<1> QED
  BY <1>2, <1>3, <1>4

\* The streams of a kind among a video stream and an audio stream.
LEMMA SelectedKinds ==
  ASSUME NEW p, NEW video, NEW audio, video.kind = "video",
         audio /= None => audio.kind = "audio",
         p.selected = selected_streams(1, video, audio)
  PROVE  LET videos == selected_kind(p, "video")
             audios == selected_kind(p, "audio")
         IN  /\ Len(videos) = 1 /\ videos[1].index = video.index
             /\ audio = None => audios = <<>> /\ Len(audios) = 0 /\ Len(p.selected) = 1
             /\ audio /= None => /\ audios /= <<>> /\ Len(audios) = 1
                                 /\ audios[1].index = audio.index /\ Len(p.selected) = 2
             /\ \A i \in DOMAIN p.selected : p.selected[i].source = 1
<1> DEFINE v == Selected(1, video, "h264/libx264")
           a == Selected(1, audio, "aac")
           T == {v, a}
           V == OfKind(p.selected, "video")
           A == OfKind(p.selected, "audio")
<1>1. v.kind = "video" /\ v.source = 1 /\ v.index = video.index
  BY DEF Selected
<1>2. audio /= None => a.kind = "audio" /\ a.source = 1 /\ a.index = audio.index
  BY DEF Selected
<1> HIDE DEF v, a
<1>3. p.selected = IF audio = None THEN <<v>> ELSE <<v, a>>
  BY DEF selected_streams, v, a
<1>4. p.selected \in Seq(T)
  <2>1. <<v>> \in Seq(T) /\ <<v, a>> \in Seq(T)
    OBVIOUS
  <2> QED
    BY <1>3, <2>1
<1>5. V = {1} /\ (audio = None => A = {}) /\ (audio /= None => A = {2})
  BY <1>1, <1>2, <1>3 DEF OfKind
<1> HIDE DEF V, A, T
<1>6. /\ Len(Chosen(p.selected, V)) = 1 /\ Chosen(p.selected, V)[1] = v
  <2>1. 1 \in DOMAIN p.selected /\ p.selected[1] = v
    BY <1>3
  <2> QED
    BY <1>4, <1>5, <2>1, ChosenOne
<1>7. audio = None => Chosen(p.selected, A) = <<>>
  <2>1. {} \in SUBSET DOMAIN p.selected
    OBVIOUS
  <2>2. Chosen(p.selected, {}) = <<>>
    BY <1>4, <2>1, ChosenElements
  <2> QED
    BY <1>5, <2>2
<1>8. audio /= None => /\ Len(Chosen(p.selected, A)) = 1 /\ Chosen(p.selected, A)[1] = a
                       /\ Chosen(p.selected, A) /= <<>>
  <2> SUFFICES ASSUME audio /= None
               PROVE  /\ Len(Chosen(p.selected, A)) = 1 /\ Chosen(p.selected, A)[1] = a
                      /\ Chosen(p.selected, A) /= <<>>
    OBVIOUS
  <2>1. 2 \in DOMAIN p.selected /\ p.selected[2] = a
    BY <1>3
  <2> QED
    BY <1>4, <1>5, <2>1, ChosenOne
<1>11. \A i \in DOMAIN p.selected : p.selected[i].source = 1
  BY <1>1, <1>2, <1>3
<1> QED
  BY <1>1, <1>2, <1>3, <1>6, <1>7, <1>8, <1>11 DEF selected_kind, V, A

LEMMA ClipIsValid ==
  ASSUME NEW p, NEW r, r \in Recipe, Arity(r), Compiled(p, r), r.operation.type = "clip"
  PROVE  p.operation.type = "clip" /\ validate_clip_plan(p)
<1> DEFINE input    == p.inputs[1]
           V        == Video(input)
           A        == Audio(input)
           op       == r.operation
           duration == op.end - op.start
           web      == expected_web_output(input, V, Size(V), A, r.tolerance)
           draft    == CompileClip(op, p.inputs, r.tolerance)
<1>1. Compile(r.operation, p.inputs, r.tolerance) = draft
  BY DEF Compile
<1>2. /\ draft.operation = [type |-> "clip", start |-> op.start, end |-> op.end,
                            duration |-> duration]
      /\ draft.selected = selected_streams(1, V, A)
      /\ draft.expected = [web EXCEPT !.duration = duration]
      /\ draft.argv = clip_argv(input.path, None, op.start, duration, V.index, Index(A))
  BY DEF CompileClip, ClipOf
<1>3. /\ AssembledFrom(p, r, p.inputs, p.backend, draft)
      /\ p.argv = Part(draft.argv, "output", p.temporary)
      /\ p.resources.budgets = r.budgets
      /\ Len(p.inputs) = Len(r.inputs) /\ DOMAIN p.inputs = 1..Len(r.inputs)
      /\ CompileRefusal(op, p.inputs) = None /\ validate_recipe(r) /\ op \in Operation
  BY <1>1, CompiledParts
<1>4. single_input(p)
  BY <1>3 DEF Arity, single_input
<1>5. Inspectable(input)
  <2>1. 1 \in DOMAIN p.inputs
    BY <1>3, <1>4 DEF single_input
  <2> QED
    BY <2>1 DEF Compiled
<1>6. /\ input.duration /= None /\ ~(op.end > input.duration)
      /\ V /= None /\ stream_dimensions_for_plan(V)
  BY <1>3, CodeAssumption
     DEF CompileRefusal, NoSizedVideo, Commands, Codes, stream_dimensions_for_plan
<1>7. op.start < op.end /\ op.end <= input.duration
  <2>1. op.start \in Nat /\ op.end \in Nat
    BY <1>3, WidthAssumption DEF Operation, U64
  <2>2. input.duration \in Nat
    BY <1>5, <1>6, InspectableTypes
  <2>3. op.start < op.end
    BY <1>3 DEF validate_recipe
  <2> QED
    BY <1>6, <2>1, <2>2, <2>3
<1>8. /\ draft.expected.duration = duration /\ draft.expected.video = web.video
      /\ draft.expected.audio = web.audio
      /\ web.video = expected_video("h264", Size(V), V.rate)
      /\ web.audio = IF A = None THEN None ELSE ExpectedAac(A.channels, None)
  BY <1>2 DEF expected_web_output
<1> HIDE DEF draft, web
<1>9. /\ p.operation.type = "clip" /\ p.operation.start = op.start /\ p.operation.end = op.end
      /\ p.operation.duration = duration
      /\ p.selected = selected_streams(1, V, A)
      /\ p.expected.duration = duration
      /\ p.expected.video = expected_video("h264", Size(V), V.rate)
      /\ p.expected.audio = IF A = None THEN None ELSE ExpectedAac(A.channels, None)
      /\ p.checks = verification_checks_with_size(p.expected, p.resources.budgets.output)
  BY <1>2, <1>3, <1>8 DEF AssembledFrom
<1>10. p.argv = clip_argv(input.path, p.temporary, op.start, duration, V.index, Index(A))
  BY <1>2, <1>3, ClipOutput
<1> DEFINE videos == selected_kind(p, "video")
           audios == selected_kind(p, "audio")
           video  == input_stream(input, videos[1].index, "video")
           audio  == input_stream(input, audios[1].index, "audio")
           sound  == IF audios = <<>> THEN None ELSE audio
<1>11. input.streams \in Seq(StreamSummary) /\ IndicesDiffer(input.streams)
  BY <1>5, InspectableTypes
<1>12. /\ V.kind = "video" /\ (A /= None => A.kind = "audio")
  BY <1>6, <1>11, SelectionType
<1>13. /\ Len(videos) = 1 /\ videos[1].index = V.index
       /\ A = None => audios = <<>> /\ Len(audios) = 0 /\ Len(p.selected) = 1
       /\ A /= None => /\ audios /= <<>> /\ Len(audios) = 1
                       /\ audios[1].index = A.index /\ Len(p.selected) = 2
       /\ \A i \in DOMAIN p.selected : p.selected[i].source = 1
  BY <1>9, <1>12, SelectedKinds
<1>14. video = V
  <2>1. PICK i \in OfKind(input.streams, "video") : V = input.streams[i]
    BY <1>6, <1>11, SelectionFinds DEF Video
  <2> QED
    BY <1>11, <1>13, <2>1, StreamByIndex
<1>15. A /= None => audio = A
  <2> SUFFICES ASSUME A /= None PROVE audio = A
    OBVIOUS
  <2>1. PICK i \in OfKind(input.streams, "audio") : A = input.streams[i]
    BY <1>11, SelectionFinds DEF Audio
  <2> QED
    BY <1>11, <1>13, <2>1, StreamByIndex
<1> HIDE DEF videos, audios, video, audio
<1>16. sound = A /\ Len(audios) <= 1 /\ Len(p.selected) = Len(audios) + 1
       /\ (audios /= <<>> => audio /= None)
  <2>1. CASE A = None
    BY <1>13, <2>1
  <2>2. CASE A /= None
    <3>1. audios /= <<>> /\ Len(audios) = 1 /\ Len(p.selected) = 2
      BY <1>13, <2>2, Zenon
    <3>2. audio = A
      BY <1>15, <2>2, Zenon
    <3>3. sound = A
      BY <3>1, <3>2, Zenon
    <3>4. 1 <= 1 /\ 2 = 1 + 1
      OBVIOUS
    <3> QED
      BY <2>2, <3>1, <3>2, <3>3, <3>4, Zenon
  <2> QED
    BY <2>1, <2>2
<1> QED
  BY <1>4, <1>6, <1>7, <1>9, <1>10, <1>13, <1>14, <1>16, Zenon
     DEF validate_clip_plan, videos, audios, video, audio

-----------------------------------------------------------------------------
(* Joining short sequences.                                                *)

\* Joined(whole, parts, n): every element of the first n parts, of two
\* elements at most, is in the whole, not later than two places per part.
Joined(whole, parts, n) ==
  /\ Len(whole) \in 0..(2 * n)
  /\ \A j \in 1..n : \A k \in 1..Len(parts[j]) :
       \E at \in 1..Len(whole) : at <= 2 * (j - 1) + k /\ whole[at] = parts[j][k]

LEMMA JoinedStep ==
  ASSUME NEW T, NEW n \in Nat, NEW parts, NEW whole \in Seq(T), Joined(whole, parts, n),
         NEW last \in Seq(T), Len(last) <= 2, parts[n + 1] = last
  PROVE  Joined(whole \o last, parts, n + 1)
<1> DEFINE longer == whole \o last
<1>1. /\ Len(whole) \in Nat /\ Len(last) \in Nat /\ Len(longer) = Len(whole) + Len(last)
      /\ \A at \in 1..Len(whole) : longer[at] = whole[at]
      /\ \A k \in 1..Len(last) : longer[Len(whole) + k] = last[k]
  BY LenProperties
<1> HIDE DEF longer
<1>2. Len(whole) <= 2 * n
  BY DEF Joined
<1>3. Len(longer) \in 0..(2 * (n + 1))
  BY <1>1, <1>2
<1>4. ASSUME NEW j \in 1..(n + 1), NEW k \in 1..Len(parts[j])
      PROVE  \E at \in 1..Len(longer) : at <= 2 * (j - 1) + k /\ longer[at] = parts[j][k]
  <2>1. CASE j = n + 1
    <3>1. k \in 1..Len(last)
      BY <2>1
    <3>2. /\ Len(whole) + k \in 1..Len(longer) /\ Len(whole) + k <= 2 * (j - 1) + k
          /\ longer[Len(whole) + k] = last[k]
      BY <1>1, <1>2, <2>1, <3>1
    <3> QED
      BY <2>1, <3>2
  <2>2. CASE j \in 1..n
    <3>1. PICK at \in 1..Len(whole) : at <= 2 * (j - 1) + k /\ whole[at] = parts[j][k]
      BY <2>2 DEF Joined
    <3>2. at \in 1..Len(longer) /\ longer[at] = parts[j][k]
      BY <1>1, <3>1
    <3> QED
      BY <3>1, <3>2
  <2> QED
    BY <2>1, <2>2
<1> QED
  BY <1>3, <1>4 DEF Joined, longer

LEMMA Flattened ==
  ASSUME NEW T, NEW n \in Nat, NEW parts \in [1..n -> Seq(T)],
         \A j \in 1..n : Len(parts[j]) <= 2
  PROVE  FlattenSeq(parts) \in Seq(T) /\ Joined(FlattenSeq(parts), parts, n)
<1>1. Len(parts) = n
  OBVIOUS
<1>2. CASE n = 0
  <2>1. parts = <<>>
    BY <1>2
  <2>2. FlattenSeq(parts) = <<>>
    BY <1>1, <1>2, <2>1 DEF FlattenSeq
  <2> QED
    BY <1>2, <2>2 DEF Joined
<1>3. CASE n > 0
  <2> DEFINE step == [i \in Nat |-> [s \in Seq(T) |-> s \o (IF i \in 1..n THEN parts[i] ELSE <<>>)]]
             Join(f) == f = [i \in 1..n |-> IF i = 1 THEN parts[i] ELSE f[i - 1] \o parts[i]]
             flatten == CHOOSE f : Join(f)
  <2>1. step \in [Nat -> [Seq(T) -> Seq(T)]]
    <3>1. \A i \in Nat : \A s \in Seq(T) :
            s \o (IF i \in 1..n THEN parts[i] ELSE <<>>) \in Seq(T)
      <4>1. <<>> \in Seq(T)
        OBVIOUS
      <4> QED
        BY <4>1
    <3> QED
      BY <3>1
  <2>2. PICK f \in [0..n -> Seq(T)] : Iterates(f, <<>>, step, n)
    <3> HIDE DEF step
    <3>1. <<>> \in Seq(T)
      OBVIOUS
    <3> QED
      BY <2>1, <3>1, Recursion, Zenon
  <2>3. \E g : Join(g)
    <3> DEFINE g == [i \in 1..n |-> f[i]]
    <3>1. ASSUME NEW i \in 1..n
          PROVE  g[i] = IF i = 1 THEN parts[i] ELSE g[i - 1] \o parts[i]
      <4>1. f[i] = step[i][f[i - 1]] /\ f[i - 1] \in Seq(T) /\ i \in Nat
        <5>1. i - 1 \in 0..n /\ i \in Nat
          OBVIOUS
        <5> QED
          BY <2>2, <5>1 DEF Iterates
      <4>2. f[i] = f[i - 1] \o parts[i]
        BY <4>1
      <4>3. CASE i = 1
        <5>1. f[i - 1] = <<>>
          BY <2>2, <4>3, 1 - 1 = 0 DEF Iterates
        <5>2. <<>> \o parts[i] = parts[i]
          OBVIOUS
        <5> QED
          BY <4>2, <4>3, <5>1, <5>2
      <4>4. CASE i /= 1
        <5>1. i - 1 \in 1..n
          BY <4>4
        <5> QED
          BY <4>2, <4>4, <5>1
      <4> QED
        BY <4>3, <4>4
    <3>2. Join(g)
      BY <3>1
    <3> QED
      BY <3>2
  <2>4. Join(flatten)
    <3> HIDE DEF Join
    <3> QED
      BY <2>3
  <2> HIDE DEF step, flatten
  <2>5. FlattenSeq(parts) = flatten[n]
    BY <1>1, <1>3 DEF FlattenSeq, flatten
  <2> DEFINE S == {i \in Nat : i + 1 <= n => /\ flatten[i + 1] \in Seq(T)
                                            /\ Joined(flatten[i + 1], parts, i + 1)}
  <2>6. 0 \in S
    <3>1. flatten[1] = parts[1] /\ parts[1] \in Seq(T) /\ Len(parts[1]) <= 2
      BY <1>3, <2>4
    <3>2. <<>> \in Seq(T) /\ <<>> \o parts[1] = parts[1]
      BY <3>1
    <3>3. Joined(<<>>, parts, 0)
      BY DEF Joined
    <3>4. Joined(<<>> \o parts[1], parts, 0 + 1)
      <4>1. 0 \in Nat /\ parts[0 + 1] = parts[1]
        OBVIOUS
      <4> QED
        BY <3>1, <3>2, <3>3, <4>1, JoinedStep, Zenon
    <3> QED
      BY <3>1, <3>2, <3>4
  <2>7. ASSUME NEW i \in Nat, i \in S PROVE i + 1 \in S
    <3> SUFFICES ASSUME (i + 1) + 1 <= n
                 PROVE  /\ flatten[(i + 1) + 1] \in Seq(T)
                        /\ Joined(flatten[(i + 1) + 1], parts, (i + 1) + 1)
      OBVIOUS
    <3>1. flatten[i + 1] \in Seq(T) /\ Joined(flatten[i + 1], parts, i + 1)
      BY <2>7
    <3>2. parts[(i + 1) + 1] \in Seq(T) /\ Len(parts[(i + 1) + 1]) <= 2
      OBVIOUS
    <3>3. flatten[(i + 1) + 1] = flatten[i + 1] \o parts[(i + 1) + 1]
      <4>1. (i + 1) + 1 \in 1..n /\ (i + 1) + 1 /= 1 /\ ((i + 1) + 1) - 1 = i + 1
        OBVIOUS
      <4>2. \A k \in 1..n : flatten[k] = IF k = 1 THEN parts[k] ELSE flatten[k - 1] \o parts[k]
        BY <2>4
      <4> QED
        BY <4>1, <4>2, Zenon
    <3>4. i + 1 \in Nat
      OBVIOUS
    <3>5. Joined(flatten[i + 1] \o parts[(i + 1) + 1], parts, (i + 1) + 1)
      BY <3>1, <3>2, <3>4, JoinedStep
    <3> QED
      BY <3>1, <3>2, <3>3, <3>5
  <2>8. Nat \subseteq S
    <3> HIDE DEF S
    <3> QED
      BY <2>6, <2>7, Induction
  <2>9. n - 1 \in S /\ (n - 1) + 1 = n
    <3>1. n - 1 \in Nat /\ (n - 1) + 1 = n
      BY <1>3
    <3> HIDE DEF S
    <3> QED
      BY <2>8, <3>1
  <2> QED
    BY <2>5, <2>9
<1> QED
  BY <1>2, <1>3

-----------------------------------------------------------------------------
(* Warnings.                                                               *)

WarningRecord ==
  [code: {"lossy_encoding", "streams_dropped", "metadata_removed", "subtitles_burned"},
   source: Nat \union {None}, streams: Seq(U32)]

\* The streams of an input that a selection leaves out, and their indices.
Dropped(streams, selected, i) ==
  Chosen(streams, {k \in DOMAIN streams :
                     \A j \in DOMAIN selected : \/ selected[j].source /= i
                                                \/ selected[j].index /= streams[k].index})
Indices(streams) == [k \in DOMAIN streams |-> streams[k].index]

\* Every input's dropped streams have a warning that the bounded list has room for.
DropsNamed(warnings, inputs, selected) ==
  \A i \in DOMAIN inputs :
    Dropped(inputs[i].streams, selected, i) /= <<>> =>
      \E at \in 1..Len(warnings) :
        /\ at + 1 <= MaxWarnings
        /\ warnings[at].source = i
        /\ warnings[at].streams = Indices(Dropped(inputs[i].streams, selected, i))

LEMMA CutType ==
  ASSUME NEW T, NEW seq \in Seq(T), NEW n \in Nat
  PROVE  /\ Cut(seq, n) \in Seq(T) /\ Len(Cut(seq, n)) = AtMost(Len(seq), n)
         /\ Len(Cut(seq, n)) <= n /\ Len(Cut(seq, n)) <= Len(seq)
         /\ \A i \in 1..Len(Cut(seq, n)) : Cut(seq, n)[i] = seq[i]
<1>1. Len(seq) \in Nat
  BY LenProperties
<1>2. AtMost(Len(seq), n) \in 0..Len(seq) /\ AtMost(Len(seq), n) <= n
  BY <1>1 DEF AtMost
<1> QED
  BY <1>1, <1>2 DEF Cut

LEMMA DroppedIndices ==
  ASSUME NEW streams \in Seq(StreamSummary), NEW selected, NEW i
  PROVE  Dropped(streams, selected, i) \in Seq(StreamSummary)
         /\ Indices(Dropped(streams, selected, i)) \in Seq(U32)
<1> DEFINE S == {k \in DOMAIN streams :
                   \A j \in DOMAIN selected : \/ selected[j].source /= i
                                              \/ selected[j].index /= streams[k].index}
           dropped == Dropped(streams, selected, i)
<1>1. S \in SUBSET DOMAIN streams /\ dropped = Chosen(streams, S)
  BY DEF Dropped
<1> HIDE DEF S, dropped
<1>2. dropped \in Seq(StreamSummary)
  BY <1>1, ChosenElements
<1>3. DOMAIN dropped = 1..Len(dropped) /\ Len(dropped) \in Nat
  BY <1>2, LenProperties
<1>5. \A k \in 1..Len(dropped) : dropped[k] \in StreamSummary
  BY <1>2, ElementOfSeq
<1>6. \A k \in 1..Len(dropped) : dropped[k].index \in U32
  BY <1>5 DEF StreamSummary
<1>4. Indices(dropped) \in Seq(U32)
  BY <1>3, <1>6 DEF Indices
<1> QED
  BY <1>2, <1>4 DEF dropped

LEMMA DroppedWarnings ==
  ASSUME NEW source \in Nat, NEW input, input.streams \in Seq(StreamSummary), NEW selected
  PROVE  LET warnings == dropped_stream_warnings(source, input, selected)
             dropped  == Dropped(input.streams, selected, source)
         IN  /\ warnings \in Seq(WarningRecord) /\ Len(warnings) \in 1..2
             /\ dropped /= <<>> => /\ warnings[1].source = source
                                   /\ warnings[1].streams = Indices(dropped)
<1> DEFINE taken   == {selected[i].index : i \in {j \in DOMAIN selected :
                                                    selected[j].source = source}}
           dropped == Dropped(input.streams, selected, source)
           named   == [code |-> "streams_dropped", source |-> source,
                       streams |-> Indices(dropped)]
           metadata == Warning("metadata_removed")
<1>1. {i \in DOMAIN input.streams : input.streams[i].index \notin taken}
        = {k \in DOMAIN input.streams :
             \A j \in DOMAIN selected : \/ selected[j].source /= source
                                        \/ selected[j].index /= input.streams[k].index}
  OBVIOUS
<1>2. dropped_stream_warnings(source, input, selected)
        = (IF dropped = <<>> THEN <<>> ELSE <<named>>) \o <<metadata>>
  BY <1>1, Zenon DEF dropped_stream_warnings, Dropped, Indices
<1>3. Indices(dropped) \in Seq(U32)
  BY DroppedIndices
<1>4. metadata \in WarningRecord
  BY DEF Warning, WarningRecord
<1> HIDE DEF dropped
<1>5. named \in WarningRecord /\ named.source = source /\ named.streams = Indices(dropped)
  BY <1>3 DEF WarningRecord
<1> HIDE DEF named, metadata
<1>6. CASE dropped = <<>>
  BY <1>2, <1>4, <1>6 DEF dropped
<1>7. CASE dropped /= <<>>
  BY <1>2, <1>4, <1>5, <1>7 DEF dropped
<1> QED
  BY <1>6, <1>7

LEMMA Bounded ==
  ASSUME NEW warnings \in Seq(WarningRecord)
  PROVE  LET bounded == BoundedWarnings(warnings)
         IN  /\ bounded \in Seq(WarningRecord) /\ Len(bounded) <= MaxWarnings
             /\ \A i \in DOMAIN bounded : Len(bounded[i].streams) <= MaxNamed
             /\ \A at \in 1..Len(warnings) : at + 1 <= MaxWarnings =>
                  /\ at + 1 \in DOMAIN bounded
                  /\ bounded[at + 1].source = warnings[at].source
                  /\ bounded[at + 1].streams = Cut(warnings[at].streams, MaxNamed)
<1> DEFINE lossy == Warning("lossy_encoding")
           all   == <<lossy>> \o warnings
           short == [i \in DOMAIN all |-> [all[i] EXCEPT !.streams = Cut(@, MaxNamed)]]
<1>1. MaxWarnings \in Nat /\ MaxNamed \in Nat
  BY ThresholdAssumption
<1>2. lossy \in WarningRecord
  BY DEF Warning, WarningRecord
<1> HIDE DEF lossy
<1>3. /\ all \in Seq(WarningRecord) /\ Len(all) = Len(warnings) + 1 /\ Len(warnings) \in Nat
      /\ \A at \in 1..Len(warnings) : all[at + 1] = warnings[at]
  BY <1>2, LenProperties
<1> HIDE DEF all
<1>4. ASSUME NEW w \in WarningRecord
      PROVE  LET cut == [w EXCEPT !.streams = Cut(@, MaxNamed)]
             IN  /\ cut \in WarningRecord /\ Len(cut.streams) <= MaxNamed
                 /\ cut.source = w.source /\ cut.streams = Cut(w.streams, MaxNamed)
  <2>1. w.streams \in Seq(U32)
    BY DEF WarningRecord
  <2>2. Cut(w.streams, MaxNamed) \in Seq(U32) /\ Len(Cut(w.streams, MaxNamed)) <= MaxNamed
    BY <1>1, <2>1, CutType
  <2> QED
    BY <2>2 DEF WarningRecord
<1>5. /\ DOMAIN all = 1..Len(all) /\ Len(all) \in Nat
      /\ \A i \in DOMAIN all : all[i] \in WarningRecord
  BY <1>3, LenProperties, ElementOfSeq
<1>6. \A i \in DOMAIN all : /\ short[i] \in WarningRecord /\ Len(short[i].streams) <= MaxNamed
                            /\ short[i].source = all[i].source
                            /\ short[i].streams = Cut(all[i].streams, MaxNamed)
  BY <1>4, <1>5
<1>7. short \in Seq(WarningRecord) /\ Len(short) = Len(all)
  <2>1. DOMAIN short = 1..Len(all)
    BY <1>5
  <2>2. short = [i \in 1..Len(all) |-> short[i]]
    BY <1>5
  <2>3. \A i \in 1..Len(all) : short[i] \in WarningRecord
    BY <1>5, <1>6
  <2> HIDE DEF short
  <2>4. short \in [1..Len(all) -> WarningRecord]
    BY <2>2, <2>3
  <2> QED
    BY <1>5, <2>1, <2>4
<1>8. BoundedWarnings(warnings) = Cut(short, MaxWarnings)
  BY Zenon DEF BoundedWarnings, short, all, lossy
<1> HIDE DEF short
<1> DEFINE bounded == Cut(short, MaxWarnings)
<1>9. /\ bounded \in Seq(WarningRecord) /\ Len(bounded) = AtMost(Len(short), MaxWarnings)
      /\ Len(bounded) <= MaxWarnings /\ Len(bounded) <= Len(short)
      /\ \A i \in 1..Len(bounded) : bounded[i] = short[i]
  BY <1>1, <1>7, CutType
<1> HIDE DEF bounded
<1>10. DOMAIN bounded = 1..Len(bounded) /\ Len(bounded) \in Nat
  BY <1>9, LenProperties
<1>11. \A i \in DOMAIN bounded : Len(bounded[i].streams) <= MaxNamed
  BY <1>5, <1>6, <1>7, <1>9, <1>10
<1>12. ASSUME NEW at \in 1..Len(warnings), at + 1 <= MaxWarnings
       PROVE  /\ at + 1 \in DOMAIN bounded
              /\ bounded[at + 1].source = warnings[at].source
              /\ bounded[at + 1].streams = Cut(warnings[at].streams, MaxNamed)
  <2>1. at + 1 \in 1..Len(bounded) /\ at + 1 \in DOMAIN all
    BY <1>1, <1>3, <1>5, <1>7, <1>9, <1>12 DEF AtMost
  <2>2. bounded[at + 1] = short[at + 1] /\ all[at + 1] = warnings[at]
    BY <1>3, <1>9, <2>1
  <2> QED
    BY <1>6, <1>10, <2>1, <2>2
<1> QED
  BY <1>8, <1>9, <1>11, <1>12 DEF bounded

-----------------------------------------------------------------------------
(* Drafts.                                                                 *)

LEMMA Thresholds ==
  /\ MaxSegments \in Nat /\ MaxSegments >= 2 /\ MaxNamed \in Nat
  /\ MaxWarnings \in Nat /\ MaxWarnings >= 4 /\ 2 * MaxSegments <= MaxWarnings
<1>1. MaxSegments \in Nat /\ MaxWarnings \in Nat /\ MaxNamed \in Nat
  BY ThresholdAssumption
<1> QED
  BY <1>1, ThresholdAssumption

LEMMA EvenFloorType ==
  ASSUME NEW v \in Nat
  PROVE  even_floor(v) \in Nat
BY WidthAssumption DEF even_floor, AtLeast

LEMMA FitType ==
  ASSUME NEW sw \in Nat, NEW sh \in Nat, NEW tw \in Nat, NEW th \in Nat,
         ~FitPanics(sw, sh, tw, th)
  PROVE  LET frame == fit_dimensions(sw, sh, tw, th)
         IN  frame[1] \in Nat /\ frame[2] \in Nat
<1>1. sw * th \in Nat /\ tw * sh \in Nat /\ sh * tw \in Nat
  BY Z3
<1>2. CASE sw * th > tw * sh
  <2>1. (sh * tw) \div sw \in Nat
    BY <1>1, <1>2, DivisionBounds DEF FitPanics
  <2>2. fit_dimensions(sw, sh, tw, th) = <<tw, even_floor((sh * tw) \div sw)>>
    BY <1>2, Zenon DEF fit_dimensions
  <2> QED
    BY <2>1, <2>2, EvenFloorType
<1>3. CASE ~(sw * th > tw * sh)
  <2>1. (sw * th) \div sh \in Nat
    BY <1>1, <1>3, DivisionBounds DEF FitPanics
  <2>2. fit_dimensions(sw, sh, tw, th) = <<even_floor((sw * th) \div sh), th>>
    BY <1>3, Zenon DEF fit_dimensions
  <2> QED
    BY <2>1, <2>2, EvenFloorType
<1> QED
  BY <1>2, <1>3

LEMMA AspectType ==
  ASSUME NEW w \in Nat, w /= 0, NEW h \in Nat, NEW width \in Nat
  PROVE  AspectHeight(<<w, h>>, width) \in Nat
<1>1. h * width \in Nat
  BY Z3
<1>2. (h * width) \div w \in Nat
  BY <1>1, DivisionBounds
<1> QED
  BY <1>2, EvenFloorType DEF AspectHeight

LEMMA SizedVideo ==
  ASSUME NEW input, input.streams \in Seq(StreamSummary), ~NoSizedVideo(input)
  PROVE  LET video == Video(input)
             size  == Size(video)
         IN  /\ video \in StreamSummary /\ video.kind = "video"
             /\ size = <<video.width, video.height>>
             /\ size[1] \in Nat /\ size[1] <= MaxU32 /\ size[2] \in Nat /\ size[2] <= MaxU32
             /\ video.rate \in Optional(STRING)
<1> DEFINE video == Video(input)
<1>1. video \in StreamSummary /\ video.kind = "video"
  BY SelectionType DEF NoSizedVideo
<1>2. video.width /= None /\ video.height /= None
  BY DEF NoSizedVideo, Size
<1>3. video.width \in U32 /\ video.height \in U32
  BY <1>1, <1>2 DEF StreamSummary, Optional
<1>5. video.rate \in Optional(STRING)
  BY <1>1 DEF StreamSummary
<1> HIDE DEF video
<1>4. Size(video) = <<video.width, video.height>>
  BY <1>2 DEF Size
<1> QED
  BY <1>1, <1>3, <1>4, <1>5, WidthAssumption DEF U32, video

\* What a recipe of a type may expect: numbers for the duration and the size,
\* and a video stream unless the recipe asks for sound alone.
SoundAlone == {"extract_audio", "normalize_audio"}

ExpectedFits(e, type) ==
  /\ e.duration /= None => e.duration \in Nat
  /\ IF type \in SoundAlone THEN e.video = None ELSE e.video \in ExpectedVideo

LEMMA VideoExpected ==
  ASSUME NEW size, size[1] \in Nat, size[2] \in Nat, NEW rate \in Optional(STRING),
         NEW codec \in {"h264", "mjpeg"}
  PROVE  expected_video(codec, size, rate) \in ExpectedVideo
BY DEF expected_video, ExpectedVideo

DraftFits(draft, inputs, type) ==
  /\ ExpectedFits(draft.expected, type)
  /\ draft.warnings \in Seq(WarningRecord)
  /\ DropsNamed(draft.warnings, inputs, draft.selected)

\* What the recipes of one input warn about.
LEMMA SingleWarnings ==
  ASSUME NEW inputs, DOMAIN inputs = 1..1, inputs[1].streams \in Seq(StreamSummary),
         NEW selected
  PROVE  LET warnings == dropped_stream_warnings(1, inputs[1], selected)
         IN  warnings \in Seq(WarningRecord) /\ DropsNamed(warnings, inputs, selected)
<1> DEFINE warnings == dropped_stream_warnings(1, inputs[1], selected)
           dropped  == Dropped(inputs[1].streams, selected, 1)
<1>1. /\ warnings \in Seq(WarningRecord) /\ Len(warnings) \in 1..2
      /\ dropped /= <<>> => /\ warnings[1].source = 1
                            /\ warnings[1].streams = Indices(dropped)
  BY DroppedWarnings
<1> HIDE DEF warnings
<1>2. 1 \in 1..Len(warnings) /\ 1 + 1 <= MaxWarnings
  <2>1. \A n \in 1..2 : 1 \in 1..n
    OBVIOUS
  <2>2. 1 + 1 <= MaxWarnings
    BY Thresholds
  <2> QED
    BY <1>1, <2>1, <2>2
<1>3. ASSUME NEW i \in DOMAIN inputs, Dropped(inputs[i].streams, selected, i) /= <<>>
      PROVE  \E at \in 1..Len(warnings) :
               /\ at + 1 <= MaxWarnings
               /\ warnings[at].source = i
               /\ warnings[at].streams = Indices(Dropped(inputs[i].streams, selected, i))
  <2>1. i = 1
    OBVIOUS
  <2> QED
    BY <1>1, <1>2, <1>3, <2>1
<1> QED
  BY <1>1, <1>3 DEF DropsNamed, warnings

\* What is known of the inputs of a compiled plan.
LEMMA CompiledInputs ==
  ASSUME NEW p, NEW r, r \in Recipe, Arity(r), Compiled(p, r)
  PROVE  /\ DOMAIN p.inputs = 1..Len(r.inputs) /\ Len(r.inputs) \in Nat
         /\ Len(p.inputs) = Len(r.inputs)
         /\ \A i \in DOMAIN p.inputs :
              /\ p.inputs[i].streams \in Seq(StreamSummary) /\ p.inputs[i].bytes \in Nat
              /\ p.inputs[i].duration /= None => p.inputs[i].duration \in Nat
              /\ p.inputs[i].path.id = <<>> /\ p.inputs[i].probe /= ""
         /\ r.operation.type \notin {"concatenate", "burn_subtitles"} =>
              Len(r.inputs) = 1 /\ DOMAIN p.inputs = 1..1
         /\ 1 \in DOMAIN p.inputs
<1>1. /\ DOMAIN p.inputs = 1..Len(r.inputs) /\ Len(r.inputs) \in Nat
      /\ Len(p.inputs) = Len(r.inputs) /\ validate_recipe(r)
  BY CompiledParts
<1>2. \A i \in DOMAIN p.inputs : Inspectable(p.inputs[i])
  BY DEF Compiled
<1>3. \A i \in DOMAIN p.inputs :
        /\ p.inputs[i].streams \in Seq(StreamSummary) /\ p.inputs[i].bytes \in Nat
        /\ p.inputs[i].duration /= None => p.inputs[i].duration \in Nat
        /\ p.inputs[i].path.id = <<>> /\ p.inputs[i].probe /= ""
  BY <1>2, InspectableTypes
<1>4. r.operation.type \notin {"concatenate", "burn_subtitles"} => Len(r.inputs) = 1
  BY DEF Arity
<1>5. Len(r.inputs) >= 1
  <2>1. r.operation.type = "concatenate" => Len(r.inputs) \in 2..MaxSegments
    BY <1>1 DEF validate_recipe
  <2>2. r.operation.type = "burn_subtitles" => Len(r.inputs) = 2
    BY DEF Arity
  <2>3. CASE r.operation.type = "concatenate"
    <3>1. \A n \in 2..MaxSegments : n >= 1
      BY Thresholds
    <3> QED
      BY <2>1, <2>3, <3>1
  <2> QED
    BY <1>4, <2>2, <2>3
<1>6. r.operation.type \notin {"concatenate", "burn_subtitles"} => DOMAIN p.inputs = 1..1
  BY <1>1, <1>4
<1>7. 1 \in DOMAIN p.inputs
  BY <1>1, <1>5
<1> QED
  BY <1>1, <1>3, <1>4, <1>6, <1>7, Zenon

\* Operations that keep the frame of their one input, or replace it by a
\* requested one.
LEMMA WebDraftFits ==
  ASSUME NEW p, NEW r, r \in Recipe, Arity(r), Compiled(p, r),
         r.operation.type \in {"clip", "transcode", "resize"}
  PROVE  DraftFits(Compile(r.operation, p.inputs, r.tolerance), p.inputs, r.operation.type)
<1> DEFINE input == p.inputs[1]
           video == Video(input)
           op    == r.operation
           draft == Compile(op, p.inputs, r.tolerance)
           selected == selected_streams(1, video, Audio(input))
<1>1. /\ DOMAIN p.inputs = 1..1 /\ input.streams \in Seq(StreamSummary)
      /\ input.duration /= None => input.duration \in Nat
  <2>1. DOMAIN p.inputs = 1..1 /\ 1 \in DOMAIN p.inputs
    BY CompiledInputs
  <2> QED
    BY <2>1, CompiledInputs
<1>2. CompileRefusal(op, p.inputs) = None /\ op \in Operation /\ validate_recipe(r)
  BY CompiledParts
<1>3. ~NoSizedVideo(input)
  BY <1>2, CodeAssumption DEF CompileRefusal, Commands, Codes
<1>4. /\ Size(video)[1] \in Nat /\ Size(video)[2] \in Nat
      /\ video.rate \in Optional(STRING)
  BY <1>1, <1>3, SizedVideo
<1>5. /\ draft.warnings = dropped_stream_warnings(1, input, selected)
      /\ draft.selected = selected
  BY DEF Compile, CompileClip, ClipOf, CompileTranscode, CompileResize, CompileWeb
<1>6. draft.warnings \in Seq(WarningRecord) /\ DropsNamed(draft.warnings, p.inputs, draft.selected)
  BY <1>1, <1>5, SingleWarnings
<1>7. ASSUME NEW size, size[1] \in Nat, size[2] \in Nat
      PROVE  ExpectedFits(expected_web_output(input, video, size, Audio(input), r.tolerance),
                          op.type)
  <2>1. expected_video("h264", size, video.rate) \in ExpectedVideo
    BY <1>4, <1>7, VideoExpected
  <2> QED
    BY <1>1, <2>1 DEF ExpectedFits, SoundAlone, expected_web_output
<1>8. CASE op.type = "clip"
  <2> DEFINE web == expected_web_output(input, video, Size(video), Audio(input), r.tolerance)
  <2>1. draft.expected = [web EXCEPT !.duration = op.end - op.start]
    BY <1>8 DEF Compile, CompileClip, ClipOf
  <2>2. op.start \in Nat /\ op.end \in Nat /\ op.start < op.end
    BY <1>2, <1>8, WidthAssumption DEF Operation, U64, validate_recipe
  <2>3. op.end - op.start \in Nat
    BY <2>2
  <2>4. ExpectedFits(web, op.type)
    BY <1>4, <1>7
  <2>5. draft.expected.duration \in Nat /\ draft.expected.video = web.video
    BY <2>1, <2>3 DEF expected_web_output
  <2> HIDE DEF draft, web
  <2> QED
    BY <1>6, <1>8, <2>4, <2>5 DEF DraftFits, ExpectedFits, SoundAlone, draft
<1>9. CASE op.type = "transcode"
  <2>1. draft.expected = expected_web_output(input, video, Size(video), Audio(input), r.tolerance)
    BY <1>9 DEF Compile, CompileTranscode, CompileWeb
  <2> HIDE DEF draft
  <2> QED
    BY <1>4, <1>6, <1>7, <2>1 DEF DraftFits, draft
<1>10. CASE op.type = "resize"
  <2> DEFINE source == Rotated(Size(video), op.rotation)
             size   == IF op.mode = "fit"
                       THEN fit_dimensions(source[1], source[2], op.width, op.height)
                       ELSE <<op.width, op.height>>
  <2>1. draft.expected = expected_web_output(input, video, size, Audio(input), r.tolerance)
    BY <1>10 DEF Compile, CompileResize, CompileWeb
  <2>2. op.width \in Nat /\ op.height \in Nat
    BY <1>2, <1>10, WidthAssumption DEF Operation, U32
  <2>3. source[1] \in Nat /\ source[2] \in Nat
    BY <1>4 DEF Rotated
  <2>4. op.mode = "fit" => ~FitPanics(source[1], source[2], op.width, op.height)
    BY <1>2, <1>3, <1>10, CodeAssumption DEF CompileRefusal, Commands, Codes
  <2> HIDE DEF source
  <2>5. size[1] \in Nat /\ size[2] \in Nat
    BY <2>2, <2>3, <2>4, FitType
  <2> HIDE DEF draft, size
  <2> QED
    BY <1>6, <1>7, <2>1, <2>5 DEF DraftFits, draft
<1> QED
  BY <1>8, <1>9, <1>10

LEMMA AudioDraftFits ==
  ASSUME NEW p, NEW r, r \in Recipe, Arity(r), Compiled(p, r),
         r.operation.type \in {"extract_audio", "normalize_audio"}
  PROVE  DraftFits(Compile(r.operation, p.inputs, r.tolerance), p.inputs, r.operation.type)
<1> DEFINE input == p.inputs[1]
           draft == Compile(r.operation, p.inputs, r.tolerance)
           selected == selected_audio_stream(Audio(input))
<1>1. /\ DOMAIN p.inputs = 1..1 /\ input.streams \in Seq(StreamSummary)
      /\ input.duration /= None => input.duration \in Nat
  <2>1. DOMAIN p.inputs = 1..1 /\ 1 \in DOMAIN p.inputs
    BY CompiledInputs
  <2> QED
    BY <2>1, CompiledInputs
<1>2. /\ draft.warnings = dropped_stream_warnings(1, input, selected)
      /\ draft.selected = selected
      /\ draft.expected.duration = input.duration /\ draft.expected.video = None
  BY DEF Compile, CompileExtractAudio, CompileNormalizeAudio, NormalizeTo, CompileAudio, ExpectedAudioOnly
<1> HIDE DEF draft
<1>3. draft.warnings \in Seq(WarningRecord) /\ DropsNamed(draft.warnings, p.inputs, draft.selected)
  BY <1>1, <1>2, SingleWarnings
<1> QED
  BY <1>1, <1>2, <1>3 DEF DraftFits, ExpectedFits, SoundAlone, draft

LEMMA ImageDraftFits ==
  ASSUME NEW p, NEW r, r \in Recipe, Arity(r), Compiled(p, r),
         r.operation.type \in {"thumbnail", "contact_sheet"}
  PROVE  DraftFits(Compile(r.operation, p.inputs, r.tolerance), p.inputs, r.operation.type)
<1> DEFINE input == p.inputs[1]
           video == Video(input)
           op    == r.operation
           draft == Compile(op, p.inputs, r.tolerance)
           selected == selected_image_stream(video)
           width == op.width \div op.columns
           cell  == AspectHeight(Size(video), width)
           size  == <<op.width, IF op.type = "thumbnail" THEN AspectHeight(Size(video), op.width)
                                ELSE AtMost(cell * op.rows, MaxU32)>>
<1>1. DOMAIN p.inputs = 1..1 /\ input.streams \in Seq(StreamSummary)
  <2>1. DOMAIN p.inputs = 1..1 /\ 1 \in DOMAIN p.inputs
    BY CompiledInputs
  <2> QED
    BY <2>1, CompiledInputs
<1>2. CompileRefusal(op, p.inputs) = None /\ op \in Operation /\ validate_recipe(r)
  BY CompiledParts
<1>3. ~NoSizedVideo(input) /\ Size(video)[1] /= 0
  BY <1>2, CodeAssumption DEF CompileRefusal, Commands, Codes
<1>4. /\ Size(video) = <<video.width, video.height>>
      /\ video.width \in Nat /\ video.height \in Nat /\ video.width /= 0
  BY <1>1, <1>3, SizedVideo
<1>5. ASSUME NEW w \in Nat PROVE AspectHeight(Size(video), w) \in Nat
  BY <1>4, AspectType
<1>6. op.width \in Nat
  BY <1>2, WidthAssumption DEF Operation, U32
<1>7. size[2] \in Nat
  <2>1. CASE op.type = "thumbnail"
    BY <1>5, <1>6, <2>1
  <2>2. CASE op.type = "contact_sheet"
    <3>1. op.columns \in Nat /\ op.columns > 0 /\ op.rows \in Nat
      BY <1>2, <2>2, WidthAssumption DEF Operation, U32, validate_recipe
    <3>2. width \in Nat
      BY <1>6, <3>1, DivisionBounds
    <3>3. cell \in Nat
      BY <1>5, <3>2
    <3> HIDE DEF cell
    <3>4. cell * op.rows \in Nat
      BY <3>1, <3>3, Z3
    <3> QED
      BY <2>2, <3>4, WidthAssumption DEF AtMost
  <2> QED
    BY <2>1, <2>2
<1>8. /\ draft.warnings = dropped_stream_warnings(1, input, selected)
      /\ draft.selected = selected
      /\ draft.expected = expected_jpeg(size)
  BY DEF Compile, CompileThumbnail, CompileContactSheet, CompileImage
<1> HIDE DEF draft
<1>9. draft.warnings \in Seq(WarningRecord) /\ DropsNamed(draft.warnings, p.inputs, draft.selected)
  BY <1>1, <1>8, SingleWarnings
<1>10. size[1] \in Nat
  BY <1>6
<1> HIDE DEF size
<1>11. expected_video("mjpeg", size, None) \in ExpectedVideo
  BY <1>7, <1>10, VideoExpected DEF Optional
<1>12. draft.expected.duration = None /\ draft.expected.video \in ExpectedVideo
  BY <1>8, <1>11 DEF expected_jpeg
<1> QED
  BY <1>9, <1>12 DEF DraftFits, ExpectedFits, SoundAlone, draft

LEMMA BurnDraftFits ==
  ASSUME NEW p, NEW r, r \in Recipe, Arity(r), Compiled(p, r),
         r.operation.type = "burn_subtitles"
  PROVE  DraftFits(Compile(r.operation, p.inputs, r.tolerance), p.inputs, r.operation.type)
<1> DEFINE media    == p.inputs[1]
           video    == Video(media)
           op       == r.operation
           web      == CompileWeb([type |-> "burn_subtitles"], p.inputs, Size(video),
                                  subtitles_filter(p.inputs[2].path), r.tolerance)
           selected == web.selected \o selected_subtitle_stream(Subtitle(p.inputs[2]))
           first    == dropped_stream_warnings(1, media, selected)
           second   == dropped_stream_warnings(2, p.inputs[2], selected)
           burned   == Warning("subtitles_burned")
           warnings == first \o second \o <<burned>>
           draft    == CompileBurnSubtitles(op, p.inputs, r.tolerance)
<1>1. Compile(r.operation, p.inputs, r.tolerance) = draft
  BY DEF Compile
<1>2. web.expected = expected_web_output(media, video, Size(video), Audio(media), r.tolerance)
  BY DEF CompileWeb
<1>3. web = [operation |-> web.operation, selected |-> web.selected,
             expected |-> web.expected, warnings |-> web.warnings, argv |-> web.argv]
  BY DEF CompileWeb
<1>4. draft = Part(Part(web, "selected", selected), "warnings", warnings)
  BY Zenon DEF CompileBurnSubtitles, Part
<1>5. /\ DOMAIN p.inputs = 1..2
      /\ \A i \in 1..2 : p.inputs[i].streams \in Seq(StreamSummary)
      /\ media.duration /= None => media.duration \in Nat
  <2>1. DOMAIN p.inputs = 1..2 /\ 1 \in DOMAIN p.inputs
    BY CompiledInputs DEF Arity
  <2> QED
    BY <2>1, CompiledInputs
<1>6. ~NoSizedVideo(media)
  <2>1. CompileRefusal(op, p.inputs) = None
    BY CompiledParts
  <2> QED
    BY <2>1, CodeAssumption DEF CompileRefusal, Commands, Codes
<1>7. expected_video("h264", Size(video), video.rate) \in ExpectedVideo
  <2>1. /\ Size(video)[1] \in Nat /\ Size(video)[2] \in Nat
        /\ video.rate \in Optional(STRING)
    BY <1>5, <1>6, SizedVideo
  <2> QED
    BY <2>1, VideoExpected
<1> HIDE DEF draft, web, selected
<1>8. /\ first \in Seq(WarningRecord) /\ Len(first) \in 1..2
      /\ Dropped(media.streams, selected, 1) /= <<>> =>
           /\ first[1].source = 1
           /\ first[1].streams = Indices(Dropped(media.streams, selected, 1))
  BY <1>5, DroppedWarnings
<1>9. /\ second \in Seq(WarningRecord) /\ Len(second) \in 1..2
      /\ Dropped(p.inputs[2].streams, selected, 2) /= <<>> =>
           /\ second[1].source = 2
           /\ second[1].streams = Indices(Dropped(p.inputs[2].streams, selected, 2))
  BY <1>5, DroppedWarnings
<1>10. burned \in WarningRecord
  BY DEF Warning, WarningRecord
<1> HIDE DEF first, second, burned
<1>11. /\ warnings \in Seq(WarningRecord)
       /\ 1 \in 1..Len(warnings) /\ warnings[1] = first[1]
       /\ Len(first) + 1 \in 1..Len(warnings) /\ warnings[Len(first) + 1] = second[1]
       /\ Len(first) \in Nat /\ Len(first) + 2 <= 4
  <2>1. \A n \in 1..2 : n \in Nat /\ n >= 1 /\ n + 2 <= 4
    OBVIOUS
  <2>2. /\ Len(first) \in Nat /\ Len(first) >= 1 /\ Len(first) + 2 <= 4
        /\ Len(second) \in Nat /\ Len(second) >= 1
    BY <1>8, <1>9, <2>1
  <2>3. first \in Seq(WarningRecord) /\ second \in Seq(WarningRecord)
    BY <1>8, <1>9
  <2> QED
    BY <1>10, <2>2, <2>3
<1> HIDE DEF warnings
<1>12. DropsNamed(warnings, p.inputs, selected)
  <2>1. 1 + 1 <= MaxWarnings /\ (Len(first) + 1) + 1 <= MaxWarnings
    <3>1. Len(first) \in Nat /\ Len(first) + 2 <= 4
      BY <1>11
    <3> QED
      BY <3>1, Thresholds
  <2>2. ASSUME NEW i \in DOMAIN p.inputs, Dropped(p.inputs[i].streams, selected, i) /= <<>>
        PROVE  \E at \in 1..Len(warnings) :
                 /\ at + 1 <= MaxWarnings
                 /\ warnings[at].source = i
                 /\ warnings[at].streams = Indices(Dropped(p.inputs[i].streams, selected, i))
    <3>1. CASE i = 1
      BY <1>8, <1>11, <2>1, <2>2, <3>1
    <3>2. CASE i = 2
      BY <1>9, <1>11, <2>1, <2>2, <3>2
    <3> QED
      BY <1>5, <3>1, <3>2
  <2> QED
    BY <2>2 DEF DropsNamed
<1>13. /\ draft.selected = selected /\ draft.warnings = warnings
       /\ draft.expected = web.expected
  <2> DEFINE chosen == Part(web, "selected", selected)
  <2>1. /\ chosen.selected = selected /\ chosen.expected = web.expected
        /\ DOMAIN chosen = {"operation", "selected", "expected", "warnings", "argv"}
    BY <1>3 DEF Part
  <2> HIDE DEF chosen
  <2> QED
    BY <1>4, <2>1 DEF Part, chosen
<1>14. ExpectedFits(draft.expected, op.type)
  BY <1>2, <1>5, <1>7, <1>13 DEF ExpectedFits, SoundAlone, expected_web_output
<1> QED
  BY <1>1, <1>11, <1>12, <1>13, <1>14 DEF DraftFits

LEMMA JoinedDurationType ==
  ASSUME NEW n \in Nat, NEW inputs, DOMAIN inputs = 1..n, JoinedDuration(inputs) /= None,
         \A i \in DOMAIN inputs : inputs[i].duration /= None => inputs[i].duration \in Nat
  PROVE  JoinedDuration(inputs) \in Nat
<1> DEFINE durations == [i \in DOMAIN inputs |-> inputs[i].duration]
<1>1. \A i \in DOMAIN inputs : inputs[i].duration \in Nat
  BY DEF JoinedDuration
<1>2. durations \in [1..n -> Nat]
  BY <1>1
<1> HIDE DEF durations
<1>3. Total(durations) \in Nat
  BY <1>2, TotalType
<1> QED
  BY <1>3 DEF JoinedDuration, durations

LEMMA ConcatenateDraftFits ==
  ASSUME NEW p, NEW r, r \in Recipe, Arity(r), Compiled(p, r),
         r.operation.type = "concatenate"
  PROVE  DraftFits(Compile(r.operation, p.inputs, r.tolerance), p.inputs, r.operation.type)
<1> DEFINE inputs   == p.inputs
           op       == r.operation
           n        == Len(r.inputs)
           selected == ConcatSelection(inputs)
           parts    == [i \in DOMAIN inputs |-> dropped_stream_warnings(i, inputs[i], selected)]
           warnings == FlattenSeq(parts)
           first    == Video(inputs[1])
           draft    == Compile(op, inputs, r.tolerance)
<1>1. /\ draft.selected = selected /\ draft.warnings = warnings
      /\ draft.expected = ExpectedJoined(inputs, r.tolerance)
  BY DEF Compile, CompileConcatenate
<1>2. /\ n \in Nat /\ DOMAIN inputs = 1..n /\ n <= MaxSegments /\ Len(inputs) = n
      /\ \A i \in 1..n : /\ inputs[i].streams \in Seq(StreamSummary)
                         /\ inputs[i].duration /= None => inputs[i].duration \in Nat
      /\ 1 \in 1..n
  <2>1. n \in Nat /\ DOMAIN inputs = 1..n /\ Len(inputs) = n /\ 1 \in DOMAIN inputs
    BY CompiledInputs
  <2>2. n \in 2..MaxSegments
    <3>1. validate_recipe(r)
      BY CompiledParts
    <3> QED
      BY <3>1 DEF validate_recipe
  <2>3. n <= MaxSegments
    BY <2>1, <2>2, Thresholds
  <2> QED
    BY <2>1, <2>3, CompiledInputs
<1>3. ~NoSizedVideo(inputs[1])
  <2>1. CompileRefusal(op, inputs) = None
    BY CompiledParts
  <2> QED
    BY <1>2, <2>1, CodeAssumption DEF CompileRefusal, Commands, Codes
<1>4. expected_video("h264", Size(first), first.rate) \in ExpectedVideo
  <2>1. /\ Size(first)[1] \in Nat /\ Size(first)[2] \in Nat
        /\ first.rate \in Optional(STRING)
    BY <1>2, <1>3, SizedVideo
  <2> QED
    BY <2>1, VideoExpected
<1> HIDE DEF draft, selected, n
<1>5. \A i \in 1..n : /\ parts[i] \in Seq(WarningRecord) /\ Len(parts[i]) \in 1..2
                      /\ Dropped(inputs[i].streams, selected, i) /= <<>> =>
                           /\ parts[i][1].source = i
                           /\ parts[i][1].streams = Indices(Dropped(inputs[i].streams, selected, i))
  <2>1. ASSUME NEW i \in 1..n
        PROVE  /\ parts[i] = dropped_stream_warnings(i, inputs[i], selected)
               /\ i \in Nat /\ inputs[i].streams \in Seq(StreamSummary)
    BY <1>2
  <2> HIDE DEF parts
  <2> QED
    BY <2>1, DroppedWarnings
<1>6. parts \in [1..n -> Seq(WarningRecord)]
  BY <1>2, <1>5
<1> HIDE DEF parts
<1>7. \A j \in 1..n : Len(parts[j]) <= 2 /\ 1 \in 1..Len(parts[j])
  <2>1. \A m \in 1..2 : m <= 2 /\ 1 \in 1..m
    OBVIOUS
  <2> QED
    BY <1>5, <2>1
<1>8. warnings \in Seq(WarningRecord) /\ Joined(warnings, parts, n)
  BY <1>2, <1>6, <1>7, Flattened
<1> HIDE DEF warnings
<1>9. DropsNamed(warnings, inputs, selected)
  <2>1. ASSUME NEW i \in 1..n, Dropped(inputs[i].streams, selected, i) /= <<>>
        PROVE  \E at \in 1..Len(warnings) :
                 /\ at + 1 <= MaxWarnings
                 /\ warnings[at].source = i
                 /\ warnings[at].streams = Indices(Dropped(inputs[i].streams, selected, i))
    <3>1. PICK at \in 1..Len(warnings) : at <= 2 * (i - 1) + 1 /\ warnings[at] = parts[i][1]
      BY <1>7, <1>8 DEF Joined
    <3>2. at + 1 <= MaxWarnings
      <4>1. at \in Nat /\ i \in Nat /\ i <= n
        BY <1>2
      <4> QED
        BY <1>2, <3>1, <4>1, Thresholds
    <3>3. /\ parts[i][1].source = i
          /\ parts[i][1].streams = Indices(Dropped(inputs[i].streams, selected, i))
      BY <1>5, <2>1
    <3> QED
      BY <3>1, <3>2, <3>3
  <2> QED
    BY <1>2, <2>1 DEF DropsNamed
<1>10. ExpectedFits(draft.expected, op.type)
  <2>1. JoinedDuration(inputs) /= None => JoinedDuration(inputs) \in Nat
    BY <1>2, JoinedDurationType
  <2>2. /\ draft.expected.duration = JoinedDuration(inputs)
        /\ draft.expected.video = expected_video("h264", Size(first), first.rate)
    BY <1>1 DEF ExpectedJoined
  <2> QED
    BY <1>4, <2>1, <2>2 DEF ExpectedFits, SoundAlone
<1> QED
  BY <1>1, <1>8, <1>9, <1>10 DEF DraftFits, draft

LEMMA DraftOfCompiled ==
  ASSUME NEW p, NEW r, r \in Recipe, Arity(r), Compiled(p, r)
  PROVE  DraftFits(Compile(r.operation, p.inputs, r.tolerance), p.inputs, r.operation.type)
<1>1. r.operation.type \in Types
  BY OperationTypes DEF Recipe
<1> QED
  BY <1>1, WebDraftFits, AudioDraftFits, ImageDraftFits, BurnDraftFits, ConcatenateDraftFits
     DEF Types

-----------------------------------------------------------------------------
(* Estimates, identity, and the document as a whole.                       *)

LEMMA EstimateType ==
  ASSUME NEW n \in Nat, NEW inputs, DOMAIN inputs = 1..n,
         \A i \in DOMAIN inputs : inputs[i].bytes \in Nat,
         NEW type, NEW e, ExpectedFits(e, type)
  PROVE  /\ estimated_output_bytes(inputs, e) \in Nat
         /\ estimated_temporary_bytes(estimated_output_bytes(inputs, e)) \in Nat
<1>1. \A a \in Nat : AtMost(a, MaxU64) \in Nat
  BY WidthAssumption DEF AtMost
<1>2. \A a \in Nat : AtLeast(a, MinEstimate) \in Nat
  BY RateAssumption DEF AtLeast
<1>3. ASSUME NEW a \in Nat PROVE estimated_temporary_bytes(a) \in Nat
  <2>1. a * 6 \in Nat
    OBVIOUS
  <2>2. saturating_mul(a, 6) \in Nat
    BY <1>1, <2>1, Zenon DEF saturating_mul
  <2>3. saturating_mul(a, 6) \div 5 \in Nat
    BY <2>2
  <2> QED
    BY <2>3 DEF estimated_temporary_bytes
<1>4. estimated_output_bytes(inputs, e) \in Nat
  <2>3. CASE e.duration /= None
    <3>1. e.duration \in Nat
      BY <2>3 DEF ExpectedFits
    <3>2. \A v, a \in BOOLEAN : RateEstimate(e.duration, v, a) \in Nat
      BY <3>1, EstimateCovers
    <3>3. RateEstimate(e.duration, e.video /= None, e.audio /= None) \in Nat
      <4>1. (e.video /= None) \in BOOLEAN /\ (e.audio /= None) \in BOOLEAN
        OBVIOUS
      <4> QED
        BY <3>2, <4>1, Zenon
    <3> QED
      BY <2>3, <3>3, Zenon DEF estimated_output_bytes
  <2>4. CASE e.duration = None /\ e.video /= None
    <3>1. e.video.width \in Nat /\ e.video.height \in Nat
      BY <2>4 DEF ExpectedFits, ExpectedVideo
    <3>2. e.video.width * e.video.height \in Nat
      BY <3>1, Z3
    <3>3. saturating_mul(e.video.width, e.video.height) \in Nat
      BY <1>1, <3>2, Zenon DEF saturating_mul
    <3>4. estimated_output_bytes(inputs, e)
            = AtLeast(saturating_mul(e.video.width, e.video.height), MinEstimate)
      BY <2>4, Zenon DEF estimated_output_bytes
    <3> QED
      BY <1>2, <3>3, <3>4, Zenon
  <2>5. CASE e.duration = None /\ e.video = None
    <3> DEFINE sizes == [i \in DOMAIN inputs |-> inputs[i].bytes]
    <3>1. sizes \in [1..n -> Nat]
      OBVIOUS
    <3>2. estimated_output_bytes(inputs, e) = AtLeast(SaturatingSum(sizes), MinEstimate)
      BY <2>5, Zenon DEF estimated_output_bytes
    <3> HIDE DEF sizes
    <3>3. Total(sizes) \in Nat
      BY <3>1, TotalType
    <3>4. SaturatingSum(sizes) \in Nat
      BY <1>1, <3>3, Zenon DEF SaturatingSum
    <3> QED
      BY <1>2, <3>2, <3>4, Zenon
  <2> QED
    BY <2>3, <2>4, <2>5
<1> QED
  BY <1>3, <1>4, Zenon

LEMMA CompiledOperation ==
  ASSUME NEW p, NEW r, r \in Recipe, Arity(r), Compiled(p, r)
  PROVE  p.operation.type = r.operation.type /\ ValidOperation(p)
<1>1. r.operation.type \in Types
  BY OperationTypes DEF Recipe
<1> QED
  BY <1>1, TranscodeIsValid, ResizeIsValid, ExtractIsValid, NormalizeIsValid, ThumbnailIsValid,
     ContactSheetIsValid, BurnIsValid, ConcatenateIsValid, ClipIsValid
     DEF Types, ValidOperation

\* The name of a temporary file holds an identity, that of an input does not.
LEMMA TemporaryPath ==
  ASSUME NEW path \in Paths, NEW q
  PROVE  LET temporary == temporary_output_path(path, expected_plan_id(q))
         IN  temporary.id /= <<>> /\ temporary /= path /\ temporary.dir = path.dir
<1> DEFINE id == expected_plan_id(q)
<1>1. id /= <<>>
  BY DEF expected_plan_id
<1> HIDE DEF id
<1>2. /\ path.id = <<>> /\ DOMAIN path = {"dir", "file", "extension", "id"}
  BY DEF Paths
<1>3. /\ temporary_output_path(path, id).id = id
      /\ temporary_output_path(path, id).dir = path.dir
  BY <1>2 DEF temporary_output_path
<1> QED
  BY <1>1, <1>2, <1>3 DEF id

\* What the compiler writes, the validator accepts.
LEMMA CompiledValid ==
  ASSUME NEW p, NEW r, r \in Recipe, Arity(r), Compiled(p, r)
  PROVE  validate_plan(p)
<1> DEFINE draft == Compile(r.operation, p.inputs, r.tolerance)
<1>1. /\ AssembledFrom(p, r, p.inputs, p.backend, draft)
      /\ p.resources.budgets = r.budgets /\ r.path \in Paths /\ validate_recipe(r)
  BY CompiledParts
<1>2. /\ DOMAIN p.inputs = 1..Len(r.inputs) /\ Len(r.inputs) \in Nat /\ 1 \in DOMAIN p.inputs
      /\ \A i \in DOMAIN p.inputs : /\ p.inputs[i].bytes \in Nat
                                    /\ p.inputs[i].path.id = <<>> /\ p.inputs[i].probe /= ""
  BY CompiledInputs
<1>3. DraftFits(draft, p.inputs, r.operation.type)
  BY DraftOfCompiled
<1> HIDE DEF draft
<1>4. ValidHeader(p)
  <2>1. /\ Len(p.warnings) <= MaxWarnings
        /\ \A i \in DOMAIN p.warnings : Len(p.warnings[i].streams) <= MaxNamed
    BY <1>1, <1>3, Bounded DEF AssembledFrom, DraftFits
  <2>2. p.backend.version /= "" /\ p.backend.libraries /= {}
    BY DEF Compiled
  <2>3. p.inputs /= <<>>
    <3>1. 1 \in DOMAIN p.inputs
      BY <1>2
    <3> QED
      BY <3>1
  <2> QED
    BY <1>1, <1>2, <2>1, <2>2, <2>3 DEF AssembledFrom, ValidHeader
<1>5. ValidPaths(p)
  <2>1. p.path = r.path /\ p.temporary = temporary_output_path(p.path, expected_plan_id(p))
    BY <1>1 DEF AssembledFrom
  <2>2. p.temporary.id /= <<>> /\ p.temporary /= p.path /\ p.temporary.dir = p.path.dir
    BY <1>1, <2>1, TemporaryPath
  <2>3. \A i \in DOMAIN p.inputs : p.inputs[i].path \notin {p.path, p.temporary}
    BY <1>2, <2>1, <2>2 DEF Compiled
  <2> QED
    BY <2>2, <2>3 DEF ValidPaths
<1>6. ValidResources(p)
  <2>1. p.resources = estimate_resources(p.inputs, p.expected, p.resources.budgets)
    BY <1>1 DEF AssembledFrom
  <2>2. p.expected = draft.expected
    BY <1>1 DEF AssembledFrom
  <2>3. /\ estimated_output_bytes(p.inputs, p.expected) \in Nat
        /\ estimated_temporary_bytes(estimated_output_bytes(p.inputs, p.expected)) \in Nat
    BY <1>2, <1>3, <2>2, EstimateType DEF DraftFits
  <2>4. /\ p.resources.output = estimated_output_bytes(p.inputs, p.expected)
        /\ p.resources.temporary
             = estimated_temporary_bytes(estimated_output_bytes(p.inputs, p.expected))
    BY <2>1 DEF estimate_resources
  <2>5. r.budgets.output \in Nat /\ r.budgets.temporary \in Nat
    BY WidthAssumption DEF Recipe, U64
  <2>6. ~(p.resources.output > r.budgets.output) /\ ~(p.resources.temporary > r.budgets.temporary)
    BY <1>1 DEF Compiled, OverBudget
  <2>7. p.resources.output <= r.budgets.output /\ p.resources.temporary <= r.budgets.temporary
    BY <2>3, <2>4, <2>5, <2>6
  <2>8. r.budgets.runtime >= MinRuntime
    BY <1>1 DEF validate_recipe
  <2> QED
    BY <1>1, <2>1, <2>7, <2>8, Zenon DEF ValidResources
<1>7. ValidIdentity(p)
  BY <1>1 DEF AssembledFrom, ValidIdentity
<1> QED
  BY <1>4, <1>5, <1>6, <1>7, CompiledOperation DEF validate_plan

-----------------------------------------------------------------------------
(* Edits of a document.                                                    *)

\* The edits keep what a recipe said of the operation, and the first input's
\* streams.
KeepsRecipe(op, edited) ==
  \/ edited = op
  \/ op.type = "resize" /\ \E size : edited = Part(op, "output", size)
  \/ op.type = "normalize_audio" /\ \E target : edited = Part(op, "target", target)

KeepsInputs(inputs, edited) ==
  \/ edited \in {inputs, Front(inputs)}
  \/ edited = Part(inputs, 1, Part(inputs[1], "sha", "other"))

\* An edited document is still one, with the identity it had.
KeepsId(p, edit) ==
  /\ Document(edit) /\ edit.id = p.id /\ edit.atomic \in BOOLEAN
  /\ KeepsRecipe(p.operation, edit.operation) /\ KeepsInputs(p.inputs, edit.inputs)

LEMMA PartKeepsId ==
  ASSUME NEW p, NEW q, KeepsId(p, q),
         NEW field \in Fields \ {"id", "atomic", "operation", "inputs"}, NEW value
  PROVE  KeepsId(p, Part(q, field, value))
BY DEF KeepsId, Document, Part, Fields

LEMMA OperationKeepsId ==
  ASSUME NEW p, Document(p), p.atomic \in BOOLEAN, NEW op, KeepsRecipe(p.operation, op)
  PROVE  KeepsId(p, Part(p, "operation", op))
BY DEF KeepsId, KeepsInputs, Document, Part, Fields

LEMMA InputsKeepId ==
  ASSUME NEW p, Document(p), p.atomic \in BOOLEAN, NEW inputs, KeepsInputs(p.inputs, inputs)
  PROVE  KeepsId(p, Part(p, "inputs", inputs))
BY DEF KeepsId, KeepsRecipe, Document, Part, Fields

LEMMA EditKeepsId ==
  ASSUME NEW p, Document(p), p.atomic = TRUE, NEW edit \in Edits(p)
  PROVE  KeepsId(p, edit)
<1> DEFINE e1  == [p EXCEPT !.schema = "other"]
           e2  == [p EXCEPT !.atomic = FALSE]
           e3  == [p EXCEPT !.backend.version = "other"]
           e4  == [p EXCEPT !.backend.libraries = {}]
           e5  == [p EXCEPT !.inputs[1].sha = "other"]
           e6  == [p EXCEPT !.inputs = Front(@)]
           e7  == [p EXCEPT !.path = [@ EXCEPT !.file = "elsewhere"]]
           e8  == [p EXCEPT !.path = p.inputs[1].path]
           e9  == [p EXCEPT !.selected = Front(@)]
           e10 == [p EXCEPT !.checks = Front(@)]
           e11 == [p EXCEPT !.warnings = <<>>]
           e12 == [p EXCEPT !.expected.tolerance = MaxTolerance + 1]
           e13 == [p EXCEPT !.expected.container = "other"]
           e14 == [p EXCEPT !.expected.audio = IF @ = None THEN None ELSE [@ EXCEPT !.channels = 7]]
           e15 == [p EXCEPT !.expected.duration = IF @ = None THEN 1 ELSE @ - 1]
           e16 == [p EXCEPT !.resources.budgets.output = @ + 1]
           e17 == [p EXCEPT !.resources.class = "none"]
           e18 == [p EXCEPT !.argv.output = p.path]
           e19 == [p EXCEPT !.argv.muxer = "other"]
           e20 == Reframed(p, <<4, 2>>)
           e21 == Reframed(p, <<6, 6>>)
           e22 == Retargeted(p, -600)
           e23 == Retargeted(p, -650)
<1>1. KeepsId(p, p)
  BY DEF KeepsId, KeepsRecipe, KeepsInputs
<1>2. ASSUME NEW value, NEW field \in Fields \ {"id", "atomic", "operation", "inputs"}
      PROVE  KeepsId(p, [p EXCEPT ![field] = value])
  BY <1>1, PartKeepsId DEF Part
<1>3. KeepsId(p, e2)
  BY DEF KeepsId, KeepsRecipe, KeepsInputs, Document, Fields
<1>4. /\ KeepsId(p, e1) /\ KeepsId(p, e3) /\ KeepsId(p, e4) /\ KeepsId(p, e7)
      /\ KeepsId(p, e8) /\ KeepsId(p, e9) /\ KeepsId(p, e10) /\ KeepsId(p, e11) /\ KeepsId(p, e12) /\ KeepsId(p, e13)
      /\ KeepsId(p, e14) /\ KeepsId(p, e15) /\ KeepsId(p, e16) /\ KeepsId(p, e17) /\ KeepsId(p, e18) /\ KeepsId(p, e19)
  BY <1>2, Zenon DEF Fields
<1>5. KeepsId(p, e5)
  <2> DEFINE changed == Part(p.inputs, 1, Part(p.inputs[1], "sha", "other"))
  <2>1. e5 = Part(p, "inputs", changed)
    BY Zenon DEF Part
  <2>2. KeepsInputs(p.inputs, changed)
    BY Zenon DEF KeepsInputs
  <2> HIDE DEF changed, e5
  <2> QED
    BY <2>1, <2>2, InputsKeepId
<1>6. KeepsId(p, e6)
  <2>1. e6 = Part(p, "inputs", Front(p.inputs))
    BY Zenon DEF Part
  <2> QED
    BY <2>1, InputsKeepId DEF KeepsInputs
<1>7. ASSUME NEW size PROVE KeepsId(p, Reframed(p, size))
  <2>1. ASSUME NEW expected, NEW argv, p.operation.type = "resize"
        PROVE  KeepsId(p, Part(Part(Part(p, "operation", Part(p.operation, "output", size)),
                                    "expected", expected), "argv", argv))
    BY <2>1, OperationKeepsId, PartKeepsId DEF Fields, KeepsRecipe
  <2>2. p.operation.type = "resize" =>
          KeepsId(p, [p EXCEPT !.operation.output = size,
                               !.expected.video = [@ EXCEPT !.width = size[1], !.height = size[2]],
                               !.argv.filter = resize_filter(p.operation.requested, size,
                                                 p.operation.mode, p.operation.rotation)])
    BY <2>1, Zenon DEF Part
  <2>3. KeepsId(p, [p EXCEPT !.expected.video =
                      IF @ = None THEN None
                      ELSE [@ EXCEPT !.width = size[1], !.height = size[2]]])
    BY <1>2, Zenon DEF Fields
  <2> QED
    BY <2>2, <2>3, Zenon DEF Reframed
<1>8. ASSUME NEW target PROVE KeepsId(p, Retargeted(p, target))
  <2>1. ASSUME NEW expected, NEW argv, p.operation.type = "normalize_audio"
        PROVE  KeepsId(p, Part(Part(Part(p, "operation", Part(p.operation, "target", target)),
                                    "expected", expected), "argv", argv))
    BY <2>1, OperationKeepsId, PartKeepsId DEF Fields, KeepsRecipe
  <2>2. p.operation.type = "normalize_audio" =>
          KeepsId(p, [p EXCEPT !.operation.target = target,
                               !.expected.audio.loudness.target = target,
                               !.argv.filter = [name |-> "loudnorm",
                                                target |-> format_loudness(target)]])
    BY <2>1, Zenon DEF Part
  <2> QED
    BY <1>1, <2>2, Zenon DEF Retargeted
<1>9. ASSUME NEW stream PROVE KeepsId(p, OtherStream(p, stream))
  <2>1. ASSUME NEW selected, NEW argv
        PROVE  KeepsId(p, Part(Part(p, "selected", selected), "argv", argv))
    BY <1>1, PartKeepsId DEF Fields
  <2>2. ASSUME NEW at
        PROVE  KeepsId(p, [p EXCEPT !.selected[at] = Selected(1, stream, @.codec),
                                    !.argv.maps = [i \in DOMAIN @ |->
                                                     IF i = at THEN <<1, stream.index>> ELSE @[i]]])
    BY <2>1, Zenon DEF Part
  <2> QED
    BY <1>1, <2>2, Zenon DEF OtherStream
<1>10. Edits(p) = {e1, e2, e3, e4, e5, e6, e7, e8, e9, e10, e11, e12, e13, e14, e15, e16, e17,
                   e18, e19, e20, e21, e22, e23}
                    \union {OtherStream(p, stream) : stream \in ToSet(p.inputs[1].streams)}
  BY Zenon DEF Edits
<1>11. KeepsId(p, e20) /\ KeepsId(p, e21) /\ KeepsId(p, e22) /\ KeepsId(p, e23)
  BY <1>7, <1>8, Zenon
<1> HIDE DEF e1, e2, e3, e4, e5, e6, e7, e8, e9, e10, e11, e12, e13, e14, e15, e16, e17, e18,
             e19, e20, e21, e22, e23
<1> QED
  BY <1>3, <1>4, <1>5, <1>6, <1>9, <1>10, <1>11

\* The argument vector of an accepted plan follows from the rest of it.
LEMMA SameArguments ==
  ASSUME NEW p, NEW q, ValidOperation(p), ValidOperation(q), p.operation.type \in Types,
         p.operation = q.operation, p.inputs = q.inputs, p.temporary = q.temporary,
         p.selected = q.selected
  PROVE  p.argv = q.argv
<1>1. CASE p.operation.type = "clip"
  <2>1. validate_clip_plan(p) /\ validate_clip_plan(q)
    BY <1>1 DEF ValidOperation
  <2> QED
    BY <2>1, Zenon DEF validate_clip_plan, selected_kind
<1>2. CASE p.operation.type = "transcode"
  BY <1>2 DEF ValidOperation, validate_transcode_plan
<1>3. CASE p.operation.type = "resize"
  BY <1>3 DEF ValidOperation, validate_resize_plan
<1>4. CASE p.operation.type = "extract_audio"
  BY <1>4 DEF ValidOperation, validate_extract_audio_plan, ValidAudio
<1>5. CASE p.operation.type = "normalize_audio"
  <2>1. validate_normalize_audio_plan(p) /\ validate_normalize_audio_plan(q)
    BY <1>5 DEF ValidOperation
  <2>2. ASSUME NEW d, validate_normalize_audio_plan(d)
        PROVE  d.argv = normalize_audio_argv(d.inputs[1].path, d.temporary,
                                             Audio(d.inputs[1]).index, d.operation.target)
    BY <2>2, Zenon DEF validate_normalize_audio_plan, ValidAudio
  <2> QED
    BY <2>1, <2>2
<1>6. CASE p.operation.type = "concatenate"
  <2>1. validate_concatenate_plan(p) /\ validate_concatenate_plan(q)
    BY <1>6 DEF ValidOperation
  <2> QED
    BY <2>1 DEF validate_concatenate_plan
<1>7. CASE p.operation.type = "thumbnail"
  BY <1>7 DEF ValidOperation, validate_thumbnail_plan
<1>8. CASE p.operation.type = "contact_sheet"
  BY <1>8 DEF ValidOperation, validate_contact_sheet_plan
<1>9. CASE p.operation.type = "burn_subtitles"
  BY <1>9 DEF ValidOperation, validate_burn_subtitles_plan
<1> QED
  BY <1>1, <1>2, <1>3, <1>4, <1>5, <1>6, <1>7, <1>8, <1>9 DEF Types

\* Two accepted documents with one identity are the same document.
LEMMA OneDocument ==
  ASSUME NEW p, NEW q, Document(p), Document(q), validate_plan(p), validate_plan(q),
         p.operation.type \in Types, p.id = q.id,
         p.atomic \in BOOLEAN, q.atomic \in BOOLEAN
  PROVE  p = q
<1>1. expected_plan_id(p) = expected_plan_id(q)
  BY DEF validate_plan, ValidIdentity
<1>2. /\ p.recipe_digest = q.recipe_digest /\ p.inputs = q.inputs /\ p.path = q.path
      /\ p.operation = q.operation /\ p.selected = q.selected /\ p.backend = q.backend
      /\ p.expected = q.expected /\ p.checks = q.checks /\ p.warnings = q.warnings
      /\ p.resources = q.resources
  BY <1>1 DEF expected_plan_id
<1>3. p.temporary = q.temporary
  BY <1>2 DEF validate_plan, ValidIdentity
<1>4. p.schema = q.schema
  BY DEF validate_plan, ValidHeader
<1>5. p.atomic = q.atomic
  <2>1. p.atomic = TRUE /\ q.atomic = TRUE
    BY Zenon DEF validate_plan, ValidHeader
  <2> QED
    BY <2>1, Zenon
<1>6. p.argv = q.argv
  BY <1>2, <1>3, SameArguments DEF validate_plan
<1>7. \A field \in Fields : p[field] = q[field]
  BY <1>2, <1>3, <1>4, <1>5, <1>6 DEF Fields
<1> QED
  BY <1>7 DEF Document

\* An edit that leaves the identity as it was is never accepted.
LEMMA EditRefused ==
  ASSUME NEW p, NEW r, r \in Recipe, Arity(r), Compiled(p, r), NEW edit \in Edits(p), edit /= p
  PROVE  ~validate_plan(edit)
<1> SUFFICES ASSUME validate_plan(edit) PROVE FALSE
  OBVIOUS
<1>1. AssembledFrom(p, r, p.inputs, p.backend, Compile(r.operation, p.inputs, r.tolerance))
  BY CompiledParts
<1>2. Document(p) /\ p.atomic = TRUE
  BY <1>1 DEF AssembledFrom
<1>3. Document(edit) /\ edit.id = p.id /\ edit.atomic \in BOOLEAN
  BY <1>2, EditKeepsId DEF KeepsId
<1>4. validate_plan(p)
  BY CompiledValid
<1>5. p.operation.type \in Types
  <2>1. r.operation.type \in Types
    BY OperationTypes DEF Recipe
  <2> QED
    BY <2>1, CompiledOperation
<1> QED
  BY <1>2, <1>3, <1>4, <1>5, OneDocument

-----------------------------------------------------------------------------
(* The invariant holds.                                                    *)

PlanInv == World /\ PlanIsCompiled /\ InputsAreKnown /\ Applies /\ EditIsRefused

LEMMA PlannedIsValid ==
  PlanInv => CompiledIsValid
BY CompiledValid DEF PlanInv, World, PlanIsCompiled, CompiledIsValid

LEMMA PlanInvAtFirst == Init => PlanInv
<1> SUFFICES ASSUME Init PROVE PlanInv
  OBVIOUS
<1>1. planFile = None /\ applying = None /\ disturbance = "none"
  BY DEF Init
<1> QED
  BY <1>1, WorldAtFirst
     DEF PlanInv, PlanIsCompiled, InputsAreKnown, Applies, EditIsRefused, Planned

\* Steps that leave the document and the inputs alone.
LEMMA SameDocument ==
  ASSUME PlanInv, World', planFile' = planFile, recipe' = recipe, files' = files,
         disturbance' = disturbance \/ (disturbance = "none" /\ disturbance' /= "edited"),
         Applies'
  PROVE  PlanInv'
<1>1. PlanRefusal' = PlanRefusal
  BY DEF PlanRefusal, Unreadable
<1>2. /\ disturbance' /= "input_replaced" => disturbance /= "input_replaced"
      /\ disturbance' = "edited" => disturbance = "edited"
      /\ Planned' => Planned
  BY DEF Planned, Genuine
<1>3. PlanIsCompiled'
  BY <1>2 DEF PlanInv, PlanIsCompiled
<1>4. Inspected(recipe, files)' = Inspected(recipe, files)
  BY DEF Inspected
<1>5. InputsAreKnown'
  <2> SUFFICES ASSUME Planned', disturbance' /= "input_replaced"
               PROVE  planFile'.inputs = Inspected(recipe, files)'
    BY DEF InputsAreKnown
  <2> QED
    BY <1>2, <1>4 DEF PlanInv, InputsAreKnown
<1>6. EditIsRefused'
  BY <1>1, <1>2 DEF PlanInv, EditIsRefused
<1> QED
  BY <1>3, <1>5, <1>6 DEF PlanInv

LEMMA PlanInvWritten == PlanInv /\ World' /\ PlanWritten => PlanInv'
<1> SUFFICES ASSUME PlanInv, World', PlanWritten PROVE PlanInv'
  OBVIOUS
<1>1. /\ applying' = None /\ applying = None /\ Planning = None /\ recipe' = recipe
      /\ files' = files /\ disturbance' = disturbance
  BY DEF PlanWritten, world
<1>2. Applies'
  BY <1>1 DEF Applies
<1>3. CASE planFile = None
  <2> DEFINE p == plan_recipe(recipe, files, tools)
  <2>1. planFile' = p
    BY <1>3 DEF PlanWritten
  <2>2. Compiled(p, recipe) /\ p.inputs = Inspected(recipe, files)
    BY <1>1, WrittenIsCompiled DEF PlanInv
  <2> HIDE DEF p
  <2>3. PlanIsCompiled'
    BY <1>1, <2>1, <2>2 DEF PlanIsCompiled
  <2>4. InputsAreKnown'
    BY <1>1, <2>1, <2>2 DEF InputsAreKnown, Inspected
  <2>5. EditIsRefused'
    BY <1>1, <1>3 DEF PlanInv, EditIsRefused
  <2> QED
    BY <1>2, <2>3, <2>4, <2>5 DEF PlanInv
<1>4. CASE planFile /= None
  <2>1. planFile' = planFile
    BY <1>4 DEF PlanWritten
  <2> QED
    BY <1>1, <1>2, <2>1, SameDocument
<1> QED
  BY <1>3, <1>4

LEMMA PlanInvEdited == PlanInv /\ World' /\ EditPlan => PlanInv'
<1> SUFFICES ASSUME PlanInv, World', EditPlan PROVE PlanInv'
  OBVIOUS
<1>1. /\ applying = None /\ applying' = None /\ recipe' = recipe
      /\ planFile' \notin {None, Partial}
      /\ disturbance = "none" /\ planFile \notin {None, Partial}
  BY DEF EditPlan, world
<1>2. PICK edit \in Edits(planFile) \ {planFile} :
        \/ disturbance' = "edited" /\ planFile' = edit
        \/ disturbance' = "resealed"
  BY DEF EditPlan, Disturbed
<1>3. ~Genuine'
  BY <1>2 DEF Genuine
<1>4. Compiled(planFile, recipe) /\ recipe \in Recipe /\ Arity(recipe)
  BY <1>1 DEF PlanInv, PlanIsCompiled, Planned, Genuine, World
<1>5. EditIsRefused'
  <2> SUFFICES ASSUME disturbance' = "edited" PROVE planFile' /= None /\ PlanRefusal' /= None
    BY DEF EditIsRefused
  <2>1. planFile' = edit
    BY <1>2
  <2>2. ~validate_plan(planFile)'
    BY <1>4, <2>1, EditRefused
  <2> QED
    BY <1>1, <2>2, CodeAssumption DEF PlanRefusal, Commands, Codes
<1> QED
  BY <1>1, <1>3, <1>5 DEF PlanInv, PlanIsCompiled, InputsAreKnown, Planned, Applies

LEMMA PlanInvStep == PlanInv /\ IInv /\ [Next]_vars => PlanInv'
<1> SUFFICES ASSUME PlanInv, IInv, [Next]_vars PROVE PlanInv'
  OBVIOUS
<1>1. World'
  BY WorldStep DEF PlanInv
<1>2. CASE UNCHANGED <<applying, planFile, recipe, files, disturbance>>
  <2>1. PlanRefusal' = PlanRefusal
    BY <1>2 DEF PlanRefusal, Unreadable
  <2>2. Applies'
    BY <1>2, <2>1 DEF PlanInv, Applies
  <2> QED
    BY <1>1, <1>2, <2>2, SameDocument
<1>3. CASE PlanCutShort
  <2>1. /\ applying' = None /\ planFile' = Partial
        /\ disturbance = "none" /\ disturbance' = "plan_cut_short"
    BY <1>3 DEF PlanCutShort, Disturbed
  <2> QED
    BY <1>1, <2>1
       DEF PlanInv, PlanIsCompiled, InputsAreKnown, Planned, Applies, EditIsRefused
<1>4. CASE ApplyStarts
  <2>1. /\ planFile' = planFile /\ recipe' = recipe /\ files' = files
        /\ disturbance' = disturbance /\ applying'.plan = planFile
        /\ applying'.seal = disturbance /\ ApplyRefusal = None
    BY <1>4 DEF ApplyStarts, world
  <2>2. PlanRefusal = None /\ PlanRefusal' = PlanRefusal
    BY <2>1 DEF ApplyRefusal, PlanRefusal, Unreadable
  <2>3. Applies'
    BY <2>1, <2>2 DEF PlanInv, EditIsRefused, Applies
  <2> QED
    BY <1>1, <2>1, <2>3, SameDocument
<1>5. CASE BackendRenders \/ BackendDeviates
  <2>1. /\ planFile' = planFile /\ recipe' = recipe /\ files' = files /\ applying /= None
        /\ disturbance' = disturbance \/ (disturbance = "none" /\ disturbance' /= "edited")
    BY <1>5 DEF BackendRenders, BackendDeviates, Disturbed, world
  <2>2. applying'.plan = applying.plan /\ applying'.seal = applying.seal
    BY <1>5, <2>1 DEF BackendRenders, BackendDeviates, IInv, Shape
  <2>3. PlanRefusal' = PlanRefusal
    BY <2>1 DEF PlanRefusal, Unreadable
  <2>4. Applies'
    BY <2>1, <2>2, <2>3 DEF PlanInv, Applies
  <2> QED
    BY <1>1, <2>1, <2>4, SameDocument
<1>6. CASE BackendFails \/ LimitExceeded \/ ApplyFails \/ ApplySucceeds
  <2>1. /\ planFile' = planFile /\ recipe' = recipe /\ files' = files /\ applying' = None
        /\ disturbance' = disturbance
    BY <1>6 DEF BackendFails, LimitExceeded, ApplyFails, ApplySucceeds, ApplyEnds, world
  <2> QED
    BY <1>1, <2>1, SameDocument DEF Applies
<1>7. CASE ReplaceTools \/ ReplaceOutput
  <2>1. /\ planFile' = planFile /\ recipe' = recipe /\ files' = files /\ applying' = None
        /\ disturbance = "none" /\ disturbance' /= "edited"
    BY <1>7 DEF ReplaceTools, ReplaceOutput, Disturbed, world
  <2> QED
    BY <1>1, <2>1, SameDocument DEF Applies
<1>8. CASE ReplaceInput
  <2>1. /\ planFile' = planFile /\ recipe' = recipe /\ applying' = None
        /\ disturbance = "none" /\ disturbance' = "input_replaced"
    BY <1>8 DEF ReplaceInput, Disturbed
  <2> QED
    BY <1>1, <2>1
       DEF PlanInv, PlanIsCompiled, InputsAreKnown, Planned, Genuine, Applies, EditIsRefused
<1>9. CASE PlanRefused \/ ApplyRefused \/ Verify \/ ShowReceipt \/ UNCHANGED vars
  BY <1>2, <1>9 DEF PlanRefused, ApplyRefused, Verify, ShowReceipt, vars, world
<1> QED
  BY <1>1, <1>3, <1>4, <1>5, <1>6, <1>7, <1>8, <1>9, PlanInvWritten, PlanInvEdited
     DEF Next, Plan, Apply, Backend, Others

\* The plan document that is read is what the compiler wrote for the recipe and
\* the inspected inputs, as long as nobody edited it; what edits did to it keeps
\* its identity or seals a new one.
THEOREM PlanInvariance == Spec => [](PlanInv /\ IInv)
<1>1. PlanInv /\ IInv /\ [Next]_vars => PlanInv'
  BY PlanInvStep
<1> QED
  BY <1>1, PlanInvAtFirst, Invariance, PTL DEF Spec

-----------------------------------------------------------------------------
(* What the invariant implies.                                             *)

\* No edit of a plan document is ever applied, whatever field of whatever plan
\* it touches, as long as the document keeps its identity.
THEOREM EditsAreNeverApplied == Spec => []EditsAreRefused
<1>1. PlanInv => EditsAreRefused
  BY DEF PlanInv, Applies, EditsAreRefused
<1> QED
  BY <1>1, PlanInvariance, PTL

\* What every plan that the compiler wrote has.
LEMMA PlannedFacts ==
  ASSUME PlanInv, Planned
  PROVE  /\ Compiled(planFile, recipe) /\ recipe \in Recipe /\ Arity(recipe)
         /\ validate_plan(planFile) /\ planFile.operation.type = recipe.operation.type
         /\ recipe.operation \in Operation
<1>1. Compiled(planFile, recipe) /\ recipe \in Recipe /\ Arity(recipe)
  BY DEF PlanInv, PlanIsCompiled, World
<1>2. recipe.operation \in Operation
  BY <1>1 DEF Recipe
<1> QED
  BY <1>1, <1>2, CompiledValid, CompiledOperation

LEMMA PrefixShape ==
  ASSUME NEW paths, NEW o
  PROVE  DOMAIN BackendPrefix(paths, o)
           = {"inputs", "seek", "length", "maps", "filter", "video", "audio", "frames",
              "muxer", "output"}
BY DEF BackendPrefix

LEMMA PartField ==
  ASSUME NEW r, NEW x, NEW a
  PROVE  /\ DOMAIN Part(r, x, a) = DOMAIN r
         /\ x \in DOMAIN r => Part(r, x, a)[x] = a
         /\ \A y \in DOMAIN r : y /= x => Part(r, x, a)[y] = r[y]
BY DEF Part

LEMMA SeekIsStart ==
  ASSUME NEW path, NEW o, NEW start, NEW duration, NEW video, NEW audio, NEW size
  PROVE  /\ clip_argv(path, o, start, duration, video, audio).seek = format_milliseconds(start)
         /\ clip_argv(path, o, start, duration, video, audio).length
              = format_milliseconds(duration)
         /\ thumbnail_argv(path, o, video, start, size).seek = format_milliseconds(start)
<1> DEFINE Options == {"inputs", "seek", "length", "maps", "filter", "video", "audio", "frames",
                       "muxer", "output"}
           transcode == transcode_argv(path, o, video, audio, [name |-> "reset_timestamps"])
           image == ImageArgv(path, o, video, [name |-> "scale", frame |-> size])
           s == format_milliseconds(start)
           d == format_milliseconds(duration)
<1>1. ASSUME NEW r, DOMAIN r = Options, NEW x \in Options, NEW a
      PROVE  DOMAIN Part(r, x, a) = Options
  BY <1>1, PartField
<1>2. transcode = Part(Part(Part(Part(Part(BackendPrefix(<<path>>, o), "maps", Maps(video, audio)),
                                      "filter", [name |-> "reset_timestamps"]),
                                 "video", "libx264"), "audio", AacArgs(audio)), "muxer", "mp4")
  BY Zenon DEF transcode_argv, Part
<1>3. DOMAIN transcode = Options
  BY <1>1, <1>2, PrefixShape
<1>4. image = Part(Part(Part(Part(Part(BackendPrefix(<<path>>, o), "maps", <<<<1, video>>>>),
                                  "filter", [name |-> "scale", frame |-> size]), "frames", 1),
                        "video", "mjpeg"), "muxer", "image2")
  BY Zenon DEF ImageArgv, Part
<1>5. DOMAIN image = Options
  BY <1>1, <1>4, PrefixShape
<1>6. /\ clip_argv(path, o, start, duration, video, audio)
           = Part(Part(transcode, "seek", s), "length", d)
      /\ thumbnail_argv(path, o, video, start, size) = Part(image, "seek", s)
  BY Zenon DEF clip_argv, thumbnail_argv, Part
<1> HIDE DEF transcode, image, s, d
<1>7. /\ Part(Part(transcode, "seek", s), "length", d).seek = s
      /\ Part(Part(transcode, "seek", s), "length", d).length = d
      /\ Part(image, "seek", s).seek = s
  BY <1>3, <1>5 DEF Part
<1> QED
  BY <1>6, <1>7 DEF s, d

\* The times in the arguments, read back, are the times of the recipe, for
\* every time that u64 holds.
THEOREM SeekTextsAreExact == Spec => []SeekTextIsExact
<1>1. ASSUME PlanInv PROVE SeekTextIsExact
  <2> SUFFICES ASSUME Planned
               PROVE  /\ planFile.operation.type = "clip" =>
                           /\ decimal_ms(planFile.argv.seek) = planFile.operation.start
                           /\ decimal_ms(planFile.argv.length) = planFile.operation.duration
                      /\ planFile.operation.type = "thumbnail" =>
                           decimal_ms(planFile.argv.seek) = planFile.operation.at
    BY DEF SeekTextIsExact
  <2> DEFINE p == planFile
             op == p.operation
             rop == recipe.operation
             draft == Compile(rop, p.inputs, recipe.tolerance)
  <2>1. /\ validate_plan(p) /\ op.type = rop.type /\ rop \in Operation
        /\ AssembledFrom(p, recipe, p.inputs, p.backend, draft) /\ validate_recipe(recipe)
    BY <1>1, PlannedFacts, CompiledParts
  <2>2. ValidOperation(p) /\ op = draft.operation
    BY <2>1 DEF validate_plan, AssembledFrom
  <2>3. ASSUME op.type = "clip"
        PROVE  /\ decimal_ms(p.argv.seek) = op.start
               /\ decimal_ms(p.argv.length) = op.duration
    <3>5. rop.type = "clip" /\ rop \in Operation
      BY <2>1, <2>3
    <3>6. draft = CompileClip(rop, p.inputs, recipe.tolerance)
      BY <3>5 DEF Compile
    <3>1. op.start = rop.start /\ op.duration = rop.end - rop.start
      BY <2>2, <3>6 DEF CompileClip, ClipOf
    <3>7. rop.start \in U64 /\ rop.end \in U64
      BY <3>5 DEF Operation
    <3>8. rop.start < rop.end
      BY <2>1, <3>5 DEF validate_recipe
    <3>2. /\ rop.start \in Nat /\ rop.end \in Nat /\ rop.start <= MaxU64 /\ rop.end <= MaxU64
          /\ rop.start < rop.end
      BY <3>7, <3>8, WidthAssumption DEF U64
    <3> HIDE DEF draft
    <3>3. op.start \in Nat /\ op.start <= MaxU64 /\ op.duration \in Nat /\ op.duration <= MaxU64
      BY <3>1, <3>2, WidthAssumption
    <3>4. \E video, audio :
            p.argv = clip_argv(p.inputs[1].path, p.temporary, op.start, op.duration, video, audio)
      <4>1. validate_clip_plan(p)
        BY <2>2, <2>3 DEF ValidOperation
      <4> QED
        BY <4>1, Zenon DEF validate_clip_plan
    <3> QED
      BY <3>3, <3>4, SeekIsStart, TimesReadBack
  <2>4. ASSUME op.type = "thumbnail"
        PROVE  decimal_ms(p.argv.seek) = op.at
    <3>5. rop.type = "thumbnail" /\ rop \in Operation
      BY <2>1, <2>4
    <3>6. draft = CompileThumbnail(rop, p.inputs, recipe.tolerance)
      BY <3>5 DEF Compile
    <3>1. op.at = rop.at
      BY <2>2, <3>6 DEF CompileThumbnail, CompileImage
    <3>7. rop.at \in U64
      BY <3>5 DEF Operation
    <3>2. rop.at \in Nat /\ rop.at <= MaxU64
      BY <3>7, WidthAssumption DEF U64
    <3> HIDE DEF draft
    <3>4. \E video : p.argv = thumbnail_argv(p.inputs[1].path, p.temporary, video, op.at, op.size)
      <4>1. validate_thumbnail_plan(p)
        BY <2>2, <2>4 DEF ValidOperation
      <4> QED
        BY <4>1, Zenon DEF validate_thumbnail_plan
    <3> QED
      BY <3>1, <3>2, <3>4, SeekIsStart, TimesReadBack
  <2> QED
    BY <2>3, <2>4
<1> QED
  BY <1>1, PlanInvariance, PTL

\* The box of a recipe that resizes.
LEMMA RequestedSides ==
  ASSUME NEW r, validate_recipe(r), r.operation \in Operation, r.operation.type = "resize"
  PROVE  \A side \in {r.operation.width, r.operation.height} :
           side \in Nat /\ side >= 2 /\ Even(side) /\ side <= MaxU32
<1> SUFFICES ASSUME NEW side \in {r.operation.width, r.operation.height}
             PROVE  side \in Nat /\ side >= 2 /\ Even(side) /\ side <= MaxU32
  OBVIOUS
<1>1. side \in U32
  BY DEF Operation
<1>2. side \in 2..MaxFrame /\ side % 2 = 0
  BY DEF validate_recipe
<1>3. MaxFrame \in Nat
  BY ThresholdAssumption
<1> QED
  BY <1>1, <1>2, <1>3, WidthAssumption DEF U32, Even

\* What the compiler wrote for a recipe to fit.
LEMMA FittedPlan ==
  ASSUME NEW p, NEW r, r \in Recipe, Arity(r), Compiled(p, r), r.operation.type = "resize",
         r.operation.mode = "fit"
  PROVE  LET op     == r.operation
             source == Rotated(Size(Video(p.inputs[1])), op.rotation)
         IN  /\ p.operation.requested[1] = op.width /\ p.operation.requested[2] = op.height
             /\ p.operation.output = fit_dimensions(source[1], source[2], op.width, op.height)
             /\ p.operation.mode = op.mode /\ p.operation.rotation = op.rotation
             /\ source[1] \in Nat /\ source[2] \in Nat
             /\ ~FitPanics(source[1], source[2], op.width, op.height)
<1> DEFINE op     == r.operation
           size   == Size(Video(p.inputs[1]))
           source == Rotated(size, op.rotation)
           draft  == CompileResize(op, p.inputs, r.tolerance)
<1>1. Compile(op, p.inputs, r.tolerance) = draft
  BY DEF Compile
<1>5. /\ AssembledFrom(p, r, p.inputs, p.backend, draft)
      /\ CompileRefusal(op, p.inputs) = None
  BY <1>1, CompiledParts
<1>2. p.operation = draft.operation
  <2> HIDE DEF draft
  <2> QED
    BY <1>5 DEF AssembledFrom
<1>3. draft.operation = [type |-> "resize", requested |-> <<op.width, op.height>>,
                         output |-> fit_dimensions(source[1], source[2], op.width, op.height),
                         mode |-> op.mode, rotation |-> op.rotation]
  BY DEF CompileResize, CompileWeb
<1>4. ~NoSizedVideo(p.inputs[1]) /\ ~FitPanics(source[1], source[2], op.width, op.height)
  BY <1>5, CodeAssumption DEF CompileRefusal, Commands, Codes
<1>6. 1 \in DOMAIN p.inputs /\ p.inputs[1].streams \in Seq(StreamSummary)
  BY CompiledInputs
<1>8. size[1] \in Nat /\ size[2] \in Nat
  BY <1>4, <1>6, SizedVideo
<1>7. source[1] \in Nat /\ source[2] \in Nat
  BY <1>8 DEF Rotated
<1> HIDE DEF draft, source
<1> QED
  BY <1>2, <1>3, <1>4, <1>7 DEF source

\* A fitted frame lies in the requested box and touches it, has even sides,
\* and keeps the source's shape, in every plan that the compiler writes.
THEOREM FittedFramesFit == Spec => []FitsInTheBox
<1>1. ASSUME PlanInv PROVE FitsInTheBox
  <2> SUFFICES ASSUME Planned, planFile.operation.type = "resize",
                      planFile.operation.mode = "fit"
               PROVE  FitsInTheBox
    BY DEF FitsInTheBox
  <2> DEFINE op == recipe.operation
             source == Rotated(Size(Video(planFile.inputs[1])), op.rotation)
             fitted == fit_dimensions(source[1], source[2], op.width, op.height)
  <2>1. /\ Compiled(planFile, recipe) /\ recipe \in Recipe /\ Arity(recipe)
        /\ op \in Operation /\ op.type = "resize"
    BY <1>1, PlannedFacts
  <2>2. validate_recipe(recipe)
    BY <2>1 DEF Compiled
  <2>3. op.mode = "fit"
    <3> DEFINE draft == CompileResize(op, planFile.inputs, recipe.tolerance)
    <3>1. Compile(op, planFile.inputs, recipe.tolerance) = draft
      BY <2>1 DEF Compile
    <3>4. AssembledFrom(planFile, recipe, planFile.inputs, planFile.backend, draft)
      BY <2>1, <3>1, CompiledParts
    <3>2. planFile.operation = draft.operation
      <4> HIDE DEF draft
      <4> QED
        BY <3>4 DEF AssembledFrom
    <3>3. draft.operation.mode = op.mode
      BY DEF CompileResize, CompileWeb
    <3> QED
      BY <3>2, <3>3
  <2>4. /\ planFile.operation.requested[1] = op.width
        /\ planFile.operation.requested[2] = op.height
        /\ planFile.operation.output = fitted
        /\ planFile.operation.rotation = op.rotation
        /\ source[1] \in Nat /\ source[2] \in Nat
        /\ ~FitPanics(source[1], source[2], op.width, op.height)
    BY <2>1, <2>3, FittedPlan
  <2>6. /\ op.width \in Nat /\ op.width >= 2 /\ Even(op.width) /\ op.width <= MaxU32
        /\ op.height \in Nat /\ op.height >= 2 /\ Even(op.height) /\ op.height <= MaxU32
    BY <2>1, <2>2, RequestedSides
  <2> HIDE DEF source
  <2>7. /\ fitted[1] \in 2..op.width /\ Even(fitted[1])
        /\ fitted[2] \in 2..op.height /\ Even(fitted[2])
        /\ \/ /\ fitted[1] = op.width
              /\ \/ /\ fitted[2] * source[1] <= source[2] * op.width
                    /\ source[2] * op.width < (fitted[2] + 2) * source[1]
                 \/ fitted[2] = 2 /\ source[2] * op.width < 2 * source[1]
           \/ /\ fitted[2] = op.height
              /\ \/ /\ fitted[1] * source[2] <= source[1] * op.height
                    /\ source[1] * op.height < (fitted[1] + 2) * source[2]
                 \/ fitted[1] = 2 /\ source[1] * op.height < 2 * source[2]
    BY <2>4, <2>6, FittedFrame
  <2> HIDE DEF fitted
  <2>8. \A side \in 1..2 : side = 1 \/ side = 2
    OBVIOUS
  <2>9. /\ fitted[1] % 2 = 0 /\ fitted[2] % 2 = 0
    BY <2>7 DEF Even
  <2> QED
    BY <2>4, <2>7, <2>8, <2>9 DEF FitsInTheBox, source
<1> QED
  BY <1>1, PlanInvariance, PTL

\* The estimate that a plan was admitted with covers its duration at the
\* assumed rates, and the temporary estimate covers the output estimate, both
\* up to the width of the integers, whatever the recipe and the inputs.
THEOREM EstimatesAreEnough == Spec => []EstimateIsEnough
<1>1. ASSUME PlanInv PROVE EstimateIsEnough
  <2> SUFFICES ASSUME Planned PROVE EstimateIsEnough
    BY DEF EstimateIsEnough
  <2> DEFINE p == planFile
             e == p.expected
             draft == Compile(recipe.operation, p.inputs, recipe.tolerance)
  <2>1. Compiled(p, recipe) /\ recipe \in Recipe /\ Arity(recipe)
    BY <1>1, PlannedFacts
  <2>2. /\ AssembledFrom(p, recipe, p.inputs, p.backend, draft)
        /\ DraftFits(draft, p.inputs, recipe.operation.type)
    BY <2>1, CompiledParts, DraftOfCompiled
  <2> HIDE DEF draft
  <2>3. ExpectedFits(e, recipe.operation.type)
    BY <2>2 DEF AssembledFrom, DraftFits
  <2>4. /\ p.resources.output = estimated_output_bytes(p.inputs, e)
        /\ p.resources.temporary = estimated_temporary_bytes(p.resources.output)
    BY <2>2 DEF AssembledFrom, estimate_resources
  <2>5. estimated_output_bytes(p.inputs, e) \in Nat
    BY <2>1, <2>3, CompiledInputs, EstimateType
  <2>6. p.resources.temporary >= AtMost(p.resources.output, MaxU64 \div 5)
    BY <2>4, <2>5, TemporaryCovers
  <2>7. ASSUME e.duration /= None
        PROVE  p.resources.output
                 >= AtMost(e.duration * ((IF e.video = None THEN 0 ELSE VideoBitrate)
                                           + (IF e.audio = None THEN 0 ELSE AudioBitrate)),
                           MaxU64) \div BitsPerByteMs
    <3>1. e.duration \in Nat
      BY <2>3, <2>7 DEF ExpectedFits
    <3>2. \A v, a \in BOOLEAN :
            RateEstimate(e.duration, v, a)
              >= AtMost(e.duration * ((IF v THEN VideoBitrate ELSE 0)
                                        + (IF a THEN AudioBitrate ELSE 0)), MaxU64)
                   \div BitsPerByteMs
      BY <3>1, EstimateCovers
    <3>3. (e.video /= None) \in BOOLEAN /\ (e.audio /= None) \in BOOLEAN
      OBVIOUS
    <3>4. RateEstimate(e.duration, e.video /= None, e.audio /= None)
            >= AtMost(e.duration * ((IF e.video /= None THEN VideoBitrate ELSE 0)
                                      + (IF e.audio /= None THEN AudioBitrate ELSE 0)), MaxU64)
                 \div BitsPerByteMs
      BY <3>2, <3>3, Zenon
    <3>5. /\ (IF e.video /= None THEN VideoBitrate ELSE 0)
               = (IF e.video = None THEN 0 ELSE VideoBitrate)
          /\ (IF e.audio /= None THEN AudioBitrate ELSE 0)
               = (IF e.audio = None THEN 0 ELSE AudioBitrate)
      OBVIOUS
    <3>6. p.resources.output = RateEstimate(e.duration, e.video /= None, e.audio /= None)
      BY <2>4, <2>7, Zenon DEF estimated_output_bytes
    <3> QED
      BY <3>4, <3>5, <3>6, Zenon
  <2> QED
    BY <2>6, <2>7, Zenon DEF EstimateIsEnough
<1> QED
  BY <1>1, PlanInvariance, PTL

\* Every stream that a plan drops is named by one of its warnings, however
\* many inputs compete for the bounded list.
THEOREM DropsAreAlwaysRecorded == Spec => []DropsAreRecorded
<1>1. ASSUME PlanInv PROVE DropsAreRecorded
  <2> SUFFICES ASSUME Planned,
                      NEW i \in DOMAIN planFile.inputs,
                      NEW k \in DOMAIN Dropped(planFile.inputs[i].streams, planFile.selected, i),
                      k <= MaxNamed
               PROVE  \E w \in ToSet(planFile.warnings) :
                        /\ w.source = i
                        /\ Dropped(planFile.inputs[i].streams, planFile.selected, i)[k].index
                             \in ToSet(w.streams)
    BY Zenon DEF DropsAreRecorded, Dropped
  <2> DEFINE p == planFile
             dropped == Dropped(p.inputs[i].streams, p.selected, i)
             draft == Compile(recipe.operation, p.inputs, recipe.tolerance)
  <2>1. Compiled(p, recipe) /\ recipe \in Recipe /\ Arity(recipe)
    BY <1>1, PlannedFacts
  <2>2. /\ AssembledFrom(p, recipe, p.inputs, p.backend, draft)
        /\ DraftFits(draft, p.inputs, recipe.operation.type)
    BY <2>1, CompiledParts, DraftOfCompiled
  <2> HIDE DEF draft
  <2>3. p.selected = draft.selected /\ p.warnings = BoundedWarnings(draft.warnings)
    BY <2>2 DEF AssembledFrom
  <2>4. p.inputs[i].streams \in Seq(StreamSummary)
    BY <2>1, CompiledInputs
  <2>5. dropped \in Seq(StreamSummary) /\ Indices(dropped) \in Seq(U32)
    BY <2>4, DroppedIndices
  <2> HIDE DEF dropped
  <2>6. dropped /= <<>> /\ k \in 1..Len(dropped) /\ Len(dropped) \in Nat
        /\ Len(Indices(dropped)) = Len(dropped) /\ Indices(dropped)[k] = dropped[k].index
    <3>1. k \in DOMAIN dropped
      BY DEF dropped
    <3>2. DOMAIN dropped = 1..Len(dropped) /\ Len(dropped) \in Nat
      BY <2>5, LenProperties
    <3>3. dropped /= <<>>
      BY <3>1
    <3> QED
      BY <3>1, <3>2, <3>3 DEF Indices
  <2>7. PICK at \in 1..Len(draft.warnings) :
          /\ at + 1 <= MaxWarnings /\ draft.warnings[at].source = i
          /\ draft.warnings[at].streams = Indices(dropped)
    BY <2>2, <2>3, <2>6 DEF DraftFits, DropsNamed, dropped
  <2> DEFINE w == p.warnings[at + 1]
  <2>8. /\ at + 1 \in DOMAIN p.warnings /\ w.source = i
        /\ w.streams = Cut(Indices(dropped), MaxNamed)
    BY <2>2, <2>3, <2>7, Bounded DEF DraftFits
  <2>9. k \in DOMAIN w.streams /\ w.streams[k] = dropped[k].index
    <3> DEFINE cut == Cut(Indices(dropped), MaxNamed)
    <3>1. /\ cut \in Seq(U32) /\ Len(cut) = AtMost(Len(Indices(dropped)), MaxNamed)
          /\ \A j \in 1..Len(cut) : cut[j] = Indices(dropped)[j]
      BY <2>5, CutType, Thresholds
    <3> HIDE DEF cut
    <3>2. k \in 1..Len(cut)
      BY <2>6, <3>1, Thresholds DEF AtMost
    <3>3. DOMAIN cut = 1..Len(cut)
      BY <3>1, LenProperties
    <3> QED
      BY <2>6, <2>8, <3>1, <3>2, <3>3 DEF cut
  <2> HIDE DEF w
  <2>10. w \in ToSet(p.warnings) /\ dropped[k].index \in ToSet(w.streams)
    BY <2>8, <2>9 DEF ToSet, w
  <2> QED
    BY <2>8, <2>10 DEF dropped
<1> QED
  BY <1>1, PlanInvariance, PTL

-----------------------------------------------------------------------------
(* What a command may end with.                                            *)

\* The steps that leave the last exit alone, and those that set it.
Quiet == exit' = exit /\ recipe' = recipe /\ (planFile' = planFile \/ ~Genuine')

LEMMA StepKinds ==
  ASSUME [Next]_vars
  PROVE  \/ Quiet
         \/ PlanRefused \/ PlanWritten \/ PlanCutShort
         \/ ApplyRefused \/ Verify \/ ShowReceipt
         \/ BackendFails \/ LimitExceeded \/ ApplyFails \/ ApplySucceeds
<1>1. CASE ApplyStarts \/ BackendRenders \/ BackendDeviates \/ UNCHANGED vars
  BY <1>1 DEF ApplyStarts, BackendRenders, BackendDeviates, vars, world, Quiet
<1>2. CASE Others
  BY <1>2 DEF Others, EditPlan, ReplaceInput, ReplaceTools, ReplaceOutput, Disturbed, Genuine,
              world, Quiet
<1> QED
  BY <1>1, <1>2 DEF Next, Plan, Apply, Backend

LEMMA Disturbances ==
  ASSUME [Next]_vars
  PROVE  disturbance' = disturbance \/ disturbance = "none"
BY DEF Next, Plan, PlanRefused, PlanWritten, PlanCutShort, Apply, ApplyRefused, ApplyStarts,
       LimitExceeded, ApplyFails, ApplySucceeds, Backend, BackendRenders, BackendDeviates,
       BackendFails, Verify, ShowReceipt, Others, EditPlan, ReplaceInput, ReplaceTools,
       ReplaceOutput, Disturbed, vars

\* What apply and verify call invalid, they refuse to read.
LEMMA InvalidIsRefused ==
  ASSUME ApplyRefused \/ Verify, exit'.code = "plan_invalid"
  PROVE  PlanRefusal = "plan_invalid" /\ planFile' = planFile /\ disturbance' = disturbance
<1>1. CASE ApplyRefused
  BY <1>1 DEF ApplyRefused, ApplyRefusal, InputRefusal, Ends, PlanRefusal
<1>2. CASE Verify
  <2>1. CASE exit'.code = IF PlanRefusal /= None THEN PlanRefusal ELSE "input_not_found"
    BY <1>2, <2>1 DEF Verify, PlanRefusal
  <2>2. ASSUME NEW file, exit'.code = VerifyOutcome(file)
        PROVE  PlanRefusal = "plan_invalid" /\ planFile' = planFile
                 /\ disturbance' = disturbance
    <3>1. VerificationRefusal(planFile, file, tools.probe) /= "plan_invalid"
      BY VerificationCodes, CodeAssumption DEF Commands, Codes
    <3> QED
      BY <1>2, <2>2, <3>1 DEF Verify, VerifyOutcome, PlanRefusal
  <2> QED
    BY <1>2, <2>1, <2>2 DEF Verify, Ends
<1> QED
  BY <1>1, <1>2

\* `apply` and `verify` call a plan invalid only if it was edited or cut short,
\* or holds a stream without dispositions: what the compiler writes, for
\* whatever recipe and whatever inputs, the validator accepts.
THEOREM InvalidPlansHaveACause == Spec => []InvalidPlanHasCause
<1>1. Init => InvalidPlanHasCause
  BY CodeAssumption DEF Init, InvalidPlanHasCause, Commands, Codes
<1>2. ASSUME PlanInv, IInv, InvalidPlanHasCause, [Next]_vars PROVE InvalidPlanHasCause'
  <2> SUFFICES ASSUME exit'.code = "plan_invalid", Genuine'
               PROVE  planFile' = Partial \/ Unreadable(planFile)'
    BY DEF InvalidPlanHasCause
  <2>1. CASE Quiet
    <3>1. exit.code = "plan_invalid" /\ planFile' = planFile
      BY <2>1 DEF Quiet
    <3>2. Genuine
      BY <1>2, Disturbances DEF Genuine
    <3> QED
      BY <1>2, <3>1, <3>2 DEF InvalidPlanHasCause, Unreadable
  <2>2. CASE ApplyRefused \/ Verify
    <3>1. PlanRefusal = "plan_invalid" /\ planFile' = planFile /\ disturbance' = disturbance
      BY <2>2, InvalidIsRefused
    <3>2. planFile /= None
      BY <3>1 DEF PlanRefusal
    <3>3. CASE planFile /= Partial
      <4>1. Planned
        BY <3>1, <3>2, <3>3 DEF Planned, Genuine
      <4>2. validate_plan(planFile)
        BY <1>2, <4>1, PlannedFacts
      <4> QED
        BY <3>1, <3>2, <3>3, <4>2, CodeAssumption DEF PlanRefusal, Unreadable, Commands, Codes
    <3> QED
      BY <3>1, <3>3
  <2>3. CASE PlanRefused
    <3>1. exit'.code = Planning /\ Planning \in Codes("plan") \union {None} /\ Planning /= None
      BY <1>2, <2>3, PlanningCodes DEF PlanRefused, Ends, IInv
    <3> QED
      BY <3>1 DEF Codes
  <2>4. CASE ApplyFails
    <3>1. \A file : VerificationRefusal(applying.plan, file, tools.probe) /= "plan_invalid"
      BY VerificationCodes, CodeAssumption DEF Commands, Codes
    <3> QED
      BY <2>4, <3>1 DEF ApplyFails, ApplyEnds, Ends
  <2>5. CASE PlanWritten \/ PlanCutShort \/ ShowReceipt
    BY <2>5 DEF PlanWritten, PlanCutShort, ShowReceipt, Ends
  <2>6. CASE BackendFails \/ LimitExceeded \/ ApplySucceeds
    BY <2>6 DEF BackendFails, LimitExceeded, ApplySucceeds, ApplyEnds, Ends
  <2> QED
    BY <1>2, StepKinds, <2>1, <2>2, <2>3, <2>4, <2>5, <2>6
<1> QED
  BY <1>1, <1>2, PlanInvariance, PTL DEF Spec

LEMMA RequirementsCover ==
  ASSUME NEW op, op.type \in Types, NEW inputs
  PROVE  RequiredEncoders(op, inputs) \union RequiredFilters(op) \subseteq Requirements(op.type)
BY DEF Types, RequiredEncoders, RequiredFilters, Requirements

\* When the capability report supports an operation, planning never refuses a
\* recipe for a missing encoder or filter, whatever the installed tools are.
THEOREM CapabilityReportsSuffice == Spec => []CapabilityReportIsEnough
<1> DEFINE Cause == \/ recipe.path.extension /= Extension(recipe.operation)
                    \/ CompileRefusal(recipe.operation, Inspected(recipe, files)) = "unsupported"
           Report == exit = [command |-> "plan", code |-> "unsupported"]
<1>1. Init => CapabilityReportIsEnough
  BY CodeAssumption DEF Init, CapabilityReportIsEnough, Commands, Codes
<1>2. ASSUME PlanInv, IInv, CapabilityReportIsEnough, [Next]_vars
      PROVE  CapabilityReportIsEnough'
  <2> SUFFICES ASSUME Report', supported(recipe.operation.type, tools)',
                      disturbance' /= "input_replaced"
               PROVE  Cause'
    BY DEF CapabilityReportIsEnough
  <2>1. CASE Quiet
    <3>1. disturbance /= "input_replaced"
      BY <1>2, Disturbances
    <3>2. recipe' = recipe /\ exit' = exit
      BY <2>1 DEF Quiet
    <3>3. tools'.features = tools.features
      BY <1>2, <3>1
         DEF Next, Plan, PlanRefused, PlanWritten, PlanCutShort, Apply, ApplyRefused,
             ApplyStarts, LimitExceeded, ApplyFails, ApplySucceeds, Backend, BackendRenders,
             BackendDeviates, BackendFails, Verify, ShowReceipt, Others, EditPlan, ReplaceInput,
             ReplaceTools, ReplaceOutput, world, vars, PlanInv, World
    <3>4. files' = files
      BY <1>2, <3>1
         DEF Next, Plan, PlanRefused, PlanWritten, PlanCutShort, Apply, ApplyRefused,
             ApplyStarts, LimitExceeded, ApplyFails, ApplySucceeds, Backend, BackendRenders,
             BackendDeviates, BackendFails, Verify, ShowReceipt, Others, EditPlan, ReplaceInput,
             ReplaceTools, ReplaceOutput, Disturbed, world, vars
    <3>5. Report /\ supported(recipe.operation.type, tools)
      BY <3>2, <3>3 DEF supported
    <3>6. Cause
      BY <1>2, <3>1, <3>5 DEF CapabilityReportIsEnough
    <3> QED
      BY <3>2, <3>4, <3>6 DEF Inspected
  <2>2. CASE PlanRefused
    <3>1. /\ Planning = "unsupported" /\ recipe' = recipe /\ files' = files /\ tools' = tools
      BY <2>2 DEF PlanRefused, Ends, world
    <3>2. recipe.operation.type \in Types
      BY <1>2 DEF IInv, RecipeKnown
    <3>3. RequiredEncoders(recipe.operation, Inspected(recipe, files))
            \union RequiredFilters(recipe.operation) \subseteq tools.features
      BY <3>1, <3>2, RequirementsCover DEF supported
    <3>4. Cause
      BY <3>1, <3>3, Zenon DEF Planning, plan_refusal
    <3> QED
      BY <3>1, <3>4 DEF Inspected
  <2>3. CASE PlanWritten \/ PlanCutShort
    BY <2>3 DEF PlanWritten, PlanCutShort, Ends
  <2>4. CASE ApplyRefused \/ Verify \/ ShowReceipt
    BY <2>4 DEF ApplyRefused, Verify, ShowReceipt, Ends
  <2>5. CASE BackendFails \/ LimitExceeded \/ ApplyFails \/ ApplySucceeds
    BY <2>5 DEF BackendFails, LimitExceeded, ApplyFails, ApplySucceeds, ApplyEnds, Ends
  <2> QED
    BY <1>2, StepKinds, <2>1, <2>2, <2>3, <2>4, <2>5
<1> QED
  BY <1>1, <1>2, PlanInvariance, PTL DEF Spec
=============================================================================
