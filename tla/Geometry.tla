------------------------------ MODULE Geometry ------------------------------
(***************************************************************************)
(* The arithmetic of the plan compiler: frame sizes, resource estimates    *)
(* and the two decimal notations, as src/src/plan.rs computes them.        *)
(*                                                                         *)
(* Rust's u32 and u64 are 0..MaxU32 and 0..MaxU64; the rates, floors and   *)
(* class thresholds of the source are constants too, so that a checker     *)
(* whose integers are narrower than u64 reaches every boundary.            *)
(***************************************************************************)
EXTENDS Positions, FiniteSetsExt, SequencesExt

CONSTANTS
  MaxU32,            \* u32::MAX
  MaxU64,            \* u64::MAX
  VideoBitrate,      \* 2_500_000
  AudioBitrate,      \*   192_000
  BitsPerByteMs,     \*     8_000: bits per second to bytes per millisecond
  MinEstimate,       \* 64 * 1024
  LightDuration, LightPixels, LightInputs,           \* ResourceClass::Light
  StandardDuration, StandardPixels, StandardInputs,  \* ResourceClass::Standard
  None               \* Option::None

ASSUME WidthAssumption ==
  /\ MaxU32 \in Nat /\ MaxU64 \in Nat
  /\ MaxU32 >= 3 /\ MaxU32 % 2 = 1
  /\ MaxU32 * MaxU32 <= MaxU64

ASSUME RateAssumption ==
  /\ VideoBitrate \in Nat /\ AudioBitrate \in Nat /\ MinEstimate \in Nat
  /\ BitsPerByteMs \in Nat /\ BitsPerByteMs > 0

ASSUME NoneAssumption == None \notin Int

-----------------------------------------------------------------------------
(* Frame sizes.  A size is <<width, height>>.                              *)

AtLeast(value, floor) == IF value < floor THEN floor ELSE value
AtMost(value, ceiling) == IF value > ceiling THEN ceiling ELSE value

\* The even number at or below a value, at least 2, within u32.
even_floor(value) ==
  LET raised == AtLeast(value, 2)
      even   == raised - (raised % 2)
  IN  IF even <= MaxU32 THEN even ELSE MaxU32 - 1

\* The largest frame of the source's shape inside the target box: the side
\* that touches the box is the box's, the other follows the shape.
FitRoundsUp(sw, sh, tw, th) ==   \* the other side rounded to the next even number
  IF sw * th > tw * sh
  THEN <<tw, even_floor((sh * tw) \div sw + 1)>>
  ELSE <<even_floor((sw * th) \div sh + 1), th>>

fit_dimensions(sw, sh, tw, th) ==
  IF sw * th > tw * sh
  THEN <<tw, even_floor((sh * tw) \div sw)>>
  ELSE <<even_floor((sw * th) \div sh), th>>

\* Where fit_dimensions divides by zero.
FitPanics(sw, sh, tw, th) == IF sw * th > tw * sh THEN sw = 0 ELSE sh = 0

\* The height of a still image of the given width.
AspectHeight(size, width) == even_floor((size[2] * width) \div size[1])

\* A quarter turn swaps the sides.
Rotated(size, rotation) ==
  IF rotation \in {"clockwise90", "counter_clockwise90"}
  THEN <<size[2], size[1]>> ELSE size

-----------------------------------------------------------------------------
(* Resource estimates.                                                     *)

saturating_add(a, b) == AtMost(a + b, MaxU64)

WrappingMul(a, b) == (a * b) % (MaxU64 + 1)
saturating_mul(a, b) == AtMost(a * b, MaxU64)

\* What a rendering of known duration is expected to occupy.
RateEstimate(duration, hasVideo, hasAudio) ==
  LET video == IF hasVideo THEN VideoBitrate ELSE 0
      audio == IF hasAudio THEN AudioBitrate ELSE 0
  IN  AtLeast(saturating_mul(duration, saturating_add(video, audio)) \div BitsPerByteMs,
              MinEstimate)

\* A saturating sum of numbers that are not negative.
SaturatingSum(numbers) == AtMost(Total(numbers), MaxU64)

estimated_output_bytes(inputs, expected) ==
  IF expected.duration /= None
  THEN RateEstimate(expected.duration, expected.video /= None, expected.audio /= None)
  ELSE IF expected.video /= None
  THEN AtLeast(saturating_mul(expected.video.width, expected.video.height), MinEstimate)
  ELSE AtLeast(SaturatingSum([i \in DOMAIN inputs |-> inputs[i].bytes]), MinEstimate)

estimated_temporary_bytes(output) == saturating_mul(output, 6) \div 5

\* The frame areas of every stream whose size is known.
Pixels(inputs) ==
  UNION {{s.width * s.height : s \in {t \in ToSet(inputs[i].streams) :
                                        t.width /= None /\ t.height /= None}} :
         i \in DOMAIN inputs}

resource_class(inputs) ==
  LET total == SaturatingSum([i \in DOMAIN inputs |->
                 IF inputs[i].duration = None THEN 0 ELSE inputs[i].duration])
      most  == Max(Pixels(inputs) \union {0})
  IN  IF total <= LightDuration /\ most <= LightPixels /\ Len(inputs) <= LightInputs
      THEN "light"
      ELSE IF /\ total <= StandardDuration /\ most <= StandardPixels
              /\ Len(inputs) <= StandardInputs
      THEN "standard" ELSE "heavy"

estimate_resources(inputs, expected, budgets) ==
  LET output == estimated_output_bytes(inputs, expected)
  IN  [class |-> resource_class(inputs),
       output |-> output,
       temporary |-> estimated_temporary_bytes(output),
       budgets |-> budgets]

-----------------------------------------------------------------------------
(* Decimal notations.  A numeral is a sign, a whole part and the sequence  *)
(* of its digits after the point.                                          *)

Unpadded(value) ==   \* a fraction written without its leading zeros
  [negative |-> FALSE, whole |-> value \div 1000,
   digits |-> IF value % 1000 < 100 THEN <<(value % 100) \div 10, value % 10>>
              ELSE <<(value % 1000) \div 100, (value % 100) \div 10, value % 10>>]

\* The "{}.{:03}" of the -ss and -t arguments.
format_milliseconds(value) ==
  [negative |-> FALSE, whole |-> value \div 1000,
   digits |-> <<(value % 1000) \div 100, (value % 100) \div 10, value % 10>>]

\* The "{}.{:02}" of a loudness in hundredths: Rust's quotient rounds to
\* zero and prints its own sign, which a quotient of zero does not have.
format_loudness(value) ==
  LET size == IF value < 0 THEN -value ELSE value
  IN  [negative |-> value < 0 /\ size \div 100 /= 0, whole |-> size \div 100,
       digits |-> <<(size % 100) \div 10, size % 10>>]

\* ffprobe's seconds in milliseconds: three digits count, the rest is cut.
decimal_ms(numeral) ==
  LET digit(i) == IF i <= Len(numeral.digits) THEN numeral.digits[i] ELSE 0
      ms == numeral.whole * 1000 + digit(1) * 100 + digit(2) * 10 + digit(3)
  IN  IF numeral.negative \/ ms > MaxU64 THEN None ELSE ms
=============================================================================
