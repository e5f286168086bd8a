--------------------------- MODULE ReadersProofs ----------------------------
(***************************************************************************)
(* Theorems about Readers.tla, for every set of lines, every limit and     *)
(* every way in which the bytes arrive.                                    *)
(***************************************************************************)
EXTENDS Readers, PositionsProofs

Text == Seq(Bytes \union {"nl"})

-----------------------------------------------------------------------------
(* The invariants.                                                         *)

\* How much of the text read_bounded_line has consumed.
Consumed == taken - Len(buffer)

Typed ==
  /\ role \in {"progress", "diagnostic"}
  /\ text \in Text /\ taken \in 0..Len(text)
  /\ buffer \in Text /\ Len(buffer) <= taken
  /\ line \in Text \union {None} /\ lines \in Seq(Text)

\* The members of S next to each other: s, which may be the beginning, and i.
Adjacent(S, s, i) == s \in S \union {0} /\ s < i /\ \A j \in S : ~(s < j /\ j < i)

\* How many lines of the text have ended before the i-th byte.
Before(t, i) == Cardinality(Below(Breaks(t), i))

\* What is kept of the bytes that follow s, up to the i-th.
Bounded(t, s, i) == Cut(SubSeq(t, s + 1, i), MaxLine)

\* Every newline consumed has returned the line that it ends.
EndedLines ==
  \A i \in Breaks(text) :
    i <= Consumed =>
      /\ Before(text, i) + 1 \in DOMAIN lines
      /\ \E s \in Breaks(text) \union {0} :
           /\ Adjacent(Breaks(text), s, i)
           /\ lines[Before(text, i) + 1] = Stripped(Bounded(text, s, i - 1))

\* The line being read holds what was consumed since the last newline; after
\* the end of the stream it has been returned as it was.
BegunLine ==
  \E s \in Breaks(text) \union {0} :
    /\ Adjacent(Breaks(text), s, Consumed + 1)
    /\ \/ /\ line /= None /\ s < Consumed
          /\ line = Bounded(text, s, Consumed)
          /\ Len(lines) = Before(text, Consumed + 1)
       \/ /\ line = None /\ s = Consumed
          /\ Len(lines) = Before(text, Consumed + 1)
       \/ /\ line = None /\ s < Consumed
          /\ closed /\ Consumed = Len(text)
          /\ Len(lines) = Before(text, Consumed + 1) + 1
          /\ lines[Len(lines)] = Bounded(text, s, Consumed)

Buffered == \A i \in 1..Len(buffer) : buffer[i] = text[Consumed + i]

EndReached == reader = "done" => line = None /\ closed /\ Consumed = Len(text)

LinesInv ==
  /\ Typed
  /\ role = "diagnostic" => lines = <<>>
  /\ role = "progress" => Buffered /\ EndedLines /\ BegunLine /\ EndReached

FieldValues == [Keys -> Text \union {None}]

\* The values of the keys among the lines after s, up to the i-th.
Values(read, s, i) == [key \in Keys |-> Latest(read, key, s + 1..i)]

\* Every block that has ended was sent as it was read, and the fields are
\* those of the block that has begun.
BlocksInv ==
  /\ fields \in FieldValues
  /\ events \in Seq(FieldValues) /\ Len(events) = Cardinality(BlockEnds(lines))
  /\ \A i \in BlockEnds(lines) :
       \E s \in BlockEnds(lines) \union {0} :
         /\ Adjacent(BlockEnds(lines), s, i)
         /\ events[Cardinality(Below(BlockEnds(lines), i)) + 1] = Values(lines, s, i)
  /\ \E s \in BlockEnds(lines) \union {0} :
       /\ Adjacent(BlockEnds(lines), s, Len(lines) + 1)
       /\ fields = Values(lines, s, Len(lines))

TailInv == Typed /\ TailIsTheEnd

-----------------------------------------------------------------------------
(* Parts of sequences.                                                     *)

LEMMA SmallerOfTwo ==
  ASSUME NEW a \in Int, NEW b \in Int
  PROVE  Min({a, b}) = IF a <= b THEN a ELSE b
BY DEF Min

LEMMA LargerOfTwo ==
  ASSUME NEW a \in Int, NEW b \in Int
  PROVE  Max({a, b}) = IF a >= b THEN a ELSE b
BY DEF Max

\* A part of a sequence, element by element.
LEMMA Part ==
  ASSUME NEW T, NEW t \in Seq(T), NEW m \in 1..Len(t) + 1, NEW n \in m - 1..Len(t)
  PROVE  /\ SubSeq(t, m, n) \in Seq(T)
         /\ Len(SubSeq(t, m, n)) = n - m + 1
         /\ \A i \in 1..n - m + 1 : SubSeq(t, m, n)[i] = t[m + i - 1]
<1>1. \A i \in m..n : t[i] \in T
  BY ElementOfSeq
<1> QED
  BY <1>1, SubSeqProperties

\* What is appended does not change the parts that were there.
LEMMA PartKept ==
  ASSUME NEW T, NEW t \in Seq(T), NEW u \in Seq(T),
         NEW m \in 1..Len(t) + 1, NEW n \in m - 1..Len(t)
  PROVE  SubSeq(t \o u, m, n) = SubSeq(t, m, n)
<1>1. /\ t \o u \in Seq(T) /\ Len(t \o u) = Len(t) + Len(u)
      /\ \A i \in 1..Len(t) : (t \o u)[i] = t[i]
  BY ConcatProperties, LenProperties
<1>2. Len(t) \in Nat /\ Len(u) \in Nat
  BY LenProperties
<1>3. m \in 1..Len(t \o u) + 1 /\ n \in m - 1..Len(t \o u)
  BY <1>1, <1>2
<1> DEFINE a == SubSeq(t \o u, m, n)
           b == SubSeq(t, m, n)
<1>4. /\ a \in Seq(T) /\ Len(a) = n - m + 1
      /\ \A i \in 1..n - m + 1 : a[i] = (t \o u)[m + i - 1]
  BY <1>1, <1>3, Part
<1>5. /\ b \in Seq(T) /\ Len(b) = n - m + 1
      /\ \A i \in 1..n - m + 1 : b[i] = t[m + i - 1]
  BY Part
<1>6. \A i \in 1..n - m + 1 : m + i - 1 \in 1..Len(t)
  BY <1>2
<1> HIDE DEF a, b
<1>7. \A i \in 1..Len(a) : a[i] = b[i]
  BY <1>1, <1>4, <1>5, <1>6
<1>8. a = b
  BY <1>4, <1>5, <1>7, SeqEqual
<1> QED
  BY <1>8 DEF a, b

\* The last n elements of a sequence.
LEMMA LastElements ==
  ASSUME NEW T, NEW t \in Seq(T), NEW n \in Nat, n > 0,
         NEW m \in Nat, Len(t) <= n => m = Len(t), Len(t) > n => m = n
  PROVE  /\ LastOf(t, n) \in Seq(T) /\ Len(LastOf(t, n)) = m
         /\ \A i \in 1..m : LastOf(t, n)[i] = t[Len(t) - m + i]
<1> DEFINE first == Len(t) - m + 1
<1>1. Len(t) \in Nat
  BY LenProperties
<1>2. Max({1, Len(t) - n + 1}) = first
  <2>1. Len(t) - n + 1 \in Int
    BY <1>1
  <2>2. Max({1, Len(t) - n + 1}) = IF 1 >= Len(t) - n + 1 THEN 1 ELSE Len(t) - n + 1
    BY <2>1, LargerOfTwo
  <2> QED
    BY <1>1, <2>2
<1>3. LastOf(t, n) = SubSeq(t, first, Len(t))
  BY <1>2 DEF LastOf
<1>4. m <= Len(t)
  BY <1>1
<1>5. first \in 1..Len(t) + 1 /\ Len(t) \in first - 1..Len(t)
  BY <1>1, <1>4
<1>6. /\ SubSeq(t, first, Len(t)) \in Seq(T)
      /\ Len(SubSeq(t, first, Len(t))) = Len(t) - first + 1
      /\ \A i \in 1..Len(t) - first + 1 : SubSeq(t, first, Len(t))[i] = t[first + i - 1]
  BY <1>5, Part
<1>7. Len(t) - first + 1 = m /\ \A i \in 1..m : first + i - 1 = Len(t) - m + i
  BY <1>1, <1>4
<1> QED
  BY <1>3, <1>6, <1>7

\* What precedes the last n elements does not matter to what follows them.
LEMMA LastOfLast ==
  ASSUME NEW T, NEW s \in Seq(T), NEW t \in Seq(T), NEW n \in Nat, n > 0
  PROVE  LastOf(LastOf(s, n) \o t, n) = LastOf(s \o t, n)
<1> DEFINE k == IF Len(s) <= n THEN Len(s) ELSE n
           u == LastOf(s, n)
           m == IF Len(s) + Len(t) <= n THEN Len(s) + Len(t) ELSE n
           v == u \o t
           w == s \o t
           a == LastOf(v, n)
           b == LastOf(w, n)
<1>1. Len(s) \in Nat /\ Len(t) \in Nat
  BY LenProperties
<1>2. /\ k \in Nat /\ k <= Len(s) /\ m \in Nat
      /\ Len(s) <= n => k = Len(s)
      /\ Len(s) > n => k = n
      /\ k + Len(t) <= n => m = k + Len(t)
      /\ k + Len(t) > n => m = n
      /\ Len(s) + Len(t) <= n => m = Len(s) + Len(t)
      /\ Len(s) + Len(t) > n => m = n
  BY <1>1
<1> HIDE DEF k, m
<1>3. /\ u \in Seq(T) /\ Len(u) = k
      /\ \A i \in 1..k : u[i] = s[Len(s) - k + i]
  BY <1>2, LastElements
<1> HIDE DEF u
<1>4. /\ v \in Seq(T) /\ Len(v) = k + Len(t)
      /\ \A i \in 1..k + Len(t) : v[i] = IF i <= k THEN u[i] ELSE t[i - k]
  BY <1>3, ConcatProperties
<1>5. /\ w \in Seq(T) /\ Len(w) = Len(s) + Len(t)
      /\ \A i \in 1..Len(s) + Len(t) : w[i] = IF i <= Len(s) THEN s[i] ELSE t[i - Len(s)]
  BY ConcatProperties
<1> HIDE DEF v, w
<1>6. /\ a \in Seq(T) /\ Len(a) = m
      /\ \A i \in 1..m : a[i] = v[k + Len(t) - m + i]
  <2>1. /\ m \in Nat /\ v \in Seq(T)
        /\ Len(v) <= n => m = Len(v)
        /\ Len(v) > n => m = n
    BY <1>2, <1>4
  <2>2. /\ a \in Seq(T) /\ Len(a) = m
        /\ \A i \in 1..m : a[i] = v[Len(v) - m + i]
    BY <2>1, LastElements
  <2> HIDE DEF a, b
  <2> QED
    BY <1>1, <1>2, <1>4, <2>2
<1>7. /\ b \in Seq(T) /\ Len(b) = m
      /\ \A i \in 1..m : b[i] = w[Len(s) + Len(t) - m + i]
  <2>1. /\ m \in Nat /\ w \in Seq(T)
        /\ Len(w) <= n => m = Len(w)
        /\ Len(w) > n => m = n
    BY <1>2, <1>5
  <2>2. /\ b \in Seq(T) /\ Len(b) = m
        /\ \A i \in 1..m : b[i] = w[Len(w) - m + i]
    BY <2>1, LastElements
  <2> HIDE DEF a, b
  <2> QED
    BY <1>1, <1>2, <1>5, <2>2
<1> HIDE DEF a, b
<1>8. ASSUME NEW i \in 1..m PROVE a[i] = b[i]
  <2> DEFINE x == k + Len(t) - m + i
             y == Len(s) + Len(t) - m + i
  <2>1. x \in 1..k + Len(t) /\ y \in 1..Len(s) + Len(t) /\ y - x = Len(s) - k
    BY <1>1, <1>2
  <2>2. a[i] = v[x] /\ b[i] = w[y]
    BY <1>6, <1>7
  <2> HIDE DEF x, y
  <2>3. CASE x <= k
    <3>1. y <= Len(s) /\ x \in 1..k /\ Len(s) - k + x = y
      BY <1>1, <1>2, <2>1, <2>3
    <3> QED
      BY <1>3, <1>4, <1>5, <2>1, <2>2, <2>3, <3>1
  <2>4. CASE ~(x <= k)
    <3>1. ~(y <= Len(s)) /\ x - k = y - Len(s)
      BY <1>1, <1>2, <2>1, <2>4
    <3> QED
      BY <1>4, <1>5, <2>1, <2>2, <2>4, <3>1
  <2> QED
    BY <2>3, <2>4
<1>9. a = b
  BY <1>6, <1>7, <1>8, SeqEqual
<1> QED
  BY <1>9 DEF a, b, u, v, w

\* The smallest of some numbers.
LEMMA LeastOfSome ==
  ASSUME NEW S, S \subseteq Nat, NEW least \in S, \A other \in S : least <= other
  PROVE  Min(S) = least
<1>1. \A x \in S : (\A y \in S : x <= y) => x = least
  OBVIOUS
<1> QED
  BY <1>1 DEF Min

\* What Cut leaves of a sequence.
LEMMA CutElements ==
  ASSUME NEW T, NEW t \in Seq(T), NEW n \in Int, NEW m \in Int,
         n <= Len(t) => m = n, n > Len(t) => m = Len(t)
  PROVE  /\ Cut(t, n) \in Seq(T) /\ Cut(t, n) = SubSeq(t, 1, m)
         /\ m >= 0 => /\ Len(Cut(t, n)) = m
                      /\ \A i \in 1..m : Cut(t, n)[i] = t[i]
<1>1. Len(t) \in Nat
  BY LenProperties
<1>2. Min({n, Len(t)}) = m
  BY <1>1, SmallerOfTwo
<1>3. Cut(t, n) = SubSeq(t, 1, m)
  BY <1>2 DEF Cut
<1>4. CASE m < 1
  <2>1. SubSeq(t, 1, m) = <<>>
    BY <1>4, SubSeqEmpty
  <2> QED
    BY <1>3, <1>4, <2>1, EmptySeq
<1>5. CASE m >= 1
  <2>1. m \in 1 - 1..Len(t) /\ 1 \in 1..Len(t) + 1
    BY <1>1, <1>5
  <2>2. /\ SubSeq(t, 1, m) \in Seq(T)
        /\ Len(SubSeq(t, 1, m)) = m - 1 + 1
        /\ \A i \in 1..m - 1 + 1 : SubSeq(t, 1, m)[i] = t[1 + i - 1]
    BY <2>1, Part
  <2> QED
    BY <1>3, <1>5, <2>2
<1> QED
  BY <1>4, <1>5

\* Stripped returns a line, without its return if it has one.
LEMMA StrippedLine ==
  ASSUME NEW T, NEW l \in Seq(T)
  PROVE  /\ Stripped(l) \in Seq(T)
         /\ Stripped(l) = l \/ (l /= <<>> /\ Stripped(l) = SubSeq(l, 1, Len(l) - 1))
<1>1. CASE l /= <<>>
  <2>1. Len(l) - 1 \in 1 - 1..Len(l) /\ 1 \in 1..Len(l) + 1
    BY <1>1, EmptySeq, LenProperties
  <2>2. SubSeq(l, 1, Len(l) - 1) \in Seq(T)
    BY <2>1, Part
  <2> QED
    BY <1>1, <2>2 DEF Stripped, Front
<1>2. CASE l = <<>>
  BY <1>2 DEF Stripped
<1> QED
  BY <1>1, <1>2

-----------------------------------------------------------------------------
(* Types.                                                                  *)

\* The backend's writes are appended to the text.
LEMMA TextGrows ==
  ASSUME text \in Text, Backend
  PROVE  /\ \E u \in Text : text' = text \o u
         /\ text' \in Text /\ Len(text') \in Nat /\ Len(text') >= Len(text)
<1>1. \A l \in Lines \union {<<>>} : l \in Text /\ l \o <<"nl">> \in Text
  <2> TAKE l \in Lines \union {<<>>}
  <2>1. l \in Text
    <3>1. CASE l = <<>>
      BY <3>1, EmptySeq DEF Text
    <3>2. CASE l \in Lines
      <4>1. l \in Seq(Bytes) /\ Bytes \subseteq Bytes \union {"nl"}
        BY <3>2, LineAssumption
      <4> QED
        BY <4>1, SeqMonotonic DEF Text
    <3> QED
      BY <3>1, <3>2
  <2>2. <<"nl">> \in Text
    BY DEF Text
  <2> QED
    BY <2>1, <2>2, ConcatProperties DEF Text
<1>2. \E u \in Text : text' = text \o u
  <2>1. CASE BackendWrites
    <3>1. PICK l \in Lines : text' = text \o l \o <<"nl">>
      BY <2>1 DEF BackendWrites
    <3>2. text' = text \o (l \o <<"nl">>)
      <4>1. l \in Text /\ <<"nl">> \in Text
        BY <1>1 DEF Text
      <4> QED
        BY <3>1, <4>1, ConcatAssociative DEF Text
    <3> QED
      BY <1>1, <3>2
  <2>2. CASE BackendCloses
    BY <1>1, <2>2 DEF BackendCloses
  <2> QED
    BY <2>1, <2>2 DEF Backend
<1>3. PICK u \in Text : text' = text \o u
  BY <1>2
<1>4. text' \in Text /\ Len(text') = Len(text) + Len(u) /\ Len(text) \in Nat /\ Len(u) \in Nat
  BY <1>3, ConcatProperties, LenProperties DEF Text
<1> QED
  BY <1>2, <1>4

\* A read returns what follows in the pipe.
LEMMA ChunkRead ==
  ASSUME Typed, NEW chunk \in Chunks, Unread > 0
  PROVE  \E n \in 1..Unread :
           /\ chunk = SubSeq(text, taken + 1, taken + n)
           /\ chunk \in Text /\ Len(chunk) = n
           /\ \A i \in 1..n : chunk[i] = text[taken + i]
           /\ SubSeq(text, 1, taken) \o chunk = SubSeq(text, 1, taken + n)
<1>1. text \in Seq(Bytes \union {"nl"}) /\ taken \in Nat /\ Len(text) \in Nat /\ taken <= Len(text)
  BY LenProperties DEF Typed, Text
<1>2. Unread \in Nat /\ ChunkSize \in Nat
  BY <1>1, LimitAssumption DEF Unread
<1>3. Min({Unread, ChunkSize}) <= Unread
  BY <1>2, SmallerOfTwo
<1>4. PICK n \in 1..Min({Unread, ChunkSize}) : chunk = SubSeq(text, taken + 1, taken + n)
  BY DEF Chunks
<1>5. n \in 1..Unread
  BY <1>2, <1>3, <1>4, SmallerOfTwo
<1>6. /\ taken + 1 \in 1..Len(text) + 1 /\ taken + n \in taken + 1 - 1..Len(text)
      /\ taken \in 1 - 1..Len(text) /\ taken + n \in taken..Len(text) /\ 1 \in 1..Len(text) + 1
  BY <1>1, <1>5 DEF Unread
<1>7. /\ chunk \in Text /\ Len(chunk) = taken + n - (taken + 1) + 1
      /\ \A i \in 1..taken + n - (taken + 1) + 1 : chunk[i] = text[taken + 1 + i - 1]
  BY <1>1, <1>4, <1>6, Part DEF Text
<1>8. SubSeq(text, 1, taken) \o chunk = SubSeq(text, 1, taken + n)
  BY <1>1, <1>4, <1>6, ConcatAdjacentSubSeq
<1>9. Len(chunk) = n /\ \A i \in 1..n : chunk[i] = text[taken + i]
  BY <1>1, <1>5, <1>7
<1> QED
  BY <1>4, <1>5, <1>7, <1>8, <1>9

\* Where the first newline of the buffer is.
LEMMA FirstBreakFound ==
  ASSUME buffer \in Text, Breaks(buffer) /= {}
  PROVE  /\ FirstBreak \in 1..Len(buffer) /\ buffer[FirstBreak] = "nl"
         /\ \A j \in 1..FirstBreak - 1 : buffer[j] /= "nl"
<1>1. Len(buffer) \in Nat /\ DOMAIN buffer = 1..Len(buffer)
  BY LenProperties DEF Text
<1>2. Breaks(buffer) \subseteq Nat
  BY <1>1 DEF Breaks
<1>3. PICK first \in Breaks(buffer) : \A other \in Breaks(buffer) : first <= other
  BY <1>2, Smallest
<1>4. first \in 1..Len(buffer) /\ buffer[first] = "nl"
  BY <1>1, <1>3 DEF Breaks
<1> DEFINE S == Breaks(buffer) \union {Len(buffer) + 1}
<1>5. S \subseteq Nat /\ first \in S /\ \A other \in S : first <= other
  BY <1>1, <1>2, <1>3, <1>4
<1>6. FirstBreak = first
  BY <1>5, LeastOfSome DEF FirstBreak
<1>7. ASSUME NEW j \in 1..first - 1 PROVE buffer[j] /= "nl"
  <2>1. j \in DOMAIN buffer /\ ~(first <= j)
    BY <1>1, <1>4
  <2> QED
    BY <1>3, <2>1 DEF Breaks
<1> QED
  BY <1>4, <1>6, <1>7

\* A piece of the buffer extends the line within its bound.
LEMMA ExtendedTyped ==
  ASSUME Typed, NEW content \in Text
  PROVE  SoFar \in Text /\ Extended(content) \in Text
<1>1. SoFar \in Text
  BY EmptySeq DEF SoFar, Typed, Text
<1>2. Len(SoFar) \in Nat /\ MaxLine \in Nat /\ Len(content) \in Nat
  BY <1>1, LimitAssumption, LenProperties DEF Text
<1> DEFINE n == MaxLine - Len(SoFar)
           m == IF n <= Len(content) THEN n ELSE Len(content)
<1>3. /\ n \in Int /\ m \in Int
      /\ n <= Len(content) => m = n
      /\ n > Len(content) => m = Len(content)
  BY <1>2
<1> HIDE DEF n, m
<1>4. Cut(content, n) \in Text
  BY <1>3, CutElements DEF Text
<1> QED
  BY <1>1, <1>4, ConcatProperties DEF Extended, Text, n

\* The line that TakeLine or LastLine returns.
Returned ==
  IF Breaks(buffer) /= {} THEN Stripped(Extended(SubSeq(buffer, 1, FirstBreak - 1))) ELSE line

\* What returning a line does to the buffer.
LEMMA LineTaken ==
  ASSUME Typed, TakeLine \/ LastLine
  PROVE  /\ Returned \in Text /\ HandleLine(Returned) /\ lines' = Append(lines, Returned)
         /\ buffer' \in Text /\ Len(buffer') <= Len(buffer)
         /\ line' = None
         /\ UNCHANGED <<role, text, closed, taken, tail, reader>>
<1>1. Len(buffer) \in Nat /\ DOMAIN buffer = 1..Len(buffer)
  BY LenProperties DEF Typed, Text
<1>2. CASE TakeLine
  <2>1. Breaks(buffer) /= {}
    BY <1>2 DEF TakeLine
  <2>2. FirstBreak \in 1..Len(buffer)
    BY <2>1, FirstBreakFound DEF Typed
  <2>3. /\ 1 \in 1..Len(buffer) + 1 /\ FirstBreak - 1 \in 1 - 1..Len(buffer)
        /\ FirstBreak + 1 \in 1..Len(buffer) + 1 /\ Len(buffer) \in FirstBreak + 1 - 1..Len(buffer)
    BY <1>1, <2>2
  <2>4. SubSeq(buffer, 1, FirstBreak - 1) \in Text
    BY <2>3, Part DEF Typed, Text
  <2>5. /\ SubSeq(buffer, FirstBreak + 1, Len(buffer)) \in Text
        /\ Len(SubSeq(buffer, FirstBreak + 1, Len(buffer))) = Len(buffer) - (FirstBreak + 1) + 1
    BY <2>3, Part DEF Typed, Text
  <2>6. Stripped(Extended(SubSeq(buffer, 1, FirstBreak - 1))) \in Text
    BY <2>4, ExtendedTyped, StrippedLine DEF Text
  <2>7. Len(buffer) - (FirstBreak + 1) + 1 <= Len(buffer)
    BY <1>1, <2>2
  <2> QED
    BY <1>2, <2>1, <2>5, <2>6, <2>7 DEF TakeLine, HandleLine, Returned
<1>3. CASE LastLine
  <2>1. buffer = <<>> /\ line \in Text /\ buffer' = buffer
    BY <1>3 DEF LastLine, Typed
  <2>2. Breaks(buffer) = {}
    BY <2>1 DEF Breaks
  <2> QED
    BY <1>1, <1>3, <2>1, <2>2 DEF LastLine, HandleLine, Returned, Typed
<1> QED
  BY <1>2, <1>3

LEMMA TypedStep ==
  ASSUME Typed, [Next]_vars
  PROVE  Typed'
<1>1. taken \in Nat /\ Len(text) \in Nat /\ taken <= Len(text) /\ Len(buffer) \in Nat
  BY LenProperties DEF Typed, Text
<1>2. CASE Backend
  <2>1. text' \in Text /\ Len(text') \in Nat /\ Len(text') >= Len(text)
    BY <1>2, TextGrows DEF Typed
  <2>2. UNCHANGED <<role, taken, buffer, line, lines>>
    BY <1>2 DEF Backend, BackendWrites, BackendCloses
  <2> QED
    BY <1>1, <2>1, <2>2 DEF Typed
<1>3. CASE FillBuffer
  <2>1. PICK chunk \in Chunks : buffer' = chunk /\ taken' = taken + Len(chunk)
    BY <1>3 DEF FillBuffer
  <2>2. PICK n \in 1..Unread : chunk \in Text /\ Len(chunk) = n
    BY <1>3, ChunkRead DEF FillBuffer
  <2>3. taken' \in 0..Len(text) /\ Len(buffer') <= taken'
    BY <1>1, <2>1, <2>2 DEF Unread
  <2> QED
    BY <1>3, <2>1, <2>2, <2>3 DEF FillBuffer, Typed
<1>4. CASE TakePiece
  <2>1. line' \in Text
    BY <1>4, ExtendedTyped DEF TakePiece, Typed
  <2>2. buffer' \in Text /\ Len(buffer') <= taken
    BY <1>1, <1>4, EmptySeq DEF TakePiece, Text
  <2> QED
    BY <1>4, <2>1, <2>2 DEF TakePiece, Typed
<1>5. CASE TakeLine \/ LastLine
  <2>1. /\ Returned \in Text /\ lines' = Append(lines, Returned)
        /\ buffer' \in Text /\ Len(buffer') <= Len(buffer)
        /\ line' = None
        /\ UNCHANGED <<role, text, closed, taken, tail, reader>>
    BY <1>5, LineTaken
  <2>2. lines' \in Seq(Text)
    BY <2>1, AppendProperties DEF Typed
  <2>3. Len(buffer') <= taken
    BY <1>1, <2>1, LenProperties DEF Typed, Text
  <2> QED
    BY <2>1, <2>2, <2>3 DEF Typed
<1>6. CASE ReadTail
  <2>1. PICK chunk \in Chunks : taken' = taken + Len(chunk)
    BY <1>6 DEF ReadTail
  <2>2. PICK n \in 1..Unread : Len(chunk) = n
    BY <1>6, ChunkRead DEF ReadTail
  <2>3. taken' \in 0..Len(text) /\ Len(buffer) <= taken'
    BY <1>1, <2>1, <2>2 DEF Unread, Typed
  <2> QED
    BY <1>6, <2>3 DEF ReadTail, Typed
<1>7. CASE \/ ProgressEnds \/ ProgressFails \/ TailEnds \/ TailFails \/ UNCHANGED vars
  BY <1>7 DEF ProgressEnds, ProgressFails, TailEnds, TailFails, Typed, vars
<1> QED
  BY <1>2, <1>3, <1>4, <1>5, <1>6, <1>7 DEF Next, Progress, Diagnostic

-----------------------------------------------------------------------------
(* The diagnostic.                                                         *)

LEMMA TailStep ==
  ASSUME TailInv, [Next]_vars
  PROVE  TailIsTheEnd'
<1> SUFFICES ASSUME role' = "diagnostic"
             PROVE  tail' = LastOf(SubSeq(text', 1, taken'), MaxTail)
  BY DEF TailIsTheEnd
<1>1. role = "diagnostic" /\ tail = LastOf(SubSeq(text, 1, taken), MaxTail)
  BY DEF TailInv, TailIsTheEnd, Next, Backend, BackendWrites, BackendCloses, Progress, FillBuffer,
         TakePiece, TakeLine, LastLine, ProgressEnds, ProgressFails, Diagnostic, ReadTail,
         TailEnds, TailFails, vars
<1>2. text \in Text /\ taken \in 0..Len(text) /\ Len(text) \in Nat
  BY LenProperties DEF TailInv, Typed, Text
<1>3. 1 \in 1..Len(text) + 1 /\ taken \in 1 - 1..Len(text)
  BY <1>2
<1>4. CASE Backend
  <2>1. PICK u \in Text : text' = text \o u
    BY <1>2, <1>4, TextGrows
  <2>2. SubSeq(text', 1, taken) = SubSeq(text, 1, taken)
    BY <1>2, <1>3, <2>1, PartKept DEF Text
  <2>3. tail' = tail /\ taken' = taken
    BY <1>4 DEF Backend, BackendWrites, BackendCloses
  <2> QED
    BY <1>1, <2>2, <2>3
<1>5. CASE ReadTail
  <2> DEFINE read == SubSeq(text, 1, taken)
  <2>1. PICK chunk \in Chunks : ExtendTail(chunk) /\ taken' = taken + Len(chunk)
    BY <1>5 DEF ReadTail
  <2>2. PICK n \in 1..Unread : /\ chunk \in Text /\ Len(chunk) = n
                               /\ read \o chunk = SubSeq(text, 1, taken + n)
    BY <1>5, ChunkRead DEF ReadTail, TailInv
  <2>3. read \in Text
    BY <1>2, <1>3, Part DEF Text
  <2>4. MaxTail \in Nat /\ MaxTail > 0
    BY LimitAssumption
  <2>5. LastOf(LastOf(read, MaxTail) \o chunk, MaxTail) = LastOf(read \o chunk, MaxTail)
    BY <2>2, <2>3, <2>4, LastOfLast DEF Text
  <2>6. text' = text
    BY <1>5 DEF ReadTail
  <2> HIDE DEF read
  <2>7. tail' = LastOf(LastOf(read, MaxTail) \o chunk, MaxTail)
    BY <1>1, <2>1 DEF ExtendTail, read
  <2> QED
    BY <2>1, <2>2, <2>5, <2>6, <2>7
<1>6. CASE UNCHANGED <<text, taken, tail>>
  BY <1>1, <1>6
<1>7. Backend \/ ReadTail \/ UNCHANGED <<text, taken, tail>>
  BY <1>1
     DEF Next, Progress, FillBuffer, TakePiece, TakeLine, LastLine, ProgressEnds, ProgressFails,
         Diagnostic, TailEnds, TailFails, vars
<1> QED
  BY <1>4, <1>5, <1>6, <1>7

LEMMA TypedAtFirst == Init => Typed
<1> SUFFICES ASSUME Init PROVE Typed
  OBVIOUS
<1>1. <<>> \in Text /\ <<>> \in Seq(Text) /\ Len(<<>>) = 0
  BY EmptySeq DEF Text
<1> QED
  BY <1>1 DEF Init, Typed

\* read_bounded_tail keeps the end of all that it read, whatever the chunks.
THEOREM TailIsKept == Spec => []TailIsTheEnd
<1>1. Init => TailInv
  <2> SUFFICES ASSUME Init PROVE TailIsTheEnd
    BY TypedAtFirst DEF TailInv
  <2>1. text = <<>> /\ taken = 0 /\ tail = <<>>
    BY DEF Init
  <2>2. SubSeq(text, 1, taken) = <<>>
    BY <2>1, SubSeqEmpty
  <2>3. ASSUME NEW t \in Seq(Bytes), Len(t) = 0
        PROVE  LastOf(t, MaxTail) \in Seq(Bytes) /\ Len(LastOf(t, MaxTail)) = 0
    <3>1. /\ MaxTail \in Nat /\ MaxTail > 0 /\ 0 \in Nat
          /\ Len(t) <= MaxTail => 0 = Len(t)
          /\ Len(t) > MaxTail => 0 = MaxTail
      BY <2>3, LimitAssumption
    <3> QED
      BY <3>1, LastElements
  <2>4. LastOf(<<>>, MaxTail) \in Seq(Bytes) /\ Len(LastOf(<<>>, MaxTail)) = 0
    BY <2>3, EmptySeq
  <2>5. LastOf(<<>>, MaxTail) = <<>>
    BY <2>4, EmptySeq
  <2> QED
    BY <2>1, <2>2, <2>5 DEF TailIsTheEnd
<1>2. TailInv /\ [Next]_vars => TailInv'
  BY TypedStep, TailStep DEF TailInv
<1>3. TailInv => TailIsTheEnd
  BY DEF TailInv
<1> QED
  BY <1>1, <1>2, <1>3, PTL DEF Spec

-----------------------------------------------------------------------------
(* Lines.                                                                  *)

LEMMA BreaksOf ==
  ASSUME NEW t \in Text
  PROVE  /\ Len(t) \in Nat /\ Breaks(t) \in SUBSET (1..Len(t))
         /\ \A i \in 1..Len(t) : i \in Breaks(t) <=> t[i] = "nl"
BY LenProperties DEF Text, Breaks

\* What is appended to a text leaves its lines where they were.
LEMMA LinesKept ==
  ASSUME NEW t \in Text, NEW u \in Text
  PROVE  /\ \A i \in Breaks(t) : i \in Breaks(t \o u)
         /\ \A i \in Breaks(t \o u) : i <= Len(t) => i \in Breaks(t)
         /\ \A i \in 0..Len(t) + 1 : Before(t \o u, i) = Before(t, i)
         /\ \A s \in 0..Len(t) : \A i \in s..Len(t) : Bounded(t \o u, s, i) = Bounded(t, s, i)
<1>1. /\ t \o u \in Text /\ Len(t \o u) = Len(t) + Len(u)
      /\ \A i \in 1..Len(t) : (t \o u)[i] = t[i]
  BY ConcatProperties, LenProperties DEF Text
<1>2. Len(t) \in Nat /\ Len(u) \in Nat
  BY LenProperties DEF Text
<1> DEFINE w == t \o u
<1>3. /\ Breaks(t) \in SUBSET (1..Len(t)) /\ Breaks(w) \in SUBSET (1..Len(w))
      /\ \A i \in 1..Len(t) : i \in Breaks(t) <=> t[i] = "nl"
      /\ \A i \in 1..Len(w) : i \in Breaks(w) <=> w[i] = "nl"
  BY <1>1, BreaksOf
<1>4. \A i \in 1..Len(t) : i \in Breaks(t) <=> i \in Breaks(w)
  BY <1>1, <1>2, <1>3
<1> HIDE DEF w
<1>5. \A i \in Breaks(t) : i \in Breaks(w)
  BY <1>3, <1>4
<1>6. \A i \in Breaks(w) : i <= Len(t) => i \in Breaks(t)
  BY <1>1, <1>2, <1>3, <1>4 DEF w
<1>7. ASSUME NEW i \in 0..Len(t) + 1 PROVE Before(w, i) = Before(t, i)
  <2>1. ASSUME NEW j \in Breaks(w), j < i PROVE j \in Breaks(t)
    <3>1. j \in Nat /\ j <= Len(t)
      BY <1>1, <1>2, <1>3, <2>1 DEF w
    <3> QED
      BY <1>6, <3>1
  <2>2. Below(Breaks(w), i) = Below(Breaks(t), i)
    BY <1>5, <2>1 DEF Below
  <2> QED
    BY <2>2 DEF Before
<1>8. ASSUME NEW s \in 0..Len(t), NEW i \in s..Len(t)
      PROVE  Bounded(w, s, i) = Bounded(t, s, i)
  <2>1. s + 1 \in 1..Len(t) + 1 /\ i \in s + 1 - 1..Len(t)
    BY <1>2
  <2>2. SubSeq(w, s + 1, i) = SubSeq(t, s + 1, i)
    BY <2>1, PartKept DEF Text, w
  <2> QED
    BY <2>2 DEF Bounded
<1> QED
  BY <1>5, <1>6, <1>7, <1>8 DEF w

\* A bounded beginning, extended within the bound, is a bounded beginning.
LEMMA CutExtended ==
  ASSUME NEW T, NEW a \in Seq(T), NEW b \in Seq(T), NEW n \in Nat
  PROVE  Cut(a, n) \o Cut(b, n - Len(Cut(a, n))) = Cut(a \o b, n)
<1> DEFINE k == IF n <= Len(a) THEN n ELSE Len(a)
           d == n - k
           m == IF d <= Len(b) THEN d ELSE Len(b)
           x == Cut(a, n)
           y == Cut(b, d)
           w == a \o b
           z == Cut(w, n)
           v == x \o y
<1>1. Len(a) \in Nat /\ Len(b) \in Nat
  BY LenProperties
<1>2. /\ k \in Nat /\ k <= n
      /\ n <= Len(a) => k = n
      /\ n > Len(a) => k = Len(a)
  BY <1>1
<1> HIDE DEF k
<1>3. d \in Nat /\ d = n - k
  BY <1>2
<1> HIDE DEF d
<1>4. /\ m \in Nat
      /\ d <= Len(b) => m = d
      /\ d > Len(b) => m = Len(b)
  BY <1>1, <1>3
<1> HIDE DEF m
<1>5. x \in Seq(T) /\ Len(x) = k /\ \A i \in 1..k : x[i] = a[i]
  BY <1>2, CutElements
<1>6. y \in Seq(T) /\ Len(y) = m /\ \A i \in 1..m : y[i] = b[i]
  BY <1>3, <1>4, CutElements
<1>7. /\ w \in Seq(T) /\ Len(w) = Len(a) + Len(b)
      /\ \A i \in 1..Len(a) + Len(b) : w[i] = IF i <= Len(a) THEN a[i] ELSE b[i - Len(a)]
  BY ConcatProperties
<1> HIDE DEF x, y, w
<1>8. /\ v \in Seq(T) /\ Len(v) = k + m
      /\ \A i \in 1..k + m : v[i] = IF i <= k THEN x[i] ELSE y[i - k]
  BY <1>5, <1>6, ConcatProperties
<1> HIDE DEF v
<1>9. /\ k + m \in Int /\ k + m >= 0
      /\ n <= Len(w) => k + m = n
      /\ n > Len(w) => k + m = Len(w)
  <2>1. Len(w) = Len(a) + Len(b)
    BY <1>7
  <2> QED
    BY <1>1, <1>2, <1>3, <1>4, <2>1
<1>10. z \in Seq(T) /\ Len(z) = k + m /\ \A i \in 1..k + m : z[i] = w[i]
  BY <1>7, <1>9, CutElements
<1> HIDE DEF z
<1>11. ASSUME NEW i \in 1..k + m PROVE v[i] = z[i]
  <2>1. i \in 1..Len(a) + Len(b)
    BY <1>1, <1>2, <1>3, <1>4
  <2>2. CASE i <= k
    <3>1. i \in 1..k /\ i <= Len(a)
      BY <1>1, <1>2, <2>2
    <3> QED
      BY <1>5, <1>7, <1>8, <1>10, <2>1, <2>2, <3>1
  <2>3. CASE ~(i <= k)
    <3>1. i - k \in 1..m /\ ~(i <= Len(a)) /\ k = Len(a)
      BY <1>1, <1>2, <1>3, <1>4, <2>3
    <3> QED
      BY <1>6, <1>7, <1>8, <1>10, <2>1, <2>3, <3>1
  <2> QED
    BY <2>2, <2>3
<1>12. v = z
  BY <1>8, <1>10, <1>11, SeqEqual
<1>13. n - Len(x) = d
  BY <1>3, <1>5
<1>14. x \o Cut(b, n - Len(x)) = Cut(w, n)
  BY <1>12, <1>13 DEF v, y, z
<1> QED
  BY <1>14 DEF x, w

\* A line that has been read up to c is extended by what follows up to i.
LEMMA BoundedExtended ==
  ASSUME NEW t \in Text, NEW s \in 0..Len(t), NEW c \in s..Len(t), NEW i \in c..Len(t)
  PROVE  /\ Bounded(t, s, c) \in Text
         /\ Bounded(t, s, c)
              \o Cut(SubSeq(t, c + 1, i), MaxLine - Len(Bounded(t, s, c)))
              = Bounded(t, s, i)
<1>1. Len(t) \in Nat /\ MaxLine \in Nat
  BY LenProperties, LimitAssumption DEF Text
<1>2. /\ s + 1 \in 1..Len(t) + 1 /\ c \in s + 1 - 1..Len(t)
      /\ c + 1 \in 1..Len(t) + 1 /\ i \in c + 1 - 1..Len(t) /\ i \in c..Len(t)
  BY <1>1
<1>3. SubSeq(t, s + 1, c) \in Text /\ SubSeq(t, c + 1, i) \in Text
  BY <1>2, Part DEF Text
<1>4. SubSeq(t, s + 1, c) \o SubSeq(t, c + 1, i) = SubSeq(t, s + 1, i)
  BY <1>2, ConcatAdjacentSubSeq DEF Text
<1>5. Cut(SubSeq(t, s + 1, c), MaxLine)
        \o Cut(SubSeq(t, c + 1, i), MaxLine - Len(Cut(SubSeq(t, s + 1, c), MaxLine)))
        = Cut(SubSeq(t, s + 1, c) \o SubSeq(t, c + 1, i), MaxLine)
  BY <1>1, <1>3, CutExtended DEF Text
<1>6. Cut(SubSeq(t, s + 1, c), MaxLine) \in Text
  <2> DEFINE a == SubSeq(t, s + 1, c)
             m == IF MaxLine <= Len(a) THEN MaxLine ELSE Len(a)
  <2>1. /\ a \in Text /\ m \in Int
        /\ MaxLine <= Len(a) => m = MaxLine
        /\ MaxLine > Len(a) => m = Len(a)
    BY <1>1, <1>3, LenProperties DEF Text
  <2> HIDE DEF a, m
  <2>2. Cut(a, MaxLine) \in Text
    BY <1>1, <2>1, CutElements DEF Text
  <2> QED
    BY <2>2 DEF a
<1> QED
  BY <1>4, <1>5, <1>6 DEF Bounded

LEMMA Counts ==
  ASSUME Typed
  PROVE  /\ taken \in Nat /\ Len(text) \in Nat /\ Len(buffer) \in Nat /\ Len(lines) \in Nat
         /\ Consumed \in Nat /\ Consumed + Len(buffer) = taken /\ taken <= Len(text)
<1>1. Len(text) \in Nat /\ Len(buffer) \in Nat /\ Len(lines) \in Nat
  BY LenProperties DEF Typed, Text
<1> QED
  BY <1>1 DEF Typed, Consumed

\* The first bytes of the buffer are the next bytes of the text.
LEMMA BufferPart ==
  ASSUME Typed, Buffered, NEW n \in 0..Len(buffer)
  PROVE  SubSeq(buffer, 1, n) = SubSeq(text, Consumed + 1, Consumed + n)
<1> DEFINE a == SubSeq(buffer, 1, n)
           b == SubSeq(text, Consumed + 1, Consumed + n)
           c == Consumed
<1>1. c \in Nat /\ c + Len(buffer) <= Len(text) /\ Len(text) \in Nat /\ Len(buffer) \in Nat
  BY Counts
<1>2. /\ 1 \in 1..Len(buffer) + 1 /\ n \in 1 - 1..Len(buffer)
      /\ c + 1 \in 1..Len(text) + 1 /\ c + n \in c + 1 - 1..Len(text)
  BY <1>1
<1> HIDE DEF c
<1>3. /\ a \in Text /\ Len(a) = n - 1 + 1
      /\ \A i \in 1..n - 1 + 1 : a[i] = buffer[1 + i - 1]
  BY <1>2, Part DEF Typed, Text
<1>4. /\ SubSeq(text, c + 1, c + n) \in Text /\ Len(SubSeq(text, c + 1, c + n)) = n
      /\ \A i \in 1..n : SubSeq(text, c + 1, c + n)[i] = text[c + i]
  <2> DEFINE first == c + 1
             last  == c + n
  <2>1. first \in 1..Len(text) + 1 /\ last \in first - 1..Len(text) /\ last - first + 1 = n
    BY <1>1, <1>2
  <2> HIDE DEF first, last
  <2>2. /\ SubSeq(text, first, last) \in Text /\ Len(SubSeq(text, first, last)) = last - first + 1
        /\ \A i \in 1..last - first + 1 : SubSeq(text, first, last)[i] = text[first + i - 1]
    BY <2>1, Part DEF Typed, Text
  <2>3. \A i \in 1..n : first + i - 1 = c + i
    BY <1>1 DEF first
  <2>4. /\ SubSeq(text, first, last) \in Text /\ Len(SubSeq(text, first, last)) = n
        /\ \A i \in 1..n : SubSeq(text, first, last)[i] = text[c + i]
    BY <2>1, <2>2, <2>3
  <2> QED
    BY <2>4 DEF first, last
<1>5. b = SubSeq(text, c + 1, c + n)
  BY DEF c
<1> HIDE DEF a, b
<1>6. Len(a) = n /\ Len(b) = n
  BY <1>1, <1>3, <1>4, <1>5
<1>7. ASSUME NEW i \in 1..n PROVE a[i] = b[i]
  <2>1. i \in 1..n - 1 + 1 /\ 1 + i - 1 = i
    BY <1>1
  <2>2. a[i] = buffer[i] /\ b[i] = text[c + i]
    BY <1>3, <1>4, <1>5, <2>1
  <2>3. i \in 1..Len(buffer)
    BY <1>1
  <2> QED
    BY <2>2, <2>3 DEF Buffered, c
<1>8. a = b
  BY <1>3, <1>4, <1>5, <1>6, <1>7, SeqEqual DEF Text
<1> QED
  BY <1>8 DEF a, b

\* Bytes without a newline end no line.
LEMMA NoLineEnds ==
  ASSUME Typed, Buffered, NEW n \in 0..Len(buffer), \A j \in 1..n : buffer[j] /= "nl"
  PROVE  /\ \A i \in Breaks(text) : i <= Consumed + n => i <= Consumed
         /\ Before(text, Consumed + n + 1) = Before(text, Consumed + 1)
         /\ \A s \in Breaks(text) \union {0} :
              Adjacent(Breaks(text), s, Consumed + 1)
                => s <= Consumed /\ Adjacent(Breaks(text), s, Consumed + n + 1)
<1> DEFINE c == Consumed
<1>1. c \in Nat /\ c + Len(buffer) <= Len(text) /\ Len(text) \in Nat /\ Len(buffer) \in Nat
  BY Counts
<1>2. /\ Breaks(text) \in SUBSET (1..Len(text))
      /\ \A i \in 1..Len(text) : i \in Breaks(text) <=> text[i] = "nl"
  BY BreaksOf DEF Typed
<1>3. ASSUME NEW j \in 1..n PROVE text[c + j] /= "nl"
  <2>1. j \in 1..Len(buffer) /\ buffer[j] /= "nl"
    BY <1>1
  <2> QED
    BY <2>1 DEF Buffered
<1> HIDE DEF c
<1>4. ASSUME NEW i \in Breaks(text), i <= c + n PROVE i <= c
  <2> SUFFICES ASSUME i > c PROVE FALSE
    BY <1>1, <1>2
  <2>1. i \in 1..Len(text) /\ text[i] = "nl"
    BY <1>2
  <2>2. i - c \in 1..n /\ c + (i - c) = i
    BY <1>1, <1>4, <2>1
  <2> QED
    BY <1>3, <2>1, <2>2
<1>5. \A i \in Breaks(text) : i \in Nat /\ (i < c + n + 1 <=> i < c + 1)
  BY <1>1, <1>2, <1>4
<1>6. Below(Breaks(text), c + n + 1) = Below(Breaks(text), c + 1)
  BY <1>5 DEF Below
<1>7. ASSUME NEW s \in Breaks(text) \union {0}, Adjacent(Breaks(text), s, c + 1)
      PROVE  s <= c /\ Adjacent(Breaks(text), s, c + n + 1)
  <2>1. s \in Nat /\ s < c + 1 /\ \A j \in Breaks(text) : ~(s < j /\ j < c + 1)
    BY <1>2, <1>7 DEF Adjacent
  <2>2. s <= c /\ s < c + n + 1
    BY <1>1, <2>1
  <2> QED
    BY <1>5, <2>1, <2>2 DEF Adjacent
<1> QED
  BY <1>4, <1>6, <1>7 DEF c, Before

\* As long as something is left in the buffer, the line begun is what was
\* consumed since the last newline.
LEMMA LineSoFar ==
  ASSUME Typed, BegunLine, buffer /= <<>>
  PROVE  \E s \in Breaks(text) \union {0} :
           /\ Adjacent(Breaks(text), s, Consumed + 1) /\ s \in 0..Consumed
           /\ SoFar = Bounded(text, s, Consumed)
           /\ Len(lines) = Before(text, Consumed + 1)
<1> DEFINE c == Consumed
<1>1. c \in Nat /\ c < Len(text) /\ Len(text) \in Nat
  <2>1. Len(buffer) > 0
    BY EmptySeq DEF Typed, Text
  <2> QED
    BY <2>1, Counts
<1>2. Breaks(text) \in SUBSET (1..Len(text))
  BY BreaksOf DEF Typed
<1>3. PICK s \in Breaks(text) \union {0} :
        /\ Adjacent(Breaks(text), s, c + 1)
        /\ \/ /\ line /= None /\ s < c
              /\ line = Bounded(text, s, c)
              /\ Len(lines) = Before(text, c + 1)
           \/ /\ line = None /\ s = c
              /\ Len(lines) = Before(text, c + 1)
  BY <1>1 DEF BegunLine
<1> HIDE DEF c
<1>4. s \in 0..c
  BY <1>1, <1>2, <1>3 DEF Adjacent
<1>5. CASE line /= None
  BY <1>3, <1>4, <1>5 DEF SoFar, c
<1>6. CASE line = None
  <2>1. s = c
    BY <1>3, <1>6
  <2>2. SubSeq(text, c + 1, c) = <<>>
    BY <1>1, SubSeqEmpty
  <2>3. ASSUME NEW t \in Seq(Bytes), Len(t) = 0 PROVE Cut(t, MaxLine) = t
    <3>1. /\ MaxLine \in Int /\ 0 \in Int
          /\ MaxLine <= Len(t) => 0 = MaxLine
          /\ MaxLine > Len(t) => 0 = Len(t)
      BY <2>3, LimitAssumption
    <3>2. Cut(t, MaxLine) \in Seq(Bytes) /\ Len(Cut(t, MaxLine)) = 0
      BY <3>1, CutElements
    <3> QED
      BY <2>3, <3>2, EmptySeq
  <2>4. Bounded(text, c, c) = <<>>
    BY <2>2, <2>3, EmptySeq DEF Bounded
  <2> QED
    BY <1>3, <1>4, <1>6, <2>1, <2>4 DEF SoFar, c
<1> QED
  BY <1>5, <1>6

\* The line begun, extended by bytes without a newline.
LEMMA LineExtended ==
  ASSUME Typed, Buffered, BegunLine, buffer /= <<>>,
         NEW n \in 0..Len(buffer), \A j \in 1..n : buffer[j] /= "nl"
  PROVE  \E s \in Breaks(text) \union {0} :
           /\ Adjacent(Breaks(text), s, Consumed + n + 1) /\ s \in 0..Consumed
           /\ Extended(SubSeq(buffer, 1, n)) = Bounded(text, s, Consumed + n)
           /\ Len(lines) = Before(text, Consumed + n + 1)
<1> DEFINE c == Consumed
<1>1. c \in Nat /\ c + Len(buffer) <= Len(text) /\ Len(text) \in Nat /\ Len(buffer) \in Nat
  BY Counts
<1>2. PICK s \in Breaks(text) \union {0} :
        /\ Adjacent(Breaks(text), s, c + 1) /\ s \in 0..c
        /\ SoFar = Bounded(text, s, c)
        /\ Len(lines) = Before(text, c + 1)
  BY LineSoFar
<1>3. SubSeq(buffer, 1, n) = SubSeq(text, c + 1, c + n)
  BY BufferPart
<1>4. /\ Before(text, c + n + 1) = Before(text, c + 1)
      /\ Adjacent(Breaks(text), s, c + n + 1)
  BY <1>2, NoLineEnds
<1> HIDE DEF c
<1>5. s \in 0..Len(text) /\ c \in s..Len(text) /\ c + n \in c..Len(text)
  BY <1>1, <1>2
<1>6. Bounded(text, s, c) \o Cut(SubSeq(text, c + 1, c + n), MaxLine - Len(Bounded(text, s, c)))
        = Bounded(text, s, c + n)
  BY <1>5, BoundedExtended DEF Typed
<1>7. Extended(SubSeq(buffer, 1, n)) = Bounded(text, s, c + n)
  BY <1>2, <1>3, <1>6 DEF Extended
<1> QED
  BY <1>2, <1>4, <1>7 DEF c

LEMMA LinesInvGrows ==
  ASSUME LinesInv, role = "progress", Backend
  PROVE  Buffered' /\ EndedLines' /\ BegunLine' /\ EndReached'
<1>1. /\ ~closed
      /\ UNCHANGED <<role, taken, buffer, line, lines, reader>>
  BY DEF Backend, BackendWrites, BackendCloses
<1>2. PICK u \in Text : text' = text \o u
  BY TextGrows DEF LinesInv, Typed
<1> DEFINE c == Consumed
<1>3. c \in Nat /\ c + Len(buffer) <= Len(text) /\ Len(text) \in Nat /\ Len(buffer) \in Nat
  BY Counts DEF LinesInv
<1>4. c' = c
  BY <1>1 DEF Consumed
<1>5. /\ \A i \in Breaks(text) : i \in Breaks(text')
      /\ \A i \in Breaks(text') : i <= Len(text) => i \in Breaks(text)
      /\ \A i \in 0..Len(text) + 1 : Before(text', i) = Before(text, i)
      /\ \A s \in 0..Len(text) : \A i \in s..Len(text) : Bounded(text', s, i) = Bounded(text, s, i)
  BY <1>2, LinesKept DEF LinesInv, Typed
<1>6. /\ Breaks(text) \in SUBSET (1..Len(text)) /\ \A j \in Breaks(text') : j \in Nat
  <2>1. text' \in Text
    BY TextGrows DEF LinesInv, Typed
  <2>2. Len(text') \in Nat /\ Breaks(text') \in SUBSET (1..Len(text'))
    BY <2>1, BreaksOf
  <2> QED
    BY <2>2, BreaksOf DEF LinesInv, Typed
<1> HIDE DEF c
<1>7. ASSUME NEW s \in Breaks(text) \union {0}, NEW i \in 0..Len(text) + 1,
             Adjacent(Breaks(text), s, i)
      PROVE  s \in Breaks(text') \union {0} /\ Adjacent(Breaks(text'), s, i)
  <2>1. \A j \in Breaks(text') : j < i => j \in Breaks(text)
    BY <1>3, <1>5, <1>6
  <2> QED
    BY <1>5, <1>7, <2>1 DEF Adjacent
<1>8. Buffered'
  <2>1. \A i \in 1..Len(buffer) : text'[c + i] = text[c + i]
    <3>1. \A i \in 1..Len(text) : (text \o u)[i] = text[i]
      BY ConcatProperties, LenProperties DEF LinesInv, Typed, Text
    <3> QED
      BY <1>2, <1>3, <3>1
  <2> QED
    BY <1>1, <1>4, <2>1 DEF LinesInv, Buffered, c
<1>9. EndedLines'
  <2> SUFFICES ASSUME NEW i \in Breaks(text'), i <= c
               PROVE  /\ Before(text', i) + 1 \in DOMAIN lines
                      /\ \E s \in Breaks(text') \union {0} :
                           /\ Adjacent(Breaks(text'), s, i)
                           /\ lines[Before(text', i) + 1] = Stripped(Bounded(text', s, i - 1))
    BY <1>1, <1>4 DEF EndedLines, c
  <2>1. i \in Breaks(text) /\ i \in 1..Len(text)
    BY <1>3, <1>5, <1>6
  <2>2. PICK s \in Breaks(text) \union {0} :
          /\ Before(text, i) + 1 \in DOMAIN lines
          /\ Adjacent(Breaks(text), s, i)
          /\ lines[Before(text, i) + 1] = Stripped(Bounded(text, s, i - 1))
    BY <2>1 DEF LinesInv, EndedLines, c
  <2>3. s \in Breaks(text') \union {0} /\ Adjacent(Breaks(text'), s, i)
    BY <1>3, <1>7, <2>1, <2>2
  <2>4. s \in 0..Len(text) /\ i - 1 \in s..Len(text)
    BY <1>3, <1>6, <2>1, <2>2 DEF Adjacent
  <2>5. Before(text', i) = Before(text, i) /\ Bounded(text', s, i - 1) = Bounded(text, s, i - 1)
    BY <1>3, <1>5, <2>1, <2>4
  <2> QED
    BY <2>2, <2>3, <2>5
<1>10. BegunLine'
  <2>1. PICK s \in Breaks(text) \union {0} :
          /\ Adjacent(Breaks(text), s, c + 1)
          /\ \/ /\ line /= None /\ s < c
                /\ line = Bounded(text, s, c)
                /\ Len(lines) = Before(text, c + 1)
             \/ /\ line = None /\ s = c
                /\ Len(lines) = Before(text, c + 1)
    BY <1>1 DEF LinesInv, BegunLine, c
  <2>2. s \in Breaks(text') \union {0} /\ Adjacent(Breaks(text'), s, c + 1)
    BY <1>3, <1>7, <2>1
  <2>3. s \in 0..Len(text) /\ c \in s..Len(text)
    BY <1>3, <1>6, <2>1 DEF Adjacent
  <2>4. Before(text', c + 1) = Before(text, c + 1) /\ Bounded(text', s, c) = Bounded(text, s, c)
    BY <1>3, <1>5, <2>3
  <2> QED
    BY <1>1, <1>4, <2>1, <2>2, <2>4 DEF BegunLine, c
<1>11. EndReached'
  BY <1>1 DEF LinesInv, EndReached
<1> QED
  BY <1>8, <1>9, <1>10, <1>11

\* What FillBuffer and the end of the thread leave alone.
LEMMA LinesInvStands ==
  ASSUME LinesInv, UNCHANGED <<text, closed, line, lines>>, Consumed' = Consumed
  PROVE  (EndedLines <=> EndedLines') /\ (BegunLine <=> BegunLine')
BY DEF EndedLines, BegunLine

LEMMA LinesInvFills ==
  ASSUME LinesInv, role = "progress", FillBuffer
  PROVE  Buffered' /\ EndedLines' /\ BegunLine' /\ EndReached'
<1>1. PICK chunk \in Chunks : buffer' = chunk /\ taken' = taken + Len(chunk)
  BY DEF FillBuffer
<1>2. PICK n \in 1..Unread : /\ Len(chunk) = n
                             /\ \A i \in 1..n : chunk[i] = text[taken + i]
  BY ChunkRead DEF FillBuffer, LinesInv
<1>3. taken \in Nat /\ Consumed = taken
  <2>1. Len(buffer) = 0
    BY EmptySeq DEF FillBuffer
  <2> QED
    BY <2>1, Counts DEF LinesInv
<1>4. Consumed' = taken
  BY <1>1, <1>2, <1>3 DEF Consumed
<1>5. Buffered'
  BY <1>1, <1>2, <1>4 DEF Buffered, FillBuffer
<1>6. UNCHANGED <<text, closed, line, lines, reader>> /\ reader /= "done"
  BY DEF FillBuffer
<1> QED
  BY <1>3, <1>4, <1>5, <1>6, LinesInvStands DEF LinesInv, EndReached

LEMMA LinesInvTakesPiece ==
  ASSUME LinesInv, role = "progress", TakePiece
  PROVE  Buffered' /\ EndedLines' /\ BegunLine' /\ EndReached'
<1> DEFINE c == Consumed
           n == Len(buffer)
<1>1. /\ buffer /= <<>> /\ Breaks(buffer) = {} /\ line' = Extended(buffer) /\ buffer' = <<>>
      /\ UNCHANGED <<text, closed, taken, lines, reader>> /\ reader /= "done"
  BY DEF TakePiece
<1>2. c \in Nat /\ n \in Nat /\ n > 0 /\ c + n = taken
  <2>1. Len(buffer) > 0
    BY <1>1, EmptySeq DEF LinesInv, Typed, Text
  <2> QED
    BY <2>1, Counts DEF LinesInv
<1>3. Consumed' = c + n
  <2>1. Len(buffer') = 0
    BY <1>1, EmptySeq
  <2> QED
    BY <1>1, <1>2, <2>1 DEF Consumed
<1>4. \A j \in 1..n : buffer[j] /= "nl"
  BY <1>1, BreaksOf DEF LinesInv, Typed
<1>5. SubSeq(buffer, 1, n) = buffer
  BY SubSeqFull DEF LinesInv, Typed, Text
<1>6. n \in 0..n
  BY <1>2
<1>7. PICK s \in Breaks(text) \union {0} :
        /\ Adjacent(Breaks(text), s, c + n + 1) /\ s \in 0..c
        /\ Extended(buffer) = Bounded(text, s, c + n)
        /\ Len(lines) = Before(text, c + n + 1)
  BY <1>1, <1>4, <1>5, <1>6, LineExtended DEF LinesInv
<1>8. \A i \in Breaks(text) : i <= c + n => i <= c
  BY <1>4, <1>6, NoLineEnds DEF LinesInv
<1>9. line' /= None
  <2>1. line' \in Text
    BY <1>1, ExtendedTyped DEF LinesInv, Typed
  <2> QED
    BY <2>1, NoneAssumption DEF Text
<1> HIDE DEF c, n
<1>10. EndedLines'
  BY <1>1, <1>3, <1>8 DEF LinesInv, EndedLines, c
<1>11. s < c + n
  BY <1>2, <1>7
<1>12. BegunLine'
  BY <1>1, <1>3, <1>7, <1>9, <1>11 DEF BegunLine
<1>13. Buffered'
  <2>1. Len(buffer') = 0
    BY <1>1, EmptySeq
  <2> QED
    BY <2>1 DEF Buffered
<1> QED
  BY <1>1, <1>10, <1>12, <1>13 DEF EndReached

LEMMA LinesInvTakesLine ==
  ASSUME LinesInv, role = "progress", TakeLine
  PROVE  Buffered' /\ EndedLines' /\ BegunLine' /\ EndReached'
<1> DEFINE c == Consumed
           f == FirstBreak
           n == f - 1
           i == c + f
           l == Stripped(Extended(SubSeq(buffer, 1, n)))
<1>1. /\ Breaks(buffer) /= {} /\ line' = None
      /\ buffer' = SubSeq(buffer, f + 1, Len(buffer)) /\ lines' = Append(lines, l)
      /\ UNCHANGED <<text, closed, taken, reader>> /\ reader /= "done"
  BY DEF TakeLine, HandleLine
<1>2. /\ f \in 1..Len(buffer) /\ buffer[f] = "nl" /\ \A j \in 1..n : buffer[j] /= "nl"
  BY <1>1, FirstBreakFound DEF LinesInv, Typed
<1>3. /\ c \in Nat /\ c + Len(buffer) = taken /\ Len(buffer) \in Nat /\ taken <= Len(text)
      /\ taken \in Nat /\ Len(text) \in Nat /\ Len(lines) \in Nat
  BY Counts DEF LinesInv
<1>4. buffer /= <<>> /\ n \in 0..Len(buffer) /\ n + 1 = f
  BY <1>2, <1>3, EmptySeq
<1>5. PICK s \in Breaks(text) \union {0} :
        /\ Adjacent(Breaks(text), s, c + n + 1) /\ s \in 0..c
        /\ Extended(SubSeq(buffer, 1, n)) = Bounded(text, s, c + n)
        /\ Len(lines) = Before(text, c + n + 1)
  BY <1>2, <1>4, LineExtended DEF LinesInv
<1>6. \A j \in Breaks(text) : j <= c + n => j <= c
  BY <1>2, <1>4, NoLineEnds DEF LinesInv
<1>7. i \in Breaks(text)
  <2>1. i \in 1..Len(text) /\ text[i] = "nl"
    BY <1>2, <1>3 DEF LinesInv, Buffered
  <2> QED
    BY <2>1, BreaksOf DEF LinesInv, Typed
<1>8. /\ buffer' \in Text /\ Len(buffer') = Len(buffer) - f
      /\ \A j \in 1..Len(buffer) - f : buffer'[j] = buffer[f + j]
  <2> DEFINE first == f + 1
             last  == Len(buffer)
  <2>1. first \in 1..Len(buffer) + 1 /\ last \in first - 1..Len(buffer)
        /\ last - first + 1 = Len(buffer) - f
    BY <1>2, <1>3
  <2>2. buffer' = SubSeq(buffer, first, last)
    BY <1>1
  <2>3. \A j \in 1..Len(buffer) - f : first + j - 1 = f + j
    BY <1>2, <1>3
  <2> HIDE DEF first, last
  <2>4. /\ SubSeq(buffer, first, last) \in Text
        /\ Len(SubSeq(buffer, first, last)) = last - first + 1
        /\ \A j \in 1..last - first + 1 : SubSeq(buffer, first, last)[j] = buffer[first + j - 1]
    BY <2>1, Part DEF LinesInv, Typed, Text
  <2> QED
    BY <2>1, <2>2, <2>3, <2>4
<1>9. Consumed' = i
  <2>1. Consumed' = taken - Len(buffer')
    BY <1>1 DEF Consumed
  <2>2. Len(buffer') = Len(buffer) - f
    BY <1>8
  <2>3. taken - (Len(buffer) - f) = c + f
    BY <1>2, <1>3
  <2> QED
    BY <2>1, <2>2, <2>3
<1>10. l \in Text
  <2>1. SubSeq(buffer, 1, n) \in Text
    BY <1>3, <1>4, Part DEF LinesInv, Typed, Text
  <2> QED
    BY <2>1, ExtendedTyped, StrippedLine DEF LinesInv, Text
<1> HIDE DEF l
<1>11. /\ lines' \in Seq(Text) /\ Len(lines') = Len(lines) + 1 /\ lines'[Len(lines) + 1] = l
       /\ \A k \in 1..Len(lines) : lines'[k] = lines[k]
       /\ DOMAIN lines = 1..Len(lines) /\ DOMAIN lines' = 1..Len(lines) + 1
  <2>1. lines \in Seq(Text)
    BY DEF LinesInv, Typed
  <2>2. /\ Append(lines, l) \in Seq(Text) /\ Len(Append(lines, l)) = Len(lines) + 1
        /\ Append(lines, l)[Len(lines) + 1] = l
        /\ \A k \in 1..Len(lines) : Append(lines, l)[k] = lines[k]
    BY <1>10, <2>1, AppendProperties
  <2>3. DOMAIN lines = 1..Len(lines) /\ DOMAIN Append(lines, l) = 1..Len(Append(lines, l))
    BY <2>1, <2>2, LenProperties
  <2> QED
    BY <1>1, <2>2, <2>3
<1>12. Breaks(text) \in SUBSET (1..Len(text))
  BY BreaksOf DEF LinesInv, Typed
<1>13. i = c + n + 1 /\ c + n = i - 1 /\ i \in Nat
  BY <1>2, <1>3
<1>14. Buffered'
  <2>1. ASSUME NEW j \in 1..Len(buffer') PROVE buffer'[j] = text[i + j]
    <3>1. j \in 1..Len(buffer) - f /\ f + j \in 1..Len(buffer) /\ c + (f + j) = i + j
      BY <1>2, <1>3, <1>8
    <3>2. buffer[f + j] = text[c + (f + j)]
      BY <3>1 DEF LinesInv, Buffered
    <3> QED
      BY <1>8, <3>1, <3>2
  <2> QED
    BY <1>1, <1>9, <2>1 DEF Buffered
<1> HIDE DEF c, f, n, i
<1>15. EndedLines'
  <2> SUFFICES ASSUME NEW j \in Breaks(text), j <= i
               PROVE  /\ Before(text, j) + 1 \in DOMAIN lines'
                      /\ \E p \in Breaks(text) \union {0} :
                           /\ Adjacent(Breaks(text), p, j)
                           /\ lines'[Before(text, j) + 1] = Stripped(Bounded(text, p, j - 1))
    BY <1>1, <1>9 DEF EndedLines
  <2>1. CASE j = i
    <3>1. Before(text, j) = Len(lines)
      BY <1>5, <1>13, <2>1
    <3>2. l = Stripped(Bounded(text, s, i - 1))
      BY <1>5, <1>13 DEF l
    <3> QED
      BY <1>3, <1>5, <1>11, <1>13, <2>1, <3>1, <3>2
  <2>2. CASE j /= i
    <3>1. j <= c
      BY <1>3, <1>6, <1>12, <1>13, <2>2
    <3>2. PICK p \in Breaks(text) \union {0} :
            /\ Before(text, j) + 1 \in DOMAIN lines
            /\ Adjacent(Breaks(text), p, j)
            /\ lines[Before(text, j) + 1] = Stripped(Bounded(text, p, j - 1))
      BY <3>1 DEF LinesInv, EndedLines, c
    <3> QED
      BY <1>3, <1>11, <3>2
  <2> QED
    BY <2>1, <2>2
<1>16. Before(text, i + 1) = Before(text, i) + 1
  <2>1. \A j \in Breaks(text) : j \in Nat
    BY <1>12
  <2>2. Below(Breaks(text), i + 1) = Below(Breaks(text), i) \union {i}
    <3>1. \A j \in Breaks(text) : j < i + 1 <=> j < i \/ j = i
      BY <1>13, <2>1
    <3> QED
      BY <1>7, <3>1, Zenon DEF Below
  <2>3. i \notin Below(Breaks(text), i)
    BY <1>13 DEF Below
  <2>4. IsFiniteSet(Below(Breaks(text), i))
    BY <1>3, <1>12, BelowFinite
  <2> QED
    BY <2>2, <2>3, <2>4, FS_AddElement DEF Before
<1>17. BegunLine'
  <2>1. Len(lines') = Before(text, i + 1)
    BY <1>5, <1>11, <1>13, <1>16
  <2>2. Adjacent(Breaks(text), i, i + 1)
    BY <1>7, <1>12, <1>13 DEF Adjacent
  <2> QED
    BY <1>1, <1>7, <1>9, <2>1, <2>2 DEF BegunLine
<1> QED
  BY <1>1, <1>14, <1>15, <1>17 DEF EndReached

LEMMA LinesInvTakesLast ==
  ASSUME LinesInv, role = "progress", LastLine
  PROVE  Buffered' /\ EndedLines' /\ BegunLine' /\ EndReached'
<1> DEFINE c == Consumed
<1>1. /\ buffer = <<>> /\ closed /\ Unread = 0 /\ line /= None /\ line' = None
      /\ lines' = Append(lines, line)
      /\ UNCHANGED <<text, closed, taken, buffer, reader>> /\ reader /= "done"
  BY DEF LastLine, HandleLine
<1>2. /\ c \in Nat /\ c + Len(buffer) = taken /\ Len(buffer) \in Nat /\ taken <= Len(text)
      /\ taken \in Nat /\ Len(text) \in Nat /\ Len(lines) \in Nat
  BY Counts DEF LinesInv
<1>3. c = Len(text) /\ Consumed' = c
  <2>1. Len(buffer) = 0
    BY <1>1, EmptySeq
  <2> QED
    BY <1>1, <1>2, <2>1 DEF Unread, Consumed
<1>4. PICK s \in Breaks(text) \union {0} :
        /\ Adjacent(Breaks(text), s, c + 1)
        /\ s < c /\ line = Bounded(text, s, c) /\ Len(lines) = Before(text, c + 1)
  BY <1>1 DEF LinesInv, BegunLine
<1> HIDE DEF c
<1>5. lines \in Seq(Text) /\ line \in Text
  BY <1>1 DEF LinesInv, Typed
<1>6. /\ Append(lines, line) \in Seq(Text) /\ Len(Append(lines, line)) = Len(lines) + 1
      /\ Append(lines, line)[Len(lines) + 1] = line
      /\ \A k \in 1..Len(lines) : Append(lines, line)[k] = lines[k]
  BY <1>5, AppendProperties
<1>7. DOMAIN lines = 1..Len(lines) /\ DOMAIN Append(lines, line) = 1..Len(Append(lines, line))
  BY <1>5, <1>6, LenProperties
<1>8. /\ Len(lines') = Len(lines) + 1 /\ lines'[Len(lines')] = line
      /\ \A k \in 1..Len(lines) : lines'[k] = lines[k]
      /\ DOMAIN lines' = 1..Len(lines) + 1
  BY <1>1, <1>6, <1>7
<1>9. EndedLines'
  <2> SUFFICES ASSUME NEW j \in Breaks(text), j <= c
               PROVE  /\ Before(text, j) + 1 \in DOMAIN lines'
                      /\ \E p \in Breaks(text) \union {0} :
                           /\ Adjacent(Breaks(text), p, j)
                           /\ lines'[Before(text, j) + 1] = Stripped(Bounded(text, p, j - 1))
    BY <1>1, <1>3 DEF EndedLines
  <2>1. PICK p \in Breaks(text) \union {0} :
          /\ Before(text, j) + 1 \in DOMAIN lines
          /\ Adjacent(Breaks(text), p, j)
          /\ lines[Before(text, j) + 1] = Stripped(Bounded(text, p, j - 1))
    BY DEF LinesInv, EndedLines, c
  <2> QED
    BY <1>2, <1>7, <1>8, <2>1
<1>10. BegunLine'
  BY <1>1, <1>3, <1>4, <1>8 DEF BegunLine
<1>11. Buffered'
  BY <1>1, <1>3 DEF LinesInv, Buffered, c
<1> QED
  BY <1>1, <1>9, <1>10, <1>11 DEF EndReached

LEMMA LinesInvEnds ==
  ASSUME LinesInv, role = "progress", ProgressEnds \/ ProgressFails \/ UNCHANGED vars
  PROVE  Buffered' /\ EndedLines' /\ BegunLine' /\ EndReached'
<1>1. UNCHANGED <<text, closed, taken, buffer, line, lines>>
  BY DEF ProgressEnds, ProgressFails, vars
<1>2. Consumed' = Consumed
  BY <1>1 DEF Consumed
<1>3. Buffered'
  BY <1>1, <1>2 DEF LinesInv, Buffered
<1>4. EndReached'
  <2>1. CASE ProgressEnds
    <3>1. Len(buffer) = 0 /\ Unread = 0 /\ closed /\ line = None
      BY <2>1, EmptySeq DEF ProgressEnds
    <3> QED
      BY <1>1, <1>2, <3>1, Counts DEF EndReached, Unread, LinesInv
  <2>2. CASE ProgressFails \/ UNCHANGED vars
    BY <1>1, <1>2, <2>2 DEF ProgressFails, LinesInv, EndReached, vars
  <2> QED
    BY <2>1, <2>2
<1> QED
  BY <1>1, <1>2, <1>3, <1>4, LinesInvStands DEF LinesInv

LEMMA LinesInvStep == LinesInv /\ [Next]_vars => LinesInv'
<1> SUFFICES ASSUME LinesInv, [Next]_vars PROVE LinesInv'
  OBVIOUS
<1>1. Typed' /\ role' = role
  BY TypedStep
     DEF LinesInv, Next, Backend, BackendWrites, BackendCloses, Progress, FillBuffer, TakePiece,
         TakeLine, LastLine, ProgressEnds, ProgressFails, Diagnostic, ReadTail, TailEnds,
         TailFails, vars
<1>2. CASE role = "progress"
  <2>1. ~Diagnostic
    BY <1>2 DEF Diagnostic, ReadTail, TailEnds, TailFails
  <2>2. Buffered' /\ EndedLines' /\ BegunLine' /\ EndReached'
    BY <1>2, <2>1, LinesInvGrows, LinesInvFills, LinesInvTakesPiece, LinesInvTakesLine,
       LinesInvTakesLast, LinesInvEnds
       DEF Next, Progress
  <2> QED
    BY <1>1, <1>2, <2>2 DEF LinesInv
<1>3. CASE role = "diagnostic"
  <2>1. lines' = lines
    BY <1>3
       DEF Next, Backend, BackendWrites, BackendCloses, Progress, FillBuffer, TakePiece,
           TakeLine, LastLine, ProgressEnds, ProgressFails, Diagnostic, ReadTail, TailEnds,
           TailFails, vars
  <2> QED
    BY <1>1, <1>3, <2>1 DEF LinesInv
<1> QED
  BY <1>2, <1>3 DEF LinesInv, Typed

LEMMA LinesInvAtFirst == Init => LinesInv
<1> SUFFICES ASSUME Init PROVE LinesInv
  OBVIOUS
<1>1. /\ text = <<>> /\ taken = 0 /\ buffer = <<>> /\ line = None /\ lines = <<>>
      /\ reader = "reading"
  BY DEF Init
<1>2. Typed /\ Len(<<>>) = 0
  BY TypedAtFirst, EmptySeq
<1>3. Breaks(text) = {} /\ Consumed = 0
  <2>1. Breaks(text) \in SUBSET (1..0)
    BY <1>1, <1>2, BreaksOf DEF Typed
  <2>2. Breaks(text) = {}
    BY <2>1
  <2>3. taken = 0 /\ Len(buffer) = 0
    BY <1>1, <1>2
  <2>4. Consumed = 0
    BY <2>3 DEF Consumed
  <2> QED
    BY <2>2, <2>4
<1>4. Before(text, 1) = 0
  BY <1>3, FS_EmptySet DEF Before, Below
<1>5. BegunLine
  BY <1>1, <1>2, <1>3, <1>4 DEF BegunLine, Adjacent
<1> QED
  BY <1>1, <1>2, <1>3, <1>5 DEF LinesInv, Buffered, EndedLines, EndReached

\* Where the run that ends with a member of S starts.
LEMMA StartOfRank ==
  ASSUME NEW n \in Nat, NEW S \in SUBSET (1..n), NEW i \in S, NEW s, Adjacent(S, s, i)
  PROVE  /\ Cardinality(Below(S, i)) + 1 \in 1..Cardinality(S)
         /\ Nth(S, Cardinality(Below(S, i)) + 1) = i
         /\ Start(S, Cardinality(Below(S, i)) + 1) = s + 1
<1> DEFINE k == Cardinality(Below(S, i)) + 1
<1>1. k \in 1..Cardinality(S) /\ Nth(S, k) = i
  BY NthOfRank
<1>2. \A j \in S : j \in Nat /\ j > 0
  OBVIOUS
<1>3. CASE s = 0
  <2>1. Below(S, i) = {}
    BY <1>2, <1>3 DEF Adjacent, Below
  <2>2. k = 1
    BY <2>1, FS_EmptySet
  <2> QED
    BY <1>1, <1>3, <2>2 DEF Start
<1>4. CASE s \in S
  <2>1. \A j \in S : j < i <=> j < s \/ j = s
    BY <1>2, <1>4 DEF Adjacent
  <2>2. Below(S, i) = Below(S, s) \union {s} /\ s \notin Below(S, s)
    <3>1. Below(S, i) = Below(S, s) \union {s}
      BY <1>4, <2>1, Zenon DEF Below
    <3>2. ~(s < s)
      BY <1>2, <1>4
    <3> QED
      BY <3>1, <3>2 DEF Below
  <2>3. IsFiniteSet(Below(S, s)) /\ Cardinality(Below(S, s)) \in Nat
    BY BelowFinite
  <2>4. Cardinality(Below(S, i)) = Cardinality(Below(S, s)) + 1
    BY <2>2, <2>3, FS_AddElement
  <2>5. Nth(S, Cardinality(Below(S, s)) + 1) = s
    BY <1>4, NthOfRank
  <2>6. Nth(S, k - 1) = s /\ k /= 1
    BY <2>3, <2>4, <2>5
  <2> HIDE DEF k
  <2>7. Start(S, k) = s + 1
    BY <2>6 DEF Start
  <2> QED
    BY <1>1, <2>7 DEF k
<1> QED
  BY <1>3, <1>4 DEF Adjacent

\* The line that ends at i is what stands after s.
LEMMA WrittenLine ==
  ASSUME NEW t \in Text, NEW i \in Ends(t), NEW s, Adjacent(Breaks(t), s, i)
  PROVE  /\ Before(t, i) + 1 \in DOMAIN WrittenLines(t)
         /\ WrittenLines(t)[Before(t, i) + 1] = SubSeq(t, s + 1, i - 1)
<1> DEFINE S == Ends(t)
           k == Before(t, i) + 1
<1>1. /\ Len(t) \in Nat /\ Breaks(t) \in SUBSET (1..Len(t))
  BY BreaksOf
<1>2. Len(t) + 1 \in Nat /\ S \in SUBSET (1..Len(t) + 1)
  BY <1>1 DEF Ends
<1>3. \A j \in Breaks(t) : j \in Nat /\ j < Len(t) + 1
  BY <1>1
<1>4. i \in Nat /\ i <= Len(t) + 1
  BY <1>1, <1>2
<1>5. ~(Len(t) + 1 < i)
  BY <1>1, <1>4
<1>6. Below(S, i) = Below(Breaks(t), i)
  BY <1>5, Zenon DEF Below, Ends
<1>7. Adjacent(S, s, i)
  BY <1>5 DEF Adjacent, Ends
<1>8. k = Cardinality(Below(S, i)) + 1
  BY <1>6 DEF Before
<1>9. i \in S
  OBVIOUS
<1> HIDE DEF S, k
<1>10. k \in 1..Cardinality(S) /\ Nth(S, k) = i /\ Start(S, k) = s + 1
  BY <1>2, <1>7, <1>8, <1>9, StartOfRank
<1>11. k \in DOMAIN WrittenLines(t) /\ WrittenLines(t)[k] = SubSeq(t, s + 1, i - 1)
  BY <1>10 DEF WrittenLines, S
<1> QED
  BY <1>11 DEF k

\* There is one line more than there are newlines.
LEMMA WrittenCount ==
  ASSUME NEW t \in Text
  PROVE  /\ Len(WrittenLines(t)) = Before(t, Len(t) + 1) + 1
         /\ Before(t, Len(t) + 1) \in Nat
         /\ \A i \in 0..Len(t) + 1 : Before(t, i) \in Nat /\ Before(t, i) <= Cardinality(Breaks(t))
         /\ Before(t, Len(t) + 1) = Cardinality(Breaks(t))
<1>1. Len(t) \in Nat /\ Breaks(t) \in SUBSET (1..Len(t))
  BY BreaksOf
<1>2. \A j \in Breaks(t) : j \in Nat /\ j < Len(t) + 1
  BY <1>1
<1>3. Below(Breaks(t), Len(t) + 1) = Breaks(t)
  BY <1>2 DEF Below
<1>4. IsFiniteSet(Breaks(t)) /\ Cardinality(Breaks(t)) \in Nat
  <2>1. IsFiniteSet(Breaks(t)) /\ IsFiniteSet(Below(Breaks(t), 1))
    BY <1>1, BelowFinite
  <2> QED
    BY <2>1, FS_CardinalityType
<1>5. Cardinality(Ends(t)) = Cardinality(Breaks(t)) + 1
  <2>1. Len(t) + 1 \notin Breaks(t)
    BY <1>1
  <2> QED
    BY <1>4, <2>1, FS_AddElement DEF Ends
<1>6. ASSUME NEW i \in 0..Len(t) + 1
      PROVE  Before(t, i) \in Nat /\ Before(t, i) <= Cardinality(Breaks(t))
  <2>1. Below(Breaks(t), i) \in SUBSET Breaks(t)
    BY DEF Below
  <2> QED
    BY <1>4, <2>1, FS_Subset, FS_CardinalityType DEF Before
<1>7. Len(WrittenLines(t)) = Cardinality(Ends(t))
  BY <1>4, <1>5 DEF WrittenLines
<1> QED
  BY <1>3, <1>4, <1>5, <1>6, <1>7 DEF Before

\* A bounded line, stripped or not, is a faithful one.
LEMMA BoundedIsFaithful ==
  ASSUME NEW w \in Text
  PROVE  /\ Faithful(Cut(w, MaxLine), w) /\ Faithful(Stripped(Cut(w, MaxLine)), w)
         /\ Len(w) <= MaxLine => Cut(w, MaxLine) = w
<1> DEFINE m == IF MaxLine <= Len(w) THEN MaxLine ELSE Len(w)
           cut == Cut(w, MaxLine)
<1>1. Len(w) \in Nat /\ MaxLine \in Nat /\ MaxLine > 0
  BY LimitAssumption, LenProperties DEF Text
<1>2. /\ m \in Nat /\ m <= MaxLine /\ m <= Len(w)
      /\ MaxLine <= Len(w) => m = MaxLine
      /\ MaxLine > Len(w) => m = Len(w)
  BY <1>1
<1> HIDE DEF m
<1>3. cut \in Text /\ cut = SubSeq(w, 1, m) /\ Len(cut) = m
  BY <1>1, <1>2, CutElements DEF Text
<1> HIDE DEF cut
<1>4. Len(w) <= MaxLine => cut = w
  <2>1. SubSeq(w, 1, Len(w)) = w
    BY SubSeqFull DEF Text
  <2>2. Len(w) <= MaxLine => m = Len(w)
    BY <1>1, <1>2
  <2> QED
    BY <1>3, <2>1, <2>2
<1>5. ASSUME NEW k \in 0..m, NEW got, got = SubSeq(w, 1, k),
             k >= m - 1, Len(w) <= MaxLine => got \in {w, Stripped(w)}
      PROVE  Faithful(got, w)
  <2>1. 1 \in 1..Len(w) + 1 /\ k \in 1 - 1..Len(w)
    BY <1>1, <1>2
  <2>2. got \in Text /\ Len(got) = k - 1 + 1
    BY <1>5, <2>1, Part DEF Text
  <2>3. Len(got) = k
    BY <1>2, <2>2
  <2>4. SubSeq(got, 1, Len(got)) = got
    BY <2>2, SubSeqFull DEF Text
  <2>5. IsPrefix(got, w)
    BY <1>1, <1>2, <1>5, <2>3, <2>4 DEF IsPrefix
  <2>6. Len(got) <= MaxLine /\ (Len(w) > MaxLine => Len(got) >= MaxLine - 1)
    BY <1>1, <1>2, <1>5, <2>3
  <2> QED
    BY <1>5, <2>5, <2>6 DEF Faithful
<1>6. Faithful(cut, w)
  <2>1. m \in 0..m /\ m >= m - 1 /\ (Len(w) <= MaxLine => cut \in {w, Stripped(w)})
    BY <1>2, <1>4
  <2> QED
    BY <1>3, <1>5, <2>1
<1>7. Faithful(Stripped(cut), w)
  <2>1. CASE Stripped(cut) = cut
    BY <1>6, <2>1
  <2>2. CASE cut /= <<>> /\ Stripped(cut) = SubSeq(cut, 1, m - 1)
    <3>1. m - 1 \in 0..m /\ m >= 1
      BY <1>2, <1>3, <2>2, EmptySeq DEF Text
    <3>2. Stripped(cut) = SubSeq(w, 1, m - 1)
      <4>1. CASE m = 1
        BY <2>2, <4>1, SubSeqEmpty
      <4>2. CASE m > 1
        <5>1. /\ 1 \in 1..Len(w) /\ m \in 1..Len(w)
              /\ 1 \in 1..m - 1 + 1 /\ m - 1 \in 1..m - 1 + 1
          BY <1>1, <1>2, <4>2
        <5>2. SubSeq(SubSeq(w, 1, m), 1, m - 1) = SubSeq(w, 1 + 1 - 1, 1 + (m - 1) - 1)
          BY <5>1, SubSeqOfSubSeq DEF Text
        <5> QED
          BY <1>2, <1>3, <2>2, <5>2
      <4> QED
        BY <1>2, <3>1, <4>1, <4>2
    <3>3. m - 1 >= m - 1 /\ (Len(w) <= MaxLine => Stripped(cut) \in {w, Stripped(w)})
      BY <1>2, <1>4
    <3> QED
      BY <1>5, <3>1, <3>2, <3>3
  <2> QED
    BY <1>3, <2>1, <2>2, StrippedLine DEF Text
<1> QED
  BY <1>4, <1>6, <1>7 DEF cut

\* What the lines returned are, one by one.
LEMMA LinesReturned ==
  ASSUME LinesInv, role = "progress", NEW k \in 1..Len(lines)
  PROVE  LET written == WrittenLines(text)
         IN  /\ k \in DOMAIN written /\ Faithful(lines[k], written[k])
             /\ k < Len(written) /\ Len(written[k]) <= MaxLine
                  => lines[k] = Stripped(written[k])
<1> DEFINE written == WrittenLines(text)
           c == Consumed
<1>1. c \in Nat /\ Len(text) \in Nat /\ Len(lines) \in Nat /\ c <= Len(text)
  BY Counts DEF LinesInv
<1>2. Breaks(text) \in SUBSET (1..Len(text))
  BY BreaksOf DEF LinesInv, Typed
<1>3. /\ Len(written) = Before(text, Len(text) + 1) + 1
      /\ Before(text, Len(text) + 1) \in Nat
      /\ \A i \in 0..Len(text) + 1 :
           Before(text, i) \in Nat /\ Before(text, i) <= Cardinality(Breaks(text))
      /\ Before(text, Len(text) + 1) = Cardinality(Breaks(text))
  BY WrittenCount DEF LinesInv, Typed
<1>4. PICK s \in Breaks(text) \union {0} :
        /\ Adjacent(Breaks(text), s, c + 1)
        /\ \/ Len(lines) = Before(text, c + 1)
           \/ /\ c = Len(text) /\ s < c
              /\ Len(lines) = Before(text, c + 1) + 1
              /\ lines[Len(lines)] = Bounded(text, s, c)
  BY DEF LinesInv, BegunLine
<1>5. ASSUME NEW i \in Ends(text), NEW p, Adjacent(Breaks(text), p, i), Before(text, i) + 1 = k,
             p \in Breaks(text) \union {0}
      PROVE  /\ k \in DOMAIN written /\ written[k] = SubSeq(text, p + 1, i - 1)
             /\ written[k] \in Text /\ Cut(written[k], MaxLine) = Bounded(text, p, i - 1)
  <2>1. k \in DOMAIN written /\ written[k] = SubSeq(text, p + 1, i - 1)
    BY <1>5, WrittenLine DEF LinesInv, Typed
  <2>2. p \in Nat /\ i \in Nat /\ p < i /\ i <= Len(text) + 1
    BY <1>1, <1>2, <1>5 DEF Adjacent, Ends
  <2>3. p + 1 \in 1..Len(text) + 1 /\ i - 1 \in p + 1 - 1..Len(text)
    BY <1>1, <2>2
  <2>4. SubSeq(text, p + 1, i - 1) \in Text
    BY <2>3, Part DEF LinesInv, Typed, Text
  <2> QED
    BY <2>1, <2>4 DEF Bounded
<1> HIDE DEF c, written
<1>6. CASE k <= Before(text, c + 1)
  <2> DEFINE S == Breaks(text)
             i == Nth(S, k)
  <2>1. Before(text, c + 1) \in Nat /\ Before(text, c + 1) <= Cardinality(S)
    BY <1>1, <1>3
  <2>2. IsFiniteSet(S) /\ Cardinality(S) \in Nat
    <3>1. IsFiniteSet(S) /\ IsFiniteSet(Below(S, 1))
      BY <1>1, <1>2, BelowFinite
    <3> QED
      BY <3>1, FS_CardinalityType
  <2>3. k \in 1..Cardinality(S)
    BY <1>1, <1>6, <2>1, <2>2
  <2>4. i \in S /\ Cardinality(Below(S, i)) = k - 1
    BY <1>1, <1>2, <2>3, NthExists
  <2> HIDE DEF i
  <2>5. i <= c
    <3> SUFFICES ASSUME i > c PROVE FALSE
      BY <1>1, <1>2, <2>4
    <3>1. \A j \in S : j < c + 1 => j < i
      BY <1>1, <1>2, <2>4
    <3>2. Below(S, c + 1) \in SUBSET Below(S, i)
      BY <3>1 DEF Below
    <3>3. IsFiniteSet(Below(S, i))
      BY <1>1, <1>2, BelowFinite
    <3>4. Cardinality(Below(S, c + 1)) <= Cardinality(Below(S, i))
      BY <3>2, <3>3, FS_Subset
    <3> QED
      BY <1>1, <1>6, <2>1, <2>4, <3>4 DEF Before
  <2>6. Before(text, i) + 1 = k
    BY <1>1, <2>4 DEF Before
  <2>7. PICK p \in Breaks(text) \union {0} :
          /\ Adjacent(Breaks(text), p, i)
          /\ lines[k] = Stripped(Bounded(text, p, i - 1))
    BY <2>4, <2>5, <2>6 DEF LinesInv, EndedLines, c
  <2>8. i \in Ends(text)
    BY <2>4 DEF Ends
  <2>9. /\ k \in DOMAIN written /\ written[k] \in Text
        /\ lines[k] = Stripped(Cut(written[k], MaxLine))
    BY <1>5, <2>6, <2>7, <2>8
  <2> QED
    BY <2>9, BoundedIsFaithful DEF written
<1>7. CASE k > Before(text, c + 1)
  <2>1. /\ c = Len(text) /\ k = Before(text, c + 1) + 1 /\ k = Len(lines)
        /\ lines[k] = Bounded(text, s, c)
    BY <1>1, <1>3, <1>4, <1>7
  <2>2. c + 1 \in Ends(text) /\ c + 1 - 1 = c
    BY <1>1, <2>1 DEF Ends
  <2>3. /\ k \in DOMAIN written /\ written[k] \in Text
        /\ Cut(written[k], MaxLine) = Bounded(text, s, c)
    BY <1>4, <1>5, <2>1, <2>2
  <2>4. ~(k < Len(written))
    BY <1>3, <2>1
  <2> QED
    BY <2>1, <2>3, <2>4, BoundedIsFaithful DEF written
<1>8. k <= Before(text, c + 1) \/ k > Before(text, c + 1)
  BY <1>1, <1>3
<1> QED
  BY <1>6, <1>7, <1>8

LEMMA LinesInvSuffices == LinesInv => LinesAreAsWritten
<1> SUFFICES ASSUME LinesInv PROVE LinesAreAsWritten
  OBVIOUS
<1> DEFINE written == WrittenLines(text)
<1>1. CASE role = "diagnostic"
  <2>1. lines = <<>>
    BY <1>1 DEF LinesInv
  <2> QED
    BY <1>1, <2>1 DEF LinesAreAsWritten
<1>2. CASE role = "progress"
  <2>1. DOMAIN lines = 1..Len(lines)
    BY LenProperties DEF LinesInv, Typed
  <2>2. \A k \in DOMAIN lines :
          /\ k \in DOMAIN written /\ Faithful(lines[k], written[k])
          /\ k < Len(written) /\ Len(written[k]) <= MaxLine => lines[k] = Stripped(written[k])
    BY <1>2, <2>1, LinesReturned
  <2>3. ASSUME reader = "done"
        PROVE  Len(lines) = Len(written) - (IF Last(written) = <<>> THEN 1 ELSE 0)
    <3> DEFINE n == Len(text)
    <3>1. n \in Nat /\ Len(lines) \in Nat /\ line = None /\ Consumed = n
      BY <1>2, <2>3, Counts DEF LinesInv, EndReached
    <3>2. PICK s \in Breaks(text) \union {0} :
            /\ Adjacent(Breaks(text), s, n + 1)
            /\ \/ s = n /\ Len(lines) = Before(text, n + 1)
               \/ s < n /\ Len(lines) = Before(text, n + 1) + 1
      BY <1>2, <3>1 DEF LinesInv, BegunLine
    <3>3. Len(written) = Before(text, n + 1) + 1 /\ Before(text, n + 1) \in Nat
      BY WrittenCount DEF LinesInv, Typed
    <3>4. n + 1 \in Ends(text) /\ n + 1 - 1 = n
      BY <3>1 DEF Ends
    <3>5. written[Len(written)] = SubSeq(text, s + 1, n)
      BY <3>2, <3>3, <3>4, WrittenLine DEF LinesInv, Typed
    <3>6. s \in 0..n
      BY <3>1, <3>2, BreaksOf DEF LinesInv, Typed
    <3>7. s + 1 \in 1..Len(text) + 1 /\ n \in s + 1 - 1..Len(text)
      BY <3>1, <3>6
    <3> HIDE DEF n, written
    <3>8. Len(SubSeq(text, s + 1, n)) = n - (s + 1) + 1
      <4> DEFINE first == s + 1
      <4> HIDE DEF first
      <4>1. first \in 1..Len(text) + 1 /\ n \in first - 1..Len(text)
        BY <3>1, <3>6 DEF first, n
      <4>2. text \in Text
        BY DEF LinesInv, Typed
      <4>3. Len(SubSeq(text, first, n)) = n - first + 1
        BY <4>1, <4>2, Part DEF Text
      <4> QED
        BY <4>3 DEF first
    <3>9. Last(written) = <<>> <=> s = n
      <4>1. CASE s = n
        <5>1. SubSeq(text, s + 1, n) = <<>>
          BY <3>1, <4>1, SubSeqEmpty
        <5> QED
          BY <3>5, <4>1, <5>1 DEF Last
      <4>2. CASE s < n
        <5>1. Len(SubSeq(text, s + 1, n)) /= 0
          BY <3>1, <3>6, <3>8, <4>2
        <5>2. SubSeq(text, s + 1, n) /= <<>>
          BY <5>1, EmptySeq
        <5> QED
          BY <3>1, <3>5, <4>2, <5>2 DEF Last
      <4> QED
        BY <3>1, <3>6, <4>1, <4>2
    <3> QED
      BY <3>1, <3>2, <3>3, <3>6, <3>9
  <2> QED
    BY <2>2, <2>3 DEF LinesAreAsWritten
<1> QED
  BY <1>1, <1>2 DEF LinesInv, Typed

\* read_bounded_line returns every line that is written, in order, whole or cut
\* at the bound, whatever the pieces in which the bytes arrive.
THEOREM LinesAreFaithful == Spec => []LinesAreAsWritten
BY LinesInvAtFirst, LinesInvStep, LinesInvSuffices, PTL DEF Spec

-----------------------------------------------------------------------------
(* Blocks.                                                                 *)

\* The greatest of some positions.
LEMMA GreatestOfSome ==
  ASSUME NEW n \in Nat, NEW S \in SUBSET (1..n), S /= {}
  PROVE  Max(S) \in S /\ \A x \in S : x <= Max(S)
<1> DEFINE T == {n - x : x \in S}
<1>1. T \subseteq Nat /\ T /= {}
  <2>1. \A x \in S : n - x \in Nat
    OBVIOUS
  <2> QED
    BY <2>1
<1>2. PICK least \in T : \A other \in T : least <= other
  BY <1>1, Smallest
<1>3. PICK greatest \in S : least = n - greatest
  OBVIOUS
<1>4. \A x \in S : x <= greatest
  <2> TAKE x \in S
  <2>1. n - x \in T
    OBVIOUS
  <2>2. n - greatest <= n - x
    BY <1>2, <1>3, <2>1
  <2>3. x \in Int /\ greatest \in Int /\ n \in Int
    OBVIOUS
  <2> HIDE DEF T
  <2> QED
    BY <2>2, <2>3
<1>5. \E x \in S : \A y \in S : x >= y
  BY <1>4
<1>6. Max(S) \in S /\ \A y \in S : Max(S) >= y
  BY <1>5 DEF Max
<1> QED
  BY <1>6

LEMMA KeyOfLine ==
  ASSUME NEW l \in Text
  PROVE  /\ KeyOf(l) \in Keys \union {None} /\ "progress" \in Keys /\ None \notin Keys
         /\ KeyOf(l) \in Keys => Tail(l) \in Text
<1>1. None \notin Keys /\ "progress" \in Keys
  BY NoneAssumption DEF Keys
<1>2. KeyOf(l) \in Keys => l /= <<>>
  BY <1>1 DEF KeyOf
<1> QED
  BY <1>1, <1>2, HeadTailProperties DEF KeyOf, Text

\* What a line that is read adds to the lines.
LEMMA LineAppended ==
  ASSUME NEW read \in Seq(Text), NEW l \in Text
  PROVE  LET more == Append(read, l)
         IN  /\ \A k \in 1..Len(read) : KeyOf(more[k]) = KeyOf(read[k])
             /\ \A s \in Nat : \A i \in 0..Len(read) : Values(more, s, i) = Values(read, s, i)
             /\ \A s \in 0..Len(read) : \A key \in Keys :
                  Values(more, s, Len(read) + 1)[key]
                    = IF KeyOf(l) = key THEN Tail(l) ELSE Values(read, s, Len(read))[key]
<1> DEFINE more == Append(read, l)
           n    == Len(read)
           At(r, key, s, i) == {k \in s + 1..i : KeyOf(r[k]) = key}
<1>1. /\ n \in Nat /\ more \in Seq(Text) /\ Len(more) = n + 1 /\ more[n + 1] = l
      /\ \A k \in 1..n : more[k] = read[k]
  BY AppendProperties, LenProperties
<1> HIDE DEF more, n
<1>2. ASSUME NEW s \in Nat, NEW i \in 0..n, NEW key \in Keys
      PROVE  /\ At(more, key, s, i) = At(read, key, s, i)
             /\ At(read, key, s, i) \in SUBSET (1..n)
             /\ Latest(more, key, s + 1..i) = Latest(read, key, s + 1..i)
  <2>1. \A k \in s + 1..i : k \in 1..n
    BY <1>1
  <2>2. At(more, key, s, i) = At(read, key, s, i) /\ At(read, key, s, i) \in SUBSET (1..n)
    BY <1>1, <2>1
  <2> DEFINE at == At(read, key, s, i)
  <2>3. at /= {} => Max(at) \in at
    BY <1>1, <2>2, GreatestOfSome
  <2>4. at /= {} => more[Max(at)] = read[Max(at)]
    BY <1>1, <2>2, <2>3
  <2>5. /\ Latest(more, key, s + 1..i) = IF at = {} THEN None ELSE Tail(more[Max(at)])
        /\ Latest(read, key, s + 1..i) = IF at = {} THEN None ELSE Tail(read[Max(at)])
    BY <2>2 DEF Latest
  <2> HIDE DEF at
  <2>6. Latest(more, key, s + 1..i) = Latest(read, key, s + 1..i)
    BY <2>4, <2>5
  <2> QED
    BY <2>2, <2>6
<1>3. ASSUME NEW s \in 0..n, NEW key \in Keys
      PROVE  Latest(more, key, s + 1..n + 1)
               = IF KeyOf(l) = key THEN Tail(l) ELSE Latest(read, key, s + 1..n)
  <2> DEFINE at  == At(more, key, s, n + 1)
             old == At(read, key, s, n)
  <2>1. s \in Nat /\ n \in 0..n
    BY <1>1
  <2>2. /\ At(more, key, s, n) = old /\ old \in SUBSET (1..n)
        /\ Latest(more, key, s + 1..n) = Latest(read, key, s + 1..n)
    BY <1>2, <2>1
  <2>3. \A k : k \in s + 1..n + 1 <=> k \in s + 1..n \/ k = n + 1
    BY <1>1
  <2>4. CASE KeyOf(l) = key
    <3>1. n + 1 \in at /\ at \in SUBSET (1..n + 1)
      BY <1>1, <2>3, <2>4
    <3> HIDE DEF at
    <3>2. Max(at) \in at /\ n + 1 <= Max(at)
      BY <1>1, <3>1, GreatestOfSome
    <3>3. Max(at) = n + 1
      <4>1. Max(at) \in 1..n + 1
        BY <3>1, <3>2
      <4> QED
        BY <1>1, <3>2, <4>1
    <3>4. Latest(more, key, s + 1..n + 1) = IF at = {} THEN None ELSE Tail(more[Max(at)])
      BY DEF Latest, at
    <3> QED
      BY <1>1, <2>4, <3>1, <3>3, <3>4
  <2>5. CASE KeyOf(l) /= key
    <3>1. at = At(more, key, s, n)
      BY <1>1, <2>3, <2>5
    <3>2. Latest(more, key, s + 1..n + 1) = Latest(more, key, s + 1..n)
      BY <3>1 DEF Latest
    <3> QED
      BY <2>2, <2>5, <3>2
  <2> QED
    BY <2>4, <2>5
<1>4. ASSUME NEW s \in Nat, NEW i \in 0..n PROVE Values(more, s, i) = Values(read, s, i)
  BY <1>2 DEF Values
<1>5. n \in 0..n
  BY <1>1
<1> QED
  BY <1>1, <1>3, <1>4 DEF Values, more, n

\* A line that ends no block is added to the block that has begun.
LEMMA LineHandled ==
  ASSUME lines \in Seq(Text), BlocksInv, NEW l \in Text, HandleLine(l)
  PROVE  BlocksInv'
<1> DEFINE n == Len(lines)
           E == BlockEnds(lines)
           F == BlockEnds(lines')
<1>1. /\ n \in Nat /\ lines' = Append(lines, l) /\ lines' \in Seq(Text)
      /\ Len(lines') = n + 1 /\ lines'[n + 1] = l
      /\ DOMAIN lines = 1..n /\ DOMAIN lines' = 1..n + 1
  <2>1. lines' = Append(lines, l)
    BY DEF HandleLine
  <2>2. /\ Append(lines, l) \in Seq(Text) /\ Len(Append(lines, l)) = n + 1
        /\ Append(lines, l)[n + 1] = l
    BY AppendProperties
  <2> QED
    BY <2>1, <2>2, LenProperties
<1>2. /\ \A k \in 1..n : KeyOf(lines'[k]) = KeyOf(lines[k])
      /\ \A s \in Nat : \A i \in 0..n : Values(lines', s, i) = Values(lines, s, i)
      /\ \A s \in 0..n : \A key \in Keys :
           Values(lines', s, n + 1)[key]
             = IF KeyOf(l) = key THEN Tail(l) ELSE Values(lines, s, n)[key]
  BY <1>1, LineAppended
<1>3. /\ KeyOf(l) \in Keys \union {None} /\ "progress" \in Keys /\ None \notin Keys
      /\ KeyOf(l) \in Keys => Tail(l) \in Text
  BY KeyOfLine
<1>4. E \in SUBSET (1..n) /\ IsFiniteSet(E) /\ Cardinality(E) \in Nat
  <2>1. E \in SUBSET (1..n)
    BY <1>1 DEF BlockEnds
  <2>2. IsFiniteSet(E) /\ IsFiniteSet(Below(E, 1))
    BY <1>1, <2>1, BelowFinite
  <2> QED
    BY <2>1, <2>2, FS_CardinalityType
<1>5. /\ KeyOf(l) = "progress" => F = E \union {n + 1}
      /\ KeyOf(l) /= "progress" => F = E
  <2>1. \A k : k \in F <=> k \in 1..n + 1 /\ KeyOf(lines'[k]) = "progress"
    BY <1>1 DEF BlockEnds
  <2>2. \A k : k \in E <=> k \in 1..n /\ KeyOf(lines[k]) = "progress"
    BY <1>1 DEF BlockEnds
  <2>3. \A k : k \in 1..n + 1 <=> k \in 1..n \/ k = n + 1
    BY <1>1
  <2> HIDE DEF E, F, n
  <2>4. ~(n + 1 \in 1..n)
    BY <1>1 DEF n
  <2>5. \A k : k \in F <=> k \in E \/ (k = n + 1 /\ KeyOf(l) = "progress")
    BY <1>1, <1>2, <2>1, <2>2, <2>3, <2>4, Zenon DEF n
  <2> QED
    BY <2>5
<1>6. PICK b \in E \union {0} : Adjacent(E, b, n + 1) /\ fields = Values(lines, b, n)
  BY DEF BlocksInv
<1>7. /\ fields \in FieldValues /\ events \in Seq(FieldValues) /\ Len(events) = Cardinality(E)
      /\ \A i \in E : \E s \in E \union {0} :
           /\ Adjacent(E, s, i)
           /\ events[Cardinality(Below(E, i)) + 1] = Values(lines, s, i)
  BY DEF BlocksInv
<1>8. /\ KeyOf(l) = "progress" => events' = Append(events, Kept(l)) /\ fields' = NoFields
      /\ KeyOf(l) /= "progress" =>
           /\ fields' = IF KeyOf(l) = None THEN fields ELSE Kept(l)
           /\ events' = events
  BY DEF HandleLine
<1> HIDE DEF n, E, F
<1>9. b \in 0..n
  BY <1>1, <1>4, <1>6
<1>10. KeyOf(l) \in Keys => Kept(l) = Values(lines', b, n + 1) /\ Kept(l) \in FieldValues
  <2> SUFFICES ASSUME KeyOf(l) \in Keys
               PROVE  Kept(l) = Values(lines', b, n + 1) /\ Kept(l) \in FieldValues
    OBVIOUS
  <2>1. Kept(l) \in FieldValues
    BY <1>3, <1>7 DEF Kept, FieldValues
  <2>2. ASSUME NEW key \in Keys PROVE Kept(l)[key] = Values(lines', b, n + 1)[key]
    <3>1. Kept(l)[key] = IF KeyOf(l) = key THEN Tail(l) ELSE fields[key]
      BY <1>7 DEF Kept, FieldValues
    <3> QED
      BY <1>2, <1>6, <1>9, <3>1
  <2>3. Values(lines', b, n + 1) = [key \in Keys |-> Values(lines', b, n + 1)[key]]
    BY DEF Values
  <2>4. Kept(l) = [key \in Keys |-> Kept(l)[key]]
    BY <2>1 DEF FieldValues
  <2> QED
    BY <2>1, <2>2, <2>3, <2>4
<1>11. KeyOf(l) = None => fields = Values(lines', b, n + 1)
  <2> SUFFICES ASSUME KeyOf(l) = None PROVE fields = Values(lines', b, n + 1)
    OBVIOUS
  <2>1. \A key \in Keys : Values(lines', b, n + 1)[key] = fields[key]
    BY <1>2, <1>3, <1>6, <1>9
  <2>2. Values(lines', b, n + 1) = [key \in Keys |-> Values(lines', b, n + 1)[key]]
    BY DEF Values
  <2>3. fields = [key \in Keys |-> fields[key]]
    BY <1>7 DEF FieldValues
  <2> QED
    BY <2>1, <2>2, <2>3
<1>12. CASE KeyOf(l) /= "progress"
  <2>1. F = E /\ events' = events
    BY <1>5, <1>8, <1>12
  <2>2. fields' = Values(lines', b, n + 1) /\ fields' \in FieldValues
    BY <1>3, <1>7, <1>8, <1>10, <1>11, <1>12
  <2>3. Adjacent(F, b, n + 2)
    <3>1. \A j \in E : j \in Nat /\ j < n + 1
      BY <1>1, <1>4
    <3>2. b \in Nat /\ b < n + 2
      BY <1>1, <1>9
    <3> QED
      BY <1>6, <2>1, <3>1, <3>2 DEF Adjacent
  <2>4. ASSUME NEW i \in F
        PROVE  \E s \in F \union {0} : /\ Adjacent(F, s, i)
                                       /\ events'[Cardinality(Below(F, i)) + 1] = Values(lines', s, i)
    <3>1. PICK s \in E \union {0} :
            Adjacent(E, s, i) /\ events[Cardinality(Below(E, i)) + 1] = Values(lines, s, i)
      BY <1>7, <2>1
    <3>2. s \in Nat /\ i \in 0..n
      BY <1>1, <1>4, <2>1
    <3> QED
      BY <1>2, <2>1, <3>1, <3>2
  <2>5. n + 1 + 1 = n + 2
    BY <1>1
  <2> QED
    BY <1>1, <1>6, <1>7, <2>1, <2>2, <2>3, <2>4, <2>5 DEF BlocksInv, F
<1>13. CASE KeyOf(l) = "progress"
  <2> DEFINE m == Len(events)
  <2>1. /\ F = E \union {n + 1} /\ events' = Append(events, Kept(l)) /\ fields' = NoFields
        /\ Kept(l) = Values(lines', b, n + 1) /\ Kept(l) \in FieldValues
    BY <1>3, <1>5, <1>8, <1>10, <1>13
  <2>2. /\ m \in Nat /\ events' \in Seq(FieldValues) /\ Len(events') = m + 1
        /\ events'[m + 1] = Kept(l) /\ \A k \in 1..m : events'[k] = events[k]
    BY <1>7, <2>1, AppendProperties, LenProperties
  <2>3. \A j \in E : j \in Nat /\ j < n + 1 /\ j <= n
    BY <1>1, <1>4
  <2>4. n + 1 \notin E /\ Cardinality(F) = m + 1
    <3>1. n + 1 \notin E
      BY <1>1, <2>3
    <3> QED
      BY <1>4, <1>7, <2>1, <3>1, FS_AddElement
  <2>5. ASSUME NEW i \in E PROVE Below(F, i) = Below(E, i)
    <3>1. ~(n + 1 < i)
      BY <1>1, <2>3
    <3> QED
      BY <2>1, <3>1 DEF Below
  <2>6. Below(F, n + 1) = E
    <3>1. ~(n + 1 < n + 1)
      BY <1>1
    <3> QED
      BY <2>1, <2>3, <3>1 DEF Below
  <2> HIDE DEF m
  <2>7. ASSUME NEW i \in F
        PROVE  \E s \in F \union {0} : /\ Adjacent(F, s, i)
                                       /\ events'[Cardinality(Below(F, i)) + 1] = Values(lines', s, i)
    <3>1. CASE i = n + 1
      <4>1. Adjacent(F, b, i)
        BY <1>1, <1>6, <2>1, <2>3, <3>1 DEF Adjacent
      <4>2. events'[Cardinality(Below(F, i)) + 1] = Values(lines', b, i)
        BY <1>7, <2>1, <2>2, <2>6, <3>1 DEF m
      <4> QED
        BY <1>6, <2>1, <4>1, <4>2
    <3>2. CASE i \in E
      <4>1. PICK s \in E \union {0} :
              Adjacent(E, s, i) /\ events[Cardinality(Below(E, i)) + 1] = Values(lines, s, i)
        BY <1>7, <3>2
      <4>2. s \in Nat /\ i \in 0..n /\ ~(n + 1 < i)
        BY <1>1, <1>4, <2>3, <3>2
      <4>3. Adjacent(F, s, i)
        BY <2>1, <4>1, <4>2 DEF Adjacent
      <4>4. Cardinality(Below(E, i)) + 1 \in 1..m
        BY <1>1, <1>4, <1>7, <3>2, NthOfRank DEF m
      <4> QED
        BY <1>2, <2>1, <2>2, <2>5, <3>2, <4>1, <4>2, <4>3, <4>4
    <3> QED
      BY <2>1, <3>1, <3>2
  <2>8. Adjacent(F, n + 1, n + 1 + 1)
    BY <1>1, <2>1, <2>3 DEF Adjacent
  <2>9. fields' = Values(lines', n + 1, n + 1) /\ fields' \in FieldValues
    <3>1. {k \in n + 1 + 1..n + 1 : TRUE} = {}
      BY <1>1
    <3>2. \A key \in Keys : {k \in n + 1 + 1..n + 1 : KeyOf(lines'[k]) = key} = {}
      BY <3>1
    <3>3. \A key \in Keys : Latest(lines', key, n + 1 + 1..n + 1) = None
      BY <3>2 DEF Latest
    <3> QED
      BY <2>1, <3>3 DEF Values, NoFields, FieldValues
  <2> QED
    BY <1>1, <2>1, <2>2, <2>4, <2>7, <2>8, <2>9 DEF BlocksInv, F
<1> QED
  BY <1>12, <1>13

LEMMA BlocksInvStep == Typed /\ BlocksInv /\ [Next]_vars => BlocksInv'
<1> SUFFICES ASSUME Typed, BlocksInv, [Next]_vars PROVE BlocksInv'
  OBVIOUS
<1>1. CASE TakeLine \/ LastLine
  <2>1. Returned \in Text /\ HandleLine(Returned)
    BY <1>1, LineTaken
  <2> QED
    BY <2>1, LineHandled DEF Typed
<1>2. CASE UNCHANGED <<lines, fields, events>>
  BY <1>2 DEF BlocksInv
<1>3. TakeLine \/ LastLine \/ UNCHANGED <<lines, fields, events>>
  BY DEF Next, Backend, BackendWrites, BackendCloses, Progress, FillBuffer, TakePiece,
         ProgressEnds, ProgressFails, Diagnostic, ReadTail, TailEnds, TailFails, vars
<1> QED
  BY <1>1, <1>2, <1>3

LEMMA BlocksInvAtFirst == Init => BlocksInv
<1> SUFFICES ASSUME Init PROVE BlocksInv
  OBVIOUS
<1>1. lines = <<>> /\ events = <<>> /\ fields = NoFields
  BY DEF Init
<1>2. Len(<<>>) = 0 /\ <<>> \in Seq(FieldValues)
  BY EmptySeq
<1>3. BlockEnds(lines) = {}
  BY <1>1 DEF BlockEnds
<1>4. Cardinality({}) = 0
  BY FS_EmptySet
<1>5. \A key \in Keys : Latest(lines, key, 0 + 1..0) = None
  <2>1. \A key \in Keys : {k \in 0 + 1..0 : KeyOf(lines[k]) = key} = {}
    OBVIOUS
  <2> QED
    BY <2>1 DEF Latest
<1>6. fields = Values(lines, 0, 0) /\ fields \in FieldValues
  BY <1>1, <1>5 DEF Values, NoFields, FieldValues
<1>7. Adjacent(BlockEnds(lines), 0, 0 + 1)
  BY <1>3 DEF Adjacent
<1> QED
  BY <1>1, <1>2, <1>3, <1>4, <1>6, <1>7 DEF BlocksInv

\* An event holds the values of its own block and of no other, whatever lines
\* the backend writes and however they arrive.
THEOREM EventsStandAlone == Spec => []BlocksStandAlone
<1>1. Typed /\ BlocksInv => BlocksStandAlone
  <2> SUFFICES ASSUME Typed, BlocksInv PROVE BlocksStandAlone
    OBVIOUS
  <2> DEFINE n == Len(lines)
             E == BlockEnds(lines)
             Block(k) == [key \in Keys |-> Latest(lines, key, Start(E, k)..Nth(E, k))]
  <2>1. n \in Nat /\ E \in SUBSET (1..n)
    BY LenProperties DEF Typed, BlockEnds
  <2>2. /\ events \in Seq(FieldValues) /\ Len(events) = Cardinality(E)
        /\ \A i \in E : \E s \in E \union {0} :
             /\ Adjacent(E, s, i)
             /\ events[Cardinality(Below(E, i)) + 1] = Values(lines, s, i)
    BY DEF BlocksInv
  <2> HIDE DEF n, E
  <2>3. ASSUME NEW k \in 1..Cardinality(E) PROVE events[k] = Block(k)
    <3> DEFINE i == Nth(E, k)
    <3>1. i \in E /\ Cardinality(Below(E, i)) = k - 1
      BY <2>1, NthExists
    <3> HIDE DEF i
    <3>2. Cardinality(Below(E, i)) + 1 = k
      BY <2>2, <3>1, LenProperties
    <3>3. PICK s \in E \union {0} : Adjacent(E, s, i) /\ events[k] = Values(lines, s, i)
      BY <2>2, <3>1, <3>2
    <3>4. Nth(E, k) = i /\ Start(E, k) = s + 1
      BY <2>1, <3>1, <3>2, <3>3, StartOfRank
    <3> QED
      BY <3>3, <3>4 DEF Values
  <2>4. events = [k \in 1..Len(events) |-> events[k]]
    BY <2>2, LenProperties
  <2>5. events = [k \in 1..Cardinality(E) |-> Block(k)]
    BY <2>2, <2>3, <2>4
  <2> QED
    BY <2>5 DEF BlocksStandAlone, E
<1> QED
  BY <1>1, TypedAtFirst, TypedStep, BlocksInvAtFirst, BlocksInvStep, PTL DEF Spec
=============================================================================
