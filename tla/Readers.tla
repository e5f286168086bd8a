------------------------------ MODULE Readers -------------------------------
(***************************************************************************)
(* One pipe from ffmpeg and the thread that drains it: its stdout is read  *)
(* line by line into progress events (read_bounded_line and the reader of  *)
(* execute_backend), its stderr into a bounded tail (read_bounded_tail).   *)
(*                                                                         *)
(* A read returns any part of what has been written, so a line may come in *)
(* any number of pieces.  Bytes are tokens: "nl" and "cr", a key with its  *)
(* equals sign, or a byte of a value.  What the two threads do to the main *)
(* loop is Supervisor.tla's.                                               *)
(***************************************************************************)
EXTENDS Positions, SequencesExt, FiniteSetsExt

CONSTANTS
  Bytes,      \* the bytes of a line
  Lines,      \* the lines the backend may write, without their newline
  MaxLines,   \* how many it writes
  MaxLine,    \* MAX_PROGRESS_LINE_BYTES
  MaxTail,    \* MAX_BACKEND_DIAGNOSTIC_BYTES
  ChunkSize,  \* the most one read returns
  None

Keys == {"frame", "progress"}   \* two of the six keys that are kept

ASSUME LineAssumption == "nl" \notin Bytes /\ Lines \subseteq Seq(Bytes)

ASSUME LimitAssumption == {MaxLine, MaxTail, ChunkSize} \subseteq Nat \ {0}

\* None stands for Rust's None beside a line and in place of a key.
ASSUME NoneAssumption == None \notin Keys \union Seq(Bytes \union {"nl"})

VARIABLES
  role,    \* which pipe this is: "progress" or "diagnostic"
  text,    \* all the backend has written
  closed,  \* whether it has closed its end
  taken,   \* how much of the text the reader has taken from the pipe
  buffer,  \* BufReader's bytes that are not consumed yet
  line,    \* read_bounded_line's line, or None between two calls
  lines,   \* the lines read_bounded_line has returned
  fields,  \* the values of the block being read
  events,  \* the blocks sent to the main thread
  tail,    \* read_bounded_tail's result
  reader   \* "reading", "done" or "failed"

vars == <<role, text, closed, taken, buffer, line, lines, fields, events, tail, reader>>

NoFields == [key \in Keys |-> None]

Init ==
  /\ role \in {"progress", "diagnostic"}
  /\ text = <<>> /\ closed = FALSE /\ taken = 0
  /\ buffer = <<>> /\ line = None /\ lines = <<>>
  /\ fields = NoFields /\ events = <<>>
  /\ tail = <<>>
  /\ reader = "reading"

-----------------------------------------------------------------------------
(* The backend.                                                            *)

Breaks(t) == {i \in DOMAIN t : t[i] = "nl"}

BackendWrites ==
  /\ ~closed /\ Cardinality(Breaks(text)) < MaxLines
  /\ \E l \in Lines : text' = text \o l \o <<"nl">>
  /\ UNCHANGED <<role, closed, taken, buffer, line, lines, fields, events, tail, reader>>

\* It may end in the middle of a line.
BackendCloses ==
  /\ ~closed /\ closed' = TRUE
  /\ \E l \in Lines \union {<<>>} : text' = text \o l
  /\ UNCHANGED <<role, taken, buffer, line, lines, fields, events, tail, reader>>

-----------------------------------------------------------------------------
(* The progress reader.                                                    *)

Unread == Len(text) - taken
Chunks == {SubSeq(text, taken + 1, taken + n) : n \in 1..Min({Unread, ChunkSize})}

\* fill_buf reads only when nothing is left in the buffer.
FillBuffer ==
  /\ role = "progress" /\ reader = "reading"
  /\ buffer = <<>> /\ Unread > 0
  /\ \E chunk \in Chunks : buffer' = chunk /\ taken' = taken + Len(chunk)
  /\ UNCHANGED <<role, text, closed, line, lines, fields, events, tail, reader>>

LastOf(seq, n) == SubSeq(seq, Max({1, Len(seq) - n + 1}), Len(seq))
Cut(seq, n) == SubSeq(seq, 1, Min({n, Len(seq)}))
Stripped(l) == IF l /= <<>> /\ Last(l) = "cr" THEN Front(l) ELSE l

SoFar == IF line = None THEN <<>> ELSE line

\* One piece of a line: bytes past MaxLine are dropped.
Extended(content) == SoFar \o Cut(content, MaxLine - Len(SoFar))

\* The buffer's first break, or 0.
FirstBreak == Min(Breaks(buffer) \union {Len(buffer) + 1})

TakePiece ==
  /\ role = "progress" /\ reader = "reading"
  /\ buffer /= <<>> /\ Breaks(buffer) = {}
  /\ line' = Extended(buffer)
  /\ buffer' = <<>>
  /\ UNCHANGED <<role, text, closed, taken, lines, fields, events, tail, reader>>

\* What the thread does with a line: a line without a key is skipped, a
\* "progress" line ends the block.
KeyOf(l) == IF l /= <<>> /\ l[1] \in Keys THEN l[1] ELSE None

Kept(l) == [fields EXCEPT ![KeyOf(l)] = Tail(l)]

LeakyHandle(l) ==   \* the fields kept for the next block
  /\ lines' = Append(lines, l)
  /\ IF KeyOf(l) = "progress"
     THEN events' = Append(events, Kept(l)) /\ fields' = Kept(l)
     ELSE /\ fields' = IF KeyOf(l) = None THEN fields ELSE Kept(l)
          /\ UNCHANGED events

HandleLine(l) ==
  /\ lines' = Append(lines, l)
  /\ IF KeyOf(l) = "progress"
     THEN events' = Append(events, Kept(l)) /\ fields' = NoFields
     ELSE /\ fields' = IF KeyOf(l) = None THEN fields ELSE Kept(l)
          /\ UNCHANGED events

TakeLineUncut ==   \* the bound applied to the first piece only
  /\ role = "progress" /\ reader = "reading"
  /\ Breaks(buffer) /= {}
  /\ HandleLine(Stripped(SoFar \o Cut(SubSeq(buffer, 1, FirstBreak - 1), MaxLine)))
  /\ line' = None
  /\ buffer' = SubSeq(buffer, FirstBreak + 1, Len(buffer))
  /\ UNCHANGED <<role, text, closed, taken, tail, reader>>

TakeLine ==
  /\ role = "progress" /\ reader = "reading"
  /\ Breaks(buffer) /= {}
  /\ HandleLine(Stripped(Extended(SubSeq(buffer, 1, FirstBreak - 1))))
  /\ line' = None
  /\ buffer' = SubSeq(buffer, FirstBreak + 1, Len(buffer))
  /\ UNCHANGED <<role, text, closed, taken, tail, reader>>

\* At the end of the stream a line that was begun is returned as it is.
LastLine ==
  /\ role = "progress" /\ reader = "reading"
  /\ buffer = <<>> /\ closed /\ Unread = 0
  /\ line /= None
  /\ HandleLine(line)
  /\ line' = None
  /\ UNCHANGED <<role, text, closed, taken, buffer, tail, reader>>

ProgressStopsShort ==   \* a moment without bytes taken for the end
  /\ role = "progress" /\ reader = "reading"
  /\ buffer = <<>> /\ line = None
  /\ reader' = "done"
  /\ UNCHANGED <<role, text, closed, taken, buffer, line, lines, fields, events, tail>>

ProgressEnds ==
  /\ role = "progress" /\ reader = "reading"
  /\ buffer = <<>> /\ closed /\ Unread = 0
  /\ line = None
  /\ reader' = "done"
  /\ UNCHANGED <<role, text, closed, taken, buffer, line, lines, fields, events, tail>>

\* Fault: a read fails; the thread reports it and ends.
ProgressFails ==
  /\ role = "progress" /\ reader = "reading"
  /\ buffer = <<>>
  /\ reader' = "failed"
  /\ UNCHANGED <<role, text, closed, taken, buffer, line, lines, fields, events, tail>>

-----------------------------------------------------------------------------
(* The diagnostic reader.                                                  *)

ExtendTailByChunk(chunk) ==   \* a full tail replaced by the newest chunk
  tail' = IF Len(tail) + Len(chunk) > MaxTail THEN LastOf(chunk, MaxTail) ELSE tail \o chunk

ExtendTail(chunk) == tail' = LastOf(tail \o chunk, MaxTail)

ReadTail ==
  /\ role = "diagnostic" /\ reader = "reading"
  /\ Unread > 0
  /\ \E chunk \in Chunks : ExtendTail(chunk) /\ taken' = taken + Len(chunk)
  /\ UNCHANGED <<role, text, closed, buffer, line, lines, fields, events, reader>>

\* The end and an error are the same to it.
TailEnds ==
  /\ role = "diagnostic" /\ reader = "reading"
  /\ closed /\ Unread = 0
  /\ reader' = "done"
  /\ UNCHANGED <<role, text, closed, taken, buffer, line, lines, fields, events, tail>>

TailFails ==
  /\ role = "diagnostic" /\ reader = "reading"
  /\ reader' = "failed"
  /\ UNCHANGED <<role, text, closed, taken, buffer, line, lines, fields, events, tail>>

-----------------------------------------------------------------------------

Backend == BackendWrites \/ BackendCloses
Progress == FillBuffer \/ TakePiece \/ TakeLine \/ LastLine \/ ProgressEnds \/ ProgressFails
Diagnostic == ReadTail \/ TailEnds \/ TailFails

Next == Backend \/ Progress \/ Diagnostic

\* A thread that can take a step does; the backend need not write or close.
Fairness == WF_vars(Progress) /\ WF_vars(Diagnostic)

Spec == Init /\ [][Next]_vars /\ Fairness

-----------------------------------------------------------------------------
(* What must hold.                                                         *)

\* The k-th of the runs that end at the given positions starts after the one
\* before it.
Start(ends, k) == IF k = 1 THEN 1 ELSE Nth(ends, k - 1) + 1

\* The k-th line of a text ends at a newline or with the text.
Ends(t) == Breaks(t) \union {Len(t) + 1}

WrittenLines(t) ==
  [k \in 1..Cardinality(Ends(t)) |-> SubSeq(t, Start(Ends(t), k), Nth(Ends(t), k) - 1)]

\* Every line returned is the line written at its place: whole and without
\* its line ending when it fits, else a beginning of it that fills the bound
\* (but for one trailing return); never more than the bound, however the
\* bytes arrived (read_bounded_line).
Faithful(got, written) ==
  /\ IsPrefix(got, written) /\ Len(got) <= MaxLine
  /\ Len(written) <= MaxLine => got \in {written, Stripped(written)}
  /\ Len(written) > MaxLine => Len(got) >= MaxLine - 1

LinesAreAsWritten ==
  LET written == WrittenLines(text)
  IN  /\ \A k \in DOMAIN lines : /\ k \in DOMAIN written /\ Faithful(lines[k], written[k])
                                 /\ k < Len(written) /\ Len(written[k]) <= MaxLine
                                      => lines[k] = Stripped(written[k])
      /\ role = "progress" /\ reader = "done" =>
           Len(lines) = Len(written) - (IF Last(written) = <<>> THEN 1 ELSE 0)

BlockEnds(read) == {k \in DOMAIN read : KeyOf(read[k]) = "progress"}

\* The last value of a key among some of the lines read.
Latest(read, key, among) ==
  LET at == {k \in among : KeyOf(read[k]) = key}
  IN  IF at = {} THEN None ELSE Tail(read[Max(at)])

\* An event holds what was read since the previous "progress" line and
\* nothing older: a value the backend stopped reporting disappears.
BlocksStandAlone ==
  LET ends == BlockEnds(lines)
  IN  events = [n \in 1..Cardinality(ends) |->
                  [key \in Keys |-> Latest(lines, key, Start(ends, n)..Nth(ends, n))]]

\* The diagnostic kept is the end of all that was read, as long as it may be
\* (read_bounded_tail).
TailIsTheEnd ==
  role = "diagnostic" => tail = LastOf(SubSeq(text, 1, taken), MaxTail)

\* Once the backend has closed its pipe the reader ends, and unless a read
\* failed it has taken everything.
DrainsThePipe ==
  closed ~> (reader = "failed" \/ (reader = "done" /\ Unread = 0 /\ buffer = <<>>))
=============================================================================
