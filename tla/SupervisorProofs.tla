-------------------------- MODULE SupervisorProofs --------------------------
(***************************************************************************)
(* Proofs about Supervisor.tla, for any number of progress blocks and      *)
(* diagnostics, any pipe size, and every kind of backend and helper.       *)
(*                                                                         *)
(* The inductive invariant adds to the properties what ties the threads    *)
(* together: past the loop the leader has exited, a stderr reader that saw *)
(* the end has left an empty pipe that nobody will fill again, and until   *)
(* it fails what was written is read or still in the pipe.                 *)
(***************************************************************************)
EXTENDS Supervisor, TLAPS

\* The main thread is past the loop only once the leader has been reaped.
LoopEndsWithLeader == pc \in {"drain", "join_out", "join_err"} => leader # "running"

\* The stderr reader ends only when nothing is left or will be written.
ErrReaderEndsLast == errReader = "ended" => stderr = 0 /\ leader # "running"

\* What was written to stderr and not read yet is in the pipe, as long as its
\* reader has not failed.
NothingLost == errReader # "failed" => collected + stderr = diagnosed

Control == /\ LoopEndsWithLeader /\ ErrReaderEndsLast /\ NothingLost
           /\ ReturnMeansExited /\ VerdictIsTrue /\ DiagnosticIsComplete

-----------------------------------------------------------------------------
(* Type correctness.                                                       *)

LEMMA InitTyped == Init => TypeOK
<1> SUFFICES ASSUME Init PROVE TypeOK
  OBVIOUS
<1>1. helper \in {"running", "gone"}
  BY DEF Init
<1>2. /\ stdout \in Seq(1 .. Blocks) /\ Len(stdout) <= PipeSize
      /\ channel \in Seq({Error} \union 1 .. Blocks) /\ events \in Seq(1 .. Blocks)
  BY SupervisorAssumption DEF Init
<1>3. emitted \in 0 .. Blocks /\ diagnosed \in 0 .. Diagnostics /\ stderr \in 0 .. PipeSize
  BY SupervisorAssumption DEF Init
<1> QED
  BY <1>1, <1>2, <1>3 DEF Init, TypeOK, Verdicts

\* What both Recv and Drain do with a message keeps the types.
LEMMA ReceiveTyped ==
  ASSUME TypeOK, NEW next \in {"sigterm", "returned"}, Receive(next)
  PROVE  /\ pc' \in {"poll", "sigterm", "returned", pc}
         /\ verdict' \in Verdicts
         /\ channel' \in Seq({Error} \union 1 .. Blocks)
         /\ events' \in Seq(1 .. Blocks)
<1>1. /\ channel # <<>> /\ channel' = Tail(channel)
      /\ channel \in Seq({Error} \union 1 .. Blocks)
  BY DEF Receive, TypeOK
<1>2. /\ Head(channel) \in {Error} \union 1 .. Blocks
      /\ channel' \in Seq({Error} \union 1 .. Blocks)
  BY <1>1
<1>3. CASE Head(channel) # Error
  <2>1. Head(channel) \in 1 .. Blocks
    BY <1>2, <1>3
  <2>2. events' = Append(events, Head(channel)) /\ verdict' = verdict
    BY <1>3 DEF Receive
  <2>3. pc' \in {"poll", pc}
    BY <1>3 DEF Receive
  <2>4. events' \in Seq(1 .. Blocks)
    BY <2>1, <2>2 DEF TypeOK
  <2> QED
    BY <1>2, <2>2, <2>3, <2>4 DEF TypeOK
<1>4. CASE Head(channel) = Error
  BY <1>2, <1>4 DEF Receive, TypeOK, Verdicts
<1> QED
  BY <1>3, <1>4

LEMMA MainTyped == TypeOK /\ Main => TypeOK'
<1> SUFFICES ASSUME TypeOK, Main PROVE TypeOK'
  OBVIOUS
<1> USE DEF mainVars, requestVars, groupVars, writtenVars, pipeVars, readerVars
<1>1. CASE Poll
  BY <1>1 DEF Poll, Stop, TypeOK, Verdicts
<1>2. CASE TryWait
  BY <1>2 DEF TryWait, SystemRefuses, TypeOK, Verdicts
<1>3. CASE Recv
  <2>1. CASE Receive("sigterm")
    BY <1>3, <2>1, ReceiveTyped DEF Recv, TypeOK
  <2>2. CASE channel = <<>> /\ pc' = "poll" /\ UNCHANGED <<verdict, channel, events>>
    BY <1>3, <2>2 DEF Recv, TypeOK
  <2> QED
    BY <1>3, <2>1, <2>2 DEF Recv
<1>4. CASE Sigterm
  BY <1>4 DEF Sigterm, SystemRefuses, TypeOK, Verdicts
<1>5. CASE GraceExit
  BY <1>5 DEF GraceExit, SystemRefuses, TypeOK, Verdicts
<1>6. CASE Sigkill
  BY <1>6 DEF Sigkill, SystemRefuses, TypeOK, Verdicts
<1>7. CASE Drain
  <2>1. CASE Receive("returned")
    BY <1>7, <2>1, ReceiveTyped DEF Drain, TypeOK
  <2>2. CASE channel = <<>> /\ pc' = "join_out" /\ UNCHANGED <<verdict, channel, events>>
    BY <1>7, <2>2 DEF Drain, TypeOK
  <2> QED
    BY <1>7, <2>1, <2>2 DEF Drain
<1>8. CASE JoinOut
  BY <1>8 DEF JoinOut, TypeOK
<1>9. CASE JoinErr
  BY <1>9 DEF JoinErr, TypeOK
<1> QED
  BY <1>1, <1>2, <1>3, <1>4, <1>5, <1>6, <1>7, <1>8, <1>9 DEF Main

LEMMA ReadersTyped == TypeOK /\ Readers => TypeOK'
<1> SUFFICES ASSUME TypeOK, Readers PROVE TypeOK'
  OBVIOUS
<1> USE DEF mainVars, requestVars, groupVars, writtenVars, pipeVars, readerVars
<1>1. CASE ReadBlock
  <2>1. /\ stdout \in Seq(1 .. Blocks) /\ stdout # <<>> /\ Len(stdout) <= PipeSize
        /\ stdout' = Tail(stdout) /\ channel' = Append(channel, Head(stdout))
    BY <1>1 DEF ReadBlock, TypeOK
  <2>2. /\ stdout' \in Seq(1 .. Blocks) /\ Len(stdout') <= PipeSize
        /\ Head(stdout) \in 1 .. Blocks
    BY <2>1, SupervisorAssumption
  <2>3. channel' \in Seq({Error} \union 1 .. Blocks)
    BY <2>1, <2>2 DEF TypeOK
  <2> QED
    BY <1>1, <2>2, <2>3 DEF ReadBlock, TypeOK
<1>2. CASE OutEnds
  BY <1>2 DEF OutEnds, TypeOK
<1>3. CASE OutFails
  <2>1. stdout' \in Seq(1 .. Blocks) /\ Len(stdout') <= PipeSize
    BY <1>3, SupervisorAssumption DEF OutFails
  <2>2. channel' \in Seq({Error} \union 1 .. Blocks)
    BY <1>3 DEF OutFails, TypeOK
  <2> QED
    BY <1>3, <2>1, <2>2 DEF OutFails, TypeOK
<1>4. CASE ReadDiagnostic
  BY <1>4, SupervisorAssumption DEF ReadDiagnostic, TypeOK
<1>5. CASE ErrEnds
  BY <1>5 DEF ErrEnds, TypeOK
<1>6. CASE ErrFails
  BY <1>6, SupervisorAssumption DEF ErrFails, TypeOK
<1> QED
  BY <1>1, <1>2, <1>3, <1>4, <1>5, <1>6 DEF Readers

LEMMA EnvironmentTyped ==
  TypeOK /\ (LeaderWorks \/ LeaderFails \/ HelperExits \/ Request \/ GraceElapses) => TypeOK'
<1> SUFFICES ASSUME TypeOK, LeaderWorks \/ LeaderFails \/ HelperExits \/ Request \/ GraceElapses
             PROVE  TypeOK'
  OBVIOUS
<1> USE DEF mainVars, requestVars, groupVars, writtenVars, pipeVars, readerVars
<1>1. CASE EmitBlock
  <2>1. /\ emitted \in 0 .. Blocks /\ emitted < Blocks /\ emitted' = emitted + 1
        /\ stdout \in Seq(1 .. Blocks) /\ Len(stdout) <= PipeSize
    BY <1>1 DEF EmitBlock, TypeOK
  <2>2. emitted' \in 0 .. Blocks /\ emitted + 1 \in 1 .. Blocks
    BY <2>1, SupervisorAssumption
  <2>3. CASE Len(stdout) < PipeSize /\ stdout' = Append(stdout, emitted + 1)
    <3>1. stdout' \in Seq(1 .. Blocks) /\ Len(stdout') <= PipeSize
      BY <2>1, <2>2, <2>3, SupervisorAssumption
    <3> QED
      BY <1>1, <2>2, <3>1 DEF EmitBlock, TypeOK
  <2>4. CASE UNCHANGED stdout
    BY <1>1, <2>1, <2>2, <2>4 DEF EmitBlock, TypeOK
  <2> QED
    BY <1>1, <2>3, <2>4 DEF EmitBlock
<1>2. CASE EmitDiagnostic
  BY <1>2, SupervisorAssumption DEF EmitDiagnostic, TypeOK
<1>3. CASE LeaderSucceeds
  BY <1>3 DEF LeaderSucceeds, TypeOK
<1>4. CASE LeaderFails
  BY <1>4 DEF LeaderFails, TypeOK
<1>5. CASE HelperExits
  BY <1>5 DEF HelperExits, TypeOK
<1>6. CASE Request
  BY <1>6 DEF Request, TypeOK
<1>7. CASE GraceElapses
  BY <1>7 DEF GraceElapses, TypeOK
<1> QED
  BY <1>1, <1>2, <1>3, <1>4, <1>5, <1>6, <1>7 DEF LeaderWorks

\* TYPE: execute_backend keeps the type of every variable, whatever the sizes.
THEOREM TypeCorrect == Spec => []TypeOK
<1>1. TypeOK /\ UNCHANGED vars => TypeOK'
  BY DEF vars, mainVars, requestVars, groupVars, writtenVars, pipeVars, readerVars, TypeOK
<1>2. TypeOK /\ [Next]_vars => TypeOK'
  BY <1>1, MainTyped, ReadersTyped, EnvironmentTyped DEF Next
<1> QED
  BY InitTyped, <1>2, PTL DEF Spec

-----------------------------------------------------------------------------
(* The inductive invariant.                                                *)

LEMMA InitControlled == Init => Control
BY DEF Init, Control, LoopEndsWithLeader, ErrReaderEndsLast, NothingLost, ReturnMeansExited,
       VerdictIsTrue, DiagnosticIsComplete

LEMMA MainControlled == TypeOK /\ Control /\ Main => Control'
<1> SUFFICES ASSUME TypeOK, Control, Main PROVE Control'
  OBVIOUS
<1> USE DEF mainVars, requestVars, groupVars, writtenVars, pipeVars, readerVars,
            Control, LoopEndsWithLeader, ErrReaderEndsLast, NothingLost, ReturnMeansExited,
            VerdictIsTrue, DiagnosticIsComplete
<1>1. CASE Poll
  BY <1>1 DEF Poll, Stop
<1>2. CASE TryWait
  BY <1>2 DEF TryWait, SystemRefuses
<1>3. CASE Recv
  BY <1>3 DEF Recv, Receive
<1>4. CASE Sigterm
  BY <1>4 DEF Sigterm, SystemRefuses
<1>5. CASE GraceExit
  BY <1>5 DEF GraceExit, SystemRefuses
<1>6. CASE Sigkill
  BY <1>6 DEF Sigkill, SystemRefuses
<1>7. CASE Drain
  BY <1>7 DEF Drain, Receive
<1>8. CASE JoinOut
  BY <1>8 DEF JoinOut
<1>9. CASE JoinErr
  BY <1>9 DEF JoinErr, TypeOK
<1> QED
  BY <1>1, <1>2, <1>3, <1>4, <1>5, <1>6, <1>7, <1>8, <1>9 DEF Main

LEMMA OthersControlled ==
  TypeOK /\ Control
    /\ (Readers \/ LeaderWorks \/ LeaderFails \/ HelperExits \/ Request \/ GraceElapses)
  => Control'
<1> SUFFICES ASSUME TypeOK, Control,
                    Readers \/ LeaderWorks \/ LeaderFails \/ HelperExits \/ Request \/ GraceElapses
             PROVE  Control'
  OBVIOUS
<1> USE DEF mainVars, requestVars, groupVars, writtenVars, pipeVars, readerVars,
            Control, LoopEndsWithLeader, ErrReaderEndsLast, NothingLost, ReturnMeansExited,
            VerdictIsTrue, DiagnosticIsComplete
<1>1. CASE ReadBlock \/ OutEnds \/ OutFails
  BY <1>1 DEF ReadBlock, OutEnds, OutFails
<1>2. CASE ReadDiagnostic \* a chunk moves from the pipe to the reader
  BY <1>2 DEF ReadDiagnostic, TypeOK
<1>3. CASE ErrEnds        \* the pipes are closed, so the leader has exited
  BY <1>3 DEF ErrEnds, PipesOpen
<1>4. CASE EmitBlock      \* only a running leader writes
  BY <1>4 DEF EmitBlock
<1>10. CASE EmitDiagnostic
  <2>1. leader = "running" /\ UNCHANGED <<pc, verdict, cancelled, late, oversize, leader>>
    BY <1>10 DEF EmitDiagnostic
  <2>2. errReader' = errReader /\ errReader # "ended"
    BY <1>10 DEF EmitDiagnostic
  <2>3. NothingLost'
    BY <1>10 DEF EmitDiagnostic, TypeOK
  <2>4. pc' = "returned" /\ verdict' = "BackendFailed" => FALSE
    BY <2>1
  <2> QED
    BY <2>1, <2>2, <2>3, <2>4
<1>5. CASE LeaderSucceeds \/ LeaderFails
  BY <1>5 DEF LeaderSucceeds, LeaderFails
<1>6. CASE HelperExits
  BY <1>6 DEF HelperExits
<1>7. CASE Request
  BY <1>7 DEF Request
<1>8. CASE GraceElapses
  BY <1>8 DEF GraceElapses
<1>9. CASE ErrFails       \* from here on the diagnostic may be short
  BY <1>9 DEF ErrFails
<1> QED
  BY <1>1, <1>2, <1>3, <1>4, <1>5, <1>6, <1>7, <1>8, <1>9, <1>10
     DEF Readers, LeaderWorks

\* The supervisor's control and its record of the process group, the threads and
\* the queue agree, in every behaviour.
THEOREM Controlled == Spec => []Control
<1>1. Control /\ UNCHANGED vars => Control'
  BY DEF vars, mainVars, requestVars, groupVars, writtenVars, pipeVars, readerVars,
         Control, LoopEndsWithLeader, ErrReaderEndsLast, NothingLost, ReturnMeansExited,
         VerdictIsTrue, DiagnosticIsComplete
<1>2. TypeOK /\ Control /\ [Next]_vars => Control'
  BY <1>1, MainControlled, OthersControlled DEF Next
<1> QED
  BY InitControlled, <1>2, TypeCorrect, PTL DEF Spec

-----------------------------------------------------------------------------
(* The properties.                                                         *)

\* When execute_backend returns, the leader has exited, unless the system
\* refused to kill it or to wait for it.
THEOREM LeaderHasExited == Spec => []ReturnMeansExited
<1>1. Control => ReturnMeansExited
  BY DEF Control
<1> QED
  BY <1>1, Controlled, PTL

\* What execute_backend returns has the cause it names.
THEOREM VerdictsAreTrue == Spec => []VerdictIsTrue
<1>1. Control => VerdictIsTrue
  BY DEF Control
<1> QED
  BY <1>1, Controlled, PTL

\* The diagnostic of a failed backend is taken from all it wrote to stderr,
\* unless reading stderr failed.
THEOREM DiagnosticsAreComplete == Spec => []DiagnosticIsComplete
<1>1. Control => DiagnosticIsComplete
  BY DEF Control
<1> QED
  BY <1>1, Controlled, PTL
=============================================================================
