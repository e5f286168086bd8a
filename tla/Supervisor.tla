----------------------------- MODULE Supervisor -----------------------------
(***************************************************************************)
(* execute_backend and terminate_process_tree (src/src/apply.rs): the main *)
(* thread polls for cancellation, limits, exit and progress, while one     *)
(* thread reads progress blocks from ffmpeg's stdout and one drains its    *)
(* stderr.  The backend is a process group: a leader, which is the child   *)
(* that is waited for, and possibly a helper process that it started.      *)
(***************************************************************************)
EXTENDS Naturals, Sequences

CONSTANTS
  Blocks,           \* progress blocks the leader writes; the last says "end"
  Diagnostics,      \* chunks it writes to stderr
  PipeSize,         \* what a pipe holds before its writer blocks
  HasHelper,        \* does the leader start another process?
  HelperHoldsPipes, \* did the helper inherit stdout and stderr?
  HelperStays,      \* does the helper survive SIGTERM and the leader's exit?
  ReadsFail         \* may reading a pipe fail?

ASSUME SupervisorAssumption ==
  /\ Blocks \in Nat \ {0}
  /\ Diagnostics \in Nat
  /\ PipeSize \in Nat \ {0}
  /\ {HasHelper, HelperHoldsPipes, HelperStays, ReadsFail} \subseteq BOOLEAN

VARIABLES
  pc,         \* the main thread
  verdict,    \* what execute_backend is about to return
  cancelled,  \* the cancellation token
  late,       \* has max_runtime_ms elapsed?
  oversize,   \* is the temporary file larger than a limit?
  graceOver,  \* has TERMINATION_GRACE_PERIOD elapsed since SIGTERM?
  leader,     \* "running", or how it exited
  helper,     \* "running" or "gone"
  emitted,    \* progress blocks written so far
  diagnosed,  \* stderr chunks written so far
  stdout,     \* progress blocks in the stdout pipe
  stderr,     \* chunks in the stderr pipe
  outReader,  \* the stdout reader thread: it reads, saw the end, or failed
  errReader,  \* the stderr reader thread, likewise
  collected,  \* chunks the stderr reader has read
  channel,    \* the mpsc channel from the stdout reader to the main thread
  events      \* progress events passed to on_progress

mainVars == <<pc, verdict>>
requestVars == <<cancelled, late, oversize>>
groupVars == <<leader, helper>>
writtenVars == <<emitted, diagnosed>>
pipeVars == <<stdout, stderr>>
readerVars == <<outReader, errReader, collected>>
vars == <<mainVars, requestVars, graceOver, groupVars, writtenVars, pipeVars,
          readerVars, channel, events>>

Error == 0  \* in the channel: the stdout reader could not read
Verdicts == {"none", "ok", "BackendFailed", "Cancelled", "ResourceLimitExceeded",
             "BackendExecution", "SystemError"}

TypeOK ==
  /\ pc \in {"poll", "wait", "recv", "sigterm", "grace", "drain", "join_out",
             "join_err", "returned"}
  /\ verdict \in Verdicts
  /\ {cancelled, late, oversize, graceOver} \subseteq BOOLEAN
  /\ leader \in {"running", "succeeded", "failed"}
  /\ helper \in {"running", "gone"}
  /\ emitted \in 0 .. Blocks
  /\ diagnosed \in 0 .. Diagnostics
  /\ stdout \in Seq(1 .. Blocks) /\ Len(stdout) <= PipeSize
  /\ stderr \in 0 .. PipeSize
  /\ {outReader, errReader} \subseteq {"reading", "ended", "failed"}
  /\ collected \in Nat
  /\ channel \in Seq({Error} \union 1 .. Blocks)
  /\ events \in Seq(1 .. Blocks)

Init ==
  /\ pc = "poll" /\ verdict = "none"
  /\ cancelled = FALSE /\ late = FALSE /\ oversize = FALSE
  /\ graceOver = FALSE
  /\ leader = "running" /\ helper = IF HasHelper THEN "running" ELSE "gone"
  /\ emitted = 0 /\ diagnosed = 0
  /\ stdout = <<>> /\ stderr = 0
  /\ outReader = "reading" /\ errReader = "reading" /\ collected = 0
  /\ channel = <<>> /\ events = <<>>

-----------------------------------------------------------------------------
(* The main thread: the loop.                                              *)

Stop(reason) ==
  /\ pc' = "sigterm"
  /\ verdict' = reason

\* Fault: only cancellation is looked at in the loop.
PollWithoutLimits ==
  /\ pc = "poll"
  /\ \/ cancelled /\ Stop("Cancelled")
     \/ ~cancelled /\ pc' = "wait" /\ UNCHANGED verdict
  /\ UNCHANGED <<requestVars, graceOver, groupVars, writtenVars, pipeVars, readerVars,
                 channel, events>>

\* The top of the loop: cancellation, then the runtime, then the file's size.
Poll ==
  /\ pc = "poll"
  /\ \/ cancelled /\ Stop("Cancelled")
     \/ ~cancelled /\ (late \/ oversize) /\ Stop("ResourceLimitExceeded")
     \/ ~cancelled /\ ~late /\ ~oversize /\ pc' = "wait" /\ UNCHANGED verdict
  /\ UNCHANGED <<requestVars, graceOver, groupVars, writtenVars, pipeVars, readerVars,
                 channel, events>>

\* The system refuses a kill or a wait: the error is returned at once, with
\* nothing joined and the group as it is.
SystemRefuses == pc' = "returned" /\ verdict' = "SystemError"

\* try_wait: the leader's exit status decides, once it has one.
TryWait ==
  /\ pc = "wait"
  /\ \/ leader = "running" /\ pc' = "recv" /\ UNCHANGED verdict
     \/ leader = "succeeded" /\ pc' = "drain" /\ verdict' = "ok"
     \/ leader = "failed" /\ pc' = "drain" /\ verdict' = "BackendFailed"
     \/ SystemRefuses
  /\ UNCHANGED <<requestVars, graceOver, groupVars, writtenVars, pipeVars, readerVars,
                 channel, events>>

\* Fault: a read error is passed on like progress.
ReceiveAnything(onError) ==
  /\ channel # <<>>
  /\ channel' = Tail(channel)
  /\ events' = Append(events, Head(channel))
  /\ pc' = IF pc = "recv" THEN "poll" ELSE pc
  /\ UNCHANGED verdict

\* Takes the next message, if there is one: a block becomes an event.
Receive(onError) ==
  /\ channel # <<>>
  /\ channel' = Tail(channel)
  /\ \/ /\ Head(channel) # Error
        /\ events' = Append(events, Head(channel))
        /\ pc' = IF pc = "recv" THEN "poll" ELSE pc
        /\ UNCHANGED verdict
     \/ /\ Head(channel) = Error
        /\ pc' = onError
        /\ verdict' = "BackendExecution"
        /\ UNCHANGED events

\* recv_timeout: a message, or nothing within CANCELLATION_POLL_INTERVAL, or a
\* reader that has hung up, after which the loop only sleeps.
Recv ==
  /\ pc = "recv"
  /\ \/ Receive("sigterm")
     \/ channel = <<>> /\ pc' = "poll" /\ UNCHANGED <<verdict, channel, events>>
  /\ UNCHANGED <<requestVars, graceOver, groupVars, writtenVars, pipeVars, readerVars>>

-----------------------------------------------------------------------------
(* The main thread: terminate_process_tree.                                *)

\* Fault: after SIGTERM nobody waits for the child or the readers.
SigtermAndReturn ==
  /\ pc = "sigterm"
  /\ pc' = "returned"
  /\ UNCHANGED <<verdict, requestVars, graceOver, groupVars, writtenVars, pipeVars,
                 readerVars, channel, events>>

\* SIGTERM to the whole group, whose members may exit because of it; that
\* nobody is left in the group is no failure.
Sigterm ==
  /\ pc = "sigterm"
  /\ \/ pc' = "grace" /\ UNCHANGED verdict
     \/ SystemRefuses
  /\ UNCHANGED <<requestVars, graceOver, groupVars, writtenVars, pipeVars, readerVars,
                 channel, events>>

\* The leader exits during the grace period: done, whatever the helper does.
GraceExit ==
  /\ pc = "grace"
  /\ \/ leader # "running" /\ pc' = "join_out" /\ UNCHANGED verdict
     \/ SystemRefuses
  /\ UNCHANGED <<requestVars, graceOver, groupVars, writtenVars, pipeVars,
                 readerVars, channel, events>>

\* The grace period is over: SIGKILL to the whole group, and wait.
Sigkill ==
  /\ pc = "grace"
  /\ graceOver
  /\ \/ /\ leader' = IF leader = "running" THEN "failed" ELSE leader
        /\ helper' = "gone"
        /\ pc' = "join_out"
        /\ UNCHANGED verdict
     \/ SystemRefuses /\ UNCHANGED groupVars
  /\ UNCHANGED <<requestVars, graceOver, writtenVars, pipeVars, readerVars,
                 channel, events>>

-----------------------------------------------------------------------------
(* The main thread: after the loop.                                        *)

\* Fault: an exit status other than success is forgotten after the loop.
DrainForgiving ==
  /\ pc = "drain"
  /\ \/ Receive("returned")
     \/ channel = <<>> /\ pc' = "join_out" /\ verdict' = "ok" /\ UNCHANGED <<channel, events>>
  /\ UNCHANGED <<requestVars, graceOver, groupVars, writtenVars, pipeVars, readerVars>>

\* Progress that has arrived by now is delivered; a read error among it is
\* returned without joining the threads.
Drain ==
  /\ pc = "drain"
  /\ \/ Receive("returned")
     \/ channel = <<>> /\ pc' = "join_out" /\ UNCHANGED <<verdict, channel, events>>
  /\ UNCHANGED <<requestVars, graceOver, groupVars, writtenVars, pipeVars, readerVars>>

JoinOut ==
  /\ pc = "join_out"
  /\ outReader # "reading"
  /\ pc' = "join_err"
  /\ UNCHANGED <<verdict, requestVars, graceOver, groupVars, writtenVars, pipeVars,
                 readerVars, channel, events>>

\* Fault: the diagnostic is taken without joining its reader.
JoinErrUnjoined ==
  /\ pc = "join_err"
  /\ pc' = "returned"
  /\ UNCHANGED <<verdict, requestVars, graceOver, groupVars, writtenVars, pipeVars,
                 readerVars, channel, events>>

JoinErr ==
  /\ pc = "join_err"
  /\ errReader # "reading"
  /\ pc' = "returned"
  /\ UNCHANGED <<verdict, requestVars, graceOver, groupVars, writtenVars, pipeVars,
                 readerVars, channel, events>>

-----------------------------------------------------------------------------
(* The reader threads.  A pipe ends when nobody is left to write into it.  *)

PipesOpen == leader = "running" \/ (helper = "running" /\ HelperHoldsPipes)

\* The stdout reader forwards a whole progress block.
ReadBlock ==
  /\ outReader = "reading"
  /\ stdout # <<>>
  /\ stdout' = Tail(stdout)
  /\ channel' = Append(channel, Head(stdout))
  /\ UNCHANGED <<mainVars, requestVars, graceOver, groupVars, writtenVars, stderr,
                 readerVars, events>>

OutEnds ==
  /\ outReader = "reading"
  /\ stdout = <<>>
  /\ ~PipesOpen
  /\ outReader' = "ended"
  /\ UNCHANGED <<mainVars, requestVars, graceOver, groupVars, writtenVars, pipeVars,
                 errReader, collected, channel, events>>

\* Reading stdout fails: the reader says so and gives up.  With the thread its
\* end of the pipe is gone, and what the pipe held.
OutFails ==
  /\ ReadsFail
  /\ outReader = "reading"
  /\ channel' = Append(channel, Error)
  /\ outReader' = "failed"
  /\ stdout' = <<>>
  /\ UNCHANGED <<mainVars, requestVars, graceOver, groupVars, writtenVars, stderr,
                 errReader, collected, events>>

\* Fault: stderr is read only once the child has been reaped.
ReadDiagnosticLate ==
  /\ errReader = "reading"
  /\ pc \notin {"poll", "wait", "recv"}
  /\ stderr > 0
  /\ stderr' = stderr - 1
  /\ collected' = collected + 1
  /\ UNCHANGED <<mainVars, requestVars, graceOver, groupVars, writtenVars, stdout,
                 outReader, errReader, channel, events>>

\* The stderr reader keeps only the tail, but always drains the pipe.
ReadDiagnostic ==
  /\ errReader = "reading"
  /\ stderr > 0
  /\ stderr' = stderr - 1
  /\ collected' = collected + 1
  /\ UNCHANGED <<mainVars, requestVars, graceOver, groupVars, writtenVars, stdout,
                 outReader, errReader, channel, events>>

ErrEnds ==
  /\ errReader = "reading"
  /\ stderr = 0
  /\ ~PipesOpen
  /\ errReader' = "ended"
  /\ UNCHANGED <<mainVars, requestVars, graceOver, groupVars, writtenVars, pipeVars,
                 outReader, collected, channel, events>>

\* Reading stderr fails: the reader stops as at the end of the pipe, and tells
\* nobody.  What the pipe held, and all that is written later, is lost.
ErrFails ==
  /\ ReadsFail
  /\ errReader = "reading"
  /\ errReader' = "failed"
  /\ stderr' = 0
  /\ UNCHANGED <<mainVars, requestVars, graceOver, groupVars, writtenVars, stdout,
                 outReader, collected, channel, events>>

-----------------------------------------------------------------------------
(* The process group, the user and the clock.  The leader waits for room   *)
(* in a full pipe; what it writes where nobody reads any more is lost, and *)
(* it goes on, or exits for it (LeaderFails).                              *)

EmitBlock ==
  /\ leader = "running"
  /\ emitted < Blocks
  /\ emitted' = emitted + 1
  /\ \/ outReader # "failed" /\ Len(stdout) < PipeSize /\ stdout' = Append(stdout, emitted + 1)
     \/ outReader = "failed" /\ UNCHANGED stdout
  /\ UNCHANGED <<mainVars, requestVars, graceOver, groupVars, diagnosed, stderr,
                 readerVars, channel, events>>

EmitDiagnostic ==
  /\ leader = "running"
  /\ diagnosed < Diagnostics
  /\ diagnosed' = diagnosed + 1
  /\ \/ errReader # "failed" /\ stderr < PipeSize /\ stderr' = stderr + 1
     \/ errReader = "failed" /\ UNCHANGED stderr
  /\ UNCHANGED <<mainVars, requestVars, graceOver, groupVars, emitted, stdout,
                 readerVars, channel, events>>

LeaderSucceeds ==
  /\ leader = "running"
  /\ emitted = Blocks
  /\ diagnosed = Diagnostics
  /\ leader' = "succeeded"
  /\ UNCHANGED <<mainVars, requestVars, graceOver, helper, writtenVars, pipeVars,
                 readerVars, channel, events>>

\* By itself, or because of SIGTERM, or of a stdout nobody reads any more.
LeaderFails ==
  /\ leader = "running"
  /\ leader' = "failed"
  /\ UNCHANGED <<mainVars, requestVars, graceOver, helper, writtenVars, pipeVars,
                 readerVars, channel, events>>

HelperExits ==
  /\ helper = "running"
  /\ ~HelperStays
  /\ helper' = "gone"
  /\ UNCHANGED <<mainVars, requestVars, graceOver, leader, writtenVars, pipeVars,
                 readerVars, channel, events>>

\* Ctrl-C; the deadline; a temporary file that outgrows its limit.
Request ==
  /\ pc # "returned"
  /\ \/ ~cancelled /\ cancelled' = TRUE /\ UNCHANGED <<late, oversize>>
     \/ ~late /\ late' = TRUE /\ UNCHANGED <<cancelled, oversize>>
     \/ ~oversize /\ leader = "running" /\ oversize' = TRUE /\ UNCHANGED <<cancelled, late>>
  /\ UNCHANGED <<mainVars, graceOver, groupVars, writtenVars, pipeVars, readerVars,
                 channel, events>>

GraceElapses ==
  /\ pc = "grace"
  /\ ~graceOver
  /\ graceOver' = TRUE
  /\ UNCHANGED <<mainVars, requestVars, groupVars, writtenVars, pipeVars,
                 readerVars, channel, events>>

Main == \/ Poll \/ TryWait \/ Recv \/ Sigterm \/ GraceExit \/ Sigkill
        \/ Drain \/ JoinOut \/ JoinErr
Readers == ReadBlock \/ OutEnds \/ OutFails \/ ReadDiagnostic \/ ErrEnds \/ ErrFails
LeaderWorks == EmitBlock \/ EmitDiagnostic \/ LeaderSucceeds
Next == Main \/ Readers \/ LeaderWorks \/ LeaderFails \/ HelperExits \/ Request \/ GraceElapses

Spec == Init /\ [][Next]_vars

\* Threads run, the grace period elapses, and a helper does not outlive the
\* leader for ever.  Nothing is assumed of the leader: it may hang.
FairSpec ==
  /\ Spec
  /\ WF_vars(Main)
  /\ WF_vars(ReadBlock) /\ WF_vars(OutEnds)
  /\ WF_vars(ReadDiagnostic) /\ WF_vars(ErrEnds)
  /\ WF_vars(GraceElapses)
  /\ WF_vars(leader # "running" /\ HelperExits)

-----------------------------------------------------------------------------
(* Correctness.                                                            *)

\* Apply.tla relies on this: when execute_backend returns, the leader does not
\* write the temporary file any more, unless the system refused to kill it or
\* to wait for it.
ReturnMeansExited ==
  pc = "returned" /\ verdict # "SystemError" => leader # "running"

\* The result has the cause it names, and success has none but the exit status.
VerdictIsTrue ==
  /\ verdict = "ok" => leader = "succeeded"
  /\ verdict = "BackendFailed" => leader = "failed"
  /\ verdict = "Cancelled" => cancelled
  /\ verdict = "ResourceLimitExceeded" => late \/ oversize

\* The diagnostic of a failed backend is taken from everything it wrote to
\* stderr, unless reading stderr failed: that alone shortens it, and neither
\* the error nor the diagnostic says so (read_bounded_tail).
DiagnosticIsComplete ==
  pc = "returned" /\ verdict = "BackendFailed" =>
    errReader = "failed" \/ collected = diagnosed

\* Cancellation and every limit take effect, even on a backend that hangs and
\* ignores SIGTERM.
StopIsHonoured == (cancelled \/ late \/ oversize) ~> (pc = "returned")

\* A backend that keeps working is never blocked for good by a full pipe: the
\* run comes to an end without any limit.
WorkingBackendReturns == WF_vars(LeaderWorks) => <>(pc = "returned")

\* A successful run reports the Finished event its backend wrote.
FinishedIsReported ==
  pc = "returned" /\ verdict = "ok" => \E i \in 1 .. Len(events) : events[i] = Blocks

\* After cancellation nothing of the backend's process tree is left.
CancellationEndsTree ==
  pc = "returned" /\ verdict = "Cancelled" => leader # "running" /\ helper = "gone"
=============================================================================
