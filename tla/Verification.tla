---------------------------- MODULE Verification ----------------------------
(***************************************************************************)
(* Judging a rendered file against a plan (verify_output of                *)
(* src/src/apply.rs) and the receipt that records the judgement.           *)
(*                                                                         *)
(* A rendered file is the inspection ffprobe makes of it, with the         *)
(* loudness a measurement of it finds (None: no finite number).            *)
(***************************************************************************)
EXTENDS PlanModel

CONSTANT MaxReceiptWarnings   \* MAX_RECEIPT_WARNINGS, 128

ASSUME ReceiptAssumption == MaxReceiptWarnings = MaxWarnings

ReceiptSchema == "avpact.receipt/v0.1"

AbsDiff(a, b) == IF a < b THEN b - a ELSE a - b

FirstRendered(file, kind) == FirstStream(file.streams, kind)

Count(file, kinds) == Cardinality({i \in DOMAIN file.streams : file.streams[i].kind \in kinds})

-----------------------------------------------------------------------------
(* The checks of verify_output, in the order it performs them.             *)

check(name, passed) == [check |-> name, passed |-> passed]

VideoPasses(expected, stream) ==
  /\ stream /= None
  /\ stream.codec = expected.codec
  /\ stream.width = expected.width /\ stream.height = expected.height
  /\ stream.aspect = expected.aspect
  /\ expected.rate \in {None, stream.rate}

ChannelsUnjudged(expected, stream) ==   \* any number of channels will do
  stream /= None /\ stream.codec = expected.codec

AudioPasses(expected, stream) ==
  /\ stream /= None
  /\ stream.codec = expected.codec
  /\ expected.channels \in {None, stream.channels}

ExpectedLayout(expected) ==
  <<One(expected.video /= None), One(expected.audio /= None), 0, 0>>
StreamLayout(file) ==
  <<Count(file, {"video"}), Count(file, {"audio"}), Count(file, {"subtitle"}),
    Count(file, {"data", "attachment", "unknown"})>>

DurationPasses(expected, file) ==
  /\ file.duration /= None
  /\ AbsDiff(file.duration, expected.duration) <= expected.tolerance

SizeUnjudged(p, file) ==   \* the size of the file left out of the report
  LET e == p.expected
  IN  <<check("parseable", TRUE), check("container", file.container = e.container)>>
      \o (IF e.duration = None THEN <<>> ELSE <<check("duration", DurationPasses(e, file))>>)
      \o (IF e.video = None THEN <<>>
          ELSE <<check("video", VideoPasses(e.video, FirstRendered(file, "video")))>>)
      \o (IF e.audio = None THEN <<>>
          ELSE <<check("audio", AudioPasses(e.audio, FirstRendered(file, "audio")))>>)
      \o <<check("stream_layout", StreamLayout(file) = ExpectedLayout(e)),
           check("distinct_from_inputs",
                 \A i \in DOMAIN p.inputs : file.sha /= p.inputs[i].sha)>>

PerformedChecks(p, file) ==
  LET e == p.expected
  IN  <<check("parseable", TRUE), check("container", file.container = e.container)>>
      \o (IF e.duration = None THEN <<>> ELSE <<check("duration", DurationPasses(e, file))>>)
      \o (IF e.video = None THEN <<>>
          ELSE <<check("video", VideoPasses(e.video, FirstRendered(file, "video")))>>)
      \o (IF e.audio = None THEN <<>>
          ELSE <<check("audio", AudioPasses(e.audio, FirstRendered(file, "audio")))>>
               \o (IF e.audio.loudness = None THEN <<>>
                   ELSE <<check("integrated_loudness",
                                AbsDiff(file.loudness, e.audio.loudness.target)
                                  <= e.audio.loudness.tolerance)>>))
      \o <<check("stream_layout", StreamLayout(file) = ExpectedLayout(e)),
           check("output_size", file.bytes <= p.resources.budgets.output),
           check("distinct_from_inputs",
                 \A i \in DOMAIN p.inputs : file.sha /= p.inputs[i].sha)>>

Passed(checks) == \A i \in DOMAIN checks : checks[i].passed

\* What keeps a verified plan from being judged at all, or None.
Measured(p) == p.expected.audio /= None /\ p.expected.audio.loudness /= None

VerificationRefusal(p, file, probe) ==
  IF \E i \in DOMAIN p.inputs : p.inputs[i].probe /= probe
  THEN "backend_identity_mismatch"
  ELSE IF Measured(p) /\ FirstRendered(file, "audio") = None THEN "backend_failed"
  ELSE IF Measured(p) /\ file.loudness = None THEN "verification_measurement_failed"
  ELSE None

verify_output(p, file) ==
  LET checks == PerformedChecks(p, file)
  IN  [plan |-> p.id, passed |-> Passed(checks), output |-> file, checks |-> checks]

-----------------------------------------------------------------------------
(* Receipts.                                                               *)

receipt_id(plan, sha, completed) == <<"rcpt", plan, sha, completed>>

ReceiptAtStart(p, report, started, completed) ==   \* identified by its start
  [schema |-> ReceiptSchema, id |-> receipt_id(p.id, report.output.sha, started),
   plan |-> p.id, plan_digest |-> p, started |-> started, completed |-> completed,
   backend |-> p.backend, warnings |-> p.warnings,
   verification |-> [report EXCEPT !.output.path = p.path], output |-> p.path]

Receipt(p, report, started, completed) ==
  [schema |-> ReceiptSchema, id |-> receipt_id(p.id, report.output.sha, completed),
   plan |-> p.id, plan_digest |-> p, started |-> started, completed |-> completed,
   backend |-> p.backend, warnings |-> p.warnings,
   verification |-> [report EXCEPT !.output.path = p.path], output |-> p.path]

\* Left out: the forms of identifiers and digests, and the bounds of the texts of
\* warnings and checks (a text here has no length; the tools' names of formats, codecs
\* and rates, which the checks quote, are taken to be short).
validate_receipt(r) ==
  /\ r.schema = ReceiptSchema
  /\ r.verification.passed
  /\ r.verification.plan = r.plan
  /\ Passed(r.verification.checks)
  /\ Len(r.warnings) <= MaxReceiptWarnings
  /\ \A i \in DOMAIN r.warnings : Len(r.warnings[i].streams) <= MaxNamed
  /\ r.backend.version /= "" /\ r.backend.libraries /= {}
  /\ r.started <= r.completed
  /\ r.output = r.verification.output.path
  /\ r.id = receipt_id(r.plan, r.verification.output.sha, r.completed)
=============================================================================
