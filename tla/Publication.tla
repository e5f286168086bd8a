---------------------------- MODULE Publication ----------------------------
(***************************************************************************)
(* What `avpact apply` promises about a destination path, whatever the     *)
(* number of invocations that aim at it: a destination that does not exist *)
(* is bound at most once, to an artifact that passed verification and that *)
(* nobody writes any more, and only the invocation that bound it may issue *)
(* a receipt for it.  Apply.tla is shown to implement this specification.  *)
(***************************************************************************)

CONSTANTS
  Invocations,  \* runs of `avpact apply`; also the artifact each one renders
  Outputs,      \* destination paths
  Target,       \* Target[p]: the destination invocation p aims at
  Foreign,      \* stands for a file some other program created
  NoFile        \* the path does not exist

VARIABLES
  dest,      \* what each destination path names
  verified,  \* invocations whose artifact is finished and passed every check
  attested   \* invocations for which a complete receipt is on disk

pubVars == <<dest, verified, attested>>

PubTypeOK ==
  /\ dest \in [Outputs -> Invocations \union {Foreign, NoFile}]
  /\ verified \subseteq Invocations
  /\ attested \subseteq Invocations

PubInit ==
  /\ dest \in [Outputs -> {Foreign, NoFile}]
  /\ verified = {}
  /\ attested = {}

\* The artifact of p passes verification; it never changes afterwards.
Accept(p) ==
  /\ p \notin verified
  /\ verified' = verified \union {p}
  /\ UNCHANGED <<dest, attested>>

\* p gives its verified artifact the destination's name, if nobody has it.
Bind(p) ==
  /\ p \in verified
  /\ dest[Target[p]] = NoFile
  /\ dest' = [dest EXCEPT ![Target[p]] = p]
  /\ UNCHANGED <<verified, attested>>

\* A receipt of p is complete on disk: p's artifact is the destination's.
Attest(p) ==
  /\ dest[Target[p]] = p
  /\ attested' = attested \union {p}
  /\ UNCHANGED <<dest, verified>>

\* Another program creates the destination.
Occupy(o) ==
  /\ dest[o] = NoFile
  /\ dest' = [dest EXCEPT ![o] = Foreign]
  /\ UNCHANGED <<verified, attested>>

PubNext ==
  \/ \E p \in Invocations : Accept(p) \/ Bind(p) \/ Attest(p)
  \/ \E o \in Outputs : Occupy(o)

PubSpec == PubInit /\ [][PubNext]_pubVars
=============================================================================
