--------------------------- MODULE EvidenceBundle ---------------------------
(***************************************************************************)
(* The evidence bundle of a bug case (toolkit/ztad/evidence_bundle.py).    *)
(*                                                                         *)
(* A bundle carries the case as it stands, its evidence and the events     *)
(* that export takes out of the store; whoever receives it replays the     *)
(* events by rules of the bundle's own, a third time after transition and  *)
(* verify_event_chain.  The replay walks the events from the first, so it  *)
(* is kept as a verdict that each event of the case carries on (replay).   *)
(*                                                                         *)
(* Which evidence a refused gate was missing is not kept: whether what it  *)
(* asked for had all been accepted is either.  Digests, signatures and the *)
(* schemas of the records, and what each type of evidence must say, are    *)
(* those of EvidenceGates; the bundle here is one that carries them whole. *)
(***************************************************************************)
EXTENDS BugLifecycle

VARIABLE replay  \* what replaying the events of the case so far amounts to

Replay ==
  [ contiguous : BOOLEAN,            \* each event follows the one before it in the log
    ordered : BOOLEAN,               \* each follows from the state before it
    complete : BOOLEAN,              \* each accepts all the evidence it says is required
    authorized : BOOLEAN,            \* each that asks for a protected state is signed for
    refused : BOOLEAN,               \* history: some gate was refused
    epochs : SUBSET Nat,             \* epochs whose evidence was accepted
    asked : SUBSET RecordStates,     \* the states requested
    last : RecordStates,             \* of the last event: the state it requests,
    prior : RecordStates,            \* the state the case was in,
    proved : BOOLEAN ]               \* and whether it accepts evidence

OpeningReplay ==
  [ contiguous |-> TRUE, ordered |-> TRUE, complete |-> TRUE, authorized |-> TRUE,
    refused |-> FALSE, epochs |-> {}, asked |-> {"UNVERIFIED_REPORT"},
    last |-> "UNVERIFIED_REPORT", prior |-> "UNVERIFIED_REPORT", proved |-> FALSE ]

\* The event's sequence number is the next of the store, expected is the next of the case.
Contiguous(w) == LogLength + 1 = version + 1

\* What an event's decision says of the state it leads to.
Lawful(w) ==
  CASE w.decision = "PROCEED" ->
         w.next.state = w.requested /\ w.requested \in ALLOWED(Logical(record))
    [] w.decision \in {"BLOCKED", "ROLLBACK_REQUIRED"} -> w.next.state = w.decision
    [] OTHER -> w.next.state \in {record.state, "BLOCKED", "ROLLBACK_REQUIRED"}

\* A signature is asked for by what an event requests, too, whatever came of it.
SignedFor(w) ==
  {w.requested, w.next.state} \cap PROTECTED # {} => w.signedAt = LogLength

Refuses(w) == w.decision \in {"BLOCKED", "ROLLBACK_REQUIRED"} /\ w.requested # w.decision

\* _validate_lifecycle_replay, one event further.
Replayed(w, complete) ==
  [ contiguous |-> replay.contiguous /\ Contiguous(w),
    ordered |-> replay.ordered /\ EpochFollows(record, w.next) /\ Lawful(w),
    complete |-> replay.complete /\ complete,
    authorized |-> replay.authorized /\ SignedFor(w),
    refused |-> replay.refused \/ Refuses(w),
    epochs |-> replay.epochs \cup (IF w.accepted THEN {w.next.epoch} ELSE {}),
    asked |-> replay.asked \cup {w.requested},
    last |-> w.requested, prior |-> record.state, proved |-> w.accepted ]

-----------------------------------------------------------------------------
\* Mutant: a case that is over without a rollback was closed by a fix.
ClosureClassOfFix ==
  CASE record.state = "ROLLBACK_REQUIRED" -> "ROLLBACK_CLOSURE"
    [] record.state = "CLOSED" /\ delivery = "PACKAGE_OR_PLUGIN" -> "PACKAGE_RELEASE"
    [] OTHER -> "CODE_FIX"

\* The closure class that build_evidence_bundle declares.
ClosureClass ==
  CASE record.state = "RESOLVED_NO_CODE" -> "RESOLVED_NO_CODE"
    [] record.state = "ROLLBACK_REQUIRED" -> "ROLLBACK_CLOSURE"
    [] record.state = "CLOSED" /\ delivery = "PACKAGE_OR_PLUGIN" -> "PACKAGE_RELEASE"
    [] OTHER -> "CODE_FIX"

\* The states a case of that class must have asked for.
RequiredStates ==
  CASE ClosureClass = "RESOLVED_NO_CODE" -> {COMMON[i] : i \in 1..3}
    [] ClosureClass = "ROLLBACK_CLOSURE" ->
         COMMON_STATES \cup (RUNTIME_STATES \ {"POST_DEPLOY_VERIFIED"})
    [] ClosureClass = "PACKAGE_RELEASE" -> COMMON_STATES \cup PACKAGE_STATES \cup {"CLOSED"}
    [] ClosureClass = "CODE_FIX" /\ delivery = "HYBRID" -> {STATE_ORDER[i] : i \in DOMAIN STATE_ORDER}
    [] OTHER -> COMMON_STATES \cup RUNTIME_STATES \cup {"CLOSED"}

\* How the events of that class end.
Ends ==
  IF ClosureClass = "RESOLVED_NO_CODE" THEN replay.last = "RESOLVED_NO_CODE" /\ replay.proved
  ELSE /\ replay.last \in {"CLOSED", "ROLLBACK_REQUIRED"}
       /\ ClosureClass = "PACKAGE_RELEASE" => replay.prior = "CONSUMER_VALIDATION_PASS"
       /\ ClosureClass = "CODE_FIX" => replay.prior = "POST_DEPLOY_VERIFIED"

\* Evidence in a bundle is of the final subject; a no-code bundle asks that of its proof only.
OfFinalSubject ==
  IF ClosureClass = "RESOLVED_NO_CODE" THEN record.epoch \in replay.epochs
  ELSE replay.epochs \subseteq {record.epoch}

\* validate_evidence_bundle, of the bundle that is built of the case as it stands.
Validates ==
  /\ record.state \in {"CLOSED", "ROLLBACK_REQUIRED", "RESOLVED_NO_CODE"}
  /\ delivery = "PACKAGE_OR_PLUGIN" =>
       ClosureClass # "ROLLBACK_CLOSURE" /\ replay.asked \cap RUNTIME_STATES = {}
  /\ replay.contiguous /\ replay.ordered /\ replay.complete /\ replay.authorized
  /\ RequiredStates \subseteq replay.asked
  /\ Ends
  /\ OfFinalSubject

-----------------------------------------------------------------------------
BundleInit == Init /\ replay = OpeningReplay

Appends(p) ==
  /\ Commit(p)
  /\ LET w == session[p]
     IN  \E complete \in BOOLEAN :
           /\ complete \/ (Refuses(w) /\ NeedsEvidence(w.requested))
           /\ replay' = Replayed(w, complete)

BundleNext ==
  \/ \E p \in Procs : Appends(p)
  \/ Next /\ version' = version /\ UNCHANGED replay

bundleVars == <<vars, replay>>

BundleSpec == BundleInit /\ [][BundleNext]_bundleVars

-----------------------------------------------------------------------------
\* A case resolved without code, in a store whose events are all its own and with no gate
\* ever refused, has a bundle that validates: what transition admits and what the bundle
\* replays agree on every event, whatever was bound, lost or written late on the way.  (An
\* event of another case breaks the replay's count, a refused gate its evidence.)
ResolvedAloneReplays ==
  record.state = "RESOLVED_NO_CODE" /\ foreign = 0 /\ ~replay.refused => Validates
=============================================================================
