--------------------------- MODULE LifecycleStore ---------------------------
(***************************************************************************)
(* The controller-owned record of one bug case                             *)
(* (toolkit/ztad/lifecycle_store.py): its row, its version, the events     *)
(* appended for it and what verify_event_chain says of them.  Cases share  *)
(* one global sequence of events; those of other cases move it             *)
(* (AppendElsewhere).                                                      *)
(*                                                                         *)
(* Verification walks the events from the first.  It judges each by the    *)
(* one before it: that verdict is fixed once an event is appended, so each *)
(* append carries it on (chainValid).  It validates the evidence and the   *)
(* authorization of each protected event once more, too, by the clock and  *)
(* the trust roots of the reader, and that verdict may change between two  *)
(* reads (trust).  Hashes, MACs and denormalized columns, which only       *)
(* tampering could make wrong, are not kept.                               *)
(***************************************************************************)
EXTENDS ReleaseSubject, Sequences

CONSTANTS
  DeliveryModels,  \* delivery models a case may have been derived to
  MaxForeign       \* bound on the events of other cases

ASSUME DeliveryAssumption ==
  DeliveryModels \subseteq {"PACKAGE_OR_PLUGIN", "HOSTED_RUNTIME_SERVICE", "HYBRID"}
ASSUME ForeignAssumption == MaxForeign \in Nat

VARIABLES
  delivery,    \* the delivery model derived when the case was opened
  record,      \* the case's current record
  version,     \* its version: the number of its events
  foreign,     \* events of other cases appended so far
  chainValid,  \* each event follows from the one before it
  trust        \* the evidence protected events of the log rest on: there is none yet, it
               \* still validates, or some has expired or lost its trust root

storeVars == <<delivery, record, version, foreign, chainValid, trust>>

COMMON ==
  <<"UNVERIFIED_REPORT", "SOURCE_OF_TRUTH_RESOLVED", "ISSUE_CLASSIFIED", "BUG_REPRODUCED",
    "ROOT_CAUSE_PROVEN", "BLAST_RADIUS_MAPPED", "CHANGE_PLANNED", "PATCH_IMPLEMENTED",
    "REGRESSION_TEST_PROVEN", "TARGETED_VALIDATION_PASS", "REGRESSION_VALIDATION_PASS",
    "DIFF_FORENSICS_PASS", "INDEPENDENT_REVIEW_PASS", "CI_PASS">>
PACKAGE ==
  <<"PACKAGE_RELEASED", "RELEASE_ARTIFACT_VERIFIED", "CONSUMER_VALIDATION_PASS">>
RUNTIME ==
  <<"STAGING_PASS", "READY_FOR_OWNER_RELEASE", "PRODUCTION_RELEASED", "POST_DEPLOY_VERIFIED">>

STATE_ORDER == COMMON \o PACKAGE \o RUNTIME \o <<"CLOSED">>

InOrder(state) == \E i \in DOMAIN STATE_ORDER : STATE_ORDER[i] = state
Rank(state) == CHOOSE i \in DOMAIN STATE_ORDER : STATE_ORDER[i] = state

COMMON_STATES == {COMMON[i] : i \in DOMAIN COMMON}
PACKAGE_STATES == {PACKAGE[i] : i \in DOMAIN PACKAGE}
RUNTIME_STATES == {RUNTIME[i] : i \in DOMAIN RUNTIME}
AUTHORITATIVE == COMMON_STATES \cup PACKAGE_STATES \cup RUNTIME_STATES \cup
                 {"CLOSED", "RESOLVED_NO_CODE"}
RecordStates == AUTHORITATIVE \cup {"BLOCKED", "ROLLBACK_REQUIRED"}

PROTECTED ==
  PACKAGE_STATES \cup
  {"READY_FOR_OWNER_RELEASE", "PRODUCTION_RELEASED", "POST_DEPLOY_VERIFIED", "CLOSED",
   "RESOLVED_NO_CODE", "ROLLBACK_REQUIRED"}

CODE_LIFECYCLE == COMMON \o RUNTIME \o <<"CLOSED">>

\* The policy's transitions, those to BLOCKED aside; packages branch off at CI_PASS.
ALLOWED(state) ==
  LET next == {CODE_LIFECYCLE[i + 1] :
                 i \in {j \in 1..(Len(CODE_LIFECYCLE) - 1) : CODE_LIFECYCLE[j] = state}}
  IN  CASE state = "ISSUE_CLASSIFIED" -> next \cup {"RESOLVED_NO_CODE"}
        [] state = "CI_PASS" -> next \cup {"PACKAGE_RELEASED"}
        [] state = "PACKAGE_RELEASED" -> {"RELEASE_ARTIFACT_VERIFIED"}
        [] state = "RELEASE_ARTIFACT_VERIFIED" -> {"CONSUMER_VALIDATION_PASS"}
        [] state = "CONSUMER_VALIDATION_PASS" -> {"CLOSED", "STAGING_PASS"}
        [] state \in {"PRODUCTION_RELEASED", "POST_DEPLOY_VERIFIED"} ->
             next \cup {"ROLLBACK_REQUIRED"}
        [] state = "ROLLBACK_REQUIRED" -> {"CHANGE_PLANNED", "CLOSED"}
        [] OTHER -> next

BindingDecisions == {"SUBJECT_BOUND", "ARTIFACT_BOUND", "SUBJECT_MUTATION_INVALIDATED_DOWNSTREAM"}
Decisions == {"PROCEED", "BLOCKED", "ROLLBACK_REQUIRED"} \cup BindingDecisions

Record ==
  [ state : RecordStates,
    resume : RecordStates \cup {None},   \* resume_state
    subject : Subjects,
    epoch : Nat ]                        \* subject_epoch

\* A call of transition.  signedAt is the length of the whole log when its authorization
\* was prepared and signed (0: none): the signature names the next sequence number and
\* the predecessor's hash.
Write ==
  [ version : Nat, next : Record, requested : RecordStates, decision : Decisions,
    accepted : BOOLEAN,                  \* some accepted evidence comes with it
    rewrites : BOOLEAN,                  \* it changes the problem case's fingerprint
    signedAt : Nat ]

\* Where a case stands when what stopped it is disregarded.
Logical(r) == IF r.state = "BLOCKED" THEN r.resume ELSE r.state

DeliveryAllows(states) ==
  /\ delivery = "PACKAGE_OR_PLUGIN" =>
       states \cap (RUNTIME_STATES \cup {"ROLLBACK_REQUIRED"}) = {}
  /\ delivery = "HOSTED_RUNTIME_SERVICE" => states \cap PACKAGE_STATES = {}

LogLength == version + foreign

\* Mutant: an opened case has version 0, as if its first event were not one.
StoreInitUncounted ==
  /\ delivery \in DeliveryModels
  /\ record = [state |-> "UNVERIFIED_REPORT", resume |-> None, subject |-> Unbound, epoch |-> 0]
  /\ version = 0
  /\ foreign = 0
  /\ chainValid = TRUE
  /\ trust = "unused"

StoreInit ==
  /\ delivery \in DeliveryModels
  /\ record = [state |-> "UNVERIFIED_REPORT", resume |-> None, subject |-> Unbound, epoch |-> 0]
  /\ version = 1
  /\ foreign = 0
  /\ chainValid = TRUE
  /\ trust = "unused"

-----------------------------------------------------------------------------
\* The checks of transition, on the row as it is in its transaction.

Authorized(w) ==
  /\ w.signedAt = LogLength
  /\ w.requested \in PROTECTED => w.accepted

\* A subject changes by a binding and a binding changes the subject: the record a bind
\* function returns has lost the store's own fields, so it never passes for a no-op.  Of
\* the fields that are neither the subject's nor an advance's, only the fingerprint of the
\* problem case is ever rewritten.
SubjectChecked(w) ==
  LET changed == Changed(record.subject, w.next.subject)
      binding == w.decision \in BindingDecisions
  IN  /\ ValidSubject(w.next.subject)
      /\ EpochFollows(record, w.next)
      /\ (changed # {}) = binding
      /\ ~w.rewrites
      /\ binding => w.next.state \in {record.state, "BLOCKED", "ROLLBACK_REQUIRED"}

Ordered(w) ==
  w.next.state \in AUTHORITATIVE =>
    IF w.decision \in BindingDecisions
    THEN w.requested \in {w.next.state, record.state}
    ELSE w.decision = "PROCEED" /\ w.requested \in ALLOWED(Logical(record))

\* Mutants: the resume state is only looked up; it is compared only where the order has both.
StoppedAnywhere(w) ==
  /\ w.next.state = "ROLLBACK_REQUIRED" =>
       w.decision \in {"ROLLBACK_REQUIRED", "SUBJECT_MUTATION_INVALIDATED_DOWNSTREAM"}
  /\ w.next.state = "BLOCKED" =>
       w.decision \in {"BLOCKED"} \cup BindingDecisions /\ InOrder(w.next.resume)
StoppedIfOrdered(w) ==
  /\ StoppedAnywhere(w)
  /\ w.next.state = "BLOCKED" /\ InOrder(Logical(record)) =>
       Rank(w.next.resume) <= Rank(Logical(record))

Stopped(w) ==
  /\ w.next.state = "ROLLBACK_REQUIRED" =>
       w.decision \in {"ROLLBACK_REQUIRED", "SUBJECT_MUTATION_INVALIDATED_DOWNSTREAM"}
  /\ w.next.state = "BLOCKED" =>
       /\ w.decision \in {"BLOCKED"} \cup BindingDecisions
       /\ InOrder(w.next.resume)
       /\ InOrder(Logical(record))
       /\ Rank(w.next.resume) <= Rank(Logical(record))

\* Mutants: stale versions pass; protected states need no authorization; a signature is good
\* for as long as the version is.
AdmitsStale(w) ==
  /\ w.requested # "BLOCKED"
  /\ DeliveryAllows({w.next.state, w.requested})
  /\ SubjectChecked(w) /\ Ordered(w) /\ Stopped(w)
  /\ w.next.state \in PROTECTED => Authorized(w)
AdmitsUnsigned(w) ==
  /\ w.version = version
  /\ w.requested # "BLOCKED"
  /\ DeliveryAllows({w.next.state, w.requested})
  /\ SubjectChecked(w) /\ Ordered(w) /\ Stopped(w)
AdmitsOldSignature(w) ==
  /\ AdmitsUnsigned(w)
  /\ w.next.state \in PROTECTED => w.signedAt # 0 /\ w.accepted

Admits(w) ==
  /\ w.version = version
  /\ w.requested # "BLOCKED"
  /\ DeliveryAllows({w.next.state, w.requested})
  /\ SubjectChecked(w)
  /\ Ordered(w)
  /\ Stopped(w)
  /\ w.next.state \in PROTECTED => Authorized(w)
  /\ w.signedAt # 0 => w.signedAt = LogLength

\* The checks verify_event_chain makes of an event and its predecessor.
Verifies(w) ==
  /\ EpochFollows(record, w.next)
  /\ CASE w.decision = "PROCEED" ->
            w.next.state = w.requested /\ w.requested \in ALLOWED(Logical(record))
       [] w.decision = "BLOCKED" -> w.next.state = "BLOCKED"
       [] w.decision = "ROLLBACK_REQUIRED" -> w.next.state = "ROLLBACK_REQUIRED"
       [] OTHER -> w.next.state \in {record.state, "BLOCKED", "ROLLBACK_REQUIRED"}
  /\ IF w.next.state \in PROTECTED THEN w.version = version /\ Authorized(w) ELSE w.signedAt = 0

\* What verify_event_chain answers at this moment.
Readable == chainValid /\ trust # "lapsed"

\* The first protected event gives the chain evidence that may lapse.
TrustedFrom(protected) == IF protected /\ trust = "unused" THEN "stands" ELSE trust

\* transition appends the event and writes the row in one transaction; it does not verify
\* the chain before.
AppendEvent(w) ==
  /\ Admits(w)
  /\ record' = w.next
  /\ version' = version + 1
  /\ chainValid' = (chainValid /\ Verifies(w))
  /\ trust' = TrustedFrom(w.next.state \in PROTECTED)
  /\ UNCHANGED <<delivery, foreign>>

\* An event of another case of the same store, protected or not.
AppendElsewhere ==
  /\ foreign < MaxForeign
  /\ foreign' = foreign + 1
  /\ \E protected \in BOOLEAN : trust' = TrustedFrom(protected)
  /\ UNCHANGED <<delivery, record, version, chainValid>>

\* The evidence or the authorization of a protected event expires, or a reader's trust
\* roots no longer hold its key.  Nothing re-validates it.
Lapse ==
  /\ trust = "stands"
  /\ trust' = "lapsed"
  /\ UNCHANGED <<delivery, record, version, foreign, chainValid>>
=============================================================================
