---------------------------- MODULE BugLifecycle ----------------------------
(***************************************************************************)
(* Controllers driving one bug case from report to production              *)
(* (toolkit/ztad/bug_lifecycle.py and scripts/ztad_bug_lifecycle.py).      *)
(*                                                                         *)
(* A controller reads the case with its version, decides outside any       *)
(* transaction what to write (Advance, Rebind), obtains a signature where  *)
(* one is needed (Sign) and calls transition, which commits the write or   *)
(* raises (Commit, Refuse).  Other controllers, and other cases of the     *)
(* same store, write in between.                                           *)
(*                                                                         *)
(* A gate is judged on evidence for the subject as it was read; the model  *)
(* keeps how the judgement came out (Gates).  Controllers give every call  *)
(* the same trust roots.                                                   *)
(***************************************************************************)
EXTENDS LifecycleStore

CONSTANTS
  Procs,       \* controller processes
  Drivers,     \* those that take the case along its direct way
  NoRequest,   \* a controller with no write in hand
  Targets,     \* states that are requested whether or not their gate is next
  Hotfix,      \* the case was opened in mode HOTFIX
  MaxDetours   \* bound on steps off the direct way to verification

ASSUME DetourAssumption == MaxDetours \in Nat
ASSUME DriverAssumption == Drivers \subseteq Procs
ASSUME TargetAssumption == Targets \subseteq RecordStates
ASSUME HotfixAssumption == Hotfix \in BOOLEAN
ASSUME RequestAssumption == None \notin Candidates \cup Mains \cup Artifacts \cup Merges \cup Deployments

VARIABLES
  session,     \* the write each controller has in hand
  detours,     \* detours taken so far
  passed,      \* history: gates passed and not since taken back
  reviewed     \* history: the candidate that last passed independent review

vars == <<storeVars, session, detours, passed, reviewed>>

\* open: everything proved.  partial: some evidence accepted, something missing.
\* closed: nothing accepted.  unreadable: the policy or the record fails its schema.
Gates == {"open", "partial", "closed", "unreadable"}

InvestigationStates ==
  {"UNVERIFIED_REPORT", "SOURCE_OF_TRUTH_RESOLVED", "ISSUE_CLASSIFIED", "BUG_REPRODUCED",
   "ROOT_CAUSE_PROVEN", "BLAST_RADIUS_MAPPED", "CHANGE_PLANNED"}
\* In mode HOTFIX each gate asks for the checks of the case's domains, whatever it is.
NeedsEvidence(target) ==
  Hotfix \/ target \notin InvestigationStates \cup {"ROLLBACK_REQUIRED", "BLOCKED"}
NeedsArtifact(target) == target \in PACKAGE_STATES \cup RUNTIME_STATES \cup {"CLOSED"}

CloseAllowed ==
  \/ record.state = "ROLLBACK_REQUIRED"
  \/ Logical(record) = IF delivery = "PACKAGE_OR_PLUGIN"
                       THEN "CONSUMER_VALIDATION_PASS" ELSE "POST_DEPLOY_VERIFIED"

POST_PRODUCTION_STATES == {"PRODUCTION_RELEASED", "POST_DEPLOY_VERIFIED", "ROLLBACK_REQUIRED"}

\* evaluate_bug_transition
Allowed(target, gate) ==
  /\ gate = "open"
  /\ target \in ALLOWED(Logical(record))
  /\ delivery = "PACKAGE_OR_PLUGIN" => "ROLLBACK_REQUIRED" \notin {target, record.state}
  /\ NeedsEvidence(target) => record.subject.candidate # None
  /\ NeedsArtifact(target) => record.subject.artifact # None
  /\ target = "CLOSED" => CloseAllowed

\* Mutant: a refusal blocks an exposed case like any other.
DecisionBlocked(target, gate) == IF Allowed(target, gate) THEN "PROCEED" ELSE "BLOCKED"

Decision(target, gate) ==
  IF Allowed(target, gate) THEN "PROCEED"
  ELSE IF gate # "unreadable" /\ Logical(record) \in POST_PRODUCTION_STATES
       THEN "ROLLBACK_REQUIRED" ELSE "BLOCKED"

Accepted(target, gate) ==
  NeedsEvidence(target) /\ record.subject.candidate # None /\ gate \in {"open", "partial"}

\* advance_bug_lifecycle
Advanced(target, gate) ==
  IF Allowed(target, gate) THEN StopAt(record, target, None)
  ELSE StopAt(record, Decision(target, gate), Logical(record))

\* commit_bug_lifecycle_transition judges the gate twice: for the event and for the record.
\* An advance rewrites the fingerprint of the problem case it is given: revised says that
\* this is another than the case was opened with.
AdvanceWrite(target, gate, again, revised) ==
  [ version |-> version,
    next |-> Advanced(target, again),
    requested |-> target,
    decision |-> IF target = "ROLLBACK_REQUIRED" THEN target ELSE Decision(target, gate),
    accepted |-> Accepted(target, gate),
    rewrites |-> revised /\ Allowed(target, again),
    signedAt |-> 0 ]

\* The command line requests the blocked target, which the case has already passed or asked
\* for; the state it resumes at stands for it.
BindWrite(subject, decision) ==
  LET next == ApplyUpdate(record, subject)
  IN  [ version |-> version, next |-> next, requested |-> Logical(next),
        decision |-> decision, accepted |-> FALSE, rewrites |-> FALSE, signedAt |-> 0 ]

\* Every read of a case verifies the whole chain first, and raises if it does not verify.
Takes(p, w) ==
  /\ session[p] = NoRequest
  /\ Readable
  /\ session' = [session EXCEPT ![p] = w]
  /\ UNCHANGED <<storeVars, passed, reviewed>>

\* apply_subject_update raises for a subject that is not valid.
Binds(p, subject, decision) ==
  /\ ValidSubject(subject)
  /\ Takes(p, BindWrite(subject, decision))

Direct == detours' = detours
Detour == detours < MaxDetours /\ detours' = detours + 1

-----------------------------------------------------------------------------
\* The next gate opens.  An allowed CLOSED raises out of advance_bug_lifecycle.
Advance(p) ==
  /\ Direct
  /\ \E target \in AUTHORITATIVE \ {"CLOSED"} :
       /\ Allowed(target, "open")
       /\ DeliveryAllows({target})
       /\ Takes(p, AdvanceWrite(target, "open", "open", FALSE))

\* A state is requested whose gate stays shut, is judged differently the second time, leads
\* back, or is judged on a problem case that has been worked on since.
AdvanceAmiss(p) ==
  /\ Detour
  /\ \E target \in Targets, gate, again \in Gates, revised \in BOOLEAN :
       /\ ~(target = "CLOSED" /\ Allowed(target, again))
       /\ Takes(p, AdvanceWrite(target, gate, again, revised))

\* The candidate is bound once there is a plan, the artifact once CI has passed.
BindFirst(p) ==
  LET s == record.subject
      past(state) == InOrder(Logical(record)) /\ Rank(Logical(record)) >= Rank(state)
  IN  /\ Direct
      /\ \/ /\ s.candidate = None /\ past("CHANGE_PLANNED")
            /\ \E c \in Candidates : Binds(p, CandidateBound(c, None), "SUBJECT_BOUND")
         \/ /\ s.candidate # None /\ s.artifact = None /\ past("CI_PASS")
            /\ \E a \in Artifacts : Binds(p, ArtifactBound(s, a), "ARTIFACT_BOUND")

\* Any other binding: the candidate, its merge, the artifact with its release identity, the
\* deployment, or mutate_subject, which may change every field.
Rebind(p) ==
  LET s == record.subject
  IN  /\ Detour
      /\ \/ \E c \in Candidates, a \in Artifacts \cup {None} :
              Binds(p, CandidateBound(c, a), "SUBJECT_BOUND")
         \/ \E m \in Mains :
              s.candidate # None /\ Binds(p, MergeBound(s, m), "SUBJECT_BOUND")
         \/ \E a \in Artifacts : Binds(p, ArtifactBound(s, a), "ARTIFACT_BOUND")
         \/ \E d \in Deployments : Binds(p, ProductionBound(s, d), "SUBJECT_BOUND")
         \/ \E t \in Subjects : Binds(p, t, "SUBJECT_MUTATION_INVALIDATED_DOWNSTREAM")

\* prepare_transition_authorization, which verifies no chain, and the signature of what it
\* returns.
Unsigned(w) ==
  w.next.state \in PROTECTED /\ w.decision \notin BindingDecisions /\ w.signedAt = 0

Sign(p) ==
  /\ session[p] # NoRequest
  /\ Unsigned(session[p])
  /\ session[p].version = version
  /\ session' = [session EXCEPT ![p].signedAt = LogLength]
  /\ UNCHANGED <<storeVars, detours, passed, reviewed>>

\* The gates a case is still past after a write: what lies before where it now stands.
Before(state) ==
  LET lane(states) == {s \in states : Rank(s) < Rank(state)}
  IN  CASE state = "ROLLBACK_REQUIRED" -> InvestigationStates \ {"CHANGE_PLANNED"}
        [] state = "RESOLVED_NO_CODE" -> {COMMON[i] : i \in 1..3}
        [] state \in PACKAGE_STATES -> COMMON_STATES \cup lane(PACKAGE_STATES)
        [] state \in RUNTIME_STATES -> COMMON_STATES \cup lane(RUNTIME_STATES)
        [] OTHER -> lane(COMMON_STATES)

Commit(p) ==
  LET w == session[p]
      stands == Logical(w.next)
  IN  /\ w # NoRequest
      /\ ~Unsigned(w)
      /\ AppendEvent(w)
      /\ session' = [session EXCEPT ![p] = NoRequest]
      /\ passed' = IF w.decision = "PROCEED"
                   THEN (passed \cap Before(stands)) \cup {stands}
                   ELSE passed \cap (Before(stands) \cup {stands})
      /\ reviewed' = IF w.decision = "PROCEED" /\ stands = "INDEPENDENT_REVIEW_PASS"
                     THEN w.next.subject.candidate ELSE reviewed
      /\ UNCHANGED detours

\* transition, or the signing before it, raises.
Refuse(p) ==
  LET w == session[p]
  IN  /\ w # NoRequest
      /\ IF Unsigned(w) THEN w.version # version ELSE ~Admits(w)
      /\ session' = [session EXCEPT ![p] = NoRequest]
      /\ UNCHANGED <<storeVars, detours, passed, reviewed>>

\* The controller dies, does not get its signature, or what it has in hand expires.
Abandon(p) ==
  /\ session[p] # NoRequest
  /\ session' = [session EXCEPT ![p] = NoRequest]
  /\ Detour
  /\ UNCHANGED <<storeVars, passed, reviewed>>

\* What other cases write and what time does to the store.
OtherCase == AppendElsewhere /\ UNCHANGED <<session, detours, passed, reviewed>>
Lapses == Lapse /\ UNCHANGED <<session, detours, passed, reviewed>>

Init ==
  /\ StoreInit
  /\ session = [p \in Procs |-> NoRequest]
  /\ detours = 0
  /\ passed = {"UNVERIFIED_REPORT"}
  /\ reviewed = None

Starts(p) == p \in Drivers /\ session[p] = NoRequest /\ (Advance(p) \/ BindFirst(p))
Finishes(p) == Sign(p) \/ Commit(p) \/ Refuse(p)

Next ==
  \/ \E p \in Procs : Starts(p) \/ Finishes(p) \/ AdvanceAmiss(p) \/ Rebind(p) \/ Abandon(p)
  \/ OtherCase
  \/ Lapses

Spec == Init /\ [][Next]_vars

\* Drivers keep working on the case: evidence that a gate asks for is produced.
FairSpec == Spec /\ \A p \in Drivers : WF_vars(Finishes(p) \/ Starts(p))

-----------------------------------------------------------------------------
TypeOK ==
  /\ delivery \in DeliveryModels
  /\ record \in Record
  /\ version \in Nat \ {0}
  /\ foreign \in 0..MaxForeign
  /\ chainValid \in BOOLEAN
  /\ trust \in {"unused", "stands", "lapsed"}
  /\ session \in [Procs -> Write \cup {NoRequest}]
  /\ detours \in 0..MaxDetours
  /\ passed \subseteq AUTHORITATIVE
  /\ reviewed \in Candidates \cup {None}

\* What transition accepts, verify_event_chain accepts for as long as the evidence and the
\* authorizations it rests on do: the two judge an event by rules written twice, and a case
\* whose chain does not verify can no longer be read.  (Once some of that evidence expires
\* or its trust root is withdrawn, no case of the store can be read again.)
ChainVerifies == trust # "lapsed" => Readable

\* A case stands behind every gate on its way, each passed since the case was last taken
\* back before it, whatever resets, rollbacks and stale writes came in between.
GatesInOrder == Before(Logical(record)) \subseteq passed

\* A case falls back only with a change of its subject or for a rollback: no stale write and
\* no refused gate undoes progress.
ProgressKept ==
  [][ LET from == Logical(record)
          to == Logical(record')
      IN  InOrder(from) /\ InOrder(to) /\ Rank(to) < Rank(from)
            => record'.epoch > record.epoch
    ]_vars

\* RESOLVED_NO_CODE is a terminal class: no binding or late write reopens such a case.
ResolvedStays == [][record.state = "RESOLVED_NO_CODE" => record' = record]_vars

\* An owner release, a production or package release and a no-code resolution are each the
\* commit of a signature made when nothing, in this case or another, had been written since.
SignedAtHead ==
  [][ record'.state # record.state /\ record'.state \in PROTECTED
        => \E p \in Procs : /\ session[p] # NoRequest
                            /\ session[p].signedAt = LogLength
                            /\ session[p].next = record' ]_vars

\* Whatever its controllers read, decide, sign and lose, the case they share keeps to the
\* contract that CaseContract states of its stage and its epoch.
GoesOn(from, to) == to \in ALLOWED(from)
FallsBack(from, to) ==
  \/ to = from
  \/ InOrder(from) /\ InOrder(to) /\ Rank(to) <= Rank(from)
  \/ from \in EXPOSED_SUBJECT_STATES /\ to = "ROLLBACK_REQUIRED"

Contract == INSTANCE CaseContract WITH
  stage <- Logical(record), epoch <- record.epoch,
  First <- "UNVERIFIED_REPORT", Exposed <- POST_PRODUCTION_STATES,
  Rollback <- "ROLLBACK_REQUIRED", Resolved <- "RESOLVED_NO_CODE",
  Follows <- GoesOn, FallsBack <- FallsBack

KeepsContract == Contract!Spec

Verified ==
  record.state \in
    {"POST_DEPLOY_VERIFIED", "CONSUMER_VALIDATION_PASS", "RESOLVED_NO_CODE"}

\* While a driver keeps working on it, with the problem case it was opened with and while the
\* evidence accepted so far stands, no sequence of refused gates, rebindings, lost signatures
\* and interfering writes leaves a case where it cannot be verified.
CaseIsVerified == <>(Verified \/ trust = "lapsed")

-----------------------------------------------------------------------------
\* docs/BUG_TO_PRODUCTION_PROTOCOL.md: a subject change resets the lifecycle to the earliest
\* state that must be reproven, so what has passed CI was reviewed at its present candidate.
ReviewedDiff ==
  InOrder(record.state) /\ Rank(record.state) >= Rank("CI_PASS")
    => reviewed = record.subject.candidate

\* references/MASTER_PLAN.md: post-exposure uncertainty must produce ROLLBACK_REQUIRED, so a
\* rollback that is requested in order and signed for the current head is recorded.  (In mode
\* HOTFIX the rollback's gate asks for evidence, which the signed event may then carry.)
RollbackRecordable ==
  \A p \in Procs :
    LET w == session[p]
    IN  /\ w # NoRequest
        /\ w.requested = "ROLLBACK_REQUIRED"
        /\ w.requested \in ALLOWED(Logical(record))
        /\ delivery # "PACKAGE_OR_PLUGIN"
        /\ w.version = version
        /\ w.signedAt = LogLength
        => Admits(w)
=============================================================================
