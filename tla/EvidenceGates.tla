--------------------------- MODULE EvidenceGates ---------------------------
(***************************************************************************)
(* What BugLifecycle leaves open: how the gate of a state is judged        *)
(* (_gate_requirements, _protocol_gate_errors and evaluate_bug_transition  *)
(* of toolkit/ztad/bug_lifecycle.py, over toolkit/ztad/bug_protocol.py,    *)
(* evidence.py and problem.py).                                            *)
(*                                                                         *)
(* An investigator works the problem case out, finding by finding, before  *)
(* the case is opened or beside it; a producer takes the subject as it is, works, and delivers an item of     *)
(* evidence into the directory a controller reads, whatever has become of  *)
(* the subject meanwhile; an operator withdraws items.  A request is       *)
(* judged on what is there, and what was judged is committed later.        *)
(*                                                                         *)
(* Evidence types that one gate asks for together and one validator judges *)
(* are one type here.  A payload is sound or not: complete and             *)
(* affirmative.                                                            *)
(***************************************************************************)
EXTENDS BugLifecycle

CONSTANT HighRisk    \* the case's risk class is HIGH or CRITICAL

ASSUME GateAssumption == HighRisk \in BOOLEAN

VARIABLES
  evidence,    \* the directory of evidence items
  making,      \* the item a producer is working on
  problem,     \* the problem case
  revised      \* it is no longer, byte for byte, what the record was opened with

gateVars == <<evidence, making, problem, revised>>
allVars == <<vars, gateVars>>

\* The types the gates ask for, and the trust at which their producers issue them.
TrustOf ==
  [ PATCH |-> 2, RED_GREEN |-> 3, TARGETED |-> 3, DOMAIN_CHECKS |-> 5, FULL_REGRESSION |-> 3,
    DIFF_FORENSICS |-> 3, REVIEW |-> 3, CI |-> 3, POST_MERGE_CI |-> 5, PACKAGE_RELEASE |-> 4,
    ARTIFACT_CHAIN |-> 4, ASSETS |-> 5, CONSUMER |-> 5, STAGING |-> 5, READINESS |-> 4,
    SUPERVISOR_APPROVAL |-> 6, EXPOSURE_PLAN |-> 4, AUTHORIZATION |-> 6,
    RELEASE_COMPLETED |-> 5, POST_DEPLOY |-> 5, SYNTHETIC |-> 5, OBSERVATION |-> 5,
    NO_CODE |-> 3, ROLLBACK_DONE |-> 5 ]
Types == DOMAIN TrustOf

MACHINE_EXECUTOR_EVIDENCE_TYPES ==
  {"RED_GREEN", "TARGETED", "DOMAIN_CHECKS", "FULL_REGRESSION", "DIFF_FORENSICS", "CONSUMER"}

Producers == {"agent", "executor", "protected"}
ProducerOf(type) ==
  IF type = "PATCH" THEN "agent"
  ELSE IF type \in MACHINE_EXECUTOR_EVIDENCE_TYPES THEN "executor" ELSE "protected"

Item ==
  [ type : Types, trust : 2..6, by : Producers,
    about : Subjects, epoch : Nat \cup {None},   \* the subject it claims to be about
    sound : BOOLEAN,
    live : BOOLEAN,                              \* neither expired nor invalidated
    copy : BOOLEAN ]                             \* a second file with the same evidence_id

\* What the producer of a type makes of the present subject.
Made(type) ==
  [ type |-> type, trust |-> TrustOf[type], by |-> ProducerOf(type),
    about |-> record.subject, epoch |-> IF type = "PATCH" THEN None ELSE record.epoch,
    sound |-> TRUE, live |-> TRUE, copy |-> FALSE ]

-----------------------------------------------------------------------------
\* The problem case (problem.py).  Its findings are proved in this order; the two states after
\* a plan rank as CHANGE_PLANNED and stand for it here.
PROBLEM_STATES ==
  <<"UNVERIFIED_REPORT", "SOURCE_OF_TRUTH_RESOLVED", "ISSUE_CLASSIFIED", "BUG_REPRODUCED",
    "ROOT_CAUSE_PROVEN", "BLAST_RADIUS_MAPPED", "CHANGE_PLANNED">>
FINDINGS == 2..7
OpenStates == {PROBLEM_STATES[i] : i \in DOMAIN PROBLEM_STATES}
WAITS_FOR == {2, 3, 4, 7}   \* states with an external dependency to wait for

Problem ==
  [ state : OpenStates \cup {"WAITING_EXTERNAL_DEPENDENCY", "RESOLVED_NO_CODE", "QUARANTINED"},
    class : {"CODE", "NO_CODE", None},
    found : SUBSET FINDINGS ]      \* i: what PROBLEM_STATES[i] asks for is recorded soundly

ProblemRank(state) == CHOOSE i \in DOMAIN PROBLEM_STATES : PROBLEM_STATES[i] = state

validate_authoritative_sources == 2 \in problem.found
validate_classification_record == 3 \in problem.found
validate_reproduction == 4 \in problem.found /\ problem.class = "CODE"
validate_root_cause == 5 \in problem.found
validate_blast_radius == 6 \in problem.found
validate_change_plan == 7 \in problem.found

\* semantic_errors is cumulative: each state asks for what the states before it do.
SemanticallySound(i) ==
  /\ i >= 2 => validate_authoritative_sources
  /\ i >= 3 => validate_classification_record
  /\ i >= 4 => validate_reproduction
  /\ i >= 5 => validate_root_cause
  /\ i >= 6 => validate_blast_radius
  /\ i >= 7 => validate_change_plan

\* advance_problem_case along TRANSITIONS.
AdvanceProblem ==
  /\ problem.state \in OpenStates
  /\ LET i == ProblemRank(problem.state) + 1
     IN  /\ i \in FINDINGS
         /\ SemanticallySound(i)
         /\ problem' = [problem EXCEPT !.state = PROBLEM_STATES[i]]

\* The first finding that is missing is worked out and recorded, one state ahead at most.
Find ==
  /\ problem.state \in OpenStates \cup {"WAITING_EXTERNAL_DEPENDENCY"}
  /\ \E i \in FINDINGS \ problem.found :
       /\ 2..(i - 1) \subseteq problem.found
       /\ problem.state \in OpenStates => i <= ProblemRank(problem.state) + 1
       /\ \E class \in IF i = 3 THEN {"CODE", "NO_CODE"} ELSE {problem.class} :
            problem' = [problem EXCEPT !.found = @ \cup {i}, !.class = class]

\* A case that waited resumes at any such state its findings prove.
ResumeProblem ==
  /\ problem.state = "WAITING_EXTERNAL_DEPENDENCY"
  /\ \E i \in WAITS_FOR :
       SemanticallySound(i) /\ problem' = [problem EXCEPT !.state = PROBLEM_STATES[i]]

Investigate ==
  /\ Find \/ AdvanceProblem \/ ResumeProblem
  /\ revised' = TRUE
  /\ UNCHANGED <<vars, evidence, making>>

\* Whatever goes wrong with a finding or an item is a step off the direct way, too.
caseVars == <<storeVars, session, passed, reviewed>>

\* A finding is contradicted, the case waits or ends otherwise than with a plan.
Digress ==
  /\ Detour
  /\ \/ \E i \in problem.found : problem' = [problem EXCEPT !.found = @ \ {i}]
     \/ /\ problem.state \in OpenStates
        /\ \/ /\ ProblemRank(problem.state) \in (WAITS_FOR \cup {1})
              /\ problem' = [problem EXCEPT !.state = "WAITING_EXTERNAL_DEPENDENCY"]
           \/ /\ problem.state = "ISSUE_CLASSIFIED" /\ problem.class = "NO_CODE"
              /\ problem' = [problem EXCEPT !.state = "RESOLVED_NO_CODE"]
           \/ problem' = [problem EXCEPT !.state = "QUARANTINED"]
  /\ revised' = TRUE
  /\ UNCHANGED <<caseVars, evidence, making>>

\* _problem_phase_errors: the case has come as far as the state, and its findings stand.
ProblemProves(target) ==
  /\ problem.state \in OpenStates
  /\ ProblemRank(problem.state) >= ProblemRank(target)
  /\ SemanticallySound(ProblemRank(target))

-----------------------------------------------------------------------------
\* The requests that are judged on the problem case; it may be left out of the others.
TakesProblem(target) == target \in InvestigationStates \cup {"RESOLVED_NO_CODE"}

\* Gates the policy says nothing of, which ask for something in mode HOTFIX only.
UngatedStates == InvestigationStates \cup {"ROLLBACK_REQUIRED", "BLOCKED"}

\* Mutant: whatever needs an artifact is judged as strictly as production.
MinimumOfArtifacts(target) ==
  CASE target \in {"PATCH_IMPLEMENTED", "REGRESSION_TEST_PROVEN", "TARGETED_VALIDATION_PASS",
                   "REGRESSION_VALIDATION_PASS"} \cup UngatedStates -> 2
    [] NeedsArtifact(target) -> 5
    [] OTHER -> 3

\* _gate_requirements over the policy's gates.
Minimum(target) ==
  CASE target \in {"PATCH_IMPLEMENTED", "REGRESSION_TEST_PROVEN", "TARGETED_VALIDATION_PASS",
                   "REGRESSION_VALIDATION_PASS"} \cup UngatedStates -> 2
    [] target \in PACKAGE_STATES \cup {"READY_FOR_OWNER_RELEASE"} -> 4
    [] target = "CLOSED" -> IF delivery = "PACKAGE_OR_PLUGIN" THEN 4 ELSE 5
    [] target \in {"STAGING_PASS", "PRODUCTION_RELEASED", "POST_DEPLOY_VERIFIED"} -> 5
    [] OTHER -> 3

GateTypes(target) ==
  CASE target = "PATCH_IMPLEMENTED" -> {"PATCH"}
    [] target = "REGRESSION_TEST_PROVEN" -> {"RED_GREEN"}
    [] target = "TARGETED_VALIDATION_PASS" -> {"TARGETED", "DOMAIN_CHECKS"}
    [] target = "REGRESSION_VALIDATION_PASS" -> {"FULL_REGRESSION", "DOMAIN_CHECKS"}
    [] target = "DIFF_FORENSICS_PASS" -> {"DIFF_FORENSICS"}
    [] target = "RESOLVED_NO_CODE" -> {"NO_CODE"}
    [] target = "INDEPENDENT_REVIEW_PASS" -> {"REVIEW"}
    [] target = "CI_PASS" -> {"CI"}
    [] target = "PACKAGE_RELEASED" -> {"PACKAGE_RELEASE", "ARTIFACT_CHAIN"}
    [] target = "RELEASE_ARTIFACT_VERIFIED" -> {"ASSETS"}
    [] target = "CONSUMER_VALIDATION_PASS" -> {"CONSUMER"}
    [] target = "STAGING_PASS" -> {"STAGING", "DOMAIN_CHECKS"}
    [] target = "READY_FOR_OWNER_RELEASE" ->
         {"ARTIFACT_CHAIN", "READINESS", "SUPERVISOR_APPROVAL", "DOMAIN_CHECKS"} \cup
         (IF HighRisk THEN {"EXPOSURE_PLAN"} ELSE {})
    [] target = "PRODUCTION_RELEASED" -> {"AUTHORIZATION", "RELEASE_COMPLETED", "DOMAIN_CHECKS"}
    [] target = "POST_DEPLOY_VERIFIED" ->
         {"POST_DEPLOY", "SYNTHETIC", "OBSERVATION", "DOMAIN_CHECKS"}
    [] target = "CLOSED" ->
         (IF delivery = "PACKAGE_OR_PLUGIN" THEN {"PACKAGE_RELEASE", "ARTIFACT_CHAIN"}
          ELSE {"POST_DEPLOY", "SYNTHETIC", "OBSERVATION"}) \cup
         (IF delivery = "HOSTED_RUNTIME_SERVICE" THEN {} ELSE {"ASSETS", "CONSUMER"}) \cup
         (IF record.state = "ROLLBACK_REQUIRED" THEN {"ROLLBACK_DONE"} ELSE {})
    [] OTHER -> {}

Required(target) ==
  GateTypes(target) \cup
  (IF Hotfix THEN {"DOMAIN_CHECKS"} ELSE {}) \cup
  (IF record.subject.main # None /\ NeedsArtifact(target) THEN {"POST_MERGE_CI"} ELSE {})

-----------------------------------------------------------------------------
\* The validators of bug_protocol.py: the payload is sound and names these fields of the
\* subject as they are now.
Names(e, fields) == e.sound /\ \A f \in fields : e.about[f] = record.subject[f]

Source == IF record.subject.main # None THEN {"candidate", "main"} ELSE {"candidate"}

validate_red_green_evidence(e) == Names(e, {"candidate"})
validate_targeted_validation(e) == e.sound
validate_full_regression_metadata(e) == Names(e, {"candidate"})
validate_diff_forensics(e) == Names(e, {"candidate"})
independent_review(e) == e.sound
validate_ci_metadata(e) == Names(e, Source)
validate_staging_metadata(e) == Names(e, {"candidate", "artifact"})
validate_artifact_chain(e) == Names(e, Source \cup {"artifact"})
validate_package_release_metadata(e) == validate_artifact_chain(e)
validate_published_asset_metadata(e) == validate_artifact_chain(e)
validate_consumer_validation_metadata(e) == Names(e, {"artifact"})
validate_progressive_exposure(e) == e.sound
validate_production_release_metadata(e) == Names(e, Source \cup {"artifact"})
validate_post_deploy_metadata(e) ==
  Names(e, {"artifact"} \cup IF record.subject.deployment # None THEN {"deployment"} ELSE {})
validate_synthetic_transaction_metadata(e) == e.sound
validate_observation_window_metadata(e) == e.sound
validate_rollback_closure(e) == e.sound

PayloadOK(e) ==
  CASE e.type = "RED_GREEN" -> validate_red_green_evidence(e)
    [] e.type = "TARGETED" -> validate_targeted_validation(e)
    [] e.type = "FULL_REGRESSION" -> validate_full_regression_metadata(e)
    [] e.type = "DIFF_FORENSICS" -> validate_diff_forensics(e)
    [] e.type = "REVIEW" -> independent_review(e)
    [] e.type \in {"CI", "POST_MERGE_CI"} -> validate_ci_metadata(e)
    [] e.type = "STAGING" -> validate_staging_metadata(e)
    [] e.type = "ARTIFACT_CHAIN" -> validate_artifact_chain(e)
    [] e.type = "PACKAGE_RELEASE" -> validate_package_release_metadata(e)
    [] e.type = "ASSETS" -> validate_published_asset_metadata(e)
    [] e.type = "CONSUMER" -> validate_consumer_validation_metadata(e)
    [] e.type = "EXPOSURE_PLAN" -> validate_progressive_exposure(e)
    [] e.type = "AUTHORIZATION" -> e.epoch \in {None, record.epoch}
    [] e.type = "RELEASE_COMPLETED" -> validate_production_release_metadata(e)
    [] e.type = "POST_DEPLOY" -> validate_post_deploy_metadata(e)
    [] e.type = "SYNTHETIC" -> validate_synthetic_transaction_metadata(e)
    [] e.type = "OBSERVATION" -> validate_observation_window_metadata(e)
    [] e.type = "ROLLBACK_DONE" -> validate_rollback_closure(e)

\* The types of which _protocol_gate_errors judges every item there is, valid or not.
Judged(target) ==
  LET unjudged == {"PATCH", "DOMAIN_CHECKS", "READINESS", "SUPERVISOR_APPROVAL", "NO_CODE"}
  IN  CASE target = "ROLLBACK_REQUIRED" -> {"ROLLBACK_DONE"}
        [] target = "CI_PASS" -> {"CI", "POST_MERGE_CI"}
        [] target = "STAGING_PASS" /\ record.subject.main # None -> {"STAGING", "POST_MERGE_CI"}
        [] target = "CLOSED" /\ record.state = "ROLLBACK_REQUIRED" /\ delivery # "PACKAGE_OR_PLUGIN"
             -> {"ROLLBACK_DONE"}
        [] target = "CLOSED" /\ delivery # "PACKAGE_OR_PLUGIN"
             -> {"POST_DEPLOY", "SYNTHETIC", "OBSERVATION"}
        [] OTHER -> GateTypes(target) \ unjudged

\* Mutant: machine evidence need not come from a registered executor, for this very subject.
validate_machine_evidence_claimed(e) == TRUE

validate_machine_evidence_provenance(e) ==
  e.type \in MACHINE_EXECUTOR_EVIDENCE_TYPES =>
    e.by = "executor" /\ e.about = record.subject /\ e.epoch = record.epoch

\* validate_evidence_record: below E3 nothing is signed and the epoch may be left out.
Valid(e, minimum) ==
  /\ e.live /\ e.sound /\ e.trust >= minimum
  /\ \A f \in DOMAIN record.subject :
       record.subject[f] # None => e.about[f] = record.subject[f]
  /\ IF e.trust >= 3 THEN e.about = record.subject /\ e.epoch = record.epoch /\ e.by # "agent"
     ELSE e.epoch \in {None, record.epoch}
  /\ validate_machine_evidence_provenance(e)

\* evaluate_required_evidence.
Has(type, minimum) == \E e \in evidence : e.type = type /\ Valid(e, minimum)

\* A valid approval below E6, or not by a protected controller, closes the gate.
ApprovalsProtected(target) ==
  \A e \in evidence :
    /\ e.type \in GateTypes(target) \cap {"SUPERVISOR_APPROVAL", "AUTHORIZATION"}
    /\ Valid(e, Minimum(target))
    => e.trust = 6 /\ e.by = "protected"

GateOpen(target) ==
  /\ target \in InvestigationStates => ProblemProves(target)
  /\ target = "RESOLVED_NO_CODE" => problem.class = "NO_CODE"
  /\ \A e \in evidence : e.type \in Judged(target) => PayloadOK(e)
  /\ Required(target) # {} =>
       /\ record.subject.candidate # None
       /\ \A type \in Required(target) : Has(type, Minimum(target))
       /\ \A e \in evidence : ~e.copy
       /\ ApprovalsProtected(target)

Judgement(target) ==
  IF GateOpen(target) THEN "open"
  ELSE IF /\ Required(target) # {} /\ record.subject.candidate # None
          /\ \E e \in evidence : Valid(e, Minimum(target))
       THEN "partial" ELSE "closed"

-----------------------------------------------------------------------------
\* commit_bug_lifecycle_transition for a target whose gate is open; a request that must be
\* refused for the problem case it rewrites is not made on the direct way.
Prove(p) ==
  /\ session[p] = NoRequest
  /\ \E target \in (ALLOWED(Logical(record)) \cap AUTHORITATIVE) \ {"CLOSED"} :
       /\ Allowed(target, Judgement(target))
       /\ DeliveryAllows({target})
       /\ ~(TakesProblem(target) /\ revised)
       /\ Takes(p, AdvanceWrite(target, "open", "open", FALSE))
  /\ Direct
  /\ UNCHANGED gateVars

\* A state is requested out of turn, before its gate is open, or with a revised problem case.
Ask(p) ==
  /\ Detour
  /\ session[p] = NoRequest
  /\ \E target \in Targets :
       LET gate == Judgement(target)
       IN  /\ ~(target = "CLOSED" /\ Allowed(target, gate))
           /\ \E given \in BOOLEAN :
                /\ TakesProblem(target) => given
                /\ Takes(p, AdvanceWrite(target, gate, gate, given /\ revised))
  /\ UNCHANGED gateVars

\* The types the states that may come next still need.
Wanted ==
  LET next == {t \in ALLOWED(Logical(record)) \ {"CLOSED"} :
                 DeliveryAllows({t}) /\ (NeedsArtifact(t) => record.subject.artifact # None)}
  IN  UNION {{type \in Required(t) : ~Has(type, Minimum(t))} : t \in next}

\* One producer at work; in which order the items of a state come does not matter to a gate.
Start ==
  /\ making = None
  /\ record.subject.candidate # None
  /\ LET wanted == Wanted
     IN  wanted # {} /\ making' = Made(CHOOSE type \in wanted : TRUE)
  /\ UNCHANGED <<vars, evidence, problem, revised>>

\* An executor finishes and its item is filed, for the subject as it was.
Deliver ==
  /\ making # None
  /\ evidence' = evidence \cup {making}
  /\ making' = None
  /\ UNCHANGED <<vars, problem, revised>>

Produce == Start \/ Deliver

\* An executor finds a failure, an agent files what it has not done, an item expires
\* before it is used (after it, see Lapse) or is filed twice.
Misfile ==
  /\ Detour
  /\ \/ /\ making # None
        /\ evidence' = evidence \cup {[making EXCEPT !.sound = FALSE]}
        /\ making' = None
     \/ /\ \E type \in Wanted, level \in {2, 6} :
             evidence' = evidence \cup {[Made(type) EXCEPT !.by = "agent", !.trust = level]}
        /\ UNCHANGED making
     \/ /\ \E e \in evidence, amiss \in {[live |-> FALSE, copy |-> FALSE],
                                         [live |-> TRUE, copy |-> TRUE]} :
             evidence' = (IF amiss.live THEN evidence ELSE evidence \ {e}) \cup
                         {[e EXCEPT !.live = amiss.live, !.copy = amiss.copy]}
        /\ UNCHANGED making
  /\ UNCHANGED <<caseVars, problem, revised>>

\* The operator takes out the items that stand twice, failed or are about another subject.
Withdraw ==
  LET counts == {e \in evidence : ~e.copy /\ Valid([e EXCEPT !.live = TRUE], 2)}
  IN  /\ evidence # counts
      /\ evidence' = counts
      /\ UNCHANGED <<vars, making, problem, revised>>

\* How far the problem case may have come when the record is opened on it: the findings of
\* its state are proved, and perhaps the next one is worked out.
Investigated ==
  {case \in [state : OpenStates, class : {"CODE", "NO_CODE", None},
             found : {2..j : j \in DOMAIN PROBLEM_STATES}] :
     LET i == ProblemRank(case.state)
     IN  /\ case.found \in {2..i, 2..(i + 1)}
         /\ case.class = None <=> 3 \notin case.found
         /\ i >= 4 => case.class = "CODE"}

ProblemInit == problem \in Investigated /\ revised = FALSE

GateInit == Init /\ ProblemInit /\ evidence = {} /\ making = None

Works(p) == p \in Drivers /\ (Prove(p) \/ (BindFirst(p) /\ UNCHANGED gateVars))
Settles(p) == Finishes(p) /\ UNCHANGED gateVars

GateNext ==
  \/ \E p \in Procs :
       \/ Works(p) \/ Settles(p) \/ Ask(p)
       \/ (Rebind(p) \/ Abandon(p)) /\ UNCHANGED gateVars
  \/ Investigate \/ Digress \/ Start \/ Deliver \/ Misfile \/ Withdraw
  \/ Lapses /\ UNCHANGED gateVars

GateSpec == GateInit /\ [][GateNext]_allVars

\* Drivers, the investigator, the producers or the operator: someone keeps working on the case.
Work ==
  \/ \E p \in Drivers : Works(p) \/ Settles(p)
  \/ Investigate \/ Produce \/ Withdraw

GateFairSpec == GateSpec /\ WF_allVars(Work)

-----------------------------------------------------------------------------
\* Judging and committing are apart, evidence is filed late and subjects come back: still, a
\* case enters a state that rests on more than a local patch only if a registered or protected
\* producer made, for the very subject and epoch the case has there, each thing the state
\* requires.
Proven(type) ==
  \E e \in evidence :
    /\ e.type = type /\ e.sound /\ e.by # "agent"
    /\ e.about = record'.subject /\ e.epoch = record'.epoch

GatesProved ==
  [][ LET to == record'.state
      IN  to # record.state /\ to \in AUTHORITATIVE /\ NeedsEvidence(to) /\ to # "PATCH_IMPLEMENTED"
            => \A type \in Required(to) : Proven(type)
    ]_allVars

\* Whatever is asked, judged and rebound, an exposed case goes on to the next production state
\* or to ROLLBACK_REQUIRED, and comes back from there only to a new plan.
ExposureNotForgotten ==
  [][ record.state \in POST_PRODUCTION_STATES /\ record'.state # record.state
        => record'.state \in {"POST_DEPLOY_VERIFIED", "CLOSED", "ROLLBACK_REQUIRED"} \cup
             (IF record.state = "ROLLBACK_REQUIRED" THEN {"CHANGE_PLANNED"} ELSE {})
    ]_allVars

\* The case is where a request rewrites its problem case, which is no longer what it was
\* opened with: no such request is ever accepted again.
Outrun ==
  revised /\ Logical(record) \in (InvestigationStates \ {"CHANGE_PLANNED"}) \cup
                                {"ROLLBACK_REQUIRED"}

\* A case with a code fix that was opened on a finished problem case, and one that has its
\* plan, is verified in the end: no failed, forged, stale, late, expired or duplicate item on
\* the way keeps it from that, while the evidence accepted so far stands.
CaseIsProved ==
  <>(Verified \/ problem.class = "NO_CODE" \/ Outrun \/ trust = "lapsed")
=============================================================================
