--------------------------- MODULE ReleaseSubject ---------------------------
(***************************************************************************)
(* What a bug case is about (toolkit/ztad/subject.py and the bind_*        *)
(* functions of toolkit/ztad/bug_lifecycle.py): the exact revision that    *)
(* was reviewed, what it became on main, the artifact built from it and    *)
(* where that was deployed.  Any change of it starts a new epoch and takes *)
(* the case back to the state its changed fields demand.                   *)
(*                                                                         *)
(* The material fields are kept as the four groups the code tells apart.   *)
(* The repository and the delivery model are fixed for a case here.        *)
(* evidence_refs, which an update empties into the history, is not kept:   *)
(* evidence is judged against the subject when a gate is evaluated.        *)
(***************************************************************************)
EXTENDS Naturals, FiniteSets

CONSTANTS
  Candidates,  \* base, head, reviewed diff, contract, policy and toolchain
  Mains,       \* merged-main revisions
  Artifacts,   \* artifact and release digests, artifact identity
  Releases,    \* production release ids
  None         \* a field that is null

Merges == [revision : Mains, of : Candidates]
Deployments == [release : Releases, revision : Candidates \cup Mains]

Subjects ==
  [ candidate : Candidates \cup {None},
    main : Merges \cup {None},
    artifact : Artifacts \cup {None},
    deployment : Deployments \cup {None} ]

Unbound == [candidate |-> None, main |-> None, artifact |-> None, deployment |-> None]

Active(s) == IF s.main # None THEN s.main.revision ELSE s.candidate

\* A merge names the reviewed candidate it was made from; what is deployed is what is active.
ValidSubject(s) ==
  /\ s.main # None => s.main.of = s.candidate
  /\ s.deployment # None /\ Active(s) # None => s.deployment.revision = Active(s)

Changed(old, new) == {field \in DOMAIN old : old[field] # new[field]}

\* Mutant: a new artifact only has to be staged again.
EarliestRevalidationStaging(changed) ==
  IF "deployment" \in changed THEN "ROLLBACK_REQUIRED"
  ELSE IF "artifact" \in changed THEN "STAGING_PASS"
  ELSE "CHANGE_PLANNED"

EarliestRevalidation(changed) ==
  IF "deployment" \in changed THEN "ROLLBACK_REQUIRED"
  ELSE IF "artifact" \in changed THEN "CI_PASS"
  ELSE "CHANGE_PLANNED"

\* What the store demands of the epoch of two consecutive records of a case.
EpochFollows(old, new) ==
  LET changed == Changed(old.subject, new.subject)
  IN  /\ new.epoch = old.epoch + (IF changed = {} THEN 0 ELSE 1)
      /\ "deployment" \in changed
           => new.state \in {"ROLLBACK_REQUIRED", "BLOCKED", "CHANGE_PLANNED"}

EXPOSED_SUBJECT_STATES ==
  {"PRODUCTION_RELEASED", "POST_DEPLOY_VERIFIED", "CLOSED", "ROLLBACK_REQUIRED"}
PACKAGE_RELEASE_STATES ==
  {"PACKAGE_RELEASED", "RELEASE_ARTIFACT_VERIFIED", "CONSUMER_VALIDATION_PASS"}
\* Nothing later than these has been proved, or the case is blocked already.
RETAINED_STATES ==
  {"UNVERIFIED_REPORT", "SOURCE_OF_TRUTH_RESOLVED", "ISSUE_CLASSIFIED", "BUG_REPRODUCED",
   "ROOT_CAUSE_PROVEN", "BLAST_RADIUS_MAPPED", "CHANGE_PLANNED", "BLOCKED"}

StopAt(record, state, resume) == [record EXCEPT !.state = state, !.resume = resume]

\* The record after an update of its subject.
ApplyUpdate(record, subject) ==
  LET changed == Changed(record.subject, subject)
      updated == [record EXCEPT !.subject = subject, !.epoch = @ + 1]
  IN  CASE changed = {} -> record
        [] changed # {} /\ record.state \in EXPOSED_SUBJECT_STATES ->
             StopAt(updated, "ROLLBACK_REQUIRED", "ROLLBACK_REQUIRED")
        [] changed # {} /\ record.state \in PACKAGE_RELEASE_STATES ->
             StopAt(updated, "BLOCKED", "CI_PASS")
        [] changed # {} /\ record.state \in RETAINED_STATES -> updated
        [] OTHER -> StopAt(updated, "BLOCKED", EarliestRevalidation(changed))

\* The bindings: each says what becomes of the fields downstream of what it binds.
CandidateBound(candidate, artifact) ==
  [Unbound EXCEPT !.candidate = candidate, !.artifact = artifact]

MergeBound(s, revision) ==
  [s EXCEPT !.main = [revision |-> revision, of |-> s.candidate],
            !.artifact = None, !.deployment = None]

ArtifactBound(s, artifact) == [s EXCEPT !.artifact = artifact]

ProductionBound(s, deployment) == [s EXCEPT !.deployment = deployment]
=============================================================================
