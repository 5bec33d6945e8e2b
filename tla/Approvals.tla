------------------------------ MODULE Approvals ------------------------------
(***************************************************************************)
(* How a change comes to be approved: the model runs, the evidence         *)
(* registry and the approvals of toolkit/ztad/orchestrator.py, the         *)
(* controller that signs (approval_controller.py), and the two gates that  *)
(* count what it signed: merge readiness (release.py, risk R2) and the     *)
(* owner release of a bug (bug_lifecycle.py).                              *)
(*                                                                         *)
(* Sessions work from a head and review heads; a run is filed under the    *)
(* head it started from (mesh_runtime.py), the work becomes a head of its  *)
(* own later.  CI reports on heads in its own time.  The controller stores *)
(* an approval, then signs it, then writes the signed record to the        *)
(* directory the gates read, and may crash on the way.  Meanwhile the      *)
(* subject moves.                                                          *)
(*                                                                         *)
(* One task, one repository, contract, base, policy and toolchain: a       *)
(* subject is its head, its epoch and whether it names the diff that was   *)
(* reviewed.  What else a gate asks for is taken as verified here          *)
(* (EvidenceGates judges evidence of every kind).                          *)
(***************************************************************************)
EXTENDS Integers, FiniteSets

CONSTANTS
  Sessions,       \* sessions of models
  Implementers,   \* those that may implement
  Heads,          \* revisions of the candidate
  Ids,            \* identifiers CI gives its evidence
  None,
  MaxEpoch,       \* bound: how often the subject moves
  MaxFaults       \* bound: crashes, late runs, reviews in vain or by implementers, poor or late
                  \* evidence, reused identifiers, approvals of subjects no gate asks about,
                  \* copied files

ImplementingRoles == {"worker", "supervisor_takeover"}
\* security_reviewer stands for the advisory roles the controller accepts as well.
ReviewRoles == {"supervisor", "closure", "security_reviewer"}
ApprovalTypes == {"MERGE_APPROVAL", "PROTECTED_APPROVAL"}
Gates == {"MERGE", "READY_FOR_OWNER_RELEASE"}

VARIABLES
  subject,     \* the candidate as it stands
  made,        \* heads there have been
  runs,        \* table model_runs
  registry,    \* table evidence_registry
  approvals,   \* table approvals
  issuing,     \* the approval the controller has stored and not delivered
  items,       \* signed approvals in the evidence directory
  copied,      \* the directory holds a file twice
  opened,      \* gates that have opened for the present subject
  faults

vars == <<subject, made, runs, registry, approvals, issuing, items, copied, opened,
          faults>>

Subjects == [head : Heads, epoch : 0..MaxEpoch]
Runs == [role : ImplementingRoles \cup ReviewRoles, session : Sessions, head : Heads,
         status : {"COMPLETED", "FAILED"}]
Rows == [head : Heads, status : {"PASSED", "FAILED"}, trust : 2..3]
Approval == [role : ReviewRoles, session : Sessions, head : Heads, epoch : 0..MaxEpoch,
             refs : SUBSET Ids]
\* What a fingerprint stands for, and a signed record: a fingerprint and a type.
Fingerprints == [head : Heads, epoch : 0..MaxEpoch, diff : BOOLEAN]
Items == [type : ApprovalTypes, names : Fingerprints]

ASSUME ApprovalAssumption ==
  /\ Implementers \subseteq Sessions
  /\ MaxEpoch \in Nat /\ MaxFaults \in Nat
  /\ None \notin Rows \cup Items

ApprovalTypeOK ==
  /\ subject \in Subjects
  /\ made \subseteq Heads
  /\ runs \subseteq Runs
  /\ registry \in [Ids -> Rows \cup {None}]
  /\ approvals \subseteq Approval
  /\ issuing \in Items \cup {None}
  /\ items \subseteq Items
  /\ copied \in BOOLEAN
  /\ opened \subseteq Gates
  /\ faults \in 0..MaxFaults

Init ==
  /\ \E head \in Heads : subject = [head |-> head, epoch |-> 0] /\ made = {head}
  /\ runs = {} /\ approvals = {} /\ items = {} /\ opened = {}
  /\ registry = [id \in Ids |-> None]
  /\ issuing = None
  /\ copied = FALSE
  /\ faults = 0

\* Something goes wrong within the budget.
Fault == faults < MaxFaults /\ faults' = faults + 1

-----------------------------------------------------------------------------
\* record_model_run: one row for a run that is over; rows are never changed.
record_model_run(role, s, head, status) ==
  runs' = runs \cup {[role |-> role, session |-> s, head |-> head, status |-> status]}

\* A session has implemented, starting from a head there has been, and its run is filed under that
\* head, not under what it has made of it; at any time later, or never if the process crashes.
\* Bounds: a session implements once on a head, and a run that is filed when the subject has moved
\* is a fault.
RecordWork(s, role) ==
  /\ s \in Implementers
  /\ \E head \in made :
       /\ ~ \E r \in runs : r.session = s /\ r.head = head /\ r.role \in ImplementingRoles
       /\ IF head = subject.head THEN UNCHANGED faults ELSE Fault
       /\ record_model_run(role, s, head, "COMPLETED")
  /\ UNCHANGED <<subject, made, registry, approvals, issuing, items, copied, opened>>

\* The subject moves, to a head that what a recorded run has done becomes or to one there has
\* been.  What a gate said of the last subject is not an answer for the next.
Move ==
  /\ subject.epoch < MaxEpoch
  /\ \E head \in Heads \ {subject.head} :
       /\ head \in made \/ \E r \in runs : r.role \in ImplementingRoles
       /\ made' = made \cup {head}
       /\ subject' = [head |-> head, epoch |-> subject.epoch + 1]
  /\ opened' = {}
  /\ UNCHANGED <<runs, registry, approvals, issuing, items, copied, faults>>

\* The session implemented the head, as far as the store knows: it has worked from it.
Implemented(s, head) ==
  \E r \in runs : r.session = s /\ r.head = head /\ r.role \in ImplementingRoles
                  /\ r.status = "COMPLETED"
TakenOver(head) ==
  \E r \in runs : r.head = head /\ r.role = "supervisor_takeover" /\ r.status = "COMPLETED"

\* An implementing session is no supervisor of the head its run is filed under, and of one with
\* a supervisor's takeover only a closure reviewer approves.
Separate(s, role, head) ==
  /\ Implemented(s, head) => role \notin {"supervisor", "closure"}
  /\ TakenOver(head) => role = "closure"

\* A completed review an approval of the head can be based on.
Reviewed(head) ==
  \E r \in runs : r.head = head /\ r.role \in ReviewRoles /\ r.status = "COMPLETED"
                  /\ Separate(r.session, r.role, head)

\* A session reviews the head.  Bounds: reviews in vain and those of implementing sessions are
\* faults, and a head that has a review to approve it on is not reviewed again.
Review(s, role) ==
  /\ ~Reviewed(subject.head)
  /\ \E status \in {"COMPLETED", "FAILED"} :
       /\ IF status = "COMPLETED" /\ Separate(s, role, subject.head) /\ s \notin Implementers
          THEN UNCHANGED faults ELSE Fault
       /\ record_model_run(role, s, subject.head, status)
  /\ UNCHANGED <<subject, made, registry, approvals, issuing, items, copied, opened>>

-----------------------------------------------------------------------------
Good(row, head) == row # None /\ row.head = head /\ row.status = "PASSED" /\ row.trust >= 3

\* Mutant: an identifier that is taken is given to the new record.
register_evidence_replaced(id, row) == registry' = [registry EXCEPT ![id] = row]

\* register_evidence: a record is immutable.  The same record again is a replay, another one
\* under its identifier is refused.
register_evidence(id, row) ==
  registry' = [registry EXCEPT ![id] = IF @ = None THEN row ELSE @]

\* CI reports on a head, which may be the present one no more, under a new identifier (one is as
\* good as another) or, by mistake, under one that is taken; until it has passed the head.
\* Bound: all but a pass of the present head is a fault.
ReportCI(id) ==
  /\ registry[id] = None => id = CHOOSE new \in Ids : registry[new] = None
  /\ \E head \in Heads, status \in {"PASSED", "FAILED"}, trust \in 2..3 :
       /\ head \in made /\ ~ \E old \in Ids : Good(registry[old], head)
       /\ IF Good([head |-> head, status |-> status, trust |-> trust], subject.head)
             /\ registry[id] = None
          THEN UNCHANGED faults ELSE Fault
       /\ register_evidence(id, [head |-> head, status |-> status, trust |-> trust])
  /\ UNCHANGED <<subject, made, runs, approvals, issuing, items, copied, opened>>

-----------------------------------------------------------------------------
RefsGood(refs, head) == refs # {} /\ \A id \in refs : Good(registry[id], head)

\* record_approval, for decision APPROVE: the one decision the program records.
record_approval(run, refs, epoch) ==
  /\ Separate(run.session, run.role, run.head)
  /\ RefsGood(refs, run.head)
  /\ approvals' = approvals \cup
       {[role |-> run.role, session |-> run.session, head |-> run.head, epoch |-> epoch,
         refs |-> refs]}

\* Mutant: the subject names the epoch it will have next.
WholeNext == [head |-> subject.head, epoch |-> subject.epoch + 1, diff |-> TRUE]

\* The subject of the candidate as it is, and as merge readiness builds it: without the epoch,
\* which counts as 0, and without the diff.
Whole == [head |-> subject.head, epoch |-> subject.epoch, diff |-> TRUE]
Bare == [head |-> subject.head, epoch |-> 0, diff |-> FALSE]

\* The subject the gate that asks for the type asks about.
Asked(type) == IF type = "MERGE_APPROVAL" THEN Bare ELSE Whole

\* issue_supervisor_approval_evidence for the subject the caller names, up to the commit: role,
\* session and head are those of a completed reviewer run (record_approval_from_run).
\* Bounds: what has been delivered is not issued again, and naming another subject than the gate
\* will ask about is a fault.
Issue(type) ==
  /\ issuing = None
  /\ \E names \in {Whole, Bare} :
       /\ [type |-> type, names |-> names] \notin items
       /\ IF names = Asked(type) THEN UNCHANGED faults ELSE Fault
       /\ \E run \in runs, id \in Ids :
            /\ run.status = "COMPLETED" /\ run.head = names.head /\ run.role \in ReviewRoles
            /\ record_approval(run, {id}, names.epoch)
       /\ issuing' = [type |-> type, names |-> names]
  /\ UNCHANGED <<subject, made, runs, registry, items, copied, opened>>

\* The rest of it: the record is signed, registered under a new identifier and written.
Deliver ==
  /\ issuing # None
  /\ items' = items \cup {issuing}
  /\ issuing' = None
  /\ UNCHANGED <<subject, made, runs, registry, approvals, copied, opened,
                 faults>>

\* The controller crashes with the approval stored and nothing signed.
Crash ==
  /\ Fault
  /\ issuing # None
  /\ issuing' = None
  /\ UNCHANGED <<subject, made, runs, registry, approvals, items, copied,
                 opened>>

\* A file of the directory is copied, and the copy removed.
Copy ==
  /\ Fault
  /\ items # {} /\ ~copied
  /\ copied' = TRUE
  /\ UNCHANGED <<subject, made, runs, registry, approvals, issuing, items,
                 opened>>
Tidy ==
  /\ copied
  /\ copied' = FALSE
  /\ UNCHANGED <<subject, made, runs, registry, approvals, issuing, items,
                 opened, faults>>

-----------------------------------------------------------------------------
\* validate_evidence_record: a signed record counts when its fingerprint is that of the very
\* subject the gate asks about.
ValidApproval(type, about) == [type |-> type, names |-> about] \in items

\* evaluate_release_readiness for target merge: what was approved as a whole does not count.
MergeEligible == ~copied /\ ValidApproval("MERGE_APPROVAL", Asked("MERGE_APPROVAL"))

\* The gate READY_FOR_OWNER_RELEASE: the case's own subject, and an approval that is E6, from
\* the controller, and APPROVED (_protected_approval_errors), as all it signs are.
OwnerReleaseReady == ~copied /\ ValidApproval("PROTECTED_APPROVAL", Asked("PROTECTED_APPROVAL"))

Evaluate(gate) ==
  /\ gate \notin opened
  /\ IF gate = "MERGE" THEN MergeEligible ELSE OwnerReleaseReady
  /\ opened' = opened \cup {gate}
  /\ UNCHANGED <<subject, made, runs, registry, approvals, issuing, items,
                 copied, faults>>

Next ==
  \/ \E s \in Sessions :
       \/ \E role \in ImplementingRoles : RecordWork(s, role)
       \/ \E role \in ReviewRoles : Review(s, role)
  \/ Move
  \/ \E id \in Ids : ReportCI(id)
  \/ \E type \in ApprovalTypes : Issue(type)
  \/ Deliver \/ Crash \/ Copy \/ Tidy
  \/ \E gate \in Gates : Evaluate(gate)

Spec == Init /\ [][Next]_vars

-----------------------------------------------------------------------------
\* validate_approval against the subject as it is; merge readiness compares no epoch.
validate_approval(a, gate) ==
  /\ a.head = subject.head
  /\ gate = "READY_FOR_OWNER_RELEASE" => a.epoch = subject.epoch
  /\ \A id \in a.refs : Good(registry[id], subject.head)

\* "Revalidate an approval immediately before a governed transition", says validate_approval,
\* which nothing calls.  The gates read signed files only; still, whenever a gate opens, some
\* approval in the store would pass that validation, for the head that is there at that moment.
OpenedStands ==
  [][\A gate \in opened' \ opened : \E a \in approvals : validate_approval(a, gate)]_vars
=============================================================================
