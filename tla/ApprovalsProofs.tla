--------------------------- MODULE ApprovalsProofs ---------------------------
(***************************************************************************)
(* For any number of sessions, heads and identifiers, any number of moves  *)
(* of the subject and any number of faults: a gate that opens rests on an  *)
(* approval that is still valid.                                           *)
(*                                                                         *)
(* The argument: every signed record was stored as an approval first, and  *)
(* what an approval refers to never changes.                               *)
(***************************************************************************)
EXTENDS Approvals, TLAPS

\* The references of an approval are good for its head.
Referenced == \A a \in approvals : \A id \in a.refs : Good(registry[id], a.head)

\* Behind a signed record there is an approval of the same subject.
Stored(item) == \E a \in approvals : a.head = item.names.head /\ a.epoch = item.names.epoch
Backed ==
  /\ \A item \in items : Stored(item)
  /\ issuing # None => Stored(issuing)

AInv == ApprovalTypeOK /\ Referenced /\ Backed

-----------------------------------------------------------------------------
LEMMA InitAInv == Init => AInv
<1> SUFFICES ASSUME Init PROVE AInv
  OBVIOUS
<1>1. PICK head \in Heads : subject = [head |-> head, epoch |-> 0] /\ made = {head}
  BY DEF Init
<1>2. /\ runs = {} /\ registry = [id \in Ids |-> None]
      /\ approvals = {} /\ items = {} /\ opened = {}
      /\ issuing = None /\ copied = FALSE /\ faults = 0
  BY DEF Init
<1>3. subject \in Subjects /\ faults \in 0..MaxFaults
  BY <1>1, <1>2, ApprovalAssumption DEF Subjects
<1>4. ApprovalTypeOK
  BY <1>1, <1>2, <1>3 DEF ApprovalTypeOK
<1>5. Referenced /\ Backed
  BY <1>2 DEF Referenced, Backed
<1> QED BY <1>4, <1>5 DEF AInv

\* A record that is good stays good: register_evidence never changes one.
LEMMA RecordsStay ==
  ASSUME AInv, NEW id \in Ids, NEW row \in Rows, register_evidence(id, row)
  PROVE  /\ registry' \in [Ids -> Rows \cup {None}]
         /\ \A other \in Ids, head \in Heads :
              Good(registry[other], head) => Good(registry'[other], head)
BY DEF AInv, ApprovalTypeOK, register_evidence, Good

\* A fault is counted, if there is one.
LEMMA FaultCounted ==
  ASSUME AInv, faults' = faults \/ Fault
  PROVE  faults' \in 0..MaxFaults
BY ApprovalAssumption DEF AInv, ApprovalTypeOK, Fault

\* A run adds one row to the table of runs.
LEMMA RunAInv ==
  ASSUME AInv, NEW s \in Sessions,
         \/ \E role \in ImplementingRoles : RecordWork(s, role)
         \/ \E role \in ReviewRoles : Review(s, role)
  PROVE  AInv'
<1>1. PICK role \in ImplementingRoles \cup ReviewRoles, head \in Heads,
           status \in {"COMPLETED", "FAILED"} :
        /\ runs' = runs \cup {[role |-> role, session |-> s, head |-> head,
                               status |-> status]}
        /\ faults' = faults \/ Fault
        /\ UNCHANGED <<subject, made, registry, approvals, issuing, items, copied, opened>>
  <2>1. subject.head \in Heads /\ made \subseteq Heads
    BY DEF AInv, ApprovalTypeOK, Subjects
  <2>2. CASE \E role \in ImplementingRoles : RecordWork(s, role)
    BY <2>1, <2>2 DEF RecordWork, record_model_run
  <2>3. CASE \E role \in ReviewRoles : Review(s, role)
    BY <2>1, <2>3 DEF Review, record_model_run
  <2> QED BY <2>2, <2>3
<1>2. faults' \in 0..MaxFaults
  BY <1>1, FaultCounted
<1>3. runs' \subseteq Runs
  BY <1>1 DEF AInv, ApprovalTypeOK, Runs
<1>4. ApprovalTypeOK'
  BY <1>1, <1>2, <1>3 DEF AInv, ApprovalTypeOK
<1>5. Referenced' /\ Backed'
  BY <1>1 DEF AInv, Referenced, Backed, Stored, Good
<1> QED BY <1>4, <1>5 DEF AInv

\* CI adds a record, and touches none.
LEMMA ReportCIAInv ==
  ASSUME AInv, NEW id \in Ids, ReportCI(id)
  PROVE  AInv'
<1>1. PICK head \in Heads, status \in {"PASSED", "FAILED"}, trust \in 2..3 :
        /\ register_evidence(id, [head |-> head, status |-> status, trust |-> trust])
        /\ faults' = faults \/ Fault
  BY DEF ReportCI
<1>2. UNCHANGED <<subject, made, runs, approvals, issuing, items, copied, opened>>
  BY DEF ReportCI
<1>3. [head |-> head, status |-> status, trust |-> trust] \in Rows
  BY DEF Rows
<1>4. /\ registry' \in [Ids -> Rows \cup {None}]
      /\ \A other \in Ids, h \in Heads : Good(registry[other], h) => Good(registry'[other], h)
  BY <1>1, <1>3, RecordsStay
<1>5. faults' \in 0..MaxFaults
  BY <1>1, FaultCounted
<1>6. ApprovalTypeOK'
  BY <1>2, <1>4, <1>5 DEF AInv, ApprovalTypeOK
<1>7. \A a \in approvals : a.head \in Heads /\ a.refs \subseteq Ids
  BY DEF AInv, ApprovalTypeOK, Approval
<1>8. Referenced'
  BY <1>2, <1>4, <1>7 DEF AInv, Referenced
<1>9. Backed'
  BY <1>2 DEF AInv, Backed, Stored
<1> QED BY <1>6, <1>8, <1>9 DEF AInv

\* An approval with good references is stored before anything is signed.
LEMMA IssueAInv ==
  ASSUME AInv, NEW type \in ApprovalTypes, Issue(type)
  PROVE  AInv'
<1>1. PICK names \in {Whole, Bare}, run \in runs, id \in Ids :
        /\ run.head = names.head /\ run.role \in ReviewRoles
        /\ RefsGood({id}, run.head)
        /\ approvals' = approvals \cup
             {[role |-> run.role, session |-> run.session, head |-> run.head,
               epoch |-> names.epoch, refs |-> {id}]}
        /\ issuing' = [type |-> type, names |-> names]
        /\ faults' = faults \/ Fault
  BY DEF Issue, record_approval
<1>2. UNCHANGED <<subject, made, runs, registry, items, copied, opened>>
  BY DEF Issue
<1> DEFINE row == [role |-> run.role, session |-> run.session, head |-> run.head,
                   epoch |-> names.epoch, refs |-> {id}]
<1>3. names \in Fingerprints
  <2>1. subject.head \in Heads /\ subject.epoch \in 0..MaxEpoch /\ 0 \in 0..MaxEpoch
    BY ApprovalAssumption DEF AInv, ApprovalTypeOK, Subjects
  <2>2. Whole \in Fingerprints
    BY <2>1 DEF Fingerprints, Whole
  <2>3. Bare \in Fingerprints
    BY <2>1 DEF Fingerprints, Bare
  <2> QED BY <2>2, <2>3
<1>4. row \in Approval /\ issuing' \in Items
  <2>1. run.session \in Sessions /\ names.head \in Heads /\ names.epoch \in 0..MaxEpoch
    BY <1>3 DEF AInv, ApprovalTypeOK, Runs, Fingerprints
  <2> QED BY <1>1, <1>3, <2>1 DEF Approval, Items
<1>5. faults' \in 0..MaxFaults
  BY <1>1, FaultCounted
<1>6. ApprovalTypeOK'
  BY <1>1, <1>2, <1>4, <1>5 DEF AInv, ApprovalTypeOK
<1>7. Referenced'
  <2>1. \A a \in approvals : \A i \in a.refs : Good(registry[i], a.head)
    BY DEF AInv, Referenced
  <2>2. \A i \in row.refs : Good(registry[i], row.head)
    BY <1>1 DEF RefsGood
  <2> QED BY <2>1, <2>2, <1>1, <1>2 DEF Referenced, Good
<1>8. Backed'
  <2>1. row \in approvals' /\ row.head = issuing'.names.head /\ row.epoch = issuing'.names.epoch
    BY <1>1
  <2>2. Stored(issuing)'
    BY <2>1 DEF Stored
  <2>3. \A item \in items : Stored(item)'
    BY <1>1, <1>2 DEF AInv, Backed, Stored
  <2> QED BY <2>2, <2>3, <1>2 DEF Backed
<1> QED BY <1>6, <1>7, <1>8 DEF AInv

\* The remaining actions move signed records, the branch or the gates.
LEMMA OtherAInv ==
  ASSUME AInv, Move \/ Deliver \/ Crash \/ Copy \/ Tidy \/ \E gate \in Gates : Evaluate(gate)
  PROVE  AInv'
<1>1. CASE Move
  <2>1. PICK head \in Heads :
          /\ subject.epoch < MaxEpoch /\ made' = made \cup {head}
          /\ subject' = [head |-> head, epoch |-> subject.epoch + 1] /\ opened' = {}
    BY <1>1 DEF Move
  <2>2. UNCHANGED <<runs, registry, approvals, issuing, items, copied, faults>>
    BY <1>1 DEF Move
  <2>3. subject' \in Subjects
    BY <2>1, ApprovalAssumption DEF AInv, ApprovalTypeOK, Subjects
  <2>4. ApprovalTypeOK'
    BY <2>1, <2>2, <2>3 DEF AInv, ApprovalTypeOK
  <2>5. Referenced' /\ Backed'
    BY <2>2 DEF AInv, Referenced, Backed, Stored, Good
  <2> QED BY <2>4, <2>5 DEF AInv
<1>2. CASE Deliver
  BY <1>2 DEF Deliver, AInv, ApprovalTypeOK, Referenced, Backed, Stored, Good
<1>3. CASE Crash \/ Copy \/ Tidy
  <2>1. /\ UNCHANGED <<subject, made, runs, registry, approvals, items, opened>>
        /\ issuing' \in {issuing, None} /\ copied' \in BOOLEAN
        /\ faults' = faults \/ Fault
    BY <1>3 DEF Crash, Copy, Tidy, AInv, ApprovalTypeOK
  <2>2. faults' \in 0..MaxFaults
    BY <2>1, FaultCounted
  <2>3. ApprovalTypeOK'
    BY <2>1, <2>2 DEF AInv, ApprovalTypeOK
  <2>4. Referenced' /\ Backed'
    BY <2>1 DEF AInv, Referenced, Backed, Stored, Good
  <2> QED BY <2>3, <2>4 DEF AInv
<1>4. CASE \E gate \in Gates : Evaluate(gate)
  BY <1>4 DEF Evaluate, AInv, ApprovalTypeOK, Referenced, Backed, Stored, Good
<1> QED BY <1>1, <1>2, <1>3, <1>4

LEMMA NextAInv == AInv /\ [Next]_vars => AInv'
<1> SUFFICES ASSUME AInv, [Next]_vars PROVE AInv'
  OBVIOUS
<1>1. CASE UNCHANGED vars
  BY <1>1 DEF vars, AInv, ApprovalTypeOK, Referenced, Backed, Stored, Good
<1>2. CASE Next
  BY <1>2, RunAInv, ReportCIAInv, IssueAInv, OtherAInv DEF Next
<1> QED BY <1>1, <1>2

\* The invariant holds throughout.
THEOREM ApprovalsInductive == Spec => []AInv
<1> QED BY InitAInv, NextAInv, PTL DEF Spec

\* The tables, the directory and the controller keep their shapes.
THEOREM ApprovalsTyped == Spec => []ApprovalTypeOK
<1>1. AInv => ApprovalTypeOK
  BY DEF AInv
<1> QED BY <1>1, ApprovalsInductive, PTL

\* A gate opens on a signed record, behind which there is an approval that is still good.
LEMMA StepStands ==
  ASSUME AInv, Next
  PROVE  \A gate \in opened' \ opened : \E a \in approvals : validate_approval(a, gate)
<1>1. CASE \E gate \in Gates : Evaluate(gate)
  <2>1. PICK gate \in Gates :
          /\ IF gate = "MERGE" THEN MergeEligible ELSE OwnerReleaseReady
          /\ opened' = opened \cup {gate}
    BY <1>1 DEF Evaluate
  <2>2. PICK item \in items :
          /\ item.names.head = subject.head
          /\ gate = "READY_FOR_OWNER_RELEASE" => item.names.epoch = subject.epoch
    <3>1. CASE gate = "MERGE"
      BY <2>1, <3>1 DEF MergeEligible, ValidApproval, Asked, Bare
    <3>2. CASE gate # "MERGE"
      BY <2>1, <3>2 DEF OwnerReleaseReady, ValidApproval, Asked, Whole
    <3> QED BY <3>1, <3>2
  <2>3. PICK a \in approvals : a.head = item.names.head /\ a.epoch = item.names.epoch
    BY <2>2 DEF AInv, Backed, Stored
  <2>4. \A id \in a.refs : Good(registry[id], a.head)
    BY <2>3 DEF AInv, Referenced
  <2>5. validate_approval(a, gate)
    BY <2>2, <2>3, <2>4 DEF validate_approval
  <2> QED BY <2>1, <2>5
<1>2. CASE ~ \E gate \in Gates : Evaluate(gate)
  <2>1. opened' \subseteq opened
    BY <1>2 DEF Next, Move, RecordWork, Review, ReportCI, Issue, Deliver, Crash, Copy, Tidy
  <2> QED BY <2>1
<1> QED BY <1>1, <1>2

\* Whenever a gate opens, an approval in the store would pass validate_approval.
THEOREM OpenedGatesStand == Spec => OpenedStands
<1>1. AInv /\ [Next]_vars =>
        [\A gate \in opened' \ opened : \E a \in approvals : validate_approval(a, gate)]_vars
  BY StepStands
<1> QED BY <1>1, ApprovalsInductive, PTL DEF Spec, OpenedStands
=============================================================================
