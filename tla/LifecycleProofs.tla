-------------------------- MODULE LifecycleProofs --------------------------
(***************************************************************************)
(* Theorems about a bug case, for every set of controllers, every delivery *)
(* model and every bound: its event chain always verifies, it keeps the    *)
(* contract of CaseContract, its data keep their types and it stands       *)
(* behind every gate on its way.                                           *)
(***************************************************************************)
EXTENDS BugLifecycle, TLAPS

\* What every write in hand satisfies, whatever has been committed since it was prepared: only
\* protected writes are signed, a PROCEED that is not stopped asks for the state it writes, a
\* binding for where the case then stands, and none closes the case: advance_bug_lifecycle
\* raises where it would.
WriteOK(w) ==
  /\ w.next.state \in RecordStates \ {"CLOSED"}
  /\ w.decision \in Decisions
  /\ w.decision = "PROCEED" => w.next.state \in {w.requested, "BLOCKED", "ROLLBACK_REQUIRED"}
  /\ w.decision \in BindingDecisions => w.requested = Logical(w.next)
  /\ w.signedAt # 0 => w.next.state \in PROTECTED

IInv ==
  /\ chainValid
  /\ record.state \in RecordStates \ {"CLOSED"}
  /\ DOMAIN session = Procs
  /\ \A p \in Procs : session[p] # NoRequest => WriteOK(session[p])

-----------------------------------------------------------------------------
\* transition and verify_event_chain state their rules separately; the first imply the second.
LEMMA AdmittedVerifies ==
  ASSUME NEW w, WriteOK(w), Admits(w)
  PROVE  Verifies(w)
<1>1. EpochFollows(record, w.next)
  BY DEF Admits, SubjectChecked
<1>2. CASE w.decision = "PROCEED"
  <2>1. w.next.state \notin {"BLOCKED", "ROLLBACK_REQUIRED"}
    BY <1>2 DEF Admits, Stopped, BindingDecisions
  <2>2. w.next.state = w.requested /\ w.next.state \in AUTHORITATIVE
    BY <1>2, <2>1 DEF WriteOK, RecordStates
  <2>3. w.requested \in ALLOWED(Logical(record))
    BY <1>2, <2>2 DEF Admits, Ordered, BindingDecisions
  <2> QED  BY <1>1, <1>2, <2>2, <2>3 DEF Verifies, Admits, WriteOK
<1>3. CASE w.decision \in {"BLOCKED", "ROLLBACK_REQUIRED"}
  <2>1. w.next.state \notin AUTHORITATIVE
    BY <1>3 DEF Admits, Ordered, BindingDecisions
  <2>2. w.next.state = w.decision
    BY <1>3, <2>1 DEF WriteOK, RecordStates, Admits, Stopped, BindingDecisions
  <2> QED  BY <1>1, <1>3, <2>2 DEF Verifies, Admits, WriteOK
<1>4. CASE w.decision \in BindingDecisions
  <2>1. w.next.state \in {record.state, "BLOCKED", "ROLLBACK_REQUIRED"}
    BY <1>4 DEF Admits, SubjectChecked
  <2> QED  BY <1>1, <1>4, <2>1 DEF Verifies, Admits, WriteOK, BindingDecisions
<1> QED  BY <1>2, <1>3, <1>4 DEF WriteOK, Decisions

LEMMA FirstState == "UNVERIFIED_REPORT" \in RecordStates
<1>1. 1 \in DOMAIN COMMON /\ COMMON[1] = "UNVERIFIED_REPORT"
  BY DEF COMMON
<1> QED  BY <1>1 DEF RecordStates, AUTHORITATIVE, COMMON_STATES

LEMMA InitInv ==
  Init => IInv
<1> SUFFICES ASSUME Init PROVE IInv
  OBVIOUS
<1>1. chainValid /\ record.state \in RecordStates \ {"CLOSED"}
  BY FirstState DEF Init, StoreInit
<1>2. DOMAIN session = Procs /\ \A p \in Procs : session[p] = NoRequest
  BY DEF Init
<1> QED  BY <1>1, <1>2 DEF IInv

-----------------------------------------------------------------------------
\* A binding keeps a case where it is, blocks it or rolls it back, and is never signed.
LEMMA BindWriteOK ==
  ASSUME IInv, NEW subject, NEW decision \in BindingDecisions
  PROVE  WriteOK(BindWrite(subject, decision))
<1> DEFINE w == BindWrite(subject, decision)
<1>1. w.next.state \in {record.state, "BLOCKED", "ROLLBACK_REQUIRED"}
  BY DEF BindWrite, ApplyUpdate, StopAt
<1>2. w.decision = decision /\ w.signedAt = 0 /\ w.requested = Logical(w.next)
  BY DEF BindWrite
<1>3. decision \in Decisions /\ decision # "PROCEED"
  BY DEF BindingDecisions, Decisions
<1> QED  BY <1>1, <1>2, <1>3 DEF WriteOK, IInv, RecordStates

\* An advance writes the state it asks for, or stops the case.
LEMMA AdvanceWriteOK ==
  ASSUME IInv, NEW target \in RecordStates, NEW gate, NEW again, NEW revised,
         ~(target = "CLOSED" /\ Allowed(target, again))
  PROVE  WriteOK(AdvanceWrite(target, gate, again, revised))
<1> DEFINE w == AdvanceWrite(target, gate, again, revised)
<1>1. w.next.state \in {w.requested, "BLOCKED", "ROLLBACK_REQUIRED"} /\ w.requested = target
  BY DEF AdvanceWrite, Advanced, Decision, StopAt
<1>2. w.decision \in {"PROCEED", "BLOCKED", "ROLLBACK_REQUIRED"} /\ w.signedAt = 0
  BY DEF AdvanceWrite, Decision
<1>3. w.next.state # "CLOSED"
  BY DEF AdvanceWrite, Advanced, Decision, StopAt
<1> QED  BY <1>1, <1>2, <1>3 DEF WriteOK, Decisions, BindingDecisions, RecordStates

-----------------------------------------------------------------------------
\* Taking a write up leaves the case alone.
LEMMA TakesInv ==
  ASSUME IInv, NEW p \in Procs, NEW w, WriteOK(w), Takes(p, w)
  PROVE  IInv'
BY DEF IInv, Takes, storeVars, WriteOK

LEMMA BindsInv ==
  ASSUME IInv, NEW p \in Procs, NEW subject, NEW decision \in BindingDecisions,
         Binds(p, subject, decision)
  PROVE  IInv'
BY BindWriteOK, TakesInv DEF Binds

LEMMA StartInv ==
  ASSUME IInv, NEW p \in Procs, Starts(p) \/ AdvanceAmiss(p) \/ Rebind(p)
  PROVE  IInv'
<1>1. CASE Advance(p)
  <2>1. PICK target \in AUTHORITATIVE \ {"CLOSED"} : Takes(p, AdvanceWrite(target, "open", "open", FALSE))
    BY <1>1 DEF Advance
  <2> QED  BY <2>1, AdvanceWriteOK, TakesInv DEF RecordStates
<1>2. CASE AdvanceAmiss(p)
  <2>1. PICK target \in Targets, gate \in Gates, again \in Gates, revised \in BOOLEAN :
          /\ ~(target = "CLOSED" /\ Allowed(target, again))
          /\ Takes(p, AdvanceWrite(target, gate, again, revised))
    BY <1>2 DEF AdvanceAmiss
  <2> QED  BY <2>1, TargetAssumption, AdvanceWriteOK, TakesInv
<1>3. "SUBJECT_BOUND" \in BindingDecisions /\ "ARTIFACT_BOUND" \in BindingDecisions
      /\ "SUBJECT_MUTATION_INVALIDATED_DOWNSTREAM" \in BindingDecisions
  BY DEF BindingDecisions
<1>4. CASE BindFirst(p)
  BY <1>3, <1>4, BindsInv DEF BindFirst
<1>5. CASE Rebind(p)
  BY <1>3, <1>5, BindsInv DEF Rebind
<1> QED  BY <1>1, <1>2, <1>4, <1>5 DEF Starts

LEMMA SignInv ==
  ASSUME IInv, NEW p \in Procs, Sign(p)
  PROVE  IInv'
<1>1. chainValid' /\ record'.state \in RecordStates \ {"CLOSED"} /\ DOMAIN session' = Procs
  BY DEF IInv, Sign, storeVars
<1>2. ASSUME NEW q \in Procs, session'[q] # NoRequest PROVE WriteOK(session'[q])
  <2>1. CASE q # p
    BY <1>2, <2>1 DEF IInv, Sign, WriteOK
  <2>2. CASE q = p
    <3>1. session'[p] = [session[p] EXCEPT !.signedAt = LogLength]
      BY DEF IInv, Sign
    <3>2. WriteOK(session[p]) /\ session[p].next.state \in PROTECTED
      BY DEF IInv, Sign, Unsigned
    <3> QED  BY <2>2, <3>1, <3>2 DEF WriteOK
  <2> QED  BY <2>1, <2>2
<1> QED  BY <1>1, <1>2 DEF IInv, WriteOK

\* The step that appends: what is admitted verifies.
LEMMA CommitInv ==
  ASSUME IInv, NEW p \in Procs, Commit(p)
  PROVE  IInv'
<1>1. WriteOK(session[p]) /\ Admits(session[p]) /\ record' = session[p].next
  BY DEF IInv, Commit, AppendEvent
<1>2. chainValid'
  BY <1>1, AdmittedVerifies DEF IInv, Commit, AppendEvent
<1> QED  BY <1>1, <1>2 DEF IInv, Commit, WriteOK

LEMMA ClearInv ==
  ASSUME IInv, NEW p \in Procs, Refuse(p) \/ Abandon(p)
  PROVE  IInv'
BY DEF IInv, Refuse, Abandon, storeVars, WriteOK

LEMMA NextInv ==
  IInv /\ [Next]_vars => IInv'
<1> SUFFICES ASSUME IInv, [Next]_vars PROVE IInv'
  OBVIOUS
<1>1. ASSUME NEW p \in Procs, Starts(p) \/ AdvanceAmiss(p) \/ Rebind(p) PROVE IInv'
  BY <1>1, StartInv
<1>2. ASSUME NEW p \in Procs, Finishes(p) \/ Abandon(p) PROVE IInv'
  BY <1>2, SignInv, CommitInv, ClearInv DEF Finishes
<1>3. CASE OtherCase
  BY <1>3 DEF OtherCase, AppendElsewhere, IInv, WriteOK
<1>4. CASE Lapses
  BY <1>4 DEF Lapses, Lapse, IInv, WriteOK
<1>5. CASE UNCHANGED vars
  BY <1>5 DEF vars, storeVars, IInv, WriteOK
<1> QED  BY <1>1, <1>2, <1>3, <1>4, <1>5 DEF Next

\* For any controllers, candidates, delivery models and bounds: every event transition ever
\* appends, verify_event_chain accepts, for as long as the evidence and the authorizations of
\* the store's protected events stand by the reader's clock and trust roots.
THEOREM ChainAlwaysVerifies == Spec => []ChainVerifies
<1>1. IInv => ChainVerifies
  BY DEF IInv, ChainVerifies, Readable
<1> QED  BY InitInv, NextInv, <1>1, PTL DEF Spec

-----------------------------------------------------------------------------
\* Where a binding may leave a case blocked: where its changed fields must be proved again, or
\* where it was blocked before.
ResumesBack(r) ==
  \/ r.resume \in {"CI_PASS", "CHANGE_PLANNED", "ROLLBACK_REQUIRED"}
  \/ record.state = "BLOCKED" /\ r.resume = record.resume

\* What a write prepared for the present record does to it.
Current(w) ==
  /\ w.decision \notin BindingDecisions /\ w.next.state = "BLOCKED"
       => w.requested = "BLOCKED" \/ w.next.resume = Logical(record)
  /\ w.decision \notin BindingDecisions /\ w.next.state = "ROLLBACK_REQUIRED"
       => Logical(record) \in POST_PRODUCTION_STATES \/ "ROLLBACK_REQUIRED" \in ALLOWED(Logical(record))
  /\ w.decision \in BindingDecisions /\ w.next # record
       => \/ w.next.state = "BLOCKED" /\ ResumesBack(w.next) /\ record.state \notin EXPOSED_SUBJECT_STATES
          \/ w.next.state = "ROLLBACK_REQUIRED" /\ record.state \in EXPOSED_SUBJECT_STATES
          \/ w.next.state = record.state /\ record.state \in RETAINED_STATES \ {"BLOCKED"}

CInv ==
  /\ IInv
  /\ version \in Nat
  /\ record.epoch \in Nat
  /\ \A p \in Procs : session[p] # NoRequest =>
       /\ session[p].version \in Nat /\ session[p].version <= version
       /\ session[p].version = version => Current(session[p])

-----------------------------------------------------------------------------
\* The order of the gates: each has one place, and the policy's transitions never lead back.
LEMMA OrderOfGates ==
  /\ DOMAIN STATE_ORDER = 1..22
  /\ \A i, j \in 1..22 : STATE_ORDER[i] = STATE_ORDER[j] => i = j
  /\ \A i \in 1..22 : STATE_ORDER[i] \notin {"RESOLVED_NO_CODE", "ROLLBACK_REQUIRED"}
<1>1. DOMAIN STATE_ORDER = 1..22
  BY SMTT(60) DEF STATE_ORDER, COMMON, PACKAGE, RUNTIME
<1>2. \A i, j \in 1..22 : STATE_ORDER[i] = STATE_ORDER[j] => i = j
  BY SMTT(60) DEF STATE_ORDER, COMMON, PACKAGE, RUNTIME
<1>3. \A i \in 1..22 : STATE_ORDER[i] \notin {"RESOLVED_NO_CODE", "ROLLBACK_REQUIRED"}
  BY SMTT(60) DEF STATE_ORDER, COMMON, PACKAGE, RUNTIME
<1> QED  BY <1>1, <1>2, <1>3

LEMMA RankOf ==
  ASSUME NEW i \in 1..22
  PROVE  Rank(STATE_ORDER[i]) = i
BY OrderOfGates DEF Rank

\* A case that needs no code is outside the order, and so is a rollback.
LEMMA OutOfOrder ==
  ~InOrder("RESOLVED_NO_CODE") /\ ~InOrder("ROLLBACK_REQUIRED")
BY OrderOfGates DEF InOrder

LEMMA NextGate ==
  ASSUME NEW j \in 1..18
  PROVE  /\ CODE_LIFECYCLE[j] = STATE_ORDER[IF j <= 14 THEN j ELSE j + 3]
         /\ CODE_LIFECYCLE[j + 1] = STATE_ORDER[IF j + 1 <= 14 THEN j + 1 ELSE j + 4]
<1>1. \A k \in 1..19 : CODE_LIFECYCLE[k] = STATE_ORDER[IF k <= 14 THEN k ELSE k + 3]
  BY SMTT(60) DEF CODE_LIFECYCLE, STATE_ORDER, COMMON, PACKAGE, RUNTIME
<1> QED  BY <1>1

LEMMA OnwardGates ==
  ASSUME NEW from, NEW to \in ALLOWED(from), InOrder(from), InOrder(to)
  PROVE  Rank(from) < Rank(to)
<1> DEFINE next == {CODE_LIFECYCLE[i + 1] :
                      i \in {j \in 1..(Len(CODE_LIFECYCLE) - 1) : CODE_LIFECYCLE[j] = from}}
<1>1. CASE to \in next
  <2>1. Len(CODE_LIFECYCLE) = 19
    BY DEF CODE_LIFECYCLE, COMMON, RUNTIME
  <2>2. PICK j \in 1..18 : CODE_LIFECYCLE[j] = from /\ CODE_LIFECYCLE[j + 1] = to
    BY <1>1, <2>1
  <2>3. /\ Rank(from) = IF j <= 14 THEN j ELSE j + 3
        /\ Rank(to) = IF j + 1 <= 14 THEN j + 1 ELSE j + 4
    BY <2>2, NextGate, RankOf
  <2> QED  BY <2>3
<1>2. /\ Rank("CI_PASS") = 14 /\ Rank("PACKAGE_RELEASED") = 15
      /\ Rank("RELEASE_ARTIFACT_VERIFIED") = 16 /\ Rank("CONSUMER_VALIDATION_PASS") = 17
      /\ Rank("STAGING_PASS") = 18 /\ Rank("CLOSED") = 22
  <2>1. /\ STATE_ORDER[14] = "CI_PASS" /\ STATE_ORDER[15] = "PACKAGE_RELEASED"
        /\ STATE_ORDER[16] = "RELEASE_ARTIFACT_VERIFIED"
        /\ STATE_ORDER[17] = "CONSUMER_VALIDATION_PASS"
        /\ STATE_ORDER[18] = "STAGING_PASS" /\ STATE_ORDER[22] = "CLOSED"
    BY SMTT(60) DEF STATE_ORDER, COMMON, PACKAGE, RUNTIME
  <2> QED  BY <2>1, RankOf
<1>3. CASE to \notin next
  <2>1. from \notin {"RESOLVED_NO_CODE", "ROLLBACK_REQUIRED"}
        /\ to \notin {"RESOLVED_NO_CODE", "ROLLBACK_REQUIRED"}
    BY OutOfOrder
  <2>2. \/ from = "CI_PASS" /\ to = "PACKAGE_RELEASED"
        \/ from = "PACKAGE_RELEASED" /\ to = "RELEASE_ARTIFACT_VERIFIED"
        \/ from = "RELEASE_ARTIFACT_VERIFIED" /\ to = "CONSUMER_VALIDATION_PASS"
        \/ from = "CONSUMER_VALIDATION_PASS" /\ to \in {"CLOSED", "STAGING_PASS"}
    BY <1>3, <2>1 DEF ALLOWED
  <2> QED  BY <1>2, <2>2
<1> QED  BY <1>1, <1>3

-----------------------------------------------------------------------------
LEMMA AdvanceCurrent ==
  ASSUME NEW target, NEW gate, NEW again, NEW revised
  PROVE  LET w == AdvanceWrite(target, gate, again, revised) IN w.version = version /\ Current(w)
<1> DEFINE w == AdvanceWrite(target, gate, again, revised)
<1>1. /\ w.version = version /\ w.requested = target
      /\ w.next = Advanced(target, again)
      /\ w.decision \in {"PROCEED", "BLOCKED", "ROLLBACK_REQUIRED"}
  BY DEF AdvanceWrite, Decision
<1>2. w.decision \notin BindingDecisions
  BY <1>1 DEF BindingDecisions
<1>3. CASE Allowed(target, again)
  <2>1. w.next.state = target /\ target \in ALLOWED(Logical(record))
    BY <1>1, <1>3 DEF Advanced, StopAt, Allowed
  <2> QED  BY <1>1, <1>2, <2>1 DEF Current
<1>4. CASE ~Allowed(target, again)
  <2>1. w.next.resume = Logical(record)
    BY <1>1, <1>4 DEF Advanced, StopAt
  <2>2. w.next.state = "ROLLBACK_REQUIRED" => Logical(record) \in POST_PRODUCTION_STATES
    BY <1>1, <1>4 DEF Advanced, StopAt, Decision
  <2> QED  BY <1>1, <1>2, <2>1, <2>2 DEF Current
<1> QED  BY <1>1, <1>3, <1>4

LEMMA BindCurrent ==
  ASSUME NEW subject, NEW decision \in BindingDecisions
  PROVE  LET w == BindWrite(subject, decision) IN w.version = version /\ Current(w)
<1> DEFINE w == BindWrite(subject, decision)
<1>1. /\ w.version = version /\ w.decision = decision
      /\ w.next = ApplyUpdate(record, subject)
  BY DEF BindWrite
<1>2. w.next # record =>
        \/ w.next.state = "BLOCKED" /\ ResumesBack(w.next) /\ record.state \notin EXPOSED_SUBJECT_STATES
        \/ w.next.state = "ROLLBACK_REQUIRED" /\ record.state \in EXPOSED_SUBJECT_STATES
        \/ w.next.state = record.state /\ record.state \in RETAINED_STATES \ {"BLOCKED"}
  BY <1>1 DEF ApplyUpdate, StopAt, EarliestRevalidation, ResumesBack, EXPOSED_SUBJECT_STATES,
     RETAINED_STATES, PACKAGE_RELEASE_STATES
<1> QED  BY <1>1, <1>2 DEF Current

-----------------------------------------------------------------------------
LEMMA InitCInv ==
  Init => CInv
<1> SUFFICES ASSUME Init PROVE CInv
  OBVIOUS
<1>1. IInv /\ version \in Nat /\ record.epoch \in Nat
  BY InitInv DEF Init, StoreInit
<1>2. \A p \in Procs : session[p] = NoRequest
  BY DEF Init
<1> QED  BY <1>1, <1>2 DEF CInv

\* A write is prepared for the record as it is, and the case is not touched meanwhile.
LEMMA TakesCInv ==
  ASSUME CInv, IInv', NEW p \in Procs, NEW w, Takes(p, w), w.version = version, Current(w)
  PROVE  CInv'
<1>1. UNCHANGED <<record, version>> /\ session' = [session EXCEPT ![p] = w] /\ DOMAIN session = Procs
  BY DEF Takes, storeVars, CInv, IInv
<1>2. \A x : Current(x) => Current(x)'
  BY <1>1 DEF Current, ResumesBack
<1> QED  BY <1>1, <1>2 DEF CInv

LEMMA BindsCInv ==
  ASSUME CInv, IInv', NEW p \in Procs, NEW subject, NEW decision \in BindingDecisions,
         Binds(p, subject, decision)
  PROVE  CInv'
BY BindCurrent, TakesCInv DEF Binds

LEMMA StartCInv ==
  ASSUME CInv, IInv', NEW p \in Procs, Starts(p) \/ AdvanceAmiss(p) \/ Rebind(p)
  PROVE  CInv'
<1>1. CASE Advance(p)
  BY <1>1, AdvanceCurrent, TakesCInv DEF Advance
<1>2. CASE AdvanceAmiss(p)
  BY <1>2, AdvanceCurrent, TakesCInv DEF AdvanceAmiss
<1>3. "SUBJECT_BOUND" \in BindingDecisions /\ "ARTIFACT_BOUND" \in BindingDecisions
      /\ "SUBJECT_MUTATION_INVALIDATED_DOWNSTREAM" \in BindingDecisions
  BY DEF BindingDecisions
<1>4. CASE BindFirst(p)
  BY <1>3, <1>4, BindsCInv DEF BindFirst
<1>5. CASE Rebind(p)
  BY <1>3, <1>5, BindsCInv DEF Rebind
<1> QED  BY <1>1, <1>2, <1>4, <1>5 DEF Starts

LEMMA SignCInv ==
  ASSUME CInv, IInv', NEW p \in Procs, Sign(p)
  PROVE  CInv'
<1>1. /\ UNCHANGED <<record, version>> /\ DOMAIN session = Procs /\ session[p] # NoRequest
      /\ session' = [session EXCEPT ![p].signedAt = LogLength]
  BY DEF Sign, storeVars, CInv, IInv
<1>2. ASSUME NEW q \in Procs, session'[q] # NoRequest
      PROVE  /\ session[q] # NoRequest
             /\ session'[q].version = session[q].version /\ session'[q].next = session[q].next
             /\ session'[q].decision = session[q].decision
             /\ session'[q].requested = session[q].requested
  <2>1. CASE q # p
    BY <1>1, <1>2, <2>1
  <2>2. CASE q = p
    <3>1. session'[p] = [session[p] EXCEPT !.signedAt = LogLength]
      BY <1>1, Zenon
    <3>2. session[p] # NoRequest
      BY <1>1
    <3>3. /\ session'[p].version = session[p].version /\ session'[p].next = session[p].next
          /\ session'[p].decision = session[p].decision
          /\ session'[p].requested = session[p].requested
      BY <3>1
    <3> QED  BY <2>2, <3>2, <3>3
  <2> QED  BY <2>1, <2>2
<1> QED  BY <1>1, <1>2 DEF CInv, Current, ResumesBack

\* An event raises the version: what others have in hand is stale from then on.
LEMMA CommitCInv ==
  ASSUME CInv, IInv', NEW p \in Procs, Commit(p)
  PROVE  CInv'
<1>1. /\ version' = version + 1 /\ session' = [session EXCEPT ![p] = NoRequest]
      /\ DOMAIN session = Procs
  BY DEF Commit, AppendEvent, CInv, IInv
<1>2. record'.epoch \in Nat
  BY DEF Commit, AppendEvent, Admits, SubjectChecked, EpochFollows, CInv
<1>3. ASSUME NEW q \in Procs, session'[q] # NoRequest
      PROVE  session'[q] = session[q] /\ session[q].version \in Nat /\ session[q].version <= version
  BY <1>1, <1>3 DEF CInv
<1> QED  BY <1>1, <1>2, <1>3 DEF CInv

LEMMA RestCInv ==
  ASSUME CInv, IInv', UNCHANGED <<record, version>>,
         \A q \in Procs : session'[q] \in {session[q], NoRequest}
  PROVE  CInv'
BY DEF CInv, Current, ResumesBack

LEMMA NextCInv ==
  CInv /\ [Next]_vars => CInv'
<1> SUFFICES ASSUME CInv, [Next]_vars PROVE CInv'
  OBVIOUS
<1>1. IInv'
  BY NextInv DEF CInv
<1>2. ASSUME NEW p \in Procs, Starts(p) \/ AdvanceAmiss(p) \/ Rebind(p) PROVE CInv'
  BY <1>1, <1>2, StartCInv
<1>3. ASSUME NEW p \in Procs, Sign(p) \/ Commit(p) PROVE CInv'
  BY <1>1, <1>3, SignCInv, CommitCInv
<1>4. ASSUME NEW p \in Procs, Refuse(p) \/ Abandon(p) PROVE CInv'
  <2>1. UNCHANGED <<record, version>> /\ \A q \in Procs : session'[q] \in {session[q], NoRequest}
    BY <1>4 DEF Refuse, Abandon, storeVars, CInv, IInv
  <2> QED  BY <1>1, <2>1, RestCInv
<1>5. CASE OtherCase \/ Lapses \/ UNCHANGED vars
  <2>1. UNCHANGED <<record, version, session>>
    BY <1>5 DEF OtherCase, AppendElsewhere, Lapses, Lapse, vars, storeVars
  <2> QED  BY <1>1, <2>1, RestCInv
<1> QED  BY <1>2, <1>3, <1>4, <1>5 DEF Next, Finishes

-----------------------------------------------------------------------------
\* What a commit does to the stage and the epoch, by what it writes.
Onward == record'.epoch = record.epoch /\ Logical(record') \in ALLOWED(Logical(record))
CalledBack ==
  /\ record'.epoch = record.epoch /\ Logical(record) \in POST_PRODUCTION_STATES
  /\ Logical(record') = "ROLLBACK_REQUIRED"
Rebound ==
  /\ record'.epoch = record.epoch + 1 /\ Logical(record) # "RESOLVED_NO_CODE"
  /\ FallsBack(Logical(record), Logical(record'))
Held == record'.epoch = record.epoch /\ Logical(record') = Logical(record)

LEMMA CommitStep ==
  ASSUME CInv, NEW p \in Procs, Commit(p)
  PROVE  Onward \/ CalledBack \/ Rebound \/ Held
<1> DEFINE w == session[p]
<1>1. /\ w # NoRequest /\ Admits(w) /\ record' = w.next /\ w.version = version
      /\ WriteOK(w) /\ Current(w)
  BY DEF Commit, AppendEvent, Admits, CInv, IInv
<1>0. record.epoch \in Nat
  BY DEF CInv
<1> HIDE DEF w
<1>2. /\ (Changed(record.subject, w.next.subject) # {}) = (w.decision \in BindingDecisions)
      /\ w.next.epoch = record.epoch + (IF Changed(record.subject, w.next.subject) = {} THEN 0 ELSE 1)
  BY <1>1 DEF Admits, SubjectChecked, EpochFollows
<1>3. CASE w.decision \in BindingDecisions
  <2>1. w.next # record /\ w.next.epoch = record.epoch + 1
    <3>1. Changed(record.subject, record.subject) = {}
      BY DEF Changed
    <3> QED  BY <1>2, <1>3, <3>1
  <2>2. CASE w.next.state = "BLOCKED"
    <3>1. /\ InOrder(w.next.resume) /\ InOrder(Logical(record))
          /\ Rank(w.next.resume) <= Rank(Logical(record))
      BY <1>1, <2>2 DEF Admits, Stopped
    <3> QED  BY <1>1, <2>1, <2>2, <3>1, OutOfOrder DEF Rebound, FallsBack, Logical
  <2>3. CASE w.next.state = "ROLLBACK_REQUIRED" /\ record.state \in EXPOSED_SUBJECT_STATES
    BY <1>1, <2>1, <2>3 DEF Rebound, FallsBack, Logical, EXPOSED_SUBJECT_STATES
  <2>4. CASE w.next.state = record.state /\ record.state \in RETAINED_STATES \ {"BLOCKED"}
    BY <1>1, <2>1, <2>4 DEF Rebound, FallsBack, Logical, RETAINED_STATES
  <2> QED  BY <1>1, <1>3, <2>1, <2>2, <2>3, <2>4 DEF Current
<1>4. CASE w.decision \notin BindingDecisions
  <2>1. w.next.epoch = record.epoch
    BY <1>0, <1>2, <1>4
  <2>2. CASE w.next.state = "BLOCKED"
    BY <1>1, <1>4, <2>1, <2>2 DEF Current, Admits, Held, Logical
  <2>3. CASE w.next.state = "ROLLBACK_REQUIRED"
    BY <1>1, <1>4, <2>1, <2>3 DEF Current, CalledBack, Onward, Logical
  <2>4. CASE w.next.state \in AUTHORITATIVE /\ w.next.state \notin {"BLOCKED", "ROLLBACK_REQUIRED"}
    <3>1. w.decision = "PROCEED" /\ w.requested \in ALLOWED(Logical(record))
      BY <1>1, <1>4, <2>4 DEF Admits, Ordered
    <3>2. w.next.state = w.requested
      BY <1>1, <2>4, <3>1 DEF WriteOK
    <3> QED  BY <1>1, <2>1, <2>4, <3>1, <3>2 DEF Onward, Logical
  <2> QED  BY <1>1, <2>2, <2>3, <2>4 DEF WriteOK, RecordStates
<1> QED  BY <1>3, <1>4

LEMMA CaseStep ==
  ASSUME CInv, [Next]_vars
  PROVE  Onward \/ CalledBack \/ Rebound \/ Held
<1>1. ASSUME NEW p \in Procs, Commit(p) PROVE Onward \/ CalledBack \/ Rebound \/ Held
  BY <1>1, CommitStep
<1>2. CASE record' = record
  BY <1>2 DEF Held, Logical
<1>3. (\E p \in Procs : Commit(p)) \/ record' = record
  BY DEF Next, Starts, Finishes, Advance, AdvanceAmiss, BindFirst, Rebind, Binds, Takes, Sign,
     Refuse, Abandon, OtherCase, AppendElsewhere, Lapses, Lapse, vars, storeVars
<1> QED  BY <1>1, <1>2, <1>3

LEMMA StepKeepsContract ==
  ASSUME CInv, [Next]_vars
  PROVE  [Contract!Next]_<<Logical(record), record.epoch>>
<1>1. CASE Onward
  BY <1>1 DEF Onward, Contract!Next, Contract!Pass, GoesOn
<1>2. CASE CalledBack
  BY <1>2 DEF CalledBack, Contract!Next, Contract!CallBack
<1>3. CASE Rebound
  BY <1>3 DEF Rebound, Contract!Next, Contract!Rebind
<1>4. CASE Held
  BY <1>4 DEF Held
<1> QED  BY <1>1, <1>2, <1>3, <1>4, CaseStep

\* For any controllers, candidates, delivery models and bounds, whatever is read, decided,
\* signed, lost and committed in whatever order: the case keeps the contract of CaseContract.
THEOREM CaseKeepsContract == Spec => KeepsContract
<1>1. Init => Contract!Init
  BY DEF Init, StoreInit, Contract!Init, Logical
<1>2. CInv /\ [Next]_vars => [Contract!Next]_<<Logical(record), record.epoch>>
  BY StepKeepsContract
<1> QED  BY InitCInv, NextCInv, <1>1, <1>2, PTL DEF Spec, KeepsContract, Contract!Spec

\* For any controllers and bounds, a case falls back only with a change of its subject, which
\* starts a new epoch, or for a rollback: no refused gate and no late write undoes progress.
THEOREM ProgressAlwaysKept == Spec => ProgressKept
<1> DEFINE Kept ==
      InOrder(Logical(record)) /\ InOrder(Logical(record'))
      /\ Rank(Logical(record')) < Rank(Logical(record)) => record'.epoch > record.epoch
<1>1. CInv /\ [Next]_vars => [Kept]_vars
  <2> SUFFICES ASSUME CInv, [Next]_vars, InOrder(Logical(record)), InOrder(Logical(record')),
                      Rank(Logical(record')) < Rank(Logical(record))
               PROVE  record'.epoch > record.epoch
    OBVIOUS
  <2>1. /\ Rank(Logical(record)) \in 1..22 /\ Rank(Logical(record')) \in 1..22
    BY OrderOfGates, RankOf DEF InOrder
  <2>2. ~Onward
    BY <2>1, OnwardGates DEF Onward
  <2>3. ~CalledBack
    BY OutOfOrder DEF CalledBack
  <2>4. ~Held
    BY <2>1 DEF Held
  <2> QED  BY <2>2, <2>3, <2>4, CaseStep DEF Rebound, CInv
<1> QED  BY InitCInv, NextCInv, <1>1, PTL DEF Spec, ProgressKept

-----------------------------------------------------------------------------
\* Nothing follows a case that needs no code.
LEMMA NothingFollows ==
  ALLOWED("RESOLVED_NO_CODE") = {}
<1>1. Len(CODE_LIFECYCLE) = 19
  BY DEF CODE_LIFECYCLE, COMMON, RUNTIME
<1>2. \A j \in 1..18 : CODE_LIFECYCLE[j] # "RESOLVED_NO_CODE"
  BY NextGate, OrderOfGates
<1> QED  BY <1>1, <1>2 DEF ALLOWED

\* Nothing is committed to a case that is resolved.
LEMMA ResolvedNoCommit ==
  ASSUME CInv, record.state = "RESOLVED_NO_CODE", NEW p \in Procs, Commit(p)
  PROVE  FALSE
<1>0. Logical(record) = "RESOLVED_NO_CODE" /\ ~InOrder(Logical(record))
  BY OutOfOrder DEF Logical
<1> DEFINE w == session[p]
<1>1. Admits(w) /\ WriteOK(w) /\ Current(w)
  BY DEF Commit, AppendEvent, Admits, CInv, IInv
<1> HIDE DEF w
<1>2. w.next.state # "BLOCKED"
  BY <1>0, <1>1 DEF Admits, Stopped
<1>3. CASE w.decision \in BindingDecisions
  <2>1. w.next # record
    BY <1>1, <1>3 DEF Admits, SubjectChecked, Changed
  <2> QED  BY <1>1, <1>2, <1>3, <2>1 DEF Current, EXPOSED_SUBJECT_STATES, RETAINED_STATES
<1>4. CASE w.decision \notin BindingDecisions
  <2>1. w.next.state # "ROLLBACK_REQUIRED"
    BY <1>0, <1>1, <1>4, NothingFollows DEF Current, POST_PRODUCTION_STATES
  <2>2. w.next.state \in AUTHORITATIVE
    BY <1>1, <1>2, <2>1 DEF WriteOK, RecordStates
  <2> QED  BY <1>0, <1>1, <1>4, <2>2, NothingFollows DEF Admits, Ordered
<1> QED  BY <1>3, <1>4

\* For any controllers and bounds: no binding and no late write reopens a case that was
\* resolved without code.
THEOREM ResolvedAlwaysStays == Spec => ResolvedStays
<1>1. CInv /\ [Next]_vars => [record.state = "RESOLVED_NO_CODE" => record' = record]_vars
  <2> SUFFICES ASSUME CInv, [Next]_vars, record.state = "RESOLVED_NO_CODE"
               PROVE  record' = record
    OBVIOUS
  <2>1. ASSUME NEW p \in Procs, Commit(p) PROVE FALSE
    BY <2>1, ResolvedNoCommit
  <2>2. (\E p \in Procs : Commit(p)) \/ record' = record
    BY DEF Next, Starts, Finishes, Advance, AdvanceAmiss, BindFirst, Rebind, Binds, Takes, Sign,
       Refuse, Abandon, OtherCase, AppendElsewhere, Lapses, Lapse, vars, storeVars
  <2> QED  BY <2>1, <2>2
<1> QED  BY InitCInv, NextCInv, <1>1, PTL DEF Spec, ResolvedStays

\* For any controllers and bounds: what must be signed is committed with a signature made at
\* the very end of the log, so nothing was written, in any case, between signing and commit.
THEOREM AlwaysSignedAtHead == Spec => SignedAtHead
<1> DEFINE AtHead ==
      record'.state # record.state /\ record'.state \in PROTECTED
        => \E p \in Procs : /\ session[p] # NoRequest
                            /\ session[p].signedAt = LogLength
                            /\ session[p].next = record'
<1>1. [Next]_vars => [AtHead]_vars
  <2> SUFFICES ASSUME [Next]_vars, record'.state # record.state, record'.state \in PROTECTED
               PROVE  \E p \in Procs : /\ session[p] # NoRequest
                                       /\ session[p].signedAt = LogLength
                                       /\ session[p].next = record'
    OBVIOUS
  <2>1. PICK p \in Procs : Commit(p)
    BY DEF Next, Starts, Finishes, Advance, AdvanceAmiss, BindFirst, Rebind, Binds, Takes, Sign,
       Refuse, Abandon, OtherCase, AppendElsewhere, Lapses, Lapse, vars, storeVars
  <2>2. session[p] # NoRequest /\ Admits(session[p]) /\ record' = session[p].next
    BY <2>1 DEF Commit, AppendEvent
  <2> QED  BY <2>2 DEF Admits, Authorized
<1> QED  BY <1>1, PTL DEF Spec, SignedAtHead

-----------------------------------------------------------------------------
\* The types of a case and of the writes in hand.  A blocked case resumes at a gate: transition
\* accepts no other resume state.
ResumesAtGate == record.state = "BLOCKED" => InOrder(record.resume)

TInv == IInv /\ TypeOK /\ ResumesAtGate

\* The states of each lane, which the code lists in order.
LEMMA Lanes ==
  /\ COMMON_STATES =
       {"UNVERIFIED_REPORT", "SOURCE_OF_TRUTH_RESOLVED", "ISSUE_CLASSIFIED", "BUG_REPRODUCED",
        "ROOT_CAUSE_PROVEN", "BLAST_RADIUS_MAPPED", "CHANGE_PLANNED", "PATCH_IMPLEMENTED",
        "REGRESSION_TEST_PROVEN", "TARGETED_VALIDATION_PASS", "REGRESSION_VALIDATION_PASS",
        "DIFF_FORENSICS_PASS", "INDEPENDENT_REVIEW_PASS", "CI_PASS"}
  /\ PACKAGE_STATES =
       {"PACKAGE_RELEASED", "RELEASE_ARTIFACT_VERIFIED", "CONSUMER_VALIDATION_PASS"}
  /\ RUNTIME_STATES =
       {"STAGING_PASS", "READY_FOR_OWNER_RELEASE", "PRODUCTION_RELEASED", "POST_DEPLOY_VERIFIED"}
<1>1. DOMAIN COMMON = 1..14 /\ DOMAIN PACKAGE = 1..3 /\ DOMAIN RUNTIME = 1..4
  BY DEF COMMON, PACKAGE, RUNTIME
<1>2. COMMON_STATES = {COMMON[i] : i \in 1..14}
      /\ PACKAGE_STATES = {PACKAGE[i] : i \in 1..3} /\ RUNTIME_STATES = {RUNTIME[i] : i \in 1..4}
  BY <1>1 DEF COMMON_STATES, PACKAGE_STATES, RUNTIME_STATES
<1>3. PACKAGE_STATES =
       {"PACKAGE_RELEASED", "RELEASE_ARTIFACT_VERIFIED", "CONSUMER_VALIDATION_PASS"}
  BY <1>2 DEF PACKAGE
<1>4. RUNTIME_STATES =
       {"STAGING_PASS", "READY_FOR_OWNER_RELEASE", "PRODUCTION_RELEASED", "POST_DEPLOY_VERIFIED"}
  BY <1>2 DEF RUNTIME
<1>5. COMMON_STATES =
       {"UNVERIFIED_REPORT", "SOURCE_OF_TRUTH_RESOLVED", "ISSUE_CLASSIFIED", "BUG_REPRODUCED",
        "ROOT_CAUSE_PROVEN", "BLAST_RADIUS_MAPPED", "CHANGE_PLANNED", "PATCH_IMPLEMENTED",
        "REGRESSION_TEST_PROVEN", "TARGETED_VALIDATION_PASS", "REGRESSION_VALIDATION_PASS",
        "DIFF_FORENSICS_PASS", "INDEPENDENT_REVIEW_PASS", "CI_PASS"}
  BY <1>2, SMTT(60) DEF COMMON
<1> QED  BY <1>3, <1>4, <1>5

\* A gate is a state, and no stop is one.
LEMMA GatesAreStates ==
  ASSUME NEW state, InOrder(state)
  PROVE  state \in AUTHORITATIVE
<1>1. PICK i \in 1..22 : STATE_ORDER[i] = state
  BY OrderOfGates DEF InOrder
<1>2. STATE_ORDER[i] = IF i <= 14 THEN COMMON[i] ELSE IF i <= 17 THEN PACKAGE[i - 14]
                       ELSE IF i <= 21 THEN RUNTIME[i - 17] ELSE "CLOSED"
  BY SMTT(60) DEF STATE_ORDER, COMMON, PACKAGE, RUNTIME
<1>3. DOMAIN COMMON = 1..14 /\ DOMAIN PACKAGE = 1..3 /\ DOMAIN RUNTIME = 1..4
  BY DEF COMMON, PACKAGE, RUNTIME
<1> QED  BY <1>1, <1>2, <1>3 DEF AUTHORITATIVE, COMMON_STATES, PACKAGE_STATES, RUNTIME_STATES

LEMMA SubjectsBound ==
  ASSUME NEW s \in Subjects
  PROVE  /\ \A c \in Candidates, a \in Artifacts \cup {None} : CandidateBound(c, a) \in Subjects
         /\ \A m \in Mains : s.candidate # None => MergeBound(s, m) \in Subjects
         /\ \A a \in Artifacts : ArtifactBound(s, a) \in Subjects
         /\ \A d \in Deployments : ProductionBound(s, d) \in Subjects
BY DEF Subjects, Merges, CandidateBound, Unbound, MergeBound, ArtifactBound, ProductionBound

LEMMA UpdateType ==
  ASSUME TInv, NEW subject \in Subjects
  PROVE  ApplyUpdate(record, subject) \in Record /\ Logical(ApplyUpdate(record, subject)) \in RecordStates
<1>1. record \in Record /\ Logical(record) \in RecordStates
  BY GatesAreStates DEF TInv, TypeOK, ResumesAtGate, Logical, RecordStates, Record
<1>2. {"BLOCKED", "ROLLBACK_REQUIRED", "CI_PASS", "CHANGE_PLANNED"} \subseteq RecordStates
  BY Lanes DEF RecordStates, AUTHORITATIVE
<1>3. \A changed : EarliestRevalidation(changed) \in {"ROLLBACK_REQUIRED", "CI_PASS", "CHANGE_PLANNED"}
  BY DEF EarliestRevalidation
<1> DEFINE updated == [record EXCEPT !.subject = subject, !.epoch = @ + 1]
<1>4. /\ updated \in Record /\ updated.state = record.state /\ updated.resume = record.resume
  <2>1. record \in [state : RecordStates, resume : RecordStates \cup {None}, subject : Subjects, epoch : Nat]
    BY <1>1 DEF Record
  <2>2. record.epoch + 1 \in Nat
    BY <2>1
  <2>3. updated \in [state : RecordStates, resume : RecordStates \cup {None}, subject : Subjects, epoch : Nat]
    BY <2>1, <2>2
  <2>4. updated.state = record.state /\ updated.resume = record.resume
    BY <2>1
  <2> QED  BY <2>3, <2>4 DEF Record
<1> HIDE DEF updated
<1>5. \A state \in {"BLOCKED", "ROLLBACK_REQUIRED"}, resume \in {"ROLLBACK_REQUIRED", "CI_PASS", "CHANGE_PLANNED"} :
        StopAt(updated, state, resume) \in Record /\ Logical(StopAt(updated, state, resume)) \in {state, resume}
  BY <1>2, <1>4 DEF StopAt, Record, Logical
<1>6. ApplyUpdate(record, subject) \in
        {record, updated} \cup
        {StopAt(updated, state, resume) : state \in {"BLOCKED", "ROLLBACK_REQUIRED"},
                                          resume \in {"ROLLBACK_REQUIRED", "CI_PASS", "CHANGE_PLANNED"}}
  BY <1>3 DEF ApplyUpdate, updated
<1>7. Logical(updated) = Logical(record)
  BY <1>4 DEF Logical
<1> QED  BY <1>1, <1>2, <1>4, <1>5, <1>6, <1>7

LEMMA BindType ==
  ASSUME TInv, NEW subject \in Subjects, NEW decision \in BindingDecisions
  PROVE  BindWrite(subject, decision) \in Write
<1>1. version \in Nat /\ decision \in Decisions
  BY DEF TInv, TypeOK, Decisions
<1> QED  BY <1>1, UpdateType DEF BindWrite, Write

LEMMA AdvanceType ==
  ASSUME TInv, NEW target \in RecordStates, NEW gate, NEW again, NEW revised \in BOOLEAN
  PROVE  AdvanceWrite(target, gate, again, revised) \in Write
<1>1. record \in Record /\ version \in Nat /\ Logical(record) \in RecordStates \cup {None}
  BY DEF TInv, TypeOK, Logical, Record
<1>2. Decision(target, gate) \in Decisions /\ Decision(target, again) \in RecordStates \cup {"PROCEED"}
      /\ "ROLLBACK_REQUIRED" \in Decisions /\ (~Allowed(target, again) => Decision(target, again) \in RecordStates)
  BY DEF Decision, Decisions, RecordStates
<1>3. \A state \in RecordStates, resume \in RecordStates \cup {None} : StopAt(record, state, resume) \in Record
  BY <1>1 DEF StopAt, Record
<1>4. Advanced(target, again) \in Record
  BY <1>1, <1>2, <1>3 DEF Advanced
<1>5. Accepted(target, gate) \in BOOLEAN
  BY DEF Accepted
<1> QED  BY <1>1, <1>2, <1>4, <1>5 DEF AdvanceWrite, Write

LEMMA InitTInv ==
  Init => TInv
<1> SUFFICES ASSUME Init PROVE TInv
  OBVIOUS
<1>1. "UNVERIFIED_REPORT" \in COMMON_STATES
  BY Lanes
<1>2. record \in Record
  BY <1>1 DEF Init, StoreInit, Record, Subjects, Unbound, RecordStates, AUTHORITATIVE
<1>3. TypeOK
  BY <1>1, <1>2, ForeignAssumption, DetourAssumption DEF Init, StoreInit, TypeOK, AUTHORITATIVE
<1> QED  BY <1>3, InitInv DEF TInv, ResumesAtGate, Init, StoreInit

LEMMA TakesTInv ==
  ASSUME TInv, IInv', NEW p \in Procs, NEW w \in Write, Takes(p, w), Direct \/ Detour
  PROVE  TInv'
<1>1. detours' \in 0..MaxDetours
  BY DetourAssumption DEF Direct, Detour, TInv, TypeOK
<1> QED  BY <1>1 DEF TInv, TypeOK, ResumesAtGate, Takes, storeVars

LEMMA StartTInv ==
  ASSUME TInv, IInv', NEW p \in Procs, Starts(p) \/ AdvanceAmiss(p) \/ Rebind(p)
  PROVE  TInv'
<1>0. record.subject \in Subjects
  BY DEF TInv, TypeOK, Record
<1>1. CASE Advance(p)
  BY <1>1, AdvanceType, TakesTInv DEF Advance, RecordStates
<1>2. CASE AdvanceAmiss(p)
  <2>1. PICK target \in Targets, gate \in Gates, again \in Gates, revised \in BOOLEAN :
          Takes(p, AdvanceWrite(target, gate, again, revised))
    BY <1>2 DEF AdvanceAmiss
  <2> QED  BY <1>2, <2>1, TargetAssumption, AdvanceType, TakesTInv DEF AdvanceAmiss
<1>3. "SUBJECT_BOUND" \in BindingDecisions /\ "ARTIFACT_BOUND" \in BindingDecisions
      /\ "SUBJECT_MUTATION_INVALIDATED_DOWNSTREAM" \in BindingDecisions
  BY DEF BindingDecisions
<1>4. ASSUME NEW subject \in Subjects, NEW decision \in BindingDecisions,
             Binds(p, subject, decision), Direct \/ Detour
      PROVE  TInv'
  BY <1>4, BindType, TakesTInv DEF Binds
<1>5. CASE BindFirst(p)
  BY <1>0, <1>3, <1>4, <1>5, SubjectsBound DEF BindFirst
<1>6. CASE Rebind(p)
  BY <1>0, <1>3, <1>4, <1>6, SubjectsBound DEF Rebind
<1> QED  BY <1>1, <1>2, <1>5, <1>6 DEF Starts

\* A PROCEED that is committed writes the state it asks for, which is a gate or the resolution.
LEMMA CommitTInv ==
  ASSUME TInv, IInv', NEW p \in Procs, Commit(p)
  PROVE  TInv'
<1> DEFINE w == session[p]
<1>1. /\ w \in Write /\ WriteOK(w) /\ Admits(w) /\ record' = w.next /\ version' = version + 1
      /\ session' = [session EXCEPT ![p] = NoRequest] /\ UNCHANGED <<delivery, foreign, detours>>
  BY DEF Commit, AppendEvent, TInv, TypeOK, IInv
<1>2. w.next \in Record
  BY <1>1 DEF Write
<1>3. w.decision = "PROCEED" => Logical(w.next) \in AUTHORITATIVE
  BY <1>1 DEF Admits, Stopped, BindingDecisions, WriteOK, Logical, RecordStates
<1>4. passed' \subseteq AUTHORITATIVE
  BY <1>3 DEF Commit, TInv, TypeOK
<1>5. reviewed' \in Candidates \cup {None}
  BY <1>2 DEF Commit, TInv, TypeOK, Record, Subjects
<1>6. ResumesAtGate'
  BY <1>1 DEF ResumesAtGate, Admits, Stopped
<1>7. chainValid' \in BOOLEAN
  BY DEF IInv
<1>8. trust' \in {"unused", "stands", "lapsed"}
  BY DEF Commit, AppendEvent, TrustedFrom, TInv, TypeOK
<1> HIDE DEF w
<1> QED  BY <1>1, <1>2, <1>4, <1>5, <1>6, <1>7, <1>8 DEF TInv, TypeOK

LEMMA NextTInv ==
  TInv /\ [Next]_vars => TInv'
<1> SUFFICES ASSUME TInv, [Next]_vars PROVE TInv'
  OBVIOUS
<1>1. IInv'
  BY NextInv DEF TInv
<1>2. ASSUME NEW p \in Procs, Starts(p) \/ AdvanceAmiss(p) \/ Rebind(p) PROVE TInv'
  BY <1>1, <1>2, StartTInv
<1>3. ASSUME NEW p \in Procs, Sign(p) PROVE TInv'
  <2>1. LogLength \in Nat
    BY DEF LogLength, TInv, TypeOK
  <2>2. [session[p] EXCEPT !.signedAt = LogLength] \in Write
    BY <1>3, <2>1 DEF Sign, TInv, TypeOK, Write
  <2> QED  BY <1>1, <1>3, <2>2 DEF Sign, TInv, TypeOK, ResumesAtGate, storeVars
<1>4. ASSUME NEW p \in Procs, Commit(p) PROVE TInv'
  BY <1>1, <1>4, CommitTInv
<1>5. ASSUME NEW p \in Procs, Refuse(p) PROVE TInv'
  BY <1>1, <1>5 DEF Refuse, TInv, TypeOK, ResumesAtGate, storeVars
<1>6. ASSUME NEW p \in Procs, Abandon(p) PROVE TInv'
  BY <1>1, <1>6, DetourAssumption DEF Abandon, Detour, TInv, TypeOK, ResumesAtGate, storeVars
<1>7. CASE OtherCase
  BY <1>1, <1>7, ForeignAssumption DEF OtherCase, AppendElsewhere, TrustedFrom, TInv, TypeOK,
     ResumesAtGate
<1>8. CASE Lapses
  BY <1>1, <1>8 DEF Lapses, Lapse, TInv, TypeOK, ResumesAtGate
<1>9. CASE UNCHANGED vars
  BY <1>1, <1>9 DEF vars, storeVars, TInv, TypeOK, ResumesAtGate
<1> QED  BY <1>2, <1>3, <1>4, <1>5, <1>6, <1>7, <1>8, <1>9 DEF Next, Finishes

\* For any controllers, candidates and bounds, the record of a case, the writes in hand and the
\* history stay what they are declared to be.
THEOREM CaseTyped == Spec => []TypeOK
<1>1. TInv => TypeOK
  BY DEF TInv
<1> QED  BY InitTInv, NextTInv, <1>1, PTL DEF Spec

-----------------------------------------------------------------------------
\* For any controllers and bounds, no case is ever CLOSED: what commits a transition asks
\* advance_bug_lifecycle for the record first, and that raises for an allowed CLOSED.
THEOREM NoCaseCloses == Spec => [](record.state # "CLOSED")
<1>1. IInv => record.state # "CLOSED"
  BY DEF IInv
<1> QED  BY InitInv, NextInv, <1>1, PTL DEF Spec

-----------------------------------------------------------------------------
\* The gates by their place: the three lanes, and what lies before a place.
Lane(i) == IF i <= 14 THEN 1..14 ELSE IF i <= 17 THEN 15..17 ELSE IF i <= 21 THEN 18..21 ELSE {22}
PlacesBefore(i) == {j \in 1..22 : j < i /\ (j <= 14 \/ j \in Lane(i))}

LEMMA LanesByPlace ==
  /\ COMMON_STATES = {STATE_ORDER[j] : j \in 1..14}
  /\ PACKAGE_STATES = {STATE_ORDER[j] : j \in 15..17}
  /\ RUNTIME_STATES = {STATE_ORDER[j] : j \in 18..21}
  /\ STATE_ORDER[22] = "CLOSED"
<1>1. DOMAIN COMMON = 1..14 /\ DOMAIN PACKAGE = 1..3 /\ DOMAIN RUNTIME = 1..4
  BY DEF COMMON, PACKAGE, RUNTIME
<1>2. /\ \A j \in 1..14 : STATE_ORDER[j] = COMMON[j]
      /\ \A j \in 1..3 : STATE_ORDER[j + 14] = PACKAGE[j]
      /\ \A j \in 1..4 : STATE_ORDER[j + 17] = RUNTIME[j]
      /\ STATE_ORDER[22] = "CLOSED"
  BY SMTT(60) DEF STATE_ORDER, COMMON, PACKAGE, RUNTIME
<1>3. COMMON_STATES = {STATE_ORDER[j] : j \in 1..14}
  BY <1>1, <1>2 DEF COMMON_STATES
<1>4. PACKAGE_STATES = {STATE_ORDER[j] : j \in 15..17}
  <2>1. \A j \in 15..17 : j - 14 \in 1..3 /\ STATE_ORDER[j] = PACKAGE[j - 14]
    <3> TAKE j \in 15..17
    <3>1. j - 14 \in 1..3 /\ (j - 14) + 14 = j
      OBVIOUS
    <3> QED  BY <1>2, <3>1
  <2>2. \A j \in 1..3 : j + 14 \in 15..17
    OBVIOUS
  <2> QED  BY <1>1, <1>2, <2>1, <2>2 DEF PACKAGE_STATES
<1>5. RUNTIME_STATES = {STATE_ORDER[j] : j \in 18..21}
  <2>1. \A j \in 18..21 : j - 17 \in 1..4 /\ STATE_ORDER[j] = RUNTIME[j - 17]
    <3> TAKE j \in 18..21
    <3>1. j - 17 \in 1..4 /\ (j - 17) + 17 = j
      OBVIOUS
    <3> QED  BY <1>2, <3>1
  <2>2. \A j \in 1..4 : j + 17 \in 18..21
    OBVIOUS
  <2> QED  BY <1>1, <1>2, <2>1, <2>2 DEF RUNTIME_STATES
<1> QED  BY <1>2, <1>3, <1>4, <1>5

\* The gates of some places that rank before another.
LEMMA LaneBefore ==
  ASSUME NEW i \in 1..22, NEW places \in SUBSET (1..22)
  PROVE  {s \in {STATE_ORDER[j] : j \in places} : Rank(s) < i} =
         {STATE_ORDER[j] : j \in {k \in places : k < i}}
<1>1. \A j \in places : Rank(STATE_ORDER[j]) = j
  BY RankOf
<1> QED  BY <1>1

LEMMA BeforePlace ==
  ASSUME NEW i \in 1..22
  PROVE  Before(STATE_ORDER[i]) = {STATE_ORDER[j] : j \in PlacesBefore(i)}
<1> DEFINE state == STATE_ORDER[i]
<1>1. Rank(state) = i
  BY RankOf
<1>2. state \notin {"ROLLBACK_REQUIRED", "RESOLVED_NO_CODE"}
  BY OrderOfGates
<1>3. /\ state \in PACKAGE_STATES <=> i \in 15..17
      /\ state \in RUNTIME_STATES <=> i \in 18..21
  BY OrderOfGates, LanesByPlace
<1>4. /\ {s \in COMMON_STATES : Rank(s) < i} = {STATE_ORDER[j] : j \in {k \in 1..14 : k < i}}
      /\ {s \in PACKAGE_STATES : Rank(s) < i} = {STATE_ORDER[j] : j \in {k \in 15..17 : k < i}}
      /\ {s \in RUNTIME_STATES : Rank(s) < i} = {STATE_ORDER[j] : j \in {k \in 18..21 : k < i}}
  <2>1. 1..14 \in SUBSET (1..22) /\ 15..17 \in SUBSET (1..22) /\ 18..21 \in SUBSET (1..22)
    OBVIOUS
  <2> QED  BY <2>1, LaneBefore, LanesByPlace
<1>5. CASE i \in 15..17
  <2>1. Before(state) = {STATE_ORDER[j] : j \in 1..14} \cup {STATE_ORDER[j] : j \in {k \in 15..17 : k < i}}
    BY <1>1, <1>2, <1>3, <1>4, <1>5, LanesByPlace DEF Before
  <2>2. PlacesBefore(i) = 1..14 \cup {k \in 15..17 : k < i}
    BY <1>5 DEF PlacesBefore, Lane
  <2> QED  BY <2>1, <2>2
<1>6. CASE i \in 18..21
  <2>1. Before(state) = {STATE_ORDER[j] : j \in 1..14} \cup {STATE_ORDER[j] : j \in {k \in 18..21 : k < i}}
    BY <1>1, <1>2, <1>3, <1>4, <1>6, LanesByPlace DEF Before
  <2>2. PlacesBefore(i) = 1..14 \cup {k \in 18..21 : k < i}
    BY <1>6 DEF PlacesBefore, Lane
  <2> QED  BY <2>1, <2>2
<1>7. CASE i \notin 15..21
  <2>1. Before(state) = {STATE_ORDER[j] : j \in {k \in 1..14 : k < i}}
    BY <1>1, <1>2, <1>3, <1>4, <1>7 DEF Before
  <2>2. PlacesBefore(i) = {k \in 1..14 : k < i}
    BY <1>7 DEF PlacesBefore, Lane
  <2> QED  BY <2>1, <2>2
<1> QED  BY <1>5, <1>6, <1>7

-----------------------------------------------------------------------------
\* The gates a case is past, the one it stands at included.
Behind(state) == Before(state) \cup ({state} \ {"ROLLBACK_REQUIRED"})

LEMMA BehindPlace ==
  ASSUME NEW a \in 1..22, NEW b \in 1..22, PlacesBefore(b) \subseteq PlacesBefore(a) \cup {a}
  PROVE  Before(STATE_ORDER[b]) \subseteq Behind(STATE_ORDER[a])
BY BeforePlace, OrderOfGates DEF Behind

LEMMA BeforeRollback ==
  /\ Before("ROLLBACK_REQUIRED") = {STATE_ORDER[j] : j \in 1..6}
  /\ Before("RESOLVED_NO_CODE") = {STATE_ORDER[j] : j \in 1..3}
<1>1. /\ STATE_ORDER[1] = "UNVERIFIED_REPORT" /\ STATE_ORDER[2] = "SOURCE_OF_TRUTH_RESOLVED"
      /\ STATE_ORDER[3] = "ISSUE_CLASSIFIED" /\ STATE_ORDER[4] = "BUG_REPRODUCED"
      /\ STATE_ORDER[5] = "ROOT_CAUSE_PROVEN" /\ STATE_ORDER[6] = "BLAST_RADIUS_MAPPED"
      /\ \A i \in 1..3 : STATE_ORDER[i] = COMMON[i]
  BY SMTT(60) DEF STATE_ORDER, COMMON, PACKAGE, RUNTIME
<1>2. {STATE_ORDER[j] : j \in 1..6} = InvestigationStates \ {"CHANGE_PLANNED"}
  <2>1. \A j \in 1..6 : j = 1 \/ j = 2 \/ j = 3 \/ j = 4 \/ j = 5 \/ j = 6
    OBVIOUS
  <2>2. \A s \in InvestigationStates \ {"CHANGE_PLANNED"} : \E j \in 1..6 : STATE_ORDER[j] = s
    BY <1>1 DEF InvestigationStates
  <2>3. \A j \in 1..6 : STATE_ORDER[j] \in InvestigationStates \ {"CHANGE_PLANNED"}
    BY <1>1, <2>1 DEF InvestigationStates
  <2> QED  BY <2>2, <2>3
<1>3. {STATE_ORDER[j] : j \in 1..3} = {COMMON[i] : i \in 1..3}
  BY <1>1
<1> QED  BY <1>2, <1>3, Lanes DEF Before

\* The places that the policy's transitions and the stops name.
LEMMA Places ==
  /\ STATE_ORDER[3] = "ISSUE_CLASSIFIED" /\ STATE_ORDER[7] = "CHANGE_PLANNED"
  /\ STATE_ORDER[14] = "CI_PASS" /\ STATE_ORDER[15] = "PACKAGE_RELEASED"
  /\ STATE_ORDER[16] = "RELEASE_ARTIFACT_VERIFIED"
  /\ STATE_ORDER[17] = "CONSUMER_VALIDATION_PASS" /\ STATE_ORDER[18] = "STAGING_PASS"
  /\ STATE_ORDER[20] = "PRODUCTION_RELEASED" /\ STATE_ORDER[21] = "POST_DEPLOY_VERIFIED"
  /\ STATE_ORDER[22] = "CLOSED"
BY SMTT(60) DEF STATE_ORDER, COMMON, PACKAGE, RUNTIME

\* An exposed case has everything behind it that a rollback needs.
LEMMA RollbackBehind ==
  ASSUME NEW from \in POST_PRODUCTION_STATES
  PROVE  Before("ROLLBACK_REQUIRED") \subseteq Behind(from)
<1>1. ASSUME NEW i \in 7..22 PROVE Before("ROLLBACK_REQUIRED") \subseteq Behind(STATE_ORDER[i])
  <2>1. 1..6 \subseteq PlacesBefore(i)
    BY DEF PlacesBefore, Lane
  <2> QED  BY <2>1, BeforePlace, BeforeRollback DEF Behind
<1> QED  BY <1>1, Places DEF POST_PRODUCTION_STATES, Behind

\* Each transition the policy allows, closing aside, leads to a state whose way is behind the
\* case already.
LEMMA OnwardBehind ==
  ASSUME NEW from, NEW to \in ALLOWED(from) \ {"CLOSED"}
  PROVE  Before(to) \subseteq Behind(from)
<1> DEFINE next == {CODE_LIFECYCLE[i + 1] :
                      i \in {j \in 1..(Len(CODE_LIFECYCLE) - 1) : CODE_LIFECYCLE[j] = from}}
<1>1. CASE to \in next
  <2>1. Len(CODE_LIFECYCLE) = 19
    BY DEF CODE_LIFECYCLE, COMMON, RUNTIME
  <2>2. PICK j \in 1..18 : CODE_LIFECYCLE[j] = from /\ CODE_LIFECYCLE[j + 1] = to
    BY <1>1, <2>1
  <2> DEFINE a == IF j <= 14 THEN j ELSE j + 3
             b == IF j + 1 <= 14 THEN j + 1 ELSE j + 4
  <2>3. from = STATE_ORDER[a] /\ to = STATE_ORDER[b] /\ a \in 1..22 /\ b \in 1..22
    BY <2>2, NextGate
  <2>4. PlacesBefore(b) \subseteq PlacesBefore(a) \cup {a}
    BY DEF PlacesBefore, Lane
  <2> HIDE DEF a, b
  <2> QED  BY <2>3, <2>4, BehindPlace
<1>2. CASE to \notin next
  <2>1. \/ from = "ISSUE_CLASSIFIED" /\ to = "RESOLVED_NO_CODE"
        \/ from = "CI_PASS" /\ to = "PACKAGE_RELEASED"
        \/ from = "PACKAGE_RELEASED" /\ to = "RELEASE_ARTIFACT_VERIFIED"
        \/ from = "RELEASE_ARTIFACT_VERIFIED" /\ to = "CONSUMER_VALIDATION_PASS"
        \/ from = "CONSUMER_VALIDATION_PASS" /\ to = "STAGING_PASS"
        \/ from \in POST_PRODUCTION_STATES /\ to = "ROLLBACK_REQUIRED"
        \/ from = "ROLLBACK_REQUIRED" /\ to = "CHANGE_PLANNED"
    BY <1>2 DEF ALLOWED, POST_PRODUCTION_STATES
  <2>2. /\ 1..3 \subseteq PlacesBefore(3) \cup {3}
        /\ PlacesBefore(15) \subseteq PlacesBefore(14) \cup {14}
        /\ PlacesBefore(16) \subseteq PlacesBefore(15) \cup {15}
        /\ PlacesBefore(17) \subseteq PlacesBefore(16) \cup {16}
        /\ PlacesBefore(18) \subseteq PlacesBefore(17) \cup {17}
        /\ PlacesBefore(7) = 1..6
    BY DEF PlacesBefore, Lane
  <2>3. CASE from = "ISSUE_CLASSIFIED" /\ to = "RESOLVED_NO_CODE"
    BY <2>2, <2>3, BeforeRollback, BeforePlace, Places, OutOfOrder DEF Behind
  <2>4. CASE from = "ROLLBACK_REQUIRED" /\ to = "CHANGE_PLANNED"
    BY <2>2, <2>4, BeforeRollback, BeforePlace, Places DEF Behind
  <2>5. Before("PACKAGE_RELEASED") \subseteq Behind("CI_PASS")
    BY <2>2, BehindPlace, Places
  <2>6. Before("RELEASE_ARTIFACT_VERIFIED") \subseteq Behind("PACKAGE_RELEASED")
    BY <2>2, BehindPlace, Places
  <2>7. Before("CONSUMER_VALIDATION_PASS") \subseteq Behind("RELEASE_ARTIFACT_VERIFIED")
    BY <2>2, BehindPlace, Places
  <2>8. Before("STAGING_PASS") \subseteq Behind("CONSUMER_VALIDATION_PASS")
    BY <2>2, BehindPlace, Places
  <2> QED  BY <2>1, <2>3, <2>4, <2>5, <2>6, <2>7, <2>8, RollbackBehind
<1> QED  BY <1>1, <1>2

\* A case taken back to CI_PASS or to its plan keeps the gates before them.
LEMMA BackBehind ==
  ASSUME NEW from, InOrder(from), NEW to \in {"CI_PASS", "CHANGE_PLANNED"}, Rank(to) <= Rank(from)
  PROVE  Behind(to) \subseteq Behind(from)
<1>1. PICK a \in 1..22 : STATE_ORDER[a] = from
  BY OrderOfGates DEF InOrder
<1>2. PICK b \in {7, 14} : STATE_ORDER[b] = to
  BY Places
<1>3. b <= a
  BY <1>1, <1>2, RankOf
<1>4. PlacesBefore(b) \cup {b} \subseteq PlacesBefore(a) \cup {a}
  BY <1>2, <1>3 DEF PlacesBefore, Lane
<1> QED  BY <1>1, <1>2, <1>4, BeforePlace, OrderOfGates DEF Behind

-----------------------------------------------------------------------------
\* GatesInOrder is not inductive alone: the gate a case stands at becomes one behind it.
GInv == CInv /\ Behind(Logical(record)) \subseteq passed

\* A case that is stopped resumes where it stands, or where its binding takes it back to.
LEMMA CommitBehind ==
  ASSUME GInv, NEW p \in Procs, Commit(p)
  PROVE  LET w == session[p] IN
         /\ w.decision = "PROCEED" => Before(Logical(w.next)) \subseteq passed
         /\ w.decision # "PROCEED" => Behind(Logical(w.next)) \subseteq passed
<1> DEFINE w == session[p]
<1>1. w # NoRequest /\ Admits(w) /\ w.version = version /\ WriteOK(w) /\ Current(w)
  BY DEF Commit, AppendEvent, Admits, GInv, CInv, IInv
<1>2. Behind(Logical(record)) \subseteq passed
  BY DEF GInv
<1> SUFFICES /\ w.decision = "PROCEED" => Before(Logical(w.next)) \subseteq passed
             /\ w.decision # "PROCEED" => Behind(Logical(w.next)) \subseteq passed
  OBVIOUS
<1> HIDE DEF w
<1>3. CASE w.decision = "PROCEED"
  <2>1. w.next.state = w.requested /\ w.next.state \in AUTHORITATIVE \ {"CLOSED"}
    BY <1>1, <1>3 DEF Admits, Stopped, BindingDecisions, WriteOK, RecordStates
  <2>2. Logical(w.next) \in ALLOWED(Logical(record)) \ {"CLOSED"}
    BY <1>1, <1>3, <2>1 DEF Admits, Ordered, Stopped, BindingDecisions, Logical
  <2> QED  BY <1>2, <1>3, <2>2, OnwardBehind
<1>4. CASE w.decision # "PROCEED" /\ w.next.state = "ROLLBACK_REQUIRED"
  <2>1. Logical(record) \in POST_PRODUCTION_STATES
    <3>1. \/ Logical(record) \in POST_PRODUCTION_STATES
          \/ "ROLLBACK_REQUIRED" \in ALLOWED(Logical(record))
          \/ record.state \in EXPOSED_SUBJECT_STATES
      <4>1. w.decision \in BindingDecisions => w.next # record
        BY <1>1 DEF Admits, SubjectChecked, Changed
      <4> QED  BY <1>1, <1>4, <4>1 DEF Current, EXPOSED_SUBJECT_STATES
    <3>2. \A s : "ROLLBACK_REQUIRED" \in ALLOWED(s) => s \in POST_PRODUCTION_STATES
      <4>1. Len(CODE_LIFECYCLE) = 19 /\ \A j \in 1..18 : CODE_LIFECYCLE[j + 1] # "ROLLBACK_REQUIRED"
        <5>1. Len(CODE_LIFECYCLE) = 19
          BY DEF CODE_LIFECYCLE, COMMON, RUNTIME
        <5> QED  BY <5>1, NextGate, OrderOfGates
      <4> QED  BY <4>1 DEF ALLOWED, POST_PRODUCTION_STATES
    <3>3. record.state \in EXPOSED_SUBJECT_STATES => Logical(record) \in POST_PRODUCTION_STATES
      BY DEF EXPOSED_SUBJECT_STATES, POST_PRODUCTION_STATES, Logical, GInv, CInv, IInv
    <3> QED  BY <3>1, <3>2, <3>3
  <2>2. Logical(w.next) = "ROLLBACK_REQUIRED"
    BY <1>4 DEF Logical
  <2> QED  BY <1>2, <1>4, <2>1, <2>2, RollbackBehind DEF Behind
<1>5. CASE w.decision # "PROCEED" /\ w.next.state = "BLOCKED"
  <2>1. /\ Logical(w.next) = w.next.resume /\ InOrder(w.next.resume) /\ InOrder(Logical(record))
        /\ Rank(w.next.resume) <= Rank(Logical(record)) /\ w.requested # "BLOCKED"
    BY <1>1, <1>5 DEF Logical, Admits, Stopped
  <2>2. w.next.resume = Logical(record) \/ w.next.resume \in {"CI_PASS", "CHANGE_PLANNED"}
    <3>1. CASE w.decision \in BindingDecisions
      <4>1. w.next # record /\ w.next.state \notin RETAINED_STATES \ {"BLOCKED"}
        BY <1>1, <1>5, <3>1 DEF Admits, SubjectChecked, Changed
      <4>2. ResumesBack(w.next)
        BY <1>1, <1>5, <3>1, <4>1 DEF Current
      <4> QED  BY <2>1, <4>2, OutOfOrder DEF ResumesBack, Logical
    <3>2. CASE w.decision \notin BindingDecisions
      BY <1>1, <1>5, <2>1, <3>2 DEF Current
    <3> QED  BY <3>1, <3>2
  <2> QED  BY <1>2, <1>5, <2>1, <2>2, BackBehind
<1>6. CASE w.decision # "PROCEED" /\ w.next.state \notin {"BLOCKED", "ROLLBACK_REQUIRED"}
  <2>1. w.decision \in BindingDecisions
    BY <1>1, <1>6 DEF Admits, Ordered, WriteOK, RecordStates
  <2>2. w.next.state = record.state
    BY <1>1, <1>6, <2>1 DEF Admits, SubjectChecked
  <2>3. Logical(w.next) = Logical(record)
    BY <1>6, <2>2 DEF Logical
  <2> QED  BY <1>2, <1>6, <2>3
<1> QED  BY <1>3, <1>4, <1>5, <1>6

LEMMA InitGInv ==
  Init => GInv
<1> SUFFICES ASSUME Init PROVE GInv
  OBVIOUS
<1>1. Logical(record) = "UNVERIFIED_REPORT" /\ passed = {"UNVERIFIED_REPORT"}
  BY DEF Init, StoreInit, Logical
<1>2. STATE_ORDER[1] = "UNVERIFIED_REPORT" /\ PlacesBefore(1) = {}
  BY SMTT(60) DEF STATE_ORDER, COMMON, PACKAGE, RUNTIME, PlacesBefore
<1>3. Behind("UNVERIFIED_REPORT") \subseteq {"UNVERIFIED_REPORT"}
  BY <1>2, BeforePlace DEF Behind
<1> QED  BY <1>1, <1>3, InitCInv DEF GInv

LEMMA NextGInv ==
  GInv /\ [Next]_vars => GInv'
<1> SUFFICES ASSUME GInv, [Next]_vars PROVE GInv'
  OBVIOUS
<1>1. CInv'
  BY NextCInv DEF GInv
<1>2. ASSUME NEW p \in Procs, Commit(p) PROVE (Behind(Logical(record)) \subseteq passed)'
  <2> DEFINE stands == Logical(session[p].next)
  <2>1. record' = session[p].next /\ Logical(record)' = stands
    BY <1>2 DEF Commit, AppendEvent, Logical
  <2>2. passed' = IF session[p].decision = "PROCEED"
                  THEN (passed \cap Before(stands)) \cup {stands}
                  ELSE passed \cap (Before(stands) \cup {stands})
    BY <1>2 DEF Commit
  <2>3. /\ session[p].decision = "PROCEED" => Before(stands) \subseteq passed
        /\ session[p].decision # "PROCEED" => Behind(stands) \subseteq passed
    BY <1>2, CommitBehind
  <2> HIDE DEF stands
  <2>4. Behind(stands) \subseteq passed'
    BY <2>2, <2>3 DEF Behind
  <2>5. Behind(Logical(record))' = Behind(Logical(record)')
    BY DEF Behind, Before
  <2> QED  BY <2>1, <2>4, <2>5
<1>3. (\E p \in Procs : Commit(p)) \/ UNCHANGED <<record, passed>>
  BY DEF Next, Starts, Finishes, Advance, AdvanceAmiss, BindFirst, Rebind, Binds, Takes, Sign,
     Refuse, Abandon, OtherCase, AppendElsewhere, Lapses, Lapse, vars, storeVars
<1>4. CASE UNCHANGED <<record, passed>>
  BY <1>1, <1>4 DEF GInv, Behind, Before, Logical
<1> QED  BY <1>1, <1>2, <1>3, <1>4 DEF GInv

\* For any controllers, candidates, delivery models and bounds, whatever resets, rollbacks and
\* stale writes come in between: a case stands behind every gate on its way.
THEOREM GatesAlwaysInOrder == Spec => []GatesInOrder
<1>1. GInv => GatesInOrder
  BY DEF GInv, GatesInOrder, Behind
<1> QED  BY InitGInv, NextGInv, <1>1, PTL DEF Spec
=============================================================================
