--------------------------- MODULE EvidenceProofs ---------------------------
(***************************************************************************)
(* Theorems about the evidence of a bug case, over those of                *)
(* LifecycleProofs: what the bundle of a case replays, what a gate rests   *)
(* on when its state is entered, and where an exposed case may go.         *)
(***************************************************************************)
EXTENDS LifecycleProofs, EvidenceGates, EvidenceBundle

-----------------------------------------------------------------------------
\* What the replay of a case amounts to while no other case writes and no gate is refused.
RInv ==
  /\ foreign \in Nat
  /\ foreign = 0 => replay.contiguous
  /\ replay.ordered
  /\ ~replay.refused => replay.complete /\ replay.authorized
  /\ ~replay.refused /\ record.state = "BLOCKED" => record.resume \in {"CI_PASS", "CHANGE_PLANNED"}
  /\ passed \subseteq replay.asked
  /\ delivery = "PACKAGE_OR_PLUGIN" => replay.asked \cap RUNTIME_STATES = {}
  /\ record.state = "RESOLVED_NO_CODE" =>
       /\ replay.last = "RESOLVED_NO_CODE" /\ replay.proved
       /\ record.epoch \in replay.epochs

BInv == GInv /\ RInv

LEMMA InitBInv ==
  BundleInit => BInv
<1> SUFFICES ASSUME BundleInit PROVE BInv
  OBVIOUS
<1>1. GInv
  BY InitGInv DEF BundleInit
<1>2. RInv
  BY Lanes DEF BundleInit, Init, StoreInit, OpeningReplay, RInv
<1> QED  BY <1>1, <1>2 DEF BInv

\* What is neither refused nor stopped by a binding is signed for, whatever it asks for.
LEMMA AskedIsSigned ==
  ASSUME BInv, NEW w, WriteOK(w), Current(w), Admits(w), ~replay.refused, ~Refuses(w)
  PROVE  /\ SignedFor(w)
         /\ w.next.state = "BLOCKED" => w.next.resume \in {"CI_PASS", "CHANGE_PLANNED"}
<1>1. w.next.state = "BLOCKED" => w.decision \in BindingDecisions
  BY DEF Admits, Stopped, Refuses
<1>2. w.decision \in BindingDecisions => w.next # record
  BY DEF Admits, SubjectChecked, Changed
<1>3. ASSUME w.next.state = "BLOCKED" PROVE w.next.resume \in {"CI_PASS", "CHANGE_PLANNED"}
  <2>1. ResumesBack(w.next)
    BY <1>1, <1>2, <1>3 DEF Current
  <2>2. InOrder(w.next.resume)
    BY <1>3 DEF Admits, Stopped
  <2> QED  BY <2>1, <2>2, OutOfOrder DEF ResumesBack, BInv, RInv
<1>4. ASSUME w.next.state \notin PROTECTED PROVE w.requested \notin PROTECTED
  <2>1. CASE w.next.state = "BLOCKED"
    <3>1. w.requested = w.next.resume
      BY <1>1, <2>1 DEF WriteOK, Logical
    <3> QED  BY <1>3, <2>1, <3>1, Lanes DEF PROTECTED
  <2>2. CASE w.next.state # "BLOCKED" /\ w.decision \in BindingDecisions
    BY <1>4, <2>2 DEF WriteOK, Logical
  <2>3. CASE w.next.state # "BLOCKED" /\ w.decision \notin BindingDecisions
    <3>1. w.next.state \in AUTHORITATIVE
      BY <1>4, <2>3 DEF WriteOK, RecordStates, PROTECTED
    <3>2. w.decision = "PROCEED"
      BY <2>3, <3>1 DEF Admits, Ordered
    <3>3. w.next.state # "ROLLBACK_REQUIRED"
      BY <1>4 DEF PROTECTED
    <3> QED  BY <1>4, <2>3, <3>2, <3>3 DEF WriteOK
  <2> QED  BY <2>1, <2>2, <2>3
<1>5. w.next.state \in PROTECTED => w.signedAt = LogLength
  BY DEF Admits, Authorized
<1> QED  BY <1>3, <1>4, <1>5 DEF SignedFor

LEMMA AppendsRInv ==
  ASSUME BInv, NEW p \in Procs, Appends(p)
  PROVE  RInv'
<1> DEFINE w == session[p]
<1>1. /\ Admits(w) /\ WriteOK(w) /\ Current(w) /\ record' = w.next /\ version' = version + 1
      /\ UNCHANGED <<delivery, foreign>>
  BY DEF Appends, Commit, AppendEvent, Admits, BInv, GInv, CInv, IInv
<1>2. PICK complete \in BOOLEAN :
        /\ complete \/ Refuses(w)
        /\ replay' = Replayed(w, complete)
  BY DEF Appends
<1>3. w.decision = "PROCEED" => w.next.state = w.requested /\ Logical(w.next) = w.requested
  BY <1>1 DEF Admits, Stopped, BindingDecisions, WriteOK, Logical
<1>4. passed' \subseteq passed \cup {w.requested}
  BY <1>3 DEF Appends, Commit
<1>5. record.state # "RESOLVED_NO_CODE"
  BY ResolvedNoCommit DEF Appends, BInv, GInv
<1> HIDE DEF w
<1>6. (foreign = 0 => replay.contiguous)'
  <2>1. foreign = 0 => Contiguous(w)
    <3>1. version \in Nat
      BY DEF BInv, GInv, CInv
    <3> QED  BY <3>1 DEF Contiguous, LogLength
  <2> QED  BY <1>1, <1>2, <2>1 DEF BInv, RInv, Replayed
<1>7. replay'.ordered
  <2>1. Verifies(w)
    BY <1>1, AdmittedVerifies
  <2>2. Lawful(w) /\ EpochFollows(record, w.next)
    BY <1>1, <2>1 DEF Verifies, Lawful, WriteOK, Decisions, BindingDecisions
  <2> QED  BY <1>2, <2>2 DEF BInv, RInv, Replayed
<1>8. ASSUME ~replay'.refused
      PROVE  /\ replay'.complete /\ replay'.authorized
             /\ w.next.state = "BLOCKED" => w.next.resume \in {"CI_PASS", "CHANGE_PLANNED"}
  <2>1. ~replay.refused /\ ~Refuses(w)
    BY <1>2, <1>8 DEF Replayed
  <2>2. /\ SignedFor(w)
        /\ w.next.state = "BLOCKED" => w.next.resume \in {"CI_PASS", "CHANGE_PLANNED"}
    BY <1>1, <2>1, AskedIsSigned
  <2> QED  BY <1>2, <2>1, <2>2 DEF BInv, RInv, Replayed
<1>9. passed' \subseteq replay'.asked
  BY <1>2, <1>4 DEF BInv, RInv, Replayed
<1>10. delivery = "PACKAGE_OR_PLUGIN" => replay'.asked \cap RUNTIME_STATES = {}
  <2>1. delivery = "PACKAGE_OR_PLUGIN" => w.requested \notin RUNTIME_STATES
    BY <1>1 DEF Admits, DeliveryAllows
  <2> QED  BY <1>2, <2>1 DEF BInv, RInv, Replayed
<1>11. ASSUME w.next.state = "RESOLVED_NO_CODE"
       PROVE  /\ replay'.last = "RESOLVED_NO_CODE" /\ replay'.proved
              /\ w.next.epoch \in replay'.epochs
  <2>1. w.decision = "PROCEED"
    <3>1. w.decision \notin BindingDecisions
      BY <1>1, <1>5, <1>11 DEF Admits, SubjectChecked
    <3> QED  BY <1>1, <1>11, <3>1 DEF Admits, Ordered, AUTHORITATIVE
  <2>2. w.requested = "RESOLVED_NO_CODE" /\ w.accepted
    BY <1>1, <1>3, <1>11, <2>1 DEF Admits, Authorized, PROTECTED
  <2> QED  BY <1>2, <2>2 DEF Replayed
<1> QED  BY <1>1, <1>6, <1>7, <1>8, <1>9, <1>10, <1>11 DEF BInv, RInv

LEMMA NextBInv ==
  BInv /\ [BundleNext]_bundleVars => BInv'
<1> SUFFICES ASSUME BInv, [BundleNext]_bundleVars PROVE BInv'
  OBVIOUS
<1>1. [Next]_vars
  BY DEF BundleNext, Appends, Next, Finishes, bundleVars
<1>2. GInv'
  BY <1>1, NextGInv DEF BInv
<1>3. ASSUME NEW p \in Procs, Appends(p) PROVE RInv'
  BY <1>3, AppendsRInv
<1>4. ASSUME [Next]_vars, version' = version, UNCHANGED replay PROVE RInv'
  <2>1. ASSUME NEW p \in Procs, Commit(p) PROVE FALSE
    <3>1. version' = version + 1 /\ version \in Nat
      BY <2>1 DEF Commit, AppendEvent, BInv, GInv, CInv
    <3> QED  BY <1>4, <3>1
  <2>2. UNCHANGED <<record, passed, delivery>> /\ foreign' \in {foreign, foreign + 1}
    BY <1>4, <2>1 DEF Next, Starts, Finishes, Advance, AdvanceAmiss, BindFirst, Rebind, Binds, Takes,
       Sign, Refuse, Abandon, OtherCase, AppendElsewhere, Lapses, Lapse, vars, storeVars
  <2> QED  BY <1>4, <2>2 DEF BInv, RInv
<1> QED  BY <1>1, <1>2, <1>3, <1>4 DEF BInv, BundleNext, bundleVars, vars, storeVars

\* For any controllers, candidates and bounds: the bundle of a case that was resolved without
\* code, alone in its store and with no gate refused, validates.
THEOREM ResolvedAloneAlwaysReplays == BundleSpec => []ResolvedAloneReplays
<1>1. BInv => ResolvedAloneReplays
  <2> SUFFICES ASSUME BInv, record.state = "RESOLVED_NO_CODE", foreign = 0, ~replay.refused
               PROVE  Validates
    BY DEF ResolvedAloneReplays
  <2>1. ClosureClass = "RESOLVED_NO_CODE"
    BY DEF ClosureClass
  <2>2. RequiredStates \subseteq replay.asked
    <3>1. RequiredStates = Before("RESOLVED_NO_CODE")
      BY <2>1, Lanes DEF RequiredStates, Before
    <3>2. Logical(record) = "RESOLVED_NO_CODE"
      BY DEF Logical
    <3> QED  BY <3>1, <3>2 DEF BInv, GInv, RInv, Behind
  <2>3. Ends /\ OfFinalSubject
    BY <2>1 DEF Ends, OfFinalSubject, BInv, RInv
  <2> QED  BY <2>1, <2>2, <2>3 DEF Validates, BInv, RInv
<1> QED  BY InitBInv, NextBInv, <1>1, PTL DEF BundleSpec

-----------------------------------------------------------------------------
\* What an item must be to stand for what a gate asks for, live or not: nothing that an executor,
\* a misfiling or a withdrawal does makes the directory lose one.
Good(e) ==
  /\ e.sound /\ ~e.copy /\ e.trust >= 2 /\ e.by # "agent"
  /\ e.about = record.subject /\ e.epoch = record.epoch
  /\ e.type \in MACHINE_EXECUTOR_EVIDENCE_TYPES => e.by = "executor"

Backed(type) == \E e \in evidence : e.type = type /\ Good(e)

\* What a write in hand rests on while the record it was prepared for stands.
Rests(w) ==
  /\ w.decision = "PROCEED" =>
       /\ w.next.subject = record.subject /\ w.next.epoch = record.epoch
       /\ w.next.state \in AUTHORITATIVE /\ NeedsEvidence(w.next.state)
            /\ w.next.state # "PATCH_IMPLEMENTED"
          => \A type \in Required(w.next.state) : Backed(type)
  /\ w.decision \notin BindingDecisions /\ w.next.state = "BLOCKED"
       => w.requested = "BLOCKED" \/ Logical(record) \notin POST_PRODUCTION_STATES

Levelled ==
  /\ \A e \in evidence : e.trust \in 2..6
  /\ making # None => making.trust \in 2..6

KInv ==
  /\ CInv /\ TInv /\ Levelled
  /\ \A p \in Procs : session[p] # NoRequest /\ session[p].version = version => Rests(session[p])

-----------------------------------------------------------------------------
\* A gate that is open has a good item of each type it requires: what is judged below E3 is
\* machine evidence, whose provenance is checked whatever its level.
LEMMA OpenGateBacked ==
  ASSUME Levelled, NEW target, GateOpen(target), NeedsEvidence(target),
         target # "PATCH_IMPLEMENTED", NEW type \in Required(target)
  PROVE  Backed(type)
<1>1. Has(type, Minimum(target)) /\ \A e \in evidence : ~e.copy
  BY DEF GateOpen
<1>2. PICK e \in evidence : e.type = type /\ Valid(e, Minimum(target)) /\ ~e.copy
  BY <1>1 DEF Has
<1>3. e.trust \in 2..6 /\ e.live /\ e.sound /\ e.trust >= Minimum(target)
  BY <1>2 DEF Levelled, Valid
<1>4. type \in MACHINE_EXECUTOR_EVIDENCE_TYPES =>
        e.by = "executor" /\ e.about = record.subject /\ e.epoch = record.epoch
  BY <1>2 DEF Valid, validate_machine_evidence_provenance
<1>5. CASE Minimum(target) \in {3, 4, 5}
  <2>1. e.trust >= 3
    BY <1>3, <1>5
  <2>2. e.about = record.subject /\ e.epoch = record.epoch /\ e.by # "agent"
    BY <1>2, <2>1 DEF Valid
  <2> QED  BY <1>2, <1>3, <1>4, <2>2 DEF Backed, Good
<1>6. CASE target \in {"REGRESSION_TEST_PROVEN", "TARGETED_VALIDATION_PASS",
                       "REGRESSION_VALIDATION_PASS"} \cup UngatedStates
  <2>1. ~NeedsArtifact(target)
    BY <1>6, Lanes DEF NeedsArtifact, UngatedStates, InvestigationStates
  <2>2. type \in MACHINE_EXECUTOR_EVIDENCE_TYPES
    BY <1>6, <2>1 DEF Required, GateTypes, MACHINE_EXECUTOR_EVIDENCE_TYPES, UngatedStates,
       InvestigationStates
  <2> QED  BY <1>2, <1>3, <1>4, <2>2 DEF Backed, Good
<1>7. Minimum(target) \in {3, 4, 5} \/ target \in {"REGRESSION_TEST_PROVEN",
        "TARGETED_VALIDATION_PASS", "REGRESSION_VALIDATION_PASS"} \cup UngatedStates
  BY Lanes DEF Minimum
<1> QED  BY <1>5, <1>6, <1>7

LEMMA AskedRests ==
  ASSUME KInv, NEW target \in RecordStates, NEW given
  PROVE  Rests(AdvanceWrite(target, Judgement(target), Judgement(target), given))
<1> DEFINE gate == Judgement(target)
           w == AdvanceWrite(target, gate, gate, given)
<1>1. gate # "unreadable" /\ (gate = "open" <=> GateOpen(target))
  BY DEF Judgement
<1>2. w.next = Advanced(target, gate) /\ w.requested = target
  BY DEF AdvanceWrite
<1>3. w.next.subject = record.subject /\ w.next.epoch = record.epoch
  BY <1>2 DEF Advanced, StopAt
<1>4. ASSUME w.decision = "PROCEED"
      PROVE  Allowed(target, gate)
  BY <1>4 DEF AdvanceWrite, Decision
<1>5. ASSUME Allowed(target, gate)
      PROVE  w.next.state = target /\ GateOpen(target)
  BY <1>1, <1>2, <1>5 DEF Advanced, StopAt, Allowed
<1>6. ASSUME w.next.state = "BLOCKED", w.requested # "BLOCKED"
      PROVE  Logical(record) \notin POST_PRODUCTION_STATES
  <2>1. ~Allowed(target, gate)
    BY <1>2, <1>5, <1>6
  <2> QED  BY <1>1, <1>2, <1>6, <2>1 DEF Advanced, StopAt, Decision
<1> HIDE DEF w
<1>7. w.decision = "PROCEED" => w.next.state = target /\ GateOpen(target)
  BY <1>4, <1>5
<1> QED  BY <1>3, <1>6, <1>7, OpenGateBacked DEF Rests, KInv, w

LEMMA BoundRests ==
  ASSUME NEW subject, NEW decision \in BindingDecisions
  PROVE  Rests(BindWrite(subject, decision))
BY DEF Rests, BindWrite, BindingDecisions

-----------------------------------------------------------------------------
\* What a gate requires depends on the case alone.
LEMMA RequiredStands ==
  ASSUME UNCHANGED <<record, delivery>>, NEW target
  PROVE  Required(target)' = Required(target)
<1>1. GateTypes(target)' = GateTypes(target)
  BY DEF GateTypes
<1> QED  BY <1>1 DEF Required

LEMMA RestsStands ==
  ASSUME UNCHANGED <<record, delivery>>, NEW w, Rests(w),
         \A type : Backed(type) => Backed(type)'
  PROVE  Rests(w)'
<1>1. Required(w.next.state)' = Required(w.next.state)
  BY RequiredStands
<1> QED  BY <1>1 DEF Rests, Logical

LEMMA BackedStands ==
  ASSUME UNCHANGED <<record, evidence>>, NEW type, Backed(type)
  PROVE  Backed(type)'
BY DEF Backed, Good

\* A write is taken up and the directory is left alone.
LEMMA TakesKInv ==
  ASSUME KInv, CInv', TInv', NEW p \in Procs, NEW w, Takes(p, w), Rests(w), UNCHANGED gateVars
  PROVE  KInv'
<1>1. /\ UNCHANGED <<record, delivery, version, evidence, making>>
      /\ session' = [session EXCEPT ![p] = w] /\ DOMAIN session = Procs
  BY DEF Takes, storeVars, gateVars, KInv, CInv, IInv
<1>2. \A x : Rests(x) => Rests(x)'
  BY <1>1, RestsStands, BackedStands
<1>3. Levelled'
  BY <1>1 DEF Levelled, KInv
<1> QED  BY <1>1, <1>2, <1>3 DEF KInv

\* Writes are given up, and nothing else changes that a write rests on.
LEMMA RestKInv ==
  ASSUME KInv, CInv', TInv', Levelled', UNCHANGED <<record, delivery, version>>,
         \A type : Backed(type) => Backed(type)',
         \A q \in Procs : session'[q] \in {session[q], NoRequest}
  PROVE  KInv'
<1>1. \A x : Rests(x) => Rests(x)'
  BY RestsStands
<1> QED  BY <1>1 DEF KInv

-----------------------------------------------------------------------------
\* A producer makes what a gate asks for at the level of its type.
LEMMA WantedTypes ==
  ASSUME NEW type \in Wanted
  PROVE  Made(type).trust \in 2..6
<1>1. PICK t : type \in Required(t)
  BY DEF Wanted
<1>2. type \in Types
  BY <1>1 DEF Required, GateTypes, Types, TrustOf
<1>3. TrustOf[type] \in 2..6
  BY <1>2 DEF Types, TrustOf
<1> QED  BY <1>3 DEF Made

\* Whatever is filed, spoilt or withdrawn, there stays a good item of each type.
LEMMA DirectoryKeeps ==
  ASSUME KInv, Start \/ Deliver \/ Misfile \/ Withdraw
  PROVE  Levelled' /\ \A type : Backed(type) => Backed(type)'
<1>1. UNCHANGED record
  BY DEF Start, Deliver, Misfile, Withdraw, vars, storeVars, caseVars
<1>2. ASSUME evidence \subseteq evidence' PROVE \A type : Backed(type) => Backed(type)'
  BY <1>1, <1>2 DEF Backed, Good
<1>3. CASE Start
  <2>1. UNCHANGED evidence
    BY <1>3 DEF Start
  <2>2. PICK type \in Wanted : making' = Made(type)
    BY <1>3 DEF Start
  <2> QED  BY <1>2, <2>1, <2>2, WantedTypes DEF Levelled, KInv
<1>4. CASE Deliver
  <2>1. evidence' = evidence \cup {making} /\ making # None /\ making' = None
    BY <1>4 DEF Deliver
  <2> QED  BY <1>2, <2>1 DEF Levelled, KInv
<1>5. CASE /\ making # None
           /\ evidence' = evidence \cup {[making EXCEPT !.sound = FALSE]}
           /\ making' = None
  <2> DEFINE failed == [making EXCEPT !.sound = FALSE]
  <2>1. failed.trust = making.trust /\ making.trust \in 2..6
    BY <1>5 DEF Levelled, KInv
  <2>2. evidence' = evidence \cup {failed} /\ making' = None
    BY <1>5
  <2> HIDE DEF failed
  <2>3. Levelled'
    BY <2>1, <2>2 DEF Levelled, KInv
  <2> QED  BY <1>2, <2>2, <2>3
<1>6. CASE /\ \E type \in Wanted, level \in {2, 6} :
                evidence' = evidence \cup {[Made(type) EXCEPT !.by = "agent", !.trust = level]}
           /\ UNCHANGED making
  <2>1. PICK type \in Wanted, level \in {2, 6} :
          evidence' = evidence \cup {[Made(type) EXCEPT !.by = "agent", !.trust = level]}
    BY <1>6
  <2> DEFINE forged == [Made(type) EXCEPT !.by = "agent", !.trust = level]
  <2>2. forged.trust \in 2..6
    BY DEF Made
  <2>3. evidence' = evidence \cup {forged}
    BY <2>1
  <2> HIDE DEF forged
  <2>4. Levelled'
    BY <1>6, <2>2, <2>3 DEF Levelled, KInv
  <2> QED  BY <1>2, <2>3, <2>4
<1>7. CASE /\ \E e \in evidence, amiss \in {[live |-> FALSE, copy |-> FALSE],
                                            [live |-> TRUE, copy |-> TRUE]} :
                evidence' = (IF amiss.live THEN evidence ELSE evidence \ {e}) \cup
                            {[e EXCEPT !.live = amiss.live, !.copy = amiss.copy]}
           /\ UNCHANGED making
  <2>1. PICK e \in evidence, amiss \in {[live |-> FALSE, copy |-> FALSE],
                                        [live |-> TRUE, copy |-> TRUE]} :
          evidence' = (IF amiss.live THEN evidence ELSE evidence \ {e}) \cup
                      {[e EXCEPT !.live = amiss.live, !.copy = amiss.copy]}
    BY <1>7
  <2> DEFINE spoilt == [e EXCEPT !.live = amiss.live, !.copy = amiss.copy]
  <2>2. /\ spoilt.type = e.type /\ spoilt.sound = e.sound /\ spoilt.trust = e.trust
        /\ spoilt.by = e.by /\ spoilt.about = e.about /\ spoilt.epoch = e.epoch
        /\ spoilt.copy = amiss.copy
    OBVIOUS
  <2>3. spoilt \in evidence' /\ evidence' \subseteq evidence \cup {spoilt}
        /\ (amiss.live => evidence \subseteq evidence')
        /\ (evidence \ {e} \subseteq evidence') /\ (~amiss.live => ~amiss.copy)
    BY <2>1
  <2> HIDE DEF spoilt
  <2>4. \A type : Backed(type) => Backed(type)'
    <3>1. CASE amiss.live
      BY <1>2, <2>3, <3>1
    <3>2. CASE ~amiss.live
      <4> SUFFICES ASSUME NEW type, NEW g \in evidence, g.type = type, Good(g)
                   PROVE  Backed(type)'
        BY DEF Backed
      <4>1. CASE g # e
        BY <1>1, <2>3, <4>1 DEF Backed, Good
      <4>2. CASE g = e
        BY <1>1, <2>2, <2>3, <3>2, <4>2 DEF Backed, Good
      <4> QED  BY <4>1, <4>2
    <3> QED  BY <3>1, <3>2
  <2>5. Levelled'
    BY <1>7, <2>2, <2>3 DEF Levelled, KInv
  <2> QED  BY <2>4, <2>5
<1>8. CASE Withdraw
  <2>1. evidence' = {e \in evidence : ~e.copy /\ Valid([e EXCEPT !.live = TRUE], 2)} /\ UNCHANGED making
    BY <1>8 DEF Withdraw
  <2>2. ASSUME NEW e \in evidence, Good(e) PROVE e \in evidence'
    <3> DEFINE revived == [e EXCEPT !.live = TRUE]
    <3>1. /\ revived.type = e.type /\ revived.sound = e.sound /\ revived.trust = e.trust
          /\ revived.by = e.by /\ revived.about = e.about /\ revived.epoch = e.epoch
          /\ revived.live
      OBVIOUS
    <3> HIDE DEF revived
    <3>2. Valid(revived, 2)
      BY <2>2, <3>1 DEF Valid, Good, validate_machine_evidence_provenance
    <3> QED  BY <2>1, <2>2, <3>2 DEF Good, revived
  <2>3. \A type : Backed(type) => Backed(type)'
    BY <1>1, <2>2 DEF Backed, Good
  <2> QED  BY <2>1, <2>3 DEF Levelled, KInv
<1> QED  BY <1>3, <1>4, <1>5, <1>6, <1>7, <1>8 DEF Misfile

-----------------------------------------------------------------------------
\* What the gates add to a case is a step of BugLifecycle or leaves the case alone.
LEMMA JudgementIsGate ==
  ASSUME NEW target
  PROVE  Judgement(target) \in Gates
BY DEF Judgement, Gates

LEMMA GateSteps ==
  ASSUME GateNext
  PROVE  [Next]_vars \/ (Detour /\ UNCHANGED caseVars)
<1>1. ASSUME NEW p \in Drivers, Prove(p) PROVE Next
  <2>1. p \in Procs
    BY <1>1, DriverAssumption
  <2>2. PICK target \in AUTHORITATIVE \ {"CLOSED"} :
          /\ Allowed(target, Judgement(target)) /\ DeliveryAllows({target})
          /\ Takes(p, AdvanceWrite(target, "open", "open", FALSE))
    BY <1>1 DEF Prove
  <2>3. Allowed(target, "open")
    BY <2>2 DEF Allowed
  <2>4. Advance(p) /\ session[p] = NoRequest
    BY <1>1, <2>2, <2>3 DEF Advance, Prove
  <2> QED  BY <2>1, <2>4 DEF Next, Starts
<1>2. ASSUME NEW p \in Drivers, BindFirst(p) PROVE Next
  <2>1. p \in Procs /\ session[p] = NoRequest
    BY <1>2, DriverAssumption DEF BindFirst, Binds, Takes
  <2> QED  BY <1>2, <2>1 DEF Next, Starts
<1>3. ASSUME NEW p \in Procs, Ask(p) PROVE Next
  <2>1. AdvanceAmiss(p)
    BY <1>3, JudgementIsGate DEF Ask, AdvanceAmiss
  <2> QED  BY <2>1 DEF Next
<1>4. ASSUME NEW p \in Procs, Finishes(p) \/ Rebind(p) \/ Abandon(p) PROVE Next
  BY <1>4 DEF Next
<1>5. CASE Investigate \/ Start \/ Deliver \/ Withdraw
  BY <1>5 DEF Investigate, Start, Deliver, Withdraw
<1>6. CASE Digress \/ Misfile
  BY <1>6 DEF Digress, Misfile
<1>7. CASE Lapses
  BY <1>7 DEF Next
<1> QED  BY <1>1, <1>2, <1>3, <1>4, <1>5, <1>6, <1>7 DEF GateNext, Works, Settles

LEMMA GateCaseInv ==
  ASSUME CInv, TInv, GateNext
  PROVE  CInv' /\ TInv'
<1>1. CASE [Next]_vars
  BY <1>1, NextCInv, NextTInv
<1>2. CASE Detour /\ UNCHANGED caseVars
  <2>1. UNCHANGED <<record, version, session, chainValid, trust, delivery, foreign, passed, reviewed>>
    BY <1>2 DEF caseVars, storeVars
  <2>2. IInv'
    BY <2>1 DEF IInv, WriteOK, CInv
  <2>3. CInv'
    BY <2>1, <2>2, RestCInv
  <2>4. detours' \in 0..MaxDetours
    BY <1>2, DetourAssumption DEF Detour, TInv, TypeOK
  <2> QED  BY <2>1, <2>2, <2>3, <2>4 DEF TInv, TypeOK, ResumesAtGate
<1> QED  BY <1>1, <1>2, GateSteps

LEMMA InitKInv ==
  GateInit => KInv
<1> SUFFICES ASSUME GateInit PROVE KInv
  OBVIOUS
<1>1. CInv /\ TInv
  BY InitCInv, InitTInv DEF GateInit
<1>2. Levelled
  BY DEF GateInit, Levelled
<1>3. \A p \in Procs : session[p] = NoRequest
  BY DEF GateInit, Init
<1> QED  BY <1>1, <1>2, <1>3 DEF KInv

\* A state is requested, or the subject is bound.
LEMMA TakingKInv ==
  ASSUME KInv, CInv', TInv', NEW p \in Procs,
         Works(p) \/ Ask(p) \/ (Rebind(p) /\ UNCHANGED gateVars)
  PROVE  KInv'
<1>1. CASE Works(p) /\ Prove(p)
  <2>1. PICK target \in AUTHORITATIVE \ {"CLOSED"} :
          /\ Allowed(target, Judgement(target))
          /\ Takes(p, AdvanceWrite(target, "open", "open", FALSE))
    BY <1>1 DEF Prove
  <2>2. Judgement(target) = "open"
    BY <2>1 DEF Allowed
  <2>3. Rests(AdvanceWrite(target, "open", "open", FALSE))
    BY <2>2, AskedRests DEF RecordStates
  <2> QED  BY <1>1, <2>1, <2>3, TakesKInv DEF Prove
<1>2. CASE Ask(p)
  <2>1. PICK target \in Targets, given \in BOOLEAN :
          Takes(p, AdvanceWrite(target, Judgement(target), Judgement(target), given /\ revised))
    BY <1>2 DEF Ask
  <2>2. Rests(AdvanceWrite(target, Judgement(target), Judgement(target), given /\ revised))
    BY AskedRests, TargetAssumption
  <2> QED  BY <1>2, <2>1, <2>2, TakesKInv DEF Ask
<1>3. ASSUME NEW subject, NEW decision \in BindingDecisions, Binds(p, subject, decision),
             UNCHANGED gateVars
      PROVE  KInv'
  BY <1>3, BoundRests, TakesKInv DEF Binds
<1>4. "SUBJECT_BOUND" \in BindingDecisions /\ "ARTIFACT_BOUND" \in BindingDecisions
      /\ "SUBJECT_MUTATION_INVALIDATED_DOWNSTREAM" \in BindingDecisions
  BY DEF BindingDecisions
<1>5. CASE BindFirst(p) /\ UNCHANGED gateVars
  BY <1>3, <1>4, <1>5 DEF BindFirst
<1>6. CASE Rebind(p) /\ UNCHANGED gateVars
  BY <1>3, <1>4, <1>6 DEF Rebind
<1> QED  BY <1>1, <1>2, <1>5, <1>6 DEF Works

LEMMA SignKInv ==
  ASSUME KInv, CInv', TInv', NEW p \in Procs, Sign(p), UNCHANGED gateVars
  PROVE  KInv'
<1>1. /\ UNCHANGED <<record, delivery, version, evidence, making>> /\ DOMAIN session = Procs
      /\ session[p] # NoRequest /\ session' = [session EXCEPT ![p].signedAt = LogLength]
  BY DEF Sign, storeVars, gateVars, KInv, CInv, IInv
<1>2. ASSUME NEW q \in Procs, session'[q] # NoRequest
      PROVE  /\ session[q] # NoRequest
             /\ session'[q].version = session[q].version /\ session'[q].next = session[q].next
             /\ session'[q].decision = session[q].decision
             /\ session'[q].requested = session[q].requested
  <2>1. CASE q # p
    BY <1>1, <1>2, <2>1
  <2>2. CASE q = p
    <3>1. session'[p] = [session[p] EXCEPT !.signedAt = LogLength]
      BY <1>1, Zenon
    <3> QED  BY <1>1, <2>2, <3>1
  <2> QED  BY <2>1, <2>2
<1>3. \A x : Rests(x) => Rests(x)'
  BY <1>1, RestsStands, BackedStands
<1>4. Levelled'
  BY <1>1 DEF Levelled, KInv
<1>5. ASSUME NEW q \in Procs, NEW w, w = session'[q], w # NoRequest, w.version = version
      PROVE  Rests(w)'
  <2>1. Rests(session[q])
    BY <1>2, <1>5 DEF KInv
  <2>2. Rests(w)
    BY <1>2, <1>5, <2>1 DEF Rests
  <2> QED  BY <1>3, <2>2
<1> QED  BY <1>1, <1>4, <1>5 DEF KInv

LEMMA CommitKInv ==
  ASSUME KInv, CInv', TInv', NEW p \in Procs, Commit(p), UNCHANGED gateVars
  PROVE  KInv'
<1>1. /\ version' = version + 1 /\ session' = [session EXCEPT ![p] = NoRequest]
      /\ DOMAIN session = Procs /\ UNCHANGED <<evidence, making>>
  BY DEF Commit, AppendEvent, gateVars, KInv, CInv, IInv
<1>2. ASSUME NEW q \in Procs, session'[q] # NoRequest PROVE session'[q].version # version'
  BY <1>1, <1>2 DEF KInv, CInv
<1>3. Levelled'
  BY <1>1 DEF Levelled, KInv
<1> QED  BY <1>2, <1>3 DEF KInv

LEMMA NextKInv ==
  KInv /\ [GateNext]_allVars => KInv'
<1> SUFFICES ASSUME KInv, [GateNext]_allVars PROVE KInv'
  OBVIOUS
<1>1. CASE GateNext
  <2>1. CInv' /\ TInv'
    BY <1>1, GateCaseInv DEF KInv
  <2>2. ASSUME NEW p \in Procs, Works(p) \/ Ask(p) \/ (Rebind(p) /\ UNCHANGED gateVars) PROVE KInv'
    BY <2>1, <2>2, TakingKInv
  <2>3. ASSUME NEW p \in Procs, Sign(p) \/ Commit(p), UNCHANGED gateVars PROVE KInv'
    BY <2>1, <2>3, SignKInv, CommitKInv
  <2>4. ASSUME NEW p \in Procs, Refuse(p) \/ Abandon(p), UNCHANGED gateVars PROVE KInv'
    <3>1. UNCHANGED <<record, delivery, version, evidence, making>>
          /\ \A q \in Procs : session'[q] \in {session[q], NoRequest}
      BY <2>4 DEF Refuse, Abandon, storeVars, gateVars, KInv, CInv, IInv
    <3> QED  BY <2>1, <3>1, RestKInv, BackedStands DEF Levelled, KInv
  <2>5. CASE Investigate \/ Digress
    <3>1. UNCHANGED <<record, delivery, version, evidence, making, session>>
      BY <2>5 DEF Investigate, Digress, vars, storeVars, caseVars
    <3> QED  BY <2>1, <3>1, RestKInv, BackedStands DEF Levelled, KInv
  <2>6. CASE Start \/ Deliver \/ Misfile \/ Withdraw
    <3>1. UNCHANGED <<record, delivery, version, session>>
      BY <2>6 DEF Start, Deliver, Misfile, Withdraw, vars, storeVars, caseVars
    <3> QED  BY <2>1, <2>6, <3>1, RestKInv, DirectoryKeeps
  <2>7. CASE Lapses /\ UNCHANGED gateVars
    <3>1. UNCHANGED <<record, delivery, version, evidence, making, session>>
      BY <2>7 DEF Lapses, Lapse, gateVars
    <3> QED  BY <2>1, <3>1, RestKInv, BackedStands DEF Levelled, KInv
  <2> QED  BY <1>1, <2>2, <2>3, <2>4, <2>5, <2>6, <2>7 DEF GateNext, Settles, Finishes
<1>2. CASE UNCHANGED allVars
  <2>1. UNCHANGED <<vars, record, delivery, version, evidence, making, session>>
    BY <1>2 DEF allVars, gateVars, vars, storeVars
  <2>2. CInv' /\ TInv'
    BY <2>1, NextCInv, NextTInv DEF KInv
  <2> QED  BY <2>1, <2>2, RestKInv, BackedStands DEF Levelled, KInv
<1> QED  BY <1>1, <1>2

-----------------------------------------------------------------------------
LEMMA OnlyCommits ==
  ASSUME [GateNext]_allVars
  PROVE  (\E p \in Procs : Commit(p)) \/ record' = record
<1>1. CASE GateNext
  <2>1. CASE Detour /\ UNCHANGED caseVars
    BY <2>1 DEF caseVars, storeVars
  <2>2. CASE [Next]_vars
    BY <2>2 DEF Next, Starts, Finishes, Advance, AdvanceAmiss, BindFirst, Rebind, Binds, Takes, Sign,
       Refuse, Abandon, OtherCase, AppendElsewhere, Lapses, Lapse, vars, storeVars
  <2> QED  BY <1>1, <2>1, <2>2, GateSteps
<1>2. CASE UNCHANGED allVars
  BY <1>2 DEF allVars, vars, storeVars
<1> QED  BY <1>1, <1>2

\* For any controllers, producers, risk, mode and bounds, however judging and committing, filing
\* and withdrawing interleave: a state that rests on evidence is entered with a sound item of each
\* type it requires, of this very subject and epoch and not of an agent.
THEOREM GatesAlwaysProved == GateSpec => GatesProved
<1> DEFINE Entered ==
      record'.state # record.state /\ record'.state \in AUTHORITATIVE /\ NeedsEvidence(record'.state)
      /\ record'.state # "PATCH_IMPLEMENTED"
        => \A type \in Required(record'.state) : Proven(type)
<1>1. KInv /\ [GateNext]_allVars => [Entered]_allVars
  <2> SUFFICES ASSUME KInv, [GateNext]_allVars,
                      record'.state # record.state, record'.state \in AUTHORITATIVE,
                      NeedsEvidence(record'.state), record'.state # "PATCH_IMPLEMENTED",
                      NEW type \in Required(record'.state)
               PROVE  Proven(type)
    OBVIOUS
  <2>1. PICK p \in Procs : Commit(p)
    BY OnlyCommits
  <2>2. /\ Admits(session[p]) /\ record' = session[p].next /\ Rests(session[p])
    BY <2>1 DEF Commit, AppendEvent, Admits, KInv
  <2>3. session[p].decision \notin BindingDecisions
    <3>1. record'.state \notin {"BLOCKED", "ROLLBACK_REQUIRED"}
      BY Lanes DEF AUTHORITATIVE
    <3> QED  BY <2>2, <3>1 DEF Admits, SubjectChecked
  <2>4. session[p].decision = "PROCEED"
    BY <2>2, <2>3 DEF Admits, Ordered
  <2>5. Backed(type) /\ record'.subject = record.subject /\ record'.epoch = record.epoch
    BY <2>2, <2>4 DEF Rests
  <2> QED  BY <2>5 DEF Backed, Good, Proven
<1> QED  BY InitKInv, NextKInv, <1>1, PTL DEF GateSpec, GatesProved

\* Where the policy leads an exposed case.
LEMMA ExposedOnward ==
  ASSUME NEW from \in POST_PRODUCTION_STATES, NEW to \in ALLOWED(from)
  PROVE  to \in {"POST_DEPLOY_VERIFIED", "CLOSED", "ROLLBACK_REQUIRED"} \cup
                (IF from = "ROLLBACK_REQUIRED" THEN {"CHANGE_PLANNED"} ELSE {})
<1>1. CASE from = "ROLLBACK_REQUIRED"
  BY <1>1 DEF ALLOWED
<1>2. CASE from # "ROLLBACK_REQUIRED" /\ to # "ROLLBACK_REQUIRED"
  <2>1. Len(CODE_LIFECYCLE) = 19
    BY DEF CODE_LIFECYCLE, COMMON, RUNTIME
  <2>2. PICK j \in 1..18 : CODE_LIFECYCLE[j] = from /\ CODE_LIFECYCLE[j + 1] = to
    BY <1>2, <2>1 DEF ALLOWED, POST_PRODUCTION_STATES
  <2>3. CODE_LIFECYCLE[17] = "PRODUCTION_RELEASED" /\ CODE_LIFECYCLE[18] = "POST_DEPLOY_VERIFIED"
        /\ CODE_LIFECYCLE[19] = "CLOSED"
    BY SMTT(60) DEF CODE_LIFECYCLE, COMMON, RUNTIME
  <2>4. Rank(from) = (IF j <= 14 THEN j ELSE j + 3)
    BY <2>2, NextGate, RankOf
  <2>5. Rank("PRODUCTION_RELEASED") = 20 /\ Rank("POST_DEPLOY_VERIFIED") = 21
    BY Places, RankOf
  <2>6. j \in {17, 18}
    BY <1>2, <2>4, <2>5 DEF POST_PRODUCTION_STATES
  <2> QED  BY <2>2, <2>3, <2>6
<1> QED  BY <1>1, <1>2

\* For any controllers and bounds, whatever is asked, judged and rebound: an exposed case goes
\* on to the next production state or to a rollback, and back from there only to a new plan.
THEOREM ExposureNeverForgotten == GateSpec => ExposureNotForgotten
<1> DEFINE Kept ==
      record.state \in POST_PRODUCTION_STATES /\ record'.state # record.state
        => record'.state \in {"POST_DEPLOY_VERIFIED", "CLOSED", "ROLLBACK_REQUIRED"} \cup
             (IF record.state = "ROLLBACK_REQUIRED" THEN {"CHANGE_PLANNED"} ELSE {})
<1>1. KInv /\ [GateNext]_allVars => [Kept]_allVars
  <2> SUFFICES ASSUME KInv, [GateNext]_allVars,
                      record.state \in POST_PRODUCTION_STATES, record'.state # record.state
               PROVE  record'.state \in {"POST_DEPLOY_VERIFIED", "CLOSED", "ROLLBACK_REQUIRED"} \cup
                        (IF record.state = "ROLLBACK_REQUIRED" THEN {"CHANGE_PLANNED"} ELSE {})
    OBVIOUS
  <2>1. PICK p \in Procs : Commit(p)
    BY OnlyCommits
  <2> DEFINE w == session[p]
  <2>2. /\ Admits(w) /\ record' = w.next /\ Rests(w) /\ Current(w) /\ WriteOK(w)
    BY <2>1 DEF Commit, AppendEvent, Admits, KInv, CInv, IInv
  <2>3. Logical(record) = record.state
    BY DEF Logical, POST_PRODUCTION_STATES
  <2> HIDE DEF w
  <2>4. CASE w.decision \in BindingDecisions
    <3>1. w.next # record
      BY <2>2, <2>4 DEF Admits, SubjectChecked, Changed
    <3>2. record.state \in EXPOSED_SUBJECT_STATES
      BY DEF EXPOSED_SUBJECT_STATES, POST_PRODUCTION_STATES
    <3> QED  BY <2>2, <2>4, <3>1, <3>2 DEF Current
  <2>5. CASE w.decision \notin BindingDecisions /\ w.next.state \in AUTHORITATIVE
    <3>1. w.decision = "PROCEED" /\ w.requested \in ALLOWED(record.state)
      BY <2>2, <2>3, <2>5 DEF Admits, Ordered
    <3>2. w.next.state = w.requested \/ w.next.state = "ROLLBACK_REQUIRED" \/ w.next.state = "BLOCKED"
      BY <2>2, <3>1 DEF WriteOK
    <3>3. w.next.state # "BLOCKED"
      BY <2>5, Lanes DEF AUTHORITATIVE
    <3> QED  BY <2>2, <3>1, <3>2, <3>3, ExposedOnward
  <2>6. CASE w.decision \notin BindingDecisions /\ w.next.state = "BLOCKED"
    BY <2>2, <2>3, <2>6 DEF Rests, Admits
  <2> QED  BY <2>2, <2>4, <2>5, <2>6 DEF WriteOK, RecordStates
<1> QED  BY InitKInv, NextKInv, <1>1, PTL DEF GateSpec, ExposureNotForgotten

\* For any controllers, producers and bounds, a case whose gates are judged on what producers
\* file keeps the contract of CaseContract: evidence decides when it moves, never where to.
THEOREM GatedCaseKeepsContract == GateSpec => KeepsContract
<1>1. GateInit => Contract!Init
  BY DEF GateInit, Init, StoreInit, Contract!Init, Logical
<1>2. KInv /\ [GateNext]_allVars => [Contract!Next]_<<Logical(record), record.epoch>>
  <2> SUFFICES ASSUME KInv, [GateNext]_allVars
               PROVE  [Contract!Next]_<<Logical(record), record.epoch>>
    OBVIOUS
  <2>1. CASE [Next]_vars
    BY <2>1, StepKeepsContract DEF KInv
  <2>2. CASE UNCHANGED record
    BY <2>2 DEF Logical
  <2>3. [Next]_vars \/ UNCHANGED record
    BY GateSteps DEF caseVars, storeVars, allVars, vars
  <2> QED  BY <2>1, <2>2, <2>3
<1> QED  BY InitKInv, NextKInv, <1>1, <1>2, PTL DEF GateSpec, KeepsContract, Contract!Spec
=============================================================================
