--------------------------- MODULE HistoryProofs ---------------------------
(***************************************************************************)
(* Proofs about what a task's history says, for any sets of tasks and      *)
(* workers: no task reaches a release state unreviewed                     *)
(* (ReleaseAfterReview), the event log agrees with the rows when runs      *)
(* carry identifiers (LogAgrees), and a task is charged once for each      *)
(* failed run and for each report (FailureCountedOnce).                    *)
(*                                                                         *)
(* ReleaseAfterReview becomes inductive once the tasks under review are    *)
(* added: the transition table enters a release state from a review or a   *)
(* release state only, and the writes that do not consult the table        *)
(* (recovery, promotion, failure routing) never name a release state.      *)
(* FailureCountedOnce needs ChargeInv: the key of a failed run carries the *)
(* version of its claim, no such key is ahead of its row, and no two runs  *)
(* have a task and a version in common, so a run ends under a new key.     *)
(***************************************************************************)
EXTENDS SchedulerProofs, FiniteSetTheorems, SequenceTheorems

\* A row enters a release state only from a review or a release state.
MoveOK(old, new) ==
  \/ new.state = old.state
  \/ new.state \notin RELEASE_STATES
  \/ old.state \in REVIEW_STATES \cup RELEASE_STATES

MovesOK == \A t \in Tasks : MoveOK(task[t], task'[t])

ReviewInv ==
  \A t \in Tasks : task[t].state \in REVIEW_STATES \cup RELEASE_STATES => t \in reviewed

\* What every step does to the tasks' states and to the log.
Told == MovesOK /\ (RunIdsReported /\ LogAgrees => LogAgrees')

-----------------------------------------------------------------------------
LEMMA ReleaseNext ==
  ASSUME NEW s \in States, NEW target \in TRANSITIONS[s], target \in RELEASE_STATES
  PROVE  s \in REVIEW_STATES \cup RELEASE_STATES
BY DEF TRANSITIONS, REVIEW_STATES, RELEASE_STATES

LEMMA DecisionUnreleased ==
  ASSUME NEW kind, NEW role, NEW a, NEW b, NEW c
  PROVE  DecideFailure(kind, role, a, b, c).state \notin RELEASE_STATES
<1>1. WorkerLadder(a).state \notin RELEASE_STATES
  BY DEF WorkerLadder, Decision, RELEASE_STATES
<1>2. ReviewLadder(b).state \notin RELEASE_STATES
  BY DEF ReviewLadder, Decision, RELEASE_STATES
<1> QED
  BY <1>1, <1>2 DEF DecideFailure, Decision, RELEASE_STATES

LEMMA PromotionUnreleased ==
  ASSUME NEW s
  PROVE  PromotionTarget(s) \notin RELEASE_STATES
BY DEF PromotionTarget, RELEASE_STATES

\* The state each write leaves in its row.
LEMMA WrittenStates ==
  ASSUME NEW r \in Row, NEW target, NEW release \in BOOLEAN
  PROVE  /\ RecoveredRow(r).state = "WAITING_RETRY"
         /\ PromotedRow(r).state = PromotionTarget(r.state)
         /\ TransitionedRow(r, target, release).state = target
BY DEF RecoveredRow, PromotedRow, TransitionedRow, Bump, Unleased, Row

LEMMA FailedState ==
  ASSUME NEW r \in Row, NEW role, NEW kind
  PROVE  FailedRow(r, role, kind).state \notin RELEASE_STATES
<1> DEFINE total == r.total + 1
           worker == r.worker + (IF role = "worker" THEN 1 ELSE 0)
           supervisor == r.supervisor + (IF role \in {"supervisor", "closure"} THEN 1 ELSE 0)
           decision == DecideFailure(kind, role, worker, supervisor, total)
           due == IF decision.retryAfter > 0 THEN "later" ELSE "none"
           base == Bump(Unleased(r))
<1>1. decision.state \notin RELEASE_STATES
  BY DecisionUnreleased
<1>2. base \in Row
  BY BumpOK, UnleasedOK
<1>3. FailedRow(r, role, kind) =
        [base EXCEPT !.state = decision.state, !.due = due,
                     !.total = total, !.worker = worker, !.supervisor = supervisor]
  BY DEF FailedRow
<1> HIDE DEF total, worker, supervisor, decision, due, base
<1> QED
  BY <1>1, <1>2, <1>3 DEF Row

-----------------------------------------------------------------------------
\* A write of one row, logged with the state it leaves.
LEMMA OneRowTold ==
  ASSUME StoreType, NEW t \in Tasks, NEW row, MoveOK(task[t], row),
         task' = [task EXCEPT ![t] = row],
         \/ Log(t, row.state)
         \/ logged' = logged /\ row.state = task[t].state
         \/ ~ RunIdsReported
  PROVE  Told
<1>1. /\ task'[t] = row
      /\ \A u \in Tasks \ {t} : task'[u] = task[u]
  BY DEF StoreType
<1>2. MovesOK
  BY <1>1 DEF MovesOK, MoveOK
<1>3. ASSUME RunIdsReported, LogAgrees
      PROVE  LogAgrees'
  BY <1>1, <1>3 DEF LogAgrees, Log, StoreType
<1> QED
  BY <1>2, <1>3 DEF Told

LEMMA UnchangedTold ==
  ASSUME task' = task, logged' = logged
  PROVE  Told
BY DEF Told, MovesOK, MoveOK, LogAgrees

LEMMA SubmitTold ==
  ASSUME StoreType, NEW t \in Tasks, SubmitTask(t)
  PROVE  Told
<1> DEFINE row == [task[t] EXCEPT !.state = "READY"]
<1>1. row.state = "READY"
  BY DEF StoreType, Row
<1>2. MoveOK(task[t], row)
  BY <1>1 DEF MoveOK, RELEASE_STATES
<1>3. task' = [task EXCEPT ![t] = row] /\ Log(t, row.state)
  BY <1>1 DEF SubmitTask, StoreType
<1> QED
  BY <1>2, <1>3, OneRowTold

LEMMA RecoverTold ==
  ASSUME StoreType, RecoverExpiredLeases
  PROVE  Told
<1>1. ASSUME NEW t \in Expired
      PROVE  task'[t].state = "WAITING_RETRY"
  <2>1. t \in Tasks /\ task[t] \in Row /\ task'[t] = RecoveredRow(task[t])
    BY DEF RecoverExpiredLeases, StoreType, Expired
  <2> QED
    BY <2>1, WrittenStates
<1>2. \A t \in Tasks \ Expired : task'[t] = task[t]
  BY DEF RecoverExpiredLeases
<1>3. MovesOK
  BY <1>1, <1>2 DEF MovesOK, MoveOK, RELEASE_STATES
<1>4. ASSUME LogAgrees
      PROVE  LogAgrees'
  BY <1>1, <1>2, <1>4 DEF LogAgrees, RecoverExpiredLeases
<1> QED
  BY <1>3, <1>4 DEF Told

\* A promotion, and the claim of a promoted row, which keeps its state.
LEMMA PromotionTold ==
  ASSUME StoreType, LogPromotions, \A t \in Tasks : task'[t].state = Promoted[t].state
  PROVE  Told
<1>1. ASSUME NEW t \in Due
      PROVE  t \in Tasks /\ Promoted[t].state \notin RELEASE_STATES
  <2>1. t \in Tasks /\ task[t] \in Row /\ Promoted[t] = PromotedRow(task[t])
    BY DEF Promoted, Due, StoreType
  <2>2. PromotedRow(task[t]).state = PromotionTarget(task[t].state)
    BY <2>1, WrittenStates
  <2> QED
    BY <2>1, <2>2, PromotionUnreleased
<1>2. \A t \in Tasks \ Due : Promoted[t] = task[t]
  BY DEF Promoted
<1>3. MovesOK
  BY <1>1, <1>2 DEF MovesOK, MoveOK
<1>4. ASSUME LogAgrees
      PROVE  LogAgrees'
  BY <1>2, <1>4 DEF LogAgrees, LogPromotions
<1> QED
  BY <1>3, <1>4 DEF Told

LEMMA ClaimTold ==
  ASSUME StoreType, NEW w \in Workers, NEW t \in Tasks, ClaimNext(w, t)
  PROVE  Told
<1>1. Promoted \in [Tasks -> Row]
  BY PromotedOK
<1>2. ClaimedRow(Promoted[t], w).state = Promoted[t].state
  BY <1>1, ClaimedRowOK
<1>3. \A u \in Tasks : task'[u].state = Promoted[u].state
  BY <1>1, <1>2 DEF ClaimNext
<1> QED
  BY <1>3, PromotionTold DEF ClaimNext

LEMMA TransitionTold ==
  ASSUME StoreType, NEW t \in Tasks, NEW target \in States, NEW release \in BOOLEAN,
         TransitionAllowed(t, target),
         Log(t, target) \/ ~ RunIdsReported,
         task' = [task EXCEPT ![t] = TransitionedRow(task[t], target, release)]
  PROVE  Told
<1>1. task[t] \in Row /\ task[t].state \in States
  BY DEF StoreType, TransitionAllowed, Row
<1>2. TransitionedRow(task[t], target, release).state = target
  BY <1>1, WrittenStates
<1>3. MoveOK(task[t], TransitionedRow(task[t], target, release))
  BY <1>1, <1>2, ReleaseNext DEF MoveOK, TransitionAllowed
<1> QED
  BY <1>2, <1>3, OneRowTold

\* A failure's event and its row are written together or not at all.
LEMMA FailureTold ==
  ASSUME StoreType, NEW t \in Tasks, NEW role, NEW kind, NEW key,
         RecordFailure(t, role, kind, key)
  PROVE  Told
<1> DEFINE row == FailedRow(task[t], role, kind)
<1>1. CASE UNCHANGED storeVars
  BY <1>1, UnchangedTold DEF storeVars
<1>2. CASE ~ UNCHANGED storeVars
  <2>1. key \notin keys /\ task' = [task EXCEPT ![t] = row] /\ LogOnce(t, task'[t].state, key)
    BY <1>2 DEF RecordFailure, StoreType
  <2>2. task'[t] = row
    BY <2>1 DEF StoreType
  <2>3. logged' = [logged EXCEPT ![t] = row.state]
    BY <2>1, <2>2 DEF LogOnce, Log
  <2>4. row.state \notin RELEASE_STATES
    BY FailedState DEF StoreType
  <2>5. \A u \in Tasks \ {t} : task'[u] = task[u]
    BY <2>1 DEF StoreType
  <2> HIDE DEF row
  <2>6. MovesOK
    BY <2>2, <2>4, <2>5 DEF MovesOK, MoveOK
  <2>7. ASSUME LogAgrees
        PROVE  LogAgrees'
    BY <2>2, <2>3, <2>5, <2>7 DEF LogAgrees, StoreType
  <2> QED
    BY <2>6, <2>7 DEF Told
<1> QED
  BY <1>1, <1>2

\* Leases and delays do not touch a state.
LEMMA QuietTold ==
  ASSUME StoreType, NEW t \in Tasks,
         \/ \E w \in Workers : RenewLease(w, t)
         \/ LeaseRunsOut(t) \/ DelayElapses(t)
  PROVE  Told
<1>1. Bump(task[t]) \in Row /\ Bump(task[t]).state = task[t].state /\ task[t] \in Row
  BY BumpOK DEF StoreType
<1>2. PICK row \in {[Bump(task[t]) EXCEPT !.lease = "live"], [task[t] EXCEPT !.lease = "expired"],
                    [task[t] EXCEPT !.due = "now"]} :
        task' = [task EXCEPT ![t] = row]
  BY DEF StoreType, RenewLease, LeaseRunsOut, DelayElapses
<1>3. row.state = task[t].state
  BY <1>1 DEF Row
<1>4. logged' = logged
  BY DEF RenewLease, LeaseRunsOut, DelayElapses
<1> QED
  BY <1>2, <1>3, <1>4, OneRowTold DEF MoveOK

-----------------------------------------------------------------------------
\* A commit: the row is written with its event, or not at all.
LEMMA CommitTold ==
  ASSUME IInv, NEW w \in Workers, Commit(w)
  PROVE  Told
<1>1. PICK asked \in States, kind \in FailureKinds :
        \/ Advance(w, asked) \/ Raise(w, asked) \/ GateRefuses(w, asked)
        \/ RunFails(w, kind)
  BY DEF Commit, FailureKinds, States, RUNNABLE_STATES
<1> DEFINE t == session[w].task
           target == Requested(t, asked)
<1>2. t \in Tasks /\ StoreType
  BY <1>1, WorkingCopy DEF Advance, Raise, GateRefuses, RunFails, EndTick
<1>3. target \in States
  BY DEF Requested, States, TERMINAL_STATES
<1>4. CASE Advance(w, asked)
  <2>1. /\ TransitionWithKey(t, target, TRUE, session[w].version, RunKey(w, <<"success", target>>))
        /\ RunIdsReported => RunKey(w, <<"success", target>>) = Fresh
    BY <1>4 DEF Advance, RunKey
  <2>2. /\ TransitionAllowed(t, target)
        /\ task' = [task EXCEPT ![t] = TransitionedRow(task[t], target, TRUE)]
        /\ Log(t, target) \/ ~ RunIdsReported
    BY <1>2, <2>1 DEF TransitionWithKey, LogOnce, StoreType
  <2> HIDE DEF t, target
  <2> QED
    BY <1>2, <1>3, <2>2, TransitionTold
<1>5. CASE Raise(w, asked)
  BY <1>5, UnchangedTold DEF Raise, storeVars
<1>6. CASE GateRefuses(w, asked)
  BY <1>2, <1>6, FailureTold DEF GateRefuses
<1>7. CASE RunFails(w, kind)
  BY <1>2, <1>7, FailureTold DEF RunFails
<1> QED
  BY <1>1, <1>4, <1>5, <1>6, <1>7

LEMMA OperatorTold ==
  ASSUME StoreType, NEW t \in Tasks, NEW target \in OperatorChoices, NEW release \in BOOLEAN,
         OperatorTransition(t, target, release)
  PROVE  Told
<1>1. target \in States
  BY ChoicesAssumption
<1>2. /\ TransitionAllowed(t, target)
      /\ task' = [task EXCEPT ![t] = TransitionedRow(task[t], target, release)]
      /\ Log(t, target)
  BY DEF OperatorTransition, Transition, StoreType
<1> QED
  BY <1>1, <1>2, TransitionTold

LEMMA StepTold ==
  ASSUME IInv, Step
  PROVE  Told
<1>1. StoreType
  BY DEF IInv, TypeOK, StoreType
<1>2. ASSUME NEW w \in Workers, StartTick(w)
      PROVE  Told
  BY <1>1, <1>2, RecoverTold DEF StartTick
<1>3. ASSUME NEW w \in Workers, ClaimTask(w)
      PROVE  Told
  BY <1>1, <1>3, ClaimTold DEF ClaimTask
<1>4. ASSUME NEW w \in Workers, FindNothing(w)
      PROVE  Told
  BY <1>1, <1>4, PromotionTold DEF FindNothing, ClaimNothing
<1>5. ASSUME NEW w \in Workers, Commit(w)
      PROVE  Told
  BY <1>5, CommitTold
<1>6. ASSUME NEW w \in Workers, Crash(w)
      PROVE  Told
  BY <1>6, UnchangedTold DEF Crash
<1>7. ASSUME NEW w \in Workers, Heartbeat(w)
      PROVE  Told
  BY <1>1, <1>7, WorkingCopy, QuietTold DEF Heartbeat
<1>8. ASSUME NEW t \in Tasks, Submit(t)
      PROVE  Told
  BY <1>1, <1>8, SubmitTold DEF Submit
<1>9. ASSUME NEW t \in Tasks, NEW target \in OperatorChoices, NEW release \in BOOLEAN,
             OperatorTransition(t, target, release)
      PROVE  Told
  BY <1>1, <1>9, OperatorTold
<1>10. ASSUME NEW t \in Tasks, NEW role \in Roles, NEW kind \in FailureKinds,
              NEW report \in Reports, OperatorReport(t, role, kind, report)
       PROVE  Told
  BY <1>1, <1>10, FailureTold DEF OperatorReport
<1>11. ASSUME NEW t \in Tasks, LeaseExpires(t) \/ LeaseOutlived(t) \/ Elapse(t)
       PROVE  Told
  BY <1>1, <1>11, QuietTold DEF LeaseExpires, LeaseOutlived, Elapse
<1> QED
  BY <1>2, <1>3, <1>4, <1>5, <1>6, <1>7, <1>8, <1>9, <1>10, <1>11 DEF Step

-----------------------------------------------------------------------------
LEMMA ReviewInit == Init => ReviewInv
<1>1. "ABSENT" \notin REVIEW_STATES \cup RELEASE_STATES
  BY DEF REVIEW_STATES, RELEASE_STATES
<1> QED
  BY <1>1 DEF Init, StoreInit, NewRow, ReviewInv

LEMMA ReviewNext == IInv /\ ReviewInv /\ [Next]_vars => ReviewInv'
<1> SUFFICES ASSUME IInv, ReviewInv, [Next]_vars PROVE ReviewInv'
  OBVIOUS
<1>1. CASE UNCHANGED vars
  BY <1>1 DEF vars, ReviewInv
<1>2. CASE Next
  <2>1. MovesOK
    BY <1>2, StepTold DEF Next, Told
  <2> SUFFICES ASSUME NEW t \in Tasks,
                      task'[t].state \in REVIEW_STATES \cup RELEASE_STATES
               PROVE  t \in reviewed'
    BY DEF ReviewInv
  <2>2. RELEASE_STATES \cap REWORK_STATES = {} /\ REVIEW_STATES \cap RELEASE_STATES = {}
    BY DEF RELEASE_STATES, REWORK_STATES, REVIEW_STATES
  <2>3. CASE task'[t].state \in REVIEW_STATES
    BY <1>2, <2>3 DEF Next, Observe
  <2>4. CASE task'[t].state \in RELEASE_STATES
    <3>1. task[t].state \in REVIEW_STATES \cup RELEASE_STATES
      BY <2>1, <2>4 DEF MovesOK, MoveOK
    <3>2. t \in reviewed
      BY <3>1 DEF ReviewInv
    <3> QED
      BY <1>2, <2>2, <2>4, <3>2 DEF Next, Observe
  <2> QED
    BY <2>3, <2>4
<1> QED
  BY <1>1, <1>2

\* No sequence of claims, failures, recoveries, promotions and operator calls brings an
\* unreviewed change into a release state: see ReleaseAfterReview.
THEOREM ReleasesReviewed == Spec => []ReleaseAfterReview
<1>1. ReviewInv => ReleaseAfterReview
  BY DEF ReviewInv, ReleaseAfterReview
<1> QED
  BY <1>1, InitInv, NextInv, ReviewInit, ReviewNext, PTL DEF Spec

LEMMA LogInit == Init => LogAgrees
BY DEF Init, StoreInit, NewRow, LogAgrees

LEMMA LogNext ==
  ASSUME RunIdsReported
  PROVE  IInv /\ LogAgrees /\ [Next]_vars => LogAgrees'
<1> SUFFICES ASSUME IInv, LogAgrees, [Next]_vars PROVE LogAgrees'
  OBVIOUS
<1>1. CASE UNCHANGED vars
  BY <1>1 DEF vars, LogAgrees
<1>2. CASE Next
  BY <1>2, StepTold DEF Next, Told
<1> QED
  BY <1>1, <1>2

\* When every run carries an identifier no event is dropped, and the log tells the
\* state of every row: see LogAgrees.
THEOREM LogTellsState ==
  ASSUME RunIdsReported
  PROVE  Spec => []LogAgrees
BY InitInv, NextInv, LogInit, LogNext, PTL DEF Spec

-----------------------------------------------------------------------------
\* A task's charges: its failed runs, and the reports in the log, which are finitely many.
Charged(t) ==
  /\ IsFiniteSet(ReportsOf(t))
  /\ task[t].total = failedRuns[t] + Cardinality(ReportsOf(t))
  /\ task[t].total = task[t].worker + task[t].supervisor

\* The key of a failed run carries the version of its claim.
RunFailureKey(t, tag, about, version) == <<t, tag, about, version>>

\* No key of a failed run is ahead of its task's row.
KeysBehind ==
  \A t \in Tasks, version \in Nat : \A tag, about :
    RunFailureKey(t, tag, about, version) \in keys => version <= task[t].version

\* A run in progress has not been charged, and no other has its task and version.
RunUncharged(w) ==
  session[w].pc = "run" =>
    /\ \A tag, about : RunFailureKey(session[w].task, tag, about, session[w].version) \notin keys
    /\ \A v \in Workers \ {w} :
         ~ /\ session[v].pc = "run" /\ session[v].task = session[w].task
           /\ session[v].version = session[w].version

ChargeInv ==
  /\ Fresh \notin keys
  /\ KeysBehind
  /\ \A w \in Workers : RunUncharged(w)
  /\ \A t \in Tasks : Charged(t)

-----------------------------------------------------------------------------
\* The keys of a finished run, and that keys of different kinds differ.
LEMMA RunKeys ==
  ASSUME NEW w, NEW a, NEW b, NEW c
  PROVE  /\ RunKey(w, <<a, b>>) \in {Fresh, <<session[w].task, a, b>>}
         /\ RunKey(w, <<a, b, c>>) \in {Fresh, RunFailureKey(session[w].task, a, b, c)}
<1> DEFINE t == session[w].task
           S == {t, a, b, c}
           two == <<t>> \o <<a, b>>
           three == <<t>> \o <<a, b, c>>
<1>1. <<t>> \in Seq(S) /\ <<a, b>> \in Seq(S) /\ <<a, b, c>> \in Seq(S)
      /\ <<t, a, b>> \in Seq(S) /\ <<t, a, b, c>> \in Seq(S)
  OBVIOUS
<1>2. two \in Seq(S) /\ Len(two) = 3 /\ two[1] = t /\ two[2] = a /\ two[3] = b
  BY <1>1, ConcatProperties
<1>3. three \in Seq(S) /\ Len(three) = 4 /\ three[1] = t /\ three[2] = a /\ three[3] = b /\ three[4] = c
  BY <1>1, ConcatProperties
<1> HIDE DEF two, three
<1>4. two = <<t, a, b>>
  BY <1>1, <1>2, SeqEqual
<1>5. three = <<t, a, b, c>>
  BY <1>1, <1>3, SeqEqual
<1> QED  BY <1>4, <1>5 DEF RunKey, RunFailureKey, two, three

LEMMA KeysDiffer ==
  ASSUME NEW t, NEW u, NEW tag, NEW about, NEW version, NEW report, NEW target
  PROVE  /\ RunFailureKey(t, tag, about, version) # <<u, "report", report>>
         /\ RunFailureKey(t, tag, about, version) # <<u, "success", target>>
         /\ RunFailureKey(t, tag, about, version) # Fresh
         /\ <<t, "success", target>> # <<u, "report", report>>
         /\ <<t, "success", target>> # Fresh /\ <<u, "report", report>> # Fresh
BY DEF RunFailureKey, Fresh

LEMMA SameFailureKey ==
  ASSUME NEW t, NEW u, NEW a, NEW b, NEW i, NEW j, NEW m, NEW n,
         RunFailureKey(t, a, i, m) = RunFailureKey(u, b, j, n)
  PROVE  t = u /\ m = n
BY DEF RunFailureKey

\* What a row counts, only a recorded failure changes, by one.
SameCounts(old, new) ==
  new.total = old.total /\ new.worker = old.worker /\ new.supervisor = old.supervisor

LEMMA FailureCounts ==
  ASSUME NEW r \in Row, NEW role \in Roles, NEW kind
  PROVE  /\ FailedRow(r, role, kind).total = r.total + 1
         /\ FailedRow(r, role, kind).worker + FailedRow(r, role, kind).supervisor
              = r.worker + r.supervisor + 1
<1> DEFINE total == r.total + 1
           worker == r.worker + (IF role = "worker" THEN 1 ELSE 0)
           supervisor == r.supervisor + (IF role \in {"supervisor", "closure"} THEN 1 ELSE 0)
           decision == DecideFailure(kind, role, worker, supervisor, total)
           due == IF decision.retryAfter > 0 THEN "later" ELSE "none"
           base == Bump(Unleased(r))
<1>1. base \in Row
  BY BumpOK, UnleasedOK
<1>2. FailedRow(r, role, kind) =
        [base EXCEPT !.state = decision.state, !.due = due,
                     !.total = total, !.worker = worker, !.supervisor = supervisor]
  BY DEF FailedRow
<1>3. worker + supervisor = r.worker + r.supervisor + 1
  BY DEF Roles, Row
<1> HIDE DEF total, worker, supervisor, decision, due, base
<1>4. /\ FailedRow(r, role, kind).total = total
      /\ FailedRow(r, role, kind).worker = worker /\ FailedRow(r, role, kind).supervisor = supervisor
  BY <1>1, <1>2 DEF Row
<1> QED  BY <1>3, <1>4 DEF total

LEMMA RolesForStates == \A s : RoleForState(s) \in Roles
BY DEF RoleForState, Roles

-----------------------------------------------------------------------------
\* The keys a step may add: those of an advance, of a report, and of a run it ends.
NewKey(k) ==
  \/ \E t, target : k = <<t, "success", target>>
  \/ \E t, report : k = <<t, "report", report>>
  \/ \E w \in Workers :
       /\ session[w].pc = "run" /\ session'[w].pc # "run"
       /\ \E tag, about : k = RunFailureKey(session[w].task, tag, about, session[w].version)

KeysStep == keys \subseteq keys' /\ \A k \in keys' : k \in keys \/ NewKey(k)

LEMMA KeysBehindStep ==
  ASSUME IInv, ChargeInv, StoreType', RowsStep, KeysStep
  PROVE  Fresh \notin keys' /\ KeysBehind'
<1>1. Fresh \notin keys'
  BY KeysDiffer DEF KeysStep, NewKey, ChargeInv
<1>2. ASSUME NEW t \in Tasks, NEW version \in Nat, NEW tag, NEW about,
             RunFailureKey(t, tag, about, version) \in keys'
      PROVE  version <= task'[t].version
  <2>1. /\ task[t].version \in Nat /\ task'[t].version \in Nat
        /\ task[t].version <= task'[t].version
    BY DEF IInv, TypeOK, StoreType, RowsStep, RowStep, Row
  <2>2. version <= task[t].version
    <3>1. CASE RunFailureKey(t, tag, about, version) \in keys
      BY <3>1 DEF ChargeInv, KeysBehind
    <3>2. CASE NewKey(RunFailureKey(t, tag, about, version))
      <4>1. PICK w, a, b :
              /\ w \in Workers /\ session[w].pc = "run"
              /\ RunFailureKey(t, tag, about, version)
                   = RunFailureKey(session[w].task, a, b, session[w].version)
        BY <3>2, KeysDiffer DEF NewKey
      <4>2. t = session[w].task /\ version = session[w].version
        BY <4>1, SameFailureKey
      <4> QED  BY <4>1, <4>2 DEF IInv, CopyOK
    <3> QED  BY <1>2, <3>1, <3>2 DEF KeysStep
  <2> QED  BY <2>1, <2>2
<1> QED  BY <1>1, <1>2 DEF KeysBehind

LEMMA RunsUnchargedStep ==
  ASSUME IInv, ChargeInv, KeysStep, CopiesKept
  PROVE  \A w \in Workers : RunUncharged(w)'
<1> SUFFICES ASSUME NEW w \in Workers, session'[w].pc = "run"
             PROVE  RunUncharged(w)'
  BY DEF RunUncharged
<1>1. session'[w] = session[w] /\ session[w].pc = "run" /\ RunUncharged(w)
  BY DEF CopiesKept, ChargeInv
<1>2. ASSUME NEW v \in Workers \ {w}, session[v].pc = "run",
             session[v].task = session[w].task, session[v].version = session[w].version
      PROVE  FALSE
  BY <1>1, <1>2 DEF RunUncharged
<1>3. ASSUME NEW tag, NEW about,
             RunFailureKey(session[w].task, tag, about, session[w].version) \in keys'
      PROVE  FALSE
  <2>1. NewKey(RunFailureKey(session[w].task, tag, about, session[w].version))
    BY <1>1, <1>3 DEF KeysStep, RunUncharged
  <2>2. PICK v, a, b :
          /\ v \in Workers /\ session[v].pc = "run" /\ session'[v].pc # "run"
          /\ RunFailureKey(session[w].task, tag, about, session[w].version)
               = RunFailureKey(session[v].task, a, b, session[v].version)
    BY <2>1, KeysDiffer DEF NewKey
  <2>3. session[v].task = session[w].task /\ session[v].version = session[w].version
    BY <2>2, SameFailureKey
  <2> QED  BY <1>2, <2>2, <2>3
<1>4. ASSUME NEW v \in Workers \ {w}, session'[v].pc = "run",
             session'[v].task = session'[w].task, session'[v].version = session'[w].version
      PROVE  FALSE
  BY <1>1, <1>2, <1>4 DEF CopiesKept
<1> QED  BY <1>1, <1>3, <1>4 DEF RunUncharged

\* A step that charges nobody.
Uncounted ==
  /\ \A t \in Tasks : SameCounts(task[t], task'[t])
  /\ failedRuns' = failedRuns
  /\ keys \subseteq keys'
  /\ \A k \in keys' : k \in keys \/ \E t, target : k = <<t, "success", target>>

LEMMA UncountedStep ==
  ASSUME ChargeInv, Uncounted
  PROVE  KeysStep /\ \A t \in Tasks : Charged(t)'
<1>1. KeysStep
  BY DEF Uncounted, KeysStep, NewKey
<1>2. ASSUME NEW t \in Tasks
      PROVE  Charged(t)'
  <2>1. ReportsOf(t)' = ReportsOf(t)
    BY KeysDiffer DEF ReportsOf, Uncounted
  <2> QED  BY <2>1 DEF ChargeInv, Charged, Uncounted, SameCounts
<1> QED  BY <1>1, <1>2

-----------------------------------------------------------------------------
\* The steps that record no failure.
LEMMA OneRowUncounted ==
  ASSUME StoreType, NEW t \in Tasks, NEW row, SameCounts(task[t], row),
         task' = [task EXCEPT ![t] = row], keys' = keys, failedRuns' = failedRuns
  PROVE  Uncounted
BY DEF StoreType, Uncounted, SameCounts

LEMMA PromotionCountsNothing ==
  ASSUME StoreType
  PROVE  /\ Promoted \in [Tasks -> Row]
         /\ \A t \in Tasks : SameCounts(task[t], Promoted[t])
<1>1. ASSUME NEW t \in Tasks
      PROVE  SameCounts(task[t], Promoted[t])
  <2>1. task[t] \in Row
    BY DEF StoreType
  <2>2. SameCounts(task[t], PromotedRow(task[t]))
    BY <2>1 DEF SameCounts, PromotedRow, Bump, Row
  <2> QED  BY <2>2 DEF Promoted, SameCounts
<1> QED  BY <1>1, PromotedOK

LEMMA ProcessUncounted ==
  ASSUME IInv, NEW w \in Workers,
         StartTick(w) \/ FindNothing(w) \/ Crash(w) \/ Heartbeat(w)
  PROVE  Uncounted
<1>1. StoreType
  BY DEF IInv, TypeOK, StoreType
<1>2. CASE StartTick(w)
  <2>1. /\ task' = [t \in Tasks |-> IF t \in Expired THEN RecoveredRow(task[t]) ELSE task[t]]
        /\ keys' = keys /\ failedRuns' = failedRuns
    BY <1>2 DEF StartTick, RecoverExpiredLeases
  <2>2. ASSUME NEW t \in Tasks
        PROVE  SameCounts(task[t], task'[t])
    <3>1. task[t] \in Row
      BY <1>1 DEF StoreType
    <3>2. SameCounts(task[t], RecoveredRow(task[t]))
      BY <3>1 DEF SameCounts, RecoveredRow, Bump, Unleased, Row
    <3> QED  BY <2>1, <3>2 DEF SameCounts
  <2> QED  BY <2>1, <2>2 DEF Uncounted
<1>3. CASE FindNothing(w)
  BY <1>1, <1>3, PromotionCountsNothing DEF FindNothing, ClaimNothing, LogPromotions, Uncounted
<1>4. CASE Crash(w)
  BY <1>4 DEF Crash, Uncounted, SameCounts
<1>5. CASE Heartbeat(w)
  <2> DEFINE t == session[w].task
             row == [Bump(task[t]) EXCEPT !.lease = "live"]
  <2>1. t \in Tasks /\ task[t] \in Row
    BY <1>1, <1>5, WorkingCopy DEF Heartbeat, StoreType
  <2>2. SameCounts(task[t], row)
    BY <2>1 DEF SameCounts, Bump, Row
  <2>3. task' = [task EXCEPT ![t] = row] /\ keys' = keys /\ failedRuns' = failedRuns
    BY <1>1, <1>5, <2>1 DEF Heartbeat, RenewLease, StoreType
  <2> HIDE DEF t, row
  <2> QED  BY <1>1, <2>1, <2>2, <2>3, OneRowUncounted
<1> QED  BY <1>2, <1>3, <1>4, <1>5

\* A claim keeps every count, and its copy has a version that no copy and no key has.
LEMMA ClaimUncounted ==
  ASSUME IInv, ChargeInv, NEW w \in Workers, ClaimTask(w)
  PROVE  Uncounted /\ KeysBehind' /\ \A v \in Workers : RunUncharged(v)'
<1>1. PICK t \in Tasks :
        /\ ClaimNext(w, t)
        /\ session' = [session EXCEPT ![w] =
             [pc |-> "run", task |-> t, state |-> task'[t].state, version |-> task'[t].version]]
  BY DEF ClaimTask
<1>2. StoreType /\ session \in [Workers -> Session]
  BY DEF IInv, TypeOK, StoreType
<1>3. StoreType' /\ RowsStep
  BY <1>1, <1>2, ClaimStep
<1>4. /\ Promoted \in [Tasks -> Row]
      /\ task' = [Promoted EXCEPT ![t] = ClaimedRow(Promoted[t], w)]
      /\ keys' = keys /\ failedRuns' = failedRuns
  BY <1>1, <1>2, PromotedOK DEF ClaimNext, LogPromotions, ClaimTask
<1>5. SameCounts(Promoted[t], ClaimedRow(Promoted[t], w))
  <2>1. Promoted[t] \in Row
    BY <1>4
  <2> QED  BY <2>1 DEF SameCounts, ClaimedRow, Bump, Row
<1>6. Uncounted
  BY <1>2, <1>4, <1>5, PromotionCountsNothing DEF Uncounted, SameCounts
<1>7. task'[t].version > task[t].version /\ task'[t].version \in Nat /\ task[t].version \in Nat
  <2>1. task'[t].version = Promoted[t].version + 1
    BY <1>4, ClaimedRowOK
  <2>2. RowStep(task[t], Promoted[t]) /\ task[t] \in Row /\ Promoted[t] \in Row
    BY <1>2, PromotedOK DEF StoreType
  <2> QED  BY <2>1, <2>2 DEF RowStep, Row
<1>8. KeysStep
  BY <1>4 DEF KeysStep
<1>9. KeysBehind'
  BY <1>3, <1>8, KeysBehindStep
<1>10. /\ session'[w].pc = "run" /\ session'[w].task = t /\ session'[w].version = task'[t].version
       /\ \A v \in Workers \ {w} : session'[v] = session[v]
  BY <1>1, <1>2
<1>11. ASSUME NEW tag, NEW about, RunFailureKey(t, tag, about, task'[t].version) \in keys'
       PROVE  FALSE
  BY <1>4, <1>7, <1>11 DEF ChargeInv, KeysBehind
<1>12. ASSUME NEW v \in Workers \ {w}, session[v].pc = "run", session[v].task = t
       PROVE  session[v].version # task'[t].version
  <2>1. session[v].version <= task[t].version /\ session[v].version \in Nat
    BY <1>2, <1>12 DEF IInv, CopyOK, Session
  <2> QED  BY <1>7, <2>1
<1>13. RunUncharged(w)'
  BY <1>10, <1>11, <1>12 DEF RunUncharged
<1>14. ASSUME NEW v \in Workers \ {w}
       PROVE  RunUncharged(v)'
  BY <1>4, <1>10, <1>12 DEF RunUncharged, ChargeInv
<1> QED  BY <1>6, <1>9, <1>13, <1>14

LEMMA OutsideUncounted ==
  ASSUME IInv, NEW t \in Tasks,
         \/ Submit(t)
         \/ \E target \in OperatorChoices, release \in BOOLEAN :
              OperatorTransition(t, target, release)
         \/ LeaseExpires(t) \/ LeaseOutlived(t) \/ Elapse(t)
  PROVE  Uncounted
<1>1. StoreType /\ task[t] \in Row
  BY DEF IInv, TypeOK, StoreType
<1>2. CASE Submit(t)
  <2>1. SameCounts(task[t], [task[t] EXCEPT !.state = "READY"])
    BY <1>1 DEF SameCounts, Row
  <2>2. task' = [task EXCEPT ![t] = [task[t] EXCEPT !.state = "READY"]]
        /\ keys' = keys /\ failedRuns' = failedRuns
    BY <1>1, <1>2 DEF Submit, SubmitTask, Log, StoreType
  <2> QED  BY <1>1, <2>1, <2>2, OneRowUncounted
<1>3. ASSUME NEW target \in OperatorChoices, NEW release \in BOOLEAN,
             OperatorTransition(t, target, release)
      PROVE  Uncounted
  <2>1. SameCounts(task[t], TransitionedRow(task[t], target, release))
    BY <1>1 DEF SameCounts, TransitionedRow, Bump, Unleased, Row
  <2>2. task' = [task EXCEPT ![t] = TransitionedRow(task[t], target, release)]
        /\ keys' = keys /\ failedRuns' = failedRuns
    BY <1>1, <1>3 DEF OperatorTransition, Transition, Log, StoreType
  <2> QED  BY <1>1, <2>1, <2>2, OneRowUncounted
<1>4. CASE LeaseExpires(t) \/ LeaseOutlived(t) \/ Elapse(t)
  <2>1. PICK row \in {[task[t] EXCEPT !.lease = "expired"], [task[t] EXCEPT !.due = "now"]} :
          task' = [task EXCEPT ![t] = row] /\ keys' = keys /\ failedRuns' = failedRuns
    BY <1>1, <1>4 DEF LeaseExpires, LeaseOutlived, Elapse, LeaseRunsOut, DelayElapses, StoreType
  <2>2. SameCounts(task[t], row)
    BY <1>1 DEF SameCounts, Row
  <2> QED  BY <1>1, <2>1, <2>2, OneRowUncounted
<1> QED  BY <1>2, <1>3, <1>4

-----------------------------------------------------------------------------
\* A recorded failure: one more in the row, none in the others, under a key the log
\* did not have.
LEMMA FailureRecorded ==
  ASSUME StoreType, NEW t \in Tasks, NEW role \in Roles, NEW kind, NEW key,
         RecordFailure(t, role, kind, key), key \notin keys
  PROVE  /\ task'[t].total = task[t].total + 1
         /\ task'[t].worker + task'[t].supervisor = task[t].worker + task[t].supervisor + 1
         /\ \A u \in Tasks \ {t} : task'[u] = task[u]
         /\ keys' = IF key = Fresh THEN keys ELSE keys \cup {key}
<1>1. /\ task' = [task EXCEPT ![t] = FailedRow(task[t], role, kind)]
      /\ keys' = IF key = Fresh THEN keys ELSE keys \cup {key}
  BY DEF RecordFailure, StoreType, LogOnce, Log
<1>2. task[t] \in Row /\ task'[t] = FailedRow(task[t], role, kind)
  BY <1>1 DEF StoreType
<1>3. \A u \in Tasks \ {t} : task'[u] = task[u]
  BY <1>1 DEF StoreType
<1> QED  BY <1>1, <1>2, <1>3, FailureCounts

\* A failed run is charged to its task, which no report is.
LEMMA RunFailureCharges ==
  ASSUME IInv, ChargeInv, NEW w \in Workers, NEW role \in Roles, NEW kind, NEW tag, NEW about,
         NEW key \in {Fresh, RunFailureKey(session[w].task, tag, about, session[w].version)},
         EndTick(w), RecordFailure(session[w].task, role, kind, key),
         CountFailedRun(session[w].task)
  PROVE  KeysStep /\ \A u \in Tasks : Charged(u)'
<1>1. PICK t \in Tasks : t = session[w].task
  BY WorkingCopy DEF EndTick
<1>2. StoreType /\ session[w].pc = "run" /\ session'[w].pc # "run"
  BY DEF IInv, TypeOK, StoreType, EndTick, Idle
<1>3. key \notin keys
  BY <1>2 DEF ChargeInv, RunUncharged
<1>4. /\ task'[t].total = task[t].total + 1
      /\ task'[t].worker + task'[t].supervisor = task[t].worker + task[t].supervisor + 1
      /\ \A u \in Tasks \ {t} : task'[u] = task[u]
      /\ keys' = IF key = Fresh THEN keys ELSE keys \cup {key}
  BY <1>1, <1>2, <1>3, FailureRecorded
<1>5. KeysStep
  BY <1>2, <1>4 DEF KeysStep, NewKey
<1>6. ASSUME NEW u \in Tasks
      PROVE  ReportsOf(u)' = ReportsOf(u)
  BY <1>4, KeysDiffer DEF ReportsOf
<1>7. failedRuns' = [failedRuns EXCEPT ![t] = @ + 1] /\ failedRuns \in [Tasks -> Nat]
  BY <1>1 DEF CountFailedRun, IInv, TypeOK
<1>8. ASSUME NEW u \in Tasks
      PROVE  Charged(u)'
  <2>1. Charged(u) /\ IsFiniteSet(ReportsOf(u)) /\ Cardinality(ReportsOf(u)) \in Nat
    BY FS_CardinalityType DEF ChargeInv, Charged
  <2>2. ReportsOf(u)' = ReportsOf(u)
    BY <1>6
  <2>3. CASE u = t
    <3>1. failedRuns'[u] = failedRuns[u] + 1 /\ failedRuns[u] \in Nat
      BY <1>7, <2>3
    <3>2. task'[u].total = task[u].total + 1 /\ task[u].total \in Nat
          /\ task'[u].worker + task'[u].supervisor = task[u].worker + task[u].supervisor + 1
      BY <1>2, <1>4, <2>3 DEF StoreType, Row
    <3>3. /\ task[u].total = failedRuns[u] + Cardinality(ReportsOf(u))
          /\ task[u].total = task[u].worker + task[u].supervisor
      BY <2>1 DEF Charged
    <3>4. /\ task'[u].total = failedRuns'[u] + Cardinality(ReportsOf(u))
          /\ task'[u].total = task'[u].worker + task'[u].supervisor
      BY <2>1, <3>1, <3>2, <3>3
    <3> QED  BY <2>1, <2>2, <3>4 DEF Charged
  <2>4. CASE u # t
    BY <1>4, <1>7, <2>1, <2>2, <2>4 DEF Charged
  <2> QED  BY <2>3, <2>4
<1> QED  BY <1>5, <1>8

\* A report is charged when its key is new, and a delivery of a known one changes nothing.
LEMMA ReportCharges ==
  ASSUME IInv, ChargeInv, NEW t \in Tasks, NEW role \in Roles, NEW kind \in FailureKinds,
         NEW report \in Reports, OperatorReport(t, role, kind, report)
  PROVE  KeysStep /\ \A u \in Tasks : Charged(u)'
<1> DEFINE key == <<t, "report", report>>
<1>1. StoreType /\ failedRuns' = failedRuns /\ RecordFailure(t, role, kind, key) /\ key # Fresh
  BY KeysDiffer DEF IInv, TypeOK, StoreType, OperatorReport
<1>2. CASE key \in keys
  <2>1. task' = task /\ keys' = keys
    BY <1>1, <1>2 DEF RecordFailure, storeVars
  <2> QED  BY <1>1, <2>1, UncountedStep DEF Uncounted, SameCounts
<1>3. CASE key \notin keys
  <2>1. /\ task'[t].total = task[t].total + 1
        /\ task'[t].worker + task'[t].supervisor = task[t].worker + task[t].supervisor + 1
        /\ \A u \in Tasks \ {t} : task'[u] = task[u]
        /\ keys' = keys \cup {key}
    BY <1>1, <1>3, FailureRecorded
  <2>2. KeysStep
    BY <2>1 DEF KeysStep, NewKey
  <2>3. ASSUME NEW u \in Tasks
        PROVE  Charged(u)'
    <3>1. Charged(u)
      BY DEF ChargeInv
    <3>2. CASE u = t
      <4>1. ReportsOf(u)' = ReportsOf(u) \cup {report} /\ report \notin ReportsOf(u)
        BY <1>3, <2>1, <3>2 DEF ReportsOf
      <4>2. IsFiniteSet(ReportsOf(u)) /\ Cardinality(ReportsOf(u)) \in Nat
        BY <3>1, FS_CardinalityType DEF Charged
      <4>3. IsFiniteSet(ReportsOf(u)') /\ Cardinality(ReportsOf(u)') = Cardinality(ReportsOf(u)) + 1
        BY <4>1, <4>2, FS_AddElement
      <4>4. /\ failedRuns[u] \in Nat /\ task[u].total \in Nat
            /\ task[u].total = failedRuns[u] + Cardinality(ReportsOf(u))
            /\ task[u].total = task[u].worker + task[u].supervisor
        BY <1>1, <3>1 DEF Charged, IInv, TypeOK, StoreType, Row
      <4>5. task'[u].total = failedRuns'[u] + Cardinality(ReportsOf(u)')
        BY <1>1, <2>1, <3>2, <4>2, <4>3, <4>4
      <4>6. task'[u].total = task'[u].worker + task'[u].supervisor
        BY <2>1, <3>2, <4>4
      <4> QED  BY <4>3, <4>5, <4>6 DEF Charged
    <3>3. CASE u # t
      <4>1. ReportsOf(u)' = ReportsOf(u)
        BY <2>1, <3>3 DEF ReportsOf
      <4> QED  BY <1>1, <2>1, <3>1, <3>3, <4>1 DEF Charged
    <3> QED  BY <3>2, <3>3
  <2> QED  BY <2>2, <2>3
<1> QED  BY <1>2, <1>3

\* A commit advances the task, leaves it, or charges it for the run.
LEMMA CommitCharges ==
  ASSUME IInv, ChargeInv, NEW w \in Workers, Commit(w)
  PROVE  KeysStep /\ \A u \in Tasks : Charged(u)'
<1>1. PICK asked \in States, kind \in FailureKinds :
        \/ Advance(w, asked) \/ Raise(w, asked) \/ GateRefuses(w, asked)
        \/ RunFails(w, kind)
  BY DEF Commit, FailureKinds, States, RUNNABLE_STATES
<1>2. PICK t, target : t = session[w].task /\ target = Requested(t, asked)
  OBVIOUS
<1>3. t \in Tasks /\ StoreType /\ task[t] \in Row
  BY <1>1, <1>2, WorkingCopy DEF Advance, Raise, GateRefuses, RunFails, EndTick, StoreType
<1>4. CASE Advance(w, asked)
  <2>1. PICK key \in {Fresh, <<t, "success", target>>} :
          TransitionWithKey(t, target, TRUE, session[w].version, key) /\ failedRuns' = failedRuns
    BY <1>2, <1>4, RunKeys DEF Advance
  <2>2. /\ task' = [task EXCEPT ![t] = TransitionedRow(task[t], target, TRUE)]
        /\ keys' = IF key = Fresh THEN keys ELSE keys \cup {key}
    BY <1>3, <2>1 DEF TransitionWithKey, LogOnce, Log, StoreType
  <2>3. SameCounts(task[t], TransitionedRow(task[t], target, TRUE))
    BY <1>3 DEF SameCounts, TransitionedRow, Bump, Unleased, Row
  <2>4. \A u \in Tasks : SameCounts(task[u], task'[u])
    BY <1>3, <2>2, <2>3 DEF StoreType, SameCounts
  <2>5. Uncounted
    BY <2>1, <2>2, <2>4 DEF Uncounted
  <2> QED  BY <2>5, UncountedStep
<1>5. CASE Raise(w, asked)
  BY <1>5, UncountedStep DEF Raise, storeVars, Uncounted, SameCounts
<1>6. CASE GateRefuses(w, asked)
  <2> DEFINE key == RunKey(w, <<"gate", target, session[w].version>>)
             role == RoleForState(session[w].state)
  <2>1. /\ EndTick(w) /\ CountFailedRun(session[w].task)
        /\ RecordFailure(session[w].task, role, "OTHER", key)
    BY <1>2, <1>6 DEF GateRefuses
  <2>2. key \in {Fresh, RunFailureKey(session[w].task, "gate", target, session[w].version)}
    BY RunKeys
  <2>3. role \in Roles
    BY RolesForStates
  <2> HIDE DEF key, role
  <2> QED  BY <2>1, <2>2, <2>3, RunFailureCharges
<1>7. CASE RunFails(w, kind)
  <2> DEFINE key == RunKey(w, <<"failure", kind, session[w].version>>)
             role == RoleForState(session[w].state)
  <2>1. /\ EndTick(w) /\ CountFailedRun(session[w].task)
        /\ RecordFailure(session[w].task, role, kind, key)
    BY <1>7 DEF RunFails
  <2>2. key \in {Fresh, RunFailureKey(session[w].task, "failure", kind, session[w].version)}
    BY RunKeys
  <2>3. role \in Roles
    BY RolesForStates
  <2> HIDE DEF key, role
  <2> QED  BY <2>1, <2>2, <2>3, RunFailureCharges
<1> QED  BY <1>1, <1>4, <1>5, <1>6, <1>7

-----------------------------------------------------------------------------
LEMMA ChargeInit == Init => ChargeInv
<1> SUFFICES ASSUME Init PROVE ChargeInv
  OBVIOUS
<1>1. ASSUME NEW t \in Tasks
      PROVE  Charged(t)
  <2>1. ReportsOf(t) = {}
    BY DEF Init, StoreInit, ReportsOf
  <2> QED  BY <2>1, FS_EmptySet DEF Init, StoreInit, NewRow, Charged
<1> QED  BY <1>1 DEF Init, StoreInit, Idle, ChargeInv, KeysBehind, RunUncharged

LEMMA QuietCharges ==
  ASSUME IInv, ChargeInv, Quiet, KeysStep, \A t \in Tasks : Charged(t)'
  PROVE  ChargeInv'
BY KeysBehindStep, RunsUnchargedStep DEF Quiet, ChargeInv

LEMMA ChargeNext == IInv /\ ChargeInv /\ [Next]_vars => ChargeInv'
<1> SUFFICES ASSUME IInv, ChargeInv, [Next]_vars PROVE ChargeInv'
  OBVIOUS
<1>1. CASE UNCHANGED vars
  BY <1>1 DEF vars, ChargeInv, KeysBehind, RunUncharged, Charged, ReportsOf
<1>2. CASE Next
  <2>1. ASSUME NEW w \in Workers, Commit(w)
        PROVE  ChargeInv'
    BY <2>1, CommitStep, CommitCharges, QuietCharges
  <2>2. ASSUME NEW w \in Workers, StartTick(w) \/ FindNothing(w) \/ Crash(w) \/ Heartbeat(w)
        PROVE  ChargeInv'
    BY <2>2, ProcessStep, ProcessUncounted, UncountedStep, QuietCharges
  <2>3. ASSUME NEW w \in Workers, ClaimTask(w)
        PROVE  ChargeInv'
    <3>1. Uncounted /\ KeysBehind' /\ \A v \in Workers : RunUncharged(v)'
      BY <2>3, ClaimUncounted
    <3>2. Fresh \notin keys'
      BY <3>1, KeysDiffer DEF Uncounted, ChargeInv
    <3> QED  BY <3>1, <3>2, UncountedStep DEF ChargeInv
  <2>4. ASSUME NEW t \in Tasks,
               \/ Submit(t)
               \/ \E target \in OperatorChoices, release \in BOOLEAN :
                    OperatorTransition(t, target, release)
               \/ LeaseExpires(t) \/ LeaseOutlived(t) \/ Elapse(t)
        PROVE  ChargeInv'
    BY <2>4, OutsideStep, OutsideUncounted, UncountedStep, QuietCharges
  <2>5. ASSUME NEW t \in Tasks, NEW role \in Roles, NEW kind \in FailureKinds,
               NEW report \in Reports, OperatorReport(t, role, kind, report)
        PROVE  ChargeInv'
    BY <2>5, OutsideStep, ReportCharges, QuietCharges
  <2> QED
    BY <1>2, <2>1, <2>2, <2>3, <2>4, <2>5 DEF Next, Step
<1> QED
  BY <1>1, <1>2

\* A run charges its task once however it ends, and a report once however often it is
\* delivered, with or without run identifiers: see FailureCountedOnce.
THEOREM FailuresCountedOnce == Spec => []FailureCountedOnce
<1>1. ChargeInv => FailureCountedOnce
  BY DEF ChargeInv, Charged, FailureCountedOnce
<1> QED
  BY <1>1, InitInv, NextInv, ChargeInit, ChargeNext, PTL DEF Spec
=============================================================================
