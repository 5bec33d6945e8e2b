--------------------------- MODULE SchedulerProofs ---------------------------
(***************************************************************************)
(* Proofs about the scheduler processes, for any sets of tasks and         *)
(* workers, any priorities and any number of faults: type correctness, and *)
(* that a lease protects the row it was taken on (ClaimPinned,             *)
(* OneCommitter, AdvanceIsCurrent).                                        *)
(*                                                                         *)
(* ClaimPinned is not inductive as it stands: a process whose copy is      *)
(* ahead of the row would become current when the row catches up.  CopyOK  *)
(* adds that no copy is ahead of its row, and RowStep says how a single    *)
(* transaction may change a row: it raises the version, or it leaves       *)
(* version, owner and state alone.                                         *)
(***************************************************************************)
EXTENDS ContinuousScheduler, TLAPS

\* What one step does to one row.
RowStep(old, new) ==
  /\ new.state = "ABSENT" => old.state = "ABSENT"
  /\ \/ new.version > old.version
     \/ /\ new.version = old.version
        /\ new.owner = old.owner
        /\ new.state = old.state \/ old.state = "ABSENT"

RowsStep == \A t \in Tasks : RowStep(task[t], task'[t])

\* A copy belongs to a submitted task, is never ahead of the row, and is exact when it
\* is level with it.
CopyOK(w) ==
  LET s == session[w]
  IN  s.pc = "run" =>
        /\ s.task \in Tasks
        /\ task[s.task].state # "ABSENT"
        /\ s.version <= task[s.task].version
        /\ s.version = task[s.task].version
             => task[s.task].owner = w /\ task[s.task].state = s.state

IInv == TypeOK /\ \A w \in Workers : CopyOK(w)

-----------------------------------------------------------------------------
\* The routing of a failure and the promotion of a delayed task name known states.
LEMMA DecisionStates ==
  ASSUME NEW kind, NEW role, NEW a, NEW b, NEW c
  PROVE  DecideFailure(kind, role, a, b, c).state \in States
<1>1. WorkerLadder(a).state \in States
  BY DEF WorkerLadder, Decision, States, RUNNABLE_STATES, DELAYED_STATES
<1>2. ReviewLadder(b).state \in States
  BY DEF ReviewLadder, Decision, States, RUNNABLE_STATES, DELAYED_STATES
<1> QED
  BY <1>1, <1>2 DEF DecideFailure, Decision, States, DELAYED_STATES

LEMMA PromotionStates ==
  ASSUME NEW s
  PROVE  PromotionTarget(s) \in States \ {"ABSENT"}
BY DEF PromotionTarget, States, RUNNABLE_STATES

LEMMA NoAbsentState == "ABSENT" \notin States
BY DEF States, RUNNABLE_STATES, DELAYED_STATES, TERMINAL_STATES

\* The two building blocks of a row's update.
LEMMA BumpOK ==
  ASSUME NEW r \in Row
  PROVE  /\ Bump(r) \in Row
         /\ Bump(r).version = r.version + 1
         /\ Bump(r).state = r.state
BY DEF Bump, Row

LEMMA UnleasedOK ==
  ASSUME NEW r \in Row
  PROVE  /\ Unleased(r) \in Row
         /\ Unleased(r).version = r.version
         /\ Unleased(r).state = r.state
BY DEF Unleased, Row, Leases

\* A write that follows Bump: well typed, at a higher version, never back to "ABSENT".
LEMMA WriteOK ==
  ASSUME NEW old \in Row, NEW r \in Row, r.version > old.version,
         NEW state \in States, NEW due \in Delays
  PROVE  /\ [r EXCEPT !.state = state, !.due = due] \in Row
         /\ RowStep(old, [r EXCEPT !.state = state, !.due = due])
BY NoAbsentState DEF Row, RowStep

\* Each transaction writes a well-typed row and raises its version.
LEMMA RecoveredRowOK ==
  ASSUME NEW r \in Row
  PROVE  RecoveredRow(r) \in Row /\ RowStep(r, RecoveredRow(r))
<1>1. "WAITING_RETRY" \in States /\ "later" \in Delays
  BY DEF States, DELAYED_STATES, Delays
<1>2. Bump(Unleased(r)) \in Row /\ Bump(Unleased(r)).version = r.version + 1
  BY BumpOK, UnleasedOK
<1>3. Bump(Unleased(r)).version > r.version
  BY <1>2 DEF Row
<1> QED
  BY <1>1, <1>2, <1>3, WriteOK DEF RecoveredRow

LEMMA PromotedRowOK ==
  ASSUME NEW r \in Row
  PROVE  PromotedRow(r) \in Row /\ RowStep(r, PromotedRow(r))
<1>1. Bump(r).version > r.version
  BY BumpOK DEF Row
<1> QED
  BY <1>1, BumpOK, PromotionStates, WriteOK DEF PromotedRow, Delays

LEMMA ClaimedRowOK ==
  ASSUME NEW r \in Row, NEW w \in Workers
  PROVE  /\ ClaimedRow(r, w) \in Row
         /\ ClaimedRow(r, w).state = r.state
         /\ ClaimedRow(r, w).owner = w
         /\ ClaimedRow(r, w).version = r.version + 1
<1>1. Bump(r) \in Row
  BY BumpOK
<1>2. /\ [Bump(r) EXCEPT !.owner = w, !.lease = "live"] \in Row
      /\ [Bump(r) EXCEPT !.owner = w, !.lease = "live"].state = Bump(r).state
      /\ [Bump(r) EXCEPT !.owner = w, !.lease = "live"].owner = w
      /\ [Bump(r) EXCEPT !.owner = w, !.lease = "live"].version = Bump(r).version
  BY <1>1 DEF Row, Leases
<1> QED
  BY <1>2, BumpOK DEF ClaimedRow

LEMMA TransitionedRowOK ==
  ASSUME NEW r \in Row, NEW target \in States, NEW release \in BOOLEAN
  PROVE  /\ TransitionedRow(r, target, release) \in Row
         /\ RowStep(r, TransitionedRow(r, target, release))
<1> DEFINE base == IF release THEN Unleased(r) ELSE r
<1>1. base \in Row /\ base.version = r.version
  BY UnleasedOK
<1>2. Bump(base) \in Row /\ Bump(base).version > r.version
  BY <1>1, BumpOK DEF Row
<1>3. TransitionedRow(r, target, release) =
        [Bump(base) EXCEPT !.state = target, !.due = "none"]
  BY DEF TransitionedRow
<1>4. "none" \in Delays
  BY DEF Delays
<1>5. /\ [Bump(base) EXCEPT !.state = target, !.due = "none"] \in Row
      /\ RowStep(r, [Bump(base) EXCEPT !.state = target, !.due = "none"])
  <2> HIDE DEF base
  <2> QED
    BY <1>2, <1>4, WriteOK
<1> QED
  BY <1>3, <1>5

LEMMA FailedRowOK ==
  ASSUME NEW r \in Row, NEW role, NEW kind
  PROVE  FailedRow(r, role, kind) \in Row /\ RowStep(r, FailedRow(r, role, kind))
<1> DEFINE total == r.total + 1
           worker == r.worker + (IF role = "worker" THEN 1 ELSE 0)
           supervisor == r.supervisor + (IF role \in {"supervisor", "closure"} THEN 1 ELSE 0)
           decision == DecideFailure(kind, role, worker, supervisor, total)
           due == IF decision.retryAfter > 0 THEN "later" ELSE "none"
           base == Bump(Unleased(r))
<1>1. decision.state \in States
  BY DecisionStates
<1>2. worker \in Nat /\ supervisor \in Nat /\ total \in Nat
  BY DEF Row
<1>3. base \in Row /\ base.version > r.version
  BY BumpOK, UnleasedOK DEF Row
<1>4. FailedRow(r, role, kind) =
        [base EXCEPT !.state = decision.state, !.due = due,
                     !.total = total, !.worker = worker, !.supervisor = supervisor]
  BY DEF FailedRow
<1>5. due \in Delays
  BY DEF Delays
<1> HIDE DEF total, worker, supervisor, decision, due, base
<1> QED
  BY <1>1, <1>2, <1>3, <1>4, <1>5, NoAbsentState DEF Row, RowStep

-----------------------------------------------------------------------------
\* The two typed variables of the store, and what each transaction does to them.
StoreType ==
  /\ task \in [Tasks -> Row]
  /\ logged \in [Tasks -> States \cup {"ABSENT"}]

LEMMA LogType ==
  ASSUME NEW t \in Tasks, NEW state \in States, NEW key,
         logged \in [Tasks -> States \cup {"ABSENT"}],
         Log(t, state) \/ LogOnce(t, state, key)
  PROVE  logged' \in [Tasks -> States \cup {"ABSENT"}]
BY DEF Log, LogOnce

LEMMA SubmitStep ==
  ASSUME StoreType, NEW t \in Tasks, SubmitTask(t)
  PROVE  StoreType' /\ RowsStep
<1>1. "READY" \in States \ {"ABSENT"}
  BY DEF States, RUNNABLE_STATES
<1>2. task'[t] \in Row /\ RowStep(task[t], task'[t])
  BY <1>1 DEF StoreType, SubmitTask, Row, RowStep
<1>3. task' \in [Tasks -> Row] /\ \A u \in Tasks \ {t} : task'[u] = task[u]
  BY <1>2 DEF StoreType, SubmitTask
<1>4. \A u \in Tasks \ {t} : RowStep(task[u], task'[u])
  BY <1>3 DEF StoreType, RowStep, Row
<1> QED
  BY <1>1, <1>2, <1>3, <1>4, LogType DEF StoreType, SubmitTask, RowsStep

LEMMA RecoverStep ==
  ASSUME StoreType, RecoverExpiredLeases
  PROVE  StoreType' /\ RowsStep
<1>1. "WAITING_RETRY" \in States
  BY DEF States, DELAYED_STATES
<1>2. \A t \in Tasks : task'[t] \in Row /\ RowStep(task[t], task'[t])
  BY RecoveredRowOK DEF StoreType, RecoverExpiredLeases, RowStep, Row
<1> QED
  BY <1>1, <1>2 DEF StoreType, RecoverExpiredLeases, RowsStep

LEMMA PromotedOK ==
  ASSUME StoreType
  PROVE  /\ Promoted \in [Tasks -> Row]
         /\ \A t \in Tasks : RowStep(task[t], Promoted[t])
<1>1. ASSUME NEW t \in Tasks
      PROVE  Promoted[t] \in Row /\ RowStep(task[t], Promoted[t])
  <2>1. CASE t \in Due
    BY <2>1, PromotedRowOK DEF StoreType, Promoted
  <2>2. CASE t \notin Due
    BY <2>2 DEF StoreType, Promoted, RowStep, Row
  <2> QED
    BY <2>1, <2>2
<1> QED
  BY <1>1 DEF Promoted

LEMMA PromotionLogType ==
  ASSUME StoreType, LogPromotions
  PROVE  logged' \in [Tasks -> States \cup {"ABSENT"}]
BY PromotedOK DEF StoreType, LogPromotions, Row

\* The claimed row goes to the claimer at a version no copy has seen.
LEMMA ClaimStep ==
  ASSUME StoreType, NEW w \in Workers, NEW t \in Tasks, ClaimNext(w, t)
  PROVE  /\ StoreType' /\ RowsStep
         /\ task'[t].owner = w
         /\ task'[t].state \in States
<1>1. Promoted[t].state \in States \ {"ABSENT"}
  BY NoAbsentState DEF ClaimNext, First, Claimable, States
<1>2. task'[t] = ClaimedRow(Promoted[t], w)
  BY PromotedOK DEF ClaimNext
<1>3. /\ task'[t] \in Row
      /\ task'[t].state = Promoted[t].state
      /\ task'[t].owner = w
      /\ task'[t].version = Promoted[t].version + 1
  BY <1>2, PromotedOK, ClaimedRowOK
<1>4. RowStep(task[t], task'[t])
  BY <1>1, <1>3, PromotedOK DEF RowStep, Row, StoreType
<1>5. /\ task' \in [Tasks -> Row]
      /\ \A u \in Tasks \ {t} : task'[u] = Promoted[u]
  BY <1>3, PromotedOK DEF ClaimNext
<1> QED
  BY <1>1, <1>3, <1>4, <1>5, PromotedOK, PromotionLogType
  DEF StoreType, RowsStep, ClaimNext

LEMMA ClaimNothingStep ==
  ASSUME StoreType, ClaimNothing
  PROVE  StoreType' /\ RowsStep
BY PromotedOK, PromotionLogType DEF ClaimNothing, StoreType, RowsStep

\* Writing one row that steps as RowStep allows.
LEMMA OneRowStep ==
  ASSUME StoreType, NEW t \in Tasks, NEW row \in Row, RowStep(task[t], row),
         task' = [task EXCEPT ![t] = row]
  PROVE  task' \in [Tasks -> Row] /\ RowsStep
BY DEF StoreType, RowsStep, RowStep, Row

LEMMA TransitionStep ==
  ASSUME StoreType, NEW t \in Tasks, NEW target \in States, NEW release \in BOOLEAN,
         NEW expected, NEW key,
         \/ Transition(t, target, release)
         \/ TransitionWithKey(t, target, release, expected, key)
  PROVE  StoreType' /\ RowsStep
<1>1. task' = [task EXCEPT ![t] = TransitionedRow(task[t], target, release)]
  BY DEF Transition, TransitionWithKey, StoreType
<1>2. task[t] \in Row
  BY DEF StoreType
<1>3. task' \in [Tasks -> Row] /\ RowsStep
  BY <1>1, <1>2, TransitionedRowOK, OneRowStep
<1> QED
  BY <1>3, LogType DEF StoreType, Transition, TransitionWithKey

LEMMA FailureStep ==
  ASSUME StoreType, NEW t \in Tasks, NEW role, NEW kind, NEW key,
         RecordFailure(t, role, kind, key)
  PROVE  StoreType' /\ RowsStep
<1>1. CASE UNCHANGED storeVars
  BY <1>1 DEF storeVars, StoreType, RowsStep, RowStep, Row
<1>2. CASE ~ UNCHANGED storeVars
  <2>1. /\ task' = [task EXCEPT ![t] = FailedRow(task[t], role, kind)]
        /\ LogOnce(t, task'[t].state, key)
    BY <1>2 DEF RecordFailure, StoreType
  <2>2. task[t] \in Row
    BY DEF StoreType
  <2>3. FailedRow(task[t], role, kind) \in Row
        /\ RowStep(task[t], FailedRow(task[t], role, kind))
    BY <2>2, FailedRowOK
  <2>4. task' \in [Tasks -> Row] /\ RowsStep
    BY <2>1, <2>3, OneRowStep
  <2>5. logged' \in [Tasks -> States \cup {"ABSENT"}]
    BY <2>1, <2>4 DEF LogOnce, Log, StoreType, Row
  <2> QED
    BY <2>4, <2>5 DEF StoreType
<1> QED
  BY <1>1, <1>2

\* A heartbeat extends the lease at a new version.
LEMMA HeartbeatStep ==
  ASSUME StoreType, NEW w \in Workers, NEW t \in Tasks, RenewLease(w, t)
  PROVE  StoreType' /\ RowsStep
<1> DEFINE row == [Bump(task[t]) EXCEPT !.lease = "live"]
<1>1. /\ Bump(task[t]) \in Row
      /\ Bump(task[t]).version > task[t].version
      /\ Bump(task[t]).state = task[t].state
  BY BumpOK DEF StoreType, Row
<1>2. row \in Row /\ RowStep(task[t], row)
  BY <1>1 DEF Row, Leases, RowStep
<1>3. task' = [task EXCEPT ![t] = row]
  BY DEF RenewLease, StoreType
<1>4. task' \in [Tasks -> Row] /\ RowsStep
  BY <1>2, <1>3, OneRowStep
<1> QED
  BY <1>4 DEF RenewLease, StoreType

\* The clock leaves version, owner and state alone.
LEMMA ClockStep ==
  ASSUME StoreType, NEW t \in Tasks, LeaseRunsOut(t) \/ DelayElapses(t)
  PROVE  StoreType' /\ RowsStep
<1>1. /\ [task[t] EXCEPT !.lease = "expired"] \in Row
      /\ RowStep(task[t], [task[t] EXCEPT !.lease = "expired"])
  BY DEF StoreType, Row, Leases, RowStep
<1>2. /\ [task[t] EXCEPT !.due = "now"] \in Row
      /\ RowStep(task[t], [task[t] EXCEPT !.due = "now"])
  BY DEF StoreType, Row, Delays, RowStep
<1>3. \/ task' = [task EXCEPT ![t] = [task[t] EXCEPT !.lease = "expired"]]
      \/ task' = [task EXCEPT ![t] = [task[t] EXCEPT !.due = "now"]]
  BY DEF LeaseRunsOut, DelayElapses, StoreType
<1>4. task' \in [Tasks -> Row] /\ RowsStep
  BY <1>1, <1>2, <1>3, OneRowStep
<1> QED
  BY <1>4 DEF LeaseRunsOut, DelayElapses, StoreType


-----------------------------------------------------------------------------
\* The copies of the processes that a step leaves alone, or takes out of "run".
CopiesKept ==
  \A w \in Workers : session'[w] = session[w] \/ session'[w].pc # "run"

LEMMA KeptCopiesOK ==
  ASSUME IInv, RowsStep, CopiesKept, StoreType'
  PROVE  \A w \in Workers : CopyOK(w)'
<1> SUFFICES ASSUME NEW w \in Workers, session'[w].pc = "run"
             PROVE  CopyOK(w)'
  BY DEF CopyOK
<1>1. session'[w] = session[w]
  BY DEF CopiesKept
<1>2. session[w] \in Session /\ CopyOK(w)
  BY DEF IInv, TypeOK
<1> DEFINE t == session[w].task
<1>3. /\ t \in Tasks
      /\ task[t].state # "ABSENT"
      /\ session[w].version <= task[t].version
      /\ session[w].version = task[t].version
           => task[t].owner = w /\ task[t].state = session[w].state
  BY <1>1, <1>2 DEF CopyOK
<1>4. task[t] \in Row /\ task'[t] \in Row /\ RowStep(task[t], task'[t])
  BY <1>3 DEF IInv, TypeOK, StoreType, RowsStep
<1>5. session[w].version \in Nat /\ task[t].version \in Nat /\ task'[t].version \in Nat
  BY <1>2, <1>4 DEF Session, Row
<1> QED
  BY <1>1, <1>3, <1>4, <1>5 DEF CopyOK, RowStep

\* The bookkeeping of a step that leaves the copies alone.
LEMMA SessionType ==
  ASSUME IInv, NEW w \in Workers,
         \/ session' = session
         \/ session' = [session EXCEPT ![w] = Idle]
         \/ session[w].pc = "idle" /\ session' = [session EXCEPT ![w].pc = "claim"]
  PROVE  session' \in [Workers -> Session] /\ CopiesKept
<1>1. session \in [Workers -> Session]
  BY DEF IInv, TypeOK
<1>2. Idle \in Session /\ Idle.pc # "run"
  BY DEF Idle, Session
<1>3. [session[w] EXCEPT !.pc = "claim"] \in Session
      /\ [session[w] EXCEPT !.pc = "claim"].pc # "run"
  BY <1>1 DEF Session
<1> QED
  BY <1>1, <1>2, <1>3 DEF CopiesKept

LEMMA CountersType ==
  ASSUME IInv, NEW t \in Tasks,
         Fault \/ faults' = faults,
         CountFailedRun(t) \/ failedRuns' = failedRuns
  PROVE  faults' \in 0..MaxFaults /\ failedRuns' \in [Tasks -> Nat]
BY MaxFaultsAssumption DEF IInv, TypeOK, Fault, CountFailedRun

\* What every step other than a claim does.
Quiet ==
  /\ StoreType' /\ RowsStep
  /\ session' \in [Workers -> Session] /\ CopiesKept
  /\ faults' \in 0..MaxFaults /\ failedRuns' \in [Tasks -> Nat]

LEMMA QuietStep ==
  ASSUME IInv, Quiet, reviewed' \subseteq Tasks
  PROVE  IInv'
BY KeptCopiesOK DEF Quiet, StoreType, IInv, TypeOK

LEMMA Unchanged ==
  ASSUME IInv, task' = task, logged' = logged
  PROVE  StoreType' /\ RowsStep
BY DEF IInv, TypeOK, StoreType, RowsStep, RowStep, Row

LEMMA WorkingCopy ==
  ASSUME IInv, NEW w \in Workers, session[w].pc = "run"
  PROVE  session[w].task \in Tasks /\ StoreType
BY DEF IInv, TypeOK, StoreType, CopyOK

\* The third transaction of a tick.
LEMMA CommitStep ==
  ASSUME IInv, NEW w \in Workers, Commit(w)
  PROVE  Quiet
<1>1. PICK asked \in States, kind \in FailureKinds :
        \/ Advance(w, asked) \/ Raise(w, asked) \/ GateRefuses(w, asked)
        \/ RunFails(w, kind)
  BY DEF Commit, FailureKinds, States, RUNNABLE_STATES
<1> DEFINE t == session[w].task
<1>2. EndTick(w)
  BY <1>1 DEF Advance, Raise, GateRefuses, RunFails
<1>3. t \in Tasks /\ StoreType
  BY <1>2, WorkingCopy DEF EndTick
<1>4. session' \in [Workers -> Session] /\ CopiesKept
  BY <1>2, SessionType DEF EndTick
<1>5. faults' \in 0..MaxFaults /\ failedRuns' \in [Tasks -> Nat]
  BY <1>1, <1>3, CountersType DEF Advance, Raise, GateRefuses, RunFails, Asks
<1>6. Requested(t, asked) \in States
  BY DEF Requested, States, TERMINAL_STATES
<1>7. StoreType' /\ RowsStep
  <2>1. CASE Advance(w, asked)
    <3>1. TransitionWithKey(t, Requested(t, asked), TRUE, session[w].version,
                            RunKey(w, <<"success", Requested(t, asked)>>))
      BY <2>1 DEF Advance
    <3> HIDE DEF t
    <3> QED
      BY <1>3, <1>6, <3>1, TransitionStep
  <2>2. CASE Raise(w, asked)
    BY <2>2, Unchanged DEF Raise, storeVars
  <2>3. CASE GateRefuses(w, asked)
    BY <1>3, <2>3, FailureStep DEF GateRefuses
  <2>4. CASE RunFails(w, kind)
    BY <1>3, <2>4, FailureStep DEF RunFails
  <2> QED
    BY <1>1, <2>1, <2>2, <2>3, <2>4
<1> QED
  BY <1>4, <1>5, <1>7 DEF Quiet

\* The other steps of a process, but for the claim.
LEMMA ProcessStep ==
  ASSUME IInv, NEW w \in Workers,
         \/ StartTick(w) \/ FindNothing(w) \/ Crash(w) \/ Heartbeat(w)
  PROVE  Quiet
<1>1. StoreType
  BY DEF IInv, TypeOK, StoreType
<1>2. session' \in [Workers -> Session] /\ CopiesKept
  BY SessionType DEF StartTick, FindNothing, Crash, Heartbeat
<1>3. faults' \in 0..MaxFaults /\ failedRuns' \in [Tasks -> Nat]
  BY MaxFaultsAssumption
  DEF StartTick, FindNothing, Crash, Heartbeat, IInv, TypeOK, Fault
<1>4. StoreType' /\ RowsStep
  <2>1. CASE StartTick(w)
    BY <1>1, <2>1, RecoverStep DEF StartTick
  <2>2. CASE FindNothing(w)
    BY <1>1, <2>2, ClaimNothingStep DEF FindNothing
  <2>3. CASE Crash(w)
    BY <2>3, Unchanged DEF Crash
  <2>4. CASE Heartbeat(w)
    BY <1>1, <2>4, HeartbeatStep, WorkingCopy DEF Heartbeat
  <2> QED
    BY <2>1, <2>2, <2>3, <2>4
<1> QED
  BY <1>2, <1>3, <1>4 DEF Quiet

\* Calls from outside the tick, and the clock.
LEMMA OutsideStep ==
  ASSUME IInv, NEW t \in Tasks,
         \/ Submit(t)
         \/ \E target \in OperatorChoices, release \in BOOLEAN :
              OperatorTransition(t, target, release)
         \/ \E role \in Roles, kind \in FailureKinds, report \in Reports :
              OperatorReport(t, role, kind, report)
         \/ LeaseExpires(t) \/ LeaseOutlived(t) \/ Elapse(t)
  PROVE  Quiet
<1>1. StoreType
  BY DEF IInv, TypeOK, StoreType
<1>2. session' = session
  BY DEF Submit, OperatorTransition, OperatorReport, LeaseExpires, LeaseOutlived, Elapse
<1>3. session' \in [Workers -> Session] /\ CopiesKept
  BY <1>2 DEF IInv, TypeOK, CopiesKept
<1>4. faults' \in 0..MaxFaults /\ failedRuns' \in [Tasks -> Nat]
  <2>1. (Fault \/ faults' = faults) /\ failedRuns' = failedRuns
    BY DEF Submit, OperatorTransition, OperatorReport, LeaseExpires, LeaseOutlived, Elapse
  <2> QED
    BY <2>1, CountersType
<1>5. StoreType' /\ RowsStep
  <2>1. CASE Submit(t)
    BY <1>1, <2>1, SubmitStep DEF Submit
  <2>2. ASSUME NEW target \in OperatorChoices, NEW release \in BOOLEAN,
               OperatorTransition(t, target, release)
        PROVE  StoreType' /\ RowsStep
    BY <1>1, <2>2, ChoicesAssumption, TransitionStep DEF OperatorTransition
  <2>3. ASSUME NEW role \in Roles, NEW kind \in FailureKinds, NEW report \in Reports,
               OperatorReport(t, role, kind, report)
        PROVE  StoreType' /\ RowsStep
    BY <1>1, <2>3, FailureStep DEF OperatorReport
  <2>4. CASE LeaseExpires(t) \/ LeaseOutlived(t) \/ Elapse(t)
    <3>1. LeaseRunsOut(t) \/ DelayElapses(t)
      BY <2>4 DEF LeaseExpires, LeaseOutlived, Elapse
    <3>2. CASE LeaseRunsOut(t)
      BY <1>1, <3>2, ClockStep
    <3>3. CASE DelayElapses(t)
      BY <1>1, <3>3, ClockStep
    <3> QED
      BY <3>1, <3>2, <3>3
  <2> QED
    BY <2>1, <2>2, <2>3, <2>4
<1> QED
  BY <1>3, <1>4, <1>5 DEF Quiet

\* A claim: the claimer's new copy is exact, the others are as in a quiet step.
LEMMA ClaimCopyStep ==
  ASSUME IInv, NEW w \in Workers, ClaimTask(w), reviewed' \subseteq Tasks
  PROVE  IInv'
<1>1. PICK t \in Tasks :
        /\ ClaimNext(w, t)
        /\ session' = [session EXCEPT ![w] =
             [pc |-> "run", task |-> t, state |-> task'[t].state, version |-> task'[t].version]]
  BY DEF ClaimTask
<1>2. StoreType /\ session \in [Workers -> Session]
  BY DEF IInv, TypeOK, StoreType
<1>3. StoreType' /\ RowsStep /\ task'[t].owner = w /\ task'[t].state \in States
  BY <1>1, <1>2, ClaimStep
<1>4. task'[t] \in Row
  BY <1>3 DEF StoreType
<1> DEFINE copy == [pc |-> "run", task |-> t, state |-> task'[t].state, version |-> task'[t].version]
<1>5. copy \in Session
  BY <1>4 DEF Session, Row
<1>6. session' \in [Workers -> Session] /\ session'[w] = copy
      /\ \A v \in Workers \ {w} : session'[v] = session[v]
  BY <1>1, <1>2, <1>5
<1>7. CopyOK(w)'
  BY <1>3, <1>4, <1>6, NoAbsentState DEF CopyOK, Row
<1>8. ASSUME NEW v \in Workers \ {w}
      PROVE  CopyOK(v)'
  <2> SUFFICES ASSUME session'[v].pc = "run"
               PROVE  CopyOK(v)'
    BY DEF CopyOK
  <2> DEFINE u == session[v].task
  <2>1. session'[v] = session[v] /\ session[v] \in Session /\ CopyOK(v)
    BY <1>2, <1>6 DEF IInv
  <2>2. u \in Tasks /\ task[u].state # "ABSENT" /\ session[v].version <= task[u].version
        /\ (session[v].version = task[u].version
              => task[u].owner = v /\ task[u].state = session[v].state)
    BY <2>1 DEF CopyOK
  <2>3. task[u] \in Row /\ task'[u] \in Row /\ RowStep(task[u], task'[u])
    BY <1>2, <1>3, <2>2 DEF StoreType, RowsStep
  <2>4. session[v].version \in Nat /\ task[u].version \in Nat /\ task'[u].version \in Nat
    BY <2>1, <2>3 DEF Session, Row
  <2> QED
    BY <2>1, <2>2, <2>3, <2>4 DEF CopyOK, RowStep
<1>9. \A v \in Workers : CopyOK(v)'
  BY <1>7, <1>8
<1>10. faults' \in 0..MaxFaults /\ failedRuns' \in [Tasks -> Nat]
  BY DEF ClaimTask, IInv, TypeOK
<1> QED
  BY <1>3, <1>6, <1>9, <1>10 DEF IInv, TypeOK, StoreType

-----------------------------------------------------------------------------
LEMMA InitInv == Init => IInv
<1> SUFFICES ASSUME Init PROVE IInv
  OBVIOUS
<1>1. NewRow \in Row
  BY DEF NewRow, Row, Leases, Delays
<1>2. Idle \in Session /\ Idle.pc # "run"
  BY DEF Idle, Session
<1> QED
  BY <1>1, <1>2, MaxFaultsAssumption DEF Init, StoreInit, IInv, TypeOK, CopyOK

LEMMA NextInv == IInv /\ [Next]_vars => IInv'
<1> SUFFICES ASSUME IInv, [Next]_vars PROVE IInv'
  OBVIOUS
<1>1. CASE UNCHANGED vars
  BY <1>1 DEF vars, IInv, TypeOK, CopyOK
<1>2. CASE Next
  <2>1. reviewed' \subseteq Tasks
    BY <1>2 DEF Next, Observe
  <2>2. ASSUME NEW w \in Workers, Commit(w)
        PROVE  IInv'
    BY <2>1, <2>2, CommitStep, QuietStep
  <2>3. ASSUME NEW w \in Workers, StartTick(w) \/ FindNothing(w) \/ Crash(w) \/ Heartbeat(w)
        PROVE  IInv'
    BY <2>1, <2>3, ProcessStep, QuietStep
  <2>4. ASSUME NEW w \in Workers, ClaimTask(w)
        PROVE  IInv'
    BY <2>1, <2>4, ClaimCopyStep
  <2>5. ASSUME NEW t \in Tasks,
               \/ Submit(t)
               \/ \E target \in OperatorChoices, release \in BOOLEAN :
                    OperatorTransition(t, target, release)
               \/ \E role \in Roles, kind \in FailureKinds, report \in Reports :
                    OperatorReport(t, role, kind, report)
               \/ LeaseExpires(t) \/ LeaseOutlived(t) \/ Elapse(t)
        PROVE  IInv'
    BY <2>1, <2>5, OutsideStep, QuietStep
  <2> QED
    BY <1>2, <2>2, <2>3, <2>4, <2>5 DEF Next, Step
<1> QED
  BY <1>1, <1>2

\* Every variable keeps its type: in particular no transaction, routing or promotion
\* puts a row in a state that the transition table does not know.
THEOREM TypeCorrect == Spec => []TypeOK
<1>1. IInv => TypeOK
  BY DEF IInv
<1> QED
  BY <1>1, InitInv, NextInv, PTL DEF Spec

\* expected_version pins a process's copy to its lease: see ClaimPinned.
THEOREM CopiesPinned == Spec => []ClaimPinned
<1>1. IInv => ClaimPinned
  BY DEF IInv, CopyOK, ClaimPinned, Pinned
<1> QED
  BY <1>1, InitInv, NextInv, PTL DEF Spec

\* At most one process can still commit a run of a task: see OneCommitter.
THEOREM SingleCommitter == Spec => []OneCommitter
<1>1. IInv => OneCommitter
  BY DEF IInv, CopyOK, OneCommitter
<1> QED
  BY <1>1, InitInv, NextInv, PTL DEF Spec

\* A committed success overwrites nothing that happened since the claim: see
\* AdvanceIsCurrent.
THEOREM CommitsCurrent == Spec => AdvanceIsCurrent
<1>1. IInv /\ [Next]_vars =>
        [\A w \in Workers, asked \in States :
           Advance(w, asked) => /\ task[session[w].task].owner = w
                                /\ task[session[w].task].state = session[w].state]_vars
  <2> SUFFICES ASSUME IInv, NEW w \in Workers, NEW asked \in States, Advance(w, asked)
               PROVE  /\ task[session[w].task].owner = w
                      /\ task[session[w].task].state = session[w].state
    OBVIOUS
  <2>1. session[w].pc = "run" /\ task[session[w].task].version = session[w].version
    BY DEF Advance, EndTick, TransitionWithKey
  <2> QED
    BY <2>1 DEF IInv, CopyOK
<1> QED
  BY <1>1, InitInv, NextInv, PTL DEF Spec, AdvanceIsCurrent
=============================================================================
