------------------------ MODULE ContinuousScheduler ------------------------
(***************************************************************************)
(* Scheduler processes over the durable task queue                         *)
(* (toolkit/ztad/scheduler.py, ContinuousScheduler.tick).  A tick is three *)
(* separate transactions - recover expired leases, claim a task, commit    *)
(* the run's result - with the model run between the last two; anything    *)
(* another process, an operator's CLI call or the clock does may come in   *)
(* between, and a process may die at any point and leave its lease behind. *)
(*                                                                         *)
(* Everything that keeps a task from advancing along its default path      *)
(* spends one unit of a budget of MaxFaults: failed runs, refused gates, a *)
(* runner that asks for another state, crashes, heartbeats, leases that    *)
(* run out under a working process, and operator calls.                    *)
(***************************************************************************)
EXTENDS ContinuityStore, Sequences

CONSTANTS
  NoTask,           \* a process between two ticks
  MaxFaults,        \* bound on the faults of a behaviour
  Reports,          \* idempotency keys operators use with continuity-failure
  RunnerChoices,    \* states a runner may name instead of the default
  OperatorChoices,  \* states operators ask for with continuity-transition
  RunIdsReported    \* whether the runner's result carries a run_id

ASSUME NoTaskAssumption == NoTask \notin Tasks
ASSUME MaxFaultsAssumption == MaxFaults \in Nat
ASSUME ChoicesAssumption == RunnerChoices \subseteq States /\ OperatorChoices \subseteq States
ASSUME RunIdsAssumption == RunIdsReported \in BOOLEAN

VARIABLES
  session,   \* per process: where its tick stands, and its copy of the claimed row
  faults,    \* faults spent so far
  failedRuns, \* history: runs of each task that failed or were refused
  reviewed   \* history: tasks reviewed since they were last (re)planned or implemented

vars == <<task, keys, logged, session, faults, failedRuns, reviewed>>

Session ==
  [ pc : {"idle", "claim", "run"},
    task : Tasks \cup {NoTask},
    state : States \cup {"ABSENT"},
    version : Nat ]

Idle == [pc |-> "idle", task |-> NoTask, state |-> "ABSENT", version |-> 0]

Init ==
  /\ StoreInit
  /\ session = [w \in Workers |-> Idle]
  /\ faults = 0
  /\ failedRuns = [t \in Tasks |-> 0]
  /\ reviewed = {}

CountFailedRun(t) == failedRuns' = [failedRuns EXCEPT ![t] = @ + 1]

Fault == faults < MaxFaults /\ faults' = faults + 1

REVIEW_STATES == {"SUPERVISOR_REVIEW", "CLOSURE_REVIEW"}

\* The states from MERGE_READY on, where a change is merged and shipped.
RELEASE_STATES ==
  { "MERGE_READY", "MERGE_QUEUED", "MERGED", "ARTIFACT_VERIFIED", "STAGING",
    "CANARY", "PRODUCTION_VERIFIED" }

REWORK_STATES ==
  { "PLANNING", "WORKER_IMPLEMENTING", "AUTO_REPAIR", "AUTO_REPLAN",
    "SUPERVISOR_TAKEOVER", "CLEAN_RECONSTRUCTION" }

Observe ==
  reviewed' = {t \in Tasks : \/ task'[t].state \in REVIEW_STATES
                             \/ t \in reviewed /\ task'[t].state \notin REWORK_STATES}

-----------------------------------------------------------------------------
\* tick, first transaction.
StartTick(w) ==
  /\ session[w].pc = "idle"
  /\ RecoverExpiredLeases
  /\ session' = [session EXCEPT ![w].pc = "claim"]
  /\ UNCHANGED <<faults, failedRuns>>

\* Second transaction; the process keeps a copy of the row it claimed.
ClaimTask(w) ==
  /\ session[w].pc = "claim"
  /\ \E t \in Tasks :
       /\ ClaimNext(w, t)
       /\ session' = [session EXCEPT ![w] =
            [pc |-> "run", task |-> t, state |-> task'[t].state, version |-> task'[t].version]]
  /\ UNCHANGED <<faults, failedRuns>>

FindNothing(w) ==
  /\ session[w].pc = "claim"
  /\ ClaimNothing
  /\ session' = [session EXCEPT ![w] = Idle]
  /\ UNCHANGED <<faults, failedRuns>>

EndTick(w) ==
  /\ session[w].pc = "run"
  /\ session' = [session EXCEPT ![w] = Idle]

\* A key that starts with the run's own identifier, or with the task's when the
\* result carries no run_id.
RunKey(w, rest) == IF RunIdsReported THEN Fresh ELSE <<session[w].task>> \o rest


\* The state a successful run asks for: the default of the claimed state, or one
\* the runner names.
Asks(w, asked) ==
  \/ asked = DefaultSuccess[session[w].state] /\ UNCHANGED faults
  \/ asked \in RunnerChoices /\ Fault

Requested(t, asked) ==
  IF t \in Authoritative /\ asked = "DONE" THEN "INTERNAL_EXECUTION_COMPLETE" ELSE asked

\* Third transaction, after a successful run that the gate lets through.
Advance(w, asked) ==
  LET t == session[w].task
      target == Requested(t, asked)
  IN  /\ EndTick(w)
      /\ Asks(w, asked)
      /\ UNCHANGED failedRuns
      /\ TransitionWithKey(t, target, TRUE, session[w].version, RunKey(w, <<"success", target>>))

\* transition raises: the row changed under the process, or the state asked for is
\* no successor.  The exception leaves tick; the row and its lease stay as they are.
Raise(w, asked) ==
  LET t == session[w].task
  IN  /\ EndTick(w)
      /\ \/ task[t].version # session[w].version
         \/ ~ TransitionAllowed(t, Requested(t, asked))
      /\ Asks(w, asked)
      /\ UNCHANGED failedRuns
      /\ UNCHANGED storeVars

\* Third transaction, when the gate refuses or the run fails or raises.
GateRefuses(w, asked) ==
  LET s == session[w]
  IN  /\ EndTick(w)
      /\ asked = DefaultSuccess[s.state] \/ asked \in RunnerChoices
      /\ Fault
      /\ RecordFailure(s.task, RoleForState(s.state), "OTHER",
                       RunKey(w, <<"gate", Requested(s.task, asked), s.version>>))
      /\ CountFailedRun(s.task)

RunFails(w, kind) ==
  LET s == session[w]
  IN  /\ EndTick(w)
      /\ Fault
      /\ RecordFailure(s.task, RoleForState(s.state), kind,
                       RunKey(w, <<"failure", kind, s.version>>))
      /\ CountFailedRun(s.task)

Crash(w) ==
  /\ session[w].pc # "idle"
  /\ Fault
  /\ session' = [session EXCEPT ![w] = Idle]
  /\ UNCHANGED <<task, keys, logged, failedRuns>>

-----------------------------------------------------------------------------
\* Calls from outside the tick, on the same database.
Submit(t) == SubmitTask(t) /\ UNCHANGED <<session, faults, failedRuns>>

Heartbeat(w) ==
  /\ session[w].pc = "run"
  /\ Fault
  /\ RenewLease(w, session[w].task)
  /\ UNCHANGED <<session, failedRuns>>

\* continuity-transition and continuity-failure.
OperatorTransition(t, target, release) ==
  /\ Fault
  /\ Transition(t, target, release)
  /\ UNCHANGED <<session, failedRuns>>

OperatorReport(t, role, kind, report) ==
  /\ Fault
  /\ RecordFailure(t, role, kind, <<t, "report", report>>)
  /\ UNCHANGED <<session, failedRuns>>

Working(t) == \E w \in Workers : session[w].pc = "run" /\ session[w].task = t /\ task[t].owner = w

\* The lease of a process that died or left its tick, and one that a working
\* process outlives.
LeaseExpires(t) ==
  /\ ~ Working(t)
  /\ LeaseRunsOut(t)
  /\ UNCHANGED <<session, faults, failedRuns>>

LeaseOutlived(t) ==
  /\ Working(t)
  /\ Fault
  /\ LeaseRunsOut(t)
  /\ UNCHANGED <<session, failedRuns>>

Elapse(t) == DelayElapses(t) /\ UNCHANGED <<session, faults, failedRuns>>

Commit(w) ==
  \/ \E asked \in States : Advance(w, asked) \/ Raise(w, asked) \/ GateRefuses(w, asked)
  \/ \E kind \in FailureKinds : RunFails(w, kind)

Step ==
  \/ \E w \in Workers :
       \/ StartTick(w)
       \/ ClaimTask(w)
       \/ FindNothing(w)
       \/ Commit(w)
       \/ Crash(w)
       \/ Heartbeat(w)
  \/ \E t \in Tasks :
       \/ Submit(t)
       \/ \E target \in OperatorChoices, release \in BOOLEAN : OperatorTransition(t, target, release)
       \/ \E role \in Roles, kind \in FailureKinds, report \in Reports :
            OperatorReport(t, role, kind, report)
       \/ LeaseExpires(t)
       \/ LeaseOutlived(t)
       \/ Elapse(t)

Next == Step /\ Observe

Spec == Init /\ [][Next]_vars

\* Every scheduler process keeps ticking, a model run ends (the providers run it under
\* a timeout), a lease nobody works under runs out and a delay elapses.
Fairness ==
  /\ \A w \in Workers :
       /\ WF_vars(StartTick(w) /\ Observe)
       /\ WF_vars((ClaimTask(w) \/ FindNothing(w)) /\ Observe)
       /\ WF_vars(Commit(w) /\ Observe)
  /\ \A t \in Tasks :
       /\ WF_vars(LeaseExpires(t) /\ Observe)
       /\ WF_vars(Elapse(t) /\ Observe)

FairSpec == Spec /\ Fairness

-----------------------------------------------------------------------------
TypeOK ==
  /\ task \in [Tasks -> Row]
  /\ logged \in [Tasks -> States \cup {"ABSENT"}]
  /\ session \in [Workers -> Session]
  /\ faults \in 0..MaxFaults
  /\ failedRuns \in [Tasks -> Nat]
  /\ reviewed \subseteq Tasks

\* A process whose copy of the row still carries the row's version is the lease's
\* owner and sees the row's state: what it may commit with expected_version is what
\* it claimed, whatever recoveries, takeovers and operator calls came in between.
Pinned(w) ==
  LET s == session[w]
  IN  s.pc = "run" /\ task[s.task].version = s.version
        => task[s.task].owner = w /\ task[s.task].state = s.state

ClaimPinned == \A w \in Workers : Pinned(w)

\* Two processes never both hold a copy that could still be committed: after a lease
\* has been recovered and the task claimed again, only the second claim can advance it.
OneCommitter ==
  \A v, w \in Workers :
    /\ v # w
    /\ session[v].pc = "run" /\ session[w].pc = "run"
    /\ session[v].task = session[w].task
    => \/ session[v].version # task[session[v].task].version
       \/ session[w].version # task[session[w].task].version

\* A successful run advances the task only from the state the run was made for, and
\* only while the lease is the run's: nothing between claim and commit is overwritten.
AdvanceIsCurrent ==
  [][\A w \in Workers, asked \in States :
       Advance(w, asked) => /\ task[session[w].task].owner = w
                            /\ task[session[w].task].state = session[w].state]_vars

\* A task is charged once for each of its runs that failed or was refused, and once for
\* each failure report, however often that report is delivered.
ReportsOf(t) == {r \in Reports : <<t, "report", r>> \in keys}

FailureCountedOnce ==
  \A t \in Tasks :
    /\ task[t].total = failedRuns[t] + Cardinality(ReportsOf(t))
    /\ task[t].total = task[t].worker + task[t].supervisor

\* The event log tells the same state of every task as its row.
LogAgrees == \A t \in Tasks : logged[t] = task[t].state

\* No task is in a release state unless it has been reviewed since it was last planned
\* or implemented, whatever failures, recoveries and promotions moved it meanwhile.
ReleaseAfterReview ==
  \A t \in Tasks : task[t].state \in RELEASE_STATES => t \in reviewed

\* A delayed task with no date is left for an operator to move.
Parked(t) ==
  task[t].state \in DELAYED_STATES /\ task[t].due = "none" /\ task[t].lease = "none"

\* Once the faults stop, every submitted task comes to rest: in a terminal state or
\* parked; no lease, delay or refused commit strands it.
TasksSettle ==
  \A t \in Tasks :
    <>[](task[t].state \in TERMINAL_STATES \cup {"ABSENT"} \/ Parked(t))

-----------------------------------------------------------------------------
\* The comment above TRANSITIONS says the durable store cannot diverge from the policy,
\* where DONE, CANCELLED, SUPERSEDED and INTERNAL_EXECUTION_COMPLETE have no successor.
TerminalAbsorbing ==
  [][\A t \in Tasks : task[t].state \in TERMINAL_STATES => task'[t].state = task[t].state]_vars
=============================================================================
