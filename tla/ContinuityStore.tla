-------------------------- MODULE ContinuityStore --------------------------
(***************************************************************************)
(* The durable task queue (toolkit/ztad/orchestrator.py, ContinuityStore): *)
(* one row per task and one append-only event log in a SQLite file that    *)
(* every scheduler process and every CLI call opens.  Each method is one   *)
(* BEGIN IMMEDIATE transaction, hence one atomic operator here; the        *)
(* processes that call them are in ContinuousScheduler.                    *)
(*                                                                         *)
(* Time is kept up to what the guards test: a lease is none, live or       *)
(* expired, a delay (next_run_at) is none, later or now.                   *)
(***************************************************************************)
EXTENDS ContinuityPolicy

CONSTANTS
  Tasks,          \* tasks that may be submitted
  Workers,        \* scheduler processes, each with a worker_id of its own
  Priority,       \* priority of each task
  Authoritative,  \* tasks whose contract names the authoritative bug lifecycle
  NoOwner         \* lease_owner IS NULL

ASSUME PriorityAssumption == Priority \in [Tasks -> Int]
ASSUME AuthoritativeAssumption == Authoritative \subseteq Tasks
ASSUME NoOwnerAssumption == NoOwner \notin Workers

VARIABLES
  task,       \* the row of each task; state "ABSENT" before its submission
  keys,       \* idempotency keys callers chose for the events in the log
  logged      \* the state each task has according to the event log

storeVars == <<task, keys, logged>>

Leases == {"none", "live", "expired"}
Delays == {"none", "later", "now"}

Row ==
  [ state : States \cup {"ABSENT"},
    owner : Workers \cup {NoOwner},
    lease : Leases,
    due : Delays,
    version : Nat,
    worker : Nat,        \* worker_attempts
    supervisor : Nat,    \* supervisor_attempts
    total : Nat ]        \* total_attempts

NewRow ==
  [ state |-> "ABSENT", owner |-> NoOwner, lease |-> "none", due |-> "none",
    version |-> 1, worker |-> 0, supervisor |-> 0, total |-> 0 ]

StoreInit ==
  /\ task = [t \in Tasks |-> NewRow]
  /\ keys = {}
  /\ logged = [t \in Tasks |-> "ABSENT"]

\* Every write of a row moves its version (SET ... version = version + 1).
Bump(row) == [row EXCEPT !.version = @ + 1]

Unleased(row) == [row EXCEPT !.owner = NoOwner, !.lease = "none"]

\* An event under a key the store builds from the row's version: the key is new.
Log(t, state) ==
  /\ logged' = [logged EXCEPT ![t] = state]
  /\ keys' = keys

\* An event under the caller's key: nothing is inserted when the key is known.
\* A key made from a run's own identifier is Fresh: no other event has it, and it is
\* not kept.
Fresh == <<"fresh">>

LogOnce(t, state, key) ==
  IF key = Fresh
  THEN Log(t, state)
  ELSE /\ logged' = IF key \in keys THEN logged ELSE [logged EXCEPT ![t] = state]
       /\ keys' = keys \cup {key}

-----------------------------------------------------------------------------
\* submit_task.  A second submission is a replay that changes nothing.
SubmitTask(t) ==
  /\ task[t].state = "ABSENT"
  /\ task' = [task EXCEPT ![t].state = "READY"]
  /\ Log(t, "READY")

\* recover_expired_leases: every expired lease of every state, in one transaction.
RecoveredRow(row) ==
  [Bump(Unleased(row)) EXCEPT !.state = "WAITING_RETRY", !.due = "later"]

Expired == {t \in Tasks : task[t].lease = "expired"}

RecoverExpiredLeases ==
  /\ task' = [t \in Tasks |-> IF t \in Expired THEN RecoveredRow(task[t]) ELSE task[t]]
  /\ logged' = [t \in Tasks |-> IF t \in Expired THEN "WAITING_RETRY" ELSE logged[t]]
  /\ keys' = keys

\* Mutant: only the waiting states are promoted.
DueWaiting ==
  {t \in Tasks : /\ task[t].state \in {"WAITING_RETRY", "WAITING_EXTERNAL_DEPENDENCY"}
                 /\ task[t].due = "now"}

\* _promote_due_tx: the delayed tasks whose delay has elapsed.
Due == {t \in Tasks : task[t].state \in DELAYED_STATES /\ task[t].due = "now"}

PromotedRow(row) ==
  [Bump(row) EXCEPT !.state = PromotionTarget(row.state), !.due = "none"]

Promoted ==
  [t \in Tasks |-> IF t \in Due THEN PromotedRow(task[t]) ELSE task[t]]

\* The SELECT of claim_next, over the rows as the promotion leaves them.
Claimable ==
  {t \in Tasks : /\ Promoted[t].state \in RUNNABLE_STATES
                 /\ Promoted[t].due # "later"
                 /\ Promoted[t].lease # "live"}

\* Mutant: a claim does not move the version.
ClaimedRowSameVersion(row, w) == [row EXCEPT !.owner = w, !.lease = "live"]

ClaimedRow(row, w) == [Bump(row) EXCEPT !.owner = w, !.lease = "live"]

\* Mutant: a promotion leaves no event.
LogNoPromotion == UNCHANGED <<keys, logged>>

LogPromotions ==
  /\ logged' = [t \in Tasks |-> IF t \in Due THEN Promoted[t].state ELSE logged[t]]
  /\ keys' = keys

\* ORDER BY priority DESC, created_at ASC: the submission order inside one
\* priority is left open.
First(t) == t \in Claimable /\ \A u \in Claimable : Priority[u] <= Priority[t]

\* claim_next when it returns task t, and when it returns None.
ClaimNext(w, t) ==
  /\ First(t)
  /\ task' = [Promoted EXCEPT ![t] = ClaimedRow(@, w)]
  /\ LogPromotions

ClaimNothing ==
  /\ Claimable = {}
  /\ task' = Promoted
  /\ LogPromotions

\* heartbeat: extends the lease, whatever the state and even past its expiry.
RenewLease(w, t) ==
  /\ task[t].state # "ABSENT"
  /\ task[t].owner = w
  /\ task' = [task EXCEPT ![t] = [Bump(@) EXCEPT !.lease = "live"]]
  /\ UNCHANGED <<keys, logged>>

\* Mutants: any state may follow; a transition does not move the version.
TransitionUnchecked(t, target) ==
  task[t].state # "ABSENT" /\ ~ (t \in Authoritative /\ target = "DONE")

TransitionedRowSameVersion(row, target, release) ==
  [(IF release THEN Unleased(row) ELSE row) EXCEPT !.state = target, !.due = "none"]

\* transition: the checks it makes, then the row it writes.
TransitionAllowed(t, target) ==
  /\ task[t].state # "ABSENT"
  /\ ~ (t \in Authoritative /\ target = "DONE")
  /\ target \in TRANSITIONS[task[t].state]

TransitionedRow(row, target, release) ==
  [Bump(IF release THEN Unleased(row) ELSE row) EXCEPT !.state = target, !.due = "none"]

\* With the store's own key, as from the command line.
Transition(t, target, release) ==
  /\ TransitionAllowed(t, target)
  /\ task' = [task EXCEPT ![t] = TransitionedRow(@, target, release)]
  /\ Log(t, target)

\* Mutant: the version the caller read is not compared.
TransitionUnversioned(t, target, release, expected, key) ==
  /\ TransitionAllowed(t, target)
  /\ task' = [task EXCEPT ![t] = TransitionedRow(@, target, release)]
  /\ LogOnce(t, target, key)

\* With the caller's key and the version the caller read.
TransitionWithKey(t, target, release, expected, key) ==
  /\ task[t].version = expected
  /\ TransitionAllowed(t, target)
  /\ task' = [task EXCEPT ![t] = TransitionedRow(@, target, release)]
  /\ LogOnce(t, target, key)

\* record_failure: checks neither version, owner nor state; a known key is a replay.
FailedRow(row, role, kind) ==
  LET total == row.total + 1
      worker == row.worker + (IF role = "worker" THEN 1 ELSE 0)
      supervisor == row.supervisor + (IF role \in {"supervisor", "closure"} THEN 1 ELSE 0)
      decision == DecideFailure(kind, role, worker, supervisor, total)
  IN  [Bump(Unleased(row)) EXCEPT
        !.state = decision.state,
        !.due = IF decision.retryAfter > 0 THEN "later" ELSE "none",
        !.total = total, !.worker = worker, !.supervisor = supervisor]

\* Mutant: a replayed key is not looked up before the row is written.
RecordFailureEveryTime(t, role, kind, key) ==
  /\ task[t].state # "ABSENT"
  /\ task' = [task EXCEPT ![t] = FailedRow(@, role, kind)]
  /\ LogOnce(t, task'[t].state, key)

RecordFailure(t, role, kind, key) ==
  /\ task[t].state # "ABSENT"
  /\ IF key \in keys
     THEN UNCHANGED storeVars
     ELSE /\ task' = [task EXCEPT ![t] = FailedRow(@, role, kind)]
          /\ LogOnce(t, task'[t].state, key)

-----------------------------------------------------------------------------
\* The clock.
LeaseRunsOut(t) ==
  /\ task[t].lease = "live"
  /\ task' = [task EXCEPT ![t].lease = "expired"]
  /\ UNCHANGED <<keys, logged>>

DelayElapses(t) ==
  /\ task[t].due = "later"
  /\ task' = [task EXCEPT ![t].due = "now"]
  /\ UNCHANGED <<keys, logged>>
=============================================================================
