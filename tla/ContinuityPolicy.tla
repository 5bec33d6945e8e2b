------------------------- MODULE ContinuityPolicy -------------------------
(***************************************************************************)
(* The tables and pure decisions of the durable task scheduler: the states *)
(* and legal transitions of a task, the routing of a failure, the role     *)
(* that works on a state and the state a successful run asks for           *)
(* (toolkit/ztad/orchestrator.py, toolkit/ztad/scheduler.py).              *)
(***************************************************************************)
EXTENDS Integers, FiniteSets

RUNNABLE_STATES ==
  { "READY", "PLANNING", "WORKER_IMPLEMENTING", "MACHINE_CHECKS",
    "SUPERVISOR_REVIEW", "AUTO_REPAIR", "AUTO_REPLAN", "SUPERVISOR_TAKEOVER",
    "CLOSURE_REVIEW", "CLEAN_RECONSTRUCTION", "MERGE_READY", "MERGE_QUEUED",
    "MERGED", "ARTIFACT_VERIFIED", "STAGING", "CANARY",
    "PRODUCTION_VERIFIED", "ROLLBACK" }

DELAYED_STATES ==
  { "WAITING_RETRY", "WAITING_EXTERNAL_DEPENDENCY", "QUARANTINED",
    "ROLLED_BACK_RETRYABLE" }

TERMINAL_STATES ==
  { "DONE", "INTERNAL_EXECUTION_COMPLETE", "CANCELLED", "SUPERSEDED" }

States == RUNNABLE_STATES \cup DELAYED_STATES \cup TERMINAL_STATES \cup {"BACKLOG"}

\* The durable store's transition table, one entry per state.
TRANSITIONS ==
  [s \in States |->
    CASE s = "BACKLOG" -> {"READY", "CANCELLED", "SUPERSEDED"}
      [] s = "READY" -> {"PLANNING", "WORKER_IMPLEMENTING",
           "WAITING_EXTERNAL_DEPENDENCY", "CANCELLED"}
      [] s = "PLANNING" -> {"WORKER_IMPLEMENTING", "AUTO_REPLAN",
           "WAITING_RETRY", "QUARANTINED"}
      [] s = "WORKER_IMPLEMENTING" -> {"MACHINE_CHECKS", "AUTO_REPAIR",
           "AUTO_REPLAN", "SUPERVISOR_TAKEOVER", "WAITING_RETRY", "QUARANTINED"}
      [] s = "MACHINE_CHECKS" -> {"SUPERVISOR_REVIEW", "AUTO_REPAIR",
           "AUTO_REPLAN", "WAITING_RETRY", "QUARANTINED"}
      [] s = "SUPERVISOR_REVIEW" -> {"MERGE_READY", "AUTO_REPAIR",
           "AUTO_REPLAN", "SUPERVISOR_TAKEOVER", "WAITING_RETRY", "QUARANTINED"}
      [] s = "AUTO_REPAIR" -> {"WORKER_IMPLEMENTING", "MACHINE_CHECKS",
           "AUTO_REPLAN", "SUPERVISOR_TAKEOVER", "WAITING_RETRY", "QUARANTINED"}
      [] s = "AUTO_REPLAN" -> {"WORKER_IMPLEMENTING", "SUPERVISOR_TAKEOVER",
           "CLEAN_RECONSTRUCTION", "WAITING_RETRY", "QUARANTINED"}
      [] s = "SUPERVISOR_TAKEOVER" -> {"MACHINE_CHECKS", "CLOSURE_REVIEW",
           "CLEAN_RECONSTRUCTION", "WAITING_RETRY", "QUARANTINED"}
      [] s = "CLOSURE_REVIEW" -> {"MERGE_READY", "AUTO_REPAIR", "AUTO_REPLAN",
           "CLEAN_RECONSTRUCTION", "QUARANTINED"}
      [] s = "CLEAN_RECONSTRUCTION" -> {"PLANNING", "WORKER_IMPLEMENTING",
           "WAITING_RETRY", "QUARANTINED"}
      [] s = "WAITING_RETRY" -> {"WORKER_IMPLEMENTING", "AUTO_REPLAN",
           "SUPERVISOR_TAKEOVER", "CLEAN_RECONSTRUCTION", "QUARANTINED",
           "CANCELLED"}
      [] s = "WAITING_EXTERNAL_DEPENDENCY" -> {"READY", "AUTO_REPLAN",
           "QUARANTINED", "CANCELLED"}
      [] s = "QUARANTINED" -> {"AUTO_REPLAN", "CLEAN_RECONSTRUCTION",
           "WAITING_RETRY", "CANCELLED", "SUPERSEDED"}
      [] s = "MERGE_READY" -> {"MERGE_QUEUED", "STAGING", "WAITING_RETRY",
           "QUARANTINED"}
      [] s = "MERGE_QUEUED" -> {"MERGED", "AUTO_REPLAN", "WAITING_RETRY",
           "QUARANTINED"}
      [] s = "MERGED" -> {"ARTIFACT_VERIFIED", "ROLLBACK", "QUARANTINED"}
      [] s = "ARTIFACT_VERIFIED" -> {"STAGING", "CANARY", "ROLLBACK",
           "QUARANTINED"}
      [] s = "STAGING" -> {"CANARY", "PRODUCTION_VERIFIED", "ROLLBACK",
           "WAITING_RETRY", "QUARANTINED"}
      [] s = "CANARY" -> {"PRODUCTION_VERIFIED", "ROLLBACK", "WAITING_RETRY",
           "QUARANTINED"}
      [] s = "ROLLBACK" -> {"ROLLED_BACK_RETRYABLE", "DONE", "QUARANTINED"}
      [] s = "ROLLED_BACK_RETRYABLE" -> {"AUTO_REPLAN",
           "CLEAN_RECONSTRUCTION", "WAITING_RETRY", "QUARANTINED"}
      [] s = "PRODUCTION_VERIFIED" -> {"INTERNAL_EXECUTION_COMPLETE", "DONE",
           "ROLLBACK"}
      [] OTHER -> {}]

Roles == {"worker", "supervisor", "closure"}

\* The failure classes up to how they are routed: the members of
\* NON_RETRYABLE_FAILURES, EXTERNAL_FAILURES and TRANSIENT_FAILURES, and every
\* other class (EVIDENCE_MISSING, UNKNOWN, ...).
FailureKinds == {"NON_RETRYABLE", "EXTERNAL", "TRANSIENT", "OTHER"}

Least(a, b) == IF a < b THEN a ELSE b

\* Bounded exponential backoff, in seconds.
Backoff(total) == Least(30 * 2 ^ Least(total, 8), 3600)

\* What a routed failure asks for: the next state and the delay before it may run.
\* (strategy_delta only feeds a counter that nothing reads back.)
Decision(state, retryAfter) == [state |-> state, retryAfter |-> retryAfter]

\* The n-th counted failure of a worker, and of a supervisor or closure run.
WorkerLadder(n) ==
  CASE n <= 1 -> Decision("AUTO_REPAIR", 0)
    [] n = 2 -> Decision("AUTO_REPLAN", 0)
    [] n = 3 -> Decision("SUPERVISOR_TAKEOVER", 0)
    [] n = 4 -> Decision("CLEAN_RECONSTRUCTION", 0)
    [] OTHER -> Decision("QUARANTINED", 1800)

ReviewLadder(n) ==
  CASE n <= 1 -> Decision("AUTO_REPLAN", 0)
    [] n = 2 -> Decision("CLEAN_RECONSTRUCTION", 0)
    [] OTHER -> Decision("QUARANTINED", 1800)

DecideFailure(kind, role, worker, supervisor, total) ==
  CASE kind = "NON_RETRYABLE" -> Decision("QUARANTINED", 3600)
    [] kind = "EXTERNAL" -> Decision("WAITING_EXTERNAL_DEPENDENCY", 900)
    [] kind = "TRANSIENT" -> Decision("WAITING_RETRY", Backoff(total))
    [] kind = "OTHER" /\ role = "worker" -> WorkerLadder(worker)
    [] OTHER -> ReviewLadder(supervisor)

\* Mutant: a retry goes back to the mesh queue's retry state, which no task has.
PromotionTargetRetrying(state) ==
  CASE state = "WAITING_EXTERNAL_DEPENDENCY" -> "READY"
    [] state \in {"QUARANTINED", "ROLLED_BACK_RETRYABLE"} -> "AUTO_REPLAN"
    [] OTHER -> "RETRY_READY"

\* Where a delayed task goes once its delay has elapsed.
PromotionTarget(state) ==
  CASE state = "WAITING_EXTERNAL_DEPENDENCY" -> "READY"
    [] state \in {"QUARANTINED", "ROLLED_BACK_RETRYABLE"} -> "AUTO_REPLAN"
    [] OTHER -> "WORKER_IMPLEMENTING"

\* The role that works on a task in a given state.
RoleForState(state) ==
  CASE state \in { "READY", "PLANNING", "SUPERVISOR_REVIEW", "AUTO_REPLAN",
                   "SUPERVISOR_TAKEOVER", "MERGE_READY", "MERGE_QUEUED",
                   "MERGED", "ARTIFACT_VERIFIED", "STAGING", "CANARY",
                   "PRODUCTION_VERIFIED", "ROLLBACK" } -> "supervisor"
    [] state = "CLOSURE_REVIEW" -> "closure"
    [] OTHER -> "worker"

\* The state asked for when a successful run names none.
DefaultSuccess ==
  [s \in RUNNABLE_STATES |->
    CASE s = "READY" -> "PLANNING"
      [] s = "PLANNING" -> "WORKER_IMPLEMENTING"
      [] s = "WORKER_IMPLEMENTING" -> "MACHINE_CHECKS"
      [] s = "AUTO_REPAIR" -> "MACHINE_CHECKS"
      [] s = "AUTO_REPLAN" -> "WORKER_IMPLEMENTING"
      [] s = "SUPERVISOR_TAKEOVER" -> "CLOSURE_REVIEW"
      [] s = "CLEAN_RECONSTRUCTION" -> "PLANNING"
      [] s = "MACHINE_CHECKS" -> "SUPERVISOR_REVIEW"
      [] s \in {"SUPERVISOR_REVIEW", "CLOSURE_REVIEW"} -> "MERGE_READY"
      [] s = "MERGE_READY" -> "MERGE_QUEUED"
      [] s = "MERGE_QUEUED" -> "MERGED"
      [] s = "MERGED" -> "ARTIFACT_VERIFIED"
      [] s = "ARTIFACT_VERIFIED" -> "STAGING"
      [] s = "STAGING" -> "CANARY"
      [] s = "CANARY" -> "PRODUCTION_VERIFIED"
      [] s = "PRODUCTION_VERIFIED" -> "DONE"
      [] OTHER -> "ROLLED_BACK_RETRYABLE"]
=============================================================================
