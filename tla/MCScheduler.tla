--------------------------- MODULE MCScheduler ---------------------------
(* Small instances of ContinuousScheduler. *)
EXTENDS ContinuousScheduler, TLC

CONSTANTS t1, t2

\* t1 goes first; t2 is the task under the authoritative bug lifecycle.
MCPriority == [t \in Tasks |-> IF t = t1 THEN 5 ELSE 0]
MCAuthoritative == Tasks \ {t1}
MCReports == {1}

\* Choices off the default path: back to implementation, a takeover, an early end,
\* a rollback, a wait; and, for an operator, an early release.
MCRunnerChoices == {"SUPERVISOR_TAKEOVER", "ROLLBACK", "DONE"}
MCOperatorChoices ==
  {"WORKER_IMPLEMENTING", "AUTO_REPLAN", "QUARANTINED", "ROLLBACK", "DONE", "CANCELLED",
   "WAITING_EXTERNAL_DEPENDENCY", "MERGE_READY", "STAGING"}

\* For the run with two processes: one of each kind.
MCFewOperatorChoices == {"WORKER_IMPLEMENTING", "QUARANTINED", "ROLLBACK", "MERGE_READY", "STAGING"}

Symmetry == Permutations(Workers)
=============================================================================
