---------------------------- MODULE MCLifecycle ----------------------------
(* Small instances of BugLifecycle. *)
EXTENDS BugLifecycle

\* Requested out of turn: too early or too late for every case somewhere, on each lane, the
\* rollback, and the state no case may reach.
MCTargets ==
  {"PATCH_IMPLEMENTED", "CI_PASS", "STAGING_PASS", "POST_DEPLOY_VERIFIED",
   "ROLLBACK_REQUIRED", "CLOSED"}
=============================================================================
