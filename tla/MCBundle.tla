------------------------------ MODULE MCBundle ------------------------------
(* Small instances of EvidenceBundle. *)
EXTENDS EvidenceBundle

\* Requested out of turn: too early or too late for every case somewhere, on each lane, the
\* rollback, the resolution without code, and the state no case may reach.
MCTargets ==
  {"PATCH_IMPLEMENTED", "CI_PASS", "STAGING_PASS", "POST_DEPLOY_VERIFIED",
   "ROLLBACK_REQUIRED", "RESOLVED_NO_CODE", "CLOSED"}
=============================================================================
