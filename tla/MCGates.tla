------------------------------ MODULE MCGates ------------------------------
(* A small instance of EvidenceGates. *)
EXTENDS EvidenceGates

\* Requested out of turn: a state of each trust level, the rollback and the closing.
MCTargets == {"REGRESSION_TEST_PROVEN", "POST_DEPLOY_VERIFIED", "ROLLBACK_REQUIRED", "CLOSED"}
=============================================================================
