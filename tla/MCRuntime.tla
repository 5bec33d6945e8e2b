------------------------------ MODULE MCRuntime ------------------------------
(* Small instances of MeshRuntime. *)
EXTENDS MeshRuntime

CONSTANTS p1, p2

\* Two processes beside each other run a guarded plan, one runs a bounded plan with its scout.
MCCrew == (1 :> {p1, p2}) @@ (2 :> {p1})
=============================================================================
