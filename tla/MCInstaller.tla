---------------------------- MODULE MCInstaller ----------------------------
(* A small instance of Installer: an update that changes one file and drops another. *)
EXTENDS Installer
CONSTANTS k1, k2, k3, b1, b2

MCShips == <<[p \in 1..2 |-> IF p = 1 THEN k1 ELSE k3], [p \in 1..2 |-> IF p = 1 THEN k2 ELSE None]>>
MCBlock == <<b1, b2>>
=============================================================================
