---------------------------- MODULE MCApprovals ----------------------------
(* A small instance of Approvals, in which heads are interchangeable. *)
EXTENDS Approvals, TLC

HeadsAlike == Permutations(Heads)
=============================================================================
