---------------------------- MODULE CaseContract ----------------------------
(***************************************************************************)
(* What a bug case promises to whoever only reads how far it has come and  *)
(* how often its subject has changed: it goes on gate by gate, what is     *)
(* exposed can be called back, and nothing but a change of the subject,    *)
(* which starts a new epoch, takes it back.                                *)
(***************************************************************************)
EXTENDS Naturals

CONSTANTS
  First,            \* the stage a case opens at
  Exposed,          \* stages with something in production
  Rollback,         \* the stage of a case that must be called back
  Resolved,         \* the stage of a case that needs no code
  Follows(_, _),    \* from a stage a case may go on to another
  FallsBack(_, _)   \* from a stage a change of the subject may take a case to another

VARIABLES stage, epoch

Init == stage = First /\ epoch = 0

\* The gate of a following stage is passed.
Pass ==
  /\ Follows(stage, stage')
  /\ epoch' = epoch

\* Something exposed can no longer be vouched for.
CallBack ==
  /\ stage \in Exposed
  /\ stage' = Rollback
  /\ epoch' = epoch

\* The case is about something else from now on.
Rebind ==
  /\ stage # Resolved
  /\ FallsBack(stage, stage')
  /\ epoch' = epoch + 1

Next == Pass \/ CallBack \/ Rebind

Spec == Init /\ [][Next]_<<stage, epoch>>
=============================================================================
