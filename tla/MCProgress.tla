------------------------------ MODULE MCProgress ------------------------------
(***************************************************************************)
(* The two components that owe their users an end, side by side: the store  *)
(* under backpressure, drained by its interval timer, and the turns of a    *)
(* session over a fleet with one model that is too small.                   *)
(***************************************************************************)
EXTENDS MCSqliteStore, MCDelegation

(* They share no state, so either moves only as long as the other has not   *)
(* begun: no behaviour of either is lost, and what is fair to it alone is   *)
(* fair here.                                                               *)
ProgressInit == Init /\ DelegationInit

StoreMoves == DelegationInit /\ Next /\ UNCHANGED delegationVars
TurnsMove  == Init /\ DelegationNext /\ UNCHANGED vars

ProgressSpec ==
  /\ ProgressInit /\ [][StoreMoves \/ TurnsMove]_<<vars, delegationVars>>
  /\ WF_vars(DelegationInit /\ IntervalFlush)
  /\ \A s \in TurnSessions : WF_delegationVars(Progress(s))
=============================================================================
