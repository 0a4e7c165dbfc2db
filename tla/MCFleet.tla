------------------------------- MODULE MCFleet -------------------------------
(***************************************************************************)
(* The routing pipeline (MCRouter) beside the refresh of the fleet that     *)
(* precedes every turn.  RebuildFleet is one step of RouterPipeline: what   *)
(* it finds is any of Scopes.  FleetRefresh takes that step apart.          *)
(***************************************************************************)
EXTENDS MCRouter, FleetRefresh

CONSTANTS task1, task2, scopeA, scopeB

TwoTasks  == {task1, task2}
TwoScopes == {scopeA, scopeB}

(* Each part moves only as long as the other has not begun: they share no   *)
(* state here, so no behaviour of either is lost.                           *)
AloneInit == Init /\ RefreshInit

AloneNext ==
  \/ RefreshInit /\ scope = scopeA /\ Next /\ UNCHANGED refreshVars
  \/ Init /\ RefreshNext /\ UNCHANGED vars

AloneSpec == AloneInit /\ [][AloneNext]_<<vars, refreshVars>>
=============================================================================
