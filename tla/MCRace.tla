-------------------------------- MODULE MCRace --------------------------------
(***************************************************************************)
(* The routing pipeline (MCRouter) beside three calls that its stages make  *)
(* and that race a timer or one another: the typed judgment, which the      *)
(* pipeline model leaves out because no stage reads it, the prewarm of      *)
(* local_zero and the embedding of hydra_match, whose answers are free      *)
(* there.                                                                   *)
(***************************************************************************)
EXTENDS MCRouter, TypedJudgment, LocalZero, EncoderCascade

TwoPrewarmed == {"s1", "s2"}

(* Each part moves only as long as the others have not begun: they share no *)
(* state here, so no behaviour of any is lost.                              *)
BesideInit == Init /\ JudgmentInit /\ LocalInit /\ CascadeInit

BesideNext ==
  \/ /\ JudgmentInit /\ LocalInit /\ CascadeInit
     /\ Next /\ UNCHANGED <<judgmentVars, localVars, cascadeVars>>
  \/ /\ Init /\ LocalInit /\ CascadeInit
     /\ JudgmentNext /\ UNCHANGED <<vars, localVars, cascadeVars>>
  \/ /\ Init /\ JudgmentInit /\ CascadeInit
     /\ LocalNext /\ UNCHANGED <<vars, judgmentVars, cascadeVars>>
  \/ /\ Init /\ JudgmentInit /\ LocalInit
     /\ CascadeNext /\ UNCHANGED <<vars, judgmentVars, localVars>>

BesideSpec ==
  /\ BesideInit /\ [][BesideNext]_<<vars, judgmentVars, localVars, cascadeVars>>
  /\ Fairness
  /\ JudgmentFairness
=============================================================================
