--------------------------- MODULE DelegationHistory ---------------------------
(***************************************************************************)
(* Delegation with a history variable: for each model, the attempts that    *)
(* ended in an infrastructure error since its last attempt that did not.    *)
(***************************************************************************)
EXTENDS MCDelegation

VARIABLE streak      (* model -> failed attempts in a row, to the threshold *)

historyVars == <<gateway, turn, streak>>

(* The attempt on m that ends in this step, if any, ends this way.          *)
AttemptEnds(m, answers) ==
  \E s \in TurnSessions :
    /\ turn[s].phase \in {"streaming", "rescue"}
    /\ turn[s].target = m
    /\ turn'[s].phase # turn[s].phase
    /\ turn'[s].answer \in answers

HInit == DelegationInit /\ streak = [m \in Models |-> 0]

HNext ==
  /\ DelegationNext
  /\ streak' = [m \in Models |->
       IF AttemptEnds(m, {"server_error"}) THEN Counted(streak[m])
       ELSE IF AttemptEnds(m, ProviderAnswer \ {"server_error"}) THEN 0
       ELSE streak[m]]

HSpec == HInit /\ [][HNext]_historyVars

(* circuit-breaker.ts on failureThreshold: "Consecutive infra failures      *)
(* before tripping the breaker".  A closed circuit opens after that many    *)
(* failed attempts in a row.                                                *)
TripNeedsThreshold ==
  [][\A m \in Models :
       /\ gateway.circuit[m].state = "closed"
       /\ gateway'.circuit[m].state = "open"
       => streak'[m] = FailureThreshold]_historyVars
=============================================================================
