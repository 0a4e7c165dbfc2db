-------------------------------- MODULE Gateway --------------------------------
(***************************************************************************)
(* GatewayDispatch (infrastructure/gateway/gateway-dispatch.ts): what it    *)
(* remembers of provider outcomes, and how it picks a model other than the  *)
(* one the pipeline chose.  Each operation is a function on the gateway's   *)
(* state, since the code composes several in one synchronous block.  Cache  *)
(* markers, which nothing in the program reads, and rate limiting are left  *)
(* out.                                                                     *)
(***************************************************************************)
EXTENDS CircuitBreaker, ModelFleet, FiniteSets

CONSTANT UnknownModel     (* the id of a decision that selected nothing     *)

ASSUME UnknownModelAssumption == UnknownModel \notin Models \cup {NoModel}

Selected == Models \cup {UnknownModel}

(* How recordOutcome and shouldFailoverOnProviderError tell errors apart:   *)
(* none (a success), infra (5xx and socket codes), rate_limited (429),      *)
(* quota (a usage-limit code or message), other (policy, unparsed).         *)
ErrorClass == {"none", "infra", "rate_limited", "quota", "other"}

GatewayState == [circuit : [Models -> CircuitEntry], quota : SUBSET Models]

NewGateway == [circuit |-> [m \in Models |-> NewCircuit], quota |-> {}]

(* Mutant: only the message tells quota from overload.                      *)
MeansQuotaByText(m, error) == error = "quota"

(* A 429 from a subscription model means quota, whatever its message says.  *)
MeansQuota(m, error) ==
  error = "quota" \/ (error = "rate_limited" /\ Profile[m].subscription)

MeansInfra(m, error) ==
  error \in {"infra", "rate_limited"} /\ ~MeansQuota(m, error)

shouldFailoverOnProviderError(m, error) == MeansQuota(m, error) \/ MeansInfra(m, error)

recordOutcome(gw, m, error) ==
  CASE error = "none"       -> [gw EXCEPT !.circuit[m] = AfterSuccess(@)]
    [] MeansQuota(m, error) -> [gw EXCEPT !.quota = @ \cup {m}]
    [] MeansInfra(m, error) -> [gw EXCEPT !.circuit[m] = AfterFailure(@)]
    [] OTHER                -> gw

-----------------------------------------------------------------------------
(* Failover.  Asking canDispatch of a candidate may half-open its circuit,  *)
(* so a selection also changes the gateway, once for each candidate asked.  *)

Dispatchable(gw, fleet) == {m \in fleet : CanDispatch(gw.circuit[m])}

AskAll(gw, fleet) ==
  [gw EXCEPT !.circuit = [m \in Models |-> IF m \in fleet THEN Asked(@[m]) ELSE @[m]]]

(* weightedSelect draws from the candidates at random; every one of them    *)
(* has a positive weight.                                                   *)
Selection(gw, choices) == [gw |-> gw, choices |-> choices]

(* filter(... && canDispatch) then weightedSelect.                          *)
SelectAmong(gw, fleet) == Selection(AskAll(gw, fleet), Dispatchable(gw, fleet))

(* find(... && canDispatch): the scan stops at the first dispatchable one.  *)
SelectFirst(gw, fleet) ==
  LET able == Dispatchable(gw, fleet)
  IN  IF able = {} THEN Selection(gw, {})
      ELSE Selection(AskAll(gw, {First(able)}), {First(able)})

OrElse(selection, Then(_)) ==
  IF selection.choices # {} THEN selection ELSE Then(selection.gw)

(* Mutant: only the model failing now is left out.                          *)
CandidatesRepeat(fleet, selected, excluded) ==
  {m \in fleet : IsHealthy(m) /\ m # selected}

Candidates(fleet, selected, excluded) ==
  {m \in fleet : IsHealthy(m) /\ m # selected /\ m \notin excluded}

(* Mutant: the subscription test is inverted.                               *)
QuotaAppliesInverted(gw, selected, excluded, fleet) ==
  /\ ({selected} \cup excluded) \cap gw.quota # {}
  /\ selected \in fleet => ~Profile[selected].subscription

(* Quota failover applies when some failed model hit its quota and the one  *)
(* now failing, if in this fleet at all, is a subscription model.           *)
QuotaFailoverApplies(gw, selected, excluded, fleet) ==
  /\ ({selected} \cup excluded) \cap gw.quota # {}
  /\ selected \in fleet => Profile[selected].subscription

selectCursorQuotaFailover(gw, selected, excluded, fleet) ==
  LET open       == Candidates(fleet, selected, excluded)
      economical == {m \in OnTier(open, "economical-cloud") : ~Profile[m].subscription}
  IN  IF ~QuotaFailoverApplies(gw, selected, excluded, fleet) THEN Selection(gw, {})
      ELSE OrElse(SelectFirst(gw, {m \in open : Profile[m].auto}),
                  LAMBDA g : SelectAmong(g, economical))

(* The tier of a decision is that of its model; a decision that selected    *)
(* nothing carries economical-cloud.                                        *)
DecisionTier(selected) ==
  IF selected = UnknownModel THEN "economical-cloud" ELSE Profile[selected].tier

selectFailover(gw, selected, excluded, fleet) ==
  LET open == Candidates(fleet, selected, excluded)
  IN  OrElse(selectCursorQuotaFailover(gw, selected, excluded, fleet),
        LAMBDA g : OrElse(SelectAmong(g, OnTier(open, DecisionTier(selected))),
          LAMBDA h : SelectAmong(h, open)))

(* Mutant: an open circuit is let through without looking for another.      *)
breakerFailsOpen(gw, selected, fleet) ==
  IF selected = UnknownModel THEN Selection(gw, {selected})
  ELSE Selection(AskAll(gw, {selected}), {selected})

(* dispatch, once the pipeline has decided.  If nothing can replace a model *)
(* whose circuit is open, the decision stands.                              *)
applyCircuitBreaker(gw, selected, fleet) ==
  IF selected = UnknownModel THEN Selection(gw, {selected})
  ELSE IF CanDispatch(gw.circuit[selected])
  THEN Selection(AskAll(gw, {selected}), {selected})
  ELSE OrElse(selectFailover(gw, selected, {}, fleet),
              LAMBDA g : Selection(g, {selected}))
=============================================================================
