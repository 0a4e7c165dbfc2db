------------------------------ MODULE ModelFleet ------------------------------
(***************************************************************************)
(* The fleet catalog and the selectors that gateway and delegation share:   *)
(* context fit and its overflow fallback (domain/routing/context-fit.ts),   *)
(* output headroom (domain/delegation/output-headroom.ts), the safe cloud   *)
(* default (domain/pipeline/safe-default.ts).                               *)
(*                                                                          *)
(* The code passes fleets as arrays, filtered but never reordered.  Here a  *)
(* fleet is a set of models, and Catalog gives the order in which a scan    *)
(* meets them.  Token counts and costs are small numbers.                   *)
(***************************************************************************)
EXTENDS Naturals, Sequences

CONSTANTS
  Models,           (* model ids                                            *)
  Catalog,          (* the models in fleet order                            *)
  Profile,          (* model id -> profile                                  *)
  SafetyMarginPct,  (* percentage of a window that counts as usable input   *)
  MinOutputFloor,   (* output tokens a delegation must leave room for       *)
  HeadroomBuffer,   (* tokens kept free on top of that                      *)
  NoModel           (* a selector found nothing                             *)

TierName == {"zero-tier", "economical-cloud", "frontier-cloud"}

(* window: declared max_input_tokens, 0 when undeclared.  registryWindow:   *)
(* contextWindow of the registry entry, 0 when the registry has no entry.   *)
(* subscription and auto: isCursorSubscriptionModel, isCursorAutoModel.     *)
ModelProfile ==
  [tier : TierName, provider : STRING, healthy : BOOLEAN,
   window : Nat, registryWindow : Nat, maxOutput : Nat, cost : Nat,
   subscription : BOOLEAN, auto : BOOLEAN]

ASSUME CatalogAssumption ==
  /\ Catalog \in Seq(Models)
  /\ \A m \in Models : \E i \in DOMAIN Catalog : Catalog[i] = m
  /\ \A i, j \in DOMAIN Catalog : Catalog[i] = Catalog[j] => i = j
ASSUME ProfileAssumption == Profile \in [Models -> ModelProfile]
ASSUME MarginAssumption  == SafetyMarginPct \in 1 .. 100
ASSUME FloorAssumption   == MinOutputFloor \in Nat /\ HeadroomBuffer \in Nat
ASSUME NoModelAssumption == NoModel \notin Models

IsHealthy(m)  == Profile[m].healthy
Registered(m) == Profile[m].registryWindow # 0
IsGoogle(m)   == Profile[m].provider = "google"
OnTier(fleet, t) == {m \in fleet : Profile[m].tier = t}

(* Array.find: the member of a fleet that comes first in the catalog.       *)
First(fleet) ==
  IF fleet = {} THEN NoModel
  ELSE Catalog[CHOOSE i \in DOMAIN Catalog :
                 /\ Catalog[i] \in fleet
                 /\ \A j \in DOMAIN Catalog : Catalog[j] \in fleet => i <= j]

-----------------------------------------------------------------------------

modelFitsContext(m, tokens) ==
  \/ Profile[m].window = 0
  \/ tokens <= (Profile[m].window * SafetyMarginPct) \div 100

(* A selector returns the first of the models that are best for it: the set *)
(* is named on its own, for callers that scan the fleet in another order.   *)

(* The widest; an undeclared window is wider than any other.                *)
LargestWindow(fleet) ==
  LET healthy    == {m \in fleet : IsHealthy(m)}
      undeclared == {m \in healthy : Profile[m].window = 0}
  IN  IF undeclared # {} THEN undeclared
      ELSE {m \in healthy : \A x \in healthy : Profile[x].window <= Profile[m].window}

selectLargestWindowModel(fleet) == First(LargestWindow(fleet))

LowestCost(fleet) ==
  LET healthy == {m \in fleet : IsHealthy(m)}
  IN  {m \in healthy : \A x \in healthy : Profile[m].cost <= Profile[x].cost}

selectLowestCostModel(fleet) == First(LowestCost(fleet))

(* Same provider first, then the cheapest frontier model, among those that  *)
(* fit; NoModel is the structured no-fit.                                   *)
OverflowFallbacks(fleet, tokens, provider) ==
  LET fitting == {m \in fleet : modelFitsContext(m, tokens)}
      same    == LargestWindow({m \in fitting : Profile[m].provider = provider})
  IN  IF same # {} THEN same ELSE LowestCost(OnTier(fitting, "frontier-cloud"))

resolveContextOverflowFallback(fleet, tokens, provider) ==
  First(OverflowFallbacks(fleet, tokens, provider))

(* As delegation calls it, without a request: context fit plays no part.    *)
SafeDefaults(fleet) ==
  LET healthy    == {m \in fleet : IsHealthy(m)}
      economical == OnTier(healthy, "economical-cloud")
  IN  IF economical # {} THEN economical ELSE OnTier(healthy, "frontier-cloud")

safeCloudDefault(fleet) == First(SafeDefaults(fleet))

(* Output headroom of a model the registry knows: the floor must fit in     *)
(* what the input and the buffer leave, and within the output cap.          *)
resolveContextWindow(m) ==
  IF Profile[m].window # 0 THEN Profile[m].window ELSE Profile[m].registryWindow

HasHeadroom(m, tokens) ==
  /\ tokens + HeadroomBuffer + MinOutputFloor <= resolveContextWindow(m)
  /\ MinOutputFloor <= Profile[m].maxOutput
=============================================================================
