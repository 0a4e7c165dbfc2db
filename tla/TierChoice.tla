------------------------------- MODULE TierChoice -------------------------------
(***************************************************************************)
(* The tier that the low_intensity stage hints at once the P(success)       *)
(* weights have been trained: expected cost under uncertainty               *)
(* (domain/routing/expected-cost.ts) over the virtual cost of a             *)
(* subscription window (domain/pricing/virtual-cost-v2.ts) and the resolved *)
(* prices (price-resolution.ts, peak-pricing.ts).                           *)
(*                                                                          *)
(* The state is what a turn finds and what it chose; a step is the next     *)
(* turn, which finds one thing changed.  Prices are small numbers, P and    *)
(* alpha parts of Parts, the quota window parts of Window; every amount is  *)
(* multiplied out so that none is rounded.                                  *)
(***************************************************************************)
EXTENDS SwitchEconomics

CONSTANTS
  ChoiceFleets,       (* what context_fit may leave                         *)
  PriceLists,         (* override, registry, quota: [Models -> price]; the  *)
                      (* models billed at half their rate now               *)
  NoPrice,
  Parts, Window,
  Tokens,             (* estimated_input_tokens                             *)
  LambdaMax,          (* lambda_max_multiplier; the exponent is 2           *)
  ArbitragePct,       (* quota_arbitrage_weight                             *)
  ExhaustionPct,      (* exhaustion_risk_weight                             *)
  ExhaustionParts,    (* exhaustion_risk_threshold, in parts of the window  *)
  MinPriceDelta       (* MIN_PRICE_DELTA_PER_1M                             *)

ASSUME PartsAssumption == {Parts, Window, ExhaustionParts} \subseteq Nat \ {0}
ASSUME FleetsAssumption == ChoiceFleets \subseteq SUBSET Models
ASSUME WeightsAssumption ==
  LambdaMax \in Nat \ {0} /\ {ArbitragePct, ExhaustionPct, MinPriceDelta} \subseteq Nat

Price == Nat \cup {NoPrice}
PriceList ==
  [override : [Models -> Price], registry : [Models -> Price], quota : [Models -> Price],
   offPeak : SUBSET Models]
ASSUME PricesAssumption == PriceLists \subseteq PriceList

VARIABLES
  market,    (* what the turn finds                                         *)
  tierCosts, (* the direct cost of every tier                               *)
  choice     (* the tier of least expected cost, the hint, and its reason   *)

choiceVars == <<market, tierCosts, choice>>

Cheap == {"zero-tier", "economical-cloud"}
NoTierHint == "none"

-----------------------------------------------------------------------------
(* Override, then registry, then the list price.                            *)
resolvePrice(list, m) ==
  IF list.override[m] # NoPrice THEN list.override[m]
  ELSE IF list.registry[m] # NoPrice THEN list.registry[m]
  ELSE Profile[m].cost

(* In half units, for the off-peak discount.                                *)
resolveFrugalityCostPer1M(list, m) ==
  (IF list.quota[m] # NoPrice THEN list.quota[m] ELSE resolvePrice(list, m))
    * (IF m \in list.offPeak THEN 1 ELSE 2)

(* The representative of a tier is the one with the lowest list price.      *)
Representative(f, t) == selectLowestCostModel(OnTier(f, t))
resolveTierCostPer1M(k, t) ==
  LET m == Representative(k.fleet, t) IN
  IF m = NoModel THEN 0 ELSE resolveFrugalityCostPer1M(k.prices, m)

Pinned(k) == k.pin \in k.fleet
PinActive(k, t) == Pinned(k) /\ Profile[k.pin].tier = t

(* What a unit of base cost becomes, in parts of CostUnit: lambda, the      *)
(* arbitrage and exhaustion premiums of a consumed window, less the credit  *)
(* of a warm prefix.                                                        *)
Scale == 100 * ExhaustionParts * ExhaustionParts
CostUnit == Scale * 100 * Window * Window
VirtualCostFactor(remaining, warm) ==
  LET consumed == Window - remaining
      short    == IF remaining < ExhaustionParts THEN ExhaustionParts - remaining ELSE 0 IN
  CostUnit + Scale * 100 * (LambdaMax - 1) * consumed * consumed
    + Scale * ArbitragePct * consumed * Window
    + 100 * ExhaustionPct * Window * Window * short * short
    - IF warm
      THEN ExhaustionParts * ExhaustionParts * Window * Window * PrefixCacheDiscountPct * PrefixCacheWeightPct
      ELSE 0

directCost(k, t) == resolveTierCostPer1M(k, t) * VirtualCostFactor(k.quota, PinActive(k, t))

-----------------------------------------------------------------------------
(* A cheap tier that fails is paid for and the frontier is paid as well;    *)
(* the lower alpha, the more that risk weighs.                              *)
buildEscalationCost(cost, t) ==
  IF t = "frontier-cloud" THEN 0 ELSE cost[t] + cost["frontier-cloud"]

resolvePSuccessForTier(k, t) == IF t = "frontier-cloud" THEN Parts ELSE k.trust

(* Mutant: alpha itself weighs the risk.                                    *)
adjustedExpectedCostByAlpha(k, cost, t) ==
  LET p == resolvePSuccessForTier(k, t)  failing == (Parts - p) * buildEscalationCost(cost, t) IN
  Parts * (p * cost[t] + failing) + k.alpha * failing

adjustedExpectedCost(k, cost, t) ==
  LET p == resolvePSuccessForTier(k, t)  failing == (Parts - p) * buildEscalationCost(cost, t) IN
  Parts * (p * cost[t] + failing) + (Parts - k.alpha) * failing

listViableTiers(k) ==
  {t \in TierName : /\ \E m \in OnTier(k.fleet, t) : IsHealthy(m)
                    /\ t = "zero-tier" => k.ready}

(* The tiers are compared in the order in which the fleet names them.       *)
Before(k, t, u) ==
  Profile[First({m \in k.fleet : IsHealthy(m) /\ Profile[m].tier \in {t, u}})].tier = t
Best(k, cost) ==
  LET viable   == listViableTiers(k)
      expected == [t \in viable |-> adjustedExpectedCost(k, cost, t)] IN
  CHOOSE t \in viable : \A u \in viable \ {t} :
    \/ expected[t] < expected[u]
    \/ expected[t] = expected[u] /\ Before(k, t, u)

(* A zero tier that costs nothing is left out, ready or not; a tier without *)
(* a model costs nothing.                                                   *)
EconomicalCost(cost) ==
  IF cost["zero-tier"] # 0 /\ cost["zero-tier"] < cost["economical-cloud"] THEN cost["zero-tier"]
  ELSE cost["economical-cloud"]
hasSignificantPriceDelta(cost) ==
  cost["frontier-cloud"] - EconomicalCost(cost) >= 2 * CostUnit * MinPriceDelta

shouldKeepPinnedTier(k, t) ==
  LET candidate == Representative(k.fleet, t) IN
  /\ Pinned(k)
  /\ candidate \notin {NoModel, k.pin}
  /\ ~evaluateCacheEconomics(k.pin, candidate, Tokens)

Chosen(best, hint, reason) == [best |-> best, hint |-> hint, reason |-> reason]

selectTierByExpectedCost(k, cost) ==
  IF listViableTiers(k) = {} THEN Chosen(NoTierHint, NoTierHint, "no_viable_tier")
  ELSE LET best == Best(k, cost) IN
    IF best \in Cheap /\ ~hasSignificantPriceDelta(cost)
      THEN Chosen(best, NoTierHint, "price_delta_insufficient")
    ELSE IF shouldKeepPinnedTier(k, best)
      THEN Chosen(best, Profile[k.pin].tier, "pin_cache_economics")
    ELSE Chosen(best, best, "expected_cost")

-----------------------------------------------------------------------------
ChoiceInit ==
  /\ \E f \in ChoiceFleets, prices \in PriceLists :
       market = [fleet |-> f, prices |-> prices, quota |-> Window, trust |-> 0, alpha |-> 0,
                 ready |-> FALSE, pin |-> NoModel]
  /\ tierCosts = [t \in TierName |-> directCost(market, t)]
  /\ choice = selectTierByExpectedCost(market, tierCosts)

(* The next turn's stage; a turn without an expected-cost hint leaves no    *)
(* trace.                                                                   *)
Choose(k) ==
  /\ market' = k
  /\ tierCosts' = [t \in TierName |-> directCost(k, t)]
  /\ choice' = selectTierByExpectedCost(k, tierCosts')

FleetDiffers == \E f \in ChoiceFleets : Choose([market EXCEPT !.fleet = f])
PricesDiffer == \E prices \in PriceLists : Choose([market EXCEPT !.prices = prices])
QuotaDiffers == \E q \in 0 .. Window : Choose([market EXCEPT !.quota = q])
PromptDiffers == \E p \in 0 .. Parts : Choose([market EXCEPT !.trust = p])
AlphaDiffers == \E a \in 0 .. Parts : Choose([market EXCEPT !.alpha = a])
ReadyDiffers == Choose([market EXCEPT !.ready = ~@])
PinDiffers == \E m \in Models \cup {NoModel} : Choose([market EXCEPT !.pin = m])

ChoiceNext ==
  \/ FleetDiffers \/ PricesDiffer \/ QuotaDiffers \/ PromptDiffers \/ AlphaDiffers
  \/ ReadyDiffers \/ PinDiffers

ChoiceSpec == ChoiceInit /\ [][ChoiceNext]_choiceVars

-----------------------------------------------------------------------------
(* What may move the choice, and where to.  A prompt more likely to succeed *)
(* on a cheap model, or a higher alpha, does not take it to the frontier; a *)
(* pinned tier may still be kept.                                           *)
TrustKeepsCheap ==
  /\ choice.best \in Cheap => choice'.best \in Cheap
  /\ choice'.hint = "frontier-cloud" =>
       choice.hint = "frontier-cloud" \/ choice'.reason = "pin_cache_economics"

(* Without a pin a quota window weighs on all tiers alike: as it drains it  *)
(* only opens the gate of the price delta.                                  *)
DrainOpensGate ==
  /\ choice'.best = choice.best
  /\ choice.hint # NoTierHint => choice'.hint = choice.hint

(* Everything else of what the turn finds is as it was.                     *)
Only(changed) == \A field \in DOMAIN market \ changed : market'[field] = market[field]

(* A local tier that becomes ready attracts the choice, a pin attracts it   *)
(* to its tier, and a frontier that becomes dearer does not attract it,     *)
(* unless it was free: the risk of a cheap tier counts its price twice.     *)
FrontierDearer ==
  \A t \in TierName :
    LET old == resolveTierCostPer1M(market, t)  new == resolveTierCostPer1M(market', t) IN
    IF t = "frontier-cloud" THEN 0 < old /\ old < new ELSE old = new

TierMovesExplained ==
  [][/\ Only({"trust", "alpha"}) /\ market'.trust >= market.trust /\ market'.alpha >= market.alpha
          => TrustKeepsCheap
     /\ Only({"quota"}) /\ market'.quota < market.quota /\ market.pin = NoModel => DrainOpensGate
     /\ Only({"ready"}) /\ market'.ready => choice'.best \in {choice.best, "zero-tier"}
     /\ Only({"pin"}) /\ market.pin = NoModel /\ market'.pin \in Models
          => choice'.best \in {choice.best, Profile[market'.pin].tier}
     /\ Only({"prices"}) /\ FrontierDearer /\ choice.best \in Cheap => choice'.best \in Cheap
    ]_choiceVars
=============================================================================
