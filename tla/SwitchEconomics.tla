---------------------------- MODULE SwitchEconomics ----------------------------
(***************************************************************************)
(* When is it worth leaving a pinned model?  The cache breakeven gate       *)
(* (domain/pinning/cache-breakeven.ts, evaluateModelSwitchBreakeven in      *)
(* session-pinner.ts) and the older warm-up rule                            *)
(* (domain/pinning/cache-economics.ts).                                     *)
(*                                                                          *)
(* The code computes dollars in floating point.  Here a turn of t tokens on *)
(* a model of cost c costs t * c, and every amount is a whole number of     *)
(* 1/10000 of that unit, so the percentages of the code lose nothing.       *)
(***************************************************************************)
EXTENDS ModelFleet, Integers

CONSTANTS
  PrefixCacheWeightPct,   (* saar.prefix_cache_weight, 20 by default        *)
  PrefixCacheDiscountPct, (* DEFAULT_PREFIX_CACHE_DISCOUNT, 90              *)
  QuotaUpliftPct,         (* what a spent subscription window does to costs:*)
                          (* 100 when it is full, 0 when there is no window *)
  WarmupPct,              (* warmupCostMultiplier - 1, 15 by default        *)
  RemainingTurns,         (* projectedRemainingTurns, 5 by default          *)
  MinSavings              (* minSavingsThreshold                            *)

ASSUME CachePctAssumption ==
  /\ PrefixCacheWeightPct \in 0 .. 100
  /\ PrefixCacheDiscountPct \in 0 .. 100
ASSUME UpliftAssumption == QuotaUpliftPct \in Nat /\ (QuotaUpliftPct = 0 \/ QuotaUpliftPct >= 100)
ASSUME WarmupAssumption ==
  WarmupPct \in Nat /\ RemainingTurns \in Nat /\ MinSavings \in Nat

Usd == 10000

computeFutureCacheValue(t, cost) == t * cost * (PrefixCacheDiscountPct * PrefixCacheWeightPct)

computeCacheReprimeCost(t, cost) == Usd * (t * cost)

(* The pinned model pays for its tokens less the credit of its warm cache;  *)
(* the window uplift weighs on both.                                        *)
computeMarginalSwitchSavings(pinned, candidate, t, uplift) ==
  LET saved == Profile[pinned].cost - Profile[candidate].cost
  IN  IF uplift = 0 THEN Usd * (t * saved)
      ELSE 100 * uplift * (t * saved) - computeFutureCacheValue(t, Profile[pinned].cost)

(* A negative component is invalid input, and invalid input denies.         *)
evaluateModelSwitchBreakeven(pinned, candidate, t, uplift) ==
  LET marginal == computeMarginalSwitchSavings(pinned, candidate, t, uplift)
  IN  \/ pinned = candidate
      \/ /\ marginal >= 0
         /\ marginal + computeFutureCacheValue(t, Profile[pinned].cost)
              > computeCacheReprimeCost(t, Profile[candidate].cost)

(* FR-008 rule 4, before the breakeven gate existed.                        *)
evaluateCacheEconomics(pinned, candidate, t) ==
  LET projected == (Profile[pinned].cost - Profile[candidate].cost) * t * RemainingTurns
  IN  /\ Profile[pinned].provider # Profile[candidate].provider
      /\ projected >= MinSavings
      /\ t * WarmupPct * Profile[candidate].cost < 100 * projected
=============================================================================
