------------------------------ MODULE FleetLemmas ------------------------------
(***************************************************************************)
(* Facts about the selectors of ModelFleet, for every catalog: what each of *)
(* them may answer.  DelegationProofs and RouterProofs build on them.       *)
(***************************************************************************)
EXTENDS ModelFleet, WellFoundedInduction, TLAPS

LEMMA FirstBelongs ==
  ASSUME NEW fleet \in SUBSET Models, fleet # {}
  PROVE  First(fleet) \in fleet
<1> DEFINE hits == {i \in DOMAIN Catalog : Catalog[i] \in fleet}
<1>1. hits # {} /\ hits \subseteq Nat
  BY CatalogAssumption
<1>2. PICK i \in hits : \A j \in hits : <<j, i>> \notin OpToRel(<, Nat)
  BY <1>1, NatLessThanWellFounded, WFMin
<1>3. \A j \in hits : ~ (j < i)
  BY <1>1, <1>2, Zenon DEF OpToRel
<1>4. \A j \in hits : i <= j
  BY <1>1, <1>3
<1>5. \E k \in DOMAIN Catalog :
        /\ Catalog[k] \in fleet
        /\ \A j \in DOMAIN Catalog : Catalog[j] \in fleet => k <= j
  BY <1>4
<1> QED BY <1>5 DEF First

LEMMA FirstOrNone ==
  ASSUME NEW fleet \in SUBSET Models
  PROVE  First(fleet) \in fleet \cup {NoModel}
BY FirstBelongs DEF First

(* The sets of best models are made of healthy members of the fleet.        *)
LEMMA LargestWindowMembers ==
  ASSUME NEW fleet \in SUBSET Models
  PROVE  LargestWindow(fleet) \subseteq {m \in fleet : IsHealthy(m)}
BY DEF LargestWindow

LEMMA LowestCostMembers ==
  ASSUME NEW fleet \in SUBSET Models
  PROVE  LowestCost(fleet) \subseteq {m \in fleet : IsHealthy(m)}
BY DEF LowestCost

(* An overflow fallback is healthy and the input fits it.                   *)
LEMMA OverflowFallbackMembers ==
  ASSUME NEW fleet \in SUBSET Models, NEW tokens, NEW provider
  PROVE  OverflowFallbacks(fleet, tokens, provider)
           \subseteq {m \in fleet : IsHealthy(m) /\ modelFitsContext(m, tokens)}
<1> DEFINE fitting == {m \in fleet : modelFitsContext(m, tokens)}
           near    == {m \in fitting : Profile[m].provider = provider}
           far     == OnTier(fitting, "frontier-cloud")
<1>1. LargestWindow(near) \subseteq {m \in near : IsHealthy(m)}
  BY LargestWindowMembers
<1>2. far \in SUBSET fitting
  BY DEF OnTier
<1>3. LowestCost(far) \subseteq {m \in far : IsHealthy(m)}
  BY <1>2, LowestCostMembers
<1> QED BY <1>1, <1>2, <1>3 DEF OverflowFallbacks

LEMMA SafeDefaultMembers ==
  ASSUME NEW fleet \in SUBSET Models
  PROVE  SafeDefaults(fleet) \subseteq {m \in fleet : IsHealthy(m)}
BY DEF SafeDefaults, OnTier

(* Hence each selector answers with a member of the fleet, or NoModel.      *)
LEMMA LargestWindowBelongs ==
  ASSUME NEW fleet \in SUBSET Models
  PROVE  selectLargestWindowModel(fleet) \in fleet \cup {NoModel}
BY LargestWindowMembers, FirstOrNone DEF selectLargestWindowModel

LEMMA LowestCostBelongs ==
  ASSUME NEW fleet \in SUBSET Models
  PROVE  selectLowestCostModel(fleet) \in fleet \cup {NoModel}
BY LowestCostMembers, FirstOrNone DEF selectLowestCostModel

LEMMA OverflowFallbackBelongs ==
  ASSUME NEW fleet \in SUBSET Models, NEW tokens, NEW provider
  PROVE  resolveContextOverflowFallback(fleet, tokens, provider) \in fleet \cup {NoModel}
BY OverflowFallbackMembers, FirstOrNone DEF resolveContextOverflowFallback

LEMMA SafeDefaultBelongs ==
  ASSUME NEW fleet \in SUBSET Models
  PROVE  safeCloudDefault(fleet) \in fleet \cup {NoModel}
BY SafeDefaultMembers, FirstOrNone DEF safeCloudDefault
=============================================================================
