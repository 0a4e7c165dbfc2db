------------------------------- MODULE MCShared -------------------------------
(***************************************************************************)
(* What a process shares with others, and its turns with one another, part  *)
(* beside part: the store in its shipped proportions (MCProgress has the    *)
(* other ones), the opening and migration of its database, the rate limit   *)
(* table; the gateway with the turns of a session over models of a          *)
(* subscription, of a session over three models of different tier, provider *)
(* and window, and of two sessions over two models of a tier; and what the  *)
(* models of a session that mixes Google, Cursor and others are sent of its *)
(* history.                                                                 *)
(***************************************************************************)
EXTENDS SmallFleets, StoreOpening, TokenBucket, ReplayHistory

CONSTANTS p1, p2, f1, f2

TwoProcesses == {p1, p2}
TwoFiles     == {f1, f2}

(* Cursor models: one billed to the subscription, the opaque auto model,    *)
(* and an economical one elsewhere.                                         *)
PlanModels  == {"composer", "auto", "mini"}
PlanCatalog == <<"composer", "auto", "mini">>
PlanModel ==
  [tier |-> "frontier-cloud", provider |-> "cursor", healthy |-> TRUE, window |-> 40,
   registryWindow |-> 40, maxOutput |-> 10, cost |-> 1, subscription |-> TRUE, auto |-> FALSE]
PlanProfile ==
  [m \in PlanModels |->
     CASE m = "composer" -> PlanModel
       [] m = "auto"     -> [PlanModel EXCEPT !.auto = TRUE]
       [] m = "mini"     -> [PlanModel EXCEPT !.tier = "economical-cloud", !.provider = "openai",
                                                !.subscription = FALSE]]
QuotaAnswers == {"server_error", "rate_limited", "quota", "quota_text", "policy", "silent"}

(* Two Google models, one of them through cursor and another behind a       *)
(* provider of another name, and a fleet with Google's alone.               *)
HistoryModels == {"flash", "pro", "proxy", "claude", "cursor", "cursorGemini"}
HistoryScopes == {HistoryModels, {"flash", "pro"}}

A(type, state) == [type |-> type, state |-> state]
Call           == A("toolCall", "plain")
SignedCall     == A("toolCall", "signed")
SignedThinking == A("thinking", "signed")
Lifecycle      == A("thinking", "plain")
HistoryWrites ==
  [m \in HistoryModels |->
     CASE m \in {"flash", "pro"} ->
            {{Call}, {SignedCall}, {SignedThinking, SignedCall}, {A("text", "signed")}}
       [] m = "claude" ->
            {{A("text", "plain")}, {Call}, {SignedCall}, {SignedThinking, Call}, {A("thinking", "redacted")}}
       [] m = "cursor" -> {{Lifecycle, Call}, {Lifecycle}}
       [] OTHER -> {{SignedCall}, {Lifecycle}}]

-----------------------------------------------------------------------------
VARIABLES part,  \* the part that moves
          store, ticket, want, result,
          quotaGateway, quotaTurn, mixedGateway, mixedTurn, twinGateway, twinTurn

(* MaxBatchSize <= Capacity, as in the defaults (64 and 1024), at its       *)
(* boundary.                                                                *)
Shipped == INSTANCE SqliteStore WITH
  Sessions <- TwoSessions, Tables <- {"telemetry"},
  MaxBatchSize <- 3, Capacity <- 3, RowLimit <- 2, MaxTicket <- 4, Cutoffs <- {0, 2}

Quota == INSTANCE Delegation WITH
  gateway <- quotaGateway, turn <- quotaTurn,
  Models <- PlanModels, Catalog <- PlanCatalog, Profile <- PlanProfile,
  NoModel <- "none", UnknownModel <- "unknown",
  SafetyMarginPct <- 90, MinOutputFloor <- 2, HeadroomBuffer <- 1,
  FailureThreshold <- 2, ResetTimeout <- 1, HalfOpenSuccesses <- 1,
  TurnSessions <- OneSession, InputSizes <- SmallInput, Answers <- QuotaAnswers

Mixed == INSTANCE Delegation WITH
  gateway <- mixedGateway, turn <- mixedTurn,
  Models <- MixedModels, Catalog <- MixedCatalog, Profile <- MixedProfile,
  NoModel <- "none", UnknownModel <- "unknown",
  SafetyMarginPct <- 90, MinOutputFloor <- 2, HeadroomBuffer <- 1,
  FailureThreshold <- 2, ResetTimeout <- 1, HalfOpenSuccesses <- 1,
  TurnSessions <- OneSession, InputSizes <- BothInputs, Answers <- MixedAnswers

Twin == INSTANCE Delegation WITH
  gateway <- twinGateway, turn <- twinTurn,
  Models <- TwinModels, Catalog <- TwinCatalog, Profile <- TwinProfile,
  NoModel <- "none", UnknownModel <- "unknown",
  SafetyMarginPct <- 90, MinOutputFloor <- 2, HeadroomBuffer <- 1,
  FailureThreshold <- 3, ResetTimeout <- 2, HalfOpenSuccesses <- 2,
  TurnSessions <- TwoSessions, InputSizes <- SmallInput, Answers <- InfraOrDone

storeVars == <<store, ticket, want, result>>
quotaVars == <<quotaGateway, quotaTurn>>
mixedVars == <<mixedGateway, mixedTurn>>
twinVars  == <<twinGateway, twinTurn>>
turnsVars == <<quotaVars, mixedVars, twinVars, replayVars>>

(* The parts share no state: a store's queue and rows mean nothing to the   *)
(* migrations that ended before it was there, no statement but the bucket's *)
(* own touches rate_limits, and gateway and history keep nothing in the     *)
(* store.  One part therefore moves here and the others rest, which loses   *)
(* none of its behaviours and adds the state spaces up instead of           *)
(* multiplying them.                                                        *)
SharedInit ==
  /\ part \in {"store", "bucket", "opening", "quota", "mixed", "twin", "replay"}
  /\ Shipped!Init /\ BucketInit /\ OpeningInit
  /\ part = "opening" \/ ~file[path].corrupt
  /\ Quota!DelegationInit /\ Mixed!DelegationInit /\ Twin!DelegationInit /\ ReplayInit

SharedNext ==
  /\ UNCHANGED part
  /\ \/ part = "store" /\ Shipped!Next /\ UNCHANGED <<bucketVars, openingVars, turnsVars>>
     \/ part = "bucket" /\ BucketNext /\ UNCHANGED <<storeVars, openingVars, turnsVars>>
     \/ part = "opening" /\ OpeningNext /\ UNCHANGED <<storeVars, bucketVars, turnsVars>>
     \/ /\ part \in {"quota", "mixed", "twin", "replay"}
        /\ UNCHANGED <<storeVars, bucketVars, openingVars>>
        /\ \/ part = "quota" /\ Quota!DelegationNext /\ UNCHANGED <<mixedVars, twinVars, replayVars>>
           \/ part = "mixed" /\ Mixed!DelegationNext /\ UNCHANGED <<quotaVars, twinVars, replayVars>>
           \/ part = "twin" /\ Twin!DelegationNext /\ UNCHANGED <<quotaVars, mixedVars, replayVars>>
           \/ part = "replay" /\ ReplayNext /\ UNCHANGED <<quotaVars, mixedVars, twinVars>>

SharedSpec ==
  SharedInit /\ [][SharedNext]_<<part, storeVars, bucketVars, openingVars, turnsVars>>

-----------------------------------------------------------------------------
(* SqliteStore's NoBackpressureDrop: in these proportions an open queue     *)
(* drops no append.                                                         *)
NoBackpressureDrop == Shipped!NoBackpressureDrop

(* Delegation's OnlyInfraTrips: of the errors with a 4xx status only the    *)
(* 429 of a model without subscription opens a circuit.                     *)
OnlyInfraTrips == Quota!OnlyInfraTrips

(* Delegation's QuotaLeavesSubscription: a model out of quota is left for   *)
(* the auto model or one outside the subscription.                          *)
QuotaLeavesSubscription == Quota!QuotaLeavesSubscription

(* Delegation's FailOpenOnlyWhenAllOpen, of both: an open circuit is used   *)
(* only when every healthy alternative is open too.  And though Twin puts   *)
(* the reports of another turn between the choice of a model and its call,  *)
(* a circuit agrees with its counters whatever order reports arrive in.     *)
BreakerRespected ==
  /\ Mixed!FailOpenOnlyWhenAllOpen
  /\ Twin!FailOpenOnlyWhenAllOpen
  /\ []Twin!CircuitsConsistent

(* Delegation's ReplaySelectsNonGoogle, where two of three models are        *)
(* Google's: after an incompatible replay the turn leaves that provider.     *)
ReplaySelectsNonGoogle == Mixed!ReplaySelectsNonGoogle
=============================================================================
