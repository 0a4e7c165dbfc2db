------------------------------ MODULE Delegation ------------------------------
(***************************************************************************)
(* routeAndDelegate (.pi/extensions/smart-router/route-and-delegate.ts) and *)
(* delegateWithOutcome (delegate-stream.ts): the turns of several sessions, *)
(* each routed, delegated to a provider and failed over until the stream of *)
(* the turn ends, all sharing one gateway.                                  *)
(*                                                                          *)
(* A step is what runs between two awaits.  The two reports a failed        *)
(* attempt makes to the gateway are separate steps: the second one follows  *)
(* an await on the first, and other turns may run between them.             *)
(***************************************************************************)
EXTENDS Gateway

CONSTANTS
  TurnSessions, (* sessions, each with at most one turn at a time           *)
  InputSizes,   (* estimated input tokens of a turn                         *)
  Answers       (* bound: how providers may answer in this instance         *)

(* How the stream of one attempt ends, in the terms the code tells apart.   *)
(*   done, length    a success; a stop for length without any output        *)
(*   server_error, rate_limited, quota, policy, thought_signature           *)
(*                   an error whose text carries a status or a code         *)
(*   quota_text      the usage-limit sentence, without status or code       *)
(*   opaque          any other text, such as a refused connection           *)
(*   silent          the stream ends without a terminal event               *)
(*   throw           the stream, or preparing it, throws                    *)
ProviderAnswer ==
  {"done", "length", "server_error", "rate_limited", "quota", "policy",
   "thought_signature", "quota_text", "opaque", "silent", "throw"}

ASSUME AnswersAssumption    == Answers \subseteq ProviderAnswer
ASSUME InputSizesAssumption == InputSizes \subseteq Nat /\ InputSizes # {}

VARIABLES
  gateway,   (* circuits and exhausted quotas, shared by all turns          *)
  turn       (* session -> the state of its current or last turn            *)

delegationVars == <<gateway, turn>>

(* routing: awaiting dispatch.  planning: awaiting the planning delegate.   *)
(* streaming: awaiting a provider.  settled: the provider's answer has been *)
(* reported once.  rescue: awaiting the safe default, the last resort.      *)
Phase == {"idle", "routing", "planning", "streaming", "settled", "rescue"}

(* How a turn ended: the answer of a provider was passed on, or an error    *)
(* message of the router's own.                                             *)
Ending == {"none", "committed", "aborted", "no_fit", "degraded", "thrown"}

(* fleet: effectiveFleet.  tokens: estimatedInputTokens.  chosen: the       *)
(* decision's model; target: the model delegated to, which differs from     *)
(* chosen when the registry lacks it.  failed: failedModelIds.  cramped:    *)
(* headroomExcludedModelIds.  replayed: geminiReplayFailoverAttempted.      *)
Turn ==
  [phase : Phase, ending : Ending,
   fleet : SUBSET Models, tokens : Nat, aborted : BOOLEAN,
   chosen : Selected, target : Models \cup {NoModel}, answer : ProviderAnswer \cup {"none"},
   failed : SUBSET Models, cramped : SUBSET Models, replayed : BOOLEAN]

Resting ==
  [phase |-> "idle", ending |-> "none", fleet |-> {}, tokens |-> 0, aborted |-> FALSE,
   chosen |-> UnknownModel, target |-> NoModel, answer |-> "none",
   failed |-> {}, cramped |-> {}, replayed |-> FALSE]

Ended(how) == [Resting EXCEPT !.ending = how]

DelegationInit ==
  /\ gateway = NewGateway
  /\ turn = [s \in TurnSessions |-> Resting]

-----------------------------------------------------------------------------
(* Operators on one turn.                                                   *)

(* resolveTargetModel and resolveFallbackModel: the registry entry of the   *)
(* chosen model, or of the safe default.                                    *)
resolveTargetModel(m) == IF m \in Models /\ Registered(m) THEN m ELSE NoModel
resolveFallbackModel(fleet) == resolveTargetModel(safeCloudDefault(fleet))

(* resolveHeadroomFallbackTarget.  It asks the same question of the same    *)
(* fleet each time, and gives up when the answer was already too small.     *)
resolveHeadroomFallbackTarget(t, cramped) ==
  LET wider == resolveContextOverflowFallback(t.fleet, t.tokens, Profile[t.target].provider)
  IN  IF /\ resolveTargetModel(wider) # NoModel
         /\ wider \notin cramped
         /\ HasHeadroom(wider, t.tokens)
      THEN wider ELSE NoModel

(* Mutant: a fallback that was not found is delegated to.                   *)
EscalatedUnchecked(t) ==
  LET cramped == t.cramped \cup {t.target}
      wider   == resolveHeadroomFallbackTarget(t, cramped)
  IN  [t EXCEPT !.phase = "streaming", !.cramped = cramped, !.answer = "none",
                !.chosen = wider, !.target = wider]

(* Leaving a target that is too small for the input.                        *)
Escalated(t) ==
  LET cramped == t.cramped \cup {t.target}
      wider   == resolveHeadroomFallbackTarget(t, cramped)
  IN  IF wider = NoModel THEN Ended("no_fit")
      ELSE [t EXCEPT !.phase = "streaming", !.cramped = cramped, !.answer = "none",
                     !.chosen = wider, !.target = wider]

(* The top of the loop: the abort check, then the headroom check.  A model  *)
(* escalated to has headroom, so the loop comes round once at most.         *)
Attempt(t) ==
  IF t.aborted THEN Ended("aborted")
  ELSE IF HasHeadroom(t.target, t.tokens)
  THEN [t EXCEPT !.phase = "streaming", !.answer = "none"]
  ELSE Escalated(t)

(* From a decision to the loop.                                             *)
Delegated(t) ==
  LET routed == resolveTargetModel(t.chosen)
      target == IF routed # NoModel THEN routed ELSE resolveFallbackModel(t.fleet)
  IN  IF target = NoModel THEN Ended("degraded")
      ELSE Attempt([t EXCEPT !.target = target])

(* A failover picked m: the loop goes on with it, unless it is the model    *)
(* that just failed or the registry lacks it.                               *)
CanSwitch(t, m) == resolveTargetModel(m) # NoModel /\ m # t.target
SwitchedTo(t, m) == Attempt([t EXCEPT !.chosen = m, !.target = m])

-----------------------------------------------------------------------------
(* A new turn: the Gemini history guard may take the Google models out.     *)
Submit(s) ==
  /\ turn[s].phase = "idle"
  /\ \E tokens \in InputSizes, guard \in {{}, {m \in Models : IsGoogle(m)}} :
       turn' = [turn EXCEPT ![s] = [Resting EXCEPT !.phase  = "routing",
                                                   !.fleet  = Models \ guard,
                                                   !.tokens = tokens]]
  /\ UNCHANGED gateway

(* The host cancels the turn: the signal is seen at the next check.         *)
Abort(s) ==
  /\ turn[s].phase # "idle"
  /\ ~turn[s].aborted
  /\ turn' = [turn EXCEPT ![s].aborted = TRUE]
  /\ UNCHANGED gateway

(* dispatch returns.  The pipeline may select any model of the fleet, or    *)
(* none; then the breaker has its say, and a planning turn goes to its      *)
(* delegate first.                                                          *)
Dispatch(s) ==
  /\ turn[s].phase = "routing"
  /\ turn[s].fleet # {}
  /\ \E routed \in turn[s].fleet \cup {UnknownModel} :
       LET selection == applyCircuitBreaker(gateway, routed, turn[s].fleet)
       IN  /\ gateway' = selection.gw
           /\ \E chosen \in selection.choices :
                LET t == [turn[s] EXCEPT !.chosen = chosen]
                IN  \/ turn' = [turn EXCEPT ![s] = Delegated(t)]
                    \/ /\ chosen = routed /\ chosen # UnknownModel
                       /\ turn' = [turn EXCEPT ![s] =
                                     IF t.aborted THEN Ended("aborted")
                                     ELSE [t EXCEPT !.phase = "planning"]]

(* Something before dispatch throws; always so when the guard left no model *)
(* to route to.  The safe default answers instead, if there is one.         *)
RoutingFails(s) ==
  /\ turn[s].phase = "routing"
  /\ LET default == resolveFallbackModel(turn[s].fleet)
     IN  turn' = [turn EXCEPT ![s] =
                    IF turn[s].aborted THEN Ended("aborted")
                    ELSE IF default = NoModel THEN Ended("thrown")
                    ELSE [turn[s] EXCEPT !.phase = "rescue", !.target = default]]
  /\ UNCHANGED gateway

(* The planning delegate answers or times out: the decision stands, or      *)
(* moves to the delegate's frontier model without asking the breaker.       *)
PlanningResolves(s) ==
  /\ turn[s].phase = "planning"
  /\ \E chosen \in {turn[s].chosen} \cup OnTier(Models, "frontier-cloud") :
       turn' = [turn EXCEPT ![s] = Delegated([turn[s] EXCEPT !.chosen = chosen])]
  /\ UNCHANGED gateway

-----------------------------------------------------------------------------
(* What delegateWithOutcome reports to the gateway: the parsed error, where *)
(* an error that does not parse is no error at all.                         *)
ParsedError(answer) ==
  CASE answer \in {"done", "length", "opaque", "quota_text"} -> "none"
    [] answer = "server_error"                               -> "infra"
    [] answer \in {"rate_limited", "quota"}                  -> answer
    [] OTHER                                                 -> "other"

(* What the failover decision looks at: the parsed error, or the bare text. *)
FailoverError(answer) ==
  CASE answer = "quota_text" -> "quota"
    [] answer = "opaque"     -> "other"
    [] OTHER                 -> ParsedError(answer)

Reported(gw, m, answer) ==
  IF answer \in {"silent", "throw"} THEN gw ELSE recordOutcome(gw, m, ParsedError(answer))

Answerable(m) == {a \in Answers : a = "thought_signature" => IsGoogle(m)}

(* The provider's stream ends.  Only Google sends thought-signature errors. *)
ProviderAnswers(s) ==
  /\ turn[s].phase = "streaming"
  /\ \E answer \in Answerable(turn[s].target) :
       /\ gateway' = Reported(gateway, turn[s].target, answer)
       /\ turn' = [turn EXCEPT ![s].phase = "settled", ![s].answer = answer]

(* An event of the stream, or its preparation, meets the abort signal.      *)
StreamAborted(s) ==
  /\ turn[s].phase \in {"streaming", "rescue"}
  /\ turn[s].aborted
  /\ turn' = [turn EXCEPT ![s] = Ended("aborted")]
  /\ UNCHANGED gateway

(* The last resort has no failover of its own: whatever it answers is       *)
(* passed on, and what it throws ends the stream.                           *)
RescueAnswers(s) ==
  /\ turn[s].phase = "rescue"
  /\ \E answer \in Answerable(turn[s].target) :
       /\ gateway' = Reported(gateway, turn[s].target, answer)
       /\ turn' = [turn EXCEPT ![s] =
                     [Ended(IF answer = "throw" THEN "thrown" ELSE "committed")
                        EXCEPT !.target = turn[s].target, !.answer = answer]]

-----------------------------------------------------------------------------
(* The loop body after the await, one action per branch.                    *)

Settled(s, answers) == turn[s].phase = "settled" /\ turn[s].answer \in answers

(* Nothing to retry: the held terminal event is forwarded.                  *)
Commit(s) ==
  /\ Settled(s, ProviderAnswer \ {"length", "throw", "thought_signature"})
  /\ ~shouldFailoverOnProviderError(turn[s].target, FailoverError(turn[s].answer))
  /\ turn' = [turn EXCEPT ![s] = Ended("committed")]
  /\ UNCHANGED gateway

(* A stop for length with no output is treated as a missing headroom.       *)
LengthStop(s) ==
  /\ Settled(s, {"length"})
  /\ LET t == Escalated(turn[s])
     IN  turn' = [turn EXCEPT ![s] = IF t.phase = "streaming" /\ t.aborted
                                     THEN Ended("aborted") ELSE t]
  /\ UNCHANGED gateway

(* The turn goes on with one of the selected models, or ends if there is    *)
(* none it can go on with.                                                  *)
FailOver(s, t, selection, otherwise) ==
  /\ gateway' = selection.gw
  /\ \/ \E m \in selection.choices :
          turn' = [turn EXCEPT ![s] = IF CanSwitch(t, m) THEN SwitchedTo(t, m)
                                      ELSE otherwise]
     \/ selection.choices = {} /\ turn' = [turn EXCEPT ![s] = otherwise]

(* Mutant: the replacement comes from the whole fleet.                      *)
ReplayAnyProvider(s) ==
  /\ Settled(s, {"thought_signature"})
  /\ LET t == [turn[s] EXCEPT !.replayed = TRUE, !.failed = @ \cup {turn[s].target}]
     IN  IF turn[s].replayed
         THEN turn' = [turn EXCEPT ![s] = Ended("committed")] /\ UNCHANGED gateway
         ELSE FailOver(s, t, selectFailover(gateway, t.chosen, t.failed, t.fleet),
                       Ended("committed"))

(* One failover per turn, to a model that is not Google's.                  *)
ReplayIncompatible(s) ==
  /\ Settled(s, {"thought_signature"})
  /\ LET t         == [turn[s] EXCEPT !.replayed = TRUE, !.failed = @ \cup {turn[s].target}]
         nonGoogle == {m \in t.fleet : ~IsGoogle(m)}
     IN  IF turn[s].replayed \/ nonGoogle = {}
         THEN turn' = [turn EXCEPT ![s] = Ended("committed")] /\ UNCHANGED gateway
         ELSE FailOver(s, t, selectFailover(gateway, t.chosen, t.failed, nonGoogle),
                       Ended("committed"))

(* Mutant: the failed model is not remembered.                              *)
ProviderFailedForgets(s) ==
  /\ Settled(s, ProviderAnswer \ {"length", "throw", "thought_signature"})
  /\ LET error == FailoverError(turn[s].answer)
         t     == turn[s]
     IN  /\ shouldFailoverOnProviderError(t.target, error)
         /\ FailOver(s, t,
              selectFailover(recordOutcome(gateway, t.target, error),
                             t.chosen, t.failed, t.fleet),
              Ended("committed"))

(* An infrastructure or quota error: reported a second time, then failed    *)
(* over.                                                                    *)
ProviderFailed(s) ==
  /\ Settled(s, ProviderAnswer \ {"length", "throw", "thought_signature"})
  /\ LET error == FailoverError(turn[s].answer)
         t     == [turn[s] EXCEPT !.failed = @ \cup {turn[s].target}]
     IN  /\ shouldFailoverOnProviderError(t.target, error)
         /\ FailOver(s, t,
              selectFailover(recordOutcome(gateway, t.target, error),
                             t.chosen, t.failed, t.fleet),
              Ended("committed"))

(* The catch block: an abort ends the turn; a code the breaker ignores is   *)
(* reported; failover, then the safe default, then the degraded message.    *)
DelegationThrew(s) ==
  /\ Settled(s, {"throw"})
  /\ LET t       == [turn[s] EXCEPT !.failed = @ \cup {turn[s].target}]
         default == resolveFallbackModel(t.fleet)
         resort  == IF default \in {NoModel, t.target} THEN Ended("degraded")
                    ELSE [t EXCEPT !.phase = "rescue", !.target = default, !.answer = "none"]
     IN  IF t.aborted
         THEN turn' = [turn EXCEPT ![s] = Ended("aborted")] /\ UNCHANGED gateway
         ELSE FailOver(s, t, selectFailover(recordOutcome(gateway, t.target, "other"),
                                            t.chosen, t.failed, t.fleet),
                       resort)

(* Time passes for every circuit.                                           *)
Tick ==
  /\ gateway' = [gateway EXCEPT !.circuit = [m \in Models |-> Aged(@[m])]]
  /\ UNCHANGED turn

Progress(s) ==
  \/ Dispatch(s) \/ RoutingFails(s) \/ PlanningResolves(s)
  \/ ProviderAnswers(s) \/ StreamAborted(s) \/ RescueAnswers(s)
  \/ Commit(s) \/ LengthStop(s) \/ ReplayIncompatible(s)
  \/ ProviderFailed(s) \/ DelegationThrew(s)

DelegationNext ==
  \/ \E s \in TurnSessions : Submit(s) \/ Abort(s) \/ Progress(s)
  \/ Tick

DelegationSpec == DelegationInit /\ [][DelegationNext]_delegationVars

(* An await in flight is eventually over: the event loop runs every ready   *)
(* continuation, and providers are assumed to end their streams.            *)
DelegationFairSpec == DelegationSpec /\ \A s \in TurnSessions : WF_delegationVars(Progress(s))

-----------------------------------------------------------------------------
DelegationTypeOK ==
  /\ gateway \in GatewayState
  /\ turn \in [TurnSessions -> Turn]

(* What each circuit state says of its counters, whatever order the reports *)
(* of interleaved turns arrive in: a closed circuit is below the failure    *)
(* threshold, a half-open one is below the success threshold and has not    *)
(* failed since its first success.                                          *)
CircuitsConsistent ==
  \A m \in Models :
    LET c == gateway.circuit[m]
    IN  /\ c.state = "closed" => c.failures < FailureThreshold
        /\ c.state = "half_open" => c.successes < HalfOpenSuccesses
        /\ c.state = "half_open" /\ c.successes > 0 => c.failures = 0

(* A turn goes back to a model that failed it only after some model turned  *)
(* out too small for its input: failover itself never repeats a model.      *)
NoRetryWithoutEscalation ==
  \A s \in TurnSessions :
    turn[s].phase = "streaming" /\ turn[s].target \in turn[s].failed => turn[s].cramped # {}

(* When dispatch settles on a model whose circuit is cooling down, no other *)
(* healthy model of the turn's fleet could have been asked instead.         *)
FailOpenOnlyWhenAllOpen ==
  [][\A s \in TurnSessions :
       LET t == turn'[s]
           c == gateway'.circuit
       IN  /\ turn[s].phase = "routing"
           /\ t.phase \in {"streaming", "planning"}
           /\ t.chosen # UnknownModel
           /\ t.cramped = {} /\ t.target = t.chosen
           /\ CoolingDown(c[t.chosen])
           => \A m \in t.fleet \ {t.chosen} : IsHealthy(m) => CoolingDown(c[m])]_delegationVars

(* After a thought-signature error the turn goes on with a model that is    *)
(* not Google's, as the README has it (it "never retries Gemini<->Gemini    *)
(* for this error"), unless headroom escalation replaced the one selected:  *)
(* that looks at the whole fleet again and may return to a Google model.    *)
ReplaySelectsNonGoogle ==
  [][\A s \in TurnSessions :
       /\ turn[s].phase = "settled" /\ turn[s].answer = "thought_signature"
       /\ turn'[s].phase = "streaming"
       => ~IsGoogle(turn'[s].target) \/ turn'[s].cramped # {}]_delegationVars

(* When a subscription model fails for its quota, the turn moves to another *)
(* model of a subscription only if that is the auto model, or if every      *)
(* untried auto model and every untried economical model outside the        *)
(* subscriptions is cooling down.                                           *)
QuotaLeavesSubscription ==
  [][\A s \in TurnSessions :
       LET t == turn'[s]
           untried == Candidates(t.fleet, turn[s].chosen, t.failed)
       IN  /\ turn[s].phase = "settled" /\ t.phase = "streaming" /\ t.cramped = {}
           /\ Profile[turn[s].target].subscription
           /\ MeansQuota(turn[s].target, FailoverError(turn[s].answer))
           /\ Profile[t.target].subscription /\ ~Profile[t.target].auto
           => \A m \in untried :
                \/ Profile[m].auto
                \/ Profile[m].tier = "economical-cloud" /\ ~Profile[m].subscription
                => CoolingDown(gateway'.circuit[m])]_delegationVars

(* A circuit opens only on an error of its own model that isInfraError      *)
(* counts: a timeout, a network failure or a 5xx, and the 429 of a model    *)
(* without subscription, which the comment that heads circuit-breaker.ts    *)
(* does not list and the README ("4xx [...] errors do not trip the          *)
(* breaker") excludes, but resilience.test.ts expects.  No 429 of a         *)
(* subscription, no other 4xx, no error without a status and no turn of     *)
(* another model trips it.                                                  *)
OnlyInfraTrips ==
  [][\A m \in Models :
       /\ gateway.circuit[m].state # "open"
       /\ gateway'.circuit[m].state = "open"
       => \E s \in TurnSessions :
            /\ turn[s].target = m
            /\ \/ "server_error" \in {turn[s].answer, turn'[s].answer}
               \/ /\ "rate_limited" \in {turn[s].answer, turn'[s].answer}
                  /\ ~Profile[m].subscription]_delegationVars

(* circuit-breaker.ts on recordSuccess: "Record a successful response from  *)
(* a model endpoint".  A half-open circuit closes on a success only.        *)
OnlySuccessCloses ==
  [][\A m \in Models :
       /\ gateway.circuit[m].state = "half_open"
       /\ gateway'.circuit[m].state = "closed"
       => \E s \in TurnSessions :
            turn[s].target = m /\ turn'[s].answer \in {"done", "length"}]_delegationVars

(* Every turn ends, or some model was too small for its input.              *)
TurnEndsOrEscalates ==
  \A s \in TurnSessions :
    turn[s].phase # "idle" ~> turn[s].phase = "idle" \/ turn[s].cramped # {}

(* README: the failover loop "ends in SP-226 fail-open safe default".       *)
TurnEnds ==
  \A s \in TurnSessions : turn[s].phase # "idle" ~> turn[s].phase = "idle"
=============================================================================
