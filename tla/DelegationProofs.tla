--------------------------- MODULE DelegationProofs ---------------------------
(***************************************************************************)
(* Proofs about Delegation for every fleet, every set of sessions and every *)
(* breaker configuration: type correctness, the consistency of all circuits *)
(* under interleaved and repeated reports, that failover never returns to a *)
(* model that failed the turn unless headroom escalation does, and what a   *)
(* step may do: what opens a circuit, when an open one is asked, where a    *)
(* turn goes after a replay error or a spent quota.                         *)
(*                                                                          *)
(* The lemmas follow the composition: a circuit, the gateway, failover, the *)
(* operators on one turn; those about the fleet are in FleetLemmas.         *)
(***************************************************************************)
EXTENDS Delegation, FleetLemmas, TLAPS

-----------------------------------------------------------------------------
(* One circuit.                                                             *)

ConsistentCircuit(c) ==
  /\ c \in CircuitEntry
  /\ c.state = "closed" => c.failures < FailureThreshold
  /\ c.state = "half_open" => c.successes < HalfOpenSuccesses
  /\ c.state = "half_open" /\ c.successes > 0 => c.failures = 0

USE DEF CircuitState

LEMMA NewCircuitConsistent == ConsistentCircuit(NewCircuit)
BY FailureThresholdAssumption, ResetTimeoutAssumption, HalfOpenSuccessesAssumption
   DEF ConsistentCircuit, NewCircuit, CircuitEntry

LEMMA ZeroInRange ==
  /\ 0 \in 0 .. FailureThreshold
  /\ 0 \in 0 .. HalfOpenSuccesses
  /\ 0 \in 0 .. ResetTimeout
BY FailureThresholdAssumption, HalfOpenSuccessesAssumption, ResetTimeoutAssumption

(* What each state requires, given the type.                                *)
LEMMA OpenIsConsistent ==
  ASSUME NEW c \in CircuitEntry, c.state = "open"
  PROVE  ConsistentCircuit(c)
BY DEF ConsistentCircuit

LEMMA ClosedIsConsistent ==
  ASSUME NEW c \in CircuitEntry, c.state = "closed", c.failures < FailureThreshold
  PROVE  ConsistentCircuit(c)
BY DEF ConsistentCircuit

LEMMA HalfOpenIsConsistent ==
  ASSUME NEW c \in CircuitEntry, c.state = "half_open",
         c.successes < HalfOpenSuccesses, c.successes = 0 \/ c.failures = 0
  PROVE  ConsistentCircuit(c)
BY DEF ConsistentCircuit, CircuitEntry

(* canDispatch, recordSuccess, recordFailure and the clock keep a circuit   *)
(* consistent.                                                              *)
LEMMA AskedConsistent ==
  ASSUME NEW c, ConsistentCircuit(c)
  PROVE  ConsistentCircuit(Asked(c))
<1> DEFINE probing == [c EXCEPT !.state = "half_open", !.successes = 0, !.age = 0]
<1>0. c \in CircuitEntry
  BY DEF ConsistentCircuit
<1>1. probing \in CircuitEntry /\ probing.state = "half_open" /\ probing.successes = 0
  BY <1>0, ZeroInRange DEF CircuitEntry
<1>2. ConsistentCircuit(probing)
  <2> HIDE DEF probing
  <2> QED BY <1>1, HalfOpenIsConsistent, HalfOpenSuccessesAssumption
<1> QED BY <1>2 DEF Asked

LEMMA AfterSuccessConsistent ==
  ASSUME NEW c, ConsistentCircuit(c)
  PROVE  ConsistentCircuit(AfterSuccess(c))
<1> DEFINE d == AfterSuccess(c)
<1>0. c \in CircuitEntry
  BY DEF ConsistentCircuit
<1>1. CASE c.state = "half_open"
  <2> DEFINE n == c.successes + 1
  <2>1. n \in 0 .. HalfOpenSuccesses
    BY <1>0, <1>1, HalfOpenSuccessesAssumption DEF ConsistentCircuit, CircuitEntry
  <2>2. /\ d \in CircuitEntry /\ d.failures = 0 /\ d.successes = n
        /\ d.state = IF n >= HalfOpenSuccesses THEN "closed" ELSE "half_open"
    <3>1. d = [c EXCEPT !.failures = 0, !.successes = n,
                        !.state = IF n >= HalfOpenSuccesses THEN "closed" ELSE @]
      BY <1>1 DEF AfterSuccess
    <3> HIDE DEF n, d
    <3> QED BY <1>0, <1>1, <2>1, <3>1, ZeroInRange DEF CircuitEntry
  <2>3. ConsistentCircuit(d)
    <3> HIDE DEF n, d
    <3> QED BY <2>1, <2>2, HalfOpenIsConsistent, ClosedIsConsistent,
               FailureThresholdAssumption, HalfOpenSuccessesAssumption
  <2> QED BY <2>3
<1>2. CASE c.state = "closed"
  <2>1. d = [c EXCEPT !.failures = 0, !.successes = 0]
    BY <1>2 DEF AfterSuccess
  <2>2. d \in CircuitEntry /\ d.failures = 0 /\ d.state = "closed"
    BY <1>0, <1>2, <2>1, ZeroInRange DEF CircuitEntry
  <2> QED BY <2>2, ClosedIsConsistent, FailureThresholdAssumption
<1>3. CASE c.state = "open"
  <2>1. d = [c EXCEPT !.failures = 0]
    BY <1>3 DEF AfterSuccess
  <2>2. d \in CircuitEntry /\ d.state = "open"
    BY <1>0, <1>3, <2>1, ZeroInRange DEF CircuitEntry
  <2> QED BY <2>2, OpenIsConsistent
<1> QED BY <1>0, <1>1, <1>2, <1>3 DEF CircuitEntry

LEMMA AfterFailureConsistent ==
  ASSUME NEW c, ConsistentCircuit(c)
  PROVE  ConsistentCircuit(AfterFailure(c))
<1> DEFINE n == Counted(c.failures)
           trips == c.state = "half_open" \/ n >= FailureThreshold
           d == AfterFailure(c)
<1>0. c \in CircuitEntry
  BY DEF ConsistentCircuit
<1>1. n \in 0 .. FailureThreshold
  BY <1>0, FailureThresholdAssumption DEF Counted, CircuitEntry
<1>2. d = IF trips
          THEN [c EXCEPT !.failures = n, !.successes = 0, !.state = "open", !.age = 0]
          ELSE [c EXCEPT !.failures = n, !.successes = 0]
  BY <1>0 DEF AfterFailure, CircuitEntry
<1> HIDE DEF n, d
<1>3. CASE trips
  <2>1. d \in CircuitEntry /\ d.state = "open"
    BY <1>0, <1>1, <1>2, <1>3, ZeroInRange DEF CircuitEntry
  <2>2. ConsistentCircuit(d)
    BY <2>1, OpenIsConsistent
  <2> QED BY <2>2 DEF d
<1>4. CASE ~trips
  <2>1. /\ d \in CircuitEntry /\ d.failures = n /\ d.state = c.state
        /\ c.state \in {"closed", "open"}
    BY <1>0, <1>1, <1>2, <1>4, ZeroInRange DEF CircuitEntry
  <2>2. n < FailureThreshold
    BY <1>1, <1>4, FailureThresholdAssumption
  <2>3. ConsistentCircuit(d)
    BY <2>1, <2>2, OpenIsConsistent, ClosedIsConsistent
  <2> QED BY <2>3 DEF d
<1> QED BY <1>3, <1>4

LEMMA AgedConsistent ==
  ASSUME NEW c, ConsistentCircuit(c)
  PROVE  ConsistentCircuit(Aged(c))
BY ResetTimeoutAssumption DEF ConsistentCircuit, Aged, CoolingDown, CircuitEntry

-----------------------------------------------------------------------------
(* The gateway.                                                             *)

ConsistentGateway(gw) ==
  /\ gw \in GatewayState
  /\ \A m \in Models : ConsistentCircuit(gw.circuit[m])

LEMMA NewGatewayConsistent == ConsistentGateway(NewGateway)
BY NewCircuitConsistent DEF ConsistentGateway, NewGateway, GatewayState, ConsistentCircuit

(* Changing the circuit of one model.                                       *)
LEMMA CircuitUpdate ==
  ASSUME NEW gw, ConsistentGateway(gw), NEW m \in Models,
         NEW c, ConsistentCircuit(c)
  PROVE  ConsistentGateway([gw EXCEPT !.circuit[m] = c])
<1> DEFINE g == [gw EXCEPT !.circuit[m] = c]
<1>1. g.circuit = [gw.circuit EXCEPT ![m] = c] /\ g.quota = gw.quota /\ g \in GatewayState
  BY DEF ConsistentGateway, GatewayState, ConsistentCircuit
<1>2. \A x \in Models : ConsistentCircuit(g.circuit[x])
  BY <1>1 DEF ConsistentGateway, GatewayState
<1> QED BY <1>1, <1>2 DEF ConsistentGateway

(* Changing every circuit at once.                                          *)
LEMMA CircuitsUpdate ==
  ASSUME NEW gw, ConsistentGateway(gw),
         NEW f \in [Models -> CircuitEntry],
         \A m \in Models : ConsistentCircuit(f[m])
  PROVE  ConsistentGateway([gw EXCEPT !.circuit = f])
BY DEF ConsistentGateway, GatewayState

LEMMA RecordOutcomeConsistent ==
  ASSUME NEW gw, ConsistentGateway(gw), NEW m \in Models, NEW error
  PROVE  ConsistentGateway(recordOutcome(gw, m, error))
<1> DEFINE c == gw.circuit[m]
<1>1. ConsistentCircuit(c) /\ c \in CircuitEntry
  BY DEF ConsistentGateway, ConsistentCircuit
<1>2. ConsistentGateway([gw EXCEPT !.circuit[m] = AfterSuccess(@)])
  BY <1>1, AfterSuccessConsistent, CircuitUpdate
<1>3. ConsistentGateway([gw EXCEPT !.circuit[m] = AfterFailure(@)])
  BY <1>1, AfterFailureConsistent, CircuitUpdate
<1>4. ConsistentGateway([gw EXCEPT !.quota = @ \cup {m}])
  BY DEF ConsistentGateway, GatewayState
<1> QED BY <1>2, <1>3, <1>4 DEF recordOutcome, MeansQuota, MeansInfra

LEMMA AskAllConsistent ==
  ASSUME NEW gw, ConsistentGateway(gw), NEW fleet
  PROVE  ConsistentGateway(AskAll(gw, fleet))
<1> DEFINE f == [m \in Models |-> IF m \in fleet THEN Asked(gw.circuit[m])
                                  ELSE gw.circuit[m]]
<1>1. \A m \in Models : ConsistentCircuit(f[m])
  BY AskedConsistent DEF ConsistentGateway
<1>2. f \in [Models -> CircuitEntry]
  BY <1>1 DEF ConsistentCircuit
<1>3. ConsistentGateway([gw EXCEPT !.circuit = f])
  <2> HIDE DEF f
  <2> QED BY <1>1, <1>2, CircuitsUpdate
<1> QED BY <1>3 DEF AskAll

LEMMA AgedGatewayConsistent ==
  ASSUME NEW gw, ConsistentGateway(gw)
  PROVE  ConsistentGateway([gw EXCEPT !.circuit = [m \in Models |-> Aged(@[m])]])
<1> DEFINE f == [m \in Models |-> Aged(gw.circuit[m])]
<1>1. \A m \in Models : ConsistentCircuit(f[m])
  BY AgedConsistent DEF ConsistentGateway
<1>2. f \in [Models -> CircuitEntry]
  BY <1>1 DEF ConsistentCircuit
<1>3. ConsistentGateway([gw EXCEPT !.circuit = f])
  <2> HIDE DEF f
  <2> QED BY <1>1, <1>2, CircuitsUpdate
<1> QED BY <1>3

-----------------------------------------------------------------------------
(* Failover: the gateway stays consistent and the choices are candidates.   *)

GoodSelection(sel, fleet) == ConsistentGateway(sel.gw) /\ sel.choices \subseteq fleet

LEMMA SelectionIsGood ==
  ASSUME NEW gw, ConsistentGateway(gw), NEW fleet, NEW choices \in SUBSET fleet
  PROVE  GoodSelection(Selection(gw, choices), fleet)
BY DEF GoodSelection, Selection

LEMMA SelectAmongGood ==
  ASSUME NEW gw, ConsistentGateway(gw), NEW fleet, NEW within \in SUBSET fleet
  PROVE  GoodSelection(SelectAmong(gw, within), fleet)
BY AskAllConsistent DEF GoodSelection, SelectAmong, Selection, Dispatchable

LEMMA SelectFirstGood ==
  ASSUME NEW gw, ConsistentGateway(gw), NEW fleet \in SUBSET Models,
         NEW within \in SUBSET fleet
  PROVE  GoodSelection(SelectFirst(gw, within), fleet)
<1> DEFINE able == Dispatchable(gw, within)
<1>1. able \in SUBSET fleet
  BY DEF Dispatchable
<1>2. CASE able = {}
  BY <1>2 DEF SelectFirst, GoodSelection, Selection
<1>3. CASE able # {}
  <2>1. First(able) \in fleet
    BY <1>1, <1>3, FirstBelongs
  <2> QED BY <1>3, <2>1, AskAllConsistent DEF SelectFirst, GoodSelection, Selection
<1> QED BY <1>2, <1>3

LEMMA QuotaFailoverGood ==
  ASSUME NEW gw, ConsistentGateway(gw), NEW fleet \in SUBSET Models,
         NEW selected, NEW excluded
  PROVE  GoodSelection(selectCursorQuotaFailover(gw, selected, excluded, fleet),
                       Candidates(fleet, selected, excluded))
<1> DEFINE open       == Candidates(fleet, selected, excluded)
           auto       == {m \in open : Profile[m].auto}
           economical == {m \in OnTier(open, "economical-cloud") : ~Profile[m].subscription}
           first      == SelectFirst(gw, auto)
<1>1. open \in SUBSET Models /\ auto \in SUBSET open /\ economical \in SUBSET open
  BY DEF Candidates, OnTier
<1> HIDE DEF open, auto, economical
<1>2. GoodSelection(first, open)
  BY <1>1, SelectFirstGood
<1>3. ConsistentGateway(first.gw)
  BY <1>2 DEF GoodSelection
<1>4. GoodSelection(SelectAmong(first.gw, economical), open)
  BY <1>1, <1>3, SelectAmongGood
<1>5. GoodSelection(Selection(gw, {}), open)
  BY SelectionIsGood
<1> QED BY <1>2, <1>4, <1>5
        DEF selectCursorQuotaFailover, OrElse, open, auto, economical

LEMMA FailoverGood ==
  ASSUME NEW gw, ConsistentGateway(gw), NEW fleet \in SUBSET Models,
         NEW selected, NEW excluded
  PROVE  GoodSelection(selectFailover(gw, selected, excluded, fleet),
                       Candidates(fleet, selected, excluded))
<1> DEFINE open   == Candidates(fleet, selected, excluded)
           sameTier == OnTier(open, DecisionTier(selected))
           quota  == selectCursorQuotaFailover(gw, selected, excluded, fleet)
           tiered == SelectAmong(quota.gw, sameTier)
<1>1. GoodSelection(quota, open)
  BY QuotaFailoverGood
<1>2. sameTier \in SUBSET open
  BY DEF OnTier
<1> HIDE DEF open, sameTier, quota
<1>3. GoodSelection(tiered, open)
  BY <1>1, <1>2, SelectAmongGood DEF GoodSelection
<1>4. GoodSelection(SelectAmong(tiered.gw, open), open)
  BY <1>3, SelectAmongGood DEF GoodSelection
<1> QED BY <1>1, <1>3, <1>4 DEF selectFailover, OrElse, open, sameTier, quota

LEMMA CircuitBreakerGood ==
  ASSUME NEW gw, ConsistentGateway(gw), NEW fleet \in SUBSET Models,
         NEW selected \in fleet \cup {UnknownModel}
  PROVE  GoodSelection(applyCircuitBreaker(gw, selected, fleet), fleet \cup {UnknownModel})
<1> DEFINE all   == fleet \cup {UnknownModel}
           other == selectFailover(gw, selected, {}, fleet)
<1>1. GoodSelection(other, all)
  BY FailoverGood DEF GoodSelection, Candidates
<1>2. GoodSelection(Selection(gw, {selected}), all)
  BY SelectionIsGood
<1>3. GoodSelection(Selection(AskAll(gw, {selected}), {selected}), all)
  BY AskAllConsistent, SelectionIsGood
<1> HIDE DEF other
<1>4. GoodSelection(Selection(other.gw, {selected}), all)
  BY <1>1, SelectionIsGood DEF GoodSelection
<1> QED BY <1>1, <1>2, <1>3, <1>4 DEF applyCircuitBreaker, OrElse, other

-----------------------------------------------------------------------------
(* One turn.  Beyond its type: whoever awaits a provider has a target, and  *)
(* a turn starts with no failed model, so that the first target and each    *)
(* one failover picks is fresh.                                             *)

GoodTurn(t) ==
  /\ t \in Turn
  /\ t.phase \in {"streaming", "settled", "rescue"} => t.target \in Models
  /\ t.phase = "settled" => t.answer \in ProviderAnswer
  /\ t.phase = "planning" => t.chosen \in Models
  /\ t.phase \in {"routing", "planning"} => t.failed = {}
  /\ t.phase = "streaming" /\ t.target \in t.failed => t.cramped # {}

USE DEF Phase, Ending

LEMMA RestingType == Resting \in Turn
BY DEF Resting, Turn, Selected

LEMMA EndedGood ==
  ASSUME NEW how \in Ending
  PROVE  GoodTurn(Ended(how))
<1>1. Ended(how) \in Turn /\ Ended(how).phase = "idle"
  BY RestingType DEF Ended, Turn, Resting
<1> QED BY <1>1 DEF GoodTurn

LEMMA ResolvedTarget ==
  ASSUME NEW m
  PROVE  resolveTargetModel(m) # NoModel => resolveTargetModel(m) = m /\ m \in Models
BY DEF resolveTargetModel

LEMMA ResolvedFallback ==
  ASSUME NEW fleet \in SUBSET Models
  PROVE  resolveFallbackModel(fleet) \in Models \cup {NoModel}
BY ResolvedTarget DEF resolveFallbackModel

LEMMA EscalatedGood ==
  ASSUME NEW t \in Turn, t.target \in Models
  PROVE  GoodTurn(Escalated(t))
<1> DEFINE cramped == t.cramped \cup {t.target}
           wider   == resolveHeadroomFallbackTarget(t, cramped)
           moved   == [t EXCEPT !.phase = "streaming", !.cramped = cramped,
                                !.answer = "none", !.chosen = wider, !.target = wider]
<1>1. wider # NoModel => wider \in Models
  BY ResolvedTarget DEF resolveHeadroomFallbackTarget
<1>2. cramped \in SUBSET Models /\ cramped # {}
  BY DEF Turn
<1>3. CASE wider = NoModel
  BY <1>3, EndedGood DEF Escalated
<1>4. CASE wider # NoModel
  <2> HIDE DEF wider, cramped
  <2>1. /\ moved \in Turn
        /\ moved.phase = "streaming" /\ moved.target = wider /\ moved.cramped # {}
    BY <1>1, <1>2, <1>4 DEF Turn, Selected
  <2>2. GoodTurn(moved)
    <3> HIDE DEF moved
    <3> QED BY <1>1, <1>4, <2>1 DEF GoodTurn
  <2> QED BY <1>4, <2>2 DEF Escalated, wider, cramped
<1> QED BY <1>3, <1>4

LEMMA AttemptGood ==
  ASSUME NEW t \in Turn, t.target \in Models, t.target \notin t.failed
  PROVE  GoodTurn(Attempt(t))
<1> DEFINE started == [t EXCEPT !.phase = "streaming", !.answer = "none"]
<1>1. /\ started \in Turn /\ started.phase = "streaming"
      /\ started.target = t.target /\ started.failed = t.failed
  BY DEF Turn
<1>2. GoodTurn(started)
  <2> HIDE DEF started
  <2> QED BY <1>1 DEF GoodTurn
<1>3. GoodTurn(Ended("aborted"))
  BY EndedGood
<1> QED BY <1>2, <1>3, EscalatedGood DEF Attempt

LEMMA DelegatedGood ==
  ASSUME NEW t \in Turn, t.failed = {}
  PROVE  GoodTurn(Delegated(t))
<1> DEFINE routed == resolveTargetModel(t.chosen)
           target == IF routed # NoModel THEN routed ELSE resolveFallbackModel(t.fleet)
           aimed  == [t EXCEPT !.target = target]
<1>1. target \in Models \cup {NoModel}
  BY ResolvedTarget, ResolvedFallback DEF Turn
<1>2. GoodTurn(Ended("degraded"))
  BY EndedGood
<1>3. CASE target # NoModel
  <2> HIDE DEF target
  <2>1. aimed \in Turn /\ aimed.target = target /\ aimed.failed = {}
    BY <1>1 DEF Turn
  <2>2. GoodTurn(Attempt(aimed))
    <3> HIDE DEF aimed
    <3> QED BY <1>1, <1>3, <2>1, AttemptGood
  <2> QED BY <1>3, <2>2 DEF Delegated, target
<1> QED BY <1>2, <1>3 DEF Delegated

LEMMA SwitchedGood ==
  ASSUME NEW t \in Turn, NEW m \in Models, m \notin t.failed
  PROVE  GoodTurn(SwitchedTo(t, m))
<1> DEFINE aimed == [t EXCEPT !.chosen = m, !.target = m]
<1>1. aimed \in Turn /\ aimed.target = m /\ aimed.failed = t.failed
  BY DEF Turn, Selected
<1>2. GoodTurn(Attempt(aimed))
  <2> HIDE DEF aimed
  <2> QED BY <1>1, AttemptGood
<1> QED BY <1>2 DEF SwitchedTo

-----------------------------------------------------------------------------
(* The inductive invariant.                                                 *)

Inv ==
  /\ ConsistentGateway(gateway)
  /\ turn \in [TurnSessions -> Turn]
  /\ \A s \in TurnSessions : GoodTurn(turn[s])

LEMMA InvImpliesProperties ==
  Inv => DelegationTypeOK /\ CircuitsConsistent /\ NoRetryWithoutEscalation
BY DEF Inv, DelegationTypeOK, CircuitsConsistent, NoRetryWithoutEscalation,
       ConsistentGateway, ConsistentCircuit, GoodTurn

LEMMA InitEstablishesInv == DelegationInit => Inv
<1> SUFFICES ASSUME DelegationInit PROVE Inv
  OBVIOUS
<1>1. Resting \in Turn /\ GoodTurn(Resting)
  BY RestingType DEF GoodTurn, Resting
<1> QED BY <1>1, NewGatewayConsistent DEF DelegationInit, Inv

(* Replacing one turn by a good one.                                        *)
LEMMA TurnUpdate ==
  ASSUME Inv, NEW s \in TurnSessions, NEW t, GoodTurn(t),
         turn' = [turn EXCEPT ![s] = t], ConsistentGateway(gateway')
  PROVE  Inv'
<1>1. t \in Turn
  BY DEF GoodTurn
<1>2. turn' \in [TurnSessions -> Turn]
  BY <1>1 DEF Inv
<1>3. \A x \in TurnSessions : GoodTurn(turn'[x])
  BY DEF Inv
<1> QED BY <1>2, <1>3 DEF Inv

(* A failover ends in a good turn, whichever way it goes.                   *)
LEMMA FailOverKeepsInv ==
  ASSUME Inv, NEW s \in TurnSessions, NEW t \in Turn,
         NEW sel, NEW fleet \in SUBSET Models,
         GoodSelection(sel, Candidates(fleet, t.chosen, t.failed)),
         NEW otherwise, GoodTurn(otherwise),
         FailOver(s, t, sel, otherwise)
  PROVE  Inv'
<1>1. ConsistentGateway(gateway')
  BY DEF FailOver, GoodSelection
<1>2. CASE sel.choices = {} /\ turn' = [turn EXCEPT ![s] = otherwise]
  BY <1>1, <1>2, TurnUpdate
<1>3. CASE \E m \in sel.choices :
             turn' = [turn EXCEPT ![s] = IF CanSwitch(t, m) THEN SwitchedTo(t, m)
                                         ELSE otherwise]
  <2>1. PICK m \in sel.choices :
          turn' = [turn EXCEPT ![s] = IF CanSwitch(t, m) THEN SwitchedTo(t, m)
                                      ELSE otherwise]
    BY <1>3
  <2>2. m \in Models /\ m \notin t.failed
    BY DEF GoodSelection, Candidates
  <2>3. GoodTurn(IF CanSwitch(t, m) THEN SwitchedTo(t, m) ELSE otherwise)
    BY <2>2, SwitchedGood
  <2> QED BY <1>1, <2>1, <2>3, TurnUpdate
<1> QED BY <1>2, <1>3 DEF FailOver

(* Marking the target of a turn as failed keeps the turn's type.            *)
LEMMA FailedMarked ==
  ASSUME NEW t \in Turn, t.target \in Models
  PROVE  LET u == [t EXCEPT !.failed = @ \cup {t.target}]
         IN  u \in Turn /\ u.target = t.target /\ u.fleet = t.fleet
BY DEF Turn

LEMMA InvOfTurn ==
  ASSUME Inv, NEW s \in TurnSessions
  PROVE  /\ turn[s] \in Turn /\ GoodTurn(turn[s])
         /\ turn[s].fleet \in SUBSET Models /\ turn[s].chosen \in Selected
         /\ ConsistentGateway(gateway)
BY DEF Inv, Turn

(* An action that ends a turn and leaves the gateway alone.                 *)
LEMMA EndingKeepsInv ==
  ASSUME Inv, NEW s \in TurnSessions, NEW how \in Ending,
         turn' = [turn EXCEPT ![s] = Ended(how)], UNCHANGED gateway
  PROVE  Inv'
BY EndedGood, TurnUpdate DEF Inv

LEMMA SubmitKeepsInv == ASSUME Inv, NEW s \in TurnSessions, Submit(s) PROVE Inv'
<1>1. PICK tokens \in InputSizes, guard \in {{}, {m \in Models : IsGoogle(m)}} :
        turn' = [turn EXCEPT ![s] = [Resting EXCEPT !.phase = "routing",
                                                    !.fleet = Models \ guard,
                                                    !.tokens = tokens]]
  BY DEF Submit
<1> DEFINE t == [Resting EXCEPT !.phase = "routing", !.fleet = Models \ guard,
                                !.tokens = tokens]
<1>2. t \in Turn /\ t.phase = "routing" /\ t.failed = {}
  BY InputSizesAssumption, RestingType DEF Turn, Resting
<1>3. GoodTurn(t)
  <2> HIDE DEF t
  <2> QED BY <1>2 DEF GoodTurn
<1>4. ConsistentGateway(gateway')
  BY DEF Submit, Inv
<1> QED BY <1>1, <1>3, <1>4, TurnUpdate

LEMMA AbortKeepsInv == ASSUME Inv, NEW s \in TurnSessions, Abort(s) PROVE Inv'
<1> DEFINE t == [turn[s] EXCEPT !.aborted = TRUE]
<1>1. turn' = [turn EXCEPT ![s] = t]
  BY DEF Abort, Inv
<1>2. /\ t \in Turn /\ t.phase = turn[s].phase /\ t.target = turn[s].target
      /\ t.answer = turn[s].answer /\ t.failed = turn[s].failed
      /\ t.cramped = turn[s].cramped /\ t.chosen = turn[s].chosen
  BY InvOfTurn DEF Turn
<1>3. GoodTurn(t)
  <2> HIDE DEF t
  <2> QED BY <1>2, InvOfTurn DEF GoodTurn
<1>4. ConsistentGateway(gateway')
  BY DEF Abort, Inv
<1> QED BY <1>1, <1>3, <1>4, TurnUpdate

LEMMA DispatchKeepsInv == ASSUME Inv, NEW s \in TurnSessions, Dispatch(s) PROVE Inv'
<1> DEFINE fleet == turn[s].fleet
<1>1. PICK routed \in fleet \cup {UnknownModel} :
        LET selection == applyCircuitBreaker(gateway, routed, fleet)
        IN  /\ gateway' = selection.gw
            /\ \E chosen \in selection.choices :
                 LET t == [turn[s] EXCEPT !.chosen = chosen]
                 IN  \/ turn' = [turn EXCEPT ![s] = Delegated(t)]
                     \/ /\ chosen = routed /\ chosen # UnknownModel
                        /\ turn' = [turn EXCEPT ![s] =
                                      IF t.aborted THEN Ended("aborted")
                                      ELSE [t EXCEPT !.phase = "planning"]]
  BY DEF Dispatch
<1> DEFINE selection == applyCircuitBreaker(gateway, routed, fleet)
<1>2. GoodSelection(selection, fleet \cup {UnknownModel})
  BY InvOfTurn, CircuitBreakerGood
<1>3. ConsistentGateway(gateway')
  BY <1>1, <1>2 DEF GoodSelection
<1>4. PICK chosen \in selection.choices :
        LET t == [turn[s] EXCEPT !.chosen = chosen]
        IN  \/ turn' = [turn EXCEPT ![s] = Delegated(t)]
            \/ /\ chosen = routed /\ chosen # UnknownModel
               /\ turn' = [turn EXCEPT ![s] =
                             IF t.aborted THEN Ended("aborted")
                             ELSE [t EXCEPT !.phase = "planning"]]
  BY <1>1
<1>5. chosen \in Selected
  BY <1>2, <1>4, InvOfTurn DEF GoodSelection, Selected
<1> DEFINE t == [turn[s] EXCEPT !.chosen = chosen]
           p == [t EXCEPT !.phase = "planning"]
<1> HIDE DEF selection
<1>6. turn[s].failed = {} /\ turn[s] \in Turn
  BY InvOfTurn DEF GoodTurn, Dispatch
<1>7. t \in Turn /\ t.failed = {} /\ t.chosen = chosen
  BY <1>5, <1>6 DEF Turn
<1>8. GoodTurn(Delegated(t))
  <2> HIDE DEF t
  <2> QED BY <1>7, DelegatedGood
<1>9. chosen # UnknownModel => GoodTurn(p)
  <2>1. p \in Turn /\ p.phase = "planning" /\ p.failed = {} /\ p.chosen = chosen
    <3> HIDE DEF t
    <3> QED BY <1>7 DEF Turn
  <2> HIDE DEF p
  <2> QED BY <1>5, <2>1 DEF GoodTurn, Selected
<1>10. GoodTurn(Ended("aborted"))
  BY EndedGood
<1> HIDE DEF t, p
<1>11. \/ turn' = [turn EXCEPT ![s] = Delegated(t)]
       \/ chosen # UnknownModel /\ turn' = [turn EXCEPT ![s] = Ended("aborted")]
       \/ chosen # UnknownModel /\ turn' = [turn EXCEPT ![s] = p]
  BY <1>4 DEF t, p
<1> QED BY <1>3, <1>8, <1>9, <1>10, <1>11, TurnUpdate

LEMMA RoutingFailsKeepsInv == ASSUME Inv, NEW s \in TurnSessions, RoutingFails(s) PROVE Inv'
<1> DEFINE default == resolveFallbackModel(turn[s].fleet)
           t == [turn[s] EXCEPT !.phase = "rescue", !.target = default]
<1>1. default \in Models \cup {NoModel}
  BY InvOfTurn, ResolvedFallback
<1>2. default # NoModel => GoodTurn(t)
  <2> SUFFICES ASSUME default # NoModel PROVE GoodTurn(t)
    OBVIOUS
  <2> HIDE DEF default
  <2>1. t \in Turn /\ t.phase = "rescue" /\ t.target = default
    BY <1>1, InvOfTurn DEF Turn
  <2> HIDE DEF t
  <2> QED BY <1>1, <2>1 DEF GoodTurn
<1>3. GoodTurn(Ended("aborted")) /\ GoodTurn(Ended("thrown"))
  BY EndedGood
<1>4. ConsistentGateway(gateway')
  BY DEF RoutingFails, Inv
<1>5. turn' = [turn EXCEPT ![s] = IF turn[s].aborted THEN Ended("aborted")
                                  ELSE IF default = NoModel THEN Ended("thrown")
                                  ELSE t]
  BY DEF RoutingFails
<1> HIDE DEF default, t
<1> QED BY <1>2, <1>3, <1>4, <1>5, TurnUpdate

LEMMA PlanningResolvesKeepsInv ==
  ASSUME Inv, NEW s \in TurnSessions, PlanningResolves(s) PROVE Inv'
<1>1. PICK chosen \in {turn[s].chosen} \cup OnTier(Models, "frontier-cloud") :
        turn' = [turn EXCEPT ![s] = Delegated([turn[s] EXCEPT !.chosen = chosen])]
  BY DEF PlanningResolves
<1> DEFINE t == [turn[s] EXCEPT !.chosen = chosen]
<1>2. chosen \in Selected
  BY InvOfTurn DEF OnTier, Selected
<1>3. turn[s].failed = {}
  BY InvOfTurn DEF GoodTurn, PlanningResolves
<1>4. t \in Turn /\ t.failed = {}
  BY <1>2, <1>3, InvOfTurn DEF Turn
<1>5. GoodTurn(Delegated(t))
  <2> HIDE DEF t
  <2> QED BY <1>4, DelegatedGood
<1>6. ConsistentGateway(gateway')
  BY DEF PlanningResolves, Inv
<1> QED BY <1>1, <1>5, <1>6, TurnUpdate

LEMMA ReportedConsistent ==
  ASSUME NEW gw, ConsistentGateway(gw), NEW m \in Models, NEW answer
  PROVE  ConsistentGateway(Reported(gw, m, answer))
BY RecordOutcomeConsistent DEF Reported

LEMMA ProviderAnswersKeepsInv ==
  ASSUME Inv, NEW s \in TurnSessions, ProviderAnswers(s) PROVE Inv'
<1>1. PICK answer \in Answerable(turn[s].target) :
        /\ gateway' = Reported(gateway, turn[s].target, answer)
        /\ turn' = [turn EXCEPT ![s].phase = "settled", ![s].answer = answer]
  BY DEF ProviderAnswers
<1> DEFINE t == [turn[s] EXCEPT !.phase = "settled", !.answer = answer]
<1>2. turn[s].phase = "streaming" /\ turn[s].target \in Models
  BY InvOfTurn DEF ProviderAnswers, GoodTurn
<1>3. answer \in ProviderAnswer
  BY AnswersAssumption DEF Answerable
<1>4. t \in Turn /\ t.phase = "settled" /\ t.answer = answer /\ t.target = turn[s].target
  BY <1>3, InvOfTurn DEF Turn
<1>5. GoodTurn(t)
  <2> HIDE DEF t
  <2> QED BY <1>2, <1>3, <1>4 DEF GoodTurn
<1>6. ConsistentGateway(gateway')
  BY <1>1, <1>2, InvOfTurn, ReportedConsistent
<1>7. turn' = [turn EXCEPT ![s] = t]
  BY <1>1 DEF Inv
<1> QED BY <1>5, <1>6, <1>7, TurnUpdate

LEMMA RescueAnswersKeepsInv ==
  ASSUME Inv, NEW s \in TurnSessions, RescueAnswers(s) PROVE Inv'
<1>1. PICK answer \in Answerable(turn[s].target) :
        /\ gateway' = Reported(gateway, turn[s].target, answer)
        /\ turn' = [turn EXCEPT ![s] =
                      [Ended(IF answer = "throw" THEN "thrown" ELSE "committed")
                         EXCEPT !.target = turn[s].target, !.answer = answer]]
  BY DEF RescueAnswers
<1> DEFINE e == Ended(IF answer = "throw" THEN "thrown" ELSE "committed")
           t == [e EXCEPT !.target = turn[s].target, !.answer = answer]
<1>2. turn[s].target \in Models
  BY InvOfTurn DEF RescueAnswers, GoodTurn
<1>3. answer \in ProviderAnswer
  BY AnswersAssumption DEF Answerable
<1>4. e \in Turn /\ e.phase = "idle"
  BY EndedGood, RestingType DEF GoodTurn, Ended, Resting
<1>5. t \in Turn /\ t.phase = "idle"
  <2> HIDE DEF e
  <2> QED BY <1>2, <1>3, <1>4 DEF Turn
<1>6. GoodTurn(t)
  <2> HIDE DEF t
  <2> QED BY <1>5 DEF GoodTurn
<1>7. ConsistentGateway(gateway')
  BY <1>1, <1>2, InvOfTurn, ReportedConsistent
<1> QED BY <1>1, <1>6, <1>7, TurnUpdate

LEMMA LengthStopKeepsInv ==
  ASSUME Inv, NEW s \in TurnSessions, LengthStop(s) PROVE Inv'
<1> DEFINE t == Escalated(turn[s])
<1>1. turn[s].target \in Models
  BY InvOfTurn DEF LengthStop, Settled, GoodTurn
<1>2. GoodTurn(t)
  BY <1>1, InvOfTurn, EscalatedGood
<1>3. GoodTurn(Ended("aborted"))
  BY EndedGood
<1>4. /\ ConsistentGateway(gateway')
      /\ turn' = [turn EXCEPT ![s] = IF t.phase = "streaming" /\ t.aborted
                                     THEN Ended("aborted") ELSE t]
  BY DEF LengthStop, Inv
<1> HIDE DEF t
<1> QED BY <1>2, <1>3, <1>4, TurnUpdate

LEMMA ReplayIncompatibleKeepsInv ==
  ASSUME Inv, NEW s \in TurnSessions, ReplayIncompatible(s) PROVE Inv'
<1> DEFINE r         == [turn[s] EXCEPT !.replayed = TRUE]
           t         == [turn[s] EXCEPT !.replayed = TRUE, !.failed = @ \cup {turn[s].target}]
           nonGoogle == {m \in t.fleet : ~IsGoogle(m)}
           sel       == selectFailover(gateway, t.chosen, t.failed, nonGoogle)
<1>1. turn[s].target \in Models
  BY InvOfTurn DEF ReplayIncompatible, Settled, GoodTurn
<1>2. t \in Turn /\ t.fleet \in SUBSET Models
  BY <1>1, InvOfTurn DEF Turn
<1>3. CASE turn' = [turn EXCEPT ![s] = Ended("committed")] /\ UNCHANGED gateway
  BY <1>3, EndingKeepsInv
<1>4. CASE FailOver(s, t, sel, Ended("committed"))
  <2>1. nonGoogle \in SUBSET Models
    BY <1>2
  <2> HIDE DEF t, nonGoogle
  <2>2. GoodSelection(sel, Candidates(nonGoogle, t.chosen, t.failed))
    BY <2>1, InvOfTurn, FailoverGood
  <2>3. GoodTurn(Ended("committed"))
    BY EndedGood
  <2> HIDE DEF sel
  <2> QED BY <1>2, <1>4, <2>1, <2>2, <2>3, FailOverKeepsInv
<1> QED BY <1>3, <1>4 DEF ReplayIncompatible

LEMMA ProviderFailedKeepsInv ==
  ASSUME Inv, NEW s \in TurnSessions, ProviderFailed(s) PROVE Inv'
<1> DEFINE error == FailoverError(turn[s].answer)
           t     == [turn[s] EXCEPT !.failed = @ \cup {turn[s].target}]
           gw    == recordOutcome(gateway, t.target, error)
           sel   == selectFailover(gw, t.chosen, t.failed, t.fleet)
<1>1. turn[s].target \in Models
  BY InvOfTurn DEF ProviderFailed, Settled, GoodTurn
<1>2. t \in Turn /\ t.fleet \in SUBSET Models /\ t.target \in Models
  BY <1>1, InvOfTurn, FailedMarked
<1>3. FailOver(s, t, sel, Ended("committed"))
  BY DEF ProviderFailed
<1> HIDE DEF t, error
<1>4. ConsistentGateway(gw)
  BY <1>2, InvOfTurn, RecordOutcomeConsistent
<1> HIDE DEF gw
<1>5. GoodSelection(sel, Candidates(t.fleet, t.chosen, t.failed))
  BY <1>2, <1>4, FailoverGood
<1>6. GoodTurn(Ended("committed"))
  BY EndedGood
<1> HIDE DEF sel
<1> QED BY <1>2, <1>3, <1>5, <1>6, FailOverKeepsInv

LEMMA DelegationThrewKeepsInv ==
  ASSUME Inv, NEW s \in TurnSessions, DelegationThrew(s) PROVE Inv'
<1> DEFINE t       == [turn[s] EXCEPT !.failed = @ \cup {turn[s].target}]
           default == resolveFallbackModel(t.fleet)
           rescue  == [t EXCEPT !.phase = "rescue", !.target = default, !.answer = "none"]
           resort  == IF default \in {NoModel, t.target} THEN Ended("degraded") ELSE rescue
           gw      == recordOutcome(gateway, t.target, "other")
           sel     == selectFailover(gw, t.chosen, t.failed, t.fleet)
<1>1. turn[s].target \in Models
  BY InvOfTurn DEF DelegationThrew, Settled, GoodTurn
<1>2. t \in Turn /\ t.fleet \in SUBSET Models /\ t.target \in Models
  BY <1>1, InvOfTurn, FailedMarked
<1>3. CASE turn' = [turn EXCEPT ![s] = Ended("aborted")] /\ UNCHANGED gateway
  BY <1>3, EndingKeepsInv
<1>4. CASE FailOver(s, t, sel, resort)
  <2> HIDE DEF t
  <2>1. ConsistentGateway(gw)
    BY <1>2, InvOfTurn, RecordOutcomeConsistent
  <2>2. default \in Models \cup {NoModel}
    BY <1>2, ResolvedFallback
  <2> HIDE DEF gw, default
  <2>3. default # NoModel => GoodTurn(rescue)
    <3> SUFFICES ASSUME default # NoModel PROVE GoodTurn(rescue)
      OBVIOUS
    <3>1. rescue \in Turn /\ rescue.phase = "rescue" /\ rescue.target = default
      BY <1>2, <2>2 DEF Turn
    <3> HIDE DEF rescue
    <3> QED BY <2>2, <3>1 DEF GoodTurn
  <2>4. GoodTurn(resort)
    <3> HIDE DEF rescue
    <3> QED BY <2>3, EndedGood
  <2>5. GoodSelection(sel, Candidates(t.fleet, t.chosen, t.failed))
    BY <1>2, <2>1, FailoverGood
  <2> HIDE DEF sel, resort
  <2> QED BY <1>2, <1>4, <2>4, <2>5, FailOverKeepsInv
<1> QED BY <1>3, <1>4 DEF DelegationThrew

LEMMA NextKeepsInv == Inv /\ [DelegationNext]_delegationVars => Inv'
<1> SUFFICES ASSUME Inv, [DelegationNext]_delegationVars PROVE Inv'
  OBVIOUS
<1>1. ASSUME NEW s \in TurnSessions, Submit(s) \/ Abort(s) PROVE Inv'
  BY <1>1, SubmitKeepsInv, AbortKeepsInv
<1>2. ASSUME NEW s \in TurnSessions, Progress(s) PROVE Inv'
  <2>1. CASE Dispatch(s)
    BY <2>1, DispatchKeepsInv
  <2>2. CASE RoutingFails(s)
    BY <2>2, RoutingFailsKeepsInv
  <2>3. CASE PlanningResolves(s)
    BY <2>3, PlanningResolvesKeepsInv
  <2>4. CASE ProviderAnswers(s)
    BY <2>4, ProviderAnswersKeepsInv
  <2>5. CASE StreamAborted(s)
    BY <2>5, EndingKeepsInv DEF StreamAborted
  <2>6. CASE RescueAnswers(s)
    BY <2>6, RescueAnswersKeepsInv
  <2>7. CASE Commit(s)
    BY <2>7, EndingKeepsInv DEF Commit
  <2>8. CASE LengthStop(s)
    BY <2>8, LengthStopKeepsInv
  <2>9. CASE ReplayIncompatible(s)
    BY <2>9, ReplayIncompatibleKeepsInv
  <2>10. CASE ProviderFailed(s)
    BY <2>10, ProviderFailedKeepsInv
  <2>11. CASE DelegationThrew(s)
    BY <2>11, DelegationThrewKeepsInv
  <2> QED BY <1>2, <2>1, <2>2, <2>3, <2>4, <2>5, <2>6, <2>7, <2>8, <2>9, <2>10, <2>11
          DEF Progress
<1>3. CASE Tick
  BY <1>3, AgedGatewayConsistent DEF Tick, Inv
<1>4. CASE UNCHANGED delegationVars
  BY <1>4 DEF delegationVars, Inv
<1> QED BY <1>1, <1>2, <1>3, <1>4 DEF DelegationNext

THEOREM InvHolds == DelegationSpec => []Inv
BY InitEstablishesInv, NextKeepsInv, PTL DEF DelegationSpec

-----------------------------------------------------------------------------
(* The gateway and every turn keep their types: in particular failover,     *)
(* escalation and rescue only ever attempt members of Models, and no        *)
(* circuit's counters leave their range.                                    *)
THEOREM TypeCorrect == DelegationSpec => []DelegationTypeOK
BY InvHolds, InvImpliesProperties, PTL

(* However the reports of interleaved turns fall, every circuit's state     *)
(* agrees with its counters.                                                *)
THEOREM CircuitsStayConsistent == DelegationSpec => []CircuitsConsistent
BY InvHolds, InvImpliesProperties, PTL

(* Failover never repeats a model within a turn: only headroom escalation   *)
(* returns to one that failed.                                              *)
THEOREM FailoverNeverRepeats == DelegationSpec => []NoRetryWithoutEscalation
BY InvHolds, InvImpliesProperties, PTL

-----------------------------------------------------------------------------
(* What a step may do to the circuits.                                      *)

(* Going from gw to g opens no circuit, and leaves alone each one that is   *)
(* cooling down.                                                            *)
Spared(gw, g) ==
  \A m \in Models :
    /\ g.circuit[m].state = "open" => gw.circuit[m].state = "open"
    /\ CoolingDown(gw.circuit[m]) => g.circuit[m] = gw.circuit[m]

LEMMA SparedAgain ==
  ASSUME NEW gw, NEW g, NEW h, Spared(gw, g), Spared(g, h)
  PROVE  Spared(gw, h)
BY DEF Spared

LEMMA AskedSpares ==
  ASSUME NEW c \in CircuitEntry
  PROVE  /\ Asked(c).state = "open" => c.state = "open"
         /\ CoolingDown(c) => Asked(c) = c
         /\ CanDispatch(c) => ~CoolingDown(Asked(c))
         /\ ~CoolingDown(c) => ~CoolingDown(Asked(c))
BY DEF Asked, CanDispatch, CoolingDown, CircuitEntry

(* Asking a fleet: the circuits afterwards, one by one.                     *)
LEMMA AskAllCircuits ==
  ASSUME NEW gw, ConsistentGateway(gw), NEW fleet, NEW m \in Models
  PROVE  /\ gw.circuit[m] \in CircuitEntry
         /\ AskAll(gw, fleet).circuit[m] = IF m \in fleet THEN Asked(gw.circuit[m])
                                           ELSE gw.circuit[m]
BY DEF AskAll, ConsistentGateway, GatewayState

LEMMA AskAllSpares ==
  ASSUME NEW gw, ConsistentGateway(gw), NEW fleet
  PROVE  Spared(gw, AskAll(gw, fleet))
BY AskAllCircuits, AskedSpares DEF Spared

(* A selection spares the circuits, and whatever it offers may be asked.    *)
SparingSelection(gw, sel) ==
  /\ Spared(gw, sel.gw)
  /\ \A m \in sel.choices \cap Models : ~CoolingDown(sel.gw.circuit[m])

LEMMA SelectNoneSpares ==
  ASSUME NEW gw
  PROVE  SparingSelection(gw, Selection(gw, {}))
BY DEF SparingSelection, Selection, Spared

LEMMA SelectAmongSpares ==
  ASSUME NEW gw, ConsistentGateway(gw), NEW fleet
  PROVE  SparingSelection(gw, SelectAmong(gw, fleet))
<1>1. Spared(gw, AskAll(gw, fleet))
  BY AskAllSpares
<1>2. \A m \in Dispatchable(gw, fleet) \cap Models : ~CoolingDown(AskAll(gw, fleet).circuit[m])
  BY AskAllCircuits, AskedSpares DEF Dispatchable
<1> QED BY <1>1, <1>2 DEF SparingSelection, SelectAmong, Selection

LEMMA SelectFirstSpares ==
  ASSUME NEW gw, ConsistentGateway(gw), NEW fleet \in SUBSET Models
  PROVE  SparingSelection(gw, SelectFirst(gw, fleet))
<1> DEFINE able == Dispatchable(gw, fleet)
<1>1. CASE able = {}
  BY <1>1, SelectNoneSpares DEF SelectFirst
<1>2. CASE able # {}
  <2>1. able \in SUBSET Models
    BY DEF Dispatchable
  <2>2. First(able) \in able
    BY <1>2, <2>1, FirstBelongs
  <2>3. First(able) \in Models /\ CanDispatch(gw.circuit[First(able)])
    BY <2>1, <2>2 DEF Dispatchable
  <2> DEFINE g == AskAll(gw, {First(able)})
  <2>4. Spared(gw, g)
    BY AskAllSpares
  <2>5. ~CoolingDown(g.circuit[First(able)])
    BY <2>3, AskAllCircuits, AskedSpares
  <2>6. SelectFirst(gw, fleet) = Selection(g, {First(able)})
    BY <1>2 DEF SelectFirst
  <2> HIDE DEF g, able
  <2> QED BY <2>4, <2>5, <2>6 DEF SparingSelection, Selection
<1> QED BY <1>1, <1>2

(* A selection that offers nothing has found every candidate cooling down.  *)
AllCooling(gw, fleet) == \A m \in fleet : CoolingDown(gw.circuit[m])

LEMMA CoolingStays ==
  ASSUME NEW gw, NEW g, Spared(gw, g), NEW fleet \in SUBSET Models, AllCooling(gw, fleet)
  PROVE  AllCooling(g, fleet)
BY DEF Spared, AllCooling

LEMMA NoneDispatchable ==
  ASSUME NEW gw, NEW fleet, Dispatchable(gw, fleet) = {}
  PROVE  AllCooling(gw, fleet)
BY DEF Dispatchable, AllCooling, CanDispatch

LEMMA SelectAmongEmpty ==
  ASSUME NEW gw, ConsistentGateway(gw), NEW fleet \in SUBSET Models,
         SelectAmong(gw, fleet).choices = {}
  PROVE  AllCooling(SelectAmong(gw, fleet).gw, fleet)
BY NoneDispatchable, AskAllSpares, CoolingStays DEF SelectAmong, Selection

(* The quota failover: what it offers, and what it has asked in vain.       *)
LEMMA QuotaFailoverSpares ==
  ASSUME NEW gw, ConsistentGateway(gw), NEW fleet \in SUBSET Models,
         NEW selected, NEW excluded
  PROVE  LET sel        == selectCursorQuotaFailover(gw, selected, excluded, fleet)
             open       == Candidates(fleet, selected, excluded)
             auto       == {m \in open : Profile[m].auto}
             economical == {m \in OnTier(open, "economical-cloud") : ~Profile[m].subscription}
         IN  /\ SparingSelection(gw, sel)
             /\ sel.choices \subseteq auto \cup economical
             /\ sel.choices = {} /\ QuotaFailoverApplies(gw, selected, excluded, fleet)
                  => AllCooling(sel.gw, auto \cup economical)
<1> DEFINE open       == Candidates(fleet, selected, excluded)
           auto       == {m \in open : Profile[m].auto}
           economical == {m \in OnTier(open, "economical-cloud") : ~Profile[m].subscription}
           first      == SelectFirst(gw, auto)
           second     == SelectAmong(first.gw, economical)
           sel        == selectCursorQuotaFailover(gw, selected, excluded, fleet)
<1>1. open \in SUBSET Models /\ auto \in SUBSET open /\ economical \in SUBSET open
  BY DEF Candidates, OnTier
<1>2. sel = IF ~QuotaFailoverApplies(gw, selected, excluded, fleet) THEN Selection(gw, {})
            ELSE IF first.choices # {} THEN first ELSE second
  BY DEF selectCursorQuotaFailover, OrElse
<1> HIDE DEF open, auto, economical, sel
<1>3. GoodSelection(first, auto) /\ SparingSelection(gw, first)
  BY <1>1, SelectFirstGood, SelectFirstSpares
<1>4. first.choices = {} => AllCooling(first.gw, auto)
  <2>1. CASE Dispatchable(gw, auto) = {}
    BY <2>1, NoneDispatchable DEF SelectFirst, Selection
  <2>2. CASE Dispatchable(gw, auto) # {}
    BY <2>2 DEF SelectFirst, Selection
  <2> QED BY <2>1, <2>2
<1>5. ConsistentGateway(first.gw) /\ Spared(gw, first.gw) /\ first.choices \subseteq auto
  BY <1>3 DEF GoodSelection, SparingSelection
<1> HIDE DEF first
<1>6. /\ SparingSelection(first.gw, second) /\ second.choices \subseteq economical
      /\ second.choices = {} => AllCooling(second.gw, economical)
  <2>1. SparingSelection(first.gw, second)
    BY <1>5, SelectAmongSpares
  <2>2. second.choices \subseteq economical
    BY DEF SelectAmong, Selection, Dispatchable
  <2>3. second.choices = {} => AllCooling(second.gw, economical)
    BY <1>1, <1>5, SelectAmongEmpty
  <2> QED BY <2>1, <2>2, <2>3
<1>7. Spared(first.gw, second.gw)
  BY <1>6 DEF SparingSelection
<1> HIDE DEF second
<1>8. SparingSelection(gw, second)
  BY <1>5, <1>6, <1>7, SparedAgain DEF SparingSelection
<1>9. first.choices = {} => AllCooling(second.gw, auto)
  BY <1>1, <1>4, <1>7, CoolingStays
<1>10. SparingSelection(gw, sel)
  BY <1>2, <1>3, <1>8, SelectNoneSpares
<1>11. sel.choices \subseteq auto \cup economical
  BY <1>2, <1>5, <1>6 DEF Selection
<1>12. sel.choices = {} /\ QuotaFailoverApplies(gw, selected, excluded, fleet)
         => AllCooling(sel.gw, auto \cup economical)
  BY <1>2, <1>6, <1>9 DEF AllCooling
<1> QED BY <1>10, <1>11, <1>12 DEF open, auto, economical, sel

(* Failover: nothing is offered only when every candidate is cooling down,  *)
(* and a quota failover that had someone to offer decides alone.            *)
LEMMA FailoverSpares ==
  ASSUME NEW gw, ConsistentGateway(gw), NEW fleet \in SUBSET Models,
         NEW selected, NEW excluded
  PROVE  LET sel        == selectFailover(gw, selected, excluded, fleet)
             open       == Candidates(fleet, selected, excluded)
             auto       == {m \in open : Profile[m].auto}
             economical == {m \in OnTier(open, "economical-cloud") : ~Profile[m].subscription}
         IN  /\ SparingSelection(gw, sel)
             /\ sel.choices = {} => AllCooling(sel.gw, open)
             /\ QuotaFailoverApplies(gw, selected, excluded, fleet)
                  => \/ sel.choices \subseteq auto \cup economical
                     \/ AllCooling(sel.gw, auto \cup economical)
<1> DEFINE open       == Candidates(fleet, selected, excluded)
           auto       == {m \in open : Profile[m].auto}
           economical == {m \in OnTier(open, "economical-cloud") : ~Profile[m].subscription}
           same       == OnTier(open, DecisionTier(selected))
           quota      == selectCursorQuotaFailover(gw, selected, excluded, fleet)
           tiered     == SelectAmong(quota.gw, same)
           any        == SelectAmong(tiered.gw, open)
           sel        == selectFailover(gw, selected, excluded, fleet)
           applies    == QuotaFailoverApplies(gw, selected, excluded, fleet)
<1>1. /\ open \in SUBSET Models /\ same \in SUBSET open
      /\ auto \cup economical \in SUBSET Models
  BY DEF Candidates, OnTier
<1>2. sel = IF quota.choices # {} THEN quota
            ELSE IF tiered.choices # {} THEN tiered ELSE any
  BY DEF selectFailover, OrElse
<1>3. /\ GoodSelection(quota, open) /\ SparingSelection(gw, quota)
      /\ quota.choices \subseteq auto \cup economical
      /\ quota.choices = {} /\ applies => AllCooling(quota.gw, auto \cup economical)
  BY QuotaFailoverGood, QuotaFailoverSpares
<1> HIDE DEF open, auto, economical, same, quota, sel, applies
<1>4. ConsistentGateway(quota.gw) /\ Spared(gw, quota.gw)
  BY <1>3 DEF GoodSelection, SparingSelection
<1>5. GoodSelection(tiered, open) /\ SparingSelection(quota.gw, tiered)
  BY <1>1, <1>4, SelectAmongGood, SelectAmongSpares
<1> HIDE DEF tiered
<1>6. ConsistentGateway(tiered.gw) /\ Spared(quota.gw, tiered.gw) /\ Spared(gw, tiered.gw)
  BY <1>4, <1>5, SparedAgain DEF GoodSelection, SparingSelection
<1>7. SparingSelection(tiered.gw, any) /\ (any.choices = {} => AllCooling(any.gw, open))
  BY <1>1, <1>6, SelectAmongSpares, SelectAmongEmpty
<1> HIDE DEF any
<1>8. Spared(tiered.gw, any.gw) /\ Spared(quota.gw, any.gw) /\ Spared(gw, any.gw)
  BY <1>6, <1>7, SparedAgain DEF SparingSelection
<1>9. SparingSelection(gw, sel)
  BY <1>2, <1>3, <1>5, <1>6, <1>7, <1>8 DEF SparingSelection
<1>10. sel.choices = {} => AllCooling(sel.gw, open)
  BY <1>2, <1>7
<1>11. applies => \/ sel.choices \subseteq auto \cup economical
                  \/ AllCooling(sel.gw, auto \cup economical)
  BY <1>1, <1>2, <1>3, <1>6, <1>8, CoolingStays
<1> QED BY <1>9, <1>10, <1>11 DEF open, auto, economical, sel, applies

(* The breaker before delegation: a selected model that is still cooling    *)
(* down stands only if every other healthy model of the fleet is, too.      *)
LEMMA CircuitBreakerSpares ==
  ASSUME NEW gw, ConsistentGateway(gw), NEW fleet \in SUBSET Models,
         NEW selected \in fleet \cup {UnknownModel}
  PROVE  LET sel == applyCircuitBreaker(gw, selected, fleet)
         IN  /\ Spared(gw, sel.gw)
             /\ \A m \in sel.choices \cap Models :
                  CoolingDown(sel.gw.circuit[m])
                    => AllCooling(sel.gw, {n \in fleet \ {m} : IsHealthy(n)})
<1> DEFINE other == selectFailover(gw, selected, {}, fleet)
           asked == AskAll(gw, {selected})
           sel   == applyCircuitBreaker(gw, selected, fleet)
<1>1. CASE selected = UnknownModel
  BY <1>1, UnknownModelAssumption DEF applyCircuitBreaker, Selection, Spared
<1>2. CASE selected # UnknownModel /\ CanDispatch(gw.circuit[selected])
  <2>1. sel = Selection(asked, {selected})
    BY <1>2 DEF applyCircuitBreaker
  <2>2. Spared(gw, asked)
    BY AskAllSpares
  <2>3. ~CoolingDown(asked.circuit[selected])
    BY <1>2, AskAllCircuits, AskedSpares
  <2> HIDE DEF asked, sel
  <2> QED BY <2>1, <2>2, <2>3 DEF Selection, sel
<1>3. CASE selected # UnknownModel /\ ~CanDispatch(gw.circuit[selected])
  <2>1. sel = IF other.choices # {} THEN other ELSE Selection(other.gw, {selected})
    BY <1>3 DEF applyCircuitBreaker, OrElse
  <2>2. /\ SparingSelection(gw, other)
        /\ other.choices = {} => AllCooling(other.gw, Candidates(fleet, selected, {}))
    BY FailoverSpares
  <2>3. Candidates(fleet, selected, {}) = {n \in fleet \ {selected} : IsHealthy(n)}
    BY DEF Candidates
  <2> HIDE DEF other, sel
  <2>4. CASE other.choices # {}
    BY <2>1, <2>2, <2>4 DEF SparingSelection, sel
  <2>5. CASE other.choices = {}
    BY <2>1, <2>2, <2>3, <2>5 DEF SparingSelection, Selection, sel
  <2> QED BY <2>4, <2>5
<1> QED BY <1>1, <1>2, <1>3

-----------------------------------------------------------------------------
(* Which outcome opens a circuit, and which answers make such an outcome.   *)

InfraAnswer(m, answer) ==
  answer = "server_error" \/ (answer = "rate_limited" /\ ~Profile[m].subscription)

LEMMA RecordOutcomeOpens ==
  ASSUME NEW gw, ConsistentGateway(gw), NEW m \in Models, NEW error, NEW x \in Models,
         gw.circuit[x].state # "open", recordOutcome(gw, m, error).circuit[x].state = "open"
  PROVE  x = m /\ error # "none" /\ MeansInfra(m, error)
<1> DEFINE c == gw.circuit[m]
<1>1. gw \in GatewayState /\ c \in CircuitEntry
  BY DEF ConsistentGateway, GatewayState
<1>2. CASE error = "none"
  <2>1. recordOutcome(gw, m, error).circuit = [gw.circuit EXCEPT ![m] = AfterSuccess(c)]
    BY <1>1, <1>2 DEF recordOutcome, MeansQuota, MeansInfra, GatewayState
  <2>2. c.state # "open" => AfterSuccess(c).state # "open"
    BY <1>1 DEF AfterSuccess, CircuitEntry
  <2> QED BY <1>1, <2>1, <2>2 DEF GatewayState
<1>3. CASE error # "none" /\ MeansQuota(m, error)
  BY <1>1, <1>3 DEF recordOutcome, GatewayState
<1>4. CASE error # "none" /\ ~MeansQuota(m, error) /\ MeansInfra(m, error)
  <2>1. recordOutcome(gw, m, error).circuit = [gw.circuit EXCEPT ![m] = AfterFailure(c)]
    BY <1>1, <1>4 DEF recordOutcome, GatewayState
  <2> QED BY <1>1, <1>4, <2>1 DEF GatewayState
<1>5. CASE error # "none" /\ ~MeansQuota(m, error) /\ ~MeansInfra(m, error)
  BY <1>1, <1>5 DEF recordOutcome
<1> QED BY <1>2, <1>3, <1>4, <1>5

LEMMA InfraErrors ==
  ASSUME NEW m, NEW answer \in ProviderAnswer,
         MeansInfra(m, ParsedError(answer)) \/ MeansInfra(m, FailoverError(answer))
  PROVE  InfraAnswer(m, answer)
BY DEF MeansInfra, MeansQuota, ParsedError, FailoverError, InfraAnswer, ProviderAnswer

(* The quota a turn fails for is remembered before failover asks for it.    *)
LEMMA QuotaRemembered ==
  ASSUME NEW gw, ConsistentGateway(gw), NEW m \in Models, NEW error, MeansQuota(m, error)
  PROVE  m \in recordOutcome(gw, m, error).quota
BY DEF ConsistentGateway, GatewayState, recordOutcome, MeansQuota, MeansInfra

-----------------------------------------------------------------------------
(* A step of one turn leaves every other turn alone.                        *)
OnlyTurn(s) == \E u : turn' = [turn EXCEPT ![s] = u]

LEMMA StepsAreLocal ==
  ASSUME Inv, NEW s \in TurnSessions, Submit(s) \/ Abort(s) \/ Progress(s)
  PROVE  OnlyTurn(s)
<1>1. CASE Submit(s)
  BY <1>1 DEF Submit, OnlyTurn
<1>2. CASE Abort(s)
  BY <1>2 DEF Abort, OnlyTurn, Inv
<1>3. CASE Dispatch(s)
  BY <1>3, Zenon DEF Dispatch, OnlyTurn
<1>4. CASE RoutingFails(s) \/ PlanningResolves(s) \/ StreamAborted(s) \/ Commit(s)
  BY <1>4 DEF RoutingFails, PlanningResolves, StreamAborted, Commit, OnlyTurn
<1>5. CASE ProviderAnswers(s) \/ RescueAnswers(s) \/ LengthStop(s)
  BY <1>5 DEF ProviderAnswers, RescueAnswers, LengthStop, OnlyTurn, Inv
<1>6. ASSUME NEW t, NEW sel, NEW otherwise, FailOver(s, t, sel, otherwise)
      PROVE  OnlyTurn(s)
  BY <1>6, Zenon DEF FailOver, OnlyTurn
<1>7. CASE ReplayIncompatible(s)
  BY <1>6, <1>7, Zenon DEF ReplayIncompatible, OnlyTurn
<1>8. CASE ProviderFailed(s)
  BY <1>6, <1>8, Zenon DEF ProviderFailed
<1>9. CASE DelegationThrew(s)
  BY <1>6, <1>9, Zenon DEF DelegationThrew, OnlyTurn
<1> QED BY <1>1, <1>2, <1>3, <1>4, <1>5, <1>7, <1>8, <1>9 DEF Progress

LEMMA OthersUntouched ==
  ASSUME Inv, NEW s \in TurnSessions, NEW x \in TurnSessions, x # s, OnlyTurn(s)
  PROVE  turn'[x] = turn[x]
BY DEF OnlyTurn, Inv

(* The action of the session whose turn changed.                            *)
LEMMA WhoseStep ==
  ASSUME Inv, [DelegationNext]_delegationVars, NEW s \in TurnSessions, turn'[s] # turn[s]
  PROVE  Submit(s) \/ Abort(s) \/ Progress(s)
<1>1. PICK x \in TurnSessions : Submit(x) \/ Abort(x) \/ Progress(x)
  BY DEF DelegationNext, Tick, delegationVars
<1>2. OnlyTurn(x)
  BY <1>1, StepsAreLocal
<1> QED BY <1>1, <1>2, OthersUntouched

-----------------------------------------------------------------------------
(* What failing over does to the gateway.                                   *)

LEMMA ReplayOpensNone ==
  ASSUME Inv, NEW s \in TurnSessions, ReplayIncompatible(s)
  PROVE  Spared(gateway, gateway')
<1> DEFINE t         == [turn[s] EXCEPT !.replayed = TRUE, !.failed = @ \cup {turn[s].target}]
           nonGoogle == {m \in t.fleet : ~IsGoogle(m)}
           sel       == selectFailover(gateway, t.chosen, t.failed, nonGoogle)
<1>1. nonGoogle \in SUBSET Models
  BY InvOfTurn DEF Turn
<1> HIDE DEF nonGoogle
<1>2. SparingSelection(gateway, sel)
  BY <1>1, InvOfTurn, FailoverSpares
<1>3. gateway' = gateway \/ gateway' = sel.gw
  BY DEF ReplayIncompatible, FailOver, nonGoogle
<1> QED BY <1>2, <1>3 DEF SparingSelection, Spared

LEMMA ProviderFailedOpens ==
  ASSUME Inv, NEW s \in TurnSessions, ProviderFailed(s)
  PROVE  Spared(recordOutcome(gateway, turn[s].target, FailoverError(turn[s].answer)), gateway')
<1> DEFINE t   == [turn[s] EXCEPT !.failed = @ \cup {turn[s].target}]
           gw  == recordOutcome(gateway, t.target, FailoverError(turn[s].answer))
           sel == selectFailover(gw, t.chosen, t.failed, t.fleet)
<1>1. turn[s].target \in Models
  BY InvOfTurn DEF ProviderFailed, Settled, GoodTurn
<1>2. t \in Turn /\ t.fleet \in SUBSET Models /\ t.target = turn[s].target
  BY <1>1, InvOfTurn, FailedMarked
<1>3. gateway' = sel.gw
  BY DEF ProviderFailed, FailOver
<1> HIDE DEF t
<1>4. ConsistentGateway(gw)
  BY <1>1, <1>2, InvOfTurn, RecordOutcomeConsistent
<1> HIDE DEF gw
<1>5. Spared(gw, sel.gw)
  BY <1>2, <1>4, FailoverSpares DEF SparingSelection
<1> QED BY <1>2, <1>3, <1>5 DEF gw

(* A thrown error is reported with a code the breaker ignores.              *)
LEMMA ThrownOpensNone ==
  ASSUME Inv, NEW s \in TurnSessions, DelegationThrew(s)
  PROVE  Spared(gateway, gateway')
<1> DEFINE t   == [turn[s] EXCEPT !.failed = @ \cup {turn[s].target}]
           sel == selectFailover(gateway, t.chosen, t.failed, t.fleet)
<1>1. recordOutcome(gateway, t.target, "other") = gateway
  BY DEF recordOutcome, MeansQuota, MeansInfra
<1>2. t.fleet \in SUBSET Models
  BY InvOfTurn DEF Turn
<1>3. gateway' = gateway \/ gateway' = sel.gw
  BY <1>1 DEF DelegationThrew, FailOver
<1> HIDE DEF t
<1>4. Spared(gateway, sel.gw)
  BY <1>2, InvOfTurn, FailoverSpares DEF SparingSelection
<1> QED BY <1>3, <1>4 DEF Spared

LEMMA DispatchOpensNone ==
  ASSUME Inv, NEW s \in TurnSessions, Dispatch(s)
  PROVE  Spared(gateway, gateway')
<1>1. PICK routed \in turn[s].fleet \cup {UnknownModel} :
        gateway' = applyCircuitBreaker(gateway, routed, turn[s].fleet).gw
  BY DEF Dispatch
<1> QED BY <1>1, InvOfTurn, CircuitBreakerSpares

(* The guarantee of OnlyInfraTrips, for one circuit and one step.           *)
TrippedBy(s, m) ==
  /\ turn[s].target = m
  /\ \/ "server_error" \in {turn[s].answer, turn'[s].answer}
     \/ "rate_limited" \in {turn[s].answer, turn'[s].answer} /\ ~Profile[m].subscription

LEMMA AnswerTrips ==
  ASSUME Inv, NEW s \in TurnSessions, ProviderAnswers(s) \/ RescueAnswers(s),
         NEW m \in Models, gateway.circuit[m].state # "open",
         gateway'.circuit[m].state = "open"
  PROVE  TrippedBy(s, m)
<1>1. PICK answer \in Answerable(turn[s].target) :
        /\ gateway' = Reported(gateway, turn[s].target, answer)
        /\ turn'[s].answer = answer
  <2>1. CASE ProviderAnswers(s)
    BY <2>1, InvOfTurn DEF ProviderAnswers, Inv, Turn
  <2>2. CASE RescueAnswers(s)
    <3>1. PICK answer \in Answerable(turn[s].target) :
            /\ gateway' = Reported(gateway, turn[s].target, answer)
            /\ turn' = [turn EXCEPT ![s] =
                          [Ended(IF answer = "throw" THEN "thrown" ELSE "committed")
                             EXCEPT !.target = turn[s].target, !.answer = answer]]
      BY <2>2 DEF RescueAnswers
    <3> DEFINE e == Ended(IF answer = "throw" THEN "thrown" ELSE "committed")
    <3>2. e \in Turn
      BY EndedGood DEF GoodTurn
    <3> HIDE DEF e
    <3>3. turn'[s] = [e EXCEPT !.target = turn[s].target, !.answer = answer]
      BY <3>1 DEF e, Inv
    <3>4. turn'[s].answer = answer
      BY <3>2, <3>3 DEF Turn
    <3> QED BY <3>1, <3>4
  <2> QED BY <2>1, <2>2
<1>2. turn[s].target \in Models
  BY InvOfTurn DEF ProviderAnswers, RescueAnswers, GoodTurn
<1>3. answer \in ProviderAnswer
  BY AnswersAssumption DEF Answerable
<1>4. gateway' = recordOutcome(gateway, turn[s].target, ParsedError(answer))
  BY <1>1 DEF Reported
<1>5. turn[s].target = m /\ MeansInfra(m, ParsedError(answer))
  BY <1>2, <1>4, InvOfTurn, RecordOutcomeOpens
<1>6. InfraAnswer(m, answer)
  BY <1>3, <1>5, InfraErrors
<1> QED BY <1>1, <1>5, <1>6 DEF TrippedBy, InfraAnswer

LEMMA FailureTrips ==
  ASSUME Inv, NEW s \in TurnSessions, ProviderFailed(s),
         NEW m \in Models, gateway.circuit[m].state # "open",
         gateway'.circuit[m].state = "open"
  PROVE  TrippedBy(s, m)
<1> DEFINE error == FailoverError(turn[s].answer)
<1>1. turn[s].target \in Models /\ turn[s].answer \in ProviderAnswer
  BY InvOfTurn DEF ProviderFailed, Settled, GoodTurn
<1>2. recordOutcome(gateway, turn[s].target, error).circuit[m].state = "open"
  BY ProviderFailedOpens DEF Spared
<1>3. turn[s].target = m /\ MeansInfra(m, error)
  BY <1>1, <1>2, InvOfTurn, RecordOutcomeOpens
<1>4. InfraAnswer(m, turn[s].answer)
  BY <1>1, <1>3, InfraErrors
<1> QED BY <1>3, <1>4 DEF TrippedBy, InfraAnswer

LEMMA TickOpensNone ==
  ASSUME Inv, Tick, NEW m \in Models, gateway'.circuit[m].state = "open"
  PROVE  gateway.circuit[m].state = "open"
<1>1. gateway'.circuit[m] = Aged(gateway.circuit[m]) /\ gateway.circuit[m] \in CircuitEntry
  BY DEF Tick, Inv, ConsistentGateway, GatewayState
<1> QED BY <1>1 DEF Aged, CoolingDown, CircuitEntry

LEMMA TripsHaveCauses ==
  ASSUME Inv, [DelegationNext]_delegationVars, NEW m \in Models,
         gateway.circuit[m].state # "open", gateway'.circuit[m].state = "open"
  PROVE  \E s \in TurnSessions : TrippedBy(s, m)
<1>1. ~UNCHANGED gateway
  OBVIOUS
<1>2. CASE Tick
  BY <1>2, TickOpensNone
<1>3. ASSUME NEW s \in TurnSessions, Submit(s) \/ Abort(s) \/ Progress(s)
      PROVE  TrippedBy(s, m)
  <2>1. ~Spared(gateway, gateway')
    BY DEF Spared
  <2>2. ProviderAnswers(s) \/ RescueAnswers(s) \/ ProviderFailed(s)
    BY <1>1, <1>3, <2>1, DispatchOpensNone, ReplayOpensNone, ThrownOpensNone
       DEF Submit, Abort, Progress, RoutingFails, PlanningResolves, StreamAborted,
           Commit, LengthStop
  <2> QED BY <2>2, AnswerTrips, FailureTrips
<1> QED BY <1>1, <1>2, <1>3 DEF DelegationNext, delegationVars

(* A circuit opens only because its own model failed for infrastructure, or *)
(* answered 429 without being of a subscription, in whatever order the      *)
(* turns sharing the gateway report: recordOutcome counts nothing else as a *)
(* failure, and no selection opens a circuit.                               *)
THEOREM TripsAreInfra == DelegationSpec => OnlyInfraTrips
<1>1. Inv /\ [DelegationNext]_delegationVars =>
        \A m \in Models :
          /\ gateway.circuit[m].state # "open"
          /\ gateway'.circuit[m].state = "open"
          => \E s \in TurnSessions :
               /\ turn[s].target = m
               /\ \/ "server_error" \in {turn[s].answer, turn'[s].answer}
                  \/ /\ "rate_limited" \in {turn[s].answer, turn'[s].answer}
                     /\ ~Profile[m].subscription
  BY TripsHaveCauses DEF TrippedBy
<1> QED BY <1>1, InvHolds, PTL DEF DelegationSpec, OnlyInfraTrips

-----------------------------------------------------------------------------
(* Where a turn goes.                                                       *)

(* An attempt keeps the model it was made for unless it escalates, and      *)
(* escalating marks the model left.                                         *)
LEMMA EscalatedMarks ==
  ASSUME NEW t \in Turn, t.target \in Models
  PROVE  LET u == Escalated(t)
         IN  u.phase = "streaming" =>
               u.target \in Models /\ u.chosen = u.target /\ u.cramped # {}
<1> DEFINE cramped == t.cramped \cup {t.target}
           wider   == resolveHeadroomFallbackTarget(t, cramped)
           moved   == [t EXCEPT !.phase = "streaming", !.cramped = cramped,
                                !.answer = "none", !.chosen = wider, !.target = wider]
<1>1. wider # NoModel => wider \in Models
  BY ResolvedTarget DEF resolveHeadroomFallbackTarget
<1>2. CASE wider = NoModel
  BY <1>2 DEF Escalated, Ended, Resting
<1>3. CASE wider # NoModel
  <2> HIDE DEF wider, cramped
  <2>1. moved.target = wider /\ moved.chosen = wider /\ moved.cramped = cramped
    BY DEF Turn
  <2>2. Escalated(t) = moved
    BY <1>3 DEF Escalated, wider, cramped
  <2>3. cramped # {}
    BY DEF cramped
  <2> HIDE DEF moved
  <2> QED BY <1>1, <1>3, <2>1, <2>2, <2>3
<1> QED BY <1>2, <1>3

LEMMA AttemptMarks ==
  ASSUME NEW t \in Turn, t.target \in Models
  PROVE  LET u == Attempt(t)
         IN  u.phase = "streaming" =>
               \/ u = [t EXCEPT !.phase = "streaming", !.answer = "none"]
               \/ u.target \in Models /\ u.chosen = u.target /\ u.cramped # {}
BY EscalatedMarks DEF Attempt, Ended, Resting

LEMMA SwitchedMarks ==
  ASSUME NEW t \in Turn, NEW m \in Models
  PROVE  LET u == SwitchedTo(t, m)
         IN  u.phase = "streaming" =>
               /\ u.target \in Models /\ u.chosen = u.target
               /\ \/ /\ u.target = m /\ u.fleet = t.fleet
                     /\ u.failed = t.failed /\ u.cramped = t.cramped
                  \/ u.cramped # {}
<1> DEFINE aimed == [t EXCEPT !.chosen = m, !.target = m]
           tried == [aimed EXCEPT !.phase = "streaming", !.answer = "none"]
<1>1. /\ aimed \in Turn /\ aimed.target = m /\ aimed.chosen = m
      /\ aimed.fleet = t.fleet /\ aimed.failed = t.failed /\ aimed.cramped = t.cramped
  BY DEF Turn, Selected
<1>2. SwitchedTo(t, m) = Attempt(aimed)
  BY DEF SwitchedTo
<1> HIDE DEF aimed
<1>3. /\ tried.target = m /\ tried.chosen = m /\ tried.fleet = t.fleet
      /\ tried.failed = t.failed /\ tried.cramped = t.cramped
  BY <1>1 DEF Turn
<1>4. Attempt(aimed).phase = "streaming" =>
        \/ Attempt(aimed) = tried
        \/ /\ Attempt(aimed).target \in Models
           /\ Attempt(aimed).chosen = Attempt(aimed).target
           /\ Attempt(aimed).cramped # {}
  BY <1>1, AttemptMarks
<1> HIDE DEF tried
<1> QED BY <1>2, <1>3, <1>4

(* A turn that goes on after a failover has been switched to a model that   *)
(* the selection offered.                                                   *)
LEMMA FailOverMarks ==
  ASSUME Inv, NEW s \in TurnSessions, NEW t \in Turn, NEW sel,
         sel.choices \subseteq Models,
         NEW otherwise, otherwise.phase # "streaming",
         FailOver(s, t, sel, otherwise), turn'[s].phase = "streaming"
  PROVE  \E m \in sel.choices : CanSwitch(t, m) /\ turn'[s] = SwitchedTo(t, m)
<1>1. \/ turn'[s] = otherwise
      \/ \E m \in sel.choices :
           turn'[s] = IF CanSwitch(t, m) THEN SwitchedTo(t, m) ELSE otherwise
  BY DEF FailOver, Inv
<1> QED BY <1>1

(* A thought-signature error is never retried on a Google model that        *)
(* failover picked.                                                         *)
LEMMA ReplayLeavesGoogle ==
  ASSUME Inv, NEW s \in TurnSessions, ReplayIncompatible(s), turn'[s].phase = "streaming"
  PROVE  ~IsGoogle(turn'[s].target) \/ turn'[s].cramped # {}
<1> DEFINE t         == [turn[s] EXCEPT !.replayed = TRUE, !.failed = @ \cup {turn[s].target}]
           nonGoogle == {m \in t.fleet : ~IsGoogle(m)}
           sel       == selectFailover(gateway, t.chosen, t.failed, nonGoogle)
<1>1. turn[s].target \in Models
  BY InvOfTurn DEF ReplayIncompatible, Settled, GoodTurn
<1>2. t \in Turn /\ nonGoogle \in SUBSET Models
  BY <1>1, InvOfTurn DEF Turn
<1>3. Ended("committed").phase = "idle"
  BY DEF Ended, Resting
<1>4. turn'[s] = Ended("committed") \/ FailOver(s, t, sel, Ended("committed"))
  BY DEF ReplayIncompatible, Inv
<1>5. FailOver(s, t, sel, Ended("committed"))
  BY <1>3, <1>4
<1> HIDE DEF t
<1>6. \A m \in nonGoogle : ~IsGoogle(m)
  OBVIOUS
<1> HIDE DEF nonGoogle
<1>7. sel.choices \subseteq nonGoogle
  BY <1>2, InvOfTurn, FailoverGood DEF GoodSelection, Candidates
<1> HIDE DEF sel
<1>8. PICK m \in sel.choices : turn'[s] = SwitchedTo(t, m)
  BY <1>2, <1>3, <1>5, <1>7, FailOverMarks
<1> QED BY <1>2, <1>6, <1>7, <1>8, SwitchedMarks

(* After a thought-signature error the turn goes on with a model that is    *)
(* not Google's, unless headroom escalation replaced the one selected:      *)
(* ReplayIncompatible selects from the fleet without them, and no other     *)
(* branch of the loop takes that error.                                     *)
THEOREM ReplayLeavesGemini == DelegationSpec => ReplaySelectsNonGoogle
<1>1. ASSUME Inv, [DelegationNext]_delegationVars, NEW s \in TurnSessions,
             turn[s].phase = "settled", turn[s].answer = "thought_signature",
             turn'[s].phase = "streaming"
      PROVE  ~IsGoogle(turn'[s].target) \/ turn'[s].cramped # {}
  <2>1. Submit(s) \/ Abort(s) \/ Progress(s)
    BY <1>1, WhoseStep
  <2>2. ~Abort(s)
    BY <1>1 DEF Abort, Inv, Turn
  <2>3. ReplayIncompatible(s)
    BY <1>1, <2>1, <2>2
       DEF Submit, Progress, Dispatch, RoutingFails, PlanningResolves, ProviderAnswers,
           StreamAborted, RescueAnswers, Commit, LengthStop, ProviderFailed,
           DelegationThrew, Settled
  <2> QED BY <1>1, <2>3, ReplayLeavesGoogle
<1>2. Inv /\ [DelegationNext]_delegationVars =>
        \A s \in TurnSessions :
          /\ turn[s].phase = "settled" /\ turn[s].answer = "thought_signature"
          /\ turn'[s].phase = "streaming"
          => ~IsGoogle(turn'[s].target) \/ turn'[s].cramped # {}
  BY <1>1
<1> QED BY <1>2, InvHolds, PTL DEF DelegationSpec, ReplaySelectsNonGoogle

-----------------------------------------------------------------------------
(* A decision and the model delegated to.  While a turn awaits a provider,  *)
(* or has its answer, it delegates to the model it chose, unless the        *)
(* registry lacks that one and the safe default stands in.                  *)
AimedTurn(t) ==
  t.phase \in {"streaming", "settled"} => resolveTargetModel(t.chosen) \in {NoModel, t.target}

Aimed == \A s \in TurnSessions : AimedTurn(turn[s])

LEMMA SameIsAimed ==
  ASSUME NEW t, t.chosen = t.target
  PROVE  AimedTurn(t)
BY ResolvedTarget DEF AimedTurn

LEMMA DelegatedMarks ==
  ASSUME NEW t \in Turn
  PROVE  LET u == Delegated(t)
         IN  u.phase = "streaming" =>
               /\ AimedTurn(u)
               /\ u.cramped = {} => u.chosen = t.chosen /\ u.fleet = t.fleet
<1> DEFINE routed == resolveTargetModel(t.chosen)
           target == IF routed # NoModel THEN routed ELSE resolveFallbackModel(t.fleet)
           aimed  == [t EXCEPT !.target = target]
           tried  == [aimed EXCEPT !.phase = "streaming", !.answer = "none"]
<1>1. target \in Models \cup {NoModel} /\ routed \in {NoModel, target}
  BY ResolvedTarget, ResolvedFallback DEF Turn
<1>2. CASE target = NoModel
  BY <1>2 DEF Delegated, Ended, Resting
<1>3. CASE target # NoModel
  <2>1. Delegated(t) = Attempt(aimed)
    BY <1>3 DEF Delegated
  <2> HIDE DEF target
  <2>2. /\ aimed \in Turn /\ aimed.target = target
        /\ aimed.chosen = t.chosen /\ aimed.fleet = t.fleet
    BY <1>1 DEF Turn
  <2> HIDE DEF aimed
  <2>3. Attempt(aimed).phase = "streaming" =>
          \/ Attempt(aimed) = tried
          \/ /\ Attempt(aimed).chosen = Attempt(aimed).target
             /\ Attempt(aimed).cramped # {}
    BY <1>1, <1>3, <2>2, AttemptMarks
  <2>4. tried.target = target /\ tried.chosen = t.chosen /\ tried.fleet = t.fleet
    BY <2>2 DEF Turn
  <2> HIDE DEF tried, routed
  <2>5. AimedTurn(tried)
    BY <1>1, <2>4 DEF AimedTurn, routed
  <2> QED BY <2>1, <2>3, <2>4, <2>5, SameIsAimed
<1> QED BY <1>2, <1>3

(* The loop either asks a provider or ends the turn.                        *)
LEMMA EndedIsIdle ==
  ASSUME NEW how
  PROVE  Ended(how).phase = "idle"
BY DEF Ended, Resting

LEMMA EscalatedAsksOrEnds ==
  ASSUME NEW t \in Turn
  PROVE  Escalated(t).phase \in {"idle", "streaming"}
BY EndedIsIdle DEF Escalated, Turn

LEMMA AttemptAsksOrEnds ==
  ASSUME NEW t \in Turn
  PROVE  Attempt(t).phase \in {"idle", "streaming"}
BY EndedIsIdle, EscalatedAsksOrEnds DEF Attempt, Turn

LEMMA DelegatedAsksOrEnds ==
  ASSUME NEW t \in Turn
  PROVE  Delegated(t).phase \in {"idle", "streaming"}
<1>1. \A m \in Models : [t EXCEPT !.target = m] \in Turn
  BY DEF Turn
<1> QED BY <1>1, EndedIsIdle, AttemptAsksOrEnds, ResolvedTarget, ResolvedFallback
        DEF Delegated, Turn

LEMMA SwitchedAsksOrEnds ==
  ASSUME NEW t \in Turn, NEW m \in Models
  PROVE  SwitchedTo(t, m).phase \in {"idle", "streaming"}
<1>1. [t EXCEPT !.chosen = m, !.target = m] \in Turn
  BY DEF Turn, Selected
<1> QED BY <1>1, AttemptAsksOrEnds DEF SwitchedTo

LEMMA FailOverAims ==
  ASSUME Inv, NEW s \in TurnSessions, NEW t \in Turn, NEW sel,
         sel.choices \subseteq Models,
         NEW otherwise, otherwise.phase \notin {"streaming", "settled"},
         FailOver(s, t, sel, otherwise)
  PROVE  AimedTurn(turn'[s])
<1>1. turn'[s] = otherwise \/ \E m \in sel.choices : turn'[s] = SwitchedTo(t, m)
  <2>1. \/ turn'[s] = otherwise
        \/ \E m \in sel.choices :
             turn'[s] = IF CanSwitch(t, m) THEN SwitchedTo(t, m) ELSE otherwise
    BY DEF FailOver, Inv
  <2> QED BY <2>1
<1>2. CASE turn'[s] = otherwise
  BY <1>2 DEF AimedTurn
<1>3. ASSUME NEW m \in sel.choices, turn'[s] = SwitchedTo(t, m) PROVE AimedTurn(turn'[s])
  <2>1. CASE SwitchedTo(t, m).phase = "streaming"
    BY <1>3, <2>1, SwitchedMarks, SameIsAimed
  <2>2. CASE SwitchedTo(t, m).phase = "idle"
    BY <1>3, <2>2 DEF AimedTurn
  <2> QED BY <2>1, <2>2, SwitchedAsksOrEnds
<1> QED BY <1>1, <1>2, <1>3

LEMMA ReplayAims ==
  ASSUME Inv, NEW s \in TurnSessions, ReplayIncompatible(s)
  PROVE  AimedTurn(turn'[s])
<1> DEFINE t         == [turn[s] EXCEPT !.replayed = TRUE, !.failed = @ \cup {turn[s].target}]
           nonGoogle == {m \in t.fleet : ~IsGoogle(m)}
           sel       == selectFailover(gateway, t.chosen, t.failed, nonGoogle)
<1>1. turn[s].target \in Models
  BY InvOfTurn DEF ReplayIncompatible, Settled, GoodTurn
<1>2. t \in Turn /\ nonGoogle \in SUBSET Models
  BY <1>1, InvOfTurn DEF Turn
<1>3. turn'[s] = Ended("committed") \/ FailOver(s, t, sel, Ended("committed"))
  BY DEF ReplayIncompatible, Inv
<1> HIDE DEF t, nonGoogle
<1>4. sel.choices \subseteq Models
  BY <1>2, InvOfTurn, FailoverGood DEF GoodSelection, Candidates
<1> HIDE DEF sel
<1> QED BY <1>2, <1>3, <1>4, EndedIsIdle, FailOverAims DEF AimedTurn

LEMMA ProviderFailedAims ==
  ASSUME Inv, NEW s \in TurnSessions, ProviderFailed(s)
  PROVE  AimedTurn(turn'[s])
<1> DEFINE t   == [turn[s] EXCEPT !.failed = @ \cup {turn[s].target}]
           gw  == recordOutcome(gateway, t.target, FailoverError(turn[s].answer))
           sel == selectFailover(gw, t.chosen, t.failed, t.fleet)
<1>1. turn[s].target \in Models
  BY InvOfTurn DEF ProviderFailed, Settled, GoodTurn
<1>2. t \in Turn /\ t.fleet \in SUBSET Models /\ t.target \in Models
  BY <1>1, InvOfTurn, FailedMarked
<1>3. FailOver(s, t, sel, Ended("committed"))
  BY DEF ProviderFailed
<1> HIDE DEF t
<1>4. ConsistentGateway(gw)
  BY <1>2, InvOfTurn, RecordOutcomeConsistent
<1> HIDE DEF gw
<1>5. sel.choices \subseteq Models
  BY <1>2, <1>4, FailoverGood DEF GoodSelection, Candidates
<1> HIDE DEF sel
<1> QED BY <1>2, <1>3, <1>5, EndedIsIdle, FailOverAims

LEMMA DelegationThrewAims ==
  ASSUME Inv, NEW s \in TurnSessions, DelegationThrew(s)
  PROVE  AimedTurn(turn'[s])
<1> DEFINE t       == [turn[s] EXCEPT !.failed = @ \cup {turn[s].target}]
           default == resolveFallbackModel(t.fleet)
           rescue  == [t EXCEPT !.phase = "rescue", !.target = default, !.answer = "none"]
           resort  == IF default \in {NoModel, t.target} THEN Ended("degraded") ELSE rescue
           gw      == recordOutcome(gateway, t.target, "other")
           sel     == selectFailover(gw, t.chosen, t.failed, t.fleet)
<1>1. turn[s].target \in Models
  BY InvOfTurn DEF DelegationThrew, Settled, GoodTurn
<1>2. t \in Turn /\ t.fleet \in SUBSET Models /\ t.target \in Models
  BY <1>1, InvOfTurn, FailedMarked
<1>3. turn'[s] = Ended("aborted") \/ FailOver(s, t, sel, resort)
  BY DEF DelegationThrew, Inv
<1> HIDE DEF t
<1>4. rescue.phase = "rescue"
  BY <1>2 DEF Turn
<1> HIDE DEF rescue
<1>5. resort.phase \in {"idle", "rescue"}
  BY <1>4, EndedIsIdle
<1> HIDE DEF resort
<1>6. ConsistentGateway(gw)
  BY <1>2, InvOfTurn, RecordOutcomeConsistent
<1> HIDE DEF gw
<1>7. sel.choices \subseteq Models
  BY <1>2, <1>6, FailoverGood DEF GoodSelection, Candidates
<1> HIDE DEF sel
<1> QED BY <1>2, <1>3, <1>5, <1>7, EndedIsIdle, FailOverAims DEF AimedTurn

(* A turn is aimed where it is delegated ...                                *)
LEMMA DelegatedIsAimed ==
  ASSUME NEW t \in Turn
  PROVE  AimedTurn(Delegated(t))
<1>1. CASE Delegated(t).phase = "streaming"
  BY <1>1, DelegatedMarks
<1>2. CASE Delegated(t).phase = "idle"
  BY <1>2 DEF AimedTurn
<1> QED BY <1>1, <1>2, DelegatedAsksOrEnds

LEMMA ChosenType ==
  ASSUME NEW t \in Turn, NEW chosen \in Selected
  PROVE  LET u == [t EXCEPT !.chosen = chosen]
         IN  u \in Turn /\ u.chosen = chosen /\ u.fleet = t.fleet
BY DEF Turn

(* ... and stays so in every other step of its own.                         *)
LEMMA OwnStepAims ==
  ASSUME Inv, NEW s \in TurnSessions, AimedTurn(turn[s]),
         Submit(s) \/ Abort(s) \/ Progress(s)
  PROVE  AimedTurn(turn'[s])
<1>1. CASE Submit(s)
  BY <1>1 DEF Submit, Inv, Resting, AimedTurn
<1>2. CASE Abort(s) \/ ProviderAnswers(s)
  BY <1>2, InvOfTurn DEF Abort, ProviderAnswers, Inv, Turn, AimedTurn
<1>3. CASE Dispatch(s)
  <2>1. PICK routed \in turn[s].fleet \cup {UnknownModel} :
          \E chosen \in applyCircuitBreaker(gateway, routed, turn[s].fleet).choices :
            LET t == [turn[s] EXCEPT !.chosen = chosen]
            IN  \/ turn' = [turn EXCEPT ![s] = Delegated(t)]
                \/ turn' = [turn EXCEPT ![s] = IF t.aborted THEN Ended("aborted")
                                               ELSE [t EXCEPT !.phase = "planning"]]
    BY <1>3 DEF Dispatch
  <2> DEFINE sel == applyCircuitBreaker(gateway, routed, turn[s].fleet)
  <2>2. sel.choices \subseteq Selected
    BY InvOfTurn, CircuitBreakerGood DEF GoodSelection, Selected
  <2>3. PICK chosen \in sel.choices :
          LET t == [turn[s] EXCEPT !.chosen = chosen]
          IN  \/ turn' = [turn EXCEPT ![s] = Delegated(t)]
              \/ turn' = [turn EXCEPT ![s] = IF t.aborted THEN Ended("aborted")
                                             ELSE [t EXCEPT !.phase = "planning"]]
    BY <2>1
  <2> DEFINE t == [turn[s] EXCEPT !.chosen = chosen]
             p == [t EXCEPT !.phase = "planning"]
  <2> HIDE DEF sel
  <2>4. t \in Turn
    BY <2>2, <2>3, InvOfTurn, ChosenType
  <2>5. turn'[s] \in {Delegated(t), Ended("aborted"), p}
    BY <2>3 DEF Inv
  <2> HIDE DEF t
  <2>6. p.phase = "planning"
    BY <2>4 DEF Turn
  <2> HIDE DEF p
  <2>7. AimedTurn(p) /\ AimedTurn(Ended("aborted"))
    BY <2>6, EndedIsIdle DEF AimedTurn
  <2> QED BY <2>4, <2>5, <2>7, DelegatedIsAimed
<1>4. CASE PlanningResolves(s)
  <2>1. PICK chosen \in {turn[s].chosen} \cup OnTier(Models, "frontier-cloud") :
          turn' = [turn EXCEPT ![s] = Delegated([turn[s] EXCEPT !.chosen = chosen])]
    BY <1>4 DEF PlanningResolves
  <2>2. chosen \in Selected
    BY InvOfTurn DEF OnTier, Selected
  <2>3. turn'[s] = Delegated([turn[s] EXCEPT !.chosen = chosen])
    BY <2>1 DEF Inv
  <2> QED BY <2>2, <2>3, InvOfTurn, ChosenType, DelegatedIsAimed
<1>5. CASE RoutingFails(s)
  <2> DEFINE default == resolveFallbackModel(turn[s].fleet)
             r       == [turn[s] EXCEPT !.phase = "rescue", !.target = default]
  <2>1. turn'[s] \in {Ended("aborted"), Ended("thrown"), r}
    BY <1>5 DEF RoutingFails, Inv
  <2>2. r.phase = "rescue"
    BY InvOfTurn DEF Turn
  <2> HIDE DEF r
  <2> QED BY <2>1, <2>2, EndedIsIdle DEF AimedTurn
<1>6. CASE StreamAborted(s) \/ Commit(s)
  BY <1>6, EndedIsIdle DEF StreamAborted, Commit, Inv, AimedTurn
<1>7. CASE RescueAnswers(s)
  <2>1. PICK answer \in Answerable(turn[s].target) :
          turn' = [turn EXCEPT ![s] =
                     [Ended(IF answer = "throw" THEN "thrown" ELSE "committed")
                        EXCEPT !.target = turn[s].target, !.answer = answer]]
    BY <1>7 DEF RescueAnswers
  <2> DEFINE e == Ended(IF answer = "throw" THEN "thrown" ELSE "committed")
  <2>2. turn'[s] = [e EXCEPT !.target = turn[s].target, !.answer = answer]
    BY <2>1 DEF Inv
  <2>3. e \in Turn /\ e.phase = "idle"
    BY EndedGood, EndedIsIdle DEF GoodTurn
  <2> HIDE DEF e
  <2>4. turn'[s].phase = "idle"
    BY <2>2, <2>3 DEF Turn
  <2> QED BY <2>4 DEF AimedTurn
<1>8. CASE LengthStop(s)
  <2>1. turn'[s] = Escalated(turn[s]) \/ turn'[s] = Ended("aborted")
    BY <1>8 DEF LengthStop, Inv
  <2>2. turn[s].target \in Models
    BY <1>8, InvOfTurn DEF LengthStop, Settled, GoodTurn
  <2>3. CASE turn'[s].phase = "streaming"
    BY <2>1, <2>2, <2>3, InvOfTurn, EscalatedMarks, EndedIsIdle, SameIsAimed
  <2>4. CASE turn'[s].phase = "idle"
    BY <2>4 DEF AimedTurn
  <2> QED BY <2>1, <2>3, <2>4, InvOfTurn, EscalatedAsksOrEnds, EndedIsIdle
<1> QED BY <1>1, <1>2, <1>3, <1>4, <1>5, <1>6, <1>7, <1>8,
           ReplayAims, ProviderFailedAims, DelegationThrewAims DEF Progress

LEMMA NextKeepsAimed == Inv /\ Aimed /\ [DelegationNext]_delegationVars => Aimed'
<1> SUFFICES ASSUME Inv, Aimed, [DelegationNext]_delegationVars, NEW s \in TurnSessions PROVE AimedTurn(turn'[s])
  BY DEF Aimed, AimedTurn
<1>1. CASE turn'[s] = turn[s]
  BY <1>1 DEF Aimed
<1>2. CASE turn'[s] # turn[s]
  BY <1>2, WhoseStep, OwnStepAims DEF Aimed
<1> QED BY <1>1, <1>2

THEOREM AimHolds == DelegationSpec => []Aimed
<1>1. DelegationInit => Aimed
  BY DEF DelegationInit, Aimed, AimedTurn, Resting
<1> QED BY <1>1, InvHolds, NextKeepsAimed, PTL DEF DelegationSpec

-----------------------------------------------------------------------------
(* The breaker's fail-open and the quota failover, as properties of steps.  *)

LEMMA DispatchFailsOpen ==
  ASSUME Inv, NEW s \in TurnSessions, Dispatch(s),
         turn'[s].phase \in {"streaming", "planning"},
         turn'[s].chosen # UnknownModel, turn'[s].cramped = {},
         CoolingDown(gateway'.circuit[turn'[s].chosen])
  PROVE  \A m \in turn'[s].fleet \ {turn'[s].chosen} :
           IsHealthy(m) => CoolingDown(gateway'.circuit[m])
<1>1. PICK routed \in turn[s].fleet \cup {UnknownModel} :
        LET selection == applyCircuitBreaker(gateway, routed, turn[s].fleet)
        IN  /\ gateway' = selection.gw
            /\ \E chosen \in selection.choices :
                 LET t == [turn[s] EXCEPT !.chosen = chosen]
                 IN  \/ turn' = [turn EXCEPT ![s] = Delegated(t)]
                     \/ turn' = [turn EXCEPT ![s] = IF t.aborted THEN Ended("aborted")
                                                    ELSE [t EXCEPT !.phase = "planning"]]
  BY DEF Dispatch
<1> DEFINE sel == applyCircuitBreaker(gateway, routed, turn[s].fleet)
<1>2. PICK chosen \in sel.choices :
        LET t == [turn[s] EXCEPT !.chosen = chosen]
        IN  \/ turn' = [turn EXCEPT ![s] = Delegated(t)]
            \/ turn' = [turn EXCEPT ![s] = IF t.aborted THEN Ended("aborted")
                                           ELSE [t EXCEPT !.phase = "planning"]]
  BY <1>1
<1> DEFINE t == [turn[s] EXCEPT !.chosen = chosen]
           p == [t EXCEPT !.phase = "planning"]
<1>3. gateway' = sel.gw
  BY <1>1
<1>4. /\ sel.choices \subseteq turn[s].fleet \cup {UnknownModel}
      /\ \A m \in sel.choices \cap Models :
           CoolingDown(sel.gw.circuit[m])
             => AllCooling(sel.gw, {n \in turn[s].fleet \ {m} : IsHealthy(n)})
  BY InvOfTurn, CircuitBreakerGood, CircuitBreakerSpares DEF GoodSelection
<1> HIDE DEF sel
<1>5. chosen \in Selected
  BY <1>2, <1>4, InvOfTurn DEF Selected
<1>6. t \in Turn /\ t.chosen = chosen /\ t.fleet = turn[s].fleet
  BY <1>5, InvOfTurn, ChosenType
<1>7. turn'[s] \in {Delegated(t), Ended("aborted"), p}
  BY <1>2 DEF Inv
<1> HIDE DEF t
<1>8. p.phase = "planning" /\ p.chosen = t.chosen /\ p.fleet = t.fleet
  BY <1>6 DEF Turn
<1> HIDE DEF p
<1>9. turn'[s].chosen = chosen /\ turn'[s].fleet = turn[s].fleet
  <2>1. CASE turn'[s] = Delegated(t)
    BY <1>6, <2>1, DelegatedMarks, DelegatedAsksOrEnds
  <2>2. CASE turn'[s] = p
    BY <1>6, <1>8, <2>2
  <2> QED BY <1>7, <2>1, <2>2, EndedIsIdle
<1>10. chosen \in sel.choices \cap Models
  BY <1>2, <1>5, <1>9 DEF Selected
<1> QED BY <1>3, <1>4, <1>9, <1>10 DEF AllCooling

(* When dispatch settles on a model whose circuit is cooling down, no other *)
(* healthy model of the turn's fleet could have been asked instead:         *)
(* applyCircuitBreaker lets an open circuit through only after failover has *)
(* asked all the others in vain.                                            *)
THEOREM FailOpenIsLastResort == DelegationSpec => FailOpenOnlyWhenAllOpen
<1>1. ASSUME Inv, [DelegationNext]_delegationVars, NEW s \in TurnSessions,
             turn[s].phase = "routing", turn'[s].phase \in {"streaming", "planning"},
             turn'[s].chosen # UnknownModel, turn'[s].cramped = {},
             CoolingDown(gateway'.circuit[turn'[s].chosen]),
             NEW m \in turn'[s].fleet \ {turn'[s].chosen}, IsHealthy(m)
      PROVE  CoolingDown(gateway'.circuit[m])
  <2>1. Submit(s) \/ Abort(s) \/ Progress(s)
    BY <1>1, WhoseStep
  <2>2. ~Abort(s)
    BY <1>1 DEF Abort, Inv, Turn
  <2>3. ~RoutingFails(s)
    <3> DEFINE default == resolveFallbackModel(turn[s].fleet)
               r       == [turn[s] EXCEPT !.phase = "rescue", !.target = default]
    <3>1. RoutingFails(s) => turn'[s] \in {Ended("aborted"), Ended("thrown"), r}
      BY <1>1 DEF RoutingFails, Inv
    <3>2. r.phase = "rescue"
      BY <1>1, InvOfTurn DEF Turn
    <3> HIDE DEF r
    <3> QED BY <1>1, <3>1, <3>2, EndedIsIdle
  <2>4. Dispatch(s)
    BY <1>1, <2>1, <2>2, <2>3
       DEF Submit, Progress, PlanningResolves, ProviderAnswers, StreamAborted,
           RescueAnswers, Commit, LengthStop, ReplayIncompatible, ProviderFailed,
           DelegationThrew, Settled
  <2> QED BY <1>1, <2>4, DispatchFailsOpen
<1>2. Inv /\ [DelegationNext]_delegationVars =>
        \A s \in TurnSessions :
          LET t == turn'[s]
              c == gateway'.circuit
          IN  /\ turn[s].phase = "routing"
              /\ t.phase \in {"streaming", "planning"}
              /\ t.chosen # UnknownModel
              /\ t.cramped = {} /\ t.target = t.chosen
              /\ CoolingDown(c[t.chosen])
              => \A m \in t.fleet \ {t.chosen} : IsHealthy(m) => CoolingDown(c[m])
  BY <1>1
<1> QED BY <1>2, InvHolds, PTL DEF DelegationSpec, FailOpenOnlyWhenAllOpen

(* The models a quota failover prefers, among those not yet tried.          *)
Preferred(open) ==
  {m \in open : Profile[m].auto}
    \cup {m \in OnTier(open, "economical-cloud") : ~Profile[m].subscription}

LEMMA QuotaFailureLeaves ==
  ASSUME Inv, NEW s \in TurnSessions, AimedTurn(turn[s]), ProviderFailed(s),
         \A m \in Models : ~Profile[m].subscription => Registered(m),
         turn'[s].phase = "streaming", turn'[s].cramped = {},
         Profile[turn[s].target].subscription,
         MeansQuota(turn[s].target, FailoverError(turn[s].answer)),
         Profile[turn'[s].target].subscription, ~Profile[turn'[s].target].auto
  PROVE  AllCooling(gateway', Preferred(Candidates(turn'[s].fleet, turn[s].chosen, turn'[s].failed)))
<1> DEFINE t    == [turn[s] EXCEPT !.failed = @ \cup {turn[s].target}]
           gw   == recordOutcome(gateway, t.target, FailoverError(turn[s].answer))
           sel  == selectFailover(gw, t.chosen, t.failed, t.fleet)
           open == Candidates(t.fleet, t.chosen, t.failed)
<1>1. turn[s].target \in Models /\ turn[s].phase = "settled"
  BY InvOfTurn DEF ProviderFailed, Settled, GoodTurn
<1>2. /\ t \in Turn /\ t.fleet \in SUBSET Models /\ t.target = turn[s].target
      /\ t.chosen = turn[s].chosen /\ t.target \in t.failed
  <2>1. t \in Turn /\ t.fleet \in SUBSET Models /\ t.target = turn[s].target
    BY <1>1, InvOfTurn, FailedMarked
  <2>2. t.chosen = turn[s].chosen /\ t.failed = turn[s].failed \cup {turn[s].target}
    BY InvOfTurn DEF Turn
  <2> QED BY <2>1, <2>2
<1>3. FailOver(s, t, sel, Ended("committed")) /\ gateway' = sel.gw
  BY DEF ProviderFailed, FailOver
<1> HIDE DEF t
<1>4. ConsistentGateway(gw) /\ t.target \in gw.quota
  BY <1>1, <1>2, InvOfTurn, RecordOutcomeConsistent, QuotaRemembered
<1>5. t.chosen \in t.fleet => Profile[t.chosen].subscription
  <2>1. resolveTargetModel(t.chosen) \in {NoModel, t.target}
    BY <1>1, <1>2 DEF AimedTurn
  <2> SUFFICES ASSUME t.chosen \in t.fleet, ~Profile[t.chosen].subscription PROVE FALSE
    OBVIOUS
  <2>2. resolveTargetModel(t.chosen) = t.chosen
    BY <1>2 DEF resolveTargetModel
  <2> QED BY <1>2, <2>1, <2>2, NoModelAssumption
<1>6. QuotaFailoverApplies(gw, t.chosen, t.failed, t.fleet)
  BY <1>2, <1>4, <1>5 DEF QuotaFailoverApplies
<1> HIDE DEF gw
<1>7. sel.choices \subseteq Preferred(open) \/ AllCooling(sel.gw, Preferred(open))
  BY <1>2, <1>4, <1>6, FailoverSpares DEF Preferred
<1>8. sel.choices \subseteq Models
  BY <1>2, <1>4, FailoverGood DEF GoodSelection, Candidates
<1> HIDE DEF sel, open
<1>9. PICK m \in sel.choices : turn'[s] = SwitchedTo(t, m)
  BY <1>2, <1>3, <1>8, FailOverMarks, EndedIsIdle
<1>10. turn'[s].target = m /\ turn'[s].fleet = t.fleet /\ turn'[s].failed = t.failed
  BY <1>2, <1>8, <1>9, SwitchedMarks
<1>11. m \notin Preferred(open)
  BY <1>10 DEF Preferred, OnTier
<1>12. AllCooling(sel.gw, Preferred(open))
  BY <1>7, <1>9, <1>11
<1> QED BY <1>2, <1>3, <1>10, <1>12 DEF open

(* When a subscription model fails for its quota, the turn moves to another *)
(* model of a subscription only if that is the auto model, or if every      *)
(* untried auto model and every untried economical model outside the        *)
(* subscriptions is cooling down.  The hypothesis is needed: the quota      *)
(* failover looks at the model of the decision, and while the safe default  *)
(* stands in for a model the registry lacks, that is not the model which    *)
(* failed.                                                                  *)
THEOREM QuotaFailureLeavesSubscription ==
  ASSUME \A m \in Models : ~Profile[m].subscription => Registered(m)
  PROVE  DelegationSpec => QuotaLeavesSubscription
<1>1. ASSUME Inv, Aimed, [DelegationNext]_delegationVars, NEW s \in TurnSessions,
             turn[s].phase = "settled", turn'[s].phase = "streaming",
             turn'[s].cramped = {}, Profile[turn[s].target].subscription,
             MeansQuota(turn[s].target, FailoverError(turn[s].answer)),
             Profile[turn'[s].target].subscription, ~Profile[turn'[s].target].auto,
             NEW m \in Candidates(turn'[s].fleet, turn[s].chosen, turn'[s].failed),
             \/ Profile[m].auto
             \/ Profile[m].tier = "economical-cloud" /\ ~Profile[m].subscription
      PROVE  CoolingDown(gateway'.circuit[m])
  <2>1. Submit(s) \/ Abort(s) \/ Progress(s)
    BY <1>1, WhoseStep
  <2>2. ~Abort(s)
    BY <1>1 DEF Abort, Inv, Turn
  <2>3. turn[s].answer \notin {"length", "throw", "thought_signature"}
    BY <1>1 DEF MeansQuota, FailoverError, ParsedError
  <2>4. ~Commit(s)
    BY <1>1, EndedIsIdle DEF Commit, Inv
  <2>5. ProviderFailed(s)
    BY <1>1, <2>1, <2>2, <2>3, <2>4
       DEF Submit, Progress, Dispatch, RoutingFails, PlanningResolves, ProviderAnswers,
           StreamAborted, RescueAnswers, LengthStop, ReplayIncompatible,
           DelegationThrew, Settled
  <2>6. m \in Preferred(Candidates(turn'[s].fleet, turn[s].chosen, turn'[s].failed))
    BY <1>1 DEF Preferred, OnTier
  <2> QED BY <1>1, <2>5, <2>6, QuotaFailureLeaves DEF Aimed, AllCooling
<1>2. Inv /\ Aimed /\ [DelegationNext]_delegationVars =>
        \A s \in TurnSessions :
          LET t == turn'[s]
              untried == Candidates(t.fleet, turn[s].chosen, t.failed)
          IN  /\ turn[s].phase = "settled" /\ t.phase = "streaming" /\ t.cramped = {}
              /\ Profile[turn[s].target].subscription
              /\ MeansQuota(turn[s].target, FailoverError(turn[s].answer))
              /\ Profile[t.target].subscription /\ ~Profile[t.target].auto
              => \A m \in untried :
                   \/ Profile[m].auto
                   \/ Profile[m].tier = "economical-cloud" /\ ~Profile[m].subscription
                   => CoolingDown(gateway'.circuit[m])
  BY <1>1
<1> QED BY <1>2, InvHolds, AimHolds, PTL DEF DelegationSpec, QuotaLeavesSubscription
=============================================================================
