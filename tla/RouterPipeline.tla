---------------------------- MODULE RouterPipeline ----------------------------
(***************************************************************************)
(* The routing pipeline (domain/pipeline/router-pipeline.ts and the stage   *)
(* modules beside it) over the session pinner, the pin table and the host's *)
(* lifecycle events.                                                        *)
(*                                                                          *)
(* A pipeline routes one request at a time and queues the others; a rebuild *)
(* of the fleet makes a new pipeline over the same pinner while the old one *)
(* still has requests.  Every stage is awaited, so between two stages any   *)
(* event of the host and any stage of the other pipeline may happen: each   *)
(* stage is an action of its own.  What a probe, a classifier or a matcher  *)
(* answers is chosen by the step that uses the answer.                      *)
(***************************************************************************)
EXTENDS LoopEscalation

CONSTANTS
  Sessions, Slots,        (* a slot holds a request until it is answered    *)
  Pipelines,
  Requests,               (* what a turn may ask                            *)
  Scopes,                 (* the fleets a rebuild may discover              *)
  ForceTargets,           (* the models a user may select                   *)
  PlanningDelegate,       (* planning_delegate.enabled                      *)
  LocalZero,              (* local_zero.enabled                             *)
  FailingStages,          (* stages whose port may throw                    *)
  HostEvents,             (* which of the host's events happen              *)
  UnknownModel

ASSUME UnknownAssumption == UnknownModel \notin Models \cup {NoModel}
ASSUME ScopesAssumption  == Scopes \subseteq SUBSET Models /\ Scopes # {}
ASSUME SwitchAssumption  == PlanningDelegate \in BOOLEAN /\ LocalZero \in BOOLEAN
ASSUME TargetsAssumption == ForceTargets \subseteq Models

ModelIds == Models \cup {UnknownModel}

(* candidate: candidate_model_id, from an embedder.  replayRisk: the history *)
(* holds tool calls of another provider.                                    *)
Request ==
  [kind : TurnType, tool : ToolOutcome, tokens : Nat,
   candidate : Models \cup {NoModel}, replayRisk : BOOLEAN]
ASSUME RequestsAssumption == Requests \subseteq Request

Stage ==
  {"hardware_probe", "loop_escalation", "turn_envelope", "context_fit", "low_intensity",
   "session_pin", "triage", "local_zero", "triage_cloud_fallback", "hydra_match",
   "safe_default", "context_overflow_fallback"}
Event == {"compact", "select", "abort", "unpin", "idle", "shutdown", "restart", "flush", "rebuild"}
ASSUME EventsAssumption == FailingStages \subseteq Stage /\ HostEvents \subseteq Event

VARIABLES
  sess,      (* the pinner's state of each session, and its row             *)
  durable,   (* the pin table on disk                                       *)
  started,   (* sessions whose session_start has completed                  *)
  flags,     (* LifecycleHookState: one-shot compaction and force           *)
  fleet,     (* the fleet of the last rebuild                               *)
  current,   (* the pipeline of the last rebuild                            *)
  queue,     (* waiting requests of each pipeline                           *)
  turn       (* per slot: the request and its RoutingContext                *)

vars == <<sess, durable, started, flags, fleet, current, queue, turn>>
host == <<durable, started, flags, fleet, current, queue>>

NoFlags == [compaction |-> FALSE, force |-> NoModel]
NoDecision == [model |-> NoModel, stage |-> "none", reason |-> "none"]
Decision(model, stage, reason) == [model |-> model, stage |-> stage, reason |-> reason]

AskedWith(q, f) ==
  [kind |-> q.kind, tool |-> q.tool, tokens |-> q.tokens, candidate |-> q.candidate,
   force |-> f.force, compaction |-> f.compaction]
NoRequest == [kind |-> "main_loop", tool |-> ToolOk, tokens |-> 0, candidate |-> NoModel,
              force |-> NoModel, compaction |-> FALSE]

Idle == [at |-> "free", session |-> "none", pipeline |-> "none", req |-> NoRequest,
         full |-> {}, rejected |-> {}, overflow |-> FALSE, provider |-> "none", scored |-> FALSE,
         verdict |-> "none", decision |-> NoDecision]

Init ==
  /\ sess \in [Sessions -> {NewSession}]
  /\ durable = [s \in Sessions |-> NoPin]
  /\ started = {}
  /\ flags = [s \in Sessions |-> NoFlags]
  /\ fleet \in Scopes
  /\ current \in Pipelines
  /\ queue = [p \in Pipelines |-> <<>>]
  /\ turn = [r \in Slots |-> Idle]

Running(p) == {r \in Slots : turn[r].pipeline = p /\ turn[r].at \notin {"free", "queued"}}
Drained(p) == Running(p) = {} /\ queue[p] = <<>>
InFlight(s) == {r \in Slots : turn[r].at # "free" /\ turn[r].session = s}

-----------------------------------------------------------------------------
(* What the stages read of a request's context.                             *)

(* context.fleet: what context_fit left of the fleet.                       *)
Fleet(c) == c.full \ c.rejected
Fits(c, m) == modelFitsContext(m, c.req.tokens)
(* Mutant: whether the model is up is not asked.                            *)
OfTierAny(c, t) == First(OnTier(Fleet(c), t))
OfTier(c, t) == First(OnTier(Healthy(Fleet(c)), t))

(* safeCloudDefault with a request: only models the request fits.           *)
SafeDefault(c) == First(SafeDefaults({m \in Fleet(c) : Fits(c, m)}))

needsContextOverflowFallback(c) ==
  /\ OnTier(Healthy(Fleet(c)), "economical-cloud") = {}
  /\ OnTier(c.rejected, "economical-cloud") # {}

shouldAttemptContextOverflowFallback(c) ==
  ~Forced(c.req) /\ (c.overflow \/ needsContextOverflowFallback(c))

OverflowModel(c) == First(OverflowFallbacks(c.full, c.req.tokens, c.provider))

OrUnknown(m) == IF m = NoModel THEN UnknownModel ELSE m

(* The decision when no stage decided, or when one threw.                   *)
buildFallbackDecision(c) ==
  IF shouldAttemptContextOverflowFallback(c)
  THEN Decision(OrUnknown(OverflowModel(c)), "fallback", "context_overflow")
  ELSE Decision(OrUnknown(SafeDefault(c)), "fallback", "safe_cloud_default")

isPinOnlyFallbackActive(st) == PinOnlyFallback /\ IsPinned(st)

(* The caller's candidate, or the cheapest model of the turn's tier.        *)
enrichRequestWithSaarCandidate(c) ==
  LET tier == TurnTier(c.req.kind) IN
  IF c.req.candidate # NoModel \/ tier = NoTier THEN c.req
  ELSE [c.req EXCEPT !.candidate = selectLowestCostModel(OnTier(Fleet(c), tier))]

-----------------------------------------------------------------------------
(* After a decision.                                                        *)

(* Mutant: an upgrade of the buffer window is not on the list.              *)
KeepsPinAfterBuffer == {"tool_result_sub_route", "session_pinned", "pin_only_fallback",
                        "saar_hard_lock", "force_rejected_not_in_fleet", "force_rejected_unhealthy"}

(* Reasons that say the pin stays as it is.                                 *)
KeepsPin == {"tool_result_sub_route", "session_pinned", "pin_only_fallback", "saar_buffer_active",
             "saar_hard_lock", "force_rejected_not_in_fleet", "force_rejected_unhealthy"}

persistPinIfNeeded(st, d) ==
  IF d.reason \in KeepsPin \/ (d.stage = "turn_envelope" /\ IsPinned(st)) THEN st
  ELSE recordPin(st, d.model, "initial")

finalizeRoute(st, d) == recordSaarTurn(persistPinIfNeeded(st, d))

-----------------------------------------------------------------------------
(* Steps of a request.                                                      *)

At(r, stage) == turn[r].at = stage
State(r) == sess[turn[r].session]
NextStage == [hardware_probe |-> "loop_escalation", loop_escalation |-> "turn_envelope",
              turn_envelope |-> "context_fit", context_fit |-> "low_intensity",
              low_intensity |-> "session_pin", session_pin |-> "triage", triage |-> "local_zero",
              local_zero |-> "triage_cloud_fallback", triage_cloud_fallback |-> "hydra_match",
              hydra_match |-> "safe_default", safe_default |-> "context_overflow_fallback",
              context_overflow_fallback |-> "undecided"]

Pass(r) == turn' = [turn EXCEPT ![r].at = NextStage[@]]
Decide(r, d) == turn' = [turn EXCEPT ![r].at = "decided", ![r].decision = d]

(* The stage's model decides; without one the next stage runs.              *)
DecideOrPass(r, d) == IF d.model = NoModel THEN Pass(r) ELSE Decide(r, d)

(* Mutant: a rebuild forgets the turns that wait in the old pipeline.       *)
StartCurrent(p) ==
  /\ p = current
  /\ Running(p) = {}
  /\ queue[p] # <<>>
  /\ turn' = [turn EXCEPT ![Head(queue[p])].at = "hardware_probe"]
  /\ queue' = [queue EXCEPT ![p] = Tail(@)]
  /\ UNCHANGED <<sess, durable, started, flags, fleet, current>>

(* single flight: routeTail                                                 *)
Start(p) ==
  /\ Running(p) = {}
  /\ queue[p] # <<>>
  /\ turn' = [turn EXCEPT ![Head(queue[p])].at = "hardware_probe"]
  /\ queue' = [queue EXCEPT ![p] = Tail(@)]
  /\ UNCHANGED <<sess, durable, started, flags, fleet, current>>

HardwareProbe(r) ==
  /\ At(r, "hardware_probe")
  /\ Pass(r)
  /\ UNCHANGED <<sess, host>>

LoopEscalationStage(r) ==
  /\ At(r, "loop_escalation")
  /\ sess' = [sess EXCEPT ![turn[r].session] = evaluateLoopEscalation(@, turn[r].req, Fleet(turn[r]))]
  /\ Pass(r)
  /\ UNCHANGED host

(* Planning turns lean to the frontier tier, tool results and subagents to  *)
(* the economical one.  A warm pin is left for a planning turn inside the   *)
(* SAAR buffer, or when the switch pays for the cache it loses.             *)
EnvelopeTarget(c) == selectLowestCostModel(OnTier(Fleet(c), TurnTier(c.req.kind)))

(* Mutant: a forced model does not hold the stage back.                     *)
EnvelopeAppliesForced(c, st) ==
  /\ ~isPinOnlyFallbackActive(st)
  /\ TurnTier(c.req.kind) # NoTier
  /\ ~(c.req.kind = "planning" /\ IsPinned(st) /\ ~isInBufferWindow(st))
  /\ EnvelopeTarget(c) # NoModel

EnvelopeApplies(c, st) ==
  /\ ~isPinOnlyFallbackActive(st)
  /\ ~Forced(c.req)
  /\ TurnTier(c.req.kind) # NoTier
  /\ ~(c.req.kind = "planning" /\ IsPinned(st) /\ ~isInBufferWindow(st))
  /\ EnvelopeTarget(c) # NoModel

Switches(c, st) == PinnedIn(st, Fleet(c)) /\ st.pin.model # EnvelopeTarget(c)

isSaarPlanningBufferActive(st) == IsPinned(st) /\ st.saar.tracked /\ isInBufferWindow(st)

DelegatesPlanning(c, st) ==
  /\ PlanningDelegate
  /\ c.req.kind = "planning"
  /\ Switches(c, st)
  /\ Profile[st.pin.model].tier = "economical-cloud"

(* Mutant: the buffer lets every kind of turn leave the pin.                *)
MaySwitchInBuffer(c, st) ==
  \/ ~Switches(c, st)
  \/ isSaarPlanningBufferActive(st)
  \/ evaluateModelSwitchBreakeven(st.pin.model, EnvelopeTarget(c), c.req.tokens, QuotaUpliftPct)

MaySwitch(c, st) ==
  \/ ~Switches(c, st)
  \/ c.req.kind = "planning" /\ isSaarPlanningBufferActive(st)
  \/ evaluateModelSwitchBreakeven(st.pin.model, EnvelopeTarget(c), c.req.tokens, QuotaUpliftPct)

EnvelopeDecision(c, st) ==
  IF ~EnvelopeApplies(c, st)       THEN NoDecision
  ELSE IF DelegatesPlanning(c, st) THEN Decision(st.pin.model, "turn_envelope", "planning_delegate")
  ELSE IF MaySwitch(c, st)         THEN Decision(EnvelopeTarget(c), "turn_envelope", "turn")
  ELSE NoDecision

TurnEnvelope(r) ==
  /\ At(r, "turn_envelope")
  /\ DecideOrPass(r, EnvelopeDecision(turn[r], State(r)))
  /\ UNCHANGED <<sess, host>>

ContextFit(r) ==
  /\ At(r, "context_fit")
  /\ turn' = [turn EXCEPT ![r].at = NextStage[@],
                          ![r].rejected = IF Forced(turn[r].req) THEN {}
                                          ELSE {m \in turn[r].full : ~Fits(turn[r], m)}]
  /\ UNCHANGED <<sess, host>>

(* Scores the prompt and matches its cluster, unless the pin will decide.   *)
LowIntensity(r) ==
  /\ At(r, "low_intensity")
  /\ turn' = [turn EXCEPT ![r].at = NextStage[@], ![r].scored = ~isPinOnlyFallbackActive(State(r))]
  /\ UNCHANGED <<sess, host>>

PinAnswer(r) == lookupPin(State(r), enrichRequestWithSaarCandidate(turn[r]), Fleet(turn[r]))

PinDecision(r) ==
  LET answer == PinAnswer(r) IN
  IF answer.action \in {"saar_route", "sub_route"}
    THEN Decision(answer.model, "session_pin", answer.reason)
  ELSE IF answer.action = "use_pin"
    THEN Decision(answer.model, "session_pin",
                  IF answer.reason \in {"saar_hard_lock", "saar_tier_upgrade"} THEN answer.reason
                  ELSE IF isPinOnlyFallbackActive(answer.state) THEN "pin_only_fallback"
                  ELSE "session_pinned")
  ELSE IF answer.action = "force_rejected"
    THEN Decision(OrUnknown(SafeDefault(turn[r])), "session_pin", answer.reason)
  ELSE NoDecision

(* A pin lost because the input outgrew its model escalates within its      *)
(* provider first (SP-095).                                                 *)
OutgrewPin(r) ==
  /\ IsPinned(State(r))
  /\ \/ PinAnswer(r).reason = "context_overflow"
     \/ PinAnswer(r).action = "no_pin" /\ State(r).pin.model \in turn[r].rejected
PinnedProvider(r) ==
  IF State(r).pin.model \in turn[r].full THEN Profile[State(r).pin.model].provider ELSE "none"

SessionPinStage(r) ==
  /\ At(r, "session_pin")
  /\ sess' = [sess EXCEPT ![turn[r].session] = PinAnswer(r).state]
  /\ \/ PinDecision(r) # NoDecision /\ Decide(r, PinDecision(r))
     \/ /\ PinDecision(r) = NoDecision
        /\ turn' = [turn EXCEPT ![r].at = NextStage[@],
                                ![r].overflow = OutgrewPin(r),
                                ![r].provider = IF OutgrewPin(r) THEN PinnedProvider(r) ELSE "none"]
  /\ UNCHANGED host

Triage(r) ==
  /\ At(r, "triage")
  /\ \E verdict \in {"trivial", "ambiguous", "complex"} :
       LET frontier == OfTier(turn[r], "frontier-cloud") IN
       IF verdict = "complex" /\ frontier # NoModel
       THEN Decide(r, Decision(frontier, "triage", "complex"))
       ELSE turn' = [turn EXCEPT ![r].at = NextStage[@], ![r].verdict = verdict]
  /\ UNCHANGED <<sess, host>>

(* A trivial prompt, a low-intensity score or a zero-tier cluster may run   *)
(* locally, when the hardware allows it and the prompt needs few tools; a   *)
(* slow runtime sends it to the economical tier, one that is not ready on   *)
(* to the next stage.                                                       *)
LocalZeroStage(r) ==
  /\ At(r, "local_zero")
  /\ \/ Pass(r)
     \/ /\ LocalZero
        /\ turn[r].verdict = "trivial" \/ turn[r].scored
        /\ OfTier(turn[r], "zero-tier") # NoModel
        /\ \/ Decide(r, Decision(OfTier(turn[r], "zero-tier"), "local_zero", "local_model_ready"))
           \/ DecideOrPass(r, Decision(OfTier(turn[r], "economical-cloud"), "local_zero", "throughput"))
  /\ UNCHANGED <<sess, host>>

TriageCloudFallback(r) ==
  /\ At(r, "triage_cloud_fallback")
  /\ IF turn[r].verdict = "trivial"
     THEN DecideOrPass(r, Decision(OfTier(turn[r], "economical-cloud"), "triage", "trivial"))
     ELSE Pass(r)
  /\ UNCHANGED <<sess, host>>

(* The matcher ranks what is left of the fleet; when it fails, a learned    *)
(* route, the pattern pack or the safe default answers instead (all of them *)
(* healthy members of the fleet), or nobody does.                           *)
HydraMatch(r) ==
  /\ At(r, "hydra_match")
  /\ \/ Pass(r)
     \/ \E m \in Healthy(Fleet(turn[r])) : Decide(r, Decision(m, "hydra_match", "match"))
  /\ UNCHANGED <<sess, host>>

SafeDefaultStage(r) ==
  /\ At(r, "safe_default")
  /\ IF shouldAttemptContextOverflowFallback(turn[r]) THEN Pass(r)
     ELSE DecideOrPass(r, Decision(SafeDefault(turn[r]), "fallback", "safe_cloud_default"))
  /\ UNCHANGED <<sess, host>>

ContextOverflowFallback(r) ==
  /\ At(r, "context_overflow_fallback")
  /\ IF shouldAttemptContextOverflowFallback(turn[r]) THEN Decide(r, buildFallbackDecision(turn[r]))
     ELSE Pass(r)
  /\ UNCHANGED <<sess, host>>

-----------------------------------------------------------------------------
(* How a request ends.  Persisting the pin and answering is one step, and   *)
(* it comes some promise ticks after the stage that decided.                *)

Ends(r, st) ==
  /\ sess' = [sess EXCEPT ![turn[r].session] = st]
  /\ turn' = [turn EXCEPT ![r] = Idle]
  /\ UNCHANGED host

Finalize(r) ==
  /\ At(r, "decided")
  /\ Ends(r, finalizeRoute(State(r), turn[r].decision))

FallBack(r) ==
  /\ At(r, "undecided")
  /\ Ends(r, finalizeRoute(State(r), buildFallbackDecision(turn[r])))

(* Where a port can throw: the system probe, and the cost estimator of the  *)
(* stages that price their decision (the pin stage has then already done    *)
(* what it does to the pin).                                                *)
MayThrow(r) ==
  /\ turn[r].at \in FailingStages
  /\ \/ At(r, "hardware_probe") \/ At(r, "hydra_match")
     \/ At(r, "turn_envelope") /\ EnvelopeDecision(turn[r], State(r)) # NoDecision
     \/ At(r, "session_pin") /\ PinDecision(r).model \notin {NoModel, UnknownModel}
     \/ At(r, "context_overflow_fallback") /\ shouldAttemptContextOverflowFallback(turn[r])

AfterThrow(r) == IF At(r, "session_pin") THEN PinAnswer(r).state ELSE State(r)

(* The catch block answers with the fallback and persists it as a pin.      *)
StageThrows(r) ==
  /\ MayThrow(r)
  /\ Ends(r, finalizeRoute(AfterThrow(r), buildFallbackDecision(turn[r])))

(* Pricing the fallback throws too: the route is rejected, the pinner keeps *)
(* what the stages did, and the queue must move on.                         *)
RouteRejects(r) ==
  /\ MayThrow(r)
  /\ ~At(r, "hardware_probe")
  /\ shouldAttemptContextOverflowFallback(turn[r])
  /\ Ends(r, AfterThrow(r))

Step(r) ==
  \/ HardwareProbe(r) \/ LoopEscalationStage(r) \/ TurnEnvelope(r) \/ ContextFit(r)
  \/ LowIntensity(r) \/ SessionPinStage(r) \/ Triage(r) \/ LocalZeroStage(r)
  \/ TriageCloudFallback(r) \/ HydraMatch(r) \/ SafeDefaultStage(r)
  \/ ContextOverflowFallback(r) \/ Finalize(r) \/ FallBack(r)
  \/ StageThrows(r) \/ RouteRejects(r)

-----------------------------------------------------------------------------
(* The host.                                                                *)

(* A turn takes the session's flags and the fleet, less the Google models   *)
(* when the history guard excludes them, and joins the current pipeline.    *)
Submit(r, s, q) ==
  /\ s \in started
  /\ At(r, "free")
  /\ \E excluded \in {{}, {m \in fleet : q.replayRisk /\ IsGoogle(m)}} :
       turn' = [turn EXCEPT ![r] = [Idle EXCEPT !.at = "queued", !.session = s, !.pipeline = current,
                                                !.req = AskedWith(q, flags[s]), !.full = fleet \ excluded]]
  /\ queue' = [queue EXCEPT ![current] = Append(@, r)]
  /\ flags' = [flags EXCEPT ![s] = NoFlags]
  /\ UNCHANGED <<sess, durable, started, fleet, current>>

(* The turn is aborted after it took the flags and before it is dispatched. *)
AbortBeforeDispatch(s) ==
  /\ "abort" \in HostEvents
  /\ s \in started /\ flags[s] # NoFlags
  /\ flags' = [flags EXCEPT ![s] = NoFlags]
  /\ UNCHANGED <<sess, durable, started, fleet, current, queue, turn>>

MarkCompaction(s) ==
  /\ "compact" \in HostEvents
  /\ s \in started
  /\ flags' = [flags EXCEPT ![s].compaction = TRUE]
  /\ UNCHANGED <<sess, durable, started, fleet, current, queue, turn>>

SetForceModel(s, m) ==
  /\ "select" \in HostEvents
  /\ s \in started
  /\ flags' = [flags EXCEPT ![s].force = m]
  /\ UNCHANGED <<sess, durable, started, fleet, current, queue, turn>>

Unpin(s) ==
  /\ "unpin" \in HostEvents
  /\ s \in started /\ IsPinned(sess[s])
  /\ sess' = [sess EXCEPT ![s] = breakPin(@)]
  /\ UNCHANGED <<host, turn>>

(* No activity for idle_timeout_seconds.                                    *)
GoIdle(s) ==
  /\ "idle" \in HostEvents
  /\ InFlight(s) = {}
  /\ sess[s].saar.tracked /\ ~sess[s].saar.idle
  /\ sess' = [sess EXCEPT ![s].saar.idle = TRUE]
  /\ UNCHANGED <<host, turn>>

(* The host waits for session_start, and ends a turn before it changes      *)
(* session, so the pin is restored with no request of the session in        *)
(* flight.  The pinner is not told of a shutdown: memory outlives it.       *)
SessionStart(s) ==
  /\ s \notin started /\ InFlight(s) = {}
  /\ sess' = [sess EXCEPT ![s] = restoreSessionPin(@)]
  /\ started' = started \cup {s}
  /\ UNCHANGED <<durable, flags, fleet, current, queue, turn>>

SessionShutdown(s) ==
  /\ "shutdown" \in HostEvents
  /\ s \in started /\ InFlight(s) = {}
  /\ started' = started \ {s}
  /\ flags' = [flags EXCEPT ![s] = NoFlags]
  /\ UNCHANGED <<sess, durable, fleet, current, queue, turn>>

(* A rebuild of the fleet: a pipeline with nothing to do stands for a new   *)
(* one, and the old one answers what it was asked.                          *)
RebuildFleet ==
  /\ "rebuild" \in HostEvents
  /\ fleet' \in Scopes
  /\ current' \in {p \in Pipelines : Drained(p)}
  /\ UNCHANGED <<sess, durable, started, flags, queue, turn>>

(* The store's write queue reaches the disk; a restart finds what did.      *)
FlushPins ==
  /\ "flush" \in HostEvents
  /\ durable' = [s \in Sessions |-> sess[s].row]
  /\ UNCHANGED <<sess, started, flags, fleet, current, queue, turn>>

Restart ==
  /\ "restart" \in HostEvents
  /\ sess' = [s \in Sessions |-> [NewSession EXCEPT !.row = durable[s]]]
  /\ started' = {}
  /\ flags' = [s \in Sessions |-> NoFlags]
  /\ queue' = [p \in Pipelines |-> <<>>]
  /\ turn' = [r \in Slots |-> Idle]
  /\ UNCHANGED <<durable, fleet, current>>

HostStep ==
  \/ \E s \in Sessions :
       \/ \E r \in Slots, q \in Requests : Submit(r, s, q)
       \/ \E m \in ForceTargets : SetForceModel(s, m)
       \/ AbortBeforeDispatch(s) \/ MarkCompaction(s) \/ Unpin(s) \/ GoIdle(s)
       \/ SessionStart(s) \/ SessionShutdown(s)
  \/ RebuildFleet \/ FlushPins \/ Restart

Next == HostStep \/ (\E p \in Pipelines : Start(p)) \/ (\E r \in Slots : Step(r))

Spec == Init /\ [][Next]_vars

(* Stages are awaited and a settled promise runs its continuation, so a     *)
(* pipeline with a request does not stop by itself.                         *)
Fairness ==
  /\ \A p \in Pipelines : WF_vars(Start(p))
  /\ \A r \in Slots : WF_vars(Step(r))

FairSpec == Spec /\ Fairness

-----------------------------------------------------------------------------
(* Properties.                                                              *)

RouteRequest == [kind : TurnType, tool : ToolOutcome, tokens : Nat, candidate : Models \cup {NoModel},
                 force : Models \cup {NoModel}, compaction : BOOLEAN]
DecisionStage == {"none", "turn_envelope", "session_pin", "triage", "local_zero", "hydra_match", "fallback"}
DecisionReason ==
  LookupReason \cup {"none", "planning_delegate", "turn", "pin_only_fallback", "complex", "trivial",
                     "local_model_ready", "throughput", "match", "safe_cloud_default"}
RoutingDecision == [model : ModelIds \cup {NoModel}, stage : DecisionStage, reason : DecisionReason]
Turn ==
  [at : Stage \cup {"free", "queued", "decided", "undecided"},
   session : Sessions \cup {"none"}, pipeline : Pipelines \cup {"none"}, req : RouteRequest,
   full : SUBSET Models, rejected : SUBSET Models, overflow : BOOLEAN,
   provider : {Profile[m].provider : m \in Models} \cup {"none"}, scored : BOOLEAN,
   verdict : {"none", "trivial", "ambiguous", "complex"}, decision : RoutingDecision]

(* Every variable keeps its shape; a model that is decided or pinned is one *)
(* of the catalog, or the unknown one.                                      *)
TypeOK ==
  /\ sess \in [Sessions -> SessionState(ModelIds)]
  /\ durable \in [Sessions -> SessionPin(ModelIds)]
  /\ started \subseteq Sessions
  /\ flags \in [Sessions -> [compaction : BOOLEAN, force : Models \cup {NoModel}]]
  /\ fleet \in SUBSET Models
  /\ current \in Pipelines
  /\ queue \in [Pipelines -> Seq(Slots)]
  /\ turn \in [Slots -> Turn]

(* A decided model is a healthy member of the fleet the turn was given; one *)
(* decided behind context_fit also fits the input, unless the user forced   *)
(* it.  Every way to decide is meant: pin, sub-route, tier, match, fallback. *)
DecisionSound ==
  \A r \in Slots :
    LET d == turn[r].decision IN
    At(r, "decided") /\ d.model # UnknownModel =>
      /\ d.model \in Healthy(turn[r].full)
      /\ d.stage = "turn_envelope" \/ Forced(turn[r].req) \/ Fits(turn[r], d.model)

Decides(r) == ~At(r, "decided") /\ turn'[r].at = "decided"

(* A model the user selected is the one that answers.  It loses only when   *)
(* it is not a healthy model of the fleet, when the flip-flop guard holds   *)
(* the session on a tier, or when a compaction breaks the pin in the same   *)
(* turn: no earlier stage may take the turn from it.                        *)
ForceHonoured ==
  [][\A r \in Slots : Decides(r) /\ Forced(turn[r].req) =>
       \/ turn'[r].decision.model = turn[r].req.force
       \/ turn[r].req.force \notin Healthy(turn[r].full)
       \/ IsTierPinned(sess'[turn[r].session])
       \/ turn[r].req.compaction]_vars

(* A stage that answers with another model than the session's warm, usable  *)
(* pin pays less per token for it (the cache it loses is worth something).  *)
(* Planning leaves the pin while the SAAR buffer lasts, an upgrade waits in *)
(* that buffer for its hard lock; a force, a tier pin, a compaction and a   *)
(* pin the input outgrew are other matters.                                 *)
Pays(m, pinned) == Profile[m].cost < Profile[pinned].cost

SwitchesPay ==
  [][\A r \in Slots :
       LET c == turn[r]  st == State(r)  d == turn'[r].decision IN
       /\ Decides(r) /\ c.at \in {"turn_envelope", "session_pin"}
       /\ ~Forced(c.req) /\ ~c.req.compaction /\ ~st.saar.idle
       /\ PinnedIn(st, Fleet(c)) /\ ~ContextOverflows(st, c.req, Fleet(c))
       /\ ~IsTierPinned(sess'[c.session])
       /\ d.model # st.pin.model
       => \/ Pays(d.model, st.pin.model)
          \/ c.req.kind = "planning" /\ isSaarPlanningBufferActive(st)
          \/ c.at = "session_pin" /\ isTierUpgrade(st.pin.model, d.model)
               /\ d.model = enrichRequestWithSaarCandidate(c).candidate]_vars

(* FR-006 and FR-008: a session stays with its model.                       *)
PinMoves(s) == IsPinned(sess[s]) /\ sess'[s].pin.model # sess[s].pin.model

(* A step of the host: unpin, a session that starts, a restart.             *)
UserMoves(s) == turn' = turn \/ started' = {}

(* The four reasons of the README: a compaction, the model the user forced, *)
(* a tool that keeps failing, a pin of another provider than that of a      *)
(* candidate that pays.                                                     *)
ListedMoves(r) ==
  LET c == turn[r]  st == State(r)  m == sess'[c.session].pin.model
      candidate == enrichRequestWithSaarCandidate(c).candidate IN
  \/ c.req.compaction
  \/ Forced(c.req) /\ m = c.req.force
  \/ c.req.kind = "tool_result" /\ sess'[c.session].pin.reason = "loop_escalation"
       /\ m \in OnTier(c.full, "frontier-cloud") /\ st.pin.reason # "loop_escalation"
  \/ m = NoModel /\ PinnedIn(st, Fleet(c)) /\ candidate \in Fleet(c)
       /\ Pays(candidate, st.pin.model)
       /\ Profile[candidate].provider # Profile[st.pin.model].provider

(* The others the code has: a pin that is down, left out of the fleet or    *)
(* outgrown, a session gone idle, a tier pin, an upgrade of the tool loop   *)
(* after the buffer, and a stage that threw, whose turn ends on the         *)
(* fallback's model and on no other.                                        *)
UnlistedMoves(r) ==
  LET c == turn[r]  st == State(r)  m == sess'[c.session].pin.model IN
  \/ ~PinnedIn(st, Fleet(c)) \/ ContextOverflows(st, c.req, Fleet(c))
  \/ st.saar.idle
  \/ IsTierPinned(sess'[c.session]) /\ Profile[m].tier = sess'[c.session].flip.pinned
  \/ m = enrichRequestWithSaarCandidate(c).candidate /\ isTierUpgrade(st.pin.model, m)
       /\ isToolLoopTurn(c.req.kind) /\ shouldHardLock(st)
  \/ MayThrow(r) /\ turn'[r].at = "free" /\ m = buildFallbackDecision(c).model

RouteMoves(r) == ListedMoves(r) \/ UnlistedMoves(r)

(* No other reason moves a pin or drops it, in whatever order stages break, *)
(* record, count, escalate, decide and throw: no cheaper model, no request  *)
(* of another size or kind, no sub-route, no turn envelope and no rejected  *)
(* force.                                                                   *)
PinMovesQualified ==
  [][\A s \in Sessions : PinMoves(s) =>
       \/ UserMoves(s)
       \/ \E r \in InFlight(s) : turn'[r] # turn[r] /\ RouteMoves(r)]_vars

(* README: "Pins break only on" the four.  The code breaks this: the catch  *)
(* block of routeExclusive persists its fallback over the pin there is, and *)
(* UnlistedMoves has the other ways.                                        *)
PinsBreakAsListed ==
  [][\A s \in Sessions : PinMoves(s) =>
       \/ UserMoves(s)
       \/ \E r \in InFlight(s) : turn'[r] # turn[r] /\ ListedMoves(r)]_vars

(* What a session started with, or wrote since, is what a restart would     *)
(* read: the pin in memory and its row never part, through every break,     *)
(* count, escalation and fallback.                                          *)
PinWriteThrough == \A s \in started : sess[s].pin = sess[s].row

(* Every turn that was submitted is answered, or a restart drops it: a      *)
(* rejected route does not block the ones behind it, nor does a pipeline    *)
(* that a rebuild has left.                                                 *)
RoutesEnd == \A r \in Slots : ~At(r, "free") ~> At(r, "free")
=============================================================================
