----------------------------- MODULE SessionPinner -----------------------------
(***************************************************************************)
(* The session pinner (domain/pinning/session-pinner.ts) with the SAAR turn *)
(* tracker (saar-session-state.ts) and the flip-flop guard                  *)
(* (flip-flop-guard.ts) it owns, as operators on the state of one session.  *)
(* RouterPipeline runs them.                                                *)
(*                                                                          *)
(* A session's state is a record: the pin in memory, the row of the pin     *)
(* table as readers of the store see it, the tracker and the guard.  Every  *)
(* method of the pinner is synchronous, so one operator is one method.      *)
(* has_ever_switched and the timestamps of a pin are read by nobody.        *)
(***************************************************************************)
EXTENDS SwitchEconomics

CONSTANTS
  PinOnlyFallback,          (* operator switch: keep the first pin, no policy *)
  OverflowMarginPct,        (* contextOverflowSafetyMargin, 90 by default     *)
  PlanningTurnBuffer,       (* turns before the SAAR hard lock                *)
  FlipThreshold,            (* FLIP_FLOP_PIN_THRESHOLD                        *)
  ToolResultSizeThreshold,  (* largest tool result that may be sub-routed     *)
  FailureSignatures,        (* what a failed tool result hashes to            *)
  LoopThreshold,            (* loop_escalation.threshold                      *)
  NoTier, NoSignature

ASSUME BufferAssumption == PlanningTurnBuffer \in Nat \ {0}
ASSUME FlipAssumption == FlipThreshold \in Nat \ {0} /\ NoTier \notin TierName
ASSUME LoopAssumption == LoopThreshold \in Nat \ {0}
ASSUME OverflowAssumption == OverflowMarginPct \in 1 .. 100
ASSUME PinnerSwitches == PinOnlyFallback \in BOOLEAN /\ ToolResultSizeThreshold \in Nat

TurnType  == {"planning", "tool_result", "subagent", "main_loop"}
PinReason == {"initial", "user_forced", "loop_escalation"}
Signature == FailureSignatures \cup {NoSignature, "zt:unsupported_tool", "zt:tool_churn"}

NoPin      == [model |-> NoModel, reason |-> "initial", failures |-> 0, signature |-> NoSignature]
Untracked  == [tracked |-> FALSE, turn |-> 0, idle |-> FALSE]
Unobserved == [last |-> NoTier, flips |-> 0, pinned |-> NoTier]
NewSession == [pin |-> NoPin, row |-> NoPin, saar |-> Untracked, flip |-> Unobserved]

(* failures is capped: the code only compares it with the threshold.        *)
SessionPin(Ids) ==
  [model : Ids \cup {NoModel}, reason : PinReason, failures : 0 .. LoopThreshold, signature : Signature]
SessionState(Ids) ==
  [pin  : SessionPin(Ids), row : SessionPin(Ids),
   saar : [tracked : BOOLEAN, turn : 0 .. PlanningTurnBuffer, idle : BOOLEAN],
   flip : [last : TierName \cup {NoTier}, flips : 0 .. FlipThreshold, pinned : TierName \cup {NoTier}]]

IsPinned(st) == st.pin # NoPin
IsTierPinned(st) == st.flip.pinned # NoTier

-----------------------------------------------------------------------------
(* A request scans the fleet in catalog order: the pipeline hands           *)
(* prioritizeFleetForToolHistory no context messages, and without them it   *)
(* finds no replay risk and reorders nothing.                               *)

Forced(req) == req.force # NoModel

Healthy(fleet) == {m \in fleet : IsHealthy(m)}

TierRank == [t \in TierName |-> CASE t = "zero-tier" -> 0 [] t = "economical-cloud" -> 1
                                  [] t = "frontier-cloud" -> 2]
isTierUpgrade(from, to) == TierRank[Profile[to].tier] > TierRank[Profile[from].tier]

(* The tier a turn type leans to.                                           *)
TurnTier(kind) ==
  CASE kind = "planning" -> "frontier-cloud"
    [] kind \in {"tool_result", "subagent"} -> "economical-cloud"
    [] OTHER -> NoTier

-----------------------------------------------------------------------------
(* The pinner's methods.                                                    *)

(* Counters of the pin survive a change of model, not a break.              *)
recordPin(st, model, reason) ==
  LET pin == [st.pin EXCEPT !.model = model, !.reason = reason]
  IN  [st EXCEPT !.pin = pin, !.row = pin]

(* Mutant: the row stays behind.                                            *)
breakPinInMemory(st) == [st EXCEPT !.pin = NoPin, !.saar = Untracked, !.flip = Unobserved]

(* The row goes with the pin, the tracker and the guard.                    *)
breakPin(st) == [st EXCEPT !.pin = NoPin, !.row = NoPin, !.saar = Untracked, !.flip = Unobserved]

loadPin(st, pin) == [st EXCEPT !.pin = pin, !.row = pin]

restoreSessionPin(st) == IF st.row = NoPin THEN st ELSE [st EXCEPT !.pin = st.row]

recordSaarTurn(st) ==
  [st EXCEPT !.saar = [tracked |-> TRUE, idle |-> FALSE,
                       turn |-> IF @.turn < PlanningTurnBuffer THEN @.turn + 1 ELSE @.turn]]

isInBufferWindow(st) == st.saar.turn < PlanningTurnBuffer
shouldHardLock(st)   == ~isInBufferWindow(st)

touchActivity(st) == [st EXCEPT !.saar.tracked = TRUE, !.saar.idle = FALSE]

(* Mutant: one flip more than the threshold.                                *)
observeTierLate(st, tier) ==
  LET flips == st.flip.flips + 1 IN
  IF IsTierPinned(st) THEN st
  ELSE IF st.flip.last \in {NoTier, tier} THEN [st EXCEPT !.flip = [Unobserved EXCEPT !.last = tier]]
  ELSE [st EXCEPT !.flip = [last |-> tier, flips |-> flips,
                            pinned |-> IF flips > FlipThreshold THEN tier ELSE NoTier]]

(* Flips are counted between consecutive observations; the tier seen at the *)
(* last flip is the one that stays.                                         *)
observeTier(st, tier) ==
  LET flips == st.flip.flips + 1 IN
  IF IsTierPinned(st) THEN st
  ELSE IF st.flip.last \in {NoTier, tier} THEN [st EXCEPT !.flip = [Unobserved EXCEPT !.last = tier]]
  ELSE [st EXCEPT !.flip = [last |-> tier, flips |-> flips,
                            pinned |-> IF flips >= FlipThreshold THEN tier ELSE NoTier]]

isFlipFlopTierChangeBlocked(st, model) ==
  IsTierPinned(st) /\ st.flip.pinned # Profile[model].tier

-----------------------------------------------------------------------------
(* lookupPin.  Its answer: what to do, with which model, why, and the state *)
(* of the session after it.                                                 *)

LookupReason ==
  {"flip_flop_tier_pinned", "force_rejected_unhealthy", "force_rejected_not_in_fleet", "no_pin",
   "compaction", "context_overflow", "cache_economics", "unhealthy", "session_pinned",
   "saar_idle_reopen", "saar_buffer_active", "saar_tier_upgrade", "saar_hard_lock",
   "tool_result_sub_route"}

Answer(st, action, model, reason) ==
  [state |-> st, action |-> action, model |-> model, reason |-> reason]

(* The pinned model, when the fleet still has it and it is healthy.         *)
PinnedIn(st, fleet) == st.pin.model \in Healthy(fleet)

observeShadowTier(st, req, fleet) ==
  IF req.candidate \in Healthy(fleet) THEN observeTier(st, Profile[req.candidate].tier) ELSE st

(* A tier-pinned session keeps its model on that tier, and gets the first   *)
(* healthy model of the tier when it has none.                              *)
FlipFlopModel(st, fleet) ==
  LET onTier == OnTier(Healthy(fleet), st.flip.pinned)
  IN  IF st.pin.model \in onTier THEN st.pin.model ELSE First(onTier)

resolveFlipFlopPin(st, req, fleet) ==
  LET model == FlipFlopModel(st, fleet)
  IN  Answer(IF model = st.pin.model THEN st ELSE recordPin(st, model, st.pin.reason),
             "use_pin", model, "flip_flop_tier_pinned")

(* A force is one shot: it pins, or it is refused and nothing changes.      *)
resolveForceOverride(st, req, fleet) ==
  IF req.force \in Healthy(fleet)
  THEN Answer(recordPin(st, req.force, "user_forced"), "use_pin", req.force, "session_pinned")
  ELSE Answer(st, "force_rejected", NoModel,
              IF req.force \in fleet THEN "force_rejected_unhealthy" ELSE "force_rejected_not_in_fleet")

Break(st, reason)  == Answer(breakPin(st), "break", NoModel, reason)
NoPinLeft(st, why) == Answer(breakPin(st), "no_pin", NoModel, why)

(* Break rules, FR-008.                                                     *)
ContextOverflows(st, req, fleet) ==
  /\ PinnedIn(st, fleet)
  /\ Profile[st.pin.model].window # 0
  /\ 100 * req.tokens > Profile[st.pin.model].window * OverflowMarginPct

EconomicsBreaks(st, req, fleet) ==
  /\ PinnedIn(st, fleet)
  /\ req.candidate \in Healthy(fleet) \ {st.pin.model}
  /\ ~isFlipFlopTierChangeBlocked(st, req.candidate)
  /\ evaluateCacheEconomics(st.pin.model, req.candidate, req.tokens)
  /\ evaluateModelSwitchBreakeven(st.pin.model, req.candidate, req.tokens, 0)

(* SAAR, SP-122: upgrades inside the planning buffer leave the pin alone,   *)
(* after it they move the pin, and only for a turn of the tool loop.        *)
MayUpgrade(st, req, fleet) ==
  /\ PinnedIn(st, fleet)
  /\ req.candidate \in Healthy(fleet)
  /\ isTierUpgrade(st.pin.model, req.candidate)
  /\ ~isFlipFlopTierChangeBlocked(st, req.candidate)

isToolLoopTurn(kind) == kind \in {"main_loop", "tool_result"}

HardLocks(st, req, fleet) ==
  /\ PinnedIn(st, fleet)
  /\ req.candidate \in Healthy(fleet) \ {st.pin.model}

(* Sub-routing, FR-024: a small tool result may go to another economical    *)
(* model of the pinned provider.                                            *)
SubRouteModel(st, req, fleet) ==
  First({m \in OnTier(Healthy(fleet), "economical-cloud") :
               Profile[m].provider = Profile[st.pin.model].provider} \ {st.pin.model})

SubRoutes(st, req, fleet) ==
  /\ req.kind = "tool_result"
  /\ req.tokens <= ToolResultSizeThreshold
  /\ st.pin.model \in fleet
  /\ SubRouteModel(st, req, fleet) # NoModel
  /\ ~isFlipFlopTierChangeBlocked(st, SubRouteModel(st, req, fleet))
  /\ evaluateModelSwitchBreakeven(st.pin.model, SubRouteModel(st, req, fleet), req.tokens, 0)

UsePin(st, fleet, reason) ==
  IF PinnedIn(st, fleet) THEN Answer(st, "use_pin", st.pin.model, reason) ELSE NoPinLeft(st, "unhealthy")

(* What follows the break rules when the session's policy is not frozen.    *)
evaluateSaarPolicy(st, req, fleet) ==
  LET live == touchActivity(st) IN
  IF st.saar.idle THEN NoPinLeft(st, "saar_idle_reopen")
  ELSE IF isInBufferWindow(live) /\ MayUpgrade(live, req, fleet)
    THEN Answer(live, "saar_route", req.candidate, "saar_buffer_active")
  ELSE IF shouldHardLock(live) /\ isToolLoopTurn(req.kind) /\ MayUpgrade(live, req, fleet)
    THEN Answer(recordPin(live, req.candidate, live.pin.reason), "use_pin", req.candidate, "saar_tier_upgrade")
  ELSE IF shouldHardLock(live) /\ HardLocks(live, req, fleet)
    THEN Answer(live, "use_pin", live.pin.model, "saar_hard_lock")
  ELSE IF SubRoutes(live, req, fleet)
    THEN Answer(live, "sub_route", SubRouteModel(live, req, fleet), "tool_result_sub_route")
  ELSE UsePin(live, fleet, "session_pinned")

lookupPin(before, req, fleet) ==
  LET st == observeShadowTier(before, req, fleet) IN
  IF IsTierPinned(st) /\ FlipFlopModel(st, fleet) # NoModel
    THEN resolveFlipFlopPin(st, req, fleet)
  ELSE IF Forced(req) /\ ~(IsPinned(st) /\ req.compaction)
    THEN resolveForceOverride(st, req, fleet)
  ELSE IF ~IsPinned(st)                 THEN Answer(st, "no_pin", NoModel, "no_pin")
  ELSE IF req.compaction                THEN Break(st, "compaction")
  ELSE IF ContextOverflows(st, req, fleet) THEN Break(st, "context_overflow")
  ELSE IF EconomicsBreaks(st, req, fleet)  THEN Break(st, "cache_economics")
  ELSE IF PinOnlyFallback               THEN UsePin(st, fleet, "session_pinned")
  ELSE evaluateSaarPolicy(st, req, fleet)
=============================================================================
