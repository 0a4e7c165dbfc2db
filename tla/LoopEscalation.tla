---------------------------- MODULE LoopEscalation ----------------------------
(***************************************************************************)
(* Loop escalation (domain/pinning/loop-escalation.ts and the stage that    *)
(* applies it, domain/pipeline/session-pin-stage.ts): a session whose tools *)
(* keep failing is pinned to a frontier model.                              *)
(*                                                                          *)
(* What the tool result of a request says is one field of the request:      *)
(* ToolOk, or the signature of its failure.                                 *)
(***************************************************************************)
EXTENDS SessionPinner

CONSTANTS
  ToolOk, ToolUnsupported,
  ZeroTierLoopThreshold   (* zero_tier_tool_call_threshold                  *)

ASSUME ToolAssumption == ToolOk \notin FailureSignatures /\ ToolUnsupported \in FailureSignatures
ASSUME ZeroTierAssumption == ZeroTierLoopThreshold \in 1 .. LoopThreshold

ToolOutcome == FailureSignatures \cup {ToolOk}

PinnedTier(pin, fleet) == IF pin.model \in fleet THEN Profile[pin.model].tier ELSE NoTier

(* An unsupported tool is an error of its own for a zero-tier pin, and an   *)
(* ordinary failure for the others.                                         *)
extractToolFailureSignature(req) == IF req.tool = ToolOk THEN NoSignature ELSE req.tool

selectEscalationTarget(fleet, current) ==
  First(OnTier(Healthy(fleet), "frontier-cloud") \ {current})

Counted(pin, signature, carriesOn) ==
  [pin EXCEPT !.signature = signature,
              !.failures = IF ~carriesOn THEN 1 ELSE IF @ < LoopThreshold THEN @ + 1 ELSE @]

(* The pin with its counters brought up to date, and whether they now call  *)
(* for a higher tier.                                                       *)
Verdict(pin, due) == [pin |-> pin, due |-> due]

evaluateZeroTierObservationalBreak(pin, req) ==
  LET churned == Counted(pin, "zt:tool_churn", pin.signature = "zt:tool_churn") IN
  IF req.tool = ToolUnsupported
  THEN Verdict([pin EXCEPT !.signature = "zt:unsupported_tool", !.failures = IF @ = 0 THEN 1 ELSE @], TRUE)
  ELSE Verdict(churned, churned.failures >= ZeroTierLoopThreshold)

(* Below the zero tier: failures count, any kind of them on an economical   *)
(* pin, identical ones on a frontier pin.                                   *)
FailureVerdict(pin, req, fleet) ==
  LET signature == extractToolFailureSignature(req)
      counted   == Counted(pin, signature, \/ PinnedTier(pin, fleet) = "economical-cloud"
                                           \/ pin.signature = signature)
  IN  IF signature = NoSignature
      THEN Verdict(IF pin.failures > 0 THEN [pin EXCEPT !.failures = 0, !.signature = NoSignature] ELSE pin,
                   FALSE)
      ELSE Verdict(counted, counted.failures >= LoopThreshold)

(* A session escalates once: the reason of its pin says that it did.        *)
EscalationApplies(st, req) ==
  /\ IsPinned(st)
  /\ st.pin.reason # "loop_escalation"
  /\ req.kind = "tool_result"

evaluateLoopEscalation(st, req, fleet) ==
  LET verdict == IF PinnedTier(st.pin, fleet) = "zero-tier"
                 THEN evaluateZeroTierObservationalBreak(st.pin, req)
                 ELSE FailureVerdict(st.pin, req, fleet)
      target  == selectEscalationTarget(fleet, st.pin.model)
      counted == IF verdict.pin = st.pin THEN st ELSE loadPin(st, verdict.pin)
  IN  IF ~EscalationApplies(st, req) THEN st
      ELSE IF verdict.due /\ target # NoModel
        THEN recordPin(breakPin(counted), target, "loop_escalation")
      ELSE counted
=============================================================================
