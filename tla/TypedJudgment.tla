----------------------------- MODULE TypedJudgment -----------------------------
(***************************************************************************)
(* The typed_judgment stage and the HTTP adapter behind it: one question    *)
(* put to a judge per user turn, with retries, under a time budget that     *)
(* both of them enforce.  A pipeline routes one turn at a time, so there    *)
(* is one call; the stage decides nothing, but a route waits for it.        *)
(*                                                                          *)
(* Of the six questions one score question is modelled: its answer gives    *)
(* every level of a scale a probability, counted in parts of Whole.         *)
(***************************************************************************)
EXTENDS Integers, Functions

CONSTANTS
  Levels,       (* the number of levels of the scale                        *)
  Whole,        (* parts of a probability                                   *)
  MaxRetries    (* MAX_RETRIES                                              *)

VARIABLES
  call,         (* where the stage is; the status of the response it reads; *)
                (* retries made                                             *)
  stageTimer,   (* the stage's setTimeout: off, armed, fired                *)
  adapterTimer, (* the adapter's AbortSignal.timeout: off, armed, fired     *)
  judged        (* the context the last call left: whether it has a         *)
                (* judgment, the skip reason; and, as history, the answer   *)
                (* it received and whether its budget was spent             *)

judgmentVars == <<call, stageTimer, adapterTimer, judged>>

Scale == 0 .. Levels - 1
Total(w)  == FoldFunction(LAMBDA a, b : a + b, 0, w)

(* The answers that give every level its probability.                       *)
Distributions == {w \in [Scale -> 0 .. Whole] : Total(w) = Whole}

(* A body that is cut short, malformed, of another kind, or lacks a level.  *)
NoAnswer == [k \in Scale |-> 0]
Bodies == Distributions \cup {NoAnswer}

NoCall == [at |-> "idle", status |-> "none", retries |-> 0]
Statuses == {"ok", "rejected", "rate_limited", "overloaded"}
Retryable(status) == status \in {"rate_limited", "overloaded"}

JudgmentInit ==
  /\ call = NoCall
  /\ stageTimer = "off"
  /\ adapterTimer = "off"
  /\ judged = [judgment |-> FALSE, reason |-> "none", answer |-> NoAnswer, late |-> FALSE]

(* AbortSignal.any of the two.                                              *)
SignalAborted == stageTimer = "fired" \/ adapterTimer = "fired"

(* It reaches whatever the call awaits.                                     *)
Cut == call.at # "idle" /\ SignalAborted

-----------------------------------------------------------------------------
(* The stage is left; its timer is cleared.                                 *)
Leaves(judgment, reason, answer) ==
  /\ judged' = [judgment |-> judgment, reason |-> reason, answer |-> answer, late |-> SignalAborted]
  /\ call' = NoCall
  /\ stageTimer' = "off"
  /\ adapterTimer' = "off"

(* Mutant: only the error's kind counts.                                    *)
isTimeoutLikeByKind(kind) == kind \in {"timeout", "aborted"}

isTimeoutLike(kind) == stageTimer = "fired" \/ kind \in {"timeout", "aborted"}

Throws(kind, answer) ==
  Leaves(FALSE, IF isTimeoutLike(kind) THEN "timeout" ELSE "error", answer)

(* Nothing to judge: no port, a forced model, a tool result, an             *)
(* acknowledgement.                                                         *)
Skip ==
  /\ call.at = "idle"
  /\ \E reason \in {"disabled", "force_model", "tool_result", "acknowledgement"} :
       Leaves(FALSE, reason, NoAnswer)

Judge ==
  /\ call.at = "idle"
  /\ call' = [NoCall EXCEPT !.at = "posting"]
  /\ stageTimer' = "armed"
  /\ adapterTimer' = "armed"
  /\ UNCHANGED judged

(* Mutant: the stage's timer is cleared when the headers have arrived.      *)
RespondInTime(status) ==
  /\ call.at = "posting"
  /\ ~Cut
  /\ IF Retryable(status) /\ call.retries < MaxRetries
     THEN call' = [call EXCEPT !.at = "sleeping", !.retries = @ + 1] /\ UNCHANGED stageTimer
     ELSE call' = [call EXCEPT !.at = "reading", !.status = status] /\ stageTimer' = "off"
  /\ UNCHANGED <<adapterTimer, judged>>

(* The response's headers: wait for another try, or read the body.          *)
Respond(status) ==
  /\ call.at = "posting"
  /\ ~Cut
  /\ call' = IF Retryable(status) /\ call.retries < MaxRetries
             THEN [call EXCEPT !.at = "sleeping", !.retries = @ + 1]
             ELSE [call EXCEPT !.at = "reading", !.status = status]
  /\ UNCHANGED <<stageTimer, adapterTimer, judged>>

PostAgain ==
  /\ call.at = "sleeping"
  /\ ~Cut
  /\ call' = [call EXCEPT !.at = "posting"]
  /\ UNCHANGED <<stageTimer, adapterTimer, judged>>

NetworkFails ==
  /\ call.at = "posting"
  /\ ~Cut
  /\ Throws("transport", NoAnswer)

(* The kind of error a response that is not ok becomes.                     *)
HttpError(status) == IF status = "rejected" THEN "bad_request" ELSE status

(* The adapter lifts an answer to its expected level ...                    *)
mapScoreAnswer(w) == Total([k \in Scale |-> k * w[k]])

(* ... and the stage's mapper takes whole levels only.                      *)
mapTypedJudgment(score) == score % Whole = 0

(* The body arrives: complete, or cut short by the connection.              *)
ReadBody(body) ==
  /\ call.at = "reading"
  /\ ~Cut
  /\ IF call.status # "ok" THEN Throws(HttpError(call.status), NoAnswer)
     ELSE IF body = NoAnswer THEN Throws("invalid_response", NoAnswer)
     ELSE IF mapTypedJudgment(mapScoreAnswer(body)) THEN Leaves(TRUE, "none", body)
     ELSE Throws("invalid_response", body)

(* Both timers have the same duration and the stage's is set first.         *)
StageTimerFires ==
  /\ stageTimer = "armed"
  /\ stageTimer' = "fired"
  /\ UNCHANGED <<call, adapterTimer, judged>>

AdapterTimerFires ==
  /\ adapterTimer = "armed"
  /\ stageTimer = "fired"
  /\ adapterTimer' = "fired"
  /\ UNCHANGED <<call, stageTimer, judged>>

(* The signal rejects the post, the sleep, or the reading of the body; the  *)
(* last of these the adapter takes for a malformed body.                    *)
Interrupted ==
  /\ Cut
  /\ Throws(IF call.at # "reading" THEN IF stageTimer = "fired" THEN "aborted" ELSE "timeout"
            ELSE IF call.status = "ok" THEN "invalid_response"
            ELSE HttpError(call.status), NoAnswer)

JudgmentNext ==
  \/ Skip \/ Judge \/ PostAgain \/ NetworkFails
  \/ \E status \in Statuses : Respond(status)
  \/ \E body \in Bodies : ReadBody(body)
  \/ StageTimerFires \/ AdapterTimerFires \/ Interrupted

(* The stage's timer fires and rejected promises continue; the judge need   *)
(* not answer, and the adapter's timer is not relied upon.                  *)
JudgmentFairness == WF_judgmentVars(StageTimerFires) /\ WF_judgmentVars(Interrupted)

JudgmentSpec == JudgmentInit /\ [][JudgmentNext]_judgmentVars

-----------------------------------------------------------------------------
(* Every judgment ends although the judge may never answer a post, stop in  *)
(* the middle of a body or keep asking for another try: the routes queued   *)
(* behind it go on.                                                         *)
JudgmentEnds == (call.at # "idle") ~> (call.at = "idle")

(* A call is reported as timed out exactly when its budget was spent,       *)
(* wherever that struck: in a post, in the wait between two, or in a body,  *)
(* where the adapter itself sees but a malformed response.                  *)
TimeoutReported ==
  judged.reason \in {"none", "error", "timeout"} => (judged.reason = "timeout") = judged.late

(* README.md on the stage: it "asks a Jev-compatible judge six structured   *)
(* questions about each user-prompt turn and records the normalized         *)
(* answers".  A complete answer that came in time is recorded.              *)
AnswersRecorded == judged.answer \in Distributions => judged.judgment
=============================================================================
