----------------------------- MODULE ReplayHistory -----------------------------
(***************************************************************************)
(* What of a session's history a model is sent.  Answers carry state that   *)
(* only their author can read back: signed or redacted thinking, signed     *)
(* texts and tool calls.  Three places decide, at different times, what     *)
(* becomes of it: the tool-history guard before routing                     *)
(* (domain/routing/tool-history-guard.ts), the normalisation and repair of  *)
(* the context before each call (domain/delegation/delegation-context.ts),  *)
(* and pi-ai, which strips the state of every message whose identity is not *)
(* the target's.  The execution ledger remembers one author per session.    *)
(*                                                                          *)
(* A tool result always follows its call here, and an answer is a set of    *)
(* blocks: their order and their texts play no part.                        *)
(***************************************************************************)
EXTENDS Integers, Sequences, FiniteSets

CONSTANTS
  Repliers,        (* the models of the host                                *)
  Scopes,          (* the fleets a turn may find                            *)
  GoogleApis,      (* those with a Google API                               *)
  GoogleProviders, (* those with a Google provider, or gemini through cursor *)
  CursorModels,    (* those with provider cursor                            *)
  Writes,          (* [Repliers -> the sets of blocks a model may answer]   *)
  Virtual,         (* the identity smart-router/auto                        *)
  NoReplier,
  MaxMessages      (* of the host's history before it compacts              *)

ASSUME RepliersAssumption ==
  /\ GoogleApis \cup GoogleProviders \cup CursorModels \cup UNION Scopes \subseteq Repliers
  /\ {Virtual, NoReplier} \cap Repliers = {}

Block == [type : {"thinking", "text", "toolCall", "prose"},
          state : {"plain", "signed", "redacted", "sentinel"}]

(* What a model writes: prose is what becomes of foreign thinking, the      *)
(* sentinel what a repair signs an unsigned call with.                      *)
Written == {b \in Block : /\ b.type # "prose" /\ b.state # "sentinel"
                          /\ b.state = "redacted" => b.type = "thinking"}

ASSUME WritesAssumption == Writes \in [Repliers -> SUBSET SUBSET Written]

VARIABLES
  history,       (* the assistant messages: author, identity, blocks        *)
  lastExecution, (* the ledger                                              *)
  delivery       (* the call in flight, and what was sent of each message   *)

replayVars == <<history, lastExecution, delivery>>

NoDelivery == [target |-> NoReplier, forced |-> FALSE, sent |-> <<>>]

ReplayInit == history = <<>> /\ lastExecution = NoReplier /\ delivery = NoDelivery

-----------------------------------------------------------------------------
isGoogleDelegationTarget(m) == m \in GoogleApis \cap GoogleProviders
isGoogleOriginAssistantMessage(message) ==
  message.identity \in GoogleApis \cup GoogleProviders \cup {Virtual}

Has(message, type, states) == \E b \in message.blocks : b.type = type /\ b.state \in states
Calls(message) == \E b \in message.blocks : b.type = "toolCall"
Messages == {history[i] : i \in DOMAIN history}

hasToolCallHistory == \E message \in Messages : Calls(message)
hasGoogleReplayRisk ==
  \E message \in Messages : isGoogleOriginAssistantMessage(message) /\ Calls(message)

UnrepairableOfGoogle(message) ==
  /\ isGoogleOriginAssistantMessage(message)
  /\ Has(message, "thinking", {"redacted", "signed"}) \/ Has(message, "text", {"signed"})

(* Mutant: a foreign signature on a tool call is overlooked.                *)
UnrepairableForeignText(message) ==
  \/ Has(message, "thinking", {"redacted"})
  \/ /\ ~isGoogleOriginAssistantMessage(message)
     /\ Has(message, "thinking", {"signed"}) \/ Has(message, "text", {"signed"})

UnrepairableForeign(message) ==
  \/ Has(message, "thinking", {"redacted"})
  \/ /\ ~isGoogleOriginAssistantMessage(message)
     /\ \E b \in message.blocks : b.state = "signed"

sessionHasGoogleUnsafeToolHistory ==
  \/ hasGoogleReplayRisk /\ \E message \in Messages : UnrepairableOfGoogle(message)
  \/ hasToolCallHistory /\ \E message \in Messages : UnrepairableForeign(message)

resolveEffectiveFleet(fleet, forced) ==
  IF forced \/ ~sessionHasGoogleUnsafeToolHistory THEN fleet ELSE fleet \ GoogleProviders

-----------------------------------------------------------------------------
(* normalizeDelegationContext: whoever wrote a message of the virtual       *)
(* identity, it becomes the last model that answered, or the target.        *)
NormalizedIdentity(message, target) ==
  IF message.identity # Virtual THEN message.identity
  ELSE IF lastExecution # NoReplier THEN lastExecution ELSE target

stripCursorLifecycleThinking(blocks, identity, target) ==
  IF identity \in CursorModels /\ target \notin CursorModels
  THEN {b \in blocks : b.type # "thinking"}
  ELSE blocks

repairAssistantForGoogleReplay(blocks) ==
  {IF b.type = "toolCall" /\ b.state = "plain" THEN [b EXCEPT !.state = "sentinel"] ELSE b : b \in blocks}

(* pi-ai: foreign state is stripped, and foreign thinking becomes prose.    *)
transformMessages(blocks) ==
  {[type |-> IF b.type = "thinking" THEN "prose" ELSE b.type, state |-> "plain"] : b \in blocks}

Sent(message, target) ==
  LET identity == NormalizedIdentity(message, target)
      kept     == stripCursorLifecycleThinking(message.blocks, identity, target)
  IN  IF isGoogleDelegationTarget(target) THEN repairAssistantForGoogleReplay(kept)
      ELSE IF identity = target THEN kept
      ELSE transformMessages(kept)

(* A turn, or its failover to another model of the turn's fleet; a model    *)
(* that was asked for by name is looked for in the whole fleet.             *)
Delegate(target, fleet, forced) ==
  /\ target \in resolveEffectiveFleet(fleet, forced)
  /\ delivery' = [target |-> target, forced |-> forced,
                  sent   |-> [i \in DOMAIN history |-> Sent(history[i], target)]]
  /\ UNCHANGED <<history, lastExecution>>

(* assertRoutableFleetAfterGeminiToolHistoryGuard throws.                   *)
NothingToRoute(fleet) ==
  /\ resolveEffectiveFleet(fleet, FALSE) = {}
  /\ UNCHANGED replayVars

Message(author, identity, blocks) == [author |-> author, identity |-> identity, blocks |-> blocks]

(* The host stores the answer under its author's name or its own model's.   *)
Answer(author, blocks, identity) ==
  /\ delivery.target = author /\ Len(history) < MaxMessages
  /\ history' = Append(history, Message(author, identity, blocks))
  /\ lastExecution' = author
  /\ delivery' = NoDelivery

(* A turn of a model that the operator selected instead of the router.      *)
AnswerElsewhere(author, blocks) ==
  /\ delivery = NoDelivery /\ Len(history) < MaxMessages
  /\ history' = Append(history, Message(author, author, blocks))
  /\ UNCHANGED <<lastExecution, delivery>>

Compact ==
  /\ delivery = NoDelivery /\ history # <<>>
  /\ history' = Tail(history)
  /\ UNCHANGED <<lastExecution, delivery>>

(* Shutdown, or an idle session's eviction; the session may be resumed.     *)
Evict ==
  /\ lastExecution' = NoReplier
  /\ UNCHANGED <<history, delivery>>

ReplayNext ==
  \/ \E fleet \in Scopes : \/ \E m \in fleet, forced \in BOOLEAN : Delegate(m, fleet, forced)
                           \/ NothingToRoute(fleet)
  \/ \E m \in Repliers : \E blocks \in Writes[m] :
       AnswerElsewhere(m, blocks) \/ \E identity \in {m, Virtual} : Answer(m, blocks, identity)
  \/ Compact \/ Evict

ReplaySpec == ReplayInit /\ [][ReplayNext]_replayVars

-----------------------------------------------------------------------------
(* "Captured signatures are preserved"; what Google cannot take is kept     *)
(* from it: a Google model is sent no unsigned tool call, and in a history  *)
(* with tools no redacted thinking and nobody else's signature, unless it   *)
(* was asked for by name.  Every other model is sent only state of its own, *)
(* and no lifecycle lines of Cursor as prose; nobody else's thinking is     *)
(* dropped.                                                                 *)
(*                                                                          *)
(* All this is lost on messages of the virtual identity: they count as      *)
(* Google's for the guard, and as the work of the last model afterwards.    *)
Misattributed(message) == message.identity = Virtual /\ message.author # delivery.target

AcceptedByGoogle(b, message) ==
  /\ b.type = "toolCall" => b.state # "plain"
  /\ \/ b.state \in {"plain", "sentinel"}
     \/ delivery.forced
     \/ ~hasToolCallHistory
     \/ b.state = "signed" /\ message.author \in GoogleApis \cup GoogleProviders
     \/ b.state = "signed" /\ Misattributed(message)

AcceptedByOthers(b, message) ==
  /\ b.state # "sentinel"
  /\ b.state # "plain" => message.author = delivery.target \/ Misattributed(message)
  /\ b.type = "prose" /\ message.author \in CursorModels => delivery.target \in CursorModels \/ Misattributed(message)

ThinkingKept(sent, message) ==
  Has(message, "thinking", {"plain", "signed", "redacted"})
    => \/ \E b \in sent : b.type \in {"thinking", "prose"}
       \/ message.author \in CursorModels \/ message.identity = Virtual

ReplayAccepted ==
  \A i \in DOMAIN delivery.sent :
    /\ ThinkingKept(delivery.sent[i], history[i])
    /\ \A b \in delivery.sent[i] :
         /\ b \in Block
         /\ IF isGoogleDelegationTarget(delivery.target) THEN AcceptedByGoogle(b, history[i])
            ELSE AcceptedByOthers(b, history[i])
=============================================================================
