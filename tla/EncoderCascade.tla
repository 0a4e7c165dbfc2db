----------------------------- MODULE EncoderCascade -----------------------------
(***************************************************************************)
(* The cascading text embedder (domain/matching/embedding-provider.ts and   *)
(* encoder-gate.ts): one ONNX session per encoder, loaded on first use and  *)
(* shared by everyone who embeds; prompts over a threshold go to the        *)
(* long-context encoder, and to the primary one for good as soon as the     *)
(* long-context one fails.  The fleet's pipelines share one cascade, so     *)
(* embeds overlap, with each other and with its disposal.                   *)
(***************************************************************************)
EXTENDS Integers, Sequences, FiniteSets

CONSTANTS
  PrimaryEncoder, LongContextEncoder,
  Embedders,      (* routes that may embed at the same time                 *)
  MaxSessions     (* sessions that may be referenced at the same time       *)

ASSUME EncodersDiffer == PrimaryEncoder # LongContextEncoder
ASSUME MaxSessionsAssumption == MaxSessions \in Nat

OnnxSessions == 1 .. MaxSessions
NoSession == 0
Encoders == {PrimaryEncoder, LongContextEncoder}

VARIABLES
  onnx,      (* each session: its encoder, its state, and whether it was    *)
             (* asked for after the disposal                                *)
  sessions,  (* the map, in the order of insertion                          *)
  longContextAvailable,
  disposal,  (* dispose(): whether called, the sessions it has yet to       *)
             (* close, and whether one was not released                     *)
  embeds     (* each embed: where it awaits, its session, its reason code   *)

cascadeVars == <<onnx, sessions, longContextAvailable, disposal, embeds>>

NoEmbed == [at |-> "idle", session |-> NoSession, reason |-> "none"]

CascadeInit ==
  /\ onnx = [h \in OnnxSessions |-> [encoder |-> PrimaryEncoder, state |-> "none", late |-> FALSE]]
  /\ sessions = <<>>
  /\ longContextAvailable = TRUE
  /\ disposal = [called |-> FALSE, pending |-> <<>>, failed |-> FALSE]
  /\ embeds = [c \in Embedders |-> NoEmbed]

-----------------------------------------------------------------------------
InMap(h) == \E i \in DOMAIN sessions : sessions[i] = h
Pending(h) == \E i \in DOMAIN disposal.pending : disposal.pending[i] = h
Open(h) == onnx[h].state \in {"loading", "live"}

(* A session that was never loaded, or failed or closed and forgotten.      *)
Unreferenced(h) ==
  /\ ~Open(h) /\ onnx[h].state # "unreleased"
  /\ ~InMap(h) /\ ~Pending(h)
  /\ \A c \in Embedders : embeds[c].session # h
New(h) == Unreferenced(h) /\ \A g \in OnnxSessions : Unreferenced(g) => h <= g

(* The map without one of its two encoders: the session of the other one    *)
(* is left, if it has one.                                                  *)
Without(map, encoder) ==
  LET rest == {h \in OnnxSessions : onnx[h].encoder # encoder /\ \E i \in DOMAIN map : map[i] = h}
  IN  IF rest = {} THEN <<>> ELSE <<CHOOSE h \in rest : TRUE>>

(* The gate: what a prompt below or over the threshold is embedded with.    *)
selectEncoderForPrompt(over) ==
  IF ~over THEN "under_threshold"
  ELSE IF longContextAvailable THEN "over_threshold" ELSE "granite_fallback"

(* The session of the map, or a new one, which is in the map before it has  *)
(* been loaded.                                                             *)
SessionFor(encoder, map, h) ==
  LET held == {g \in OnnxSessions : onnx[g].encoder = encoder /\ \E i \in DOMAIN map : map[i] = g} IN
  \/ h \in held /\ sessions' = map /\ UNCHANGED onnx
  \/ /\ held = {} /\ New(h)
     /\ onnx' = [onnx EXCEPT ![h] = [encoder |-> encoder, state |-> "loading", late |-> disposal.called]]
     /\ sessions' = Append(map, h)

Awaits(c, h, reason) ==
  embeds' = [embeds EXCEPT ![c] = [at |-> "loading", session |-> h, reason |-> reason]]

-----------------------------------------------------------------------------
Embed(c, over, h) ==
  /\ embeds[c].at = "idle"
  /\ ~disposal.called
  /\ LET reason == selectEncoderForPrompt(over) IN
       /\ SessionFor(IF reason = "over_threshold" THEN LongContextEncoder ELSE PrimaryEncoder,
                     sessions, h)
       /\ Awaits(c, h, reason)
  /\ UNCHANGED <<longContextAvailable, disposal>>

EmbedRefused(c) ==
  /\ embeds[c].at = "idle"
  /\ disposal.called
  /\ UNCHANGED cascadeVars

(* The model has been fetched, verified and opened, or not; a rejected      *)
(* promise leaves the map, by its encoder, before any embed hears of it.    *)
LoadSettles(h, ok) ==
  /\ onnx[h].state = "loading"
  /\ onnx' = [onnx EXCEPT ![h].state = IF ok THEN "live" ELSE "failed"]
  /\ sessions' = IF ok THEN sessions ELSE Without(sessions, onnx[h].encoder)
  /\ UNCHANGED <<longContextAvailable, disposal, embeds>>

(* An embed that was to use the long-context encoder gives it up for good   *)
(* and turns to the primary one, whether or not the cascade was disposed of *)
(* in the meantime; any other embed rejects.                                *)
FallsBack(c, h) ==
  IF embeds[c].reason = "over_threshold"
  THEN /\ longContextAvailable' = FALSE
       /\ SessionFor(PrimaryEncoder, Without(sessions, LongContextEncoder), h)
       /\ Awaits(c, h, "granite_fallback")
  ELSE /\ h = embeds[c].session
       /\ embeds' = [embeds EXCEPT ![c] = NoEmbed]
       /\ UNCHANGED <<onnx, sessions, longContextAvailable>>

(* The load an embed awaited has settled.                                   *)
Infer(c) ==
  /\ embeds[c].at = "loading" /\ onnx[embeds[c].session].state = "live"
  /\ embeds' = [embeds EXCEPT ![c].at = "embedding"]
  /\ UNCHANGED <<onnx, sessions, longContextAvailable, disposal>>

LoadFails(c, h) ==
  /\ embeds[c].at = "loading" /\ onnx[embeds[c].session].state = "failed"
  /\ FallsBack(c, h)
  /\ UNCHANGED disposal

Embedded(c) ==
  /\ embeds[c].at = "embedding"
  /\ embeds' = [embeds EXCEPT ![c] = NoEmbed]
  /\ UNCHANGED <<onnx, sessions, longContextAvailable, disposal>>

EmbedFails(c, h) ==
  /\ embeds[c].at = "embedding"
  /\ FallsBack(c, h)
  /\ UNCHANGED disposal

Dispose ==
  /\ ~disposal.called
  /\ disposal' = [disposal EXCEPT !.called = TRUE, !.pending = sessions]
  /\ sessions' = <<>>
  /\ UNCHANGED <<onnx, longContextAvailable, embeds>>

(* Mutant: a session that is still loading is not waited for.               *)
CloseNextLoaded(released) ==
  /\ disposal.pending # <<>>
  /\ LET h == Head(disposal.pending)  loading == onnx[h].state = "loading"  open == onnx[h].state = "live" IN
       /\ onnx' = IF open THEN [onnx EXCEPT ![h].state = IF released THEN "closed" ELSE "unreleased"]
                  ELSE onnx
       /\ disposal' = [disposal EXCEPT !.pending = Tail(@),
                                       !.failed = @ \/ ~(loading \/ (open /\ released))]
  /\ UNCHANGED <<sessions, longContextAvailable, embeds>>

(* One session after the other is awaited and closed; a failure is kept for *)
(* the end and does not spare the others.                                   *)
CloseNext(released) ==
  /\ disposal.pending # <<>>
  /\ LET h == Head(disposal.pending)  open == onnx[h].state = "live" IN
       /\ onnx[h].state # "loading"
       /\ onnx' = IF open THEN [onnx EXCEPT ![h].state = IF released THEN "closed" ELSE "unreleased"]
                  ELSE onnx
       /\ disposal' = [disposal EXCEPT !.pending = Tail(@), !.failed = @ \/ ~(open /\ released)]
  /\ UNCHANGED <<sessions, longContextAvailable, embeds>>

(* What awaits a promise runs as soon as it has settled, before any other   *)
(* event.                                                                   *)
Settled == \A c \in Embedders : embeds[c].at = "loading" => onnx[embeds[c].session].state = "loading"

Continuation == \E c \in Embedders : Infer(c) \/ \E h \in OnnxSessions : LoadFails(c, h)

CascadeEvent ==
  \/ \E c \in Embedders :
       \/ \E h \in OnnxSessions : EmbedFails(c, h) \/ \E over \in BOOLEAN : Embed(c, over, h)
       \/ EmbedRefused(c) \/ Embedded(c)
  \/ \E h \in OnnxSessions, ok \in BOOLEAN : LoadSettles(h, ok)
  \/ Dispose
  \/ \E released \in BOOLEAN : CloseNext(released)

CascadeNext == Continuation \/ (Settled /\ CascadeEvent)

CascadeSpec == CascadeInit /\ [][CascadeNext]_cascadeVars

-----------------------------------------------------------------------------
(* "Owns at most one ONNX session per encoder", which "dispose() closes":   *)
(* until the disposal no encoder has two open sessions, however embeds      *)
(* overlap with loads that fail; and an open session can be found in the    *)
(* map, or waits to be closed.  Two kinds escape both, and only these: the  *)
(* long-context session of a cascade that gave it up, which nobody closes,  *)
(* and a primary one that an embed in flight asked for after the disposal.  *)
(* A session that was not released is reported.  A load that fails late     *)
(* takes whatever session its encoder has in the map out of it.             *)
GivenUp(h) == onnx[h].encoder = LongContextEncoder /\ ~longContextAvailable
AskedForLate(h) == onnx[h].encoder = PrimaryEncoder /\ onnx[h].late

SessionsAccounted ==
  /\ ~disposal.called => \A e \in Encoders : Cardinality({h \in OnnxSessions : Open(h) /\ onnx[h].encoder = e}) <= 1
  /\ \A h \in OnnxSessions :
       /\ Open(h) => (InMap(h) /\ ~disposal.called) \/ Pending(h) \/ GivenUp(h) \/ AskedForLate(h)
       /\ onnx[h].state = "unreleased" => disposal.failed
=============================================================================
