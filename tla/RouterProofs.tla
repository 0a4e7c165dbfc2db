------------------------------ MODULE RouterProofs ------------------------------
(***************************************************************************)
(* Proofs about the routing pipeline, for every number of sessions, turns   *)
(* and pipelines, every fleet, every catalog and every setting.             *)
(*                                                                          *)
(* First the state of one session: each method of the pinner and loop       *)
(* escalation keep the type of the state and keep the row of the pin equal  *)
(* to the pin, what lookupPin answers is usable, and a switch that passes   *)
(* the breakeven gate goes to a cheaper model.  Then the pipeline: the      *)
(* invariant IInv says what a turn has been through by the stage it has     *)
(* reached, and that the pin in memory and its row part only for a session  *)
(* that is not started.                                                     *)
(***************************************************************************)
EXTENDS RouterPipeline, FleetLemmas, TLAPS

-----------------------------------------------------------------------------
(* The breakeven gate.                                                      *)

LEMMA Distribute ==
  ASSUME NEW a \in Nat, NEW b \in Nat, NEW c \in Nat
  PROVE  a * (b - c) = a * b - a * c
OBVIOUS

LEMMA ProductNat == ASSUME NEW a \in Nat, NEW b \in Nat PROVE a * b \in Nat
OBVIOUS

LEMMA ScaledBelow ==
  ASSUME NEW a \in Nat, NEW w \in Nat, w <= 10000
  PROVE  a * w <= 10000 * a
OBVIOUS

(* A product of percentages.                                                *)
LEMMA WeightBound ==
  /\ PrefixCacheDiscountPct * PrefixCacheWeightPct \in Nat
  /\ PrefixCacheDiscountPct * PrefixCacheWeightPct <= 10000
<1> DEFINE d == PrefixCacheDiscountPct
           w == PrefixCacheWeightPct
<1>1. d \in Nat /\ d <= 100 /\ w \in Nat /\ w <= 100
  BY CachePctAssumption
<1>2. \A x, y \in Nat : x <= 100 /\ y <= 100 => x * y <= 100 * y /\ 100 * y <= 10000
  OBVIOUS
<1> HIDE DEF d, w
<1>3. d * w \in Nat /\ d * w <= 10000
  BY <1>1, <1>2, ProductNat
<1> QED BY <1>3 DEF d, w

LEMMA SameOrder ==
  ASSUME NEW t \in Nat, NEW p \in Nat, NEW c \in Nat, t * c < t * p
  PROVE  c < p
<1>1. \A a, x, y \in Nat : x <= y => a * x <= a * y
  OBVIOUS
<1>2. SUFFICES ASSUME p <= c PROVE FALSE
  OBVIOUS
<1>3. t * p <= t * c
  BY <1>1, <1>2
<1> QED BY <1>3, ProductNat

(* A switch between two models that the gate lets pass goes to a cheaper    *)
(* model, and there is something to send it.                                *)
THEOREM BreakevenPays ==
  ASSUME NEW pinned \in Models, NEW candidate \in Models, pinned # candidate,
         NEW t \in Nat, NEW uplift \in Nat,
         evaluateModelSwitchBreakeven(pinned, candidate, t, uplift)
  PROVE  Profile[candidate].cost < Profile[pinned].cost /\ t > 0
<1> DEFINE p == Profile[pinned].cost
           c == Profile[candidate].cost
           weight == PrefixCacheDiscountPct * PrefixCacheWeightPct
           kept   == t * p * weight
           tp == t * p
           tc == t * c
           saved  == t * (p - c)
           marginal == IF uplift = 0 THEN 10000 * saved ELSE 100 * uplift * saved - kept
<1>1. p \in Nat /\ c \in Nat
  BY ProfileAssumption DEF ModelProfile
<1>2. weight \in Nat /\ weight <= 10000
  BY WeightBound
<1>3. marginal >= 0 /\ marginal + kept > 10000 * tc
  BY DEF evaluateModelSwitchBreakeven, computeMarginalSwitchSavings, computeFutureCacheValue,
         computeCacheReprimeCost, Usd
<1> HIDE DEF p, c, weight
<1>4. tp \in Nat /\ tc \in Nat /\ saved = tp - tc
  BY <1>1, Distribute, ProductNat
<1> HIDE DEF saved, tp, tc
<1>5. kept = tp * weight
  BY DEF tp
<1>6. kept \in Nat /\ kept <= 10000 * tp
  BY <1>2, <1>4, <1>5, ScaledBelow, ProductNat
<1> HIDE DEF kept
<1>7. tc < tp
  <2>1. CASE uplift = 0
    BY <2>1, <1>3, <1>4, <1>6
  <2>2. CASE uplift # 0
    <3> DEFINE u == 100 * uplift
    <3>1. u \in Nat /\ u * saved > 10000 * tc
      <4>1. marginal = u * saved - kept
        BY <2>2
      <4>2. u * saved \in Int
        BY <1>4
      <4> QED BY <4>1, <4>2, <1>3, <1>4, <1>6
    <3>2. SUFFICES ASSUME tp <= tc PROVE FALSE
      BY <1>4
    <3>3. saved <= 0 /\ saved \in Int
      BY <1>4, <3>2
    <3> HIDE DEF u
    <3>4. \A x \in Nat, y \in Int : y <= 0 => x * y <= 0
      OBVIOUS
    <3> QED BY <3>1, <3>3, <3>4, <1>4
  <2> QED BY <2>1, <2>2
<1>8. c < p
  BY <1>1, <1>7, SameOrder DEF tp, tc
<1>9. t # 0
  BY <1>1, <1>7 DEF tp, tc
<1> QED BY <1>8, <1>9 DEF p, c

-----------------------------------------------------------------------------
(* The state of a session.  The type alone is not kept: the guard must have *)
(* pinned a tier by the time its count reaches the threshold.               *)

Saar == [tracked : BOOLEAN, turn : 0 .. PlanningTurnBuffer, idle : BOOLEAN]
Flip == [last : TierName \cup {NoTier}, flips : 0 .. FlipThreshold, pinned : TierName \cup {NoTier}]

SessionInv(Ids, st) ==
  /\ st \in SessionState(Ids)
  /\ ~IsTierPinned(st) => st.flip.flips < FlipThreshold

Synced(st) == st.pin = st.row

(* What a method does to a session's state.                                 *)
Keeps(Ids, st, new) == SessionInv(Ids, new) /\ (Synced(st) => Synced(new))

LEMMA Defaults ==
  ASSUME NEW Ids
  PROVE  /\ NoPin \in SessionPin(Ids)
         /\ Untracked \in Saar
         /\ Unobserved \in Flip /\ Unobserved.pinned = NoTier /\ Unobserved.flips < FlipThreshold
<1>1. 0 \in 0 .. LoopThreshold /\ 0 \in 0 .. PlanningTurnBuffer /\ 0 \in 0 .. FlipThreshold
      /\ 0 < FlipThreshold
  BY LoopAssumption, BufferAssumption, FlipAssumption
<1> QED BY <1>1 DEF NoPin, SessionPin, PinReason, Signature, Untracked, Saar, Unobserved, Flip

LEMMA NewSessionInv ==
  ASSUME NEW Ids
  PROVE  SessionInv(Ids, NewSession) /\ Synced(NewSession)
BY Defaults DEF NewSession, SessionInv, SessionState, Synced, IsTierPinned, Saar, Flip

LEMMA Parts ==
  ASSUME NEW Ids, NEW st, SessionInv(Ids, st)
  PROVE  /\ st.pin \in SessionPin(Ids) /\ st.row \in SessionPin(Ids)
         /\ st.saar \in Saar /\ st.flip \in Flip
BY DEF SessionInv, SessionState, Saar, Flip

LEMMA PinUpdate ==
  ASSUME NEW Ids, NEW st, SessionInv(Ids, st), NEW pin \in SessionPin(Ids)
  PROVE  /\ SessionInv(Ids, [st EXCEPT !.pin = pin, !.row = pin])
         /\ Synced([st EXCEPT !.pin = pin, !.row = pin])
BY DEF SessionInv, SessionState, Synced, IsTierPinned

LEMMA SaarUpdate ==
  ASSUME NEW Ids, NEW st, SessionInv(Ids, st), NEW saar \in Saar
  PROVE  Keeps(Ids, st, [st EXCEPT !.saar = saar])
BY DEF SessionInv, SessionState, Synced, IsTierPinned, Keeps, Saar

LEMMA FlipUpdate ==
  ASSUME NEW Ids, NEW st, SessionInv(Ids, st), NEW flip \in Flip,
         flip.pinned = NoTier => flip.flips < FlipThreshold
  PROVE  Keeps(Ids, st, [st EXCEPT !.flip = flip])
BY DEF SessionInv, SessionState, Synced, IsTierPinned, Keeps, Flip

LEMMA RecordPinKeeps ==
  ASSUME NEW Ids, NEW st, SessionInv(Ids, st),
         NEW model \in Ids \cup {NoModel}, NEW reason \in PinReason
  PROVE  /\ SessionInv(Ids, recordPin(st, model, reason)) /\ Synced(recordPin(st, model, reason))
         /\ recordPin(st, model, reason).pin.model = model
         /\ recordPin(st, model, reason).pin.reason = reason
         /\ recordPin(st, model, reason).flip = st.flip
<1> DEFINE pin == [st.pin EXCEPT !.model = model, !.reason = reason]
<1>1. st.pin \in SessionPin(Ids) /\ st \in SessionState(Ids)
  BY Parts DEF SessionInv
<1>2. pin \in SessionPin(Ids) /\ pin.model = model /\ pin.reason = reason
  BY <1>1 DEF SessionPin
<1>3. recordPin(st, model, reason) = [st EXCEPT !.pin = pin, !.row = pin]
  BY DEF recordPin
<1> HIDE DEF pin
<1>4. /\ SessionInv(Ids, [st EXCEPT !.pin = pin, !.row = pin])
      /\ Synced([st EXCEPT !.pin = pin, !.row = pin])
  BY <1>2, PinUpdate
<1>5. [st EXCEPT !.pin = pin, !.row = pin].pin = pin /\ [st EXCEPT !.pin = pin, !.row = pin].flip = st.flip
  BY <1>1 DEF SessionState
<1> QED BY <1>2, <1>3, <1>4, <1>5

LEMMA BreakPinKeeps ==
  ASSUME NEW Ids, NEW st, SessionInv(Ids, st)
  PROVE  /\ SessionInv(Ids, breakPin(st)) /\ Synced(breakPin(st))
         /\ breakPin(st).pin = NoPin /\ breakPin(st).flip = Unobserved
BY Defaults DEF breakPin, SessionInv, SessionState, Synced, IsTierPinned, Saar, Flip

LEMMA LoadPinKeeps ==
  ASSUME NEW Ids, NEW st, SessionInv(Ids, st), NEW pin \in SessionPin(Ids)
  PROVE  SessionInv(Ids, loadPin(st, pin)) /\ Synced(loadPin(st, pin))
BY PinUpdate DEF loadPin

(* Restoring synchronises a session that had no pin in memory.              *)
LEMMA RestoreKeeps ==
  ASSUME NEW Ids, NEW st, SessionInv(Ids, st), Synced(st) \/ st.pin = NoPin
  PROVE  SessionInv(Ids, restoreSessionPin(st)) /\ Synced(restoreSessionPin(st))
<1>1. CASE st.row = NoPin
  BY <1>1 DEF restoreSessionPin, Synced
<1>2. CASE st.row # NoPin
  <2> DEFINE row == st.row
  <2>1. st.row \in SessionPin(Ids) /\ st \in SessionState(Ids)
    BY Parts DEF SessionInv
  <2>2. restoreSessionPin(st) = [st EXCEPT !.pin = row]
    BY <1>2 DEF restoreSessionPin
  <2>3. SessionInv(Ids, [st EXCEPT !.pin = row])
    BY <2>1 DEF SessionInv, SessionState, IsTierPinned
  <2>4. Synced([st EXCEPT !.pin = row])
    BY <2>1 DEF Synced, SessionState
  <2> QED BY <2>2, <2>3, <2>4
<1> QED BY <1>1, <1>2

LEMMA RecordSaarTurnKeeps ==
  ASSUME NEW Ids, NEW st, SessionInv(Ids, st)
  PROVE  Keeps(Ids, st, recordSaarTurn(st))
<1> DEFINE turns == IF st.saar.turn < PlanningTurnBuffer THEN st.saar.turn + 1 ELSE st.saar.turn
           saar == [tracked |-> TRUE, idle |-> FALSE, turn |-> turns]
<1>1. st.saar.turn \in 0 .. PlanningTurnBuffer /\ st \in SessionState(Ids)
  BY Parts DEF Saar, SessionInv
<1>2. turns \in 0 .. PlanningTurnBuffer
  BY <1>1, BufferAssumption
<1>3. recordSaarTurn(st) = [st EXCEPT !.saar = saar]
  BY DEF recordSaarTurn
<1> HIDE DEF turns
<1>4. saar \in Saar
  BY <1>2 DEF Saar
<1> HIDE DEF saar
<1> QED BY <1>3, <1>4, SaarUpdate

LEMMA TouchActivityKeeps ==
  ASSUME NEW Ids, NEW st, SessionInv(Ids, st)
  PROVE  Keeps(Ids, st, touchActivity(st)) /\ touchActivity(st).pin = st.pin
         /\ touchActivity(st).flip = st.flip /\ touchActivity(st).saar.turn = st.saar.turn
BY Parts DEF touchActivity, Keeps, Synced, SessionInv, SessionState, IsTierPinned, Saar

LEMMA ObserveTierKeeps ==
  ASSUME NEW Ids, NEW st, SessionInv(Ids, st), NEW tier \in TierName
  PROVE  Keeps(Ids, st, observeTier(st, tier)) /\ observeTier(st, tier).pin = st.pin
         /\ observeTier(st, tier).saar = st.saar
<1> DEFINE flips == st.flip.flips + 1
           first == [Unobserved EXCEPT !.last = tier]
           next  == [last |-> tier, flips |-> flips,
                     pinned |-> IF flips >= FlipThreshold THEN tier ELSE NoTier]
<1>1. st.flip \in Flip /\ st \in SessionState(Ids)
  BY Parts DEF SessionInv
<1>2. CASE IsTierPinned(st)
  BY <1>2 DEF observeTier, Keeps
<1>3. CASE ~IsTierPinned(st) /\ st.flip.last \in {NoTier, tier}
  <2>1. observeTier(st, tier) = [st EXCEPT !.flip = first]
    BY <1>3 DEF observeTier
  <2>2. first \in Flip /\ (first.pinned = NoTier => first.flips < FlipThreshold)
    BY Defaults DEF Flip
  <2> HIDE DEF first
  <2>3. [st EXCEPT !.flip = first].pin = st.pin /\ [st EXCEPT !.flip = first].saar = st.saar
    BY <1>1 DEF SessionState
  <2> QED BY <2>1, <2>2, <2>3, FlipUpdate
<1>4. CASE ~IsTierPinned(st) /\ st.flip.last \notin {NoTier, tier}
  <2>1. observeTier(st, tier) = [st EXCEPT !.flip = next]
    BY <1>4 DEF observeTier
  <2>2. flips \in 0 .. FlipThreshold
    BY <1>1, <1>4, FlipAssumption DEF SessionInv, Flip
  <2>3. next \in Flip /\ (next.pinned = NoTier => next.flips < FlipThreshold)
    <3> HIDE DEF flips
    <3> QED BY <2>2, FlipAssumption DEF Flip
  <2> HIDE DEF next
  <2>4. [st EXCEPT !.flip = next].pin = st.pin /\ [st EXCEPT !.flip = next].saar = st.saar
    BY <1>1 DEF SessionState
  <2> QED BY <2>1, <2>3, <2>4, FlipUpdate
<1> QED BY <1>2, <1>3, <1>4

-----------------------------------------------------------------------------
(* lookupPin.  Sound: the state is kept, and a model to answer with is a    *)
(* healthy member of the fleet.                                             *)

Usable == {"use_pin", "saar_route", "sub_route"}

Sound(Ids, st, pool, a) ==
  /\ Keeps(Ids, st, a.state)
  /\ a.model \in Ids \cup {NoModel}
  /\ a.action \in Usable => a.model \in Healthy(pool)
  /\ a.action \in Usable \cup {"force_rejected", "break", "no_pin"}
  /\ a.reason \in LookupReason

LEMMA HealthyMembers ==
  ASSUME NEW pool \in SUBSET Models
  PROVE  /\ Healthy(pool) \in SUBSET pool /\ NoModel \notin Healthy(pool)
         /\ \A m \in Healthy(pool) : Profile[m].tier \in TierName
BY NoModelAssumption, ProfileAssumption DEF Healthy, ModelProfile

LEMMA OnTierMembers ==
  ASSUME NEW pool, NEW t
  PROVE  OnTier(pool, t) \subseteq pool
BY DEF OnTier

LEMMA SharedAnswer ==
  ASSUME NEW st, NEW action, NEW model, NEW reason
  PROVE  /\ Answer(st, action, model, reason).state = st
         /\ Answer(st, action, model, reason).action = action
         /\ Answer(st, action, model, reason).model = model
         /\ Answer(st, action, model, reason).reason = reason
BY DEF Answer

LEMMA UnchangedKeeps ==
  ASSUME NEW Ids, NEW st, SessionInv(Ids, st)
  PROVE  Keeps(Ids, st, st)
BY DEF Keeps

LEMMA BrokenSound ==
  ASSUME NEW Ids, NEW st, SessionInv(Ids, st), NEW pool, NEW reason \in LookupReason
  PROVE  Sound(Ids, st, pool, Break(st, reason)) /\ Sound(Ids, st, pool, NoPinLeft(st, reason))
BY BreakPinKeeps, SharedAnswer DEF Break, NoPinLeft, Sound, Keeps, Usable

LEMMA UsePinSound ==
  ASSUME NEW Ids, NEW st, SessionInv(Ids, st), NEW pool \in SUBSET Models, Models \subseteq Ids,
         NEW reason \in LookupReason
  PROVE  Sound(Ids, st, pool, UsePin(st, pool, reason))
<1>1. CASE PinnedIn(st, pool)
  <2>1. st.pin.model \in Healthy(pool) /\ st.pin.model \in Ids
    BY <1>1, HealthyMembers DEF PinnedIn
  <2> QED BY <1>1, <2>1, SharedAnswer, UnchangedKeeps DEF UsePin, Sound, Usable
<1>2. CASE ~PinnedIn(st, pool)
  BY <1>2, BrokenSound DEF UsePin, LookupReason
<1> QED BY <1>1, <1>2

LEMMA ObserveShadowTierKeeps ==
  ASSUME NEW Ids, NEW st, SessionInv(Ids, st), NEW pool \in SUBSET Models, NEW req
  PROVE  /\ Keeps(Ids, st, observeShadowTier(st, req, pool))
         /\ observeShadowTier(st, req, pool).pin = st.pin
         /\ observeShadowTier(st, req, pool).saar = st.saar
<1>1. CASE req.candidate \in Healthy(pool)
  <2>1. Profile[req.candidate].tier \in TierName
    BY <1>1, HealthyMembers
  <2> QED BY <1>1, <2>1, ObserveTierKeeps DEF observeShadowTier
<1>2. CASE req.candidate \notin Healthy(pool)
  BY <1>2, UnchangedKeeps DEF observeShadowTier
<1> QED BY <1>1, <1>2

LEMMA FlipFlopModelMember ==
  ASSUME NEW st, NEW pool \in SUBSET Models
  PROVE  FlipFlopModel(st, pool) \in Healthy(pool) \cup {NoModel}
<1> DEFINE onTier == OnTier(Healthy(pool), st.flip.pinned)
<1>1. onTier \in SUBSET Healthy(pool) /\ Healthy(pool) \in SUBSET Models
  BY OnTierMembers, HealthyMembers
<1>2. First(onTier) \in onTier \cup {NoModel}
  BY <1>1, FirstOrNone
<1>3. FlipFlopModel(st, pool) = IF st.pin.model \in onTier THEN st.pin.model ELSE First(onTier)
  BY DEF FlipFlopModel
<1> QED BY <1>1, <1>2, <1>3

LEMMA ResolveFlipFlopSound ==
  ASSUME NEW Ids, NEW st, SessionInv(Ids, st), NEW req, NEW pool \in SUBSET Models, Models \subseteq Ids,
         IsTierPinned(st), FlipFlopModel(st, pool) # NoModel
  PROVE  /\ Sound(Ids, st, pool, resolveFlipFlopPin(st, req, pool))
         /\ IsTierPinned(resolveFlipFlopPin(st, req, pool).state)
<1> DEFINE model == FlipFlopModel(st, pool)
           new   == IF model = st.pin.model THEN st ELSE recordPin(st, model, st.pin.reason)
<1>1. model \in Healthy(pool) /\ model \in Ids
  BY FlipFlopModelMember, HealthyMembers
<1>2. resolveFlipFlopPin(st, req, pool) = Answer(new, "use_pin", model, "flip_flop_tier_pinned")
  BY DEF resolveFlipFlopPin
<1> HIDE DEF model
<1>3. st.pin.reason \in PinReason
  BY Parts DEF SessionPin
<1>4. Keeps(Ids, st, new) /\ IsTierPinned(new)
  BY <1>1, <1>3, RecordPinKeeps, UnchangedKeeps DEF Keeps, IsTierPinned
<1> HIDE DEF new
<1> QED BY <1>1, <1>2, <1>4, SharedAnswer DEF Sound, Usable, LookupReason

LEMMA ResolveForceSound ==
  ASSUME NEW Ids, NEW st, SessionInv(Ids, st), NEW req, NEW pool \in SUBSET Models, Models \subseteq Ids
  PROVE  LET a == resolveForceOverride(st, req, pool) IN
         /\ Sound(Ids, st, pool, a)
         /\ \/ a.action = "use_pin" /\ a.model = req.force
            \/ a.action = "force_rejected" /\ req.force \notin Healthy(pool)
<1> DEFINE a == resolveForceOverride(st, req, pool)
<1>1. CASE req.force \in Healthy(pool)
  <2>1. a = Answer(recordPin(st, req.force, "user_forced"), "use_pin", req.force, "session_pinned")
    BY <1>1 DEF resolveForceOverride
  <2>2. req.force \in Ids
    BY <1>1, HealthyMembers
  <2>3. Keeps(Ids, st, recordPin(st, req.force, "user_forced"))
    BY <2>2, RecordPinKeeps DEF Keeps, PinReason
  <2> QED BY <1>1, <2>1, <2>2, <2>3, SharedAnswer DEF Sound, Usable, LookupReason
<1>2. CASE req.force \notin Healthy(pool)
  <2> DEFINE why == IF req.force \in pool THEN "force_rejected_unhealthy" ELSE "force_rejected_not_in_fleet"
  <2>1. a = Answer(st, "force_rejected", NoModel, why)
    BY <1>2 DEF resolveForceOverride
  <2>2. why \in LookupReason
    BY DEF LookupReason
  <2> HIDE DEF why
  <2> QED BY <1>2, <2>1, <2>2, SharedAnswer, UnchangedKeeps DEF Sound, Usable
<1> QED BY <1>1, <1>2

(* An answer that leaves a warm pin: for a cheaper model, or up to the      *)
(* candidate of the request.                                                *)
Leaves(st, a) == a.action \in Usable /\ a.model # st.pin.model

LeavesWell(st, req, a) ==
  Leaves(st, a) =>
    \/ Profile[a.model].cost < Profile[st.pin.model].cost
    \/ isTierUpgrade(st.pin.model, a.model) /\ a.model = req.candidate

LEMMA SubRouteModelMember ==
  ASSUME NEW st, NEW req, NEW pool \in SUBSET Models
  PROVE  SubRouteModel(st, req, pool) \in (Healthy(pool) \ {st.pin.model}) \cup {NoModel}
<1> DEFINE choices == {m \in OnTier(Healthy(pool), "economical-cloud") :
                         Profile[m].provider = Profile[st.pin.model].provider} \ {st.pin.model}
<1>1. choices \subseteq Healthy(pool) \ {st.pin.model} /\ choices \in SUBSET Models
  BY OnTierMembers, HealthyMembers
<1>2. First(choices) \in choices \cup {NoModel}
  BY <1>1, FirstOrNone
<1> QED BY <1>1, <1>2 DEF SubRouteModel

(* The policy after the break rules.                                        *)
LEMMA SaarPolicySound ==
  ASSUME NEW Ids, NEW st, SessionInv(Ids, st), NEW req, NEW pool \in SUBSET Models, Models \subseteq Ids,
         req.tokens \in Nat
  PROVE  LET a == evaluateSaarPolicy(st, req, pool) IN
         /\ Sound(Ids, st, pool, a)
         /\ PinnedIn(st, pool) => LeavesWell(st, req, a)
<1> DEFINE a    == evaluateSaarPolicy(st, req, pool)
           live == touchActivity(st)
           sub  == SubRouteModel(live, req, pool)
<1>1. Keeps(Ids, st, live) /\ live.pin = st.pin /\ SessionInv(Ids, live)
  BY TouchActivityKeeps DEF Keeps
<1> HIDE DEF live
<1>2. CASE st.saar.idle
  <2>1. a = NoPinLeft(st, "saar_idle_reopen")
    BY <1>2 DEF evaluateSaarPolicy
  <2>2. Sound(Ids, st, pool, NoPinLeft(st, "saar_idle_reopen"))
    BY BrokenSound DEF LookupReason
  <2>3. a.action \notin Usable
    BY <2>1, SharedAnswer DEF NoPinLeft, Usable
  <2> QED BY <2>1, <2>2, <2>3 DEF LeavesWell, Leaves
<1>3. CASE ~st.saar.idle /\ isInBufferWindow(live) /\ MayUpgrade(live, req, pool)
  <2>1. a = Answer(live, "saar_route", req.candidate, "saar_buffer_active")
    BY <1>3 DEF evaluateSaarPolicy, live
  <2>2. req.candidate \in Healthy(pool) /\ req.candidate \in Ids /\ isTierUpgrade(st.pin.model, req.candidate)
    BY <1>1, <1>3, HealthyMembers DEF MayUpgrade
  <2> QED BY <1>1, <2>1, <2>2, SharedAnswer DEF Sound, Usable, LookupReason, LeavesWell
<1>4. CASE /\ ~st.saar.idle /\ ~(isInBufferWindow(live) /\ MayUpgrade(live, req, pool))
           /\ shouldHardLock(live) /\ isToolLoopTurn(req.kind) /\ MayUpgrade(live, req, pool)
  <2> DEFINE new == recordPin(live, req.candidate, live.pin.reason)
  <2>1. a = Answer(new, "use_pin", req.candidate, "saar_tier_upgrade")
    BY <1>4 DEF evaluateSaarPolicy, live
  <2>2. req.candidate \in Healthy(pool) /\ req.candidate \in Ids /\ isTierUpgrade(st.pin.model, req.candidate)
    BY <1>1, <1>4, HealthyMembers DEF MayUpgrade
  <2>3. live.pin.reason \in PinReason
    BY <1>1, Parts DEF SessionPin
  <2>4. Keeps(Ids, st, new)
    BY <1>1, <2>2, <2>3, RecordPinKeeps DEF Keeps
  <2> HIDE DEF new
  <2> QED BY <2>1, <2>2, <2>4, SharedAnswer DEF Sound, Usable, LookupReason, LeavesWell
<1>5. CASE /\ ~st.saar.idle /\ ~(isInBufferWindow(live) /\ MayUpgrade(live, req, pool))
           /\ ~(shouldHardLock(live) /\ isToolLoopTurn(req.kind) /\ MayUpgrade(live, req, pool))
           /\ shouldHardLock(live) /\ HardLocks(live, req, pool)
  <2>1. a = Answer(live, "use_pin", live.pin.model, "saar_hard_lock")
    BY <1>5 DEF evaluateSaarPolicy, live
  <2>2. st.pin.model \in Healthy(pool) /\ st.pin.model \in Ids
    BY <1>1, <1>5, HealthyMembers DEF HardLocks, PinnedIn
  <2> QED BY <1>1, <2>1, <2>2, SharedAnswer DEF Sound, Usable, LookupReason, LeavesWell, Leaves
<1>6. CASE /\ ~st.saar.idle /\ ~(isInBufferWindow(live) /\ MayUpgrade(live, req, pool))
           /\ ~(shouldHardLock(live) /\ isToolLoopTurn(req.kind) /\ MayUpgrade(live, req, pool))
           /\ ~(shouldHardLock(live) /\ HardLocks(live, req, pool)) /\ SubRoutes(live, req, pool)
  <2>1. a = Answer(live, "sub_route", sub, "tool_result_sub_route")
    BY <1>6 DEF evaluateSaarPolicy, live
  <2>2. sub \in Healthy(pool) \ {st.pin.model} /\ sub \in Ids /\ sub \in Models
    BY <1>1, <1>6, SubRouteModelMember, HealthyMembers DEF SubRoutes
  <2>3. st.pin.model \in Models /\ evaluateModelSwitchBreakeven(st.pin.model, sub, req.tokens, 0)
    BY <1>1, <1>6 DEF SubRoutes
  <2>4. Profile[sub].cost < Profile[st.pin.model].cost
    BY <2>2, <2>3, BreakevenPays
  <2> HIDE DEF sub
  <2> QED BY <1>1, <2>1, <2>2, <2>4, SharedAnswer DEF Sound, Usable, LookupReason, LeavesWell
<1>7. CASE /\ ~st.saar.idle /\ ~(isInBufferWindow(live) /\ MayUpgrade(live, req, pool))
           /\ ~(shouldHardLock(live) /\ isToolLoopTurn(req.kind) /\ MayUpgrade(live, req, pool))
           /\ ~(shouldHardLock(live) /\ HardLocks(live, req, pool)) /\ ~SubRoutes(live, req, pool)
  <2>1. a = UsePin(live, pool, "session_pinned")
    BY <1>7 DEF evaluateSaarPolicy, live
  <2>2. Sound(Ids, live, pool, UsePin(live, pool, "session_pinned"))
    BY <1>1, UsePinSound DEF LookupReason
  <2>3. Sound(Ids, st, pool, a)
    BY <1>1, <2>1, <2>2 DEF Sound, Keeps
  <2>4. PinnedIn(st, pool) => a.model = st.pin.model
    BY <1>1, <2>1, SharedAnswer DEF UsePin, PinnedIn
  <2> QED BY <2>3, <2>4 DEF LeavesWell, Leaves
<1> QED BY <1>2, <1>3, <1>4, <1>5, <1>6, <1>7

(* A lookup that no tier pin and no force decides.                          *)
LEMMA RulesSound ==
  ASSUME NEW Ids, NEW st, SessionInv(Ids, st), NEW req, NEW pool \in SUBSET Models, Models \subseteq Ids,
         req.tokens \in Nat
  PROVE  LET a == IF ~IsPinned(st)                 THEN Answer(st, "no_pin", NoModel, "no_pin")
                  ELSE IF req.compaction           THEN Break(st, "compaction")
                  ELSE IF ContextOverflows(st, req, pool) THEN Break(st, "context_overflow")
                  ELSE IF EconomicsBreaks(st, req, pool)  THEN Break(st, "cache_economics")
                  ELSE IF PinOnlyFallback          THEN UsePin(st, pool, "session_pinned")
                  ELSE evaluateSaarPolicy(st, req, pool)
         IN  /\ Sound(Ids, st, pool, a)
             /\ PinnedIn(st, pool) => LeavesWell(st, req, a)
<1>1. \A reason \in LookupReason : Sound(Ids, st, pool, Break(st, reason)) /\ Break(st, reason).action = "break"
  BY BrokenSound, SharedAnswer DEF Break
<1>2. /\ Sound(Ids, st, pool, Answer(st, "no_pin", NoModel, "no_pin"))
      /\ Answer(st, "no_pin", NoModel, "no_pin").action = "no_pin"
  BY SharedAnswer, UnchangedKeeps DEF Sound, Usable, LookupReason
<1>3. Sound(Ids, st, pool, UsePin(st, pool, "session_pinned"))
  BY UsePinSound DEF LookupReason
<1>5. PinnedIn(st, pool) => UsePin(st, pool, "session_pinned").model = st.pin.model
  BY SharedAnswer DEF UsePin
<1>4. /\ Sound(Ids, st, pool, evaluateSaarPolicy(st, req, pool))
      /\ PinnedIn(st, pool) => LeavesWell(st, req, evaluateSaarPolicy(st, req, pool))
  BY SaarPolicySound
<1> QED BY <1>1, <1>2, <1>3, <1>4, <1>5, Zenon DEF LeavesWell, Leaves, Usable, LookupReason

(* lookupPin as a whole: what it answers with can be used, a force is       *)
(* honoured or refused, and a warm pin is left for a reason.                *)
LEMMA LookupSound ==
  ASSUME NEW Ids, NEW before, SessionInv(Ids, before), NEW req, NEW pool \in SUBSET Models,
         Models \subseteq Ids, req.tokens \in Nat
  PROVE  LET a == lookupPin(before, req, pool) IN
         /\ Sound(Ids, before, pool, a)
         /\ Forced(req) /\ ~req.compaction =>
              /\ a.action \in {"use_pin", "force_rejected"}
              /\ \/ IsTierPinned(a.state)
                 \/ a.action = "use_pin" /\ a.model = req.force
                 \/ a.action = "force_rejected" /\ req.force \notin Healthy(pool)
         /\ ~Forced(req) /\ PinnedIn(before, pool) =>
              IsTierPinned(a.state) \/ LeavesWell(before, req, a)
<1> DEFINE a  == lookupPin(before, req, pool)
           st == observeShadowTier(before, req, pool)
           rules == IF ~IsPinned(st)                 THEN Answer(st, "no_pin", NoModel, "no_pin")
                    ELSE IF req.compaction           THEN Break(st, "compaction")
                    ELSE IF ContextOverflows(st, req, pool) THEN Break(st, "context_overflow")
                    ELSE IF EconomicsBreaks(st, req, pool)  THEN Break(st, "cache_economics")
                    ELSE IF PinOnlyFallback          THEN UsePin(st, pool, "session_pinned")
                    ELSE evaluateSaarPolicy(st, req, pool)
<1>1. Keeps(Ids, before, st) /\ SessionInv(Ids, st) /\ st.pin = before.pin
  BY ObserveShadowTierKeeps DEF Keeps
<1>2. a = IF IsTierPinned(st) /\ FlipFlopModel(st, pool) # NoModel
          THEN resolveFlipFlopPin(st, req, pool)
          ELSE IF Forced(req) /\ ~(IsPinned(st) /\ req.compaction)
          THEN resolveForceOverride(st, req, pool) ELSE rules
  BY DEF lookupPin
<1>3. Sound(Ids, st, pool, rules) /\ (PinnedIn(st, pool) => LeavesWell(st, req, rules))
  BY <1>1, RulesSound
<1> HIDE DEF st, rules
<1>4. \A x : Sound(Ids, st, pool, x) => Sound(Ids, before, pool, x)
  BY <1>1 DEF Sound, Keeps
<1>5. PinnedIn(before, pool) = PinnedIn(st, pool) /\ \A x : LeavesWell(st, req, x) = LeavesWell(before, req, x)
  BY <1>1 DEF PinnedIn, LeavesWell, Leaves
<1>6. CASE IsTierPinned(st) /\ FlipFlopModel(st, pool) # NoModel
  <2>1. Sound(Ids, st, pool, a) /\ IsTierPinned(a.state)
    BY <1>1, <1>2, <1>6, ResolveFlipFlopSound
  <2>2. a.action = "use_pin"
    BY <1>2, <1>6, SharedAnswer DEF resolveFlipFlopPin
  <2> QED BY <1>4, <2>1, <2>2
<1>7. CASE ~(IsTierPinned(st) /\ FlipFlopModel(st, pool) # NoModel)
           /\ Forced(req) /\ ~(IsPinned(st) /\ req.compaction)
  <2>1. a = resolveForceOverride(st, req, pool)
    BY <1>2, <1>7
  <2> DEFINE f == resolveForceOverride(st, req, pool)
  <2>3. /\ Sound(Ids, st, pool, f)
        /\ \/ f.action = "use_pin" /\ f.model = req.force
           \/ f.action = "force_rejected" /\ req.force \notin Healthy(pool)
    BY <1>1, ResolveForceSound
  <2> HIDE DEF f
  <2>2. /\ Sound(Ids, st, pool, a)
        /\ \/ a.action = "use_pin" /\ a.model = req.force
           \/ a.action = "force_rejected" /\ req.force \notin Healthy(pool)
    BY <2>1, <2>3 DEF f
  <2> QED BY <1>4, <1>7, <2>2
<1>8. CASE ~(IsTierPinned(st) /\ FlipFlopModel(st, pool) # NoModel)
           /\ ~(Forced(req) /\ ~(IsPinned(st) /\ req.compaction))
  <2>1. a = rules
    BY <1>2, <1>8
  <2> QED BY <1>3, <1>4, <1>5, <1>8, <2>1
<1> QED BY <1>6, <1>7, <1>8

(* Nobody is refused a model that nobody asked for.                         *)
LEMMA OnlyForceRefused ==
  ASSUME NEW before, NEW req, NEW pool, ~Forced(req)
  PROVE  lookupPin(before, req, pool).action # "force_rejected"
<1>1. \A st, why : /\ Break(st, why).action # "force_rejected"
                   /\ NoPinLeft(st, why).action # "force_rejected"
                   /\ UsePin(st, pool, why).action # "force_rejected"
  BY SharedAnswer DEF Break, NoPinLeft, UsePin
<1>2. \A st : resolveFlipFlopPin(st, req, pool).action # "force_rejected"
  BY SharedAnswer DEF resolveFlipFlopPin
<1>3. \A st : evaluateSaarPolicy(st, req, pool).action # "force_rejected"
  BY <1>1, SharedAnswer DEF evaluateSaarPolicy
<1> QED BY <1>1, <1>2, <1>3, SharedAnswer DEF lookupPin

-----------------------------------------------------------------------------
(* Loop escalation.                                                         *)

LEMMA CountedPin ==
  ASSUME NEW Ids, NEW pin \in SessionPin(Ids), NEW signature \in Signature, NEW carriesOn
  PROVE  Counted(pin, signature, carriesOn) \in SessionPin(Ids)
<1> DEFINE failures == IF ~carriesOn THEN 1
                       ELSE IF pin.failures < LoopThreshold THEN pin.failures + 1 ELSE pin.failures
<1>1. pin.failures \in 0 .. LoopThreshold
  BY DEF SessionPin
<1>2. failures \in 0 .. LoopThreshold
  BY <1>1, LoopAssumption
<1>3. Counted(pin, signature, carriesOn) = [pin EXCEPT !.signature = signature, !.failures = failures]
  BY DEF Counted, SessionPin
<1> HIDE DEF failures
<1>4. [pin EXCEPT !.signature = signature, !.failures = failures] \in SessionPin(Ids)
  BY <1>2 DEF SessionPin
<1> QED BY <1>3, <1>4

LEMMA ZeroTierVerdict ==
  ASSUME NEW Ids, NEW pin \in SessionPin(Ids), NEW req
  PROVE  evaluateZeroTierObservationalBreak(pin, req).pin \in SessionPin(Ids)
<1> DEFINE churned == Counted(pin, "zt:tool_churn", pin.signature = "zt:tool_churn")
           failures == IF pin.failures = 0 THEN 1 ELSE pin.failures
           marked == [pin EXCEPT !.signature = "zt:unsupported_tool", !.failures = failures]
<1>1. churned \in SessionPin(Ids)
  BY CountedPin DEF Signature
<1>2. failures \in 0 .. LoopThreshold
  BY LoopAssumption DEF SessionPin
<1>3. marked \in SessionPin(Ids)
  <2> HIDE DEF failures
  <2> QED BY <1>2 DEF SessionPin, Signature
<1>4. evaluateZeroTierObservationalBreak(pin, req).pin = IF req.tool = ToolUnsupported THEN marked ELSE churned
  BY DEF evaluateZeroTierObservationalBreak, Verdict, SessionPin
<1> QED BY <1>1, <1>3, <1>4

LEMMA FailureVerdictPin ==
  ASSUME NEW Ids, NEW pin \in SessionPin(Ids), NEW req, req.tool \in ToolOutcome, NEW pool
  PROVE  FailureVerdict(pin, req, pool).pin \in SessionPin(Ids)
<1> DEFINE signature == extractToolFailureSignature(req)
           carriesOn == \/ PinnedTier(pin, pool) = "economical-cloud" \/ pin.signature = signature
           cleared == [pin EXCEPT !.failures = 0, !.signature = NoSignature]
           kept == IF pin.failures > 0 THEN cleared ELSE pin
           counted == Counted(pin, signature, carriesOn)
<1>1. signature \in Signature
  BY DEF extractToolFailureSignature, ToolOutcome, Signature
<1> HIDE DEF signature, carriesOn
<1>2. counted \in SessionPin(Ids)
  BY <1>1, CountedPin
<1>3. cleared \in SessionPin(Ids)
  <2>1. 0 \in 0 .. LoopThreshold /\ NoSignature \in Signature
    BY LoopAssumption DEF Signature
  <2> QED BY <2>1 DEF SessionPin
<1>4. FailureVerdict(pin, req, pool).pin = IF signature = NoSignature THEN kept ELSE counted
  BY DEF FailureVerdict, Verdict, signature, carriesOn
<1> QED BY <1>2, <1>3, <1>4

LEMMA EscalationTargetMember ==
  ASSUME NEW req, NEW pool \in SUBSET Models, NEW pinned
  PROVE  selectEscalationTarget(pool, pinned) \in pool \cup {NoModel}
<1> DEFINE choices == OnTier(Healthy(pool), "frontier-cloud") \ {pinned}
<1>1. choices \subseteq pool /\ choices \in SUBSET Models
  BY OnTierMembers, HealthyMembers
<1>2. First(choices) \in choices \cup {NoModel}
  BY <1>1, FirstOrNone
<1> QED BY <1>1, <1>2 DEF selectEscalationTarget

LEMMA EscalationKeeps ==
  ASSUME NEW Ids, NEW st, SessionInv(Ids, st), NEW req, req.tool \in ToolOutcome,
         NEW pool \in SUBSET Models, Models \subseteq Ids
  PROVE  Keeps(Ids, st, evaluateLoopEscalation(st, req, pool))
<1> DEFINE verdict == IF PinnedTier(st.pin, pool) = "zero-tier"
                      THEN evaluateZeroTierObservationalBreak(st.pin, req)
                      ELSE FailureVerdict(st.pin, req, pool)
           target  == selectEscalationTarget(pool, st.pin.model)
           counted == IF verdict.pin = st.pin THEN st ELSE loadPin(st, verdict.pin)
           moved   == recordPin(breakPin(counted), target, "loop_escalation")
<1>1. st.pin \in SessionPin(Ids)
  BY Parts
<1>2. verdict.pin \in SessionPin(Ids)
  BY <1>1, ZeroTierVerdict, FailureVerdictPin
<1>3. target \in Ids \cup {NoModel}
  BY EscalationTargetMember
<1>4. evaluateLoopEscalation(st, req, pool) =
        IF ~EscalationApplies(st, req) THEN st
        ELSE IF verdict.due /\ target # NoModel THEN moved ELSE counted
  BY DEF evaluateLoopEscalation
<1> HIDE DEF verdict, target
<1>5. Keeps(Ids, st, counted) /\ SessionInv(Ids, counted)
  BY <1>2, LoadPinKeeps, UnchangedKeeps DEF Keeps
<1> HIDE DEF counted
<1>6. SessionInv(Ids, breakPin(counted))
  BY <1>5, BreakPinKeeps
<1>7. Keeps(Ids, st, moved)
  BY <1>3, <1>6, RecordPinKeeps DEF Keeps, PinReason
<1> HIDE DEF moved
<1> QED BY <1>4, <1>5, <1>7, UnchangedKeeps

-----------------------------------------------------------------------------
(* The pipeline.                                                            *)

(* Behind context_fit, and behind session_pin.                              *)
PastPin == {"triage", "local_zero", "triage_cloud_fallback", "hydra_match", "safe_default",
            "context_overflow_fallback", "undecided"}
PastFit == PastPin \cup {"low_intensity", "session_pin"}

Sensible(c) ==
  LET d == c.decision IN
  d.model # UnknownModel =>
    /\ d.model \in Healthy(c.full)
    /\ d.stage = "turn_envelope" \/ Forced(c.req) \/ Fits(c, d.model)

TurnInv(c, live) ==
  /\ c.at # "free" => c.session \in live
  /\ Forced(c.req) => c.rejected = {}
  /\ c.at \in PastFit /\ ~Forced(c.req) => \A m \in Fleet(c) : Fits(c, m)
  /\ c.at \in PastPin /\ Forced(c.req) => c.req.compaction
  /\ c.at = "decided" => Sensible(c)

Hosted ==
  /\ durable \in [Sessions -> SessionPin(ModelIds)]
  /\ started \subseteq Sessions
  /\ flags \in [Sessions -> [compaction : BOOLEAN, force : Models \cup {NoModel}]]
  /\ fleet \in SUBSET Models
  /\ current \in Pipelines

Pins ==
  /\ sess \in [Sessions -> SessionState(ModelIds)]
  /\ \A s \in Sessions : /\ SessionInv(ModelIds, sess[s])
                         /\ Synced(sess[s]) \/ (s \notin started /\ sess[s].pin = NoPin)

Turns == turn \in [Slots -> Turn] /\ \A r \in Slots : TurnInv(turn[r], started)

(* A waiting turn waits in one place, in the pipeline it was given to.      *)
Queues ==
  /\ queue \in [Pipelines -> Seq(Slots)]
  /\ \A p \in Pipelines :
       /\ \A i \in DOMAIN queue[p] : turn[queue[p][i]].at = "queued" /\ turn[queue[p][i]].pipeline = p
       /\ \A i, j \in DOMAIN queue[p] : queue[p][i] = queue[p][j] => i = j

IInv == Hosted /\ Pins /\ Turns /\ Queues

-----------------------------------------------------------------------------
(* Shapes.                                                                  *)

LEMMA IdleTurn == Idle \in Turn /\ \A live : TurnInv(Idle, live)
<1>1. NoRequest \in RouteRequest /\ ~Forced(NoRequest)
  BY DEF NoRequest, RouteRequest, TurnType, ToolOutcome, Forced
<1>2. NoDecision \in RoutingDecision
  BY DEF NoDecision, RoutingDecision, DecisionStage, DecisionReason
<1> QED BY <1>1, <1>2 DEF Idle, Turn, TurnInv, PastPin, PastFit

LEMMA InitInv == Init => IInv
<1> SUFFICES ASSUME Init PROVE IInv
  OBVIOUS
<1>1. Hosted
  BY Defaults, ScopesAssumption DEF Init, Hosted, NoFlags
<1>2. Pins
  BY NewSessionInv DEF Init, Pins, SessionInv
<1>3. Turns
  BY IdleTurn DEF Init, Turns
<1>4. Queues
  BY DEF Init, Queues
<1> QED BY <1>1, <1>2, <1>3, <1>4 DEF IInv

(* The context a stage reads.                                               *)
LEMMA Context ==
  ASSUME IInv, NEW r \in Slots, turn[r].at # "free"
  PROVE  /\ turn[r] \in Turn /\ TurnInv(turn[r], started)
         /\ turn[r].session \in Sessions /\ turn[r].session \in started
         /\ SessionInv(ModelIds, State(r)) /\ Synced(State(r))
         /\ turn[r].req \in RouteRequest
         /\ turn[r].full \in SUBSET Models /\ Fleet(turn[r]) \in SUBSET Models
         /\ Fleet(turn[r]) \subseteq turn[r].full
BY DEF IInv, Turns, Pins, Hosted, TurnInv, State, Turn, Fleet

(* What a step of a request that has been started has to show.              *)
LEMMA StepFrame ==
  ASSUME IInv, NEW r \in Slots, turn[r].at \notin {"free", "queued"}, UNCHANGED host,
         NEW c \in Turn, TurnInv(c, started),
         NEW st, Keeps(ModelIds, State(r), st),
         sess' = [sess EXCEPT ![turn[r].session] = st],
         turn' = [turn EXCEPT ![r] = c]
  PROVE  IInv'
<1>1. Hosted'
  BY DEF IInv, Hosted, host
<1>2. turn[r].session \in Sessions /\ Synced(State(r))
  BY Context
<1>3. Pins'
  <2>1. SessionInv(ModelIds, st) /\ Synced(st) /\ st \in SessionState(ModelIds)
    BY <1>2 DEF Keeps, SessionInv
  <2>2. \A s \in Sessions : sess'[s] = st \/ sess'[s] = sess[s]
    BY <1>2 DEF IInv, Pins
  <2> QED BY <2>1, <2>2 DEF IInv, Pins, host
<1>4. Turns'
  BY DEF IInv, Turns, host
<1>5. Queues'
  <2>1. \A p \in Pipelines : \A i \in DOMAIN queue[p] : queue[p][i] \in Slots /\ queue[p][i] # r
    BY DEF IInv, Queues
  <2> QED BY <2>1 DEF IInv, Queues, Turns, host
<1> QED BY <1>1, <1>3, <1>4, <1>5 DEF IInv

LEMMA QuietFrame ==
  ASSUME IInv, NEW r \in Slots, turn[r].at \notin {"free", "queued"}, UNCHANGED <<sess, host>>,
         NEW c \in Turn, TurnInv(c, started),
         turn' = [turn EXCEPT ![r] = c]
  PROVE  IInv'
<1>1. Keeps(ModelIds, State(r), State(r))
  BY Context, UnchangedKeeps
<1>2. sess' = [sess EXCEPT ![turn[r].session] = State(r)]
  BY DEF IInv, Pins, State
<1> QED BY <1>1, <1>2, StepFrame

(* A stage that has nothing to say.                                         *)
LEMMA PassedTurn ==
  ASSUME NEW live, NEW c \in Turn, TurnInv(c, live), c.at \in Stage \ {"context_fit", "session_pin"}
  PROVE  /\ [c EXCEPT !.at = NextStage[c.at]] \in Turn
         /\ TurnInv([c EXCEPT !.at = NextStage[c.at]], live)
<1> DEFINE next == NextStage[c.at]
<1>1. /\ next \in Stage \cup {"undecided"}
      /\ next \in PastFit => c.at \in PastFit
      /\ next \in PastPin => c.at \in PastPin
  BY DEF NextStage, Stage, PastFit, PastPin
<1>2. next # "free" /\ next # "decided" /\ c.at # "free"
  BY <1>1 DEF Stage
<1> HIDE DEF next
<1>3. [c EXCEPT !.at = next] \in Turn
  BY <1>1 DEF Turn
<1>4. TurnInv([c EXCEPT !.at = next], live)
  BY <1>1, <1>2 DEF TurnInv, Turn, Fleet, Fits
<1> QED BY <1>3, <1>4 DEF next

LEMMA DecidedTurn ==
  ASSUME NEW live, NEW c \in Turn, TurnInv(c, live), c.at # "free",
         NEW d \in RoutingDecision,
         d.model # UnknownModel =>
           /\ d.model \in Healthy(c.full)
           /\ d.stage = "turn_envelope" \/ Forced(c.req) \/ Fits(c, d.model)
  PROVE  /\ [c EXCEPT !.at = "decided", !.decision = d] \in Turn
         /\ TurnInv([c EXCEPT !.at = "decided", !.decision = d], live)
<1> DEFINE new == [c EXCEPT !.at = "decided", !.decision = d]
<1>1. /\ new.at = "decided" /\ new.decision = d /\ new.session = c.session /\ new.req = c.req
      /\ new.rejected = c.rejected /\ new.full = c.full
  BY DEF Turn
<1>2. new \in Turn
  BY DEF Turn
<1> HIDE DEF new
<1>3. TurnInv(new, live)
  BY <1>1 DEF TurnInv, Sensible, Fits, PastFit, PastPin
<1> QED BY <1>2, <1>3 DEF new

-----------------------------------------------------------------------------
(* What the stages choose from.                                             *)

LEMMA HealthyWithin ==
  ASSUME NEW some, NEW all, some \subseteq all
  PROVE  Healthy(some) \subseteq Healthy(all)
BY DEF Healthy

LEMMA OfTierMember ==
  ASSUME NEW c \in Turn, NEW t
  PROVE  OfTier(c, t) \in Healthy(Fleet(c)) \cup {NoModel}
<1>1. Fleet(c) \in SUBSET Models
  BY DEF Turn, Fleet
<1>2. Healthy(Fleet(c)) \in SUBSET Models
  BY <1>1, HealthyMembers
<1>3. OnTier(Healthy(Fleet(c)), t) \subseteq Healthy(Fleet(c))
  BY OnTierMembers
<1> QED BY <1>2, <1>3, FirstOrNone DEF OfTier

(* The safe default is healthy, in the fleet, and the input fits it.        *)
LEMMA SafeDefaultMember ==
  ASSUME NEW c \in Turn
  PROVE  SafeDefault(c) \in {m \in Healthy(Fleet(c)) : Fits(c, m)} \cup {NoModel}
<1> DEFINE fitting == {m \in Fleet(c) : Fits(c, m)}
<1>1. fitting \in SUBSET Models
  BY DEF Turn, Fleet
<1>2. SafeDefaults(fitting) \subseteq {m \in fitting : IsHealthy(m)}
  BY <1>1, SafeDefaultMembers
<1>3. First(SafeDefaults(fitting)) \in SafeDefaults(fitting) \cup {NoModel}
  BY <1>1, <1>2, FirstOrNone
<1> QED BY <1>2, <1>3 DEF SafeDefault, Healthy

LEMMA OverflowModelMember ==
  ASSUME NEW c \in Turn
  PROVE  OverflowModel(c) \in {m \in Healthy(c.full) : Fits(c, m)} \cup {NoModel}
<1> DEFINE best == OverflowFallbacks(c.full, c.req.tokens, c.provider)
<1>1. c.full \in SUBSET Models
  BY DEF Turn
<1>2. best \subseteq {m \in c.full : IsHealthy(m) /\ modelFitsContext(m, c.req.tokens)}
  BY <1>1, OverflowFallbackMembers
<1>3. First(best) \in best \cup {NoModel}
  BY <1>1, <1>2, FirstOrNone
<1> QED BY <1>2, <1>3 DEF OverflowModel, Healthy, Fits

(* The fallback answer: a healthy model that fits, or the unknown one.      *)
LEMMA FallbackSound ==
  ASSUME NEW c \in Turn
  PROVE  LET d == buildFallbackDecision(c) IN
         /\ d \in RoutingDecision
         /\ d.model # UnknownModel => d.model \in Healthy(c.full) /\ Fits(c, d.model)
<1> DEFINE d == buildFallbackDecision(c)
           over == Decision(OrUnknown(OverflowModel(c)), "fallback", "context_overflow")
           safe == Decision(OrUnknown(SafeDefault(c)), "fallback", "safe_cloud_default")
<1>1. Fleet(c) \in SUBSET c.full /\ c.full \in SUBSET Models
  BY DEF Turn, Fleet
<1>2. Healthy(Fleet(c)) \subseteq Healthy(c.full) /\ Healthy(c.full) \subseteq Models
  BY <1>1, HealthyWithin, HealthyMembers
<1>3. /\ OrUnknown(OverflowModel(c)) \in ModelIds
      /\ OrUnknown(OverflowModel(c)) # UnknownModel =>
           OrUnknown(OverflowModel(c)) \in {m \in Healthy(c.full) : Fits(c, m)}
  BY <1>2, OverflowModelMember DEF OrUnknown, ModelIds
<1>4. /\ OrUnknown(SafeDefault(c)) \in ModelIds
      /\ OrUnknown(SafeDefault(c)) # UnknownModel =>
           OrUnknown(SafeDefault(c)) \in {m \in Healthy(c.full) : Fits(c, m)}
  BY <1>2, SafeDefaultMember DEF OrUnknown, ModelIds
<1>5. d = over \/ d = safe
  BY DEF buildFallbackDecision
<1>6. over \in RoutingDecision /\ safe \in RoutingDecision
  BY <1>3, <1>4 DEF Decision, RoutingDecision, DecisionStage, DecisionReason, LookupReason
<1>7. over.model = OrUnknown(OverflowModel(c)) /\ safe.model = OrUnknown(SafeDefault(c))
  BY DEF Decision
<1> QED BY <1>3, <1>4, <1>5, <1>6, <1>7

LEMMA EnvelopeTargetMember ==
  ASSUME NEW c \in Turn
  PROVE  EnvelopeTarget(c) \in Healthy(Fleet(c)) \cup {NoModel}
<1> DEFINE tier == OnTier(Fleet(c), TurnTier(c.req.kind))
<1>1. tier \in SUBSET Models /\ tier \subseteq Fleet(c)
  BY OnTierMembers DEF Turn, Fleet
<1>2. LowestCost(tier) \subseteq Healthy(tier)
  BY <1>1, LowestCostMembers DEF Healthy
<1>3. Healthy(tier) \subseteq Healthy(Fleet(c)) /\ LowestCost(tier) \in SUBSET Models
  BY <1>1, <1>2, HealthyWithin, HealthyMembers
<1>4. First(LowestCost(tier)) \in LowestCost(tier) \cup {NoModel}
  BY <1>3, FirstOrNone
<1> QED BY <1>2, <1>3, <1>4 DEF EnvelopeTarget, selectLowestCostModel

LEMMA EnvelopeSound ==
  ASSUME NEW c \in Turn, NEW st, EnvelopeDecision(c, st).model # NoModel
  PROVE  LET d == EnvelopeDecision(c, st) IN
         /\ d \in RoutingDecision
         /\ d.model \in Healthy(c.full) /\ d.stage = "turn_envelope"
         /\ EnvelopeApplies(c, st)
         /\ \/ d.model = st.pin.model
            \/ MaySwitch(c, st) /\ d.model = EnvelopeTarget(c)
<1> DEFINE d == EnvelopeDecision(c, st)
           kept == Decision(st.pin.model, "turn_envelope", "planning_delegate")
           moved == Decision(EnvelopeTarget(c), "turn_envelope", "turn")
<1>1. Fleet(c) \subseteq c.full /\ c.full \in SUBSET Models
  BY DEF Turn, Fleet
<1>2. Healthy(Fleet(c)) \subseteq Healthy(c.full) /\ Healthy(c.full) \subseteq Models
  BY <1>1, HealthyWithin, HealthyMembers
<1>3. EnvelopeApplies(c, st)
  BY DEF EnvelopeDecision, NoDecision
<1>4. CASE DelegatesPlanning(c, st)
  <2>1. d = kept
    BY <1>3, <1>4 DEF EnvelopeDecision
  <2>2. st.pin.model \in Healthy(Fleet(c))
    BY <1>4 DEF DelegatesPlanning, Switches, PinnedIn
  <2> QED BY <1>2, <1>3, <2>1, <2>2
          DEF Decision, RoutingDecision, DecisionStage, DecisionReason, ModelIds
<1>5. CASE ~DelegatesPlanning(c, st)
  <2>1. MaySwitch(c, st) /\ d = moved
    BY <1>3, <1>5 DEF EnvelopeDecision, NoDecision
  <2>2. EnvelopeTarget(c) \in Healthy(Fleet(c))
    BY <1>3, EnvelopeTargetMember DEF EnvelopeApplies
  <2> QED BY <1>2, <1>3, <2>1, <2>2
          DEF Decision, RoutingDecision, DecisionStage, DecisionReason, ModelIds
<1> QED BY <1>4, <1>5

(* The pin stage.                                                           *)
LEMMA Enriched ==
  ASSUME NEW c \in Turn
  PROVE  LET req == enrichRequestWithSaarCandidate(c) IN
         /\ req.tokens = c.req.tokens /\ req.tokens \in Nat
         /\ req.force = c.req.force /\ req.compaction = c.req.compaction
         /\ req.kind = c.req.kind /\ req.tool = c.req.tool
BY DEF enrichRequestWithSaarCandidate, Turn, RouteRequest

LEMMA PinAnswerSound ==
  ASSUME IInv, NEW r \in Slots, turn[r].at # "free"
  PROVE  LET a == PinAnswer(r)  c == turn[r]  st == State(r) IN
         /\ Sound(ModelIds, st, Fleet(c), a)
         /\ Forced(c.req) /\ ~c.req.compaction =>
              /\ a.action \in {"use_pin", "force_rejected"}
              /\ \/ IsTierPinned(a.state)
                 \/ a.action = "use_pin" /\ a.model = c.req.force
                 \/ a.action = "force_rejected" /\ c.req.force \notin Healthy(Fleet(c))
         /\ ~Forced(c.req) /\ PinnedIn(st, Fleet(c)) =>
              IsTierPinned(a.state) \/ LeavesWell(st, enrichRequestWithSaarCandidate(c), a)
         /\ ~Forced(c.req) => a.action # "force_rejected"
<1> DEFINE c == turn[r]
           st == State(r)
           req == enrichRequestWithSaarCandidate(c)
           live == Fleet(c)
<1>1. SessionInv(ModelIds, st) /\ live \in SUBSET Models /\ Models \subseteq ModelIds /\ c \in Turn
  BY Context DEF ModelIds
<1>2. /\ req.tokens \in Nat /\ req.force = c.req.force /\ req.compaction = c.req.compaction
      /\ Forced(req) = Forced(c.req)
  BY <1>1, Enriched DEF Forced
<1>3. PinAnswer(r) = lookupPin(st, req, live)
  BY DEF PinAnswer
<1> HIDE DEF c, st, req, live
<1>4. ~Forced(req) => lookupPin(st, req, live).action # "force_rejected"
  BY OnlyForceRefused
<1> DEFINE a == lookupPin(st, req, live)
<1>5. /\ Sound(ModelIds, st, live, a)
      /\ Forced(req) /\ ~req.compaction =>
           /\ a.action \in {"use_pin", "force_rejected"}
           /\ \/ IsTierPinned(a.state)
              \/ a.action = "use_pin" /\ a.model = req.force
              \/ a.action = "force_rejected" /\ req.force \notin Healthy(live)
      /\ ~Forced(req) /\ PinnedIn(st, live) => IsTierPinned(a.state) \/ LeavesWell(st, req, a)
  BY <1>1, <1>2, LookupSound
<1> HIDE DEF a
<1> QED BY <1>2, <1>3, <1>4, <1>5 DEF a, c, st, req, live

(* What the stage decides follows from the answer.                          *)
LEMMA PinDecisionSound ==
  ASSUME IInv, NEW r \in Slots, turn[r].at # "free"
  PROVE  LET d == PinDecision(r)  a == PinAnswer(r)  c == turn[r] IN
         /\ d = NoDecision <=> a.action \notin Usable \cup {"force_rejected"}
         /\ d # NoDecision =>
              /\ d \in RoutingDecision /\ d.stage = "session_pin"
              /\ a.action \in Usable => d.model = a.model /\ d.model \in Healthy(Fleet(c))
              /\ a.action = "force_rejected" /\ d.model # UnknownModel =>
                   d.model \in Healthy(Fleet(c)) /\ Fits(c, d.model)
<1> DEFINE d == PinDecision(r)
           a == PinAnswer(r)
           c == turn[r]
<1>1. /\ a.action \in Usable => a.model \in Healthy(Fleet(c))
      /\ a.action \in Usable \cup {"force_rejected", "break", "no_pin"}
      /\ a.reason \in LookupReason
  BY PinAnswerSound DEF Sound
<1>2. c \in Turn /\ Fleet(c) \in SUBSET Models
  BY Context
<1>3. Healthy(Fleet(c)) \subseteq Models
  BY <1>2, HealthyMembers
<1> HIDE DEF c
<1>4. SafeDefault(c) \in {m \in Healthy(Fleet(c)) : Fits(c, m)} \cup {NoModel}
  BY <1>2, SafeDefaultMember
<1> DEFINE why == IF a.reason \in {"saar_hard_lock", "saar_tier_upgrade"} THEN a.reason
                  ELSE IF isPinOnlyFallbackActive(a.state) THEN "pin_only_fallback"
                  ELSE "session_pinned"
           refused == OrUnknown(SafeDefault(c))
<1>5. d = IF a.action \in {"saar_route", "sub_route"} THEN Decision(a.model, "session_pin", a.reason)
          ELSE IF a.action = "use_pin" THEN Decision(a.model, "session_pin", why)
          ELSE IF a.action = "force_rejected" THEN Decision(refused, "session_pin", a.reason)
          ELSE NoDecision
  BY DEF PinDecision, c
<1>6. why \in DecisionReason
  BY <1>1 DEF DecisionReason, LookupReason
<1>7. refused \in ModelIds /\ (refused # UnknownModel => refused \in {m \in Healthy(Fleet(c)) : Fits(c, m)})
  BY <1>3, <1>4 DEF OrUnknown, ModelIds
<1>8. \A m \in ModelIds, why1 \in DecisionReason :
        /\ Decision(m, "session_pin", why1) \in RoutingDecision
        /\ Decision(m, "session_pin", why1).model = m
        /\ Decision(m, "session_pin", why1).stage = "session_pin"
  BY DEF Decision, RoutingDecision, DecisionStage
<1>9. NoDecision.stage = "none" /\ LookupReason \subseteq DecisionReason
  BY DEF NoDecision, DecisionReason
<1> HIDE DEF a, d, why, refused
<1>10. CASE a.action \in {"saar_route", "sub_route"}
  BY <1>1, <1>3, <1>5, <1>8, <1>9, <1>10 DEF Usable, ModelIds, d, a, c
<1>11. CASE a.action = "use_pin"
  BY <1>1, <1>3, <1>5, <1>6, <1>8, <1>9, <1>11 DEF Usable, ModelIds, d, a, c
<1>12. CASE a.action = "force_rejected"
  BY <1>1, <1>5, <1>7, <1>8, <1>9, <1>12 DEF Usable, d, a, c
<1>13. CASE a.action \notin Usable \cup {"force_rejected"}
  BY <1>5, <1>13 DEF Usable, d, a
<1> QED BY <1>10, <1>11, <1>12, <1>13 DEF Usable

-----------------------------------------------------------------------------
(* Every step of a request keeps the invariant.                             *)

LEMMA PassStep ==
  ASSUME IInv, NEW r \in Slots, turn[r].at \in Stage \ {"context_fit", "session_pin"},
         Pass(r), UNCHANGED <<sess, host>>
  PROVE  IInv'
<1>1. turn[r].at \notin {"free", "queued"} /\ turn[r] \in Turn /\ TurnInv(turn[r], started)
  BY Context DEF Stage
<1> DEFINE c == [turn[r] EXCEPT !.at = NextStage[turn[r].at]]
<1>2. c \in Turn /\ TurnInv(c, started)
  BY <1>1, PassedTurn
<1>3. turn' = [turn EXCEPT ![r] = c]
  BY <1>1 DEF Pass, IInv, Turns
<1> HIDE DEF c
<1> QED BY <1>1, <1>2, <1>3, QuietFrame

LEMMA DecideTurn ==
  ASSUME IInv, NEW r \in Slots, turn[r].at # "free", NEW d, Decide(r, d)
  PROVE  turn' = [turn EXCEPT ![r] = [turn[r] EXCEPT !.at = "decided", !.decision = d]]
BY DEF Decide, IInv, Turns

LEMMA DecideStep ==
  ASSUME IInv, NEW r \in Slots, turn[r].at \in Stage,
         NEW d \in RoutingDecision, Decide(r, d), UNCHANGED <<sess, host>>,
         d.model # UnknownModel =>
           /\ d.model \in Healthy(turn[r].full)
           /\ d.stage = "turn_envelope" \/ Forced(turn[r].req) \/ Fits(turn[r], d.model)
  PROVE  IInv'
<1>1. turn[r].at \notin {"free", "queued"} /\ turn[r] \in Turn /\ TurnInv(turn[r], started)
  BY Context DEF Stage
<1> DEFINE c == [turn[r] EXCEPT !.at = "decided", !.decision = d]
<1>2. c \in Turn /\ TurnInv(c, started)
  BY <1>1, DecidedTurn
<1>3. turn' = [turn EXCEPT ![r] = c]
  BY <1>1, DecideTurn
<1> HIDE DEF c
<1> QED BY <1>1, <1>2, <1>3, QuietFrame

(* A stage behind context_fit whose model comes from what is left.          *)
LEMMA LateChoice ==
  ASSUME IInv, NEW r \in Slots, turn[r].at \in PastPin,
         NEW m \in Healthy(Fleet(turn[r])), NEW stage \in DecisionStage, NEW why \in DecisionReason
  PROVE  /\ Decision(m, stage, why) \in RoutingDecision
         /\ Decision(m, stage, why).model = m
         /\ m \in Healthy(turn[r].full) /\ m \in Models
         /\ Forced(turn[r].req) \/ Fits(turn[r], m)
<1>1. /\ TurnInv(turn[r], started) /\ Fleet(turn[r]) \subseteq turn[r].full
      /\ turn[r].full \in SUBSET Models
  BY Context DEF PastPin
<1>2. m \in Healthy(turn[r].full) /\ m \in Models /\ m \in Fleet(turn[r])
  BY <1>1 DEF Healthy
<1>3. Forced(turn[r].req) \/ Fits(turn[r], m)
  BY <1>1, <1>2 DEF TurnInv, PastFit
<1> QED BY <1>2, <1>3 DEF Decision, RoutingDecision, ModelIds

LEMMA LateStep ==
  ASSUME IInv, NEW r \in Slots, turn[r].at \in PastPin \ {"undecided"},
         NEW m \in Healthy(Fleet(turn[r])) \cup {NoModel}, NEW stage \in DecisionStage, NEW why \in DecisionReason,
         DecideOrPass(r, Decision(m, stage, why)), UNCHANGED <<sess, host>>
  PROVE  IInv'
<1>1. turn[r].at \in Stage \ {"context_fit", "session_pin"}
  BY DEF PastPin, Stage
<1>2. Decision(m, stage, why).model = m
  BY DEF Decision
<1>3. CASE m = NoModel
  BY <1>1, <1>2, <1>3, PassStep DEF DecideOrPass
<1>4. CASE m # NoModel
  <2> DEFINE d == Decision(m, stage, why)
  <2>1. /\ d \in RoutingDecision /\ d.model = m
        /\ m \in Healthy(turn[r].full)
        /\ Forced(turn[r].req) \/ Fits(turn[r], m)
    BY <1>4, LateChoice
  <2>2. Decide(r, d)
    BY <1>2, <1>4 DEF DecideOrPass
  <2> HIDE DEF d
  <2> QED BY <1>1, <2>1, <2>2, DecideStep
<1> QED BY <1>3, <1>4

LEMMA StageAfter ==
  /\ NextStage["context_fit"] = "low_intensity"
  /\ NextStage["low_intensity"] = "session_pin"
  /\ NextStage["session_pin"] = "triage"
BY DEF NextStage

(* Two fields of one turn, or three, are an update of that turn.            *)
LEMMA TwoFields ==
  ASSUME NEW f, NEW r \in DOMAIN f, NEW v, NEW w
  PROVE  /\ [f EXCEPT ![r].at = v, ![r].rejected = w] = [f EXCEPT ![r] = [f[r] EXCEPT !.at = v, !.rejected = w]]
         /\ [f EXCEPT ![r].at = v, ![r].scored = w] = [f EXCEPT ![r] = [f[r] EXCEPT !.at = v, !.scored = w]]
         /\ [f EXCEPT ![r].at = v, ![r].verdict = w] = [f EXCEPT ![r] = [f[r] EXCEPT !.at = v, !.verdict = w]]
OBVIOUS

LEMMA ThreeFields ==
  ASSUME NEW f, NEW r \in DOMAIN f, NEW v, NEW w, NEW x
  PROVE  [f EXCEPT ![r].at = v, ![r].overflow = w, ![r].provider = x]
           = [f EXCEPT ![r] = [f[r] EXCEPT !.at = v, !.overflow = w, !.provider = x]]
OBVIOUS

LEMMA EscalationStep ==
  ASSUME IInv, NEW r \in Slots, LoopEscalationStage(r)
  PROVE  IInv'
<1>1. turn[r].at \notin {"free", "queued"} /\ turn[r].at \in Stage \ {"context_fit", "session_pin"}
  BY DEF LoopEscalationStage, At, Stage
<1>2. /\ turn[r] \in Turn /\ TurnInv(turn[r], started) /\ turn[r].session \in Sessions
      /\ turn[r].req \in RouteRequest /\ SessionInv(ModelIds, State(r))
      /\ Fleet(turn[r]) \in SUBSET Models
  BY <1>1, Context
<1> DEFINE c == [turn[r] EXCEPT !.at = NextStage[turn[r].at]]
           st == evaluateLoopEscalation(State(r), turn[r].req, Fleet(turn[r]))
<1>3. c \in Turn /\ TurnInv(c, started)
  BY <1>1, <1>2, PassedTurn
<1>4. turn' = [turn EXCEPT ![r] = c]
  BY <1>2 DEF LoopEscalationStage, Pass, IInv, Turns
<1>5. Models \subseteq ModelIds /\ turn[r].req.tool \in ToolOutcome
  BY <1>2 DEF ModelIds, RouteRequest
<1>6. Keeps(ModelIds, State(r), st)
  BY <1>2, <1>5, EscalationKeeps
<1>7. sess' = [sess EXCEPT ![turn[r].session] = st]
  BY <1>2 DEF LoopEscalationStage, State, IInv, Pins
<1>8. UNCHANGED host
  BY DEF LoopEscalationStage
<1> HIDE DEF c, st
<1> QED BY <1>1, <1>3, <1>4, <1>6, <1>7, <1>8, StepFrame

LEMMA EnvelopeStep ==
  ASSUME IInv, NEW r \in Slots, TurnEnvelope(r)
  PROVE  IInv'
<1> DEFINE d == EnvelopeDecision(turn[r], State(r))
<1>1. /\ turn[r].at \in Stage \ {"context_fit", "session_pin"} /\ turn[r].at # "free"
      /\ DecideOrPass(r, d) /\ UNCHANGED <<sess, host>>
  BY DEF TurnEnvelope, At, Stage
<1>2. turn[r] \in Turn
  BY <1>1, Context
<1>3. CASE d.model = NoModel
  BY <1>1, <1>3, PassStep DEF DecideOrPass
<1>4. CASE d.model # NoModel
  <2>1. d \in RoutingDecision /\ d.model \in Healthy(turn[r].full) /\ d.stage = "turn_envelope"
    BY <1>2, <1>4, EnvelopeSound
  <2>2. Decide(r, d)
    BY <1>1, <1>4 DEF DecideOrPass
  <2> HIDE DEF d
  <2> QED BY <1>1, <2>1, <2>2, DecideStep
<1> QED BY <1>3, <1>4

LEMMA FitStep ==
  ASSUME IInv, NEW r \in Slots, ContextFit(r)
  PROVE  IInv'
<1> DEFINE rejected == IF Forced(turn[r].req) THEN {} ELSE {m \in turn[r].full : ~Fits(turn[r], m)}
           c == [turn[r] EXCEPT !.at = "low_intensity", !.rejected = rejected]
<1>1. turn[r].at = "context_fit" /\ UNCHANGED <<sess, host>>
  BY DEF ContextFit, At
<1>2. turn[r] \in Turn /\ TurnInv(turn[r], started)
  BY <1>1, Context
<1>3. turn' = [turn EXCEPT ![r] = c]
  <2> DEFINE v == NextStage[turn[r].at]
  <2>1. v = "low_intensity" /\ r \in DOMAIN turn
    BY <1>1, StageAfter DEF IInv, Turns
  <2>2. turn' = [turn EXCEPT ![r].at = v, ![r].rejected = rejected]
    BY DEF ContextFit
  <2> HIDE DEF v, rejected
  <2> QED BY <2>1, <2>2, TwoFields
<1>4. c \in Turn
  BY <1>2 DEF Turn, Stage
<1>5. /\ c.at = "low_intensity" /\ c.rejected = rejected /\ c.req = turn[r].req
      /\ c.full = turn[r].full /\ c.session = turn[r].session
  BY <1>2 DEF Turn
<1>6. TurnInv(c, started)
  <2> HIDE DEF c
  <2> QED BY <1>1, <1>2, <1>5 DEF TurnInv, Fleet, Fits, PastPin
<1> HIDE DEF c
<1> QED BY <1>1, <1>3, <1>4, <1>6, QuietFrame

LEMMA IntensityStep ==
  ASSUME IInv, NEW r \in Slots, LowIntensity(r)
  PROVE  IInv'
<1> DEFINE scored == ~isPinOnlyFallbackActive(State(r))
           c == [turn[r] EXCEPT !.at = "session_pin", !.scored = scored]
<1>1. turn[r].at = "low_intensity" /\ UNCHANGED <<sess, host>>
  BY DEF LowIntensity, At
<1>2. turn[r] \in Turn /\ TurnInv(turn[r], started)
  BY <1>1, Context
<1>3. turn' = [turn EXCEPT ![r] = c]
  <2> DEFINE v == NextStage[turn[r].at]
  <2>1. v = "session_pin" /\ r \in DOMAIN turn
    BY <1>1, StageAfter DEF IInv, Turns
  <2>2. turn' = [turn EXCEPT ![r].at = v, ![r].scored = scored]
    BY DEF LowIntensity
  <2> HIDE DEF v, scored
  <2> QED BY <2>1, <2>2, TwoFields
<1> HIDE DEF scored
<1>4. scored \in BOOLEAN
  BY DEF scored
<1>5. c \in Turn
  BY <1>2, <1>4 DEF Turn, Stage
<1>6. /\ c.at = "session_pin" /\ c.rejected = turn[r].rejected /\ c.req = turn[r].req
      /\ c.full = turn[r].full /\ c.session = turn[r].session
  BY <1>2 DEF Turn
<1>7. TurnInv(c, started)
  <2> HIDE DEF c
  <2> QED BY <1>1, <1>2, <1>6 DEF TurnInv, Fleet, Fits, PastPin, PastFit
<1> HIDE DEF c
<1> QED BY <1>1, <1>3, <1>5, <1>7, QuietFrame

LEMMA PinStageStep ==
  ASSUME IInv, NEW r \in Slots, SessionPinStage(r)
  PROVE  IInv'
<1> DEFINE d == PinDecision(r)
           a == PinAnswer(r)
<1>1. /\ turn[r].at = "session_pin" /\ UNCHANGED host
      /\ sess' = [sess EXCEPT ![turn[r].session] = a.state]
  BY DEF SessionPinStage, At
<1>2. /\ turn[r] \in Turn /\ TurnInv(turn[r], started) /\ Fleet(turn[r]) \subseteq turn[r].full
      /\ \A m \in Healthy(Fleet(turn[r])) : m \in Healthy(turn[r].full) /\ m \in Fleet(turn[r])
  BY <1>1, Context DEF Healthy
<1>3. Keeps(ModelIds, State(r), a.state)
  BY <1>1, PinAnswerSound DEF Sound
<1>4. CASE d # NoDecision
  <2>1. /\ d \in RoutingDecision
        /\ d.model # UnknownModel => d.model \in Healthy(Fleet(turn[r]))
    BY <1>1, <1>4, PinDecisionSound
  <2>5. Decide(r, d)
    BY <1>4 DEF SessionPinStage
  <2> HIDE DEF a, d
  <2> DEFINE c == [turn[r] EXCEPT !.at = "decided", !.decision = d]
  <2>2. d.model # UnknownModel =>
          d.model \in Healthy(turn[r].full) /\ (Forced(turn[r].req) \/ Fits(turn[r], d.model))
    BY <1>1, <1>2, <2>1 DEF TurnInv, PastFit
  <2>3. c \in Turn /\ TurnInv(c, started)
    BY <1>1, <1>2, <2>1, <2>2, DecidedTurn
  <2>4. turn' = [turn EXCEPT ![r] = c]
    BY <1>1, <2>5, DecideTurn
  <2> HIDE DEF c
  <2> QED BY <1>1, <1>3, <2>3, <2>4, StepFrame
<1>5. CASE d = NoDecision
  <2> DEFINE over == OutgrewPin(r)
             provider == IF over THEN PinnedProvider(r) ELSE "none"
             c == [turn[r] EXCEPT !.at = "triage", !.overflow = over, !.provider = provider]
  <2>1. turn' = [turn EXCEPT ![r] = c]
    <3> DEFINE v == NextStage[turn[r].at]
    <3>1. v = "triage" /\ r \in DOMAIN turn
      BY <1>1, StageAfter DEF IInv, Turns
    <3>2. turn' = [turn EXCEPT ![r].at = v, ![r].overflow = over, ![r].provider = provider]
      BY <1>5 DEF SessionPinStage
    <3> HIDE DEF v, over, provider
    <3> QED BY <3>1, <3>2, ThreeFields
  <2>2. over \in BOOLEAN
    BY DEF OutgrewPin
  <2>3. provider \in {Profile[m].provider : m \in Models} \cup {"none"}
    BY <1>2 DEF PinnedProvider, Turn
  <2> HIDE DEF over, provider
  <2>4. c \in Turn
    BY <1>2, <2>2, <2>3 DEF Turn, Stage
  <2>5. /\ c.at = "triage" /\ c.rejected = turn[r].rejected /\ c.req = turn[r].req
        /\ c.full = turn[r].full /\ c.session = turn[r].session
    BY <1>2 DEF Turn
  <2>6. Forced(turn[r].req) => turn[r].req.compaction
    <3>1. a.action \notin Usable \cup {"force_rejected"}
      BY <1>1, <1>5, PinDecisionSound
    <3>2. /\ Forced(turn[r].req) /\ ~turn[r].req.compaction => a.action \in {"use_pin", "force_rejected"}
      BY <1>1, PinAnswerSound
    <3>3. turn[r].req.compaction \in BOOLEAN
      BY <1>2 DEF Turn, RouteRequest
    <3> QED BY <3>1, <3>2, <3>3 DEF Usable
  <2>7. TurnInv(c, started)
    <3> HIDE DEF c
    <3> QED BY <1>1, <1>2, <2>5, <2>6 DEF TurnInv, Fleet, Fits, PastFit
  <2> HIDE DEF a, c
  <2> QED BY <1>1, <1>3, <2>1, <2>4, <2>7, StepFrame
<1> QED BY <1>4, <1>5

LEMMA TriageStep ==
  ASSUME IInv, NEW r \in Slots, Triage(r)
  PROVE  IInv'
<1>1. turn[r].at = "triage" /\ UNCHANGED <<sess, host>>
  BY DEF Triage, At
<1>2. turn[r] \in Turn /\ TurnInv(turn[r], started)
  BY <1>1, Context
<1> DEFINE frontier == OfTier(turn[r], "frontier-cloud")
<1>3. frontier \in Healthy(Fleet(turn[r])) \cup {NoModel}
  BY <1>2, OfTierMember
<1>4. PICK verdict \in {"trivial", "ambiguous", "complex"} :
        IF verdict = "complex" /\ frontier # NoModel
        THEN Decide(r, Decision(frontier, "triage", "complex"))
        ELSE turn' = [turn EXCEPT ![r].at = NextStage[@], ![r].verdict = verdict]
  BY DEF Triage
<1> HIDE DEF frontier
<1>5. CASE verdict = "complex" /\ frontier # NoModel
  <2>1. DecideOrPass(r, Decision(frontier, "triage", "complex"))
    BY <1>4, <1>5 DEF DecideOrPass, Decision
  <2>2. "triage" \in DecisionStage /\ "complex" \in DecisionReason /\ turn[r].at \in PastPin \ {"undecided"}
    BY <1>1 DEF DecisionStage, DecisionReason, PastPin
  <2> QED BY <1>1, <1>3, <2>1, <2>2, LateStep
<1>6. CASE ~(verdict = "complex" /\ frontier # NoModel)
  <2> DEFINE c == [turn[r] EXCEPT !.at = "local_zero", !.verdict = verdict]
  <2>1. turn' = [turn EXCEPT ![r] = c]
    <3> DEFINE v == NextStage[turn[r].at]
    <3>1. v = "local_zero" /\ r \in DOMAIN turn
      BY <1>1 DEF NextStage, IInv, Turns
    <3>2. turn' = [turn EXCEPT ![r].at = v, ![r].verdict = verdict]
      BY <1>4, <1>6
    <3> HIDE DEF v
    <3> QED BY <3>1, <3>2, TwoFields
  <2>2. c \in Turn
    BY <1>2 DEF Turn, Stage
  <2>3. /\ c.at = "local_zero" /\ c.rejected = turn[r].rejected /\ c.req = turn[r].req
        /\ c.full = turn[r].full /\ c.session = turn[r].session
    BY <1>2 DEF Turn
  <2>4. TurnInv(c, started)
    <3> HIDE DEF c
    <3> QED BY <1>1, <1>2, <2>3 DEF TurnInv, Fleet, Fits, PastPin, PastFit
  <2> HIDE DEF c
  <2> QED BY <1>1, <2>1, <2>2, <2>4, QuietFrame
<1> QED BY <1>5, <1>6

LEMMA LocalZeroStep ==
  ASSUME IInv, NEW r \in Slots, LocalZeroStage(r)
  PROVE  IInv'
<1>1. turn[r].at = "local_zero" /\ UNCHANGED <<sess, host>>
  BY DEF LocalZeroStage, At
<1>2. turn[r] \in Turn
  BY <1>1, Context
<1>3. \A t : OfTier(turn[r], t) \in Healthy(Fleet(turn[r])) \cup {NoModel}
  BY <1>2, OfTierMember
<1>4. /\ "local_zero" \in DecisionStage
      /\ "local_model_ready" \in DecisionReason /\ "throughput" \in DecisionReason
      /\ turn[r].at \in PastPin \ {"undecided"} /\ turn[r].at \in Stage \ {"context_fit", "session_pin"}
  BY <1>1 DEF DecisionStage, DecisionReason, PastPin, Stage
<1>5. CASE Pass(r)
  BY <1>1, <1>4, <1>5, PassStep
<1>6. CASE /\ OfTier(turn[r], "zero-tier") # NoModel
           /\ Decide(r, Decision(OfTier(turn[r], "zero-tier"), "local_zero", "local_model_ready"))
  <2>1. DecideOrPass(r, Decision(OfTier(turn[r], "zero-tier"), "local_zero", "local_model_ready"))
    BY <1>6 DEF DecideOrPass, Decision
  <2> QED BY <1>1, <1>3, <1>4, <2>1, LateStep
<1>7. CASE DecideOrPass(r, Decision(OfTier(turn[r], "economical-cloud"), "local_zero", "throughput"))
  BY <1>1, <1>3, <1>4, <1>7, LateStep
<1> QED BY <1>5, <1>6, <1>7 DEF LocalZeroStage

LEMMA CloudFallbackStep ==
  ASSUME IInv, NEW r \in Slots, TriageCloudFallback(r)
  PROVE  IInv'
<1>1. turn[r].at = "triage_cloud_fallback" /\ UNCHANGED <<sess, host>>
  BY DEF TriageCloudFallback, At
<1>2. turn[r] \in Turn
  BY <1>1, Context
<1>3. OfTier(turn[r], "economical-cloud") \in Healthy(Fleet(turn[r])) \cup {NoModel}
  BY <1>2, OfTierMember
<1>4. /\ "triage" \in DecisionStage /\ "trivial" \in DecisionReason
      /\ turn[r].at \in PastPin \ {"undecided"} /\ turn[r].at \in Stage \ {"context_fit", "session_pin"}
  BY <1>1 DEF DecisionStage, DecisionReason, PastPin, Stage
<1>5. CASE Pass(r)
  BY <1>1, <1>4, <1>5, PassStep
<1>6. CASE DecideOrPass(r, Decision(OfTier(turn[r], "economical-cloud"), "triage", "trivial"))
  BY <1>1, <1>3, <1>4, <1>6, LateStep
<1> QED BY <1>5, <1>6 DEF TriageCloudFallback

LEMMA MatchStep ==
  ASSUME IInv, NEW r \in Slots, HydraMatch(r)
  PROVE  IInv'
<1>1. turn[r].at = "hydra_match" /\ UNCHANGED <<sess, host>>
  BY DEF HydraMatch, At
<1>2. /\ "hydra_match" \in DecisionStage /\ "match" \in DecisionReason
      /\ turn[r].at \in PastPin \ {"undecided"} /\ turn[r].at \in Stage \ {"context_fit", "session_pin"}
  BY <1>1 DEF DecisionStage, DecisionReason, PastPin, Stage
<1>3. CASE Pass(r)
  BY <1>1, <1>2, <1>3, PassStep
<1>4. ASSUME NEW m \in Healthy(Fleet(turn[r])), Decide(r, Decision(m, "hydra_match", "match"))
      PROVE  IInv'
  <2>1. m # NoModel
    BY <1>1, Context, HealthyMembers
  <2>2. DecideOrPass(r, Decision(m, "hydra_match", "match"))
    BY <1>4, <2>1 DEF DecideOrPass, Decision
  <2> QED BY <1>1, <1>2, <2>2, LateStep
<1> QED BY <1>3, <1>4 DEF HydraMatch

LEMMA SafeDefaultStep ==
  ASSUME IInv, NEW r \in Slots, SafeDefaultStage(r)
  PROVE  IInv'
<1>1. turn[r].at = "safe_default" /\ UNCHANGED <<sess, host>>
  BY DEF SafeDefaultStage, At
<1>2. turn[r] \in Turn
  BY <1>1, Context
<1>3. SafeDefault(turn[r]) \in Healthy(Fleet(turn[r])) \cup {NoModel}
  BY <1>2, SafeDefaultMember
<1>4. /\ "fallback" \in DecisionStage /\ "safe_cloud_default" \in DecisionReason
      /\ turn[r].at \in PastPin \ {"undecided"} /\ turn[r].at \in Stage \ {"context_fit", "session_pin"}
  BY <1>1 DEF DecisionStage, DecisionReason, PastPin, Stage
<1>5. CASE Pass(r)
  BY <1>1, <1>4, <1>5, PassStep
<1>6. CASE DecideOrPass(r, Decision(SafeDefault(turn[r]), "fallback", "safe_cloud_default"))
  BY <1>1, <1>3, <1>4, <1>6, LateStep
<1> QED BY <1>5, <1>6 DEF SafeDefaultStage

LEMMA OverflowStep ==
  ASSUME IInv, NEW r \in Slots, ContextOverflowFallback(r)
  PROVE  IInv'
<1>1. turn[r].at = "context_overflow_fallback" /\ UNCHANGED <<sess, host>>
  BY DEF ContextOverflowFallback, At
<1>2. turn[r].at \in Stage \ {"context_fit", "session_pin"} /\ turn[r] \in Turn
  BY <1>1, Context DEF Stage
<1>3. CASE Pass(r)
  BY <1>1, <1>2, <1>3, PassStep
<1>4. CASE Decide(r, buildFallbackDecision(turn[r]))
  <2> DEFINE d == buildFallbackDecision(turn[r])
  <2>1. d \in RoutingDecision /\ (d.model # UnknownModel => d.model \in Healthy(turn[r].full) /\ Fits(turn[r], d.model))
    BY <1>2, FallbackSound
  <2> HIDE DEF d
  <2>2. Decide(r, d)
    BY <1>4 DEF d
  <2> QED BY <1>1, <1>2, <2>1, <2>2, DecideStep
<1> QED BY <1>3, <1>4 DEF ContextOverflowFallback

(* The end of a turn: the pin that is persisted is a decided model.         *)
LEMMA EndStep ==
  ASSUME IInv, NEW r \in Slots, turn[r].at \notin {"free", "queued"},
         NEW st, Keeps(ModelIds, State(r), st), Ends(r, st)
  PROVE  IInv'
<1>1. turn' = [turn EXCEPT ![r] = Idle] /\ sess' = [sess EXCEPT ![turn[r].session] = st] /\ UNCHANGED host
  BY DEF Ends
<1> QED BY <1>1, IdleTurn, StepFrame

LEMMA FinalizeKeeps ==
  ASSUME NEW before, NEW st, Keeps(ModelIds, before, st), NEW d \in RoutingDecision
  PROVE  Keeps(ModelIds, before, finalizeRoute(st, d))
<1> DEFINE pinned == persistPinIfNeeded(st, d)
<1>1. SessionInv(ModelIds, st) /\ d.model \in ModelIds \cup {NoModel} /\ "initial" \in PinReason
  BY DEF Keeps, RoutingDecision, PinReason
<1>2. pinned = st \/ pinned = recordPin(st, d.model, "initial")
  BY DEF persistPinIfNeeded
<1> HIDE DEF pinned
<1>3. Keeps(ModelIds, before, pinned)
  BY <1>1, <1>2, RecordPinKeeps DEF Keeps
<1>4. Keeps(ModelIds, pinned, recordSaarTurn(pinned))
  BY <1>3, RecordSaarTurnKeeps DEF Keeps
<1> QED BY <1>3, <1>4 DEF Keeps, finalizeRoute, pinned

LEMMA EndingSteps ==
  ASSUME IInv, NEW r \in Slots, Finalize(r) \/ FallBack(r) \/ StageThrows(r) \/ RouteRejects(r)
  PROVE  IInv'
<1>1. turn[r].at \notin {"free", "queued"}
  BY EventsAssumption DEF Finalize, FallBack, StageThrows, RouteRejects, MayThrow, At, Stage
<1>2. turn[r] \in Turn /\ SessionInv(ModelIds, State(r)) /\ Keeps(ModelIds, State(r), State(r))
  BY <1>1, Context, UnchangedKeeps
<1>3. turn[r].decision \in RoutingDecision /\ buildFallbackDecision(turn[r]) \in RoutingDecision
  BY <1>2, FallbackSound DEF Turn
<1>4. Keeps(ModelIds, State(r), AfterThrow(r))
  BY <1>1, <1>2, PinAnswerSound DEF AfterThrow, Sound
<1>5. CASE Finalize(r)
  BY <1>1, <1>2, <1>3, <1>5, FinalizeKeeps, EndStep DEF Finalize
<1>6. CASE FallBack(r)
  BY <1>1, <1>2, <1>3, <1>6, FinalizeKeeps, EndStep DEF FallBack
<1>7. CASE StageThrows(r)
  BY <1>1, <1>3, <1>4, <1>7, FinalizeKeeps, EndStep DEF StageThrows
<1>8. CASE RouteRejects(r)
  BY <1>1, <1>4, <1>8, EndStep DEF RouteRejects
<1> QED BY <1>5, <1>6, <1>7, <1>8

LEMMA StepKeeps ==
  ASSUME IInv, NEW r \in Slots, Step(r)
  PROVE  IInv'
<1>1. CASE HardwareProbe(r)
  <2>1. turn[r].at \in Stage \ {"context_fit", "session_pin"} /\ Pass(r) /\ UNCHANGED <<sess, host>>
    BY <1>1 DEF HardwareProbe, At, Stage
  <2> QED BY <2>1, PassStep
<1>2. CASE LoopEscalationStage(r)
  BY <1>2, EscalationStep
<1>3. CASE TurnEnvelope(r)
  BY <1>3, EnvelopeStep
<1>4. CASE ContextFit(r)
  BY <1>4, FitStep
<1>5. CASE LowIntensity(r)
  BY <1>5, IntensityStep
<1>6. CASE SessionPinStage(r)
  BY <1>6, PinStageStep
<1>7. CASE Triage(r)
  BY <1>7, TriageStep
<1>8. CASE LocalZeroStage(r)
  BY <1>8, LocalZeroStep
<1>9. CASE TriageCloudFallback(r)
  BY <1>9, CloudFallbackStep
<1>10. CASE HydraMatch(r)
  BY <1>10, MatchStep
<1>11. CASE SafeDefaultStage(r)
  BY <1>11, SafeDefaultStep
<1>12. CASE ContextOverflowFallback(r)
  BY <1>12, OverflowStep
<1>13. CASE Finalize(r) \/ FallBack(r) \/ StageThrows(r) \/ RouteRejects(r)
  BY <1>13, EndingSteps
<1> QED BY <1>1, <1>2, <1>3, <1>4, <1>5, <1>6, <1>7, <1>8, <1>9, <1>10, <1>11, <1>12, <1>13 DEF Step

-----------------------------------------------------------------------------
(* Every step of the host and of the queues keeps it too.                   *)

LEMMA StartKeeps ==
  ASSUME IInv, NEW p \in Pipelines, Start(p)
  PROVE  IInv'
<1> DEFINE waiting == queue[p]
           r == Head(waiting)
           c == [turn[r] EXCEPT !.at = "hardware_probe"]
<1>1. waiting \in Seq(Slots) /\ waiting # <<>>
  BY DEF Start, IInv, Queues
<1>2. r \in Slots /\ 1 \in DOMAIN waiting /\ r = waiting[1]
  BY <1>1
<1>3. turn[r].at = "queued"
  BY <1>2 DEF IInv, Queues
<1>4. turn[r] \in Turn /\ TurnInv(turn[r], started)
  BY <1>2, <1>3, Context
<1>5. /\ turn' = [turn EXCEPT ![r] = c] /\ queue' = [queue EXCEPT ![p] = Tail(waiting)]
      /\ UNCHANGED <<sess, durable, started, flags, fleet, current>>
  BY <1>2 DEF Start, IInv, Turns
<1>6. c \in Turn /\ c.at = "hardware_probe" /\ c.session = turn[r].session /\ c.rejected = turn[r].rejected
      /\ c.req = turn[r].req
  BY <1>4 DEF Turn, Stage
<1>7. TurnInv(c, started)
  <2> HIDE DEF c
  <2> QED BY <1>3, <1>4, <1>6 DEF TurnInv, PastFit, PastPin
<1>8. /\ Tail(waiting) \in Seq(Slots)
      /\ \A i \in DOMAIN Tail(waiting) : i + 1 \in DOMAIN waiting /\ Tail(waiting)[i] = waiting[i + 1] /\ i + 1 # 1
      /\ DOMAIN Tail(waiting) \subseteq Nat
  BY <1>1
<1> HIDE DEF c
<1>9. Hosted' /\ Pins'
  BY <1>5 DEF IInv, Hosted, Pins
<1>10. Turns'
  BY <1>2, <1>5, <1>6, <1>7 DEF IInv, Turns
<1>11. Queues'
  <2>1. queue' \in [Pipelines -> Seq(Slots)]
    BY <1>5, <1>8 DEF IInv, Queues
  <2>2. ASSUME NEW q \in Pipelines, q # p
        PROVE  /\ queue'[q] = queue[q]
               /\ \A i \in DOMAIN queue[q] : queue[q][i] # r /\ queue[q][i] \in Slots
    <3>1. turn[r].pipeline = p
      BY <1>2 DEF IInv, Queues
    <3> QED BY <1>5, <2>2, <3>1 DEF IInv, Queues
  <2>3. queue'[p] = Tail(waiting)
    BY <1>5 DEF IInv, Queues
  <2> HIDE DEF r
  <2>4. \A i \in DOMAIN waiting : i # 1 => waiting[i] # r /\ waiting[i] \in Slots
    BY <1>2 DEF IInv, Queues
  <2>5. \A i \in DOMAIN waiting : turn[waiting[i]].at = "queued" /\ turn[waiting[i]].pipeline = p
    BY DEF IInv, Queues
  <2>6. \A i, j \in DOMAIN waiting : waiting[i] = waiting[j] => i = j
    BY DEF IInv, Queues
  <2>7. \A x \in Slots : x # r => turn'[x] = turn[x]
    BY <1>5 DEF IInv, Turns
  <2>8. \A i \in DOMAIN Tail(waiting) :
          turn'[Tail(waiting)[i]].at = "queued" /\ turn'[Tail(waiting)[i]].pipeline = p
    BY <1>8, <2>4, <2>5, <2>7
  <2>9. \A i, j \in DOMAIN Tail(waiting) : Tail(waiting)[i] = Tail(waiting)[j] => i = j
    <3> SUFFICES ASSUME NEW i \in DOMAIN Tail(waiting), NEW j \in DOMAIN Tail(waiting),
                        Tail(waiting)[i] = Tail(waiting)[j]
                 PROVE  i = j
      OBVIOUS
    <3>1. i + 1 \in DOMAIN waiting /\ j + 1 \in DOMAIN waiting /\ waiting[i + 1] = waiting[j + 1]
          /\ i \in Nat /\ j \in Nat
      BY <1>8
    <3>2. i + 1 = j + 1
      BY <2>6, <3>1
    <3> QED BY <3>1, <3>2
  <2> HIDE DEF waiting
  <2>10. \A q \in Pipelines : q # p =>
           /\ \A i \in DOMAIN queue'[q] : turn'[queue'[q][i]].at = "queued" /\ turn'[queue'[q][i]].pipeline = q
           /\ \A i, j \in DOMAIN queue'[q] : queue'[q][i] = queue'[q][j] => i = j
    BY <2>2, <2>7 DEF IInv, Queues
  <2> QED BY <2>1, <2>3, <2>8, <2>9, <2>10 DEF Queues
<1> QED BY <1>9, <1>10, <1>11 DEF IInv

LEMMA SubmitKeeps ==
  ASSUME IInv, NEW r \in Slots, NEW s \in Sessions, NEW q \in Requests, Submit(r, s, q)
  PROVE  IInv'
<1>1. PICK excluded \in {{}, {m \in fleet : q.replayRisk /\ IsGoogle(m)}} :
        turn' = [turn EXCEPT ![r] = [Idle EXCEPT !.at = "queued", !.session = s, !.pipeline = current,
                                                 !.req = AskedWith(q, flags[s]), !.full = fleet \ excluded]]
  BY DEF Submit
<1> DEFINE req == AskedWith(q, flags[s])
           full == fleet \ excluded
           c == [Idle EXCEPT !.at = "queued", !.session = s, !.pipeline = current,
                             !.req = req, !.full = full]
<1>2. /\ s \in started /\ turn[r].at = "free"
      /\ queue' = [queue EXCEPT ![current] = Append(queue[current], r)]
      /\ flags' = [flags EXCEPT ![s] = NoFlags]
      /\ UNCHANGED <<sess, durable, started, fleet, current>>
  BY DEF Submit, At
<1>3. req \in RouteRequest
  <2>1. q \in Request /\ flags[s] \in [compaction : BOOLEAN, force : Models \cup {NoModel}]
    BY RequestsAssumption DEF IInv, Hosted
  <2> QED BY <2>1 DEF AskedWith, Request, RouteRequest
<1>4. full \in SUBSET Models /\ current \in Pipelines
  BY DEF IInv, Hosted
<1>5. c \in Turn /\ c.at = "queued" /\ c.session = s /\ c.pipeline = current /\ c.rejected = {} /\ c.req = req
  <2> HIDE DEF req, full
  <2> QED BY <1>3, <1>4, IdleTurn DEF Turn, Idle
<1>6. turn' = [turn EXCEPT ![r] = c]
  BY <1>1
<1> HIDE DEF c, req, full
<1>7. TurnInv(c, started)
  BY <1>2, <1>5 DEF TurnInv, PastFit, PastPin
<1>8. Hosted'
  BY <1>2 DEF IInv, Hosted, NoFlags
<1>9. Pins'
  BY <1>2 DEF IInv, Pins
<1>10. Turns'
  BY <1>2, <1>5, <1>6, <1>7 DEF IInv, Turns
<1>11. Queues'
  <2> DEFINE old == queue[current]
             new == Append(old, r)
  <2>1. old \in Seq(Slots)
    BY <1>4 DEF IInv, Queues
  <2>2. /\ new \in Seq(Slots) /\ Len(old) \in Nat /\ DOMAIN new = 1 .. Len(old) + 1 /\ DOMAIN old = 1 .. Len(old)
        /\ \A i \in DOMAIN old : new[i] = old[i]
        /\ new[Len(old) + 1] = r
    BY <2>1
  <2>3. \A p \in Pipelines : \A i \in DOMAIN queue[p] :
          queue[p][i] \in Slots /\ queue[p][i] # r /\ turn'[queue[p][i]] = turn[queue[p][i]]
    BY <1>2, <1>6 DEF IInv, Queues, Turns
  <2>4. queue'[current] = new /\ \A p \in Pipelines : p # current => queue'[p] = queue[p]
    BY <1>2, <1>4 DEF IInv, Queues
  <2>5. queue' \in [Pipelines -> Seq(Slots)]
    BY <1>2, <1>4, <2>2 DEF IInv, Queues
  <2>6. turn'[r] = c
    BY <1>6 DEF IInv, Turns
  <2>7. /\ \A i \in DOMAIN old : turn[old[i]].at = "queued" /\ turn[old[i]].pipeline = current
        /\ \A i, j \in DOMAIN old : old[i] = old[j] => i = j
        /\ \A i \in DOMAIN old : old[i] # r /\ turn'[old[i]] = turn[old[i]]
    BY <1>4, <2>3 DEF IInv, Queues
  <2> HIDE DEF old, new
  <2>8. \A i \in DOMAIN new : i \in DOMAIN old \/ i = Len(old) + 1
    BY <2>2
  <2>9. \A i \in DOMAIN new : turn'[new[i]].at = "queued" /\ turn'[new[i]].pipeline = current
    BY <1>5, <2>2, <2>6, <2>7, <2>8
  <2>10. \A i, j \in DOMAIN new : new[i] = new[j] => i = j
    BY <2>2, <2>7, <2>8
  <2>11. \A p \in Pipelines : p # current =>
           /\ \A i \in DOMAIN queue'[p] : turn'[queue'[p][i]].at = "queued" /\ turn'[queue'[p][i]].pipeline = p
           /\ \A i, j \in DOMAIN queue'[p] : queue'[p][i] = queue'[p][j] => i = j
    BY <2>3, <2>4 DEF IInv, Queues
  <2>12. current' = current
    BY <1>2
  <2> QED BY <2>4, <2>5, <2>9, <2>10, <2>11 DEF Queues
<1> QED BY <1>8, <1>9, <1>10, <1>11 DEF IInv

(* An event that touches no turn and no queue, and at most one session.     *)
LEMMA SessionEvent ==
  ASSUME IInv, NEW s \in Sessions, UNCHANGED <<host, turn>>,
         NEW st, Keeps(ModelIds, sess[s], st), st.pin = sess[s].pin \/ Synced(st),
         sess' = [sess EXCEPT ![s] = st]
  PROVE  IInv'
<1>1. Hosted' /\ Turns' /\ Queues'
  BY DEF IInv, Hosted, Turns, Queues, host
<1>2. Pins'
  <2>1. SessionInv(ModelIds, st) /\ st \in SessionState(ModelIds)
    BY DEF Keeps, SessionInv
  <2>2. sess'[s] = st /\ \A x \in Sessions : x # s => sess'[x] = sess[x]
    BY DEF IInv, Pins
  <2>3. Synced(st) \/ (s \notin started /\ st.pin = NoPin)
    BY DEF IInv, Pins, Keeps
  <2> QED BY <2>1, <2>2, <2>3 DEF IInv, Pins, host
<1> QED BY <1>1, <1>2 DEF IInv

LEMMA FlagEvent ==
  ASSUME IInv, UNCHANGED <<sess, durable, started, fleet, current, queue, turn>>,
         flags' \in [Sessions -> [compaction : BOOLEAN, force : Models \cup {NoModel}]]
  PROVE  IInv'
BY DEF IInv, Hosted, Pins, Turns, Queues

LEMMA SessionStartKeeps ==
  ASSUME IInv, NEW s \in Sessions, SessionStart(s)
  PROVE  IInv'
<1> DEFINE st == restoreSessionPin(sess[s])
<1>1. /\ sess' = [sess EXCEPT ![s] = st] /\ started' = started \cup {s}
      /\ UNCHANGED <<durable, flags, fleet, current, queue, turn>>
  BY DEF SessionStart, IInv, Pins
<1>2. SessionInv(ModelIds, sess[s]) /\ (Synced(sess[s]) \/ sess[s].pin = NoPin)
  BY DEF IInv, Pins
<1>3. SessionInv(ModelIds, st) /\ Synced(st) /\ st \in SessionState(ModelIds)
  BY <1>2, RestoreKeeps DEF SessionInv
<1> HIDE DEF st
<1>4. Hosted' /\ Queues'
  BY <1>1 DEF IInv, Hosted, Queues
<1>5. Pins'
  <2>1. sess'[s] = st /\ \A x \in Sessions : x # s => sess'[x] = sess[x]
    BY <1>1 DEF IInv, Pins
  <2> QED BY <1>1, <1>3, <2>1 DEF IInv, Pins
<1>6. Turns'
  BY <1>1 DEF IInv, Turns, TurnInv
<1> QED BY <1>4, <1>5, <1>6 DEF IInv

LEMMA SessionShutdownKeeps ==
  ASSUME IInv, NEW s \in Sessions, SessionShutdown(s)
  PROVE  IInv'
<1>1. /\ started' = started \ {s} /\ flags' = [flags EXCEPT ![s] = NoFlags] /\ InFlight(s) = {} /\ s \in started
      /\ UNCHANGED <<sess, durable, fleet, current, queue, turn>>
  BY DEF SessionShutdown
<1>2. Hosted' /\ Queues'
  BY <1>1 DEF IInv, Hosted, Queues, NoFlags
<1>3. Pins'
  BY <1>1 DEF IInv, Pins
<1>4. Turns'
  <2>1. \A r \in Slots : turn[r].at # "free" => turn[r].session # s
    BY <1>1 DEF InFlight
  <2> QED BY <1>1, <2>1 DEF IInv, Turns, TurnInv
<1> QED BY <1>2, <1>3, <1>4 DEF IInv

LEMMA RestartKeeps ==
  ASSUME IInv, Restart
  PROVE  IInv'
<1>1. /\ sess' = [s \in Sessions |-> [NewSession EXCEPT !.row = durable[s]]]
      /\ started' = {} /\ flags' = [s \in Sessions |-> NoFlags]
      /\ queue' = [p \in Pipelines |-> <<>>] /\ turn' = [r \in Slots |-> Idle]
      /\ UNCHANGED <<durable, fleet, current>>
  BY DEF Restart
<1>2. Hosted'
  BY <1>1 DEF IInv, Hosted, NoFlags
<1>3. Pins'
  <2>1. \A s \in Sessions : durable[s] \in SessionPin(ModelIds)
    BY DEF IInv, Hosted
  <2>2. \A row \in SessionPin(ModelIds) :
          /\ SessionInv(ModelIds, [NewSession EXCEPT !.row = row])
          /\ [NewSession EXCEPT !.row = row].pin = NoPin
          /\ [NewSession EXCEPT !.row = row] \in SessionState(ModelIds)
    BY NewSessionInv DEF SessionInv, SessionState, NewSession, IsTierPinned
  <2> QED BY <1>1, <2>1, <2>2 DEF Pins
<1>4. Turns'
  BY <1>1, IdleTurn DEF Turns
<1>5. Queues'
  BY <1>1 DEF Queues
<1> QED BY <1>2, <1>3, <1>4, <1>5 DEF IInv

LEMMA HostKeeps ==
  ASSUME IInv, HostStep
  PROVE  IInv'
<1>1. ASSUME NEW s \in Sessions, NEW r \in Slots, NEW q \in Requests, Submit(r, s, q) PROVE IInv'
  BY <1>1, SubmitKeeps
<1>2. ASSUME NEW s \in Sessions, NEW m \in ForceTargets, SetForceModel(s, m) PROVE IInv'
  <2>1. flags' \in [Sessions -> [compaction : BOOLEAN, force : Models \cup {NoModel}]]
    BY <1>2, TargetsAssumption DEF SetForceModel, IInv, Hosted
  <2> QED BY <1>2, <2>1, FlagEvent DEF SetForceModel
<1>3. ASSUME NEW s \in Sessions, AbortBeforeDispatch(s) \/ MarkCompaction(s) PROVE IInv'
  <2> DEFINE Flags == [compaction : BOOLEAN, force : Models \cup {NoModel}]
             marked == [flags[s] EXCEPT !.compaction = TRUE]
  <2>2. flags \in [Sessions -> Flags] /\ NoFlags \in Flags /\ marked \in Flags
    BY DEF NoFlags, IInv, Hosted
  <2>3. flags' = [flags EXCEPT ![s] = NoFlags] \/ flags' = [flags EXCEPT ![s] = marked]
    BY <1>3 DEF AbortBeforeDispatch, MarkCompaction, IInv, Hosted
  <2> HIDE DEF marked, Flags
  <2>4. flags' \in [Sessions -> Flags]
    BY <2>2, <2>3
  <2>1. flags' \in [Sessions -> [compaction : BOOLEAN, force : Models \cup {NoModel}]]
    BY <2>4 DEF Flags
  <2> QED BY <1>3, <2>1, FlagEvent DEF AbortBeforeDispatch, MarkCompaction
<1>4. ASSUME NEW s \in Sessions, Unpin(s) PROVE IInv'
  <2>1. sess' = [sess EXCEPT ![s] = breakPin(sess[s])] /\ UNCHANGED <<host, turn>>
    BY <1>4 DEF Unpin, IInv, Pins
  <2>2. Keeps(ModelIds, sess[s], breakPin(sess[s])) /\ Synced(breakPin(sess[s]))
    BY BreakPinKeeps DEF Keeps, IInv, Pins
  <2> QED BY <2>1, <2>2, SessionEvent
<1>5. ASSUME NEW s \in Sessions, GoIdle(s) PROVE IInv'
  <2> DEFINE saar == [sess[s].saar EXCEPT !.idle = TRUE]
             st == [sess[s] EXCEPT !.saar = saar]
  <2>1. SessionInv(ModelIds, sess[s]) /\ sess[s] \in SessionState(ModelIds)
    BY DEF IInv, Pins
  <2>2. saar \in Saar
    BY <2>1, Parts DEF Saar
  <2>3. sess' = [sess EXCEPT ![s] = st] /\ UNCHANGED <<host, turn>>
    BY <1>5 DEF GoIdle, IInv, Pins
  <2> HIDE DEF saar
  <2>4. Keeps(ModelIds, sess[s], st) /\ st.pin = sess[s].pin
    BY <2>1, <2>2, SaarUpdate DEF SessionState
  <2> HIDE DEF st
  <2> QED BY <2>3, <2>4, SessionEvent
<1>6. ASSUME NEW s \in Sessions, SessionStart(s) \/ SessionShutdown(s) PROVE IInv'
  BY <1>6, SessionStartKeeps, SessionShutdownKeeps
<1>7. CASE RebuildFleet
  BY <1>7, ScopesAssumption DEF RebuildFleet, IInv, Hosted, Pins, Turns, Queues
<1>8. CASE FlushPins
  <2>1. \A s \in Sessions : sess[s].row \in SessionPin(ModelIds)
    BY Parts DEF IInv, Pins
  <2> QED BY <1>8, <2>1 DEF FlushPins, IInv, Hosted, Pins, Turns, Queues
<1>9. CASE Restart
  BY <1>9, RestartKeeps
<1> QED BY <1>1, <1>2, <1>3, <1>4, <1>5, <1>6, <1>7, <1>8, <1>9 DEF HostStep

LEMMA NextInv == IInv /\ [Next]_vars => IInv'
<1> SUFFICES ASSUME IInv, [Next]_vars PROVE IInv'
  OBVIOUS
<1>1. CASE HostStep
  BY <1>1, HostKeeps
<1>2. CASE \E p \in Pipelines : Start(p)
  BY <1>2, StartKeeps
<1>3. CASE \E r \in Slots : Step(r)
  BY <1>3, StepKeeps
<1>4. CASE UNCHANGED vars
  BY <1>4 DEF vars, IInv, Hosted, Pins, Turns, Queues
<1> QED BY <1>1, <1>2, <1>3, <1>4 DEF Next

-----------------------------------------------------------------------------
(* Theorems.                                                                *)

THEOREM Invariance == Spec => []IInv
<1>1. Init => IInv
  BY InitInv
<1>2. IInv /\ [Next]_vars => IInv'
  BY NextInv
<1> QED BY <1>1, <1>2, PTL DEF Spec

(* Every variable keeps its shape, whatever the fleets and the requests.    *)
THEOREM TypeCorrect == Spec => []TypeOK
<1>1. IInv => TypeOK
  BY DEF IInv, Hosted, Pins, Turns, Queues, TypeOK
<1> QED BY <1>1, Invariance, PTL

(* A started session's pin is what a restart would read.                    *)
THEOREM WriteThrough == Spec => []PinWriteThrough
<1>1. IInv => PinWriteThrough
  BY DEF IInv, Hosted, Pins, Synced, PinWriteThrough
<1> QED BY <1>1, Invariance, PTL

(* Whatever the stage that decided: a healthy model of the turn's fleet,    *)
(* which the input fits unless turn_envelope decided or the user did.       *)
THEOREM SoundDecisions == Spec => []DecisionSound
<1>1. IInv => DecisionSound
  BY DEF IInv, Turns, TurnInv, Sensible, DecisionSound, At
<1> QED BY <1>1, Invariance, PTL

(* Where a decision can come from.                                          *)
LEMMA StageDecides ==
  ASSUME IInv, NEW r \in Slots, Step(r), Decides(r)
  PROVE  \/ At(r, "turn_envelope") /\ turn'[r].decision = EnvelopeDecision(turn[r], State(r))
              /\ EnvelopeDecision(turn[r], State(r)).model # NoModel
         \/ At(r, "session_pin") /\ turn'[r].decision = PinDecision(r) /\ PinDecision(r) # NoDecision
              /\ sess'[turn[r].session] = PinAnswer(r).state
         \/ turn[r].at \in PastPin
<1>1. \A d : Decide(r, d) => turn'[r].decision = d
  BY DEF Decide, IInv, Turns, Turn
<1>2. Pass(r) => turn'[r].at = NextStage[turn[r].at]
  BY DEF Pass, IInv, Turns, Turn
<1>3. turn[r].at # "decided" /\ turn[r] \in Turn /\ turn'[r].at = "decided"
  BY DEF Decides, At, IInv, Turns
<1>4. ASSUME NEW s \in {"hardware_probe", "loop_escalation", "turn_envelope"}, At(r, s)
      PROVE  ~Pass(r)
  BY <1>2, <1>3, <1>4 DEF At, NextStage
<1>5. CASE HardwareProbe(r) \/ LoopEscalationStage(r)
  BY <1>4, <1>5 DEF HardwareProbe, LoopEscalationStage
<1>6. CASE TurnEnvelope(r)
  BY <1>1, <1>4, <1>6 DEF TurnEnvelope, DecideOrPass
<1>7. CASE ContextFit(r)
  <2>1. turn'[r].at = NextStage[turn[r].at]
    BY <1>3, <1>7 DEF ContextFit, IInv, Turns, Turn
  <2> QED BY <1>3, <1>7, <2>1 DEF ContextFit, At, NextStage
<1>8. CASE LowIntensity(r)
  <2>1. turn'[r].at = NextStage[turn[r].at]
    BY <1>3, <1>8 DEF LowIntensity, IInv, Turns, Turn
  <2> QED BY <1>3, <1>8, <2>1 DEF LowIntensity, At, NextStage
<1>9. CASE SessionPinStage(r)
  <2>1. turn[r].session \in Sessions
    BY <1>9, Context DEF SessionPinStage, At
  <2>2. sess'[turn[r].session] = PinAnswer(r).state
    BY <1>9, <2>1 DEF SessionPinStage, IInv, Pins
  <2>3. CASE PinDecision(r) # NoDecision
    BY <1>1, <1>9, <2>2, <2>3 DEF SessionPinStage
  <2>4. CASE PinDecision(r) = NoDecision
    <3>1. turn'[r].at = NextStage[turn[r].at]
      BY <1>3, <1>9, <2>4 DEF SessionPinStage, IInv, Turns, Turn
    <3> QED BY <1>3, <1>9, <3>1 DEF SessionPinStage, At, NextStage
  <2> QED BY <2>3, <2>4
<1>10. CASE Triage(r) \/ LocalZeroStage(r) \/ TriageCloudFallback(r) \/ HydraMatch(r)
            \/ SafeDefaultStage(r) \/ ContextOverflowFallback(r)
  BY <1>10 DEF Triage, LocalZeroStage, TriageCloudFallback, HydraMatch, SafeDefaultStage,
               ContextOverflowFallback, At, PastPin
<1>11. CASE Finalize(r) \/ FallBack(r) \/ StageThrows(r) \/ RouteRejects(r)
  <2>1. turn'[r] = Idle
    BY <1>11 DEF Finalize, FallBack, StageThrows, RouteRejects, Ends, IInv, Turns
  <2> QED BY <1>3, <2>1 DEF Idle
<1> QED BY <1>5, <1>6, <1>7, <1>8, <1>9, <1>10, <1>11 DEF Step

(* Nothing but a step of the turn decides it.                               *)
LEMMA OnlyStepsDecide ==
  ASSUME IInv, [Next]_vars, NEW r \in Slots, Decides(r)
  PROVE  Step(r)
<1>1. turn'[r] # turn[r] /\ turn'[r].at = "decided" /\ turn \in [Slots -> Turn]
  BY DEF Decides, At, IInv, Turns
<1>2. ASSUME NEW x \in Slots, x # r, NEW c, turn' = [turn EXCEPT ![x] = c] PROVE FALSE
  BY <1>1, <1>2
<1>3. ASSUME NEW x \in Slots, Step(x), x # r PROVE FALSE
  <2>1. turn'[r] = turn[r]
    BY <1>1, <1>3
       DEF Step, HardwareProbe, LoopEscalationStage, TurnEnvelope, ContextFit, LowIntensity,
           SessionPinStage, Triage, LocalZeroStage, TriageCloudFallback, HydraMatch, SafeDefaultStage,
           ContextOverflowFallback, Finalize, FallBack, StageThrows, RouteRejects, Ends, Pass, Decide,
           DecideOrPass
  <2> QED BY <1>1, <2>1
<1>4. ASSUME NEW p \in Pipelines, Start(p) PROVE FALSE
  <2> DEFINE h == Head(queue[p])
             c == [turn[h] EXCEPT !.at = "hardware_probe"]
  <2>1. turn' = [turn EXCEPT ![h] = c] /\ turn[h] \in Turn /\ h \in Slots
    BY <1>1, <1>4 DEF Start, IInv, Queues
  <2>2. c.at = "hardware_probe"
    BY <2>1 DEF Turn
  <2> HIDE DEF h, c
  <2> QED BY <1>1, <2>1, <2>2
<1>5. ASSUME NEW s \in Sessions, NEW x \in Slots, NEW q \in Requests, Submit(x, s, q) PROVE FALSE
  <2>1. PICK excluded \in {{}, {m \in fleet : q.replayRisk /\ IsGoogle(m)}} :
          turn' = [turn EXCEPT ![x] = [Idle EXCEPT !.at = "queued", !.session = s, !.pipeline = current,
                                                   !.req = AskedWith(q, flags[s]), !.full = fleet \ excluded]]
    BY <1>5 DEF Submit
  <2>2. x = r
    BY <1>1, <2>1
  <2>3. turn'[r].at = "queued"
    BY <1>1, <2>1, <2>2 DEF Idle
  <2> QED BY <1>1, <2>3
<1>6. ASSUME Restart PROVE FALSE
  BY <1>1, <1>6 DEF Restart, Idle
<1>7. ASSUME UNCHANGED turn PROVE FALSE
  BY <1>1, <1>7
<1>8. ~HostStep
  BY <1>5, <1>6, <1>7 DEF HostStep, SetForceModel, AbortBeforeDispatch, MarkCompaction, Unpin, GoIdle,
                          SessionStart, SessionShutdown, RebuildFleet, FlushPins
<1> QED BY <1>3, <1>4, <1>7, <1>8 DEF Next, vars

(* A forced model answers, or it could not, or the guard or a compaction    *)
(* stood in the way: no stage before session_pin takes the turn.            *)
THEOREM ForcesHonoured == Spec => ForceHonoured
<1> DEFINE Honoured(r) ==
      \/ turn'[r].decision.model = turn[r].req.force
      \/ turn[r].req.force \notin Healthy(turn[r].full)
      \/ IsTierPinned(sess'[turn[r].session])
      \/ turn[r].req.compaction
<1>1. ASSUME IInv, [Next]_vars, NEW r \in Slots, Decides(r), Forced(turn[r].req)
      PROVE  Honoured(r)
  <2>1. Step(r)
    BY <1>1, OnlyStepsDecide
  <2>2. turn[r].at # "free"
    BY <2>1, EventsAssumption
       DEF Step, HardwareProbe, LoopEscalationStage, TurnEnvelope, ContextFit, LowIntensity,
           SessionPinStage, Triage, LocalZeroStage, TriageCloudFallback, HydraMatch, SafeDefaultStage,
           ContextOverflowFallback, Finalize, FallBack, StageThrows, RouteRejects, MayThrow, At, Stage
  <2>3. turn[r] \in Turn /\ TurnInv(turn[r], started)
    BY <1>1, <2>2, Context
  <2>4. CASE At(r, "turn_envelope") /\ EnvelopeDecision(turn[r], State(r)).model # NoModel
    BY <1>1, <2>3, <2>4, EnvelopeSound DEF EnvelopeApplies
  <2>5. CASE /\ At(r, "session_pin") /\ turn'[r].decision = PinDecision(r) /\ PinDecision(r) # NoDecision
             /\ sess'[turn[r].session] = PinAnswer(r).state
    <3>1. Fleet(turn[r]) = turn[r].full
      BY <1>1, <2>3 DEF TurnInv, Fleet
    <3>2. PinAnswer(r).action = "use_pin" => PinDecision(r).model = PinAnswer(r).model
      BY <1>1, <2>2, <2>5, PinDecisionSound DEF Usable
    <3>3. ~turn[r].req.compaction =>
            \/ IsTierPinned(PinAnswer(r).state)
            \/ PinAnswer(r).action = "use_pin" /\ PinAnswer(r).model = turn[r].req.force
            \/ turn[r].req.force \notin Healthy(Fleet(turn[r]))
      BY <1>1, <2>2, PinAnswerSound
    <3> QED BY <2>5, <3>1, <3>2, <3>3
  <2>6. CASE turn[r].at \in PastPin
    BY <1>1, <2>3, <2>6 DEF TurnInv
  <2> QED BY <1>1, <2>1, <2>4, <2>5, <2>6, StageDecides
<1>2. IInv /\ [Next]_vars =>
        [\A r \in Slots : Decides(r) /\ Forced(turn[r].req) => Honoured(r)]_vars
  BY <1>1
<1> QED BY <1>2, Invariance, PTL DEF Spec, ForceHonoured

(* A warm, usable pin is left for a cheaper model, for planning while the   *)
(* buffer lasts, or up to the candidate.                                    *)
LEMMA EnvelopePays ==
  ASSUME NEW c \in Turn, NEW st, PinnedIn(st, Fleet(c)), EnvelopeDecision(c, st).model # NoModel,
         EnvelopeDecision(c, st).model # st.pin.model
  PROVE  \/ Pays(EnvelopeDecision(c, st).model, st.pin.model)
         \/ c.req.kind = "planning" /\ isSaarPlanningBufferActive(st)
<1> DEFINE m == EnvelopeTarget(c)
<1>1. MaySwitch(c, st) /\ EnvelopeDecision(c, st).model = m /\ m # NoModel
  BY EnvelopeSound
<1>2. Switches(c, st)
  BY <1>1 DEF Switches
<1>3. Fleet(c) \in SUBSET Models /\ c.req.tokens \in Nat
  BY DEF Turn, Fleet, RouteRequest
<1>4. m \in Models /\ st.pin.model \in Models
  BY <1>1, <1>3, EnvelopeTargetMember, HealthyMembers DEF PinnedIn
<1>5. ASSUME evaluateModelSwitchBreakeven(st.pin.model, m, c.req.tokens, QuotaUpliftPct)
      PROVE  Profile[m].cost < Profile[st.pin.model].cost
  <2> HIDE DEF m
  <2> DEFINE pinned == st.pin.model
             t == c.req.tokens
  <2>1. pinned \in Models /\ m \in Models /\ pinned # m /\ t \in Nat /\ QuotaUpliftPct \in Nat
        /\ evaluateModelSwitchBreakeven(pinned, m, t, QuotaUpliftPct)
    BY <1>1, <1>3, <1>4, <1>5, UpliftAssumption
  <2> HIDE DEF pinned, t
  <2>2. Profile[m].cost < Profile[pinned].cost
    BY <2>1, BreakevenPays
  <2> QED BY <2>2 DEF pinned
<1> QED BY <1>1, <1>2, <1>5 DEF MaySwitch, Pays

THEOREM OnlyPayingSwitches == Spec => SwitchesPay
<1> DEFINE Warm(r) ==
      /\ Decides(r) /\ turn[r].at \in {"turn_envelope", "session_pin"}
      /\ ~Forced(turn[r].req) /\ ~turn[r].req.compaction /\ ~State(r).saar.idle
      /\ PinnedIn(State(r), Fleet(turn[r])) /\ ~ContextOverflows(State(r), turn[r].req, Fleet(turn[r]))
      /\ ~IsTierPinned(sess'[turn[r].session])
      /\ turn'[r].decision.model # State(r).pin.model
           Worth(r) ==
      \/ Pays(turn'[r].decision.model, State(r).pin.model)
      \/ turn[r].req.kind = "planning" /\ isSaarPlanningBufferActive(State(r))
      \/ turn[r].at = "session_pin" /\ isTierUpgrade(State(r).pin.model, turn'[r].decision.model)
           /\ turn'[r].decision.model = enrichRequestWithSaarCandidate(turn[r]).candidate
<1>1. ASSUME IInv, [Next]_vars, NEW r \in Slots, Warm(r)
      PROVE  Worth(r)
  <2>1. Step(r) /\ turn[r].at # "free"
    BY <1>1, OnlyStepsDecide
  <2>2. turn[r] \in Turn
    BY <1>1, <2>1, Context
  <2>3. CASE At(r, "turn_envelope") /\ turn'[r].decision = EnvelopeDecision(turn[r], State(r))
             /\ EnvelopeDecision(turn[r], State(r)).model # NoModel
    BY <1>1, <2>2, <2>3, EnvelopePays
  <2>4. CASE /\ At(r, "session_pin") /\ turn'[r].decision = PinDecision(r) /\ PinDecision(r) # NoDecision
             /\ sess'[turn[r].session] = PinAnswer(r).state
    <3>1. PinAnswer(r).action \in Usable /\ PinDecision(r).model = PinAnswer(r).model
      BY <1>1, <2>1, <2>4, PinDecisionSound, PinAnswerSound
    <3>2. LeavesWell(State(r), enrichRequestWithSaarCandidate(turn[r]), PinAnswer(r))
      BY <1>1, <2>1, <2>4, PinAnswerSound
    <3> QED BY <1>1, <2>4, <3>1, <3>2 DEF LeavesWell, Leaves, Pays, At
  <2>5. turn[r].at \notin PastPin
    BY <1>1 DEF PastPin
  <2> QED BY <1>1, <2>1, <2>3, <2>4, <2>5, StageDecides
<1>2. IInv /\ [Next]_vars => [\A r \in Slots : Warm(r) => Worth(r)]_vars
  BY <1>1
<1>3. [\A r \in Slots : Warm(r) => Worth(r)]_vars =>
        [\A r \in Slots :
           LET c == turn[r]  st == State(r)  d == turn'[r].decision IN
           /\ Decides(r) /\ c.at \in {"turn_envelope", "session_pin"}
           /\ ~Forced(c.req) /\ ~c.req.compaction /\ ~st.saar.idle
           /\ PinnedIn(st, Fleet(c)) /\ ~ContextOverflows(st, c.req, Fleet(c))
           /\ ~IsTierPinned(sess'[c.session])
           /\ d.model # st.pin.model
           => \/ Pays(d.model, st.pin.model)
              \/ c.req.kind = "planning" /\ isSaarPlanningBufferActive(st)
              \/ c.at = "session_pin" /\ isTierUpgrade(st.pin.model, d.model)
                   /\ d.model = enrichRequestWithSaarCandidate(c).candidate]_vars
  OBVIOUS
<1> QED BY <1>2, <1>3, Invariance, PTL DEF Spec, SwitchesPay

-----------------------------------------------------------------------------
(* What moves a pin.                                                        *)

(* Why a lookup may leave a session with another pin.                       *)
AnswerMoves(before, req, pool, new) ==
  LET m == new.pin.model IN
  \/ req.compaction
  \/ Forced(req) /\ m = req.force
  \/ ~PinnedIn(before, pool) \/ ContextOverflows(before, req, pool)
  \/ before.saar.idle
  \/ IsTierPinned(new) /\ Profile[m].tier = new.flip.pinned
  \/ m = NoModel /\ PinnedIn(before, pool) /\ req.candidate \in pool
       /\ Pays(req.candidate, before.pin.model)
       /\ Profile[req.candidate].provider # Profile[before.pin.model].provider
  \/ m = req.candidate /\ isTierUpgrade(before.pin.model, m)
       /\ isToolLoopTurn(req.kind) /\ shouldHardLock(before)

(* What the decision made of an answer says of the pin: it is where the     *)
(* answer left it, or it is gone.                                           *)
Matches(a) ==
  /\ a.action \in {"break", "no_pin"} => a.state.pin = NoPin
  /\ a.action = "use_pin" /\ a.reason = "saar_tier_upgrade" => a.state.pin.model = a.model
  /\ a.action = "saar_route" => a.reason = "saar_buffer_active"
  /\ a.action = "sub_route" => a.reason = "tool_result_sub_route"
  /\ a.action = "force_rejected" => a.reason \in {"force_rejected_not_in_fleet", "force_rejected_unhealthy"}

LEMMA BreaksMatch ==
  ASSUME NEW Ids, NEW st, SessionInv(Ids, st), NEW why, NEW pool
  PROVE  /\ Matches(Break(st, why)) /\ Matches(NoPinLeft(st, why))
         /\ Break(st, why).state = breakPin(st) /\ NoPinLeft(st, why).state = breakPin(st)
         /\ breakPin(st).pin = NoPin /\ NoPin.model = NoModel
BY SharedAnswer, BreakPinKeeps DEF Break, NoPinLeft, Matches, NoPin

LEMMA UsePinMatches ==
  ASSUME NEW Ids, NEW st, SessionInv(Ids, st), NEW pool
  PROVE  /\ Matches(UsePin(st, pool, "session_pinned"))
         /\ PinnedIn(st, pool) => UsePin(st, pool, "session_pinned").state = st
<1>1. CASE PinnedIn(st, pool)
  <2>1. UsePin(st, pool, "session_pinned") = Answer(st, "use_pin", st.pin.model, "session_pinned")
    BY <1>1 DEF UsePin
  <2> QED BY <2>1, SharedAnswer DEF Matches
<1>2. CASE ~PinnedIn(st, pool)
  BY <1>2, BreaksMatch DEF UsePin
<1> QED BY <1>1, <1>2

LEMMA PolicyMoves ==
  ASSUME NEW Ids, NEW st, SessionInv(Ids, st), NEW req, NEW pool \in SUBSET Models, Models \subseteq Ids
  PROVE  LET a == evaluateSaarPolicy(st, req, pool) IN
         /\ Matches(a)
         /\ a.state.pin.model = st.pin.model \/ AnswerMoves(st, req, pool, a.state)
<1> DEFINE a    == evaluateSaarPolicy(st, req, pool)
           live == touchActivity(st)
           sub  == SubRouteModel(live, req, pool)
<1>1. SessionInv(Ids, live) /\ live.pin = st.pin /\ live.saar.turn = st.saar.turn
  BY TouchActivityKeeps DEF Keeps
<1> HIDE DEF live
<1>2. CASE st.saar.idle
  <2>1. a = NoPinLeft(st, "saar_idle_reopen")
    BY <1>2 DEF evaluateSaarPolicy
  <2> QED BY <1>2, <2>1, BreaksMatch DEF AnswerMoves
<1>3. CASE ~st.saar.idle /\ isInBufferWindow(live) /\ MayUpgrade(live, req, pool)
  <2>1. a = Answer(live, "saar_route", req.candidate, "saar_buffer_active")
    BY <1>3 DEF evaluateSaarPolicy, live
  <2> QED BY <1>1, <2>1, SharedAnswer DEF Matches
<1>4. CASE /\ ~st.saar.idle /\ ~(isInBufferWindow(live) /\ MayUpgrade(live, req, pool))
           /\ shouldHardLock(live) /\ isToolLoopTurn(req.kind) /\ MayUpgrade(live, req, pool)
  <2> DEFINE new == recordPin(live, req.candidate, live.pin.reason)
  <2>1. a = Answer(new, "use_pin", req.candidate, "saar_tier_upgrade")
    BY <1>4 DEF evaluateSaarPolicy, live
  <2>2. req.candidate \in Ids /\ isTierUpgrade(st.pin.model, req.candidate)
    BY <1>1, <1>4, HealthyMembers DEF MayUpgrade
  <2>3. live.pin.reason \in PinReason
    BY <1>1, Parts DEF SessionPin
  <2>4. new.pin.model = req.candidate
    BY <1>1, <2>2, <2>3, RecordPinKeeps
  <2>5. shouldHardLock(st)
    BY <1>1, <1>4 DEF shouldHardLock, isInBufferWindow
  <2> HIDE DEF new
  <2>6. a.state = new /\ a.action = "use_pin" /\ a.model = req.candidate
    BY <2>1, SharedAnswer
  <2>7. AnswerMoves(st, req, pool, a.state)
    BY <1>4, <2>2, <2>4, <2>5, <2>6 DEF AnswerMoves
  <2> QED BY <2>4, <2>6, <2>7 DEF Matches
<1>5. CASE /\ ~st.saar.idle /\ ~(isInBufferWindow(live) /\ MayUpgrade(live, req, pool))
           /\ ~(shouldHardLock(live) /\ isToolLoopTurn(req.kind) /\ MayUpgrade(live, req, pool))
           /\ shouldHardLock(live) /\ HardLocks(live, req, pool)
  <2>1. a = Answer(live, "use_pin", live.pin.model, "saar_hard_lock")
    BY <1>5 DEF evaluateSaarPolicy, live
  <2> QED BY <1>1, <2>1, SharedAnswer DEF Matches
<1>6. CASE /\ ~st.saar.idle /\ ~(isInBufferWindow(live) /\ MayUpgrade(live, req, pool))
           /\ ~(shouldHardLock(live) /\ isToolLoopTurn(req.kind) /\ MayUpgrade(live, req, pool))
           /\ ~(shouldHardLock(live) /\ HardLocks(live, req, pool)) /\ SubRoutes(live, req, pool)
  <2>1. a = Answer(live, "sub_route", sub, "tool_result_sub_route")
    BY <1>6 DEF evaluateSaarPolicy, live
  <2> HIDE DEF sub
  <2> QED BY <1>1, <2>1, SharedAnswer DEF Matches
<1>7. CASE /\ ~st.saar.idle /\ ~(isInBufferWindow(live) /\ MayUpgrade(live, req, pool))
           /\ ~(shouldHardLock(live) /\ isToolLoopTurn(req.kind) /\ MayUpgrade(live, req, pool))
           /\ ~(shouldHardLock(live) /\ HardLocks(live, req, pool)) /\ ~SubRoutes(live, req, pool)
  <2>1. a = UsePin(live, pool, "session_pinned")
    BY <1>7 DEF evaluateSaarPolicy, live
  <2>2. Matches(a) /\ (PinnedIn(live, pool) => a.state = live)
    BY <1>1, <2>1, UsePinMatches
  <2>3. PinnedIn(live, pool) = PinnedIn(st, pool)
    BY <1>1 DEF PinnedIn
  <2> HIDE DEF a
  <2> QED BY <1>1, <2>2, <2>3 DEF AnswerMoves, a
<1> QED BY <1>2, <1>3, <1>4, <1>5, <1>6, <1>7

(* The rules that apply when neither a tier pin nor a force decides.        *)
LEMMA RulesMove ==
  ASSUME NEW Ids, NEW st, SessionInv(Ids, st), NEW req, NEW pool \in SUBSET Models, Models \subseteq Ids,
         req.tokens \in Nat
  PROVE  LET a == IF ~IsPinned(st)                 THEN Answer(st, "no_pin", NoModel, "no_pin")
                  ELSE IF req.compaction           THEN Break(st, "compaction")
                  ELSE IF ContextOverflows(st, req, pool) THEN Break(st, "context_overflow")
                  ELSE IF EconomicsBreaks(st, req, pool)  THEN Break(st, "cache_economics")
                  ELSE IF PinOnlyFallback          THEN UsePin(st, pool, "session_pinned")
                  ELSE evaluateSaarPolicy(st, req, pool)
         IN  /\ Matches(a)
             /\ a.state.pin.model = st.pin.model \/ AnswerMoves(st, req, pool, a.state)
<1> DEFINE a == IF ~IsPinned(st)                 THEN Answer(st, "no_pin", NoModel, "no_pin")
                ELSE IF req.compaction           THEN Break(st, "compaction")
                ELSE IF ContextOverflows(st, req, pool) THEN Break(st, "context_overflow")
                ELSE IF EconomicsBreaks(st, req, pool)  THEN Break(st, "cache_economics")
                ELSE IF PinOnlyFallback          THEN UsePin(st, pool, "session_pinned")
                ELSE evaluateSaarPolicy(st, req, pool)
<1>1. CASE ~IsPinned(st)
  <2>1. a = Answer(st, "no_pin", NoModel, "no_pin")
    BY <1>1
  <2>2. st.pin = NoPin
    BY <1>1 DEF IsPinned
  <2> QED BY <2>1, <2>2, SharedAnswer DEF Matches
<1>2. CASE IsPinned(st) /\ req.compaction
  <2>1. a = Break(st, "compaction")
    BY <1>2
  <2> QED BY <1>2, <2>1, BreaksMatch DEF AnswerMoves
<1>3. CASE IsPinned(st) /\ ~req.compaction /\ ContextOverflows(st, req, pool)
  <2>1. a = Break(st, "context_overflow")
    BY <1>3
  <2> QED BY <1>3, <2>1, BreaksMatch DEF AnswerMoves
<1>4. CASE IsPinned(st) /\ ~req.compaction /\ ~ContextOverflows(st, req, pool) /\ EconomicsBreaks(st, req, pool)
  <2>1. a = Break(st, "cache_economics")
    BY <1>4
  <2>2. /\ st.pin.model \in Models /\ req.candidate \in Models /\ st.pin.model # req.candidate
        /\ evaluateModelSwitchBreakeven(st.pin.model, req.candidate, req.tokens, 0)
        /\ evaluateCacheEconomics(st.pin.model, req.candidate, req.tokens)
    BY <1>4 DEF EconomicsBreaks, PinnedIn, Healthy
  <2>3. Pays(req.candidate, st.pin.model)
    BY <2>2, BreakevenPays DEF Pays
  <2>4. Profile[req.candidate].provider # Profile[st.pin.model].provider
    BY <2>2 DEF evaluateCacheEconomics
  <2>5. Matches(a) /\ a.state.pin.model = NoModel
    BY <2>1, BreaksMatch
  <2>6. PinnedIn(st, pool) /\ req.candidate \in pool
    BY <1>4 DEF EconomicsBreaks, Healthy
  <2> HIDE DEF a
  <2> QED BY <2>3, <2>4, <2>5, <2>6 DEF AnswerMoves, a
<1>5. CASE /\ IsPinned(st) /\ ~req.compaction /\ ~ContextOverflows(st, req, pool)
           /\ ~EconomicsBreaks(st, req, pool) /\ PinOnlyFallback
  <2>1. a = UsePin(st, pool, "session_pinned")
    BY <1>5
  <2>2. Matches(a) /\ (PinnedIn(st, pool) => a.state = st)
    BY <2>1, UsePinMatches
  <2> HIDE DEF a
  <2> QED BY <2>2 DEF AnswerMoves, a
<1>6. CASE /\ IsPinned(st) /\ ~req.compaction /\ ~ContextOverflows(st, req, pool)
           /\ ~EconomicsBreaks(st, req, pool) /\ ~PinOnlyFallback
  <2>1. a = evaluateSaarPolicy(st, req, pool)
    BY <1>6
  <2> QED BY <2>1, PolicyMoves
<1> QED BY <1>1, <1>2, <1>3, <1>4, <1>5, <1>6

LEMMA FlipFlopMoves ==
  ASSUME NEW Ids, NEW st, SessionInv(Ids, st), NEW req, NEW pool \in SUBSET Models, Models \subseteq Ids,
         IsTierPinned(st), FlipFlopModel(st, pool) # NoModel
  PROVE  LET a == resolveFlipFlopPin(st, req, pool) IN
         /\ Matches(a)
         /\ a.state.pin.model = st.pin.model \/ AnswerMoves(st, req, pool, a.state)
<1> DEFINE model  == FlipFlopModel(st, pool)
           onTier == OnTier(Healthy(pool), st.flip.pinned)
           new    == IF model = st.pin.model THEN st ELSE recordPin(st, model, st.pin.reason)
<1>1. resolveFlipFlopPin(st, req, pool) = Answer(new, "use_pin", model, "flip_flop_tier_pinned")
  BY DEF resolveFlipFlopPin
<1>2. model \in Healthy(pool) /\ model \in Ids
  BY FlipFlopModelMember, HealthyMembers
<1>3. Profile[model].tier = st.flip.pinned
  <2>1. onTier \in SUBSET Models
    BY OnTierMembers, HealthyMembers
  <2>2. First(onTier) \in onTier \cup {NoModel}
    BY <2>1, FirstOrNone
  <2>3. model = IF st.pin.model \in onTier THEN st.pin.model ELSE First(onTier)
    BY DEF FlipFlopModel
  <2>4. model \in onTier
    BY <2>2, <2>3
  <2> QED BY <2>4 DEF OnTier
<1> HIDE DEF model
<1>4. st.pin.reason \in PinReason
  BY Parts DEF SessionPin
<1>5. new.pin.model = model /\ new.flip = st.flip
  BY <1>2, <1>4, RecordPinKeeps
<1> HIDE DEF new
<1>6. AnswerMoves(st, req, pool, new)
  BY <1>3, <1>5 DEF AnswerMoves, IsTierPinned
<1> QED BY <1>1, <1>6, SharedAnswer DEF Matches

LEMMA ForceMoves ==
  ASSUME NEW Ids, NEW st, SessionInv(Ids, st), NEW req, NEW pool \in SUBSET Models, Models \subseteq Ids,
         Forced(req)
  PROVE  LET a == resolveForceOverride(st, req, pool) IN
         /\ Matches(a)
         /\ a.state.pin.model = st.pin.model \/ AnswerMoves(st, req, pool, a.state)
<1> DEFINE a == resolveForceOverride(st, req, pool)
<1>1. CASE req.force \in Healthy(pool)
  <2> DEFINE new == recordPin(st, req.force, "user_forced")
  <2>1. a = Answer(new, "use_pin", req.force, "session_pinned")
    BY <1>1 DEF resolveForceOverride
  <2>2. req.force \in Ids
    BY <1>1, HealthyMembers
  <2>3. new.pin.model = req.force
    BY <2>2, RecordPinKeeps DEF PinReason
  <2> HIDE DEF new
  <2>4. AnswerMoves(st, req, pool, new)
    BY <2>3 DEF AnswerMoves
  <2> QED BY <2>1, <2>4, SharedAnswer DEF Matches
<1>2. CASE req.force \notin Healthy(pool)
  <2> DEFINE why == IF req.force \in pool THEN "force_rejected_unhealthy" ELSE "force_rejected_not_in_fleet"
  <2>1. a = Answer(st, "force_rejected", NoModel, why)
    BY <1>2 DEF resolveForceOverride
  <2>2. why \in {"force_rejected_not_in_fleet", "force_rejected_unhealthy"}
    OBVIOUS
  <2> HIDE DEF why
  <2> QED BY <2>1, <2>2, SharedAnswer DEF Matches
<1> QED BY <1>1, <1>2

(* lookupPin moves the pin for a reason, and its answer matches the pin.    *)
LEMMA LookupMoves ==
  ASSUME NEW Ids, NEW before, SessionInv(Ids, before), NEW req, NEW pool \in SUBSET Models,
         Models \subseteq Ids, req.tokens \in Nat
  PROVE  LET a == lookupPin(before, req, pool) IN
         /\ Matches(a)
         /\ a.state.pin.model = before.pin.model \/ AnswerMoves(before, req, pool, a.state)
<1> DEFINE a  == lookupPin(before, req, pool)
           st == observeShadowTier(before, req, pool)
           rules == IF ~IsPinned(st)                 THEN Answer(st, "no_pin", NoModel, "no_pin")
                    ELSE IF req.compaction           THEN Break(st, "compaction")
                    ELSE IF ContextOverflows(st, req, pool) THEN Break(st, "context_overflow")
                    ELSE IF EconomicsBreaks(st, req, pool)  THEN Break(st, "cache_economics")
                    ELSE IF PinOnlyFallback          THEN UsePin(st, pool, "session_pinned")
                    ELSE evaluateSaarPolicy(st, req, pool)
<1>1. SessionInv(Ids, st) /\ st.pin = before.pin /\ st.saar = before.saar
  BY ObserveShadowTierKeeps DEF Keeps
<1>2. a = IF IsTierPinned(st) /\ FlipFlopModel(st, pool) # NoModel
          THEN resolveFlipFlopPin(st, req, pool)
          ELSE IF Forced(req) /\ ~(IsPinned(st) /\ req.compaction)
          THEN resolveForceOverride(st, req, pool) ELSE rules
  BY DEF lookupPin
<1>3. /\ Matches(rules)
      /\ rules.state.pin.model = st.pin.model \/ AnswerMoves(st, req, pool, rules.state)
  BY <1>1, RulesMove
<1> HIDE DEF st, rules
<1>4. \A new : AnswerMoves(st, req, pool, new) => AnswerMoves(before, req, pool, new)
  BY <1>1 DEF AnswerMoves, PinnedIn, ContextOverflows, shouldHardLock, isInBufferWindow
<1>5. /\ Matches(a)
      /\ a.state.pin.model = st.pin.model \/ AnswerMoves(st, req, pool, a.state)
  <2>1. CASE IsTierPinned(st) /\ FlipFlopModel(st, pool) # NoModel
    <3>1. a = resolveFlipFlopPin(st, req, pool)
      BY <1>2, <2>1
    <3> QED BY <1>1, <2>1, <3>1, FlipFlopMoves
  <2>2. CASE ~(IsTierPinned(st) /\ FlipFlopModel(st, pool) # NoModel)
             /\ Forced(req) /\ ~(IsPinned(st) /\ req.compaction)
    <3>1. a = resolveForceOverride(st, req, pool)
      BY <1>2, <2>2
    <3> QED BY <1>1, <2>2, <3>1, ForceMoves
  <2>3. CASE ~(IsTierPinned(st) /\ FlipFlopModel(st, pool) # NoModel)
             /\ ~(Forced(req) /\ ~(IsPinned(st) /\ req.compaction))
    <3>1. a = rules
      BY <1>2, <2>3
    <3> QED BY <1>3, <3>1
  <2> QED BY <2>1, <2>2, <2>3
<1> HIDE DEF a
<1> QED BY <1>1, <1>4, <1>5 DEF a

(* Loop escalation counts, and escalates to a frontier model of the fleet.  *)
LEMMA CountedModel ==
  ASSUME NEW Ids, NEW pin \in SessionPin(Ids), NEW req, NEW pool
  PROVE  /\ evaluateZeroTierObservationalBreak(pin, req).pin.model = pin.model
         /\ FailureVerdict(pin, req, pool).pin.model = pin.model
<1>1. \A signature, carriesOn : Counted(pin, signature, carriesOn).model = pin.model
  BY DEF Counted, SessionPin
<1>2. /\ \A f : [pin EXCEPT !.signature = "zt:unsupported_tool", !.failures = f].model = pin.model
      /\ [pin EXCEPT !.failures = 0, !.signature = NoSignature].model = pin.model
  BY DEF SessionPin
<1> QED BY <1>1, <1>2 DEF evaluateZeroTierObservationalBreak, FailureVerdict, Verdict

LEMMA EscalationMoves ==
  ASSUME NEW Ids, NEW st, SessionInv(Ids, st), NEW req, req.tool \in ToolOutcome,
         NEW pool \in SUBSET Models, Models \subseteq Ids
  PROVE  LET new == evaluateLoopEscalation(st, req, pool) IN
         \/ new.pin.model = st.pin.model
         \/ /\ req.kind = "tool_result" /\ st.pin.reason # "loop_escalation"
            /\ new.pin.reason = "loop_escalation"
            /\ new.pin.model \in OnTier(pool, "frontier-cloud")
<1> DEFINE verdict == IF PinnedTier(st.pin, pool) = "zero-tier"
                      THEN evaluateZeroTierObservationalBreak(st.pin, req)
                      ELSE FailureVerdict(st.pin, req, pool)
           target  == selectEscalationTarget(pool, st.pin.model)
           counted == IF verdict.pin = st.pin THEN st ELSE loadPin(st, verdict.pin)
           moved   == recordPin(breakPin(counted), target, "loop_escalation")
<1>1. st.pin \in SessionPin(Ids) /\ st \in SessionState(Ids)
  BY Parts DEF SessionInv
<1>2. verdict.pin \in SessionPin(Ids) /\ verdict.pin.model = st.pin.model
  BY <1>1, ZeroTierVerdict, FailureVerdictPin, CountedModel
<1>3. target \in OnTier(pool, "frontier-cloud") \cup {NoModel} /\ target \in Ids \cup {NoModel}
  <2> DEFINE choices == OnTier(Healthy(pool), "frontier-cloud") \ {st.pin.model}
  <2>1. choices \subseteq OnTier(pool, "frontier-cloud") /\ choices \in SUBSET Models
    BY HealthyMembers DEF OnTier
  <2>2. First(choices) \in choices \cup {NoModel}
    BY <2>1, FirstOrNone
  <2> QED BY <2>1, <2>2 DEF selectEscalationTarget
<1>4. evaluateLoopEscalation(st, req, pool) =
        IF ~EscalationApplies(st, req) THEN st
        ELSE IF verdict.due /\ target # NoModel THEN moved ELSE counted
  BY DEF evaluateLoopEscalation
<1> HIDE DEF verdict, target
<1>5. SessionInv(Ids, counted) /\ counted.pin.model = st.pin.model
  BY <1>1, <1>2, LoadPinKeeps DEF loadPin, SessionState
<1> HIDE DEF counted
<1>6. SessionInv(Ids, breakPin(counted))
  BY <1>5, BreakPinKeeps
<1>7. moved.pin.model = target /\ moved.pin.reason = "loop_escalation"
  BY <1>3, <1>6, RecordPinKeeps DEF PinReason
<1> HIDE DEF moved
<1> QED BY <1>3, <1>4, <1>5, <1>7 DEF EscalationApplies

-----------------------------------------------------------------------------
(* A pipeline runs one turn at a time, and a turn finds its session's pin   *)
(* as it left it, or broken, unless a rebuild gave another pipeline a turn  *)
(* of that session, which moved the pin meanwhile.                          *)

Live(c) == c.at \notin {"free", "queued"}

(* The pin as a turn left it: gone when no stage of the pin decided, and    *)
(* otherwise on the model of a decision that will be recorded.              *)
Settled(c, st) ==
  /\ c.at \in PastPin => ~IsPinned(st)
  /\ c.at = "decided" /\ c.decision.stage # "turn_envelope" /\ c.decision.reason \notin KeepsPin =>
       ~IsPinned(st) \/ st.pin.model = c.decision.model

OneRuns ==
  \A q, r \in Slots : Live(turn[q]) /\ Live(turn[r]) /\ turn[q].pipeline = turn[r].pipeline => q = r
RunInv == IInv /\ OneRuns

(* The running turns but for those in late find the pin as they left it.    *)
LeftAsIs(late) == \A r \in Slots : Live(turn[r]) /\ r \notin late => Settled(turn[r], State(r))

(* A step of one turn moves the pin of another that runs in another         *)
(* pipeline.                                                                *)
Overtakes(q, r) ==
  /\ Live(turn[q]) /\ Live(turn[r])
  /\ turn[q].session = turn[r].session /\ turn[q].pipeline # turn[r].pipeline
  /\ turn'[q] # turn[q] /\ sess'[turn[r].session].pin # State(r).pin

(* The running turns that were overtaken, now or before.                    *)
Overtaken(late) == {r \in Slots : Live(turn'[r]) /\ (r \in late \/ \E q \in Slots : Overtakes(q, r))}

(* A step of a turn touches that turn and its session alone.                *)
LEMMA StepTouches ==
  ASSUME IInv, NEW r \in Slots, Step(r)
  PROVE  /\ Live(turn[r]) /\ UNCHANGED host
         /\ \A q \in Slots : q # r => turn'[q] = turn[q]
         /\ \A s \in Sessions : s # turn[r].session => sess'[s] = sess[s]
         /\ \/ turn'[r] = Idle
            \/ /\ turn'[r].pipeline = turn[r].pipeline /\ turn'[r].session = turn[r].session
               /\ Live(turn'[r]) /\ turn'[r].at # turn[r].at
<1>1. Live(turn[r])
  BY EventsAssumption
     DEF Step, HardwareProbe, LoopEscalationStage, TurnEnvelope, ContextFit, LowIntensity,
         SessionPinStage, Triage, LocalZeroStage, TriageCloudFallback, HydraMatch, SafeDefaultStage,
         ContextOverflowFallback, Finalize, FallBack, StageThrows, RouteRejects, MayThrow, At, Stage, Live
<1>2. UNCHANGED host /\ turn \in [Slots -> Turn] /\ sess \in [Sessions -> SessionState(ModelIds)]
  BY DEF Step, HardwareProbe, LoopEscalationStage, TurnEnvelope, ContextFit, LowIntensity,
         SessionPinStage, Triage, LocalZeroStage, TriageCloudFallback, HydraMatch, SafeDefaultStage,
         ContextOverflowFallback, Finalize, FallBack, StageThrows, RouteRejects, Ends, IInv, Turns, Pins
<1>3. \A q \in Slots : q # r => turn'[q] = turn[q]
  BY <1>2
     DEF Step, HardwareProbe, LoopEscalationStage, TurnEnvelope, ContextFit, LowIntensity,
         SessionPinStage, Triage, LocalZeroStage, TriageCloudFallback, HydraMatch, SafeDefaultStage,
         ContextOverflowFallback, Finalize, FallBack, StageThrows, RouteRejects, Ends, Pass, Decide,
         DecideOrPass
<1>4. \A s \in Sessions : s # turn[r].session => sess'[s] = sess[s]
  BY <1>2
     DEF Step, HardwareProbe, LoopEscalationStage, TurnEnvelope, ContextFit, LowIntensity,
         SessionPinStage, Triage, LocalZeroStage, TriageCloudFallback, HydraMatch, SafeDefaultStage,
         ContextOverflowFallback, Finalize, FallBack, StageThrows, RouteRejects, Ends
<1>5. \/ turn'[r] = Idle
      \/ /\ turn'[r].pipeline = turn[r].pipeline /\ turn'[r].session = turn[r].session
         /\ Live(turn'[r]) /\ turn'[r].at # turn[r].at
  <2> DEFINE Same == turn'[r].pipeline = turn[r].pipeline /\ turn'[r].session = turn[r].session
  <2>1. turn[r] \in Turn
    BY <1>2
  <2>2. ASSUME turn[r].at \in Stage PROVE NextStage[turn[r].at] \notin {"free", "queued", turn[r].at}
    BY <2>2 DEF Stage, NextStage
  <2>3. ASSUME turn[r].at \in Stage, Same, turn'[r].at \in {NextStage[turn[r].at], "decided"}
        PROVE  Live(turn'[r]) /\ turn'[r].at # turn[r].at
    BY <2>2, <2>3 DEF Live, Stage
  <2>4. ASSUME turn[r].at \in Stage, Pass(r) \/ \E d : Decide(r, d)
        PROVE  Same /\ turn'[r].at \in {NextStage[turn[r].at], "decided"}
    BY <1>2, <2>1, <2>4 DEF Pass, Decide, Turn
  <2>5. CASE HardwareProbe(r) \/ LoopEscalationStage(r)
    <3>1. turn[r].at \in Stage /\ Pass(r)
      BY <2>5 DEF HardwareProbe, LoopEscalationStage, At, Stage
    <3> QED BY <3>1, <2>3, <2>4
  <2>6. CASE TurnEnvelope(r) \/ TriageCloudFallback(r) \/ SafeDefaultStage(r) \/ ContextOverflowFallback(r)
    <3>1. turn[r].at \in Stage /\ (Pass(r) \/ \E d : Decide(r, d))
      BY <2>6 DEF TurnEnvelope, TriageCloudFallback, SafeDefaultStage, ContextOverflowFallback,
                  DecideOrPass, At, Stage
    <3> QED BY <3>1, <2>3, <2>4
  <2>7. CASE LocalZeroStage(r) \/ HydraMatch(r)
    <3>1. turn[r].at \in Stage /\ (Pass(r) \/ \E d : Decide(r, d))
      BY <2>7 DEF LocalZeroStage, HydraMatch, DecideOrPass, At, Stage
    <3> QED BY <3>1, <2>3, <2>4
  <2>8. CASE ContextFit(r) \/ LowIntensity(r)
    <3>1. turn[r].at \in Stage
      BY <2>8 DEF ContextFit, LowIntensity, At, Stage
    <3>2. Same /\ turn'[r].at = NextStage[turn[r].at]
      BY <1>2, <2>1, <2>8 DEF ContextFit, LowIntensity, Turn
    <3> QED BY <3>1, <3>2, <2>3
  <2>9. CASE SessionPinStage(r)
    <3>1. turn[r].at \in Stage
      BY <2>9 DEF SessionPinStage, At, Stage
    <3>2. CASE PinDecision(r) # NoDecision
      <4>1. \E d : Decide(r, d)
        BY <2>9, <3>2 DEF SessionPinStage
      <4> QED BY <3>1, <4>1, <2>3, <2>4
    <3>3. CASE PinDecision(r) = NoDecision
      <4>1. Same /\ turn'[r].at = NextStage[turn[r].at]
        BY <1>2, <2>1, <2>9, <3>3 DEF SessionPinStage, Turn
      <4> QED BY <3>1, <4>1, <2>3
    <3> QED BY <3>2, <3>3
  <2>10. CASE Triage(r)
    <3>1. turn[r].at \in Stage
      BY <2>10 DEF Triage, At, Stage
    <3>2. \/ \E d : Decide(r, d)
          \/ Same /\ turn'[r].at = NextStage[turn[r].at]
      BY <1>2, <2>1, <2>10 DEF Triage, Turn
    <3> QED BY <3>1, <3>2, <2>3, <2>4
  <2>11. CASE Finalize(r) \/ FallBack(r) \/ StageThrows(r) \/ RouteRejects(r)
    BY <1>2, <2>11 DEF Finalize, FallBack, StageThrows, RouteRejects, Ends
  <2> QED BY <2>5, <2>6, <2>7, <2>8, <2>9, <2>10, <2>11 DEF Step
<1> QED BY <1>1, <1>2, <1>3, <1>4, <1>5

LEMMA StepSettles ==
  ASSUME IInv, NEW r \in Slots, Settled(turn[r], State(r)), Step(r), Live(turn'[r])
  PROVE  Settled(turn'[r], sess'[turn'[r].session])
<1>1. /\ IInv /\ Live(turn[r]) /\ Settled(turn[r], State(r))
      /\ turn'[r].session = turn[r].session
  BY StepTouches DEF Live, Idle
<1>2. /\ turn[r] \in Turn /\ turn[r].session \in Sessions /\ turn \in [Slots -> Turn]
      /\ SessionInv(ModelIds, State(r))
  BY <1>1, Context DEF Live, IInv, Turns
<1>3. \A d : Decide(r, d) => turn'[r].at = "decided" /\ turn'[r].decision = d
  BY <1>2 DEF Decide, Turn
<1>4. Pass(r) => turn'[r].at = NextStage[turn[r].at]
  BY <1>2 DEF Pass, Turn
<1>5. ASSUME turn'[r].at \notin PastPin \cup {"decided"}
      PROVE  Settled(turn'[r], sess'[turn'[r].session])
  BY <1>5 DEF Settled
<1>6. CASE HardwareProbe(r) \/ LoopEscalationStage(r)
  <2>1. turn'[r].at \in {"loop_escalation", "turn_envelope"}
    BY <1>4, <1>6 DEF HardwareProbe, LoopEscalationStage, At, NextStage
  <2> QED BY <1>5, <2>1 DEF PastPin
<1>7. CASE TurnEnvelope(r)
  <2> DEFINE d == EnvelopeDecision(turn[r], State(r))
  <2>1. CASE d.model = NoModel
    <3>1. turn'[r].at = "context_fit"
      BY <1>4, <1>7, <2>1 DEF TurnEnvelope, DecideOrPass, At, NextStage
    <3> QED BY <1>5, <3>1 DEF PastPin
  <2>2. CASE d.model # NoModel
    <3>1. turn'[r].at = "decided" /\ turn'[r].decision.stage = "turn_envelope"
      BY <1>2, <1>3, <1>7, <2>2, EnvelopeSound DEF TurnEnvelope, DecideOrPass
    <3> QED BY <3>1 DEF Settled, PastPin
  <2> QED BY <2>1, <2>2
<1>8. CASE ContextFit(r) \/ LowIntensity(r)
  <2>1. turn'[r].at = NextStage[turn[r].at]
    BY <1>2, <1>8 DEF ContextFit, LowIntensity, Turn
  <2>2. turn'[r].at \in {"low_intensity", "session_pin"}
    BY <1>8, <2>1, StageAfter DEF ContextFit, LowIntensity, At
  <2> QED BY <1>5, <2>2 DEF PastPin
<1>9. CASE SessionPinStage(r)
  <2> DEFINE a == PinAnswer(r)
             d == PinDecision(r)
             req == enrichRequestWithSaarCandidate(turn[r])
  <2>1. /\ Matches(a) /\ a.action \in Usable \cup {"force_rejected", "break", "no_pin"}
    <3>1. Fleet(turn[r]) \in SUBSET Models /\ Models \subseteq ModelIds /\ req.tokens \in Nat
      BY <1>1, <1>2, Context, Enriched DEF Live, ModelIds
    <3>2. a = lookupPin(State(r), req, Fleet(turn[r]))
      BY DEF PinAnswer
    <3> HIDE DEF req
    <3>3. Matches(lookupPin(State(r), req, Fleet(turn[r])))
      BY <1>2, <3>1, LookupMoves
    <3> QED BY <1>1, <3>2, <3>3, PinAnswerSound DEF Sound, Live
  <2>2. sess'[turn'[r].session] = a.state
    BY <1>1, <1>2, <1>9 DEF SessionPinStage, IInv, Pins
  <2>3. CASE d = NoDecision
    <3>1. a.action \in {"break", "no_pin"}
      BY <1>1, <2>1, <2>3, PinDecisionSound DEF Live
    <3>2. ~IsPinned(a.state)
      BY <2>1, <3>1 DEF Matches, IsPinned
    <3>3. turn'[r].at = NextStage[turn[r].at]
      BY <1>2, <1>9, <2>3 DEF SessionPinStage, Turn
    <3>4. turn'[r].at = "triage"
      BY <1>9, <3>3, StageAfter DEF SessionPinStage, At
    <3> HIDE DEF a, d
    <3> QED BY <2>2, <3>2, <3>4 DEF Settled
  <2>4. CASE d # NoDecision
    <3>1. turn'[r].at = "decided" /\ turn'[r].decision = d
      BY <1>3, <1>9, <2>4 DEF SessionPinStage
    <3>2. a.action \in Usable \cup {"force_rejected"} /\ (a.action \in Usable => d.model = a.model)
      BY <1>1, <2>4, PinDecisionSound DEF Live
    <3>3. \/ d.reason \in KeepsPin
          \/ a.action = "use_pin" /\ a.reason = "saar_tier_upgrade"
      <4>1. CASE a.action \in {"saar_route", "sub_route", "force_rejected"}
        <5>1. d.reason = a.reason
          BY <4>1 DEF PinDecision, Decision
        <5> QED BY <2>1, <4>1, <5>1 DEF Matches, KeepsPin
      <4>2. CASE a.action = "use_pin"
        <5>1. d.reason = IF a.reason \in {"saar_hard_lock", "saar_tier_upgrade"} THEN a.reason
                         ELSE IF isPinOnlyFallbackActive(a.state) THEN "pin_only_fallback"
                         ELSE "session_pinned"
          BY <4>2 DEF PinDecision, Decision
        <5> HIDE DEF a, d
        <5> QED BY <4>2, <5>1 DEF KeepsPin
      <4> QED BY <3>2, <4>1, <4>2 DEF Usable
    <3> HIDE DEF a, d
    <3>4. d.reason \notin KeepsPin => a.state.pin.model = d.model
      BY <2>1, <3>2, <3>3 DEF Matches, Usable
    <3> QED BY <2>2, <3>1, <3>4 DEF Settled, PastPin
  <2> QED BY <2>3, <2>4
<1>10. CASE \/ Triage(r) \/ LocalZeroStage(r) \/ TriageCloudFallback(r) \/ HydraMatch(r)
            \/ SafeDefaultStage(r) \/ ContextOverflowFallback(r)
  <2>1. turn[r].at \in PastPin /\ sess' = sess
    BY <1>10 DEF Triage, LocalZeroStage, TriageCloudFallback, HydraMatch, SafeDefaultStage,
                 ContextOverflowFallback, At, PastPin
  <2>2. ~IsPinned(sess'[turn'[r].session])
    BY <1>1, <2>1 DEF Settled, State
  <2> QED BY <2>2 DEF Settled
<1>11. CASE Finalize(r) \/ FallBack(r) \/ StageThrows(r) \/ RouteRejects(r)
  <2>1. turn'[r] = Idle
    BY <1>2, <1>11 DEF Finalize, FallBack, StageThrows, RouteRejects, Ends
  <2> QED BY <2>1 DEF Live, Idle
<1> QED BY <1>6, <1>7, <1>8, <1>9, <1>10, <1>11 DEF Step

LEMMA StepRuns ==
  ASSUME RunInv, NEW r \in Slots, Step(r)
  PROVE  RunInv'
<1>1. IInv'
  BY StepKeeps DEF RunInv
<1>2. /\ Live(turn[r])
      /\ \A q \in Slots : q # r => turn'[q] = turn[q]
      /\ \/ turn'[r] = Idle
         \/ turn'[r].pipeline = turn[r].pipeline /\ Live(turn'[r])
  BY StepTouches DEF RunInv
<1>3. OneRuns'
  BY <1>2 DEF RunInv, OneRuns, Live, Idle
<1> QED BY <1>1, <1>3 DEF RunInv

LEMMA StepLeaves ==
  ASSUME RunInv, NEW r \in Slots, Step(r), NEW late \in SUBSET Slots, LeftAsIs(late),
         NEW q \in Slots, Live(turn'[q]), q \notin Overtaken(late)
  PROVE  Settled(turn'[q], sess'[turn'[q].session])
<1>1. /\ Live(turn[r])
      /\ \A x \in Slots : x # r => turn'[x] = turn[x]
      /\ \A s \in Sessions : s # turn[r].session => sess'[s] = sess[s]
      /\ turn'[r] # turn[r]
  BY StepTouches DEF RunInv, Live, Idle
<1>2. Live(turn[q]) /\ q \notin late
  BY <1>1 DEF Overtaken
<1>3. Settled(turn[q], State(q))
  BY <1>2 DEF LeftAsIs
<1>4. CASE q = r
  BY <1>3, <1>4, StepSettles DEF RunInv
<1>5. CASE q # r
  <2>1. turn'[q] = turn[q] /\ turn[q].session \in Sessions
    BY <1>1, <1>2, <1>5, Context DEF RunInv, Live
  <2>2. turn[q].pipeline # turn[r].pipeline
    BY <1>1, <1>2, <1>5 DEF RunInv, OneRuns
  <2>3. ~Overtakes(r, q)
    BY <1>2, <2>1 DEF Overtaken
  <2>4. sess'[turn[q].session].pin = State(q).pin
    BY <1>1, <1>2, <2>1, <2>2, <2>3 DEF Overtakes, State
  <2> QED BY <1>3, <2>1, <2>4 DEF Settled, IsPinned
<1> QED BY <1>4, <1>5

LEMMA StartRuns ==
  ASSUME RunInv, NEW p \in Pipelines, Start(p)
  PROVE  /\ RunInv' /\ sess' = sess /\ current' = current
         /\ \A r \in Slots :
              \/ turn'[r] = turn[r]
              \/ /\ turn'[r].at = "hardware_probe" /\ turn[r].at = "queued"
                 /\ turn'[r].pipeline = turn[r].pipeline
<1> DEFINE h == Head(queue[p])
<1>1. IInv' /\ turn \in [Slots -> Turn]
  BY StartKeeps DEF RunInv, IInv, Turns
<1>2. h \in Slots /\ turn[h].at = "queued" /\ turn[h].pipeline = p
  <2>1. queue[p] \in Seq(Slots) /\ queue[p] # <<>>
    BY DEF Start, RunInv, IInv, Queues
  <2>2. h = queue[p][1] /\ 1 \in DOMAIN queue[p] /\ h \in Slots
    BY <2>1
  <2> QED BY <2>2 DEF RunInv, IInv, Queues
<1> DEFINE c == [turn[h] EXCEPT !.at = "hardware_probe"]
<1>3. turn' = [turn EXCEPT ![h] = c] /\ UNCHANGED <<sess, current>> /\ Running(p) = {}
  BY <1>1, <1>2 DEF Start
<1>4. c.at = "hardware_probe" /\ c.pipeline = p
  BY <1>1, <1>2 DEF Turn
<1> HIDE DEF c, h
<1>5. turn'[h] = c /\ \A q \in Slots : q # h => turn'[q] = turn[q]
  BY <1>1, <1>2, <1>3
<1>6. \A q \in Slots : Live(turn[q]) => turn[q].pipeline # p
  BY <1>3 DEF Running, Live
<1>7. OneRuns'
  BY <1>4, <1>5, <1>6 DEF RunInv, OneRuns
<1>8. ASSUME NEW r \in Slots
      PROVE  \/ turn'[r] = turn[r]
             \/ turn'[r].at = "hardware_probe" /\ turn[r].at = "queued" /\ turn'[r].pipeline = turn[r].pipeline
  BY <1>2, <1>4, <1>5
<1> QED BY <1>1, <1>3, <1>7, <1>8 DEF RunInv

(* An event of the host leaves the running turns alone, or ends all; it     *)
(* leaves their pins, or breaks them.                                       *)
LEMMA HostRuns ==
  ASSUME RunInv, HostStep
  PROVE  /\ RunInv'
         /\ \A r \in Slots : Live(turn'[r]) =>
              /\ turn'[r] = turn[r]
              /\ \/ sess'[turn[r].session].pin = State(r).pin
                 \/ ~IsPinned(sess'[turn[r].session])
<1> DEFINE Quiet ==
      \A r \in Slots : Live(turn'[r]) =>
        /\ turn'[r] = turn[r]
        /\ \/ sess'[turn[r].session].pin = State(r).pin
           \/ ~IsPinned(sess'[turn[r].session])
<1>1. IInv'
  BY HostKeeps DEF RunInv
<1>2. turn \in [Slots -> Turn] /\ sess \in [Sessions -> SessionState(ModelIds)] /\ current \in Pipelines
  BY DEF RunInv, IInv, Turns, Pins, Hosted
<1>3. \A r \in Slots : Live(turn[r]) => turn[r].session \in Sessions
  BY Context DEF RunInv, Live
<1>4. ASSUME UNCHANGED <<sess, turn>> PROVE Quiet
  BY <1>4 DEF State
<1>5. ASSUME NEW s \in Sessions, NEW st, sess' = [sess EXCEPT ![s] = st], turn' = turn,
             st.pin = sess[s].pin \/ ~IsPinned(st) \/ InFlight(s) = {}
      PROVE  Quiet
  BY <1>2, <1>3, <1>5 DEF State, InFlight, Live
<1>6. ASSUME NEW s \in Sessions, NEW r \in Slots, NEW q \in Requests, Submit(r, s, q)
      PROVE  Quiet
  <2>1. PICK excluded \in {{}, {m \in fleet : q.replayRisk /\ IsGoogle(m)}} :
          turn' = [turn EXCEPT ![r] = [Idle EXCEPT !.at = "queued", !.session = s, !.pipeline = current,
                                                   !.req = AskedWith(q, flags[s]), !.full = fleet \ excluded]]
    BY <1>6 DEF Submit
  <2>2. turn'[r].at = "queued"
    BY <1>2, <2>1 DEF Idle
  <2>3. \A x \in Slots : x # r => turn'[x] = turn[x]
    BY <1>2, <2>1
  <2>4. sess' = sess
    BY <1>6 DEF Submit
  <2> QED BY <2>2, <2>3, <2>4 DEF Live, State
<1>7. ASSUME NEW s \in Sessions, Unpin(s) PROVE Quiet
  <2>1. ~IsPinned(breakPin(sess[s]))
    BY BreakPinKeeps DEF RunInv, IInv, Pins, IsPinned
  <2>2. sess' = [sess EXCEPT ![s] = breakPin(sess[s])] /\ turn' = turn
    BY <1>2, <1>7 DEF Unpin
  <2> QED BY <1>5, <2>1, <2>2
<1>8. ASSUME NEW s \in Sessions, GoIdle(s) PROVE Quiet
  <2>1. sess' = [sess EXCEPT ![s] = [sess[s] EXCEPT !.saar.idle = TRUE]] /\ turn' = turn
    BY <1>2, <1>8 DEF GoIdle
  <2> QED BY <1>5, <1>8, <2>1 DEF GoIdle
<1>9. ASSUME NEW s \in Sessions, SessionStart(s) PROVE Quiet
  <2>1. sess' = [sess EXCEPT ![s] = restoreSessionPin(sess[s])] /\ turn' = turn /\ InFlight(s) = {}
    BY <1>2, <1>9 DEF SessionStart
  <2> QED BY <1>5, <2>1
<1>10. ASSUME Restart PROVE Quiet
  BY <1>10 DEF Restart, Live, Idle
<1>11. ASSUME NEW s \in Sessions,
              (\E m \in ForceTargets : SetForceModel(s, m)) \/ AbortBeforeDispatch(s) \/ MarkCompaction(s)
                \/ SessionShutdown(s)
       PROVE  Quiet
  BY <1>4, <1>11 DEF SetForceModel, AbortBeforeDispatch, MarkCompaction, SessionShutdown
<1>12. ASSUME RebuildFleet \/ FlushPins PROVE Quiet
  BY <1>4, <1>12 DEF RebuildFleet, FlushPins
<1> HIDE DEF Quiet
<1>13. Quiet
  BY <1>6, <1>7, <1>8, <1>9, <1>10, <1>11, <1>12 DEF HostStep
<1>14. OneRuns'
  BY <1>13 DEF Quiet, RunInv, OneRuns
<1> QED BY <1>1, <1>13, <1>14 DEF RunInv, Quiet

(* Whatever happens next, only a turn that was overtaken may find the pin   *)
(* other than it left it.                                                   *)
LEMMA NextLeaves ==
  ASSUME RunInv, [Next]_vars, NEW late \in SUBSET Slots, LeftAsIs(late)
  PROVE  /\ RunInv'
         /\ \A r \in Slots : Live(turn'[r]) /\ r \notin Overtaken(late) =>
              Settled(turn'[r], sess'[turn'[r].session])
<1>1. CASE HostStep
  <2>1. /\ RunInv'
        /\ \A r \in Slots : Live(turn'[r]) =>
              /\ turn'[r] = turn[r]
              /\ \/ sess'[turn[r].session].pin = State(r).pin
                 \/ ~IsPinned(sess'[turn[r].session])
    BY <1>1, HostRuns
  <2>2. ASSUME NEW r \in Slots, Live(turn'[r]), r \notin Overtaken(late)
        PROVE  Settled(turn'[r], sess'[turn'[r].session])
    <3>1. Settled(turn[r], State(r))
      BY <2>1, <2>2 DEF LeftAsIs, Overtaken
    <3> QED BY <2>1, <2>2, <3>1 DEF Settled, IsPinned
  <2> QED BY <2>1, <2>2
<1>2. CASE \E p \in Pipelines : Start(p)
  <2>1. /\ RunInv' /\ sess' = sess
        /\ \A r \in Slots : turn'[r] = turn[r] \/ turn'[r].at = "hardware_probe"
    BY <1>2, StartRuns
  <2>2. ASSUME NEW r \in Slots, Live(turn'[r]), r \notin Overtaken(late)
        PROVE  Settled(turn'[r], sess'[turn'[r].session])
    <3>1. CASE turn'[r].at = "hardware_probe"
      BY <3>1 DEF Settled, PastPin
    <3>2. CASE turn'[r] = turn[r]
      BY <2>1, <2>2, <3>2 DEF LeftAsIs, Overtaken, State
    <3> QED BY <2>1, <3>1, <3>2
  <2> QED BY <2>1, <2>2
<1>3. CASE \E r \in Slots : Step(r)
  BY <1>3, StepRuns, StepLeaves
<1>4. CASE UNCHANGED vars
  <2>1. IInv' /\ turn' = turn /\ sess' = sess
    BY <1>4, NextInv DEF RunInv, vars
  <2>2. RunInv'
    BY <2>1 DEF RunInv, OneRuns
  <2> QED BY <2>1, <2>2 DEF LeftAsIs, Overtaken, State
<1> QED BY <1>1, <1>2, <1>3, <1>4 DEF Next

LEMMA RunsInit == Init => RunInv /\ \A late : LeftAsIs(late)
BY InitInv DEF Init, RunInv, OneRuns, LeftAsIs, Live, Idle

(* A step of a turn that moves its session's pin has a reason to, or ends   *)
(* the turn on a pin that is not as the turn left it.                       *)
LEMMA TurnMoves ==
  ASSUME RunInv, NEW r \in Slots, Step(r), NEW s \in Sessions, PinMoves(s)
  PROVE  /\ r \in InFlight(s) /\ turn'[r] # turn[r]
         /\ \/ RouteMoves(r)
            \/ turn[r].at \in {"decided", "undecided"} /\ ~Settled(turn[r], State(r))
<1> DEFINE c == turn[r]
           st == State(r)
           new == sess'[c.session]
           req == enrichRequestWithSaarCandidate(c)
<1>1. /\ IInv /\ Live(turn[r])
      /\ \/ turn'[r] = Idle
         \/ Live(turn'[r]) /\ turn'[r].at # turn[r].at
  BY StepTouches DEF RunInv
<1>2. s = turn[r].session
  BY <1>1, StepTouches DEF PinMoves
<1>3. r \in InFlight(s) /\ turn'[r] # turn[r]
  BY <1>1, <1>2 DEF InFlight, Live, Idle
<1>4. /\ turn[r] \in Turn /\ SessionInv(ModelIds, st) /\ Fleet(c) \in SUBSET Models
      /\ Models \subseteq ModelIds /\ Fleet(c) \subseteq c.full
  BY <1>1, Context DEF Live, ModelIds
<1>5. IsPinned(st) /\ new.pin.model # st.pin.model /\ new # st
  BY <1>2 DEF PinMoves, State
<1>6. sess \in [Sessions -> SessionState(ModelIds)] /\ turn \in [Slots -> Turn]
  BY <1>1 DEF IInv, Pins, Turns
<1>7. CASE LoopEscalationStage(r)
  <2>1. new = evaluateLoopEscalation(st, c.req, Fleet(c))
    BY <1>2, <1>6, <1>7 DEF LoopEscalationStage, State
  <2>2. c.req.tool \in ToolOutcome
    BY <1>4 DEF Turn, RouteRequest
  <2> DEFINE asked == c.req
             live == Fleet(c)
             escalated == evaluateLoopEscalation(st, asked, live)
  <2>5. live \in SUBSET Models /\ asked.tool \in ToolOutcome /\ new = escalated
    BY <1>4, <2>1, <2>2
  <2> HIDE DEF st, new, asked, live
  <2>6. \/ escalated.pin.model = st.pin.model
        \/ /\ asked.kind = "tool_result" /\ st.pin.reason # "loop_escalation"
           /\ escalated.pin.reason = "loop_escalation"
           /\ escalated.pin.model \in OnTier(live, "frontier-cloud")
    BY <1>4, <2>5, EscalationMoves
  <2> HIDE DEF escalated
  <2>3. /\ c.req.kind = "tool_result" /\ st.pin.reason # "loop_escalation"
        /\ new.pin.reason = "loop_escalation"
        /\ new.pin.model \in OnTier(Fleet(c), "frontier-cloud")
    BY <1>5, <2>5, <2>6 DEF asked, live
  <2>4. new.pin.model \in OnTier(c.full, "frontier-cloud")
    BY <1>4, <2>3 DEF OnTier
  <2>7. ListedMoves(r)
    BY <1>3, <2>3, <2>4 DEF ListedMoves, new, st
  <2> QED BY <1>3, <2>7 DEF RouteMoves
<1>8. ASSUME new = PinAnswer(r).state PROVE RouteMoves(r)
  <2>1. new = lookupPin(st, req, Fleet(c)).state
    BY <1>8 DEF PinAnswer
  <2>2. /\ req.tokens = c.req.tokens /\ req.tokens \in Nat /\ req.force = c.req.force
        /\ req.compaction = c.req.compaction /\ req.kind = c.req.kind
    BY <1>4, Enriched
  <2> HIDE DEF st, new, req
  <2>3. AnswerMoves(st, req, Fleet(c), new)
    BY <1>4, <1>5, <2>1, <2>2, LookupMoves
  <2>4. /\ Forced(req) = Forced(c.req)
        /\ ContextOverflows(st, req, Fleet(c)) = ContextOverflows(st, c.req, Fleet(c))
    BY <2>2 DEF Forced, ContextOverflows
  <2>5. ListedMoves(r) \/ UnlistedMoves(r)
    BY <2>2, <2>3, <2>4 DEF AnswerMoves, ListedMoves, UnlistedMoves, new, st, req
  <2> QED BY <2>5 DEF RouteMoves
<1>13. CASE SessionPinStage(r)
  <2>1. new = PinAnswer(r).state
    BY <1>2, <1>6, <1>13 DEF SessionPinStage
  <2> QED BY <1>3, <1>8, <2>1
<1>9. CASE Finalize(r)
  <2> SUFFICES ASSUME Settled(c, st) PROVE FALSE
    BY <1>3, <1>9 DEF Finalize, At
  <2> DEFINE d == c.decision
             kept == persistPinIfNeeded(st, d)
  <2>1. new = recordSaarTurn(kept)
    BY <1>2, <1>6, <1>9 DEF Finalize, Ends, finalizeRoute
  <2>2. d \in RoutingDecision /\ d.model \in ModelIds \cup {NoModel}
    BY <1>4 DEF Turn, RoutingDecision
  <2>3. Settled(c, st) /\ c.at = "decided"
    BY <1>9 DEF Finalize, At
  <2>4. kept = st \/ (kept = recordPin(st, d.model, "initial") /\ d.model = st.pin.model)
    <3>1. CASE d.reason \in KeepsPin \/ d.stage = "turn_envelope"
      <4>1. d.reason \in KeepsPin \/ (d.stage = "turn_envelope" /\ IsPinned(st))
        BY <1>5, <3>1
      <4>2. kept = st
        BY <4>1, Zenon DEF persistPinIfNeeded
      <4> QED BY <4>2
    <3>2. CASE ~(d.reason \in KeepsPin \/ d.stage = "turn_envelope")
      <4>1. d.model = st.pin.model
        BY <1>5, <2>3, <3>2 DEF Settled
      <4> QED BY <3>2, <4>1 DEF persistPinIfNeeded
    <3> QED BY <3>1, <3>2
  <2>5. kept.pin.model = st.pin.model /\ SessionInv(ModelIds, kept)
    BY <1>4, <2>2, <2>4, RecordPinKeeps DEF PinReason
  <2>6. recordSaarTurn(kept).pin = kept.pin
    BY <2>5 DEF recordSaarTurn, SessionInv, SessionState
  <2> QED BY <1>5, <2>1, <2>5, <2>6
<1>10. CASE FallBack(r)
  <2>1. c.at = "undecided"
    BY <1>10 DEF FallBack, At
  <2>2. ~Settled(c, st)
    BY <1>5, <2>1 DEF Settled, PastPin
  <2> QED BY <1>3, <2>1, <2>2
<1>11. CASE StageThrows(r)
  <2> DEFINE d == buildFallbackDecision(c)
             kept == persistPinIfNeeded(AfterThrow(r), d)
  <2>1. /\ MayThrow(r) /\ turn'[r] = Idle
        /\ new = recordSaarTurn(kept)
    BY <1>2, <1>6, <1>11 DEF StageThrows, Ends, finalizeRoute
  <2>2. d \in RoutingDecision /\ d.model \in ModelIds \cup {NoModel}
    BY <1>4, FallbackSound DEF RoutingDecision
  <2>3. d.reason \notin KeepsPin /\ d.stage # "turn_envelope"
    BY DEF buildFallbackDecision, Decision, KeepsPin
  <2>4. kept = recordPin(AfterThrow(r), d.model, "initial")
    BY <2>3 DEF persistPinIfNeeded
  <2>5. SessionInv(ModelIds, AfterThrow(r))
    <3>1. turn[r].at # "free" /\ IInv /\ SessionInv(ModelIds, State(r))
      BY <1>1, <1>4 DEF Live
    <3>2. SessionInv(ModelIds, PinAnswer(r).state)
      BY <3>1, PinAnswerSound DEF Sound, Keeps
    <3> QED BY <3>1, <3>2 DEF AfterThrow
  <2>6. kept.pin.model = d.model /\ SessionInv(ModelIds, kept)
    BY <2>2, <2>4, <2>5, RecordPinKeeps DEF PinReason
  <2>7. recordSaarTurn(kept).pin = kept.pin
    BY <2>6 DEF recordSaarTurn, SessionInv, SessionState
  <2>8. turn'[r].at = "free" /\ new.pin.model = d.model
    BY <2>1, <2>6, <2>7 DEF Idle
  <2> HIDE DEF d, kept
  <2>9. UnlistedMoves(r)
    BY <2>1, <2>8, Zenon DEF UnlistedMoves, d
  <2> QED BY <1>3, <2>9 DEF RouteMoves
<1>14. CASE RouteRejects(r)
  <2>1. new = AfterThrow(r)
    BY <1>2, <1>6, <1>14 DEF RouteRejects, Ends
  <2>2. new = PinAnswer(r).state
    BY <1>5, <2>1 DEF AfterThrow
  <2> QED BY <1>3, <1>8, <2>2
<1>12. CASE \/ HardwareProbe(r) \/ TurnEnvelope(r) \/ ContextFit(r) \/ LowIntensity(r) \/ Triage(r)
            \/ LocalZeroStage(r) \/ TriageCloudFallback(r) \/ HydraMatch(r)
            \/ SafeDefaultStage(r) \/ ContextOverflowFallback(r)
  <2>1. sess' = sess
    BY <1>12 DEF HardwareProbe, TurnEnvelope, ContextFit, LowIntensity, Triage, LocalZeroStage,
                 TriageCloudFallback, HydraMatch, SafeDefaultStage, ContextOverflowFallback
  <2> QED BY <1>5, <2>1 DEF State
<1> QED BY <1>7, <1>9, <1>10, <1>11, <1>12, <1>13, <1>14 DEF Step

LEMMA NextMoves ==
  ASSUME RunInv, [Next]_vars, NEW s \in Sessions, PinMoves(s)
  PROVE  \/ UserMoves(s)
         \/ \E r \in InFlight(s) :
              /\ turn'[r] # turn[r]
              /\ RouteMoves(r) \/ (turn[r].at \in {"decided", "undecided"} /\ ~Settled(turn[r], State(r)))
<1>1. CASE \E r \in Slots : Step(r)
  <2>1. PICK r \in Slots : Step(r)
    BY <1>1
  <2>2. /\ r \in InFlight(s) /\ turn'[r] # turn[r]
        /\ RouteMoves(r) \/ (turn[r].at \in {"decided", "undecided"} /\ ~Settled(turn[r], State(r)))
    BY <2>1, TurnMoves
  <2> QED BY <2>2
<1>2. CASE \E p \in Pipelines : Start(p)
  BY <1>2 DEF Start, PinMoves
<1>3. CASE HostStep
  <2>1. turn' = turn \/ started' = {} \/ sess' = sess
    BY <1>3 DEF HostStep, Submit, SetForceModel, AbortBeforeDispatch, MarkCompaction, Unpin, GoIdle,
                SessionStart, SessionShutdown, RebuildFleet, FlushPins, Restart
  <2> QED BY <2>1 DEF UserMoves, PinMoves
<1>4. CASE UNCHANGED vars
  BY <1>4 DEF vars, PinMoves
<1> QED BY <1>1, <1>2, <1>3, <1>4 DEF Next

-----------------------------------------------------------------------------
(* With one pipeline at a time no turn is overtaken.                        *)

OneLine == "rebuild" \notin HostEvents \/ \A p, q \in Pipelines : p = q

InLine == \A r \in Slots : turn[r].at # "free" => turn[r].pipeline = current
LineInv == RunInv /\ InLine /\ LeftAsIs({})

LEMMA NextInLine ==
  ASSUME OneLine, RunInv, InLine, [Next]_vars
  PROVE  InLine'
<1>1. /\ turn \in [Slots -> Turn] /\ current \in Pipelines
      /\ \A r \in Slots : turn[r].at # "free" => turn[r].pipeline = current
  BY DEF RunInv, IInv, Turns, Hosted, InLine
<1>2. ASSUME NEW s \in Sessions, NEW r \in Slots, NEW q \in Requests, Submit(r, s, q)
      PROVE  InLine'
  <2>1. PICK excluded \in {{}, {m \in fleet : q.replayRisk /\ IsGoogle(m)}} :
          turn' = [turn EXCEPT ![r] = [Idle EXCEPT !.at = "queued", !.session = s, !.pipeline = current,
                                                   !.req = AskedWith(q, flags[s]), !.full = fleet \ excluded]]
    BY <1>2 DEF Submit
  <2>2. turn'[r].pipeline = current /\ \A x \in Slots : x # r => turn'[x] = turn[x]
    BY <1>1, <2>1 DEF Idle
  <2> QED BY <1>1, <1>2, <2>2 DEF Submit, InLine
<1>3. ASSUME UNCHANGED <<turn, current>> PROVE InLine'
  BY <1>3 DEF InLine
<1>4. ASSUME NEW s \in Sessions,
             \/ \E m \in ForceTargets : SetForceModel(s, m)
             \/ AbortBeforeDispatch(s) \/ MarkCompaction(s) \/ Unpin(s) \/ GoIdle(s)
             \/ SessionStart(s) \/ SessionShutdown(s)
      PROVE  InLine'
  BY <1>3, <1>4 DEF SetForceModel, AbortBeforeDispatch, MarkCompaction, Unpin, GoIdle, SessionStart,
                    SessionShutdown, host
<1>5. ASSUME RebuildFleet PROVE InLine'
  <2>1. UNCHANGED <<turn, current>>
    BY <1>1, <1>5 DEF RebuildFleet, OneLine
  <2> QED BY <1>3, <2>1
<1>6. ASSUME FlushPins PROVE InLine'
  BY <1>3, <1>6 DEF FlushPins
<1>7. ASSUME Restart PROVE InLine'
  BY <1>7 DEF Restart, InLine, Idle
<1>8. ASSUME NEW p \in Pipelines, Start(p) PROVE InLine'
  BY <1>1, <1>8, StartRuns DEF InLine
<1>9. ASSUME NEW r \in Slots, Step(r) PROVE InLine'
  <2>1. /\ current' = current /\ turn[r].at # "free"
        /\ \A q \in Slots : q # r => turn'[q] = turn[q]
        /\ turn'[r] = Idle \/ turn'[r].pipeline = turn[r].pipeline
    BY <1>9, StepTouches DEF RunInv, Live, host
  <2> QED BY <1>1, <2>1 DEF InLine, Idle
<1>10. ASSUME UNCHANGED vars PROVE InLine'
  BY <1>3, <1>10 DEF vars
<1> QED BY <1>2, <1>4, <1>5, <1>6, <1>7, <1>8, <1>9, <1>10 DEF Next, HostStep

(* A session stays with its model: with one pipeline at a time, nothing but *)
(* a step of the host and RouteMoves of a turn in flight (the README's four *)
(* reasons and the code's six others) moves or drops its pin, through every *)
(* stage that decides, records, counts, breaks or throws; and a stage that  *)
(* throws leaves the fallback's model as the pin, and no other.             *)
THEOREM PinsStay ==
  ASSUME OneLine
  PROVE  Spec => PinMovesQualified
<1> DEFINE Qualified(s) ==
      \/ UserMoves(s)
      \/ \E r \in InFlight(s) : turn'[r] # turn[r] /\ RouteMoves(r)
<1>1. Init => LineInv
  BY RunsInit DEF Init, LineInv, InLine, Idle
<1>2. ASSUME LineInv, [Next]_vars
      PROVE  LineInv' /\ \A s \in Sessions : PinMoves(s) => Qualified(s)
  <2>1. RunInv /\ InLine /\ LeftAsIs({})
    BY <1>2 DEF LineInv
  <2>2. Overtaken({}) = {}
    BY <2>1 DEF Overtaken, Overtakes, InLine, Live
  <2>3. /\ RunInv'
        /\ \A r \in Slots : Live(turn'[r]) => Settled(turn'[r], sess'[turn'[r].session])
    BY <1>2, <2>1, <2>2, NextLeaves
  <2>4. LineInv'
    BY <1>2, <2>1, <2>3, NextInLine DEF LineInv, LeftAsIs, State
  <2>5. ASSUME NEW s \in Sessions, PinMoves(s)
        PROVE  Qualified(s)
    <3>1. CASE UserMoves(s)
      BY <3>1
    <3>2. CASE ~UserMoves(s)
      <4>1. PICK r \in InFlight(s) :
              /\ turn'[r] # turn[r]
              /\ RouteMoves(r) \/ (turn[r].at \in {"decided", "undecided"} /\ ~Settled(turn[r], State(r)))
        BY <1>2, <2>1, <2>5, <3>2, NextMoves
      <4>2. turn[r].at \in {"decided", "undecided"} => Settled(turn[r], State(r))
        BY <2>1, <4>1 DEF LeftAsIs, Live, InFlight
      <4>3. turn'[r] # turn[r] /\ RouteMoves(r)
        BY <4>1, <4>2
      <4> QED BY <4>3
    <3> QED BY <3>1, <3>2
  <2> QED BY <2>4, <2>5
<1>3. LineInv /\ [Next]_vars => LineInv'
  BY <1>2
<1>4. LineInv /\ [Next]_vars => [\A s \in Sessions : PinMoves(s) => Qualified(s)]_vars
  BY <1>2
<1> QED BY <1>1, <1>3, <1>4, PTL DEF Spec, PinMovesQualified

-----------------------------------------------------------------------------
(* Rebuilds.  Which running turns were overtaken is no state of the code,   *)
(* so the specification is given a history of it.                           *)

VARIABLE overtaken  \* the running turns whose session's pin another pipeline's turn has moved

HistorySpec == Init /\ overtaken = {} /\ [][Next /\ overtaken' = Overtaken(overtaken)]_<<vars, overtaken>>

(* A turn that ends, and was overtaken: Finalize and the fallback record a  *)
(* pin without a look at the one there is (router-pipeline.ts, finalize).   *)
Overwrites(r) == turn[r].at \in {"decided", "undecided"} /\ r \in overtaken

(* However often the fleet is rebuilt under turns in flight, only a step of *)
(* the host, RouteMoves of a turn in flight, and the end of a turn that a   *)
(* turn of the same session on another pipeline overtook move or drop a     *)
(* session's pin.                                                           *)
PinMovesUnlessOvertaken ==
  [][\A s \in Sessions : PinMoves(s) =>
       \/ UserMoves(s)
       \/ \E r \in InFlight(s) : turn'[r] # turn[r] /\ (RouteMoves(r) \/ Overwrites(r))]_<<vars, overtaken>>

HistoryInv == overtaken \in SUBSET Slots /\ RunInv /\ LeftAsIs(overtaken)

(* With any number of pipelines and rebuilds, a session stays with its      *)
(* model but for those reasons and the turns that were overtaken.           *)
THEOREM PinsStayUnlessOvertaken == HistorySpec => PinMovesUnlessOvertaken
<1> DEFINE Step1 == Next /\ overtaken' = Overtaken(overtaken)
           Qualified(s) ==
             \/ UserMoves(s)
             \/ \E r \in InFlight(s) : turn'[r] # turn[r] /\ (RouteMoves(r) \/ Overwrites(r))
<1>1. Init /\ overtaken = {} => HistoryInv
  BY RunsInit DEF HistoryInv
<1>2. ASSUME HistoryInv, Step1
      PROVE  HistoryInv' /\ \A s \in Sessions : PinMoves(s) => Qualified(s)
  <2>1. overtaken \in SUBSET Slots /\ RunInv /\ LeftAsIs(overtaken) /\ Next
    BY <1>2 DEF HistoryInv
  <2>2. overtaken' = Overtaken(overtaken) /\ overtaken' \in SUBSET Slots
    BY <1>2 DEF Overtaken
  <2>3. /\ RunInv'
        /\ \A r \in Slots : Live(turn'[r]) /\ r \notin Overtaken(overtaken) =>
              Settled(turn'[r], sess'[turn'[r].session])
    BY <2>1, NextLeaves
  <2>4. HistoryInv'
    BY <2>2, <2>3 DEF HistoryInv, LeftAsIs, State
  <2>5. ASSUME NEW s \in Sessions, PinMoves(s)
        PROVE  Qualified(s)
    <3>1. CASE UserMoves(s)
      BY <3>1
    <3>2. CASE ~UserMoves(s)
      <4>1. PICK r \in InFlight(s) :
              /\ turn'[r] # turn[r]
              /\ RouteMoves(r) \/ (turn[r].at \in {"decided", "undecided"} /\ ~Settled(turn[r], State(r)))
        BY <2>1, <2>5, <3>2, NextMoves
      <4>2. turn[r].at \in {"decided", "undecided"} => Settled(turn[r], State(r)) \/ r \in overtaken
        BY <2>1, <4>1 DEF LeftAsIs, Live, InFlight
      <4>3. turn'[r] # turn[r] /\ (RouteMoves(r) \/ Overwrites(r))
        BY <4>1, <4>2 DEF Overwrites
      <4> QED BY <4>3
    <3> QED BY <3>1, <3>2
  <2> QED BY <2>4, <2>5
<1>3. ASSUME HistoryInv, UNCHANGED <<vars, overtaken>> PROVE HistoryInv'
  <2>1. UNCHANGED vars /\ overtaken' = overtaken /\ RunInv /\ LeftAsIs(overtaken)
    BY <1>3 DEF HistoryInv
  <2>2. IInv' /\ turn' = turn /\ sess' = sess
    BY <2>1, NextInv DEF RunInv, vars
  <2> QED BY <1>3, <2>1, <2>2 DEF HistoryInv, RunInv, OneRuns, LeftAsIs, State
<1>4. HistoryInv /\ [Step1]_<<vars, overtaken>> => HistoryInv'
  BY <1>2, <1>3
<1>5. HistoryInv /\ [Step1]_<<vars, overtaken>> =>
        [\A s \in Sessions : PinMoves(s) => Qualified(s)]_<<vars, overtaken>>
  BY <1>2
<1> QED BY <1>1, <1>4, <1>5, PTL DEF HistorySpec, PinMovesUnlessOvertaken
=============================================================================
