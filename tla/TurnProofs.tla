------------------------------- MODULE TurnProofs -------------------------------
(***************************************************************************)
(* Proofs about the small components that stand beside a turn: the typed    *)
(* judgment and its two timers, the prewarm guard of local_zero, the        *)
(* encoder cascade of hydra_match, and what a model is sent of a history.   *)
(* Each has an inductive invariant of its own; they share no state.         *)
(***************************************************************************)
EXTENDS TypedJudgment, LocalZero, EncoderCascade, ReplayHistory,
        FiniteSetTheorems, SequenceTheorems, TLAPS

-----------------------------------------------------------------------------
(* The typed judgment.  The adapter's timer fires after the stage's, so the *)
(* signal is aborted exactly when the stage's timer has fired; without a    *)
(* call both are off.                                                       *)
JudgmentInv ==
  /\ call.at = "idle" => stageTimer = "off" /\ adapterTimer = "off"
  /\ adapterTimer = "fired" => stageTimer = "fired"
  /\ call.status \in Statuses \cup {"none"}
  /\ TimeoutReported

(* A stage that is left reports a timeout when its signal is aborted.       *)
LEMMA LeavesReported ==
  ASSUME NEW judgment, NEW reason, NEW answer, Leaves(judgment, reason, answer),
         reason \in {"none", "error", "timeout"} => ((reason = "timeout") <=> SignalAborted)
  PROVE  JudgmentInv'
<1>1. /\ call'.at = "idle" /\ call'.status = "none"
      /\ stageTimer' = "off" /\ adapterTimer' = "off"
      /\ judged'.reason = reason /\ judged'.late = SignalAborted
  BY DEF Leaves, NoCall
<1>2. judged'.reason \in {"none", "error", "timeout"}
      => (judged'.reason = "timeout" <=> SignalAborted)
  BY <1>1
<1>3. judged'.reason \in {"none", "error", "timeout"}
      => (judged'.reason = "timeout") = judged'.late
  <2>1. CASE SignalAborted
    BY <1>1, <1>2, <2>1, Zenon
  <2>2. CASE ~SignalAborted
    <3>1. SignalAborted = FALSE
      BY <2>2 DEF SignalAborted
    <3>2. judged'.late = FALSE
      BY <1>1, <3>1, Zenon
    <3>3. judged'.reason \in {"none", "error", "timeout"} => (judged'.reason = "timeout") = FALSE
      BY <1>2, <2>2, Zenon
    <3> QED BY <3>2, <3>3, Zenon
  <2> QED BY <2>1, <2>2
<1>4. TimeoutReported'
  BY <1>3, Zenon DEF TimeoutReported
<1> QED BY <1>1, <1>4 DEF JudgmentInv

LEMMA ThrowsReported ==
  ASSUME NEW kind, NEW answer, Throws(kind, answer),
         isTimeoutLike(kind) <=> SignalAborted
  PROVE  JudgmentInv'
<1>1. Leaves(FALSE, IF isTimeoutLike(kind) THEN "timeout" ELSE "error", answer)
  BY DEF Throws
<1>2. CASE isTimeoutLike(kind)
  BY <1>1, <1>2, LeavesReported
<1>3. CASE ~isTimeoutLike(kind)
  BY <1>1, <1>3, LeavesReported
<1> QED BY <1>2, <1>3

LEMMA JudgmentStep == JudgmentInv /\ [JudgmentNext]_judgmentVars => JudgmentInv'
<1> SUFFICES ASSUME JudgmentInv, [JudgmentNext]_judgmentVars PROVE JudgmentInv'
  OBVIOUS
<1>1. SignalAborted <=> stageTimer = "fired"
  BY DEF JudgmentInv, SignalAborted
<1>2. CASE Skip
  BY <1>2, LeavesReported DEF Skip
<1>3. CASE Judge
  BY <1>3 DEF Judge, JudgmentInv, NoCall, Statuses, TimeoutReported
<1>4. ASSUME NEW status \in Statuses, Respond(status) PROVE JudgmentInv'
  <2>1. call'.at # "idle" /\ call'.status \in Statuses \cup {"none"}
    BY <1>4 DEF Respond, JudgmentInv
  <2>2. UNCHANGED <<stageTimer, adapterTimer, judged>>
    BY <1>4 DEF Respond
  <2> QED BY <2>1, <2>2 DEF JudgmentInv, TimeoutReported
<1>5. CASE PostAgain
  <2>1. call'.at # "idle" /\ call'.status \in Statuses \cup {"none"}
    BY <1>5 DEF PostAgain, JudgmentInv
  <2>2. UNCHANGED <<stageTimer, adapterTimer, judged>>
    BY <1>5 DEF PostAgain
  <2> QED BY <2>1, <2>2 DEF JudgmentInv, TimeoutReported
<1>6. CASE NetworkFails
  <2>1. ~SignalAborted /\ Throws("transport", NoAnswer)
    BY <1>6 DEF NetworkFails, Cut
  <2>2. ~isTimeoutLike("transport")
    BY <1>1, <2>1 DEF isTimeoutLike
  <2> QED BY <2>1, <2>2, ThrowsReported
<1>7. ASSUME NEW body \in Bodies, ReadBody(body) PROVE JudgmentInv'
  <2>1. ~SignalAborted
    BY <1>7 DEF ReadBody, Cut
  <2>2. ~isTimeoutLike(HttpError(call.status)) /\ ~isTimeoutLike("invalid_response")
    BY <1>1, <2>1 DEF isTimeoutLike, HttpError, JudgmentInv, Statuses
  <2>3. CASE Throws(HttpError(call.status), NoAnswer)
    BY <2>1, <2>2, <2>3, ThrowsReported
  <2>4. CASE Throws("invalid_response", NoAnswer) \/ Throws("invalid_response", body)
    BY <2>1, <2>2, <2>4, ThrowsReported
  <2>5. CASE Leaves(TRUE, "none", body)
    BY <2>1, <2>5, LeavesReported
  <2> QED BY <1>7, <2>3, <2>4, <2>5 DEF ReadBody
<1>8. CASE StageTimerFires
  BY <1>8 DEF StageTimerFires, JudgmentInv, TimeoutReported
<1>9. CASE AdapterTimerFires
  BY <1>9 DEF AdapterTimerFires, JudgmentInv, TimeoutReported
<1>10. CASE Interrupted
  <2>1. SignalAborted
    BY <1>10 DEF Interrupted, Cut
  <2>2. \A kind : isTimeoutLike(kind)
    BY <1>1, <2>1 DEF isTimeoutLike
  <2> QED BY <1>10, <2>1, <2>2, ThrowsReported DEF Interrupted
<1>11. CASE UNCHANGED judgmentVars
  BY <1>11 DEF judgmentVars, JudgmentInv, TimeoutReported
<1> QED BY <1>2, <1>3, <1>4, <1>5, <1>6, <1>7, <1>8, <1>9, <1>10, <1>11 DEF JudgmentNext

(* typed_judgment reports a timeout exactly when the budget of its call was *)
(* spent, whatever the adapter made of the aborted request, for any number  *)
(* of levels, parts and retries.                                            *)
THEOREM TimeoutsAreReported == JudgmentSpec => []TimeoutReported
<1>1. JudgmentInit => JudgmentInv
  <2> SUFFICES ASSUME JudgmentInit PROVE JudgmentInv
    OBVIOUS
  <2>1. /\ call.at = "idle" /\ call.status = "none" /\ stageTimer = "off" /\ adapterTimer = "off"
        /\ judged.reason = "none" /\ judged.late = FALSE
    BY DEF JudgmentInit, NoCall
  <2>2. (judged.reason = "timeout") = FALSE
    BY <2>1
  <2>3. (judged.reason = "timeout") = judged.late
    BY <2>1, <2>2, Zenon
  <2> QED BY <2>1, <2>3, Zenon DEF JudgmentInv, TimeoutReported
<1>2. JudgmentInv => TimeoutReported
  BY DEF JudgmentInv
<1> QED BY <1>1, <1>2, JudgmentStep, PTL DEF JudgmentSpec

-----------------------------------------------------------------------------
(* The prewarm guard.  The last misses of a window are its last outcomes,   *)
(* so a long enough run of them alone holds the acceptance rate down.       *)

(* A sequence o whose last m elements are low.                              *)
EndsIn(o, m, low) == \A i \in 1 .. Len(o) : i > Len(o) - m => o[i] = low

(* An outcome window o after m misses in a row.                             *)
Window(o, m) ==
  /\ o \in Seq(BOOLEAN) /\ m \in Nat
  /\ Len(o) <= SESSION_WINDOW_SIZE
  /\ EndsIn(o, m, FALSE)
  /\ m <= Len(o) \/ Len(o) = SESSION_WINDOW_SIZE

GuardInv(g, m) ==
  /\ Window(g.outcomes, m)
  /\ g.outcomes # <<>> => (g.disabled <=> LowAcceptance(g.outcomes))

LocalInv ==
  /\ DOMAIN guard = PrewarmSessions /\ DOMAIN misses = PrewarmSessions
  /\ guard \in [PrewarmSessions -> [outcomes : Seq(BOOLEAN), disabled : BOOLEAN]]
  /\ misses \in [PrewarmSessions -> Nat]
  /\ local.at # "idle" => local.session \in PrewarmSessions
  /\ \A s \in PrewarmSessions : GuardInv(guard[s], misses[s])

(* Such a sequence when x is appended, and when its head is dropped too.    *)
LEMMA Lengthened ==
  ASSUME NEW S, NEW low, NEW o \in Seq(S), NEW x \in S, NEW m \in Nat, NEW n \in Nat,
         EndsIn(o, m, low), n <= m + 1, n # 0 => x = low
  PROVE  /\ Append(o, x) \in Seq(S) /\ Len(Append(o, x)) = Len(o) + 1
         /\ EndsIn(Append(o, x), n, low)
<1> DEFINE p == Append(o, x)
<1>1. p \in Seq(S) /\ Len(o) \in Nat /\ Len(p) = Len(o) + 1
  OBVIOUS
<1>2. (\A i \in 1 .. Len(o) : p[i] = o[i]) /\ p[Len(o) + 1] = x
  OBVIOUS
<1> HIDE DEF p
<1>3. ASSUME NEW i \in 1 .. Len(p), i > Len(p) - n PROVE p[i] = low
  <2>1. CASE i = Len(o) + 1
    BY <1>1, <1>2, <1>3, <2>1
  <2>2. CASE i # Len(o) + 1
    <3>1. i \in 1 .. Len(o) /\ i > Len(o) - m
      BY <1>1, <1>3, <2>2
    <3> QED BY <1>2, <3>1 DEF EndsIn
  <2> QED BY <2>1, <2>2
<1> QED BY <1>1, <1>3 DEF EndsIn, p

LEMMA Headless ==
  ASSUME NEW S, NEW low, NEW o \in Seq(S), o # <<>>, NEW m \in Nat, EndsIn(o, m, low)
  PROVE  Tail(o) \in Seq(S) /\ Len(Tail(o)) = Len(o) - 1 /\ EndsIn(Tail(o), m, low)
<1> DEFINE t == Tail(o)
<1>1. t \in Seq(S) /\ Len(o) \in Nat \ {0} /\ Len(t) = Len(o) - 1
  OBVIOUS
<1>2. \A i \in 1 .. Len(t) : t[i] = o[i + 1]
  BY <1>1, HeadTailProperties
<1> HIDE DEF t
<1>3. ASSUME NEW i \in 1 .. Len(t), i > Len(t) - m PROVE t[i] = low
  <2>1. i + 1 \in 1 .. Len(o) /\ i + 1 > Len(o) - m
    BY <1>1, <1>3
  <2> QED BY <1>2, <2>1 DEF EndsIn
<1>4. EndsIn(t, m, low)
  BY <1>3 DEF EndsIn
<1> QED BY <1>1, <1>4 DEF t

LEMMA PushedWindow ==
  ASSUME NEW o, NEW m, Window(o, m), NEW accepted \in BOOLEAN,
         NEW n \in Nat, n <= m + 1, n # 0 => accepted = FALSE
  PROVE  Window(Pushed(o, accepted), n) /\ Pushed(o, accepted) # <<>>
<1> DEFINE p == Pushed(o, accepted)
<1>1. /\ o \in Seq(BOOLEAN) /\ m \in Nat /\ Len(o) \in Nat /\ EndsIn(o, m, FALSE)
      /\ Len(o) <= SESSION_WINDOW_SIZE /\ SESSION_WINDOW_SIZE \in Nat \ {0}
      /\ m <= Len(o) \/ Len(o) = SESSION_WINDOW_SIZE
  BY PrewarmAssumption, LenProperties DEF Window
<1>2. CASE Len(o) < SESSION_WINDOW_SIZE
  <2>1. p = Append(o, accepted)
    BY <1>2 DEF Pushed
  <2> HIDE DEF p
  <2>0. /\ Append(o, accepted) \in Seq(BOOLEAN) /\ Len(Append(o, accepted)) = Len(o) + 1
        /\ EndsIn(Append(o, accepted), n, FALSE)
    BY <1>1, Lengthened, Zenon
  <2>2. p \in Seq(BOOLEAN) /\ Len(p) = Len(o) + 1 /\ EndsIn(p, n, FALSE)
    BY <2>0, <2>1, Zenon
  <2>3. Len(p) <= SESSION_WINDOW_SIZE /\ n <= Len(p) /\ Len(p) # 0
    BY <1>1, <1>2, <2>2
  <2>4. p # <<>>
    BY <2>2, <2>3, EmptySeq
  <2> QED BY <2>2, <2>3, <2>4 DEF Window, p
<1>3. CASE ~(Len(o) < SESSION_WINDOW_SIZE)
  <2>1. p = Append(Tail(o), accepted) /\ Len(o) = SESSION_WINDOW_SIZE
    BY <1>1, <1>3 DEF Pushed
  <2>2. o # <<>>
    BY <1>1, <2>1, EmptySeq
  <2> HIDE DEF p
  <2> DEFINE t == Tail(o)
  <2>6. t \in Seq(BOOLEAN) /\ Len(t) = Len(o) - 1 /\ EndsIn(t, m, FALSE)
    BY <1>1, <2>2, Headless
  <2>9. t \in Seq(BOOLEAN) /\ EndsIn(t, m, FALSE) /\ m \in Nat
    BY <1>1, <2>6
  <2>7. p = Append(t, accepted)
    BY <2>1
  <2> HIDE DEF t
  <2>8. /\ Append(t, accepted) \in Seq(BOOLEAN) /\ Len(Append(t, accepted)) = Len(t) + 1
        /\ EndsIn(Append(t, accepted), n, FALSE)
    BY <2>9, Lengthened, Zenon
  <2>3. p \in Seq(BOOLEAN) /\ Len(p) = Len(o) /\ EndsIn(p, n, FALSE)
    <3>1. Len(t) + 1 = Len(o)
      BY <1>1, <2>6
    <3> QED BY <2>7, <2>8, <3>1
  <2>4. Len(p) <= SESSION_WINDOW_SIZE /\ Len(p) = SESSION_WINDOW_SIZE /\ Len(p) # 0
    BY <1>1, <2>1, <2>3
  <2>5. p # <<>>
    BY <2>3, <2>4, EmptySeq
  <2> QED BY <2>3, <2>4, <2>5 DEF Window, p
<1> QED BY <1>2, <1>3

LEMMA OutcomeStep ==
  ASSUME LocalInv, NEW s \in PrewarmSessions, NEW accepted \in BOOLEAN,
         recordOutcome(s, accepted),
         local'.at # "idle" => local'.session \in PrewarmSessions
  PROVE  LocalInv'
<1> DEFINE o == Pushed(guard[s].outcomes, accepted)
           n == IF accepted THEN 0 ELSE IF misses[s] < MaxMisses THEN misses[s] + 1 ELSE misses[s]
           g == [outcomes |-> o, disabled |-> LowAcceptance(o)]
<1>0. n \in Nat /\ n <= misses[s] + 1 /\ (n # 0 => accepted = FALSE) /\ Window(guard[s].outcomes, misses[s])
  <2>1. misses[s] \in Nat /\ Window(guard[s].outcomes, misses[s])
    BY DEF LocalInv, GuardInv
  <2>2. CASE accepted = TRUE
    BY <2>1, <2>2
  <2>3. CASE accepted = FALSE
    BY <2>1, <2>3
  <2> QED BY <2>2, <2>3
<1>1. Window(o, n) /\ o # <<>>
  BY <1>0, PushedWindow
<1>2. guard' = [guard EXCEPT ![s] = g] /\ misses' = [misses EXCEPT ![s] = n]
  BY DEF recordOutcome, Counting
<1>3. o \in Seq(BOOLEAN) /\ n \in Nat /\ LowAcceptance(o) \in BOOLEAN
  BY <1>1 DEF Window, LowAcceptance
<1>4. GuardInv(g, n)
  BY <1>1 DEF GuardInv
<1>5. g \in [outcomes : Seq(BOOLEAN), disabled : BOOLEAN]
  BY <1>3
<1> HIDE DEF g, n
<1>6. /\ guard' \in [PrewarmSessions -> [outcomes : Seq(BOOLEAN), disabled : BOOLEAN]]
      /\ misses' \in [PrewarmSessions -> Nat]
      /\ \A r \in PrewarmSessions : guard'[r] = IF r = s THEN g ELSE guard[r]
      /\ \A r \in PrewarmSessions : misses'[r] = IF r = s THEN n ELSE misses[r]
  BY <1>2, <1>3, <1>5 DEF LocalInv
<1>7. \A r \in PrewarmSessions : GuardInv(guard'[r], misses'[r])
  BY <1>4, <1>6 DEF LocalInv
<1> QED BY <1>6, <1>7 DEF LocalInv

LEMMA LocalStep == LocalInv /\ [LocalNext]_localVars => LocalInv'
<1> SUFFICES ASSUME LocalInv, [LocalNext]_localVars PROVE LocalInv'
  OBVIOUS
<1>1. ASSUME NEW s \in PrewarmSessions, Enter(s) PROVE LocalInv'
  BY <1>1 DEF Enter, LocalInv
<1>2. CASE Warm
  <2>1. local.session \in PrewarmSessions /\ local'.at = "idle"
    BY <1>2 DEF Warm, LocalInv, NoRoute
  <2> QED BY <1>2, <2>1, OutcomeStep DEF Warm
<1>3. CASE Miss
  <2>1. local.session \in PrewarmSessions /\ local' = [local EXCEPT !.at = "probing"]
    BY <1>3 DEF Miss, LocalInv
  <2>2. local'.session = local.session \/ local'.at = "idle"
    BY <2>1
  <2> QED BY <1>3, <2>1, <2>2, OutcomeStep DEF Miss
<1>4. CASE Probe
  BY <1>4 DEF Probe, LocalInv, NoRoute
<1>5. CASE UNCHANGED localVars
  BY <1>5 DEF localVars, LocalInv
<1> QED BY <1>1, <1>2, <1>3, <1>4, <1>5 DEF LocalNext

LEMMA LocalInvHolds == LocalSpec => []LocalInv
<1>1. LocalInit => LocalInv
  <2> SUFFICES ASSUME LocalInit PROVE LocalInv
    OBVIOUS
  <2>1. /\ guard = [s \in PrewarmSessions |-> [outcomes |-> <<>>, disabled |-> FALSE]]
        /\ misses = [s \in PrewarmSessions |-> 0] /\ local.at = "idle"
    BY DEF LocalInit, NoRoute
  <2>2. <<>> \in Seq(BOOLEAN) /\ Len(<<>>) = 0 /\ DOMAIN <<>> = {}
    OBVIOUS
  <2>3. Window(<<>>, 0)
    BY <2>2, PrewarmAssumption DEF Window, EndsIn
  <2> QED BY <2>1, <2>2, <2>3 DEF LocalInv, GuardInv
<1> QED BY <1>1, LocalStep, PTL DEF LocalSpec

(* A window of length l holds at most l - m accepted outcomes.              *)
LEMMA AcceptedBound ==
  ASSUME NEW o, NEW m, Window(o, m)
  PROVE  /\ Accepted(o) \in Nat
         /\ m <= Len(o) => Accepted(o) <= Len(o) - m
         /\ m > Len(o) => Accepted(o) = 0
<1> DEFINE hits == {i \in DOMAIN o : o[i]}
           rest == 1 .. (Len(o) - m)
<1>1. /\ o \in Seq(BOOLEAN) /\ m \in Nat /\ Len(o) \in Nat /\ DOMAIN o = 1 .. Len(o)
      /\ \A i \in DOMAIN o : i > Len(o) - m => o[i] = FALSE
  BY LenProperties DEF Window, EndsIn
<1>2. hits \subseteq rest
  <2> SUFFICES ASSUME NEW i \in DOMAIN o, o[i] PROVE i \in rest
    OBVIOUS
  <2>1. ~(i > Len(o) - m)
    BY <1>1
  <2> QED BY <1>1, <2>1
<1> HIDE DEF hits
<1>3. CASE m <= Len(o)
  <2> DEFINE k == Len(o) - m
  <2>0. 1 \in Int /\ k \in Int /\ k >= 0
    BY <1>1, <1>3
  <2> HIDE DEF k
  <2>4. IsFiniteSet(1 .. k) /\ Cardinality(1 .. k) = IF 1 > k THEN 0 ELSE k - 1 + 1
    BY <2>0, FS_Interval
  <2>5. Cardinality(1 .. k) = k
    BY <2>0, <2>4
  <2>1. IsFiniteSet(rest) /\ Cardinality(rest) = Len(o) - m
    BY <2>4, <2>5 DEF k
  <2>2. IsFiniteSet(hits) /\ Cardinality(hits) <= Cardinality(rest)
    BY <1>2, <2>1, FS_Subset
  <2>3. Cardinality(hits) \in Nat
    BY <2>2, FS_CardinalityType
  <2> QED BY <1>1, <1>3, <2>1, <2>2, <2>3 DEF Accepted, hits
<1>4. CASE m > Len(o)
  <2>1. rest = {}
    BY <1>1, <1>4
  <2>2. hits = {}
    BY <1>2, <2>1
  <2>3. Accepted(o) = 0
    BY <2>2, FS_EmptySet DEF Accepted, hits
  <2> QED BY <1>1, <1>4, <2>3
<1> QED BY <1>1, <1>3, <1>4

(* SpeculativePrewarm: where the guard can trip at all, a runtime that has  *)
(* gone bad costs a session a bounded number of deadlines in a row, for     *)
(* every window, minimum and rate: by the time misses alone would push a    *)
(* full window below the rate, prewarming has stopped.  A minimum above the *)
(* window, or a rate of 0, switches the guard off.                          *)
THEOREM SpeculationIsBounded ==
  ASSUME MinAttempts <= SESSION_WINDOW_SIZE, 0 < MinAcceptancePct
  PROVE  LocalSpec => []SpeculationBounded
<1>1. ASSUME LocalInv, NEW s \in PrewarmSessions, misses[s] >= MinAttempts,
             100 * (SESSION_WINDOW_SIZE - misses[s]) < MinAcceptancePct * SESSION_WINDOW_SIZE
      PROVE  guard[s].disabled
  <2> DEFINE o == guard[s].outcomes
             l == Len(o)
             W == SESSION_WINDOW_SIZE
             m == misses[s]
             r == MinAcceptancePct
             a == Accepted(o)
  <2>1. GuardInv(guard[s], m) /\ Window(o, m)
    BY <1>1 DEF LocalInv, GuardInv
  <2>2. /\ l \in Nat /\ m \in Nat /\ W \in Nat \ {0} /\ r \in 1 .. 100 /\ MinAttempts \in Nat \ {0}
        /\ l <= W /\ (m <= l \/ l = W) /\ o \in Seq(BOOLEAN)
    BY <2>1, PrewarmAssumption DEF Window
  <2>3. l >= MinAttempts /\ o # <<>> /\ l > 0
    BY <1>1, <2>2
  <2>4. /\ a \in Nat
        /\ m <= l => a <= l - m
        /\ m > l => a = 0
    BY <2>1, AcceptedBound
  <2>5. 100 * (W - m) < r * W
    BY <1>1
  <2> HIDE DEF o, l, W, m, r, a
  <2>6. 100 * a < r * l
    <3>1. CASE m > l
      <4>1. r * l > 0
        BY <2>2, <2>3
      <4> QED BY <2>4, <3>1, <4>1
    <3>2. CASE m <= l
      <4> DEFINE k == 100 - r
      <4>1. k \in Nat
        BY <2>2
      <4>2. k * l <= k * W
        BY <2>2, <4>1
      <4>3. k * W = 100 * W - r * W /\ k * l = 100 * l - r * l
        BY <2>2
      <4>4. r * W \in Int /\ r * l \in Int
        BY <2>2
      <4>5. k * W < 100 * m
        BY <2>2, <2>5, <4>3, <4>4
      <4>6. k * l < 100 * m
        BY <2>2, <4>1, <4>2, <4>3, <4>4, <4>5
      <4>7. 100 * l - 100 * m < r * l
        BY <2>2, <4>3, <4>4, <4>6
      <4>8. 100 * a <= 100 * l - 100 * m
        BY <2>2, <2>4, <3>2
      <4> QED BY <2>2, <2>4, <4>4, <4>7, <4>8
    <3> QED BY <2>2, <3>1, <3>2
  <2>7. LowAcceptance(o)
    BY <2>3, <2>6 DEF LowAcceptance, l, r, a
  <2> QED BY <2>1, <2>3, <2>7 DEF GuardInv, o
<1>2. LocalInv => SpeculationBounded
  BY <1>1 DEF SpeculationBounded
<1> QED BY <1>2, LocalInvHolds, PTL

-----------------------------------------------------------------------------
(* The encoder cascade.  An embed reaches an open session through the map   *)
(* alone, so all of it is about which sessions the map keeps: one for each  *)
(* encoder, never one that was given up.                                    *)
Kept(map) == {h \in OnnxSessions : \E i \in DOMAIN map : map[i] = h}

SessionStates == {"none", "loading", "live", "failed", "closed", "unreleased"}

CascadeType ==
  /\ onnx \in [OnnxSessions -> [encoder : Encoders, state : SessionStates, late : BOOLEAN]]
  /\ sessions \in Seq(OnnxSessions)
  /\ disposal \in [called : BOOLEAN, pending : Seq(OnnxSessions), failed : BOOLEAN]
  /\ longContextAvailable \in BOOLEAN

(* The map keeps one session of an encoder, and none that was given up.     *)
Single == \A g, h \in Kept(sessions) : onnx[g].encoder = onnx[h].encoder => g = h
Abandoned == \A h \in Kept(sessions) : ~GivenUp(h)

(* An open session waits in one of the places the cascade knows of.         *)
Placed ==
  \A h \in OnnxSessions :
    Open(h) => \/ ~disposal.called /\ h \in Kept(sessions)
               \/ h \in Kept(disposal.pending)
               \/ GivenUp(h)
               \/ disposal.called /\ AskedForLate(h)

Unshared ==
  ~disposal.called =>
    /\ disposal.pending = <<>>
    /\ \A g, h \in OnnxSessions : Open(g) /\ Open(h) /\ onnx[g].encoder = onnx[h].encoder => g = h

Told == \A h \in OnnxSessions : onnx[h].state = "unreleased" => disposal.failed

CascadeInv == CascadeType /\ Single /\ Abandoned /\ Placed /\ Unshared /\ Told

LEMMA KeptEmpty == Kept(<<>>) = {}
BY DEF Kept

LEMMA KeptAppend ==
  ASSUME NEW map \in Seq(OnnxSessions), NEW h \in OnnxSessions
  PROVE  Append(map, h) \in Seq(OnnxSessions) /\ Kept(Append(map, h)) = Kept(map) \cup {h}
<1> DEFINE p == Append(map, h)
<1>1. /\ p \in Seq(OnnxSessions) /\ DOMAIN map = 1 .. Len(map) /\ DOMAIN p = 1 .. Len(map) + 1
      /\ Len(map) \in Nat
      /\ \A i \in 1 .. Len(map) : p[i] = map[i]
      /\ p[Len(map) + 1] = h
  OBVIOUS
<1> HIDE DEF p
<1>2. \A i \in 1 .. Len(map) : i \in 1 .. Len(map) + 1
  BY <1>1
<1>3. \A i \in 1 .. Len(map) + 1 : i \in 1 .. Len(map) \/ i = Len(map) + 1
  BY <1>1
<1>4. Len(map) + 1 \in 1 .. Len(map) + 1
  BY <1>1
<1>5. Kept(p) \subseteq Kept(map) \cup {h}
  BY <1>1, <1>3 DEF Kept
<1>6. Kept(map) \cup {h} \subseteq Kept(p)
  BY <1>1, <1>2, <1>4 DEF Kept
<1> QED BY <1>1, <1>5, <1>6 DEF p

LEMMA KeptTail ==
  ASSUME NEW map \in Seq(OnnxSessions), map # <<>>
  PROVE  /\ Head(map) \in OnnxSessions /\ Tail(map) \in Seq(OnnxSessions)
         /\ Kept(map) = Kept(Tail(map)) \cup {Head(map)}
<1> DEFINE t == Tail(map)
           g == Head(map)
<1>1. /\ t \in Seq(OnnxSessions) /\ DOMAIN map = 1 .. Len(map) /\ DOMAIN t = 1 .. Len(map) - 1
      /\ Len(map) \in Nat \ {0} /\ g = map[1] /\ g \in OnnxSessions
      /\ \A i \in 1 .. Len(map) - 1 : t[i] = map[i + 1]
  BY HeadTailProperties
<1> HIDE DEF t, g
<1>2. \A i \in 1 .. Len(map) - 1 : i + 1 \in 1 .. Len(map)
  BY <1>1
<1>3. 1 \in 1 .. Len(map)
  BY <1>1
<1>4. \A i \in 1 .. Len(map) : i = 1 \/ (i - 1 \in 1 .. Len(map) - 1 /\ t[i - 1] = map[i])
  <2> SUFFICES ASSUME NEW i \in 1 .. Len(map), i # 1
               PROVE  i - 1 \in 1 .. Len(map) - 1 /\ t[i - 1] = map[i]
    OBVIOUS
  <2>1. i - 1 \in 1 .. Len(map) - 1 /\ (i - 1) + 1 = i
    BY <1>1
  <2> QED BY <1>1, <2>1
<1>5. Kept(map) \subseteq Kept(t) \cup {g}
  BY <1>1, <1>4 DEF Kept
<1>6. Kept(t) \cup {g} \subseteq Kept(map)
  BY <1>1, <1>2, <1>3 DEF Kept
<1> QED BY <1>1, <1>5, <1>6 DEF t, g

(* A rejected load leaves the map with its encoder.                         *)
LEMMA KeptWithout ==
  ASSUME CascadeType, Single, NEW encoder \in Encoders
  PROVE  /\ Without(sessions, encoder) \in Seq(OnnxSessions)
         /\ Kept(Without(sessions, encoder)) = {h \in Kept(sessions) : onnx[h].encoder # encoder}
<1> DEFINE rest == {h \in OnnxSessions : onnx[h].encoder # encoder
                                          /\ \E i \in DOMAIN sessions : sessions[i] = h}
<1>1. rest = {h \in Kept(sessions) : onnx[h].encoder # encoder}
  BY DEF Kept
<1>2. \A g, h \in rest : g = h
  <2> SUFFICES ASSUME NEW g \in rest, NEW h \in rest PROVE g = h
    OBVIOUS
  <2>1. onnx[g].encoder \in Encoders /\ onnx[h].encoder \in Encoders
    BY DEF CascadeType
  <2>2. onnx[g].encoder = onnx[h].encoder
    BY <2>1, EncodersDiffer DEF Encoders
  <2> QED BY <1>1, <2>2 DEF Single
<1>3. Without(sessions, encoder) = IF rest = {} THEN <<>> ELSE <<CHOOSE h \in rest : TRUE>>
  BY DEF Without
<1>4. rest \subseteq OnnxSessions
  OBVIOUS
<1> HIDE DEF rest
<1>5. CASE rest = {}
  BY <1>1, <1>3, <1>5, KeptEmpty
<1>6. CASE rest # {}
  <2> DEFINE h == CHOOSE h \in rest : TRUE
  <2>1. h \in rest /\ Without(sessions, encoder) = <<h>>
    BY <1>3, <1>6
  <2> HIDE DEF h
  <2>2. rest = {h}
    BY <1>2, <2>1
  <2>3. h \in OnnxSessions
    BY <1>4, <2>1
  <2>4. Kept(<<h>>) = {h}
    BY <2>3 DEF Kept
  <2> QED BY <1>1, <2>1, <2>2, <2>3, <2>4
<1> QED BY <1>5, <1>6

(* An embed takes the session of the map, or opens one for an encoder that  *)
(* the map has none of.                                                     *)
LEMMA SessionForFacts ==
  ASSUME CascadeType, NEW encoder \in Encoders, NEW map \in Seq(OnnxSessions),
         NEW h \in OnnxSessions, SessionFor(encoder, map, h)
  PROVE  \/ onnx' = onnx /\ sessions' = map
         \/ /\ onnx' = [onnx EXCEPT ![h] = [encoder |-> encoder, state |-> "loading",
                                            late |-> disposal.called]]
            /\ sessions' \in Seq(OnnxSessions) /\ Kept(sessions') = Kept(map) \cup {h}
            /\ \A g \in Kept(map) : onnx[g].encoder # encoder
            /\ h \notin Kept(sessions) /\ h \notin Kept(disposal.pending)
<1> DEFINE held == {g \in OnnxSessions : onnx[g].encoder = encoder /\ \E i \in DOMAIN map : map[i] = g}
<1>1. CASE h \in held /\ sessions' = map /\ UNCHANGED onnx
  BY <1>1
<1>2. CASE /\ held = {} /\ New(h)
           /\ onnx' = [onnx EXCEPT ![h] = [encoder |-> encoder, state |-> "loading", late |-> disposal.called]]
           /\ sessions' = Append(map, h)
  <2>1. \A g \in Kept(map) : onnx[g].encoder # encoder
    BY <1>2 DEF Kept
  <2>2. h \notin Kept(sessions) /\ h \notin Kept(disposal.pending)
    BY <1>2 DEF New, Unreferenced, InMap, Pending, Kept
  <2> QED BY <1>2, <2>1, <2>2, KeptAppend
<1> QED BY <1>1, <1>2 DEF SessionFor

(* Whatever an embed's prompt and whatever became of its last attempt.      *)
LEMMA EmbedStep ==
  ASSUME CascadeInv, NEW encoder \in Encoders, NEW map \in Seq(OnnxSessions),
         NEW h \in OnnxSessions, SessionFor(encoder, map, h), UNCHANGED disposal,
         longContextAvailable' \in BOOLEAN, longContextAvailable' => longContextAvailable,
         Kept(map) = {g \in Kept(sessions) : longContextAvailable' \/ onnx[g].encoder # LongContextEncoder},
         encoder = LongContextEncoder => longContextAvailable' /\ ~disposal.called
  PROVE  CascadeInv'
<1>1. /\ onnx \in [OnnxSessions -> [encoder : Encoders, state : SessionStates, late : BOOLEAN]]
      /\ disposal.called \in BOOLEAN
  BY DEF CascadeInv, CascadeType
<1>2. CASE onnx' = onnx /\ sessions' = map
  <2>1. CascadeType'
    BY <1>2 DEF CascadeInv, CascadeType
  <2>2. Single'
    BY <1>2 DEF CascadeInv, Single, Kept
  <2>3. Abandoned'
    BY <1>2 DEF CascadeInv, Abandoned, GivenUp, Kept
  <2>4. Placed'
    <3> SUFFICES ASSUME NEW g \in OnnxSessions, Open(g)'
                 PROVE  \/ ~disposal'.called /\ g \in Kept(sessions')
                        \/ g \in Kept(disposal'.pending)
                        \/ GivenUp(g)'
                        \/ disposal'.called /\ AskedForLate(g)'
      BY DEF Placed, Kept
    <3>1. Open(g)
      BY <1>2 DEF Open
    <3>2. CASE ~disposal.called /\ g \in Kept(sessions)
      BY <1>2, <3>2 DEF GivenUp
    <3>3. CASE g \in Kept(disposal.pending) \/ GivenUp(g) \/ (disposal.called /\ AskedForLate(g))
      BY <1>2, <3>3 DEF GivenUp, AskedForLate
    <3> QED BY <3>1, <3>2, <3>3 DEF CascadeInv, Placed
  <2>5. Unshared' /\ Told'
    BY <1>2 DEF CascadeInv, Unshared, Told, Open
  <2> QED BY <2>1, <2>2, <2>3, <2>4, <2>5 DEF CascadeInv
<1>3. CASE /\ onnx' = [onnx EXCEPT ![h] = [encoder |-> encoder, state |-> "loading",
                                           late |-> disposal.called]]
           /\ sessions' \in Seq(OnnxSessions) /\ Kept(sessions') = Kept(map) \cup {h}
           /\ \A g \in Kept(map) : onnx[g].encoder # encoder
           /\ h \notin Kept(sessions) /\ h \notin Kept(disposal.pending)
  <2>1. /\ onnx' \in [OnnxSessions -> [encoder : Encoders, state : SessionStates, late : BOOLEAN]]
        /\ \A g \in OnnxSessions : g # h => onnx'[g] = onnx[g]
        /\ onnx'[h].encoder = encoder /\ onnx'[h].state = "loading" /\ onnx'[h].late = disposal.called
    BY <1>1, <1>3 DEF SessionStates
  <2>2. CascadeType'
    BY <1>3, <2>1 DEF CascadeInv, CascadeType
  <2>3. Kept(map) \subseteq Kept(sessions) /\ Kept(sessions) \subseteq OnnxSessions /\ h \notin Kept(map)
    BY <1>3 DEF Kept
  <2>4. Single'
    <3> SUFFICES ASSUME NEW f \in Kept(sessions'), NEW g \in Kept(sessions'),
                        onnx'[f].encoder = onnx'[g].encoder
                 PROVE  f = g
      BY DEF Single, Kept
    <3>1. \A k \in Kept(map) : onnx'[k] = onnx[k] /\ onnx[k].encoder # encoder
      BY <1>3, <2>1, <2>3
    <3> QED BY <1>3, <2>1, <2>3, <3>1 DEF CascadeInv, Single
  <2>5. Abandoned'
    <3> SUFFICES ASSUME NEW g \in Kept(sessions'), onnx'[g].encoder = LongContextEncoder,
                        ~longContextAvailable'
                 PROVE  FALSE
      BY DEF Abandoned, GivenUp, Kept
    <3>1. g # h
      BY <2>1
    <3> QED BY <1>3, <2>1, <2>3, <3>1
  <2>6. ASSUME NEW g \in OnnxSessions, g # h, Open(g)'
        PROVE  /\ Open(g)
               /\ \/ ~disposal'.called /\ g \in Kept(sessions')
                  \/ g \in Kept(disposal'.pending)
                  \/ GivenUp(g)'
                  \/ disposal'.called /\ AskedForLate(g)'
    <3>1. Open(g)
      BY <2>1, <2>6 DEF Open
    <3>2. CASE ~disposal.called /\ g \in Kept(sessions)
      BY <1>3, <2>1, <2>6, <3>1, <3>2 DEF GivenUp
    <3>3. CASE g \in Kept(disposal.pending) \/ GivenUp(g) \/ (disposal.called /\ AskedForLate(g))
      BY <2>1, <2>6, <3>1, <3>3 DEF GivenUp, AskedForLate
    <3> QED BY <3>1, <3>2, <3>3 DEF CascadeInv, Placed
  <2>7. \/ ~disposal'.called /\ h \in Kept(sessions')
        \/ disposal'.called /\ AskedForLate(h)'
    BY <1>3, <2>1, EncodersDiffer DEF AskedForLate, Encoders
  <2>8. Placed'
    <3>1. \A g \in OnnxSessions :
            Open(g)' => \/ ~disposal'.called /\ g \in Kept(sessions')
                        \/ g \in Kept(disposal'.pending)
                        \/ GivenUp(g)'
                        \/ disposal'.called /\ AskedForLate(g)'
      BY <2>6, <2>7
    <3> QED BY <3>1 DEF Placed, Kept
  <2>9. ASSUME ~disposal.called, NEW g \in OnnxSessions, g # h, Open(g)' PROVE onnx'[g].encoder # encoder
    <3>1. Open(g) /\ onnx'[g] = onnx[g]
      BY <2>1, <2>6, <2>9
    <3>2. CASE g \in Kept(sessions)
      BY <1>3, <2>9, <3>1, <3>2 DEF CascadeInv
    <3>3. CASE g \notin Kept(sessions)
      <4>1. disposal.pending = <<>>
        BY <2>9 DEF CascadeInv, Unshared
      <4>2. GivenUp(g)
        BY <2>9, <3>1, <3>3, <4>1, KeptEmpty DEF CascadeInv, Placed
      <4> QED BY <3>1, <4>2 DEF GivenUp
    <3> QED BY <3>2, <3>3
  <2>10. Unshared'
    <3> SUFFICES ASSUME ~disposal.called
                 PROVE  /\ disposal.pending = <<>>
                        /\ \A f, g \in OnnxSessions :
                             Open(f)' /\ Open(g)' /\ onnx'[f].encoder = onnx'[g].encoder => f = g
      BY DEF Unshared
    <3>1. disposal.pending = <<>>
      BY DEF CascadeInv, Unshared
    <3>2. ASSUME NEW f \in OnnxSessions, NEW g \in OnnxSessions,
                 Open(f)', Open(g)', onnx'[f].encoder = onnx'[g].encoder
          PROVE  f = g
      <4>1. CASE f = h \/ g = h
        BY <2>1, <2>9, <3>2, <4>1
      <4>2. CASE f # h /\ g # h
        <5>1. Open(f) /\ Open(g) /\ onnx'[f] = onnx[f] /\ onnx'[g] = onnx[g]
          BY <2>1, <2>6, <3>2, <4>2
        <5> QED BY <3>2, <5>1 DEF CascadeInv, Unshared
      <4> QED BY <4>1, <4>2
    <3> QED BY <3>1, <3>2
  <2>11. Told'
    BY <2>1 DEF CascadeInv, Told
  <2> QED BY <2>2, <2>4, <2>5, <2>8, <2>10, <2>11 DEF CascadeInv
<1> QED BY <1>2, <1>3, SessionForFacts DEF CascadeInv

(* Steps that leave the sessions where they are.                            *)
LEMMA SessionsStay ==
  ASSUME CascadeInv, UNCHANGED <<onnx, sessions, longContextAvailable, disposal>>
  PROVE  CascadeInv'
<1>1. CascadeType'
  BY DEF CascadeInv, CascadeType
<1>2. Single' /\ Abandoned'
  BY DEF CascadeInv, Single, Abandoned, GivenUp, Kept
<1>3. Placed'
  BY DEF CascadeInv, Placed, Open, GivenUp, AskedForLate, Kept
<1>4. Unshared' /\ Told'
  BY DEF CascadeInv, Unshared, Told, Open
<1> QED BY <1>1, <1>2, <1>3, <1>4 DEF CascadeInv

LEMMA FallsBackStep ==
  ASSUME CascadeInv, NEW c \in Embedders, NEW h \in OnnxSessions, FallsBack(c, h), UNCHANGED disposal
  PROVE  CascadeInv'
<1> DEFINE map == Without(sessions, LongContextEncoder)
<1>1. CASE embeds[c].reason = "over_threshold"
  <2>1. longContextAvailable' = FALSE /\ SessionFor(PrimaryEncoder, map, h)
    BY <1>1 DEF FallsBack
  <2>2. map \in Seq(OnnxSessions) /\ Kept(map) = {g \in Kept(sessions) : onnx[g].encoder # LongContextEncoder}
    BY KeptWithout DEF CascadeInv, Encoders
  <2> HIDE DEF map
  <2>3. PrimaryEncoder \in Encoders /\ PrimaryEncoder # LongContextEncoder
    BY EncodersDiffer DEF Encoders
  <2>4. Kept(map) = {g \in Kept(sessions) : longContextAvailable' \/ onnx[g].encoder # LongContextEncoder}
    BY <2>1, <2>2
  <2> QED BY <2>1, <2>2, <2>3, <2>4, EmbedStep
<1>2. CASE embeds[c].reason # "over_threshold"
  BY <1>2, SessionsStay DEF FallsBack
<1> QED BY <1>1, <1>2

LEMMA EmbedCallStep ==
  ASSUME CascadeInv, NEW c \in Embedders, NEW over \in BOOLEAN, NEW h \in OnnxSessions,
         Embed(c, over, h)
  PROVE  CascadeInv'
<1> DEFINE reason  == selectEncoderForPrompt(over)
           encoder == IF reason = "over_threshold" THEN LongContextEncoder ELSE PrimaryEncoder
<1>1. /\ SessionFor(encoder, sessions, h) /\ ~disposal.called
      /\ UNCHANGED <<longContextAvailable, disposal>>
  BY DEF Embed
<1>2. encoder = LongContextEncoder => longContextAvailable
  BY EncodersDiffer DEF selectEncoderForPrompt
<1>3. encoder \in Encoders
  BY DEF Encoders
<1> HIDE DEF encoder
<1>4. sessions \in Seq(OnnxSessions) /\ longContextAvailable \in BOOLEAN
  BY DEF CascadeInv, CascadeType
<1>5. Kept(sessions) = {g \in Kept(sessions) : longContextAvailable' \/ onnx[g].encoder # LongContextEncoder}
  BY <1>1 DEF CascadeInv, Abandoned, GivenUp
<1> QED BY <1>1, <1>2, <1>3, <1>4, <1>5, EmbedStep

(* A load that fails takes what the map has of its encoder with it: before  *)
(* the disposal that is itself, or nothing.                                 *)
LEMMA LoadStep ==
  ASSUME CascadeInv, NEW h \in OnnxSessions, NEW ok \in BOOLEAN, LoadSettles(h, ok)
  PROVE  CascadeInv'
<1>1. /\ onnx' = [onnx EXCEPT ![h].state = IF ok THEN "live" ELSE "failed"]
      /\ onnx[h].state = "loading"
      /\ UNCHANGED <<longContextAvailable, disposal>>
  BY DEF LoadSettles
<1>2. /\ onnx' \in [OnnxSessions -> [encoder : Encoders, state : SessionStates, late : BOOLEAN]]
      /\ \A g \in OnnxSessions : onnx'[g].encoder = onnx[g].encoder /\ onnx'[g].late = onnx[g].late
      /\ \A g \in OnnxSessions : g # h => onnx'[g] = onnx[g]
      /\ onnx'[h].state = IF ok THEN "live" ELSE "failed"
  BY <1>1 DEF CascadeInv, CascadeType, SessionStates
<1>3. onnx[h].encoder \in Encoders /\ Open(h)
  BY <1>1 DEF CascadeInv, CascadeType, Open
<1>4. /\ sessions' \in Seq(OnnxSessions)
      /\ \/ ok /\ sessions' = sessions
         \/ ~ok /\ Kept(sessions') = {g \in Kept(sessions) : onnx[g].encoder # onnx[h].encoder}
  BY <1>3, KeptWithout DEF LoadSettles, CascadeInv, CascadeType
<1>5. Kept(sessions') \subseteq Kept(sessions) /\ Kept(sessions) \subseteq OnnxSessions
  BY <1>4 DEF Kept
<1>6. \A g \in OnnxSessions : Open(g)' => Open(g)
  BY <1>2, <1>3 DEF Open
<1>7. CascadeType'
  BY <1>1, <1>2, <1>4 DEF CascadeInv, CascadeType
<1>8. Single' /\ Abandoned'
  <2>1. \A g, k \in Kept(sessions') : onnx'[g].encoder = onnx'[k].encoder => g = k
    BY <1>2, <1>5 DEF CascadeInv, Single
  <2>2. \A g \in Kept(sessions') : ~GivenUp(g)'
    BY <1>1, <1>2, <1>5 DEF CascadeInv, Abandoned, GivenUp
  <2> QED BY <2>1, <2>2 DEF Single, Abandoned, Kept
<1>9. Placed'
  <2>1. ASSUME NEW g \in OnnxSessions, Open(g)'
        PROVE  \/ ~disposal'.called /\ g \in Kept(sessions')
               \/ g \in Kept(disposal'.pending)
               \/ GivenUp(g)'
               \/ disposal'.called /\ AskedForLate(g)'
    <3>1. CASE ~disposal.called /\ g \in Kept(sessions)
      <4>1. CASE ok
        BY <1>1, <1>4, <3>1, <4>1
      <4>2. CASE ~ok
        <5>1. g # h
          BY <1>2, <2>1, <4>2 DEF Open
        <5>2. onnx[g].encoder # onnx[h].encoder
          BY <1>3, <1>6, <2>1, <3>1, <5>1 DEF CascadeInv, Unshared
        <5> QED BY <1>1, <1>4, <3>1, <4>2, <5>2
      <4> QED BY <4>1, <4>2
    <3>2. CASE g \in Kept(disposal.pending) \/ GivenUp(g) \/ (disposal.called /\ AskedForLate(g))
      BY <1>1, <1>2, <3>2 DEF GivenUp, AskedForLate
    <3> QED BY <1>6, <2>1, <3>1, <3>2 DEF CascadeInv, Placed
  <2> QED BY <2>1 DEF Placed, Kept
<1>10. Unshared'
  BY <1>1, <1>2, <1>6 DEF CascadeInv, Unshared
<1>11. Told'
  BY <1>1, <1>2 DEF CascadeInv, Told
<1> QED BY <1>7, <1>8, <1>9, <1>10, <1>11 DEF CascadeInv

LEMMA DisposeStep == ASSUME CascadeInv, Dispose PROVE CascadeInv'
<1>1. /\ ~disposal.called /\ disposal' = [disposal EXCEPT !.called = TRUE, !.pending = sessions]
      /\ sessions' = <<>> /\ UNCHANGED <<onnx, longContextAvailable>>
  BY DEF Dispose
<1>2. disposal'.called = TRUE /\ disposal'.pending = sessions /\ disposal'.failed = disposal.failed
  BY <1>1 DEF CascadeInv, CascadeType
<1>3. CascadeType'
  <2>1. disposal' \in [called : BOOLEAN, pending : Seq(OnnxSessions), failed : BOOLEAN]
    BY <1>1 DEF CascadeInv, CascadeType
  <2>2. sessions' \in Seq(OnnxSessions)
    BY <1>1
  <2> QED BY <1>1, <2>1, <2>2 DEF CascadeInv, CascadeType
<1>4. Single' /\ Abandoned'
  BY <1>1, KeptEmpty DEF Single, Abandoned, Kept
<1>5. Placed'
  <2>1. ASSUME NEW g \in OnnxSessions, Open(g)'
        PROVE  g \in Kept(sessions) \/ GivenUp(g)
    <3>1. Open(g) /\ disposal.pending = <<>>
      BY <1>1, <2>1 DEF Open, CascadeInv, Unshared
    <3> QED BY <1>1, <3>1, KeptEmpty DEF CascadeInv, Placed
  <2> QED BY <1>1, <1>2, <2>1 DEF Placed, GivenUp, Kept
<1>6. Unshared' /\ Told'
  BY <1>1, <1>2 DEF CascadeInv, Unshared, Told
<1> QED BY <1>3, <1>4, <1>5, <1>6 DEF CascadeInv

LEMMA CloseStep ==
  ASSUME CascadeInv, NEW released \in BOOLEAN, CloseNext(released)
  PROVE  CascadeInv'
<1> DEFINE h == Head(disposal.pending)
           open == onnx[h].state = "live"
<1>1. /\ disposal.pending # <<>> /\ onnx[h].state # "loading"
      /\ onnx' = IF open THEN [onnx EXCEPT ![h].state = IF released THEN "closed" ELSE "unreleased"] ELSE onnx
      /\ disposal' = [disposal EXCEPT !.pending = Tail(@), !.failed = @ \/ ~(open /\ released)]
      /\ UNCHANGED <<sessions, longContextAvailable>>
  BY DEF CloseNext
<1>2. /\ h \in OnnxSessions /\ Tail(disposal.pending) \in Seq(OnnxSessions)
      /\ Kept(disposal.pending) = Kept(Tail(disposal.pending)) \cup {h}
  BY <1>1, KeptTail DEF CascadeInv, CascadeType
<1>3. /\ disposal'.called = disposal.called /\ disposal'.pending = Tail(disposal.pending)
      /\ disposal'.failed = (disposal.failed \/ ~(open /\ released))
      /\ disposal' \in [called : BOOLEAN, pending : Seq(OnnxSessions), failed : BOOLEAN]
  BY <1>1, <1>2 DEF CascadeInv, CascadeType
<1>4. disposal.called
  BY <1>1 DEF CascadeInv, Unshared
<1> HIDE DEF h
<1>5. /\ onnx' \in [OnnxSessions -> [encoder : Encoders, state : SessionStates, late : BOOLEAN]]
      /\ \A g \in OnnxSessions : onnx'[g].encoder = onnx[g].encoder /\ onnx'[g].late = onnx[g].late
      /\ \A g \in OnnxSessions : g # h => onnx'[g] = onnx[g]
      /\ onnx'[h].state \notin {"loading", "live"}
      /\ onnx'[h].state = "unreleased" => onnx[h].state = "unreleased" \/ ~released
  <2>0. onnx \in [OnnxSessions -> [encoder : Encoders, state : SessionStates, late : BOOLEAN]]
    BY DEF CascadeInv, CascadeType
  <2>1. CASE ~open
    BY <1>1, <1>2, <2>0, <2>1
  <2>2. CASE open /\ released = TRUE
    <3>1. onnx' = [onnx EXCEPT ![h].state = "closed"]
      BY <1>1, <2>2
    <3> QED BY <1>2, <2>0, <2>2, <3>1 DEF SessionStates
  <2>3. CASE open /\ released = FALSE
    <3>1. onnx' = [onnx EXCEPT ![h].state = "unreleased"]
      BY <1>1, <2>3
    <3> QED BY <1>2, <2>0, <2>3, <3>1 DEF SessionStates
  <2> QED BY <2>1, <2>2, <2>3
<1>6. CascadeType'
  BY <1>1, <1>3, <1>5 DEF CascadeInv, CascadeType
<1>7. Single' /\ Abandoned'
  BY <1>1, <1>5 DEF CascadeInv, Single, Abandoned, GivenUp, Kept
<1>8. Placed'
  <2>1. ASSUME NEW g \in OnnxSessions, Open(g)'
        PROVE  \/ g \in Kept(disposal'.pending) \/ GivenUp(g)' \/ AskedForLate(g)'
    <3>0. onnx'[g].state \in {"loading", "live"}
      BY <2>1 DEF Open
    <3>1. g # h /\ Open(g)
      BY <1>5, <3>0 DEF Open
    <3>2. g \in Kept(disposal.pending) \/ GivenUp(g) \/ AskedForLate(g)
      BY <1>4, <3>1 DEF CascadeInv, Placed
    <3> QED BY <1>1, <1>2, <1>3, <1>5, <3>1, <3>2 DEF GivenUp, AskedForLate
  <2> QED BY <1>3, <1>4, <2>1 DEF Placed, Kept
<1>9. Unshared'
  BY <1>3, <1>4 DEF Unshared
<1>10. Told'
  <2>1. ASSUME NEW g \in OnnxSessions, onnx'[g].state = "unreleased" PROVE disposal'.failed
    <3>1. CASE onnx[g].state = "unreleased"
      BY <1>3, <3>1 DEF CascadeInv, Told
    <3>2. CASE onnx[g].state # "unreleased"
      BY <1>3, <1>5, <2>1, <3>2
    <3> QED BY <3>1, <3>2
  <2> QED BY <2>1 DEF Told
<1> QED BY <1>6, <1>7, <1>8, <1>9, <1>10 DEF CascadeInv

LEMMA CascadeStep == CascadeInv /\ [CascadeNext]_cascadeVars => CascadeInv'
<1> SUFFICES ASSUME CascadeInv, [CascadeNext]_cascadeVars PROVE CascadeInv'
  OBVIOUS
<1>1. CASE Continuation
  <2>1. ASSUME NEW c \in Embedders, Infer(c) PROVE CascadeInv'
    BY <2>1, SessionsStay DEF Infer
  <2>2. ASSUME NEW c \in Embedders, NEW h \in OnnxSessions, LoadFails(c, h) PROVE CascadeInv'
    BY <2>2, FallsBackStep DEF LoadFails
  <2> QED BY <1>1, <2>1, <2>2 DEF Continuation
<1>2. CASE CascadeEvent
  <2>1. ASSUME NEW c \in Embedders, NEW h \in OnnxSessions, EmbedFails(c, h) PROVE CascadeInv'
    BY <2>1, FallsBackStep DEF EmbedFails
  <2>2. ASSUME NEW c \in Embedders, NEW h \in OnnxSessions, NEW over \in BOOLEAN, Embed(c, over, h)
        PROVE  CascadeInv'
    BY <2>2, EmbedCallStep
  <2>3. ASSUME NEW c \in Embedders, EmbedRefused(c) \/ Embedded(c) PROVE CascadeInv'
    BY <2>3, SessionsStay DEF EmbedRefused, Embedded, cascadeVars
  <2>4. ASSUME NEW h \in OnnxSessions, NEW ok \in BOOLEAN, LoadSettles(h, ok) PROVE CascadeInv'
    BY <2>4, LoadStep
  <2>5. ASSUME NEW released \in BOOLEAN, CloseNext(released) PROVE CascadeInv'
    BY <2>5, CloseStep
  <2> QED BY <1>2, <2>1, <2>2, <2>3, <2>4, <2>5, DisposeStep DEF CascadeEvent
<1>3. CASE UNCHANGED cascadeVars
  BY <1>3, SessionsStay DEF cascadeVars
<1> QED BY <1>1, <1>2, <1>3 DEF CascadeNext

LEMMA AtMostOne ==
  ASSUME NEW S, \A g, h \in S : g = h
  PROVE  Cardinality(S) <= 1
<1>1. CASE S = {}
  BY <1>1, FS_EmptySet
<1>2. CASE S # {}
  <2>1. PICK h \in S : TRUE
    BY <1>2
  <2>2. S = {h}
    BY <2>1
  <2>3. Cardinality({h}) = 1
    BY FS_Singleton
  <2> QED BY <2>2, <2>3
<1> QED BY <1>1, <1>2

(* EncoderCascade: one open session per encoder until the disposal, each    *)
(* where the cascade can find it or of the two kinds that escape, and every *)
(* failure to release one reported: for any number of embeds and sessions.  *)
THEOREM SessionsAreAccounted == CascadeSpec => []SessionsAccounted
<1>1. CascadeInit => CascadeInv
  <2> SUFFICES ASSUME CascadeInit PROVE CascadeInv
    OBVIOUS
  <2>1. /\ onnx = [h \in OnnxSessions |-> [encoder |-> PrimaryEncoder, state |-> "none", late |-> FALSE]]
        /\ sessions = <<>> /\ longContextAvailable = TRUE
        /\ disposal = [called |-> FALSE, pending |-> <<>>, failed |-> FALSE]
    BY DEF CascadeInit
  <2>2. \A h \in OnnxSessions : onnx[h].state = "none"
    BY <2>1
  <2>3. Kept(sessions) = {} /\ Kept(disposal.pending) = {}
    BY <2>1, KeptEmpty
  <2>4. CascadeType
    BY <2>1 DEF CascadeType, Encoders, SessionStates
  <2> QED BY <2>1, <2>2, <2>3, <2>4
       DEF CascadeInv, Single, Abandoned, Placed, Unshared, Told, Open
<1>2. CascadeInv => SessionsAccounted
  <2> SUFFICES ASSUME CascadeInv PROVE SessionsAccounted
    OBVIOUS
  <2>1. ASSUME ~disposal.called, NEW e \in Encoders
        PROVE  Cardinality({h \in OnnxSessions : Open(h) /\ onnx[h].encoder = e}) <= 1
    <3> DEFINE S == {h \in OnnxSessions : Open(h) /\ onnx[h].encoder = e}
    <3>1. \A g, h \in S : g = h
      BY <2>1 DEF CascadeInv, Unshared
    <3> HIDE DEF S
    <3>2. Cardinality(S) <= 1
      BY <3>1, AtMostOne
    <3> QED BY <3>2 DEF S
  <2>2. ASSUME NEW h \in OnnxSessions, Open(h)
        PROVE  (InMap(h) /\ ~disposal.called) \/ Pending(h) \/ GivenUp(h) \/ AskedForLate(h)
    BY <2>2 DEF CascadeInv, Placed, InMap, Pending, Kept
  <2>3. \A h \in OnnxSessions : onnx[h].state = "unreleased" => disposal.failed
    BY DEF CascadeInv, Told
  <2> QED BY <2>1, <2>2, <2>3 DEF SessionsAccounted
<1> QED BY <1>1, <1>2, CascadeStep, PTL DEF CascadeSpec

-----------------------------------------------------------------------------
(* The tool-history guard and the repair of the context: what a model is    *)
(* sent of one message.                                                     *)
MessageSet ==
  {message \in [author : Repliers, identity : Repliers \cup {Virtual}, blocks : SUBSET Written] :
     message.identity \in {message.author, Virtual}}

ReplayInv ==
  /\ history \in Seq(MessageSet)
  /\ lastExecution \in Repliers \cup {NoReplier}
  /\ ReplayAccepted

LEMMA WrittenBlocks ==
  \A b \in Written : /\ b \in Block /\ b.state # "sentinel" /\ b.type # "prose"
                     /\ b.state = "redacted" => b.type = "thinking"
BY DEF Written

LEMMA RepairedBlocks ==
  ASSUME NEW blocks \in SUBSET Written, NEW b \in repairAssistantForGoogleReplay(blocks)
  PROVE  /\ b \in Block /\ (b.type = "toolCall" => b.state # "plain")
         /\ b.state \notin {"plain", "sentinel"} => b \in blocks
<1>1. PICK c \in blocks : b = IF c.type = "toolCall" /\ c.state = "plain" THEN [c EXCEPT !.state = "sentinel"] ELSE c
  BY DEF repairAssistantForGoogleReplay
<1>2. c \in Block
  BY WrittenBlocks
<1>3. CASE c.type = "toolCall" /\ c.state = "plain"
  <2>1. b = [c EXCEPT !.state = "sentinel"]
    BY <1>1, <1>3
  <2>2. b \in Block /\ b.state = "sentinel"
    BY <1>2, <2>1 DEF Block
  <2> QED BY <2>2
<1>4. CASE ~(c.type = "toolCall" /\ c.state = "plain")
  BY <1>1, <1>2, <1>4
<1> QED BY <1>3, <1>4

LEMMA TransformedBlocks ==
  ASSUME NEW blocks \in SUBSET Written, NEW b \in transformMessages(blocks)
  PROVE  /\ b \in Block /\ b.state = "plain"
         /\ b.type = "prose" => \E c \in blocks : c.type = "thinking"
<1>1. PICK c \in blocks : b = [type |-> IF c.type = "thinking" THEN "prose" ELSE c.type, state |-> "plain"]
  BY DEF transformMessages
<1>2. c \in Block /\ c.type # "prose"
  BY WrittenBlocks
<1>3. c.type \in {"thinking", "text", "toolCall", "prose"}
  BY <1>2 DEF Block
<1>4. CASE c.type = "thinking"
  BY <1>1, <1>4 DEF Block
<1>5. CASE c.type # "thinking"
  <2>1. b = [type |-> c.type, state |-> "plain"]
    BY <1>1, <1>5
  <2> QED BY <1>2, <1>3, <2>1 DEF Block
<1> QED BY <1>4, <1>5

(* A Google model that was not asked for by name finds a history with tools *)
(* that has no state it could not take.                                     *)
LEMMA GoogleAccepts ==
  ASSUME NEW message \in MessageSet, message \in Messages, NEW target, NEW forced, NEW fleet,
         target \in resolveEffectiveFleet(fleet, forced), isGoogleDelegationTarget(target),
         delivery'.target = target, delivery'.forced = forced, UNCHANGED history,
         NEW blocks \in SUBSET message.blocks, NEW b \in repairAssistantForGoogleReplay(blocks)
  PROVE  b \in Block /\ AcceptedByGoogle(b, message)'
<1>1. blocks \in SUBSET Written /\ message.blocks \in SUBSET Written
  BY DEF MessageSet
<1>2. /\ b \in Block /\ (b.type = "toolCall" => b.state # "plain")
      /\ b.state \notin {"plain", "sentinel"} => b \in message.blocks
  BY <1>1, RepairedBlocks
<1>3. hasToolCallHistory' = hasToolCallHistory
  BY DEF hasToolCallHistory, Messages, Calls
<1>4. CASE b.state \in {"plain", "sentinel"} \/ forced \/ ~hasToolCallHistory
  BY <1>2, <1>3, <1>4 DEF AcceptedByGoogle
<1>5. CASE b.state \notin {"plain", "sentinel"} /\ ~forced /\ hasToolCallHistory
  <2>1. b \in message.blocks /\ b \in Written
    BY <1>1, <1>2, <1>5
  <2>2. b.state \in {"signed", "redacted"}
    BY <1>2, <1>5 DEF Block
  <2>3. target \in GoogleProviders
    BY DEF isGoogleDelegationTarget
  <2>4. ~UnrepairableForeign(message)
    BY <1>5, <2>3 DEF resolveEffectiveFleet, sessionHasGoogleUnsafeToolHistory
  <2>5. b.state # "redacted"
    BY <2>1, <2>4, WrittenBlocks DEF UnrepairableForeign, Has
  <2>6. isGoogleOriginAssistantMessage(message)
    BY <2>1, <2>2, <2>4, <2>5 DEF UnrepairableForeign
  <2>7. \/ message.author \in GoogleApis \cup GoogleProviders
        \/ message.identity = Virtual /\ message.author # target
    BY <2>3, <2>6 DEF isGoogleOriginAssistantMessage, MessageSet
  <2>8. b.state = "signed"
    BY <2>2, <2>5
  <2> QED BY <1>2, <2>7, <2>8 DEF AcceptedByGoogle, Misattributed
<1> QED BY <1>4, <1>5

LEMMA KeptBlocks ==
  ASSUME NEW blocks, NEW identity, NEW target
  PROVE  /\ stripCursorLifecycleThinking(blocks, identity, target) \subseteq blocks
         /\ \/ stripCursorLifecycleThinking(blocks, identity, target) = blocks
            \/ identity \in CursorModels
         /\ identity \in CursorModels /\ target \notin CursorModels
              => \A b \in stripCursorLifecycleThinking(blocks, identity, target) : b.type # "thinking"
BY DEF stripCursorLifecycleThinking

(* A model that is not Google's is sent nobody else's state.                *)
LEMMA OthersAccept ==
  ASSUME NEW message \in MessageSet, NEW target, ~isGoogleDelegationTarget(target),
         delivery'.target = target, NEW b \in Sent(message, target)
  PROVE  b \in Block /\ AcceptedByOthers(b, message)'
<1> DEFINE identity == NormalizedIdentity(message, target)
           kept     == stripCursorLifecycleThinking(message.blocks, identity, target)
<1>1. message.blocks \in SUBSET Written /\ message.identity \in {message.author, Virtual}
  BY DEF MessageSet
<1>2. kept \in SUBSET Written /\ kept \subseteq message.blocks
  BY <1>1, KeptBlocks
<1>3. Sent(message, target) = IF identity = target THEN kept ELSE transformMessages(kept)
  BY DEF Sent
<1>4. identity = message.identity \/ message.identity = Virtual
  BY DEF NormalizedIdentity
<1>5. /\ identity \in CursorModels /\ target \notin CursorModels => \A c \in kept : c.type # "thinking"
  BY KeptBlocks
<1> HIDE DEF identity, kept
<1>6. CASE identity = target
  <2>1. b \in kept /\ b \in Written
    BY <1>2, <1>3, <1>6
  <2>2. b \in Block /\ b.state # "sentinel" /\ b.type # "prose"
    BY <2>1, WrittenBlocks
  <2>3. message.author = target \/ (message.identity = Virtual /\ message.author # target)
    BY <1>1, <1>4, <1>6
  <2> QED BY <2>2, <2>3 DEF AcceptedByOthers, Misattributed
<1>7. CASE identity # target
  <2>1. b \in transformMessages(kept)
    BY <1>3, <1>7
  <2>2. b \in Block /\ b.state = "plain" /\ (b.type = "prose" => \E c \in kept : c.type = "thinking")
    BY <1>2, <2>1, TransformedBlocks
  <2>3. b.type = "prose" /\ message.author \in CursorModels
          => target \in CursorModels \/ (message.identity = Virtual /\ message.author # target)
    BY <1>1, <1>4, <1>5, <2>2
  <2> QED BY <2>2, <2>3 DEF AcceptedByOthers, Misattributed
<1> QED BY <1>6, <1>7

LEMMA ThinkingIsKept ==
  ASSUME NEW message \in MessageSet, NEW target
  PROVE  ThinkingKept(Sent(message, target), message)
<1> SUFFICES ASSUME NEW c \in message.blocks, c.type = "thinking",
                    message.author \notin CursorModels, message.identity # Virtual
             PROVE  \E b \in Sent(message, target) : b.type \in {"thinking", "prose"}
  BY DEF ThinkingKept, Has
<1> DEFINE identity == NormalizedIdentity(message, target)
           kept     == stripCursorLifecycleThinking(message.blocks, identity, target)
<1>1. identity = message.author
  BY DEF NormalizedIdentity, MessageSet
<1>2. kept = message.blocks
  BY <1>1, KeptBlocks
<1>3. Sent(message, target) = IF isGoogleDelegationTarget(target) THEN repairAssistantForGoogleReplay(kept)
                              ELSE IF identity = target THEN kept ELSE transformMessages(kept)
  BY DEF Sent
<1> HIDE DEF identity, kept
<1>4. CASE isGoogleDelegationTarget(target)
  <2>1. c \in repairAssistantForGoogleReplay(kept)
    BY <1>2 DEF repairAssistantForGoogleReplay
  <2> QED BY <1>3, <1>4, <2>1
<1>5. CASE ~isGoogleDelegationTarget(target) /\ identity = target
  BY <1>2, <1>3, <1>5
<1>6. CASE ~isGoogleDelegationTarget(target) /\ identity # target
  <2>1. [type |-> "prose", state |-> "plain"] \in transformMessages(kept)
    BY <1>2 DEF transformMessages
  <2> QED BY <1>3, <1>6, <2>1
<1> QED BY <1>4, <1>5, <1>6

LEMMA DelegateStep ==
  ASSUME ReplayInv, NEW fleet \in Scopes, NEW target \in fleet, NEW forced \in BOOLEAN,
         Delegate(target, fleet, forced)
  PROVE  ReplayInv'
<1> DEFINE sent == [i \in DOMAIN history |-> Sent(history[i], target)]
<1>1. /\ target \in resolveEffectiveFleet(fleet, forced)
      /\ delivery' = [target |-> target, forced |-> forced, sent |-> sent]
      /\ UNCHANGED <<history, lastExecution>>
  BY DEF Delegate
<1> HIDE DEF sent
<1>2. delivery'.target = target /\ delivery'.forced = forced /\ delivery'.sent = sent
  BY <1>1
<1>3. ASSUME NEW i \in DOMAIN history
      PROVE  /\ ThinkingKept(Sent(history[i], target), history[i])
             /\ \A b \in Sent(history[i], target) :
                  /\ b \in Block
                  /\ IF isGoogleDelegationTarget(target) THEN AcceptedByGoogle(b, history[i])'
                     ELSE AcceptedByOthers(b, history[i])'
  <2> DEFINE message == history[i]
             kept    == stripCursorLifecycleThinking(message.blocks, NormalizedIdentity(message, target), target)
  <2>1. message \in MessageSet /\ message \in Messages
    BY <1>3, ElementOfSeq DEF ReplayInv, Messages
  <2>2. kept \in SUBSET message.blocks
    BY KeptBlocks
  <2>3. isGoogleDelegationTarget(target) => Sent(message, target) = repairAssistantForGoogleReplay(kept)
    BY DEF Sent
  <2>4. history'[i] = message /\ history' = history
    BY <1>1
  <2>5. ThinkingKept(Sent(message, target), message)
    BY <2>1, ThinkingIsKept
  <2> HIDE DEF message, kept
  <2>6. CASE isGoogleDelegationTarget(target)
    BY <1>1, <1>2, <2>1, <2>2, <2>3, <2>4, <2>5, <2>6, GoogleAccepts
       DEF message, AcceptedByGoogle, Misattributed
  <2>7. CASE ~isGoogleDelegationTarget(target)
    BY <1>1, <1>2, <2>1, <2>4, <2>5, <2>7, OthersAccept
       DEF message, AcceptedByOthers, Misattributed
  <2> QED BY <2>6, <2>7
<1>4. ReplayAccepted'
  BY <1>1, <1>2, <1>3 DEF ReplayAccepted, sent
<1> QED BY <1>1, <1>4 DEF ReplayInv

LEMMA NothingSent ==
  ASSUME delivery = NoDelivery
  PROVE  ReplayAccepted
BY DEF NoDelivery, ReplayAccepted

LEMMA AnswerStep ==
  ASSUME ReplayInv, NEW author \in Repliers, NEW blocks \in Writes[author],
         NEW identity \in {author, Virtual},
         history' = Append(history, Message(author, identity, blocks)),
         lastExecution' \in Repliers \cup {NoReplier}, delivery' = NoDelivery
  PROVE  ReplayInv'
<1>1. blocks \in SUBSET Written
  BY WritesAssumption
<1>2. Message(author, identity, blocks) \in MessageSet
  BY <1>1 DEF Message, MessageSet
<1>3. history' \in Seq(MessageSet)
  BY <1>2 DEF ReplayInv
<1>4. ReplayAccepted'
  BY DEF NoDelivery, ReplayAccepted
<1> QED BY <1>3, <1>4 DEF ReplayInv

LEMMA ReplayStep == ReplayInv /\ [ReplayNext]_replayVars => ReplayInv'
<1> SUFFICES ASSUME ReplayInv, [ReplayNext]_replayVars PROVE ReplayInv'
  OBVIOUS
<1>1. ASSUME UNCHANGED <<history, delivery>>, lastExecution' \in Repliers \cup {NoReplier}
      PROVE  ReplayInv'
  <2>1. ReplayAccepted'
    BY <1>1 DEF ReplayInv, ReplayAccepted, AcceptedByGoogle, AcceptedByOthers, Misattributed,
                hasToolCallHistory, Messages
  <2> QED BY <1>1, <2>1 DEF ReplayInv
<1>2. ASSUME NEW fleet \in Scopes, NEW m \in fleet, NEW forced \in BOOLEAN, Delegate(m, fleet, forced)
      PROVE  ReplayInv'
  BY <1>2, DelegateStep
<1>3. ASSUME NEW fleet \in Scopes, NothingToRoute(fleet) PROVE ReplayInv'
  BY <1>1, <1>3 DEF NothingToRoute, replayVars, ReplayInv
<1>4. ASSUME NEW m \in Repliers, NEW blocks \in Writes[m],
             AnswerElsewhere(m, blocks) \/ \E identity \in {m, Virtual} : Answer(m, blocks, identity)
      PROVE  ReplayInv'
  <2>1. CASE AnswerElsewhere(m, blocks)
    BY <2>1, AnswerStep DEF AnswerElsewhere, ReplayInv
  <2>2. ASSUME NEW identity \in {m, Virtual}, Answer(m, blocks, identity) PROVE ReplayInv'
    BY <2>2, AnswerStep DEF Answer
  <2> QED BY <1>4, <2>1, <2>2
<1>5. CASE Compact
  <2>1. history' \in Seq(MessageSet) /\ delivery' = NoDelivery /\ lastExecution' = lastExecution
    BY <1>5 DEF Compact, ReplayInv
  <2>2. ReplayAccepted'
    BY <2>1 DEF NoDelivery, ReplayAccepted
  <2> QED BY <2>1, <2>2 DEF ReplayInv
<1>6. CASE Evict
  BY <1>1, <1>6 DEF Evict
<1>7. CASE UNCHANGED replayVars
  BY <1>1, <1>7 DEF replayVars, ReplayInv
<1> QED BY <1>2, <1>3, <1>4, <1>5, <1>6, <1>7 DEF ReplayNext

(* delegation-context: whatever history a session's models leave behind, no *)
(* model is sent state that it cannot read back or that is somebody else's, *)
(* and no thinking gets lost, but for the messages of the virtual identity  *)
(* and a model asked for by name: for any models, fleets and answers.       *)
THEOREM RepliesAreAccepted == ReplaySpec => []ReplayAccepted
<1>1. ReplayInit => ReplayInv
  BY NothingSent DEF ReplayInit, ReplayInv
<1>2. ReplayInv => ReplayAccepted
  BY DEF ReplayInv
<1> QED BY <1>1, <1>2, ReplayStep, PTL DEF ReplaySpec
=============================================================================
