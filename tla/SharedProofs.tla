---------------------------- MODULE SharedProofs ----------------------------
(***************************************************************************)
(* What the processes of one host share, for every set of them.            *)
(*                                                                          *)
(* The rate limiter's bucket, for every capacity, rate, resolution of the   *)
(* clock, set of callers and costs: it never hands out more than its        *)
(* capacity and the refill of the clock's forward movement, and a           *)
(* retry-after is honest.                                                   *)
(*                                                                          *)
(* The database file, for every set of processes and files and any number   *)
(* of failures: no store opens on half a schema, and a database is put      *)
(* aside only for a stated cause.                                           *)
(***************************************************************************)
EXTENDS TokenBucket, StoreOpening, TLAPS

Advice == [cost : Nat, until : Nat]

BucketType ==
  /\ bucket \in [created : BOOLEAN, tokens : Nat, last : Nat]
  /\ clock \in Nat
  /\ caller \in [Callers -> [at : {"idle", "not found", "created"}, cost : Nat]]
  /\ \A c \in Callers : caller[c].at # "idle" => caller[c].cost \in Costs
  /\ advised \in [Callers -> Advice]
  /\ granted \in Nat
  /\ forward \in Nat

(* Before the bucket exists nobody was granted or advised anything.         *)
Untouched == ~bucket.created => bucket.tokens = 0 /\ granted = 0
Unadvised == ~bucket.created => \A c \in Callers : advised[c].cost = 0

(* RateBounded, with what the next call would refill counted in.            *)
Accounted == granted * Second + bucket.tokens + RefillRate * Elapsed <= FullBucket + RefillRate * forward

(* The refill up to the later of the advised moment and the last refill     *)
(* makes good the cost.                                                     *)
Later(a, b) == IF a > b THEN a ELSE b
By(c) == Later(advised[c].until, bucket.last)
Promised ==
  \A c \in Callers : advised[c].cost > 0 =>
    /\ advised[c].cost <= MaxTokens
    /\ bucket.last <= clock
    /\ advised[c].cost * Second <= bucket.tokens + RefillRate * (By(c) - bucket.last)

IInv == BucketType /\ Untouched /\ Unadvised /\ Accounted /\ Promised

-----------------------------------------------------------------------------
LEMMA CeilDiv ==
  ASSUME NEW n \in Nat \ {0}, NEW d \in Nat
  PROVE  /\ (d + n - 1) \div n \in Nat
         /\ ((d + n - 1) \div n) * n >= d
  BY SMT

LEMMA TimesMonotone ==
  ASSUME NEW r \in Nat, NEW a \in Int, NEW b \in Int, a <= b
  PROVE  r * a <= r * b
  BY SMT

LEMMA TimesDistributes ==
  ASSUME NEW r \in Int, NEW a \in Int, NEW b \in Int
  PROVE  /\ r * (a + b) = r * a + r * b
         /\ r * (a - b) = r * a - r * b
         /\ (a + b) * r = a * r + b * r
         /\ r * a \in Int
         /\ a * r \in Int
  BY SMT

LEMMA TimesNat ==
  ASSUME NEW r \in Nat, NEW a \in Nat
  PROVE  r * a \in Nat
  BY SMT

LEMMA Numbers ==
  ASSUME BucketType
  PROVE  /\ bucket.tokens \in Nat /\ bucket.last \in Nat /\ clock \in Nat
         /\ granted \in Nat /\ forward \in Nat
<1>1. bucket \in [created : BOOLEAN, tokens : Nat, last : Nat] /\ clock \in Nat
      /\ granted \in Nat /\ forward \in Nat
  BY DEF BucketType
<1> QED
  BY <1>1

LEMMA CostInParts ==
  ASSUME NEW cost \in Nat, cost <= MaxTokens
  PROVE  cost * Second <= FullBucket
<1>1. Second \in Nat /\ MaxTokens \in Nat /\ cost \in Int /\ MaxTokens \in Int
  BY SecondAssumption, MaxTokensAssumption
<1>2. Second * cost <= Second * MaxTokens
  BY <1>1, TimesMonotone, Zenon
<1> QED
  BY <1>1, <1>2 DEF FullBucket

(* What the refill comes to.                                                *)
LEMMA RefilledBounds ==
  ASSUME BucketType
  PROVE  /\ Elapsed \in Nat
         /\ FullBucket \in Nat
         /\ RefillRate * Elapsed \in Nat
         /\ Refilled \in Nat
         /\ Refilled <= bucket.tokens + RefillRate * Elapsed
         /\ Refilled = bucket.tokens + RefillRate * Elapsed \/ Refilled = FullBucket
<1>1. Elapsed \in Nat
  BY Numbers DEF Elapsed
<1>2. FullBucket \in Nat
  BY MaxTokensAssumption, SecondAssumption, TimesNat DEF FullBucket
<1>3. RefillRate * Elapsed \in Nat
  BY <1>1, RefillRateAssumption, TimesNat
<1>4. bucket.tokens \in Nat
  BY Numbers
<1> DEFINE e == RefillRate * Elapsed
           k == FullBucket
<1>5. e \in Nat /\ k \in Nat
  BY <1>2, <1>3
<1>6. Refilled = IF bucket.tokens + e < k THEN bucket.tokens + e ELSE k
  BY DEF Refilled
<1> HIDE DEF e, k
<1>7. Refilled \in Nat /\ Refilled <= bucket.tokens + e
      /\ (Refilled = bucket.tokens + e \/ Refilled = k)
  BY <1>4, <1>5, <1>6
<1> USE DEF e, k
<1> QED
  BY <1>1, <1>2, <1>3, <1>7

-----------------------------------------------------------------------------
LEMMA InitHolds == BucketInit => IInv
<1> SUFFICES ASSUME BucketInit PROVE IInv
  OBVIOUS
<1>1. BucketType
  BY DEF BucketInit, BucketType, Idle, NoAdvice, Advice
<1>2. Untouched
  BY DEF BucketInit, Untouched
<1>5. Unadvised
  BY DEF BucketInit, Unadvised, NoAdvice
<1>3. Accounted
  <2>1. Elapsed = 0 /\ granted = 0 /\ bucket.tokens = 0 /\ forward = 0
    BY DEF BucketInit, Elapsed
  <2>2. FullBucket \in Nat
    BY <1>1, RefilledBounds
  <2> QED
    BY <2>1, <2>2, RefillRateAssumption, SecondAssumption DEF Accounted
<1>4. Promised
  BY DEF BucketInit, Promised, NoAdvice
<1> QED
  BY <1>1, <1>2, <1>3, <1>4, <1>5 DEF IInv

(* A call that finds a bucket leaves its refill, less what it takes.        *)
LEMMA TakeAccounts ==
  ASSUME BucketType, Accounted, NEW taken \in Nat,
         Refilled >= taken * Second,
         bucket' = [bucket EXCEPT !.tokens = Refilled - taken * Second, !.last = clock],
         granted' = granted + taken,
         UNCHANGED <<clock, forward>>
  PROVE  Accounted'
<1> DEFINE e == RefillRate * Elapsed
           t == taken * Second
           g == granted * Second
           f == RefillRate * forward
           k == FullBucket
<1>1. e \in Nat /\ k \in Nat /\ Refilled \in Nat /\ Refilled <= bucket.tokens + e
  BY RefilledBounds
<1>2. t \in Nat /\ g \in Nat /\ f \in Nat /\ bucket.tokens \in Nat
  BY TimesNat, SecondAssumption, RefillRateAssumption, Numbers
<1>3. bucket'.tokens = Refilled - t /\ bucket'.last = clock
  BY DEF BucketType
<1>4. Elapsed' = 0
  BY <1>3, Numbers DEF Elapsed
<1>5. granted' * Second = g + t
  BY TimesDistributes, SecondAssumption, Numbers
<1>6. g + bucket.tokens + e <= k + f
  BY DEF Accounted
<1>7. FullBucket' = k /\ RefillRate * forward' = f /\ RefillRate * Elapsed' = 0
  BY <1>4, RefillRateAssumption DEF FullBucket
<1> HIDE DEF e, t, g, f, k
<1>8. g + t + (Refilled - t) + 0 <= k + f
  BY <1>1, <1>2, <1>6
<1> QED
  BY <1>3, <1>5, <1>7, <1>8 DEF Accounted

LEMMA StepAccounts == IInv /\ [BucketNext]_bucketVars => Accounted'
<1> SUFFICES ASSUME IInv, [BucketNext]_bucketVars PROVE Accounted'
  OBVIOUS
<1> USE DEF IInv
<1>1. ASSUME NEW c \in Callers, NEW cost \in Costs, NotFound(c, cost) PROVE Accounted'
  BY <1>1 DEF NotFound, Accounted, Elapsed, FullBucket
<1>2. ASSUME NEW c \in Callers, InitBucket(c) PROVE Accounted'
  <2>1. CASE bucket.created
    BY <1>2, <2>1 DEF InitBucket, Accounted, Elapsed, FullBucket
  <2>2. CASE ~bucket.created
    <3>1. granted' = 0 /\ forward' = forward /\ clock' = clock
          /\ bucket' = [created |-> TRUE, tokens |-> FullBucket, last |-> clock]
      BY <1>2, <2>2 DEF InitBucket, Untouched
    <3>3. Elapsed' = 0 /\ bucket'.tokens = FullBucket
      BY <3>1, Numbers DEF Elapsed
    <3>2. FullBucket \in Nat /\ RefillRate * forward \in Nat /\ FullBucket' = FullBucket
      BY RefilledBounds, TimesNat, RefillRateAssumption DEF BucketType, FullBucket
    <3> QED
      BY <3>1, <3>2, <3>3, RefillRateAssumption, SecondAssumption DEF Accounted
  <2> QED
    BY <2>1, <2>2
<1>3. ASSUME NEW c \in Callers, NEW cost \in Nat, Allow(c, cost) PROVE Accounted'
  BY <1>3, TakeAccounts DEF Allow
<1>4. ASSUME NEW c \in Callers, NEW cost \in Nat, Deny(c, cost) PROVE Accounted'
  <2>1. 0 * Second = 0 /\ Refilled >= 0 * Second /\ Refilled - 0 * Second = Refilled
    BY SecondAssumption, RefilledBounds
  <2>4. bucket' = [bucket EXCEPT !.tokens = Refilled, !.last = clock]
        /\ UNCHANGED <<clock, granted, forward>>
    BY <1>4 DEF Deny
  <2>2. bucket' = [bucket EXCEPT !.tokens = Refilled - 0 * Second, !.last = clock]
    BY <2>1, <2>4
  <2>3. granted' = granted + 0 /\ UNCHANGED <<clock, forward>>
    BY <2>4, Numbers
  <2> QED
    BY <2>1, <2>2, <2>3, TakeAccounts
<1>5. CASE Tick
  <2> DEFINE e == RefillRate * Elapsed
             f == RefillRate * forward
             g == granted * Second
             k == FullBucket
  <2>1. Elapsed' \in Nat /\ Elapsed' <= Elapsed + 1 /\ Elapsed \in Nat
    BY <1>5, Numbers DEF Tick, Elapsed
  <2>8. RefillRate \in Nat /\ RefillRate * 1 = RefillRate
    BY RefillRateAssumption
  <2>11. Elapsed' \in Int /\ Elapsed \in Int /\ Elapsed + 1 \in Int /\ 1 \in Int /\ RefillRate \in Int
    BY <2>1, <2>8
  <2>9. RefillRate * Elapsed' <= RefillRate * (Elapsed + 1)
    BY <2>1, <2>8, <2>11, TimesMonotone, Zenon
  <2>12. RefillRate * (Elapsed + 1) = RefillRate * Elapsed + RefillRate * 1
    BY <2>11, TimesDistributes
  <2>2. RefillRate * Elapsed' <= e + RefillRate
    BY <2>8, <2>9, <2>12, Zenon
  <2>10. RefillRate * (forward + 1) = f + RefillRate * 1
    BY <2>8, TimesDistributes, Numbers
  <2>3. RefillRate * forward' = f + RefillRate
    BY <1>5, <2>8, <2>10 DEF Tick
  <2>4. g + bucket.tokens + e <= k + f
    BY DEF Accounted
  <2>5. g \in Nat /\ e \in Nat /\ k \in Nat /\ f \in Nat /\ bucket.tokens \in Nat
        /\ RefillRate * Elapsed' \in Nat
    BY <2>1, TimesNat, RefilledBounds, RefillRateAssumption, SecondAssumption, Numbers
  <2>6. granted' * Second = g /\ bucket'.tokens = bucket.tokens /\ FullBucket' = k
    BY <1>5 DEF Tick, FullBucket
  <2> DEFINE x == RefillRate * Elapsed'
  <2> HIDE DEF e, f, g, k, x
  <2>7. g + bucket.tokens + x <= k + (f + RefillRate)
    BY <2>2, <2>4, <2>5, RefillRateAssumption DEF x
  <2> QED
    BY <2>3, <2>6, <2>7 DEF Accounted, x
<1>6. CASE SetBack
  <2> DEFINE e == RefillRate * Elapsed
             f == RefillRate * forward
             g == granted * Second
             k == FullBucket
             x == RefillRate * Elapsed'
  <2>1. Elapsed' \in Nat /\ Elapsed' <= Elapsed /\ Elapsed \in Nat
    BY <1>6, Numbers DEF SetBack, Elapsed
  <2>7. RefillRate \in Nat
    BY RefillRateAssumption
  <2>8. Elapsed' \in Int /\ Elapsed \in Int
    BY <2>1
  <2>2. x <= e
    BY <2>1, <2>7, <2>8, TimesMonotone, Zenon
  <2>3. g + bucket.tokens + e <= k + f
    BY DEF Accounted
  <2>4. g \in Nat /\ e \in Nat /\ k \in Nat /\ f \in Nat /\ x \in Nat /\ bucket.tokens \in Nat
    BY <2>1, TimesNat, RefilledBounds, RefillRateAssumption, SecondAssumption, Numbers
  <2>5. granted' * Second = g /\ bucket'.tokens = bucket.tokens /\ FullBucket' = k
        /\ RefillRate * forward' = f
    BY <1>6 DEF SetBack, FullBucket
  <2> HIDE DEF e, f, g, k, x
  <2>6. g + bucket.tokens + x <= k + f
    BY <2>2, <2>3, <2>4
  <2> QED
    BY <2>5, <2>6 DEF Accounted, x
<1>7. CASE UNCHANGED bucketVars
  BY <1>7 DEF bucketVars, Accounted, Elapsed, FullBucket
<1>8. Costs \subseteq Nat
  BY CostsAssumption
<1> QED
  BY <1>1, <1>2, <1>3, <1>4, <1>5, <1>6, <1>7, <1>8 DEF BucketNext, Consume, BucketType

LEMMA StepTypes == IInv /\ [BucketNext]_bucketVars => BucketType'
<1> SUFFICES ASSUME IInv, [BucketNext]_bucketVars PROVE BucketType'
  OBVIOUS
<1>1. BucketType /\ Refilled \in Nat /\ FullBucket \in Nat
  BY RefilledBounds DEF IInv
<1>2. Costs \subseteq Nat
  BY CostsAssumption
<1>3. ASSUME NEW c \in Callers, NEW cost \in Costs, NotFound(c, cost) PROVE BucketType'
  BY <1>1, <1>2, <1>3 DEF NotFound, BucketType
<1>4. ASSUME NEW c \in Callers, InitBucket(c) PROVE BucketType'
  <2>1. bucket' \in [created : BOOLEAN, tokens : Nat, last : Nat]
    BY <1>1, <1>4 DEF InitBucket, BucketType
  <2> QED
    BY <1>1, <1>4, <2>1 DEF InitBucket, BucketType
<1>5. ASSUME NEW c \in Callers, NEW cost \in Nat, Allow(c, cost) PROVE BucketType'
  <2>1. cost * Second \in Nat
    BY <1>5, SecondAssumption, TimesNat
  <2> DEFINE left == Refilled - cost * Second
  <2>2. left \in Nat
    BY <1>1, <1>5, <2>1 DEF Allow
  <2>3. bucket' = [bucket EXCEPT !.tokens = left, !.last = clock]
    BY <1>5 DEF Allow
  <2> HIDE DEF left
  <2>4. bucket' \in [created : BOOLEAN, tokens : Nat, last : Nat]
    BY <1>1, <2>2, <2>3 DEF BucketType
  <2>5. granted' \in Nat /\ clock' \in Nat /\ forward' \in Nat
    BY <1>1, <1>5, Numbers DEF Allow
  <2>6. advised' \in [Callers -> Advice]
    BY <1>5 DEF Allow, NoAdvice, Advice
  <2>7. caller' \in [Callers -> [at : {"idle", "not found", "created"}, cost : Nat]]
        /\ \A d \in Callers : caller'[d].at # "idle" => caller'[d].cost \in Costs
    BY <1>1, <1>5 DEF Allow, Idle, BucketType
  <2> QED
    BY <2>4, <2>5, <2>6, <2>7 DEF BucketType
<1>6. ASSUME NEW c \in Callers, NEW cost \in Nat, Deny(c, cost) PROVE BucketType'
  <2> DEFINE back == clock + RetryAfter(cost * Second - Refilled) * Second
  <2>1. back \in Nat
    <3>1. cost * Second \in Nat
      BY <1>6, SecondAssumption, TimesNat
    <3>2. cost * Second - Refilled \in Nat
      BY <1>1, <1>6, <3>1 DEF Deny
    <3>3. RefillRate * Second \in Nat \ {0}
      BY RefillRateAssumption, SecondAssumption
    <3>4. RetryAfter(cost * Second - Refilled) \in Nat
      BY <3>2, <3>3, CeilDiv DEF RetryAfter
    <3>5. RetryAfter(cost * Second - Refilled) * Second \in Nat
      BY <3>4, SecondAssumption, TimesNat
    <3> QED
      BY <1>1, <3>5, Numbers
  <2>2. bucket' = [bucket EXCEPT !.tokens = Refilled, !.last = clock]
        /\ advised' = [advised EXCEPT ![c] = IF cost > MaxTokens THEN NoAdvice
                                              ELSE [cost |-> cost, until |-> back]]
        /\ UNCHANGED <<clock, granted, forward>>
        /\ caller' = [caller EXCEPT ![c] = Idle]
    BY <1>6 DEF Deny
  <2> HIDE DEF back
  <2>3. bucket' \in [created : BOOLEAN, tokens : Nat, last : Nat]
    BY <1>1, <2>2 DEF BucketType
  <2>4. advised' \in [Callers -> Advice]
    BY <1>1, <2>1, <2>2 DEF BucketType, Advice, NoAdvice
  <2>5. caller' \in [Callers -> [at : {"idle", "not found", "created"}, cost : Nat]]
        /\ \A d \in Callers : caller'[d].at # "idle" => caller'[d].cost \in Costs
    BY <1>1, <2>2 DEF Idle, BucketType
  <2> QED
    BY <1>1, <2>2, <2>3, <2>4, <2>5 DEF BucketType
<1>7. CASE Tick
  <2>1. clock' \in Nat /\ forward' \in Nat /\ UNCHANGED <<bucket, caller, advised, granted>>
    BY <1>1, <1>7, Numbers DEF Tick
  <2> QED
    BY <1>1, <2>1 DEF BucketType
<1>8. CASE SetBack
  <2>1. clock' \in Nat
    BY <1>1, <1>8, Numbers DEF SetBack
  <2>2. advised' \in [Callers -> Advice] /\ UNCHANGED <<bucket, caller, granted, forward>>
    BY <1>8 DEF SetBack, NoAdvice, Advice
  <2> QED
    BY <1>1, <2>1, <2>2 DEF BucketType
<1>9. CASE UNCHANGED bucketVars
  BY <1>1, <1>9 DEF bucketVars, BucketType
<1> QED
  BY <1>1, <1>2, <1>3, <1>4, <1>5, <1>6, <1>7, <1>8, <1>9 DEF BucketNext, Consume, BucketType

LEMMA StepUntouched == IInv /\ [BucketNext]_bucketVars => Untouched'
<1> SUFFICES ASSUME IInv, [BucketNext]_bucketVars PROVE Untouched'
  OBVIOUS
<1>1. Untouched /\ bucket \in [created : BOOLEAN, tokens : Nat, last : Nat]
  BY DEF IInv, BucketType
<1>2. ASSUME NEW c \in Callers, NEW cost \in Costs, NotFound(c, cost) PROVE Untouched'
  BY <1>1, <1>2 DEF NotFound, Untouched
<1>3. ASSUME NEW c \in Callers, InitBucket(c) PROVE Untouched'
  BY <1>1, <1>3 DEF InitBucket, Untouched
<1>4. ASSUME NEW c \in Callers, NEW cost, Allow(c, cost) \/ Deny(c, cost) PROVE Untouched'
  BY <1>1, <1>4 DEF Allow, Deny, Untouched
<1>5. CASE Tick \/ SetBack \/ UNCHANGED bucketVars
  BY <1>1, <1>5 DEF Tick, SetBack, bucketVars, Untouched
<1> QED
  BY <1>2, <1>3, <1>4, <1>5 DEF BucketNext, Consume

LEMMA StepUnadvised == IInv /\ [BucketNext]_bucketVars => Unadvised'
<1> SUFFICES ASSUME IInv, [BucketNext]_bucketVars PROVE Unadvised'
  OBVIOUS
<1>1. Unadvised /\ bucket \in [created : BOOLEAN, tokens : Nat, last : Nat]
  BY DEF IInv, BucketType
<1>2. ASSUME NEW c \in Callers, NEW cost \in Costs, NotFound(c, cost) PROVE Unadvised'
  BY <1>1, <1>2 DEF NotFound, Unadvised
<1>3. ASSUME NEW c \in Callers, InitBucket(c) PROVE Unadvised'
  BY <1>1, <1>3 DEF InitBucket, Unadvised
<1>4. ASSUME NEW c \in Callers, NEW cost, Allow(c, cost) \/ Deny(c, cost) PROVE Unadvised'
  BY <1>1, <1>4 DEF Allow, Deny, Unadvised
<1>5. CASE Tick \/ SetBack \/ UNCHANGED bucketVars
  BY <1>1, <1>5 DEF Tick, SetBack, bucketVars, Unadvised, NoAdvice
<1> QED
  BY <1>2, <1>3, <1>4, <1>5 DEF BucketNext, Consume

(* What a later refill finds: a call without a grant stores the refill and  *)
(* takes nothing away from those who wait.                                  *)
LEMMA RefillKeepsPromise ==
  ASSUME NEW tokens \in Nat, NEW last \in Nat, NEW now \in Nat, NEW until \in Nat,
         NEW parts \in Nat, NEW full \in Nat, NEW refilled \in Nat, last <= now, parts <= full,
         parts <= tokens + RefillRate * (Later(until, last) - last),
         refilled = tokens + RefillRate * (now - last) \/ refilled = full
  PROVE  parts <= refilled + RefillRate * (Later(until, now) - now)
<1>1. RefillRate \in Nat
  BY RefillRateAssumption
<1> DEFINE by   == Later(until, last)
           next == Later(until, now)
<1>2. next - now \in Nat /\ by - last \in Nat /\ now - last \in Nat /\ by <= next
      /\ next \in Nat /\ by \in Nat
  BY DEF Later
<1>7. parts <= tokens + RefillRate * (by - last)
  OBVIOUS
<1> HIDE DEF by, next
<1> DEFINE b == RefillRate * (next - now)
           w == RefillRate * (by - last)
           e == RefillRate * (now - last)
<1>3. b \in Nat /\ w \in Nat /\ e \in Nat
  BY <1>1, <1>2, TimesNat
<1>4. w <= e + b
  <2>1. by - last <= (now - last) + (next - now)
    BY <1>2
  <2>2. (now - last) + (next - now) \in Int /\ by - last \in Int /\ now - last \in Int
        /\ next - now \in Int /\ RefillRate \in Int
    BY <1>1, <1>2
  <2>3. w <= RefillRate * ((now - last) + (next - now))
    BY <1>1, <2>1, <2>2, TimesMonotone, Zenon
  <2>4. RefillRate * ((now - last) + (next - now)) = e + b
    BY <2>2, TimesDistributes
  <2> QED
    BY <2>3, <2>4
<1>5. parts <= tokens + w /\ (refilled = tokens + e \/ refilled = full)
  BY <1>7
<1> HIDE DEF b, w, e
<1>6. parts <= refilled + b
  BY <1>3, <1>4, <1>5
<1> QED
  BY <1>6 DEF b, next

LEMMA StepPromised == IInv /\ [BucketNext]_bucketVars => Promised'
<1> SUFFICES ASSUME IInv, [BucketNext]_bucketVars PROVE Promised'
  OBVIOUS
<1>1. BucketType /\ Promised /\ Untouched
  BY DEF IInv
<1>2. RefillRate \in Nat /\ Second \in Nat /\ MaxTokens \in Nat /\ RefillRate * 0 = 0
  BY RefillRateAssumption, SecondAssumption, MaxTokensAssumption
<1>3. ASSUME NEW c \in Callers, NEW cost \in Costs, NotFound(c, cost) PROVE Promised'
  BY <1>1, <1>3 DEF NotFound, Promised, By
<1>4. ASSUME NEW c \in Callers, InitBucket(c) PROVE Promised'
  <2>1. CASE bucket.created
    BY <1>1, <1>4, <2>1 DEF InitBucket, Promised, By
  <2>2. CASE ~bucket.created
    <3>1. UNCHANGED <<advised, clock>> /\ bucket' = [created |-> TRUE, tokens |-> FullBucket, last |-> clock]
      BY <1>4, <2>2 DEF InitBucket
    <3> SUFFICES ASSUME NEW d \in Callers, advised[d].cost > 0
                 PROVE  FALSE
      BY <3>1 DEF Promised
    <3> QED
      BY <1>1, <2>2 DEF Unadvised, IInv
  <2> QED
    BY <2>1, <2>2
<1>5. ASSUME NEW c \in Callers, NEW cost \in Nat, Allow(c, cost) PROVE Promised'
  BY <1>5 DEF Allow, Promised, NoAdvice
<1>6. ASSUME NEW c \in Callers, NEW cost \in Nat, Deny(c, cost) PROVE Promised'
  <2> DEFINE back == clock + RetryAfter(cost * Second - Refilled) * Second
  <2>1. /\ advised' = [advised EXCEPT ![c] = IF cost > MaxTokens THEN NoAdvice
                                             ELSE [cost |-> cost, until |-> back]]
        /\ bucket' = [bucket EXCEPT !.tokens = Refilled, !.last = clock]
        /\ clock' = clock
    BY <1>6 DEF Deny
  <2>2. bucket'.tokens = Refilled /\ bucket'.last = clock
    BY <1>1, <2>1 DEF BucketType
  <2>3. ASSUME NEW d \in Callers, advised'[d].cost > 0
        PROVE  /\ advised'[d].cost <= MaxTokens
               /\ bucket'.last <= clock'
               /\ advised'[d].cost * Second <= bucket'.tokens + RefillRate * (By(d)' - bucket'.last)
    <3>1. CASE d = c
      <4>1. advised'[d] = [cost |-> cost, until |-> back] /\ cost <= MaxTokens
        <5>1. advised'[d] = IF cost > MaxTokens THEN NoAdvice ELSE [cost |-> cost, until |-> back]
          BY <1>1, <2>1, <3>1 DEF BucketType
        <5> HIDE DEF back
        <5>2. ~(cost > MaxTokens)
          BY <2>3, <5>1 DEF NoAdvice
        <5> QED
          BY <1>2, <5>1, <5>2
      <4> DEFINE n == RetryAfter(cost * Second - Refilled)
                 p == cost * Second
      <4>2. p \in Nat /\ Refilled \in Nat /\ clock \in Nat /\ p - Refilled \in Nat
        BY <1>1, <1>2, <1>6, TimesNat, RefilledBounds, Numbers DEF Deny
      <4>3. n \in Nat /\ n * (RefillRate * Second) >= p - Refilled
        <5>1. RefillRate * Second \in Nat \ {0}
          BY RefillRateAssumption, SecondAssumption
        <5>2. n = (p - Refilled + RefillRate * Second - 1) \div (RefillRate * Second)
          BY DEF RetryAfter
        <5> HIDE DEF n, p
        <5> QED
          BY <4>2, <5>1, <5>2, CeilDiv
      <4>4. n * (RefillRate * Second) = RefillRate * (n * Second) /\ n * Second \in Nat
        BY <4>3, <1>2
      <4>5. back = clock + n * Second
        OBVIOUS
      <4> HIDE DEF n, p, back
      <4>6. By(d)' - bucket'.last = n * Second
        BY <2>2, <4>1, <4>2, <4>4, <4>5 DEF By, Later
      <4>7. p <= Refilled + RefillRate * (n * Second)
        <5> DEFINE z == RefillRate * (n * Second)
        <5>1. z \in Nat /\ z >= p - Refilled
          BY <1>2, <4>3, <4>4, TimesNat
        <5> HIDE DEF z
        <5>2. p <= Refilled + z
          BY <4>2, <5>1
        <5> QED
          BY <5>2 DEF z
      <4>8. bucket'.last <= clock'
        BY <2>1, <2>2, <4>2
      <4> QED
        BY <2>2, <4>1, <4>6, <4>7, <4>8 DEF p
    <3>2. CASE d # c
      <4>1. advised'[d] = advised[d]
        BY <1>1, <2>1, <3>2 DEF BucketType
      <4>2. /\ advised[d].cost <= MaxTokens
            /\ bucket.last <= clock
            /\ advised[d].cost * Second <= bucket.tokens + RefillRate * (By(d) - bucket.last)
        BY <1>1, <2>3, <4>1 DEF Promised
      <4> DEFINE p == advised[d].cost * Second
                 u == advised[d].until
      <4>3. advised[d].cost \in Nat /\ u \in Nat
        BY <1>1 DEF BucketType, Advice
      <4>4. p <= FullBucket
        BY <1>2, <4>2, <4>3, CostInParts
      <4>5. Elapsed = clock - bucket.last
        BY <1>1, <4>2, Numbers DEF Elapsed
      <4>6. Refilled = bucket.tokens + RefillRate * (clock - bucket.last) \/ Refilled = FullBucket
        BY <1>1, <4>5, RefilledBounds
      <4>7. p \in Nat /\ FullBucket \in Nat /\ Refilled \in Nat
        BY <1>1, <1>2, <4>3, TimesNat, RefilledBounds, Numbers
      <4>9. By(d)' = Later(u, clock)
        BY <2>2, <4>1 DEF By
      <4>10. p <= bucket.tokens + RefillRate * (Later(u, bucket.last) - bucket.last)
        BY <4>2 DEF By
      <4>11. bucket.tokens \in Nat /\ bucket.last \in Nat /\ clock \in Nat /\ bucket.last <= clock
        BY <1>1, <4>2, Numbers
      <4> HIDE DEF p, u
      <4>13. p <= Refilled + RefillRate * (Later(u, clock) - clock)
        BY <4>3, <4>4, <4>6, <4>7, <4>10, <4>11, RefillKeepsPromise
      <4>14. bucket'.last <= clock'
        BY <2>1, <2>2, <4>11
      <4> QED
        BY <2>2, <4>1, <4>2, <4>9, <4>13, <4>14 DEF p
    <3> QED
      BY <3>1, <3>2
  <2> QED
    BY <2>3 DEF Promised
<1>7. CASE Tick
  <2>1. UNCHANGED <<bucket, advised>> /\ clock' = clock + 1
    BY <1>7 DEF Tick
  <2>2. \A d \in Callers : By(d)' = By(d)
    BY <2>1 DEF By
  <2>3. bucket.last <= clock => bucket'.last <= clock'
    BY <1>1, <2>1, Numbers
  <2> QED
    BY <1>1, <2>1, <2>2, <2>3 DEF Promised
<1>8. CASE SetBack
  BY <1>8 DEF SetBack, Promised, NoAdvice
<1>9. CASE UNCHANGED bucketVars
  BY <1>1, <1>9 DEF bucketVars, Promised, By
<1>10. Costs \subseteq Nat
  BY CostsAssumption
<1> QED
  BY <1>1, <1>3, <1>4, <1>5, <1>6, <1>7, <1>8, <1>9, <1>10 DEF BucketNext, Consume, BucketType

-----------------------------------------------------------------------------
THEOREM Invariance == BucketSpec => []IInv
<1>1. IInv /\ [BucketNext]_bucketVars => IInv'
  BY StepTypes, StepUntouched, StepUnadvised, StepAccounts, StepPromised DEF IInv
<1> QED
  BY InitHolds, <1>1, PTL DEF BucketSpec

(* For every number of processes behind a key, whatever the interleaving of *)
(* their first uses and whatever the wall clock does, no more tokens are    *)
(* handed out than one bucketful and the refill of the clock's forward      *)
(* movement (consumeToken, initBucket, createSqliteRateLimiter).            *)
THEOREM RateIsBounded == BucketSpec => []RateBounded
<1>1. IInv => RateBounded
  <2> SUFFICES ASSUME IInv PROVE RateBounded
    OBVIOUS
  <2> DEFINE e == RefillRate * Elapsed
             f == RefillRate * forward
             g == granted * Second
             k == FullBucket
  <2>1. g + bucket.tokens + e <= k + f
    BY DEF IInv, Accounted
  <2>2. g \in Nat /\ e \in Nat /\ k \in Nat /\ f \in Nat /\ bucket.tokens \in Nat
    BY TimesNat, RefilledBounds, RefillRateAssumption, SecondAssumption, Numbers DEF IInv
  <2> HIDE DEF e, f, g, k
  <2>3. g + bucket.tokens <= k + f
    BY <2>1, <2>2
  <2> QED
    BY <2>3 DEF RateBounded, f, g, k
<1> QED
  BY Invariance, <1>1, PTL

(* For every number of processes: a denied caller that waits the seconds it *)
(* was told then finds its tokens, unless another one took some or the      *)
(* clock went back meanwhile (the ceil of consumeToken's retryAfterSeconds).*)
THEOREM RetryAfterIsHonest == BucketSpec => []RetryHonest
<1>1. IInv => RetryHonest
  <2> SUFFICES ASSUME IInv, NEW c \in Callers, advised[c].cost > 0, clock >= advised[c].until
               PROVE  Refilled >= advised[c].cost * Second
    BY DEF RetryHonest
  <2>1. BucketType /\ Promised
    BY DEF IInv
  <2> DEFINE p == advised[c].cost * Second
             e == RefillRate * Elapsed
             w == RefillRate * (By(c) - bucket.last)
  <2>2. advised[c].cost <= MaxTokens /\ bucket.last <= clock /\ p <= bucket.tokens + w
    BY <2>1 DEF Promised
  <2>3. advised[c].cost \in Nat /\ advised[c].until \in Nat
    BY <2>1 DEF BucketType, Advice
  <2>4. bucket.tokens \in Nat /\ bucket.last \in Nat /\ clock \in Nat
    BY <2>1, Numbers
  <2>5. By(c) - bucket.last \in Nat /\ By(c) - bucket.last <= Elapsed /\ Elapsed \in Nat
    BY <2>2, <2>3, <2>4 DEF By, Later, Elapsed
  <2>6. By(c) - bucket.last \in Int /\ Elapsed \in Int /\ RefillRate \in Nat
    BY <2>5, RefillRateAssumption
  <2>7. w <= e
    BY <2>5, <2>6, TimesMonotone, Zenon
  <2>8. p \in Nat /\ e \in Nat /\ w \in Nat
    BY <2>3, <2>5, <2>6, SecondAssumption, TimesNat
  <2>9. Refilled = bucket.tokens + e \/ Refilled = FullBucket
    BY <2>1, RefilledBounds
  <2>10. p <= FullBucket
    BY <2>2, <2>3, CostInParts
  <2>11. Refilled \in Nat /\ FullBucket \in Nat
    BY <2>1, RefilledBounds
  <2> HIDE DEF p, e, w
  <2>12. Refilled >= p
    BY <2>2, <2>4, <2>7, <2>8, <2>9, <2>10, <2>11
  <2> QED
    BY <2>12 DEF p
<1> QED
  BY Invariance, <1>1, PTL

-----------------------------------------------------------------------------
(* The opening of the database: first its schema, migration by migration.   *)

(* What the migrations say, one after the other: the provers meet them by   *)
(* number.                                                                  *)
LEMMA MigrationTable ==
  /\ Len(Migrations) = 9 /\ DOMAIN Migrations = 1 .. 9
  /\ Migrations[1] = MIGRATION_V1 /\ Migrations[2] = MIGRATION_V2
  /\ Migrations[3] = MIGRATION_V3 /\ Migrations[4] = MIGRATION_V4
  /\ Migrations[5] = MIGRATION_V5 /\ Migrations[6] = MIGRATION_V6
  /\ Migrations[7] = MIGRATION_V7 /\ Migrations[8] = MIGRATION_V8
  /\ Migrations[9] = MIGRATION_V9
BY DEF Migrations

LEMMA Lengths ==
  /\ Len(MIGRATION_V1) = 2 /\ Len(MIGRATION_V2) = 1 /\ Len(MIGRATION_V3) = 1
  /\ Len(MIGRATION_V4) = 1 /\ Len(MIGRATION_V5) = 4 /\ Len(MIGRATION_V6) = 1
  /\ Len(MIGRATION_V7) = 1 /\ Len(MIGRATION_V8) = 1 /\ Len(MIGRATION_V9) = 1
BY DEF MIGRATION_V1, MIGRATION_V2, MIGRATION_V3, MIGRATION_V4, MIGRATION_V5,
       MIGRATION_V6, MIGRATION_V7, MIGRATION_V8, MIGRATION_V9

(* The tables and columns the migration to version w adds, and what they    *)
(* come to.                                                                 *)
Adds(w) == UNION {s.adds : s \in Range(Migrations[w])}

LEMMA AddsTable ==
  /\ Adds(1) = {"pins", "telemetry"} /\ Adds(2) = {"dataset"}
  /\ Adds(3) = {"prompt_fingerprint"} /\ Adds(4) = {"outcomes"}
  /\ Adds(5) = {"pins_v5", "pins"} /\ Adds(6) = {"actual_cost_usd"}
  /\ Adds(7) = {"reasoning_level_requested"} /\ Adds(8) = {"embedding_json"}
  /\ Adds(9) = {"context_fit_reason_code"}
<1>1. Adds(1) = {"pins", "telemetry"}
  BY MigrationTable DEF Adds, Range, MIGRATION_V1, CreateIfMissing, Statement
<1>2. Adds(2) = {"dataset"}
  BY MigrationTable DEF Adds, Range, MIGRATION_V2, CreateIfMissing, Statement
<1>3. Adds(3) = {"prompt_fingerprint"}
  BY MigrationTable DEF Adds, Range, MIGRATION_V3, AddColumn, Statement
<1>4. Adds(4) = {"outcomes"}
  BY MigrationTable DEF Adds, Range, MIGRATION_V4, CreateIfMissing, Statement
<1>5. Adds(5) = {"pins_v5", "pins"}
  BY MigrationTable DEF Adds, Range, MIGRATION_V5, Statement
<1>6. Adds(6) = {"actual_cost_usd"}
  BY MigrationTable DEF Adds, Range, MIGRATION_V6, AddColumn, Statement
<1>7. Adds(7) = {"reasoning_level_requested"}
  BY MigrationTable DEF Adds, Range, MIGRATION_V7, AddColumn, Statement
<1>8. Adds(8) = {"embedding_json"}
  BY MigrationTable DEF Adds, Range, MIGRATION_V8, AddColumn, Statement
<1>9. Adds(9) = {"context_fit_reason_code"}
  BY MigrationTable DEF Adds, Range, MIGRATION_V9, AddColumn, Statement
<1> QED BY <1>1, <1>2, <1>3, <1>4, <1>5, <1>6, <1>7, <1>8, <1>9

LEMMA SchemaGrows ==
  ASSUME NEW v \in 0 .. 8
  PROVE  SchemaOf(v + 1) = (SchemaOf(v) \cup Adds(v + 1)) \ {"pins_v5"}
<1>1. \A u, x : x \in SchemaOf(u) <=> x # "pins_v5" /\ \E w \in 1 .. u : x \in Adds(w)
  <2> TAKE u, x
  <2> DEFINE all == UNION {Adds(w) : w \in 1 .. u}
  <2>1. SchemaOf(u) = all \ {"pins_v5"}
    BY DEF SchemaOf, Adds
  <2>2. x \in all <=> \E w \in 1 .. u : x \in Adds(w)
    BY Zenon
  <2> HIDE DEF all
  <2> QED BY <2>1, <2>2
<1>2. \A w : w \in 1 .. v + 1 <=> w \in 1 .. v \/ w = v + 1
  OBVIOUS
<1>3. \A x : (\E w \in 1 .. v + 1 : x \in Adds(w)) <=> (\E w \in 1 .. v : x \in Adds(w)) \/ x \in Adds(v + 1)
  BY <1>2
<1>4. \A x : x \in SchemaOf(v + 1) <=> x \in (SchemaOf(v) \cup Adds(v + 1)) \ {"pins_v5"}
  BY <1>1, <1>3
<1> QED BY <1>4

LEMMA SchemaTable ==
  /\ SchemaOf(0) = {}
  /\ SchemaOf(1) = {"pins", "telemetry"}
  /\ SchemaOf(2) = {"pins", "telemetry", "dataset"}
  /\ SchemaOf(3) = {"pins", "telemetry", "dataset", "prompt_fingerprint"}
  /\ SchemaOf(4) = {"pins", "telemetry", "dataset", "prompt_fingerprint", "outcomes"}
  /\ SchemaOf(5) = SchemaOf(4)
  /\ SchemaOf(6) = SchemaOf(4) \cup {"actual_cost_usd"}
  /\ SchemaOf(7) = SchemaOf(6) \cup {"reasoning_level_requested"}
  /\ SchemaOf(8) = SchemaOf(7) \cup {"embedding_json"}
  /\ SchemaOf(9) = SchemaOf(8) \cup {"context_fit_reason_code"}
<1>0. SchemaOf(0) = {}
  BY DEF SchemaOf
<1>1. SchemaOf(1) = {"pins", "telemetry"}
  BY <1>0, SchemaGrows, AddsTable
<1>2. SchemaOf(2) = {"pins", "telemetry", "dataset"}
  BY <1>1, SchemaGrows, AddsTable
<1>3. SchemaOf(3) = {"pins", "telemetry", "dataset", "prompt_fingerprint"}
  BY <1>2, SchemaGrows, AddsTable
<1>4. SchemaOf(4) = {"pins", "telemetry", "dataset", "prompt_fingerprint", "outcomes"}
  BY <1>3, SchemaGrows, AddsTable
<1>5. SchemaOf(5) = SchemaOf(4)
  BY <1>4, SchemaGrows, AddsTable
<1>6. SchemaOf(6) = SchemaOf(4) \cup {"actual_cost_usd"}
  BY <1>4, <1>5, SchemaGrows, AddsTable
<1>7. SchemaOf(7) = SchemaOf(6) \cup {"reasoning_level_requested"}
  BY <1>4, <1>6, SchemaGrows, AddsTable
<1>8. SchemaOf(8) = SchemaOf(7) \cup {"embedding_json"}
  BY <1>4, <1>6, <1>7, SchemaGrows, AddsTable
<1>9. SchemaOf(9) = SchemaOf(8) \cup {"context_fit_reason_code"}
  BY <1>4, <1>6, <1>7, <1>8, SchemaGrows, AddsTable
<1> QED BY <1>0, <1>1, <1>2, <1>3, <1>4, <1>5, <1>6, <1>7, <1>8, <1>9

(* Everything but the pins table, the only one a migration replaces.        *)
PlainOf(v) == SchemaOf(v) \ {"pins"}

(* The schema behind the first n - 1 statements of the migration to w.      *)
Stage(w, n) ==
  CASE n = 1                    -> SchemaOf(w - 1)
    [] w = 1 /\ n = 2           -> {"pins"}
    [] w = 5 /\ n \in {2, 3}    -> SchemaOf(4) \cup {"pins_v5"}
    [] w = 5 /\ n = 4           -> (SchemaOf(4) \cup {"pins_v5"}) \ {"pins"}
    [] OTHER                    -> SchemaOf(w)

LEMMA MigrationLengths ==
  ASSUME NEW w \in 1 .. 9
  PROVE  /\ w = 1 => Len(Migrations[w]) = 2
         /\ w = 5 => Len(Migrations[w]) = 4
         /\ w \notin {1, 5} => Len(Migrations[w]) = 1
<1>2. CASE w = 1
  BY <1>2, MigrationTable, Lengths
<1>3. CASE w = 5
  BY <1>3, MigrationTable, Lengths
<1>4. CASE w \notin {1, 5}
  <2>1. w \in {2, 3, 4, 6, 7, 8, 9} BY <1>4
  <2> QED BY <1>4, <2>1, MigrationTable, Lengths
<1> QED BY <1>2, <1>3, <1>4

LEMMA PlainNames ==
  ASSUME NEW v
  PROVE  "pins_v5" \notin SchemaOf(v) /\ "pins_v5" \notin PlainOf(v) /\ "pins" \notin PlainOf(v)
BY DEF PlainOf, SchemaOf

Columns == SchemaOf(9) \cup {"pins_v5"}

LEMMA ColumnTable ==
  Columns = {"pins", "telemetry", "dataset", "prompt_fingerprint", "outcomes", "actual_cost_usd",
             "reasoning_level_requested", "embedding_json", "context_fit_reason_code", "pins_v5"}
BY SchemaTable DEF Columns

LEMMA FirstMigration ==
  /\ MIGRATION_V1[1].needs = {} /\ MIGRATION_V1[1].lacks = {} /\ MIGRATION_V1[1].adds = {"pins"} /\ MIGRATION_V1[1].drops = {}
  /\ MIGRATION_V1[2].needs = {} /\ MIGRATION_V1[2].lacks = {} /\ MIGRATION_V1[2].adds = {"telemetry"} /\ MIGRATION_V1[2].drops = {}
BY DEF MIGRATION_V1, CreateIfMissing, Statement

LEMMA FifthMigration ==
  /\ MIGRATION_V5[1].needs = {} /\ MIGRATION_V5[1].lacks = {"pins_v5"} /\ MIGRATION_V5[1].adds = {"pins_v5"} /\ MIGRATION_V5[1].drops = {}
  /\ MIGRATION_V5[2].needs = {"pins", "pins_v5"} /\ MIGRATION_V5[2].lacks = {} /\ MIGRATION_V5[2].adds = {} /\ MIGRATION_V5[2].drops = {}
  /\ MIGRATION_V5[3].needs = {"pins"} /\ MIGRATION_V5[3].lacks = {} /\ MIGRATION_V5[3].adds = {} /\ MIGRATION_V5[3].drops = {"pins"}
  /\ MIGRATION_V5[4].needs = {"pins_v5"} /\ MIGRATION_V5[4].lacks = {"pins"} /\ MIGRATION_V5[4].adds = {"pins"} /\ MIGRATION_V5[4].drops = {"pins_v5"}
BY DEF MIGRATION_V5, Statement

LEMMA SingleMigrations ==
  /\ MIGRATION_V2[1].needs = {} /\ MIGRATION_V2[1].lacks = {} /\ MIGRATION_V2[1].adds = {"dataset"} /\ MIGRATION_V2[1].drops = {}
  /\ MIGRATION_V3[1].needs = {"dataset"} /\ MIGRATION_V3[1].lacks = {"prompt_fingerprint"} /\ MIGRATION_V3[1].adds = {"prompt_fingerprint"} /\ MIGRATION_V3[1].drops = {}
  /\ MIGRATION_V4[1].needs = {} /\ MIGRATION_V4[1].lacks = {} /\ MIGRATION_V4[1].adds = {"outcomes"} /\ MIGRATION_V4[1].drops = {}
  /\ MIGRATION_V6[1].needs = {"telemetry"} /\ MIGRATION_V6[1].lacks = {"actual_cost_usd"} /\ MIGRATION_V6[1].adds = {"actual_cost_usd"} /\ MIGRATION_V6[1].drops = {}
  /\ MIGRATION_V7[1].needs = {"telemetry"} /\ MIGRATION_V7[1].lacks = {"reasoning_level_requested"} /\ MIGRATION_V7[1].adds = {"reasoning_level_requested"} /\ MIGRATION_V7[1].drops = {}
  /\ MIGRATION_V8[1].needs = {"dataset"} /\ MIGRATION_V8[1].lacks = {"embedding_json"} /\ MIGRATION_V8[1].adds = {"embedding_json"} /\ MIGRATION_V8[1].drops = {}
  /\ MIGRATION_V9[1].needs = {"telemetry"} /\ MIGRATION_V9[1].lacks = {"context_fit_reason_code"} /\ MIGRATION_V9[1].adds = {"context_fit_reason_code"} /\ MIGRATION_V9[1].drops = {}
BY DEF MIGRATION_V2, MIGRATION_V3, MIGRATION_V4, MIGRATION_V6, MIGRATION_V7, MIGRATION_V8,
       MIGRATION_V9, CreateIfMissing, AddColumn, Statement

(* Every migration but the first and the fifth is one statement that only   *)
(* adds.                                                                    *)
LEMMA OtherMigrations ==
  ASSUME NEW w \in 1 .. 9, w \notin {1, 5}
  PROVE  LET s == Migrations[w][1]
         IN  /\ s.needs \subseteq SchemaOf(w - 1) /\ s.lacks \cap SchemaOf(w - 1) = {}
             /\ s.drops = {}
             /\ "pins" \notin s.adds /\ "pins_v5" \notin s.adds /\ s.adds \subseteq Columns
             /\ SchemaOf(w) = SchemaOf(w - 1) \cup s.adds
<1>1. CASE w = 2
  <2>1. w - 1 = 1 BY <1>1
  <2>2. Migrations[w] = MIGRATION_V2 BY <1>1, MigrationTable
  <2> QED BY <2>1, <2>2, <1>1, SingleMigrations, SchemaTable, ColumnTable
<1>2. CASE w = 3
  <2>1. w - 1 = 2 BY <1>2
  <2>2. Migrations[w] = MIGRATION_V3 BY <1>2, MigrationTable
  <2> QED BY <2>1, <2>2, <1>2, SingleMigrations, SchemaTable, ColumnTable
<1>3. CASE w = 4
  <2>1. w - 1 = 3 BY <1>3
  <2>2. Migrations[w] = MIGRATION_V4 BY <1>3, MigrationTable
  <2> QED BY <2>1, <2>2, <1>3, SingleMigrations, SchemaTable, ColumnTable
<1>4. CASE w = 6
  <2>1. w - 1 = 5 BY <1>4
  <2>2. Migrations[w] = MIGRATION_V6 BY <1>4, MigrationTable
  <2> QED BY <2>1, <2>2, <1>4, SingleMigrations, SchemaTable, ColumnTable
<1>5. CASE w = 7
  <2>1. w - 1 = 6 BY <1>5
  <2>2. Migrations[w] = MIGRATION_V7 BY <1>5, MigrationTable
  <2> QED BY <2>1, <2>2, <1>5, SingleMigrations, SchemaTable, ColumnTable
<1>6. CASE w = 8
  <2>1. w - 1 = 7 BY <1>6
  <2>2. Migrations[w] = MIGRATION_V8 BY <1>6, MigrationTable
  <2> QED BY <2>1, <2>2, <1>6, SingleMigrations, SchemaTable, ColumnTable
<1>7. CASE w = 9
  <2>1. w - 1 = 8 BY <1>7
  <2>2. Migrations[w] = MIGRATION_V9 BY <1>7, MigrationTable
  <2> QED BY <2>1, <2>2, <1>7, SingleMigrations, SchemaTable, ColumnTable
<1> QED BY <1>1, <1>2, <1>3, <1>4, <1>5, <1>6, <1>7

(* What a statement does to the tables of pins.                             *)
LEMMA PinStatements ==
  ASSUME NEW w \in 1 .. 9, NEW n \in 1 .. Len(Migrations[w])
  PROVE  LET s == Migrations[w][n]
         IN  /\ s.adds \subseteq Columns
             /\ s.drops \subseteq {"pins", "pins_v5"}
             /\ "pins" \in s.drops => w = 5 /\ n = 3
             /\ "pins_v5" \in s.drops => w = 5 /\ n = 4
             /\ "pins_v5" \in s.adds => w = 5 /\ n = 1
             /\ w = 1 /\ n = 1 => "pins" \in s.adds
             /\ w = 5 /\ n = 1 => "pins_v5" \in s.adds /\ "pins_v5" \in s.lacks
             /\ w = 5 /\ n = 2 => {"pins", "pins_v5"} \subseteq s.needs
             /\ w = 5 /\ n = 4 => "pins" \in s.adds /\ "pins_v5" \in s.drops
<1>1. CASE w = 1
  <2>1. Migrations[w] = MIGRATION_V1 BY <1>1, MigrationTable
  <2>2. n \in {1, 2}
    BY <2>1, Lengths
  <2> QED BY <1>1, <2>1, <2>2, FirstMigration, ColumnTable
<1>2. CASE w = 5
  <2>1. Migrations[w] = MIGRATION_V5 BY <1>2, MigrationTable
  <2>2. n \in {1, 2, 3, 4}
    BY <2>1, Lengths
  <2> QED BY <1>2, <2>1, <2>2, FifthMigration, ColumnTable
<1>3. CASE w \notin {1, 5}
  <2>0. Len(Migrations[w]) = 1 BY <1>3, MigrationLengths, Zenon
  <2>1. n = 1
    BY <2>0
  <2> QED BY <1>3, <2>1, OtherMigrations
<1> QED BY <1>1, <1>2, <1>3

LEMMA LastStatement ==
  ASSUME NEW w \in 1 .. 9
  PROVE  PlainOf(w) \subseteq PlainOf(w - 1) \cup Migrations[w][Len(Migrations[w])].adds
<1>1. CASE w = 1
  <2>1. Migrations[w] = MIGRATION_V1 /\ w - 1 = 0 BY <1>1, MigrationTable
  <2> QED BY <1>1, <2>1, Lengths, FirstMigration, SchemaTable DEF PlainOf
<1>2. CASE w = 5
  <2>1. w - 1 = 4 BY <1>2
  <2> QED BY <1>2, <2>1, SchemaTable DEF PlainOf
<1>3. CASE w \notin {1, 5}
  BY <1>3, MigrationLengths, OtherMigrations DEF PlainOf
<1> QED BY <1>1, <1>2, <1>3

LEMMA Stages ==
  ASSUME NEW w \in 1 .. 9
  PROVE  /\ Stage(w, 1) = SchemaOf(w - 1)
         /\ Stage(w, Len(Migrations[w]) + 1) = SchemaOf(w)
<1>1. Stage(w, 1) = SchemaOf(w - 1)
  BY DEF Stage
<1>2. CASE w = 1
  <2>0. Len(Migrations[w]) = 2 BY <1>2, MigrationLengths, Zenon
  <2>1. Len(Migrations[w]) + 1 = 3 BY <2>0
  <2>2. Stage(1, 3) = SchemaOf(1) BY DEF Stage
  <2> QED BY <1>1, <1>2, <2>1, <2>2
<1>3. CASE w = 5
  <2>0. Len(Migrations[w]) = 4 BY <1>3, MigrationLengths, Zenon
  <2>1. Len(Migrations[w]) + 1 = 5 BY <2>0
  <2>2. Stage(5, 5) = SchemaOf(5) BY SchemaTable DEF Stage
  <2> QED BY <1>1, <1>3, <2>1, <2>2
<1>4. CASE w \notin {1, 5}
  <2>0. Len(Migrations[w]) = 1 BY <1>4, MigrationLengths, Zenon
  <2>1. Len(Migrations[w]) + 1 = 2 BY <2>0
  <2>2. Stage(w, 2) = SchemaOf(w) BY <1>4 DEF Stage
  <2> QED BY <1>1, <2>1, <2>2
<1> QED BY <1>2, <1>3, <1>4

(* A statement finds what it needs at its stage and leads to the next.      *)
LEMMA StagesFollow ==
  ASSUME NEW w \in 1 .. 9, NEW n \in 1 .. Len(Migrations[w])
  PROVE  LET s == Migrations[w][n]
         IN  /\ s.needs \subseteq Stage(w, n) /\ s.lacks \cap Stage(w, n) = {}
             /\ (Stage(w, n) \cup s.adds) \ s.drops = Stage(w, n + 1)
<1>1. CASE w = 1
  <2>1. Migrations[w] = MIGRATION_V1 BY <1>1, MigrationTable
  <2>2. n \in {1, 2}
    BY <2>1, Lengths
  <2>3. Stage(1, 1) = {} /\ Stage(1, 2) = {"pins"} /\ Stage(1, 3) = {"pins", "telemetry"}
    <3>1. 1 - 1 = 0 OBVIOUS
    <3> QED BY <3>1, SchemaTable DEF Stage
  <2>4. CASE n = 1
    <3>1. n + 1 = 2 BY <2>4
    <3> QED BY <1>1, <2>1, <2>3, <2>4, <3>1, FirstMigration
  <2>5. CASE n = 2
    <3>1. n + 1 = 3 BY <2>5
    <3> QED BY <1>1, <2>1, <2>3, <2>5, <3>1, FirstMigration
  <2> QED BY <2>2, <2>4, <2>5
<1>2. CASE w = 5
  <2>1. Migrations[w] = MIGRATION_V5 BY <1>2, MigrationTable
  <2>8. n \in {1, 2, 3, 4}
    BY <2>1, Lengths
  <2>2. /\ Stage(5, 1) = SchemaOf(4) /\ Stage(5, 5) = SchemaOf(4)
        /\ Stage(5, 2) = SchemaOf(4) \cup {"pins_v5"}
        /\ Stage(5, 3) = SchemaOf(4) \cup {"pins_v5"}
        /\ Stage(5, 4) = (SchemaOf(4) \cup {"pins_v5"}) \ {"pins"}
    <3>1. 5 - 1 = 4 OBVIOUS
    <3> QED BY <3>1, SchemaTable DEF Stage
  <2>3. "pins" \in SchemaOf(4) /\ "pins_v5" \notin SchemaOf(4)
    BY SchemaTable
  <2>4. CASE n = 1
    <3>1. n + 1 = 2 BY <2>4
    <3> QED BY <1>2, <2>1, <2>2, <2>3, <2>4, <3>1, FifthMigration
  <2>5. CASE n = 2
    <3>1. n + 1 = 3 BY <2>5
    <3>2. MIGRATION_V5[2].needs \subseteq Stage(5, 2)
      BY <2>2, <2>3, FifthMigration
    <3>3. (Stage(5, 2) \cup {}) \ {} = Stage(5, 3)
      BY <2>2
    <3> QED BY <1>2, <2>1, <2>5, <3>1, <3>2, <3>3, FifthMigration
  <2>6. CASE n = 3
    <3>1. n + 1 = 4 BY <2>6
    <3> QED BY <1>2, <2>1, <2>2, <2>3, <2>6, <3>1, FifthMigration
  <2>7. CASE n = 4
    <3>1. n + 1 = 5 BY <2>7
    <3> QED BY <1>2, <2>1, <2>2, <2>3, <2>7, <3>1, FifthMigration
  <2> QED BY <2>8, <2>4, <2>5, <2>6, <2>7
<1>3. CASE w \notin {1, 5}
  <2>0. Len(Migrations[w]) = 1 BY <1>3, MigrationLengths, Zenon
  <2>1. n = 1 /\ n + 1 = Len(Migrations[w]) + 1
    BY <2>0
  <2>2. Stage(w, n) = SchemaOf(w - 1) /\ Stage(w, n + 1) = SchemaOf(w)
    BY <2>1, Stages
  <2> QED BY <1>3, <2>1, <2>2, OtherMigrations
<1> QED BY <1>1, <1>2, <1>3

-----------------------------------------------------------------------------
(* The states of a file and of a process.                                   *)
FileStates == [schema : SUBSET Columns, version : 0 .. 9, corrupt : BOOLEAN, used : BOOLEAN,
               torn : BOOLEAN, raced : BOOLEAN]
OpenerAt == {"out", "opening", "reading", "migrating", "opened", "recovering", "degraded"}
OpenerStates == [at : OpenerAt, file : Files \cup {NoFile}, version : 0 .. 8, next : 1 .. 5,
                 again : BOOLEAN, faulty : BOOLEAN]

Migrates(p, f) == opener[p].file = f /\ opener[p].at = "migrating"
Opened(p, f)   == opener[p].file = f /\ opener[p].at = "opened"

OpeningType ==
  /\ file \in [Files -> FileStates]
  /\ opener \in [Processes -> OpenerStates]
  /\ path \in Files \cup {NoFile}
  /\ \A f \in Files : ~file[f].used => file[f] = Unused
  /\ \A p \in Processes :
       LET o == opener[p] IN
       /\ o.at \in {"reading", "migrating", "opened"} => o.file \in Files /\ file[o.file].used
       /\ o.at \in {"recovering", "degraded"} => o.faulty \/ o.file \in Files
       /\ o.at = "migrating" => o.next <= Len(Statements(p)) + 1

(* Whoever is past the pragmas holds a database; a second attempt that no   *)
(* failing host spoiled finds a fresh file.                                 *)
Sane ==
  /\ \A p \in Processes, f \in Files : Migrates(p, f) \/ Opened(p, f) => ~file[f].corrupt
  /\ \A p \in Processes : opener[p].again /\ ~opener[p].faulty =>
       /\ path \in Files => ~file[path].corrupt
       /\ opener[p].at = "reading" => ~file[opener[p].file].corrupt

(* A file nobody raced for has one process at most on it, which counts on   *)
(* from the file's own version.                                             *)
Alone ==
  \A f \in Files : ~file[f].raced =>
    /\ \A p, q \in Processes : Holds(p, f) /\ Holds(q, f) => p = q
    /\ \A p \in Processes : Migrates(p, f) => opener[p].version = file[f].version
    /\ \A p \in Processes : Opened(p, f) => file[f].version = 9

(* Every table and column but the pins table is there for good once the     *)
(* version that adds it was written, or was read.                           *)
Plain ==
  /\ \A f \in Files : PlainOf(file[f].version) \subseteq file[f].schema
  /\ \A p \in Processes, f \in Files : Migrates(p, f) =>
       /\ PlainOf(opener[p].version) \subseteq file[f].schema
       /\ opener[p].next > Len(Statements(p)) => PlainOf(opener[p].version + 1) \subseteq file[f].schema
  /\ \A p \in Processes, f \in Files : Opened(p, f) => PlainOf(9) \subseteq file[f].schema

(* The pins table is there, or is being renamed, or the file is torn.       *)
Renames(p, f) == Migrates(p, f) /\ opener[p].version = 4 /\ opener[p].next = 4
PinKept(f) ==
  \/ "pins" \in file[f].schema
  \/ file[f].torn
  \/ \E q \in Processes : Renames(q, f)
Pinned ==
  /\ \A f \in Files : file[f].version >= 1 => PinKept(f)
  /\ \A p \in Processes, f \in Files :
       Migrates(p, f) /\ (opener[p].version >= 1 \/ opener[p].next > 1) => PinKept(f)
  /\ \A p \in Processes, f \in Files : Opened(p, f) => PinKept(f)

(* Where nobody raced, the replacement of the pins table is where its       *)
(* process is.                                                              *)
SwapHere(p, s) ==
  /\ opener[p].version = 0 /\ opener[p].next > 1 => "pins" \in s
  /\ opener[p].version = 4 /\ opener[p].next \in {2, 3} => "pins" \in s /\ "pins_v5" \in s
  /\ opener[p].version = 4 /\ opener[p].next = 4 => "pins_v5" \in s
  /\ opener[p].version = 4 /\ opener[p].next = 5 => "pins" \in s /\ "pins_v5" \notin s
Swapped ==
  \A f \in Files : ~file[f].raced =>
    /\ file[f].version # 4 => "pins_v5" \notin file[f].schema
    /\ file[f].version \notin {0, 4} => "pins" \in file[f].schema
    /\ file[f].version = 4 => "pins" \in file[f].schema \/ "pins_v5" \in file[f].schema
    /\ \A p \in Processes : Migrates(p, f) => SwapHere(p, file[f].schema)

(* A sound file has exactly the schema of its version, or of the stage its  *)
(* process has reached.                                                     *)
Sound(f) == ~file[f].raced /\ ~file[f].torn /\ ~file[f].corrupt
Exact ==
  \A f \in Files : Sound(f) =>
    /\ \A p \in Processes : Migrates(p, f) => file[f].schema = Stage(opener[p].version + 1, opener[p].next)
    /\ (\A p \in Processes : ~Migrates(p, f)) => file[f].schema = SchemaOf(file[f].version)

OInv == OpeningType /\ Sane /\ Alone /\ Plain /\ Pinned /\ Swapped /\ Exact /\ RecoveryJustified

LEMMA OutType ==
  /\ Out \in OpenerStates
  /\ Out.at = "out" /\ Out.file = NoFile /\ Out.version = 0 /\ Out.next = 1 /\ ~Out.again /\ ~Out.faulty
BY DEF Out, OpenerStates, OpenerAt

LEMMA UnusedType ==
  /\ Unused \in FileStates
  /\ Unused.schema = {} /\ Unused.version = 0 /\ ~Unused.corrupt /\ ~Unused.used /\ ~Unused.torn /\ ~Unused.raced
BY DEF Unused, FileStates

LEMMA LastVersion == CURRENT_SCHEMA_VERSION = 9
BY MigrationTable DEF CURRENT_SCHEMA_VERSION

(* What holds when a store opens.                                           *)
LEMMA OpenedIsComplete ==
  ASSUME OInv
  PROVE  OpenedComplete
<1> SUFFICES ASSUME NEW p \in Processes, opener[p].at = "opened"
             PROVE  LET f == opener[p].file IN
                    \/ SchemaOf(9) \subseteq file[f].schema
                    \/ file[f].raced /\ (Replacing(f) \/ file[f].torn)
  BY LastVersion DEF OpenedComplete
<1> DEFINE f == opener[p].file
<1>1. f \in Files /\ Opened(p, f)
  BY DEF OInv, OpeningType, Opened
<1> HIDE DEF f
<1>2. PlainOf(9) \subseteq file[f].schema
  BY <1>1 DEF OInv, Plain
<1>3. CASE "pins" \in file[f].schema
  BY <1>2, <1>3 DEF PlainOf, f
<1>4. CASE ~file[f].raced
  <2>1. file[f].version = 9
    BY <1>1, <1>4 DEF OInv, Alone
  <2>2. "pins" \in file[f].schema
    BY <1>1, <1>4, <2>1 DEF OInv, Swapped
  <2> QED BY <1>3, <2>2
<1>5. CASE "pins" \notin file[f].schema /\ file[f].raced
  <2>1. PinKept(f)
    BY <1>1 DEF OInv, Pinned
  <2>2. file[f].torn \/ \E q \in Processes : Renames(q, f)
    BY <1>5, <2>1 DEF PinKept
  <2>3. ASSUME NEW q \in Processes, Renames(q, f) PROVE Replacing(f)
    BY <2>3 DEF Replacing, Renames, Migrates, Holds, Inside
  <2>4. Replacing(f) \/ file[f].torn
    BY <2>2, <2>3
  <2> QED BY <1>5, <2>4 DEF f
<1> QED BY <1>3, <1>4, <1>5 DEF f

LEMMA TornFile ==
  ASSUME NEW r \in FileStates
  PROVE  LET t == [r EXCEPT !.torn = TRUE]
         IN  /\ t \in FileStates /\ t.torn /\ t.schema = r.schema /\ t.version = r.version
             /\ t.corrupt = r.corrupt /\ t.used = r.used /\ t.raced = r.raced
<1> DEFINE t == [r EXCEPT !.torn = TRUE]
<1>1. t \in FileStates
  BY DEF FileStates
<1>2. /\ t.torn /\ t.schema = r.schema /\ t.version = r.version
      /\ t.corrupt = r.corrupt /\ t.used = r.used /\ t.raced = r.raced
  BY DEF FileStates
<1> QED BY <1>1, <1>2

LEMMA StageStarts ==
  ASSUME NEW v \in 0 .. 8
  PROVE  Stage(v + 1, 1) = SchemaOf(v)
<1>1. v + 1 \in 1 .. 9
  OBVIOUS
<1>2. PICK w \in 1 .. 9 : w = v + 1
  BY <1>1
<1>3. w - 1 = v
  BY <1>2
<1>4. Stage(w, 1) = SchemaOf(w - 1)
  BY Stages
<1>5. Stage(w, 1) = SchemaOf(v)
  BY <1>3, <1>4, Zenon
<1> QED BY <1>2, <1>5, Zenon

LEMMA NotEmpty ==
  ASSUME NEW w \in 1 .. 9
  PROVE  ~(1 > Len(Migrations[w]))
<1>1. PICK l \in {1, 2, 4} : l = Len(Migrations[w])
  BY MigrationLengths, Zenon
<1>2. ~(1 > 1) /\ ~(1 > 2) /\ ~(1 > 4)
  OBVIOUS
<1>3. l = 1 \/ l = 2 \/ l = 4
  BY <1>1
<1> QED BY <1>1, <1>2, <1>3, Zenon


(* A process that lets its file go: torn, if it was inside a migration.     *)
LEMMA LeaveKeeps ==
  ASSUME OInv, NEW p \in Processes, NEW o \in OpenerStates,
         opener' = [opener EXCEPT ![p] = o],
         o.at \in {"out", "opening", "recovering", "degraded"},
         file' = Abandoned(p), path' \in {path, NoFile},
         o.again /\ ~o.faulty => path' = NoFile \/ (path' \in Files /\ ~file[path'].corrupt),
         o.at \in {"recovering", "degraded"} /\ ~o.faulty =>
           /\ o.file = opener[p].file /\ o.file \in Files
           /\ \/ file[o.file].torn \/ file[o.file].raced
              \/ file[o.file].corrupt /\ o.at = "recovering"
  PROVE  OInv'
<1> USE OpeningAssumption
<1> DEFINE g == opener[p].file
<1>type. OpeningType
  BY DEF OInv
<1>1. /\ opener'[p] = o
      /\ \A q \in Processes : q # p => opener'[q] = opener[q]
      /\ opener' \in [Processes -> OpenerStates]
  BY <1>type DEF OpeningType
<1>2. Inside(p) => g \in Files
  BY <1>type DEF OpeningType, Inside
<1>3. /\ \A f \in Files : /\ file'[f].schema = file[f].schema /\ file'[f].version = file[f].version
                          /\ file'[f].corrupt = file[f].corrupt /\ file'[f].used = file[f].used
                          /\ file'[f].raced = file[f].raced
                          /\ file[f].torn => file'[f].torn
      /\ file' \in [Files -> FileStates]
      /\ Inside(p) => file'[g].torn
      /\ \A f \in Files : f # g => file'[f] = file[f]
      /\ ~Inside(p) => file' = file
  <2>1. CASE Inside(p)
    <3>1. file' = [file EXCEPT ![g].torn = TRUE]
      BY <2>1 DEF Abandoned
    <3>2. file \in [Files -> FileStates] /\ g \in Files
      BY <1>2, <1>type, <2>1 DEF OpeningType
    <3>3. /\ DOMAIN file' = Files /\ file'[g] = [file[g] EXCEPT !.torn = TRUE]
          /\ \A f \in Files : f # g => file'[f] = file[f]
      BY <3>1, <3>2
    <3>4. /\ file'[g] \in FileStates /\ file'[g].torn
          /\ file'[g].schema = file[g].schema /\ file'[g].version = file[g].version
          /\ file'[g].corrupt = file[g].corrupt /\ file'[g].used = file[g].used
          /\ file'[g].raced = file[g].raced
      BY <3>2, <3>3, TornFile
    <3>5. file' \in [Files -> FileStates]
      BY <3>1, <3>2, <3>3, <3>4
    <3> QED BY <2>1, <3>3, <3>4, <3>5
  <2>2. CASE ~Inside(p)
    BY <1>type, <2>2 DEF Abandoned, OpeningType
  <2> QED BY <2>1, <2>2
<1> HIDE DEF g
<1>4. \A f \in Files : ~Holds(p, f)' /\ ~Migrates(p, f)' /\ ~Opened(p, f)'
  BY <1>1 DEF Holds, Migrates, Opened
<1>5. \A f \in Files, q \in Processes : q # p =>
        Holds(q, f)' = Holds(q, f) /\ Migrates(q, f)' = Migrates(q, f) /\ Opened(q, f)' = Opened(q, f)
  BY <1>1 DEF Holds, Migrates, Opened
<1>6. OpeningType'
  <2>1. \A f \in Files : ~file'[f].used => file'[f] = Unused
    <3> SUFFICES ASSUME NEW f \in Files, ~file'[f].used PROVE file'[f] = Unused
      OBVIOUS
    <3>1. file[f] = Unused
      BY <1>3, <1>type DEF OpeningType
    <3>2. Inside(p) => file[g].used
      BY <1>2, <1>type DEF OpeningType, Inside, g
    <3> QED BY <1>3, <3>1, <3>2
  <2> QED BY <1>1, <1>3, <1>type, <2>1 DEF OpeningType, Statements
<1>7. Sane'
  BY <1>1, <1>3, <1>4, <1>5, <1>type DEF OInv, Sane, OpeningType
<1>8. Alone'
  BY <1>1, <1>3, <1>4, <1>5 DEF OInv, Alone, Migrates
<1>9. Plain'
  BY <1>1, <1>3, <1>4, <1>5 DEF OInv, Plain, Statements
<1>10. \A f \in Files : PinKept(f) => PinKept(f)'
  <2> SUFFICES ASSUME NEW f \in Files, PinKept(f), "pins" \notin file[f].schema, ~file[f].torn
               PROVE  PinKept(f)'
    BY <1>3 DEF PinKept
  <2>1. PICK q \in Processes : Renames(q, f)
    BY DEF PinKept
  <2>2. CASE q = p
    BY <1>3, <2>1, <2>2 DEF PinKept, Renames, Migrates, Inside, g
  <2>3. CASE q # p
    BY <1>1, <2>1, <2>3 DEF PinKept, Renames, Migrates
  <2> QED BY <2>2, <2>3
<1>11. Pinned'
  BY <1>1, <1>3, <1>4, <1>5, <1>10 DEF OInv, Pinned
<1>12. Swapped'
  BY <1>1, <1>3, <1>4, <1>5 DEF OInv, Swapped, SwapHere
<1>13. Exact'
  <2> SUFFICES ASSUME NEW f \in Files, Sound(f)'
               PROVE  /\ \A q \in Processes : Migrates(q, f)' =>
                           file'[f].schema = Stage(opener'[q].version + 1, opener'[q].next)
                      /\ (\A q \in Processes : ~Migrates(q, f)') => file'[f].schema = SchemaOf(file'[f].version)
    BY DEF Exact
  <2>1. Sound(f) /\ file'[f].schema = file[f].schema /\ file'[f].version = file[f].version
    BY <1>3 DEF Sound
  <2>2. \A q \in Processes : Migrates(q, f)' =>
          file'[f].schema = Stage(opener'[q].version + 1, opener'[q].next)
    BY <1>1, <1>4, <1>5, <2>1 DEF OInv, Exact
  <2>3. ASSUME \A q \in Processes : ~Migrates(q, f)' PROVE file'[f].schema = SchemaOf(file'[f].version)
    <3>1. CASE Migrates(p, f)
      <4>1. ~Inside(p) /\ g = f
        BY <1>3, <3>1 DEF Sound, Migrates, g
      <4>2. opener[p].next = 1 /\ opener[p].version \in 0 .. 8
        BY <3>1, <4>1, <1>type DEF Inside, Migrates, OpeningType, OpenerStates
      <4>3. opener[p].version = file[f].version
        BY <2>1, <3>1 DEF OInv, Alone, Sound
      <4>4. file[f].schema = Stage(opener[p].version + 1, 1)
        BY <2>1, <3>1, <4>2 DEF OInv, Exact
      <4>5. Stage(opener[p].version + 1, 1) = SchemaOf(opener[p].version)
        BY <4>2, StageStarts
      <4> QED BY <2>1, <4>3, <4>4, <4>5
    <3>2. CASE ~Migrates(p, f)
      BY <1>5, <2>1, <2>3, <3>2 DEF OInv, Exact
    <3> QED BY <3>1, <3>2
  <2> QED BY <2>2, <2>3
<1>14. RecoveryJustified'
  <2> SUFFICES ASSUME NEW q \in Processes, opener'[q].at \in {"recovering", "degraded"}, ~opener'[q].faulty
               PROVE  LET f == file'[opener'[q].file] IN
                      f.torn \/ f.raced \/ (f.corrupt /\ opener'[q].at = "recovering")
    BY DEF RecoveryJustified
  <2>1. CASE q = p
    BY <1>1, <1>3, <2>1
  <2>2. CASE q # p
    BY <1>1, <1>3, <1>type, <2>2 DEF OInv, RecoveryJustified, OpeningType
  <2> QED BY <2>1, <2>2
<1> QED BY <1>6, <1>7, <1>8, <1>9, <1>11, <1>12, <1>13, <1>14 DEF OInv

LEMMA OpenKeeps ==
  ASSUME OInv, NEW p \in Processes, OpenDatabase(p)
  PROVE  OInv'
<1> USE OpeningAssumption
<1>type. OpeningType
  BY DEF OInv
<1>0. opener[p].at = "opening"
  BY DEF OpenDatabase
<1>f. PICK f \in Files :
        /\ IF path = NoFile THEN ~file[f].used ELSE f = path
        /\ path' = f
        /\ file' = [file EXCEPT ![f].used = TRUE,
                                ![f].raced = @ \/ \E q \in Processes \ {p} : Holds(q, f)]
        /\ opener' = [opener EXCEPT ![p].at = "reading", ![p].file = f]
  BY DEF OpenDatabase
<1> DEFINE raced == file[f].raced \/ \E q \in Processes \ {p} : Holds(q, f)
<1>1. /\ opener'[p] = [opener[p] EXCEPT !.at = "reading", !.file = f]
      /\ \A q \in Processes : q # p => opener'[q] = opener[q]
      /\ DOMAIN opener' = Processes
  BY <1>f, <1>type DEF OpeningType
<1>2. opener[p] \in OpenerStates
  BY <1>type DEF OpeningType
<1>3. /\ opener'[p] \in OpenerStates
      /\ opener'[p].at = "reading" /\ opener'[p].file = f
      /\ opener'[p].again = opener[p].again /\ opener'[p].faulty = opener[p].faulty
  BY <1>1, <1>2 DEF OpenerStates, OpenerAt
<1>4. opener' \in [Processes -> OpenerStates]
  BY <1>f, <1>1, <1>3, <1>type DEF OpeningType
<1>5. /\ file'[f] = [file[f] EXCEPT !.used = TRUE, !.raced = raced]
      /\ \A h \in Files : h # f => file'[h] = file[h]
      /\ DOMAIN file' = Files
  BY <1>f, <1>type DEF OpeningType
<1>6. file[f] \in FileStates /\ raced \in BOOLEAN
  BY <1>type DEF OpeningType, FileStates
<1>7. /\ file'[f] \in FileStates /\ file'[f].used /\ file'[f].raced = raced
      /\ file'[f].schema = file[f].schema /\ file'[f].version = file[f].version
      /\ file'[f].corrupt = file[f].corrupt /\ file'[f].torn = file[f].torn
  <2> HIDE DEF raced
  <2> QED BY <1>5, <1>6 DEF FileStates
<1>8. file' \in [Files -> FileStates]
  BY <1>f, <1>5, <1>7, <1>type DEF OpeningType
<1>9. /\ \A h \in Files : ~Migrates(p, h)' /\ ~Opened(p, h)' /\ (Holds(p, h)' <=> h = f)
      /\ \A h \in Files, q \in Processes : q # p =>
           Holds(q, h)' = Holds(q, h) /\ Migrates(q, h)' = Migrates(q, h) /\ Opened(q, h)' = Opened(q, h)
      /\ \A h \in Files : ~Migrates(p, h) /\ ~Opened(p, h) /\ ~Holds(p, h)
  BY <1>0, <1>1, <1>3 DEF Holds, Migrates, Opened
<1>10. /\ \A h \in Files : /\ file'[h].schema = file[h].schema /\ file'[h].version = file[h].version
                           /\ file'[h].corrupt = file[h].corrupt /\ file'[h].torn = file[h].torn
                           /\ ~file'[h].raced => ~file[h].raced
       /\ \A h \in Files : file[h].used => file'[h].used
       /\ ~file'[f].raced => \A q \in Processes : q # p => ~Holds(q, f)
  BY <1>5, <1>7
<1> HIDE DEF raced
<1>11. OpeningType'
  BY <1>f, <1>1, <1>3, <1>4, <1>5, <1>7, <1>8, <1>10, <1>type DEF OpeningType, Statements
<1>12. Sane'
  <2>1. \A q \in Processes : opener[q].again /\ ~opener[q].faulty => ~file[f].corrupt
    BY <1>f, <1>type, UnusedType DEF OInv, Sane, OpeningType
  <2> QED BY <1>f, <1>0, <1>1, <1>3, <1>9, <1>10, <1>type, <2>1 DEF OInv, Sane, OpeningType
<1>13. Alone'
  <2> SUFFICES ASSUME NEW h \in Files, ~file'[h].raced
               PROVE  /\ \A q, r \in Processes : Holds(q, h)' /\ Holds(r, h)' => q = r
                      /\ \A q \in Processes : Migrates(q, h)' => opener'[q].version = file'[h].version
                      /\ \A q \in Processes : Opened(q, h)' => file'[h].version = 9
    BY DEF Alone
  <2>1. ~file[h].raced
    BY <1>10
  <2>2. \A q, r \in Processes : Holds(q, h)' /\ Holds(r, h)' => q = r
    BY <1>9, <1>10, <2>1 DEF OInv, Alone
  <2>3. \A q \in Processes : Migrates(q, h)' => opener'[q].version = file'[h].version
    BY <1>1, <1>9, <1>10, <2>1 DEF OInv, Alone
  <2>4. \A q \in Processes : Opened(q, h)' => file'[h].version = 9
    BY <1>1, <1>9, <1>10, <2>1 DEF OInv, Alone
  <2> QED BY <2>2, <2>3, <2>4
<1>14. Plain'
  BY <1>1, <1>9, <1>10 DEF OInv, Plain, Statements
<1>15. \A h \in Files : PinKept(h) => PinKept(h)'
  BY <1>1, <1>9, <1>10 DEF PinKept, Renames
<1>16. Pinned'
  BY <1>1, <1>9, <1>10, <1>15 DEF OInv, Pinned
<1>17. Swapped'
  BY <1>1, <1>9, <1>10 DEF OInv, Swapped, SwapHere
<1>18. Exact'
  BY <1>1, <1>9, <1>10 DEF OInv, Exact, Sound
<1>19. RecoveryJustified'
  <2> SUFFICES ASSUME NEW q \in Processes, opener'[q].at \in {"recovering", "degraded"}, ~opener'[q].faulty
               PROVE  LET h == file'[opener'[q].file] IN
                      h.torn \/ h.raced \/ (h.corrupt /\ opener'[q].at = "recovering")
    BY DEF RecoveryJustified
  <2>1. q # p /\ opener'[q] = opener[q]
    BY <1>1, <1>3
  <2>2. opener[q].file \in Files
    BY <1>type, <2>1 DEF OpeningType
  <2>3. \A h \in Files : file[h].raced => file'[h].raced
    BY <1>5, <1>7 DEF raced
  <2> QED BY <1>10, <2>1, <2>2, <2>3 DEF OInv, RecoveryJustified
<1> QED BY <1>11, <1>12, <1>13, <1>14, <1>16, <1>17, <1>18, <1>19 DEF OInv

(* A process that finds its file at version v, or brings it there.          *)
LEMMA CountKeeps ==
  ASSUME OInv, NEW p \in Processes, NEW f \in Files, NEW v \in 0 .. 9,
         Holds(p, f), Counts(p, v), path' = path,
         file' \in [Files -> FileStates],
         \A h \in Files : h # f => file'[h] = file[h],
         file'[f].version = v,
         file'[f].schema = file[f].schema, file'[f].corrupt = file[f].corrupt,
         file'[f].used = file[f].used, file'[f].torn = file[f].torn, file'[f].raced = file[f].raced,
         ~file[f].corrupt, ~Renames(p, f),
         PlainOf(v) \subseteq file[f].schema,
         v >= 1 => PinKept(f),
         ~file[f].raced =>
           /\ v # 4 => "pins_v5" \notin file[f].schema
           /\ v \notin {0, 4} => "pins" \in file[f].schema
           /\ v = 4 => "pins" \in file[f].schema \/ "pins_v5" \in file[f].schema
           /\ \A q \in Processes : Opened(q, f) => v = 9,
         Sound(f) => file[f].schema = SchemaOf(v)
  PROVE  OInv'
<1> USE OpeningAssumption
<1>type. OpeningType
  BY DEF OInv
<1> DEFINE o == opener'[p]
<1>0. opener[p] \in OpenerStates
  BY <1>type DEF OpeningType
<1>1. /\ o = IF v = 9 THEN [Out EXCEPT !.at = "opened", !.file = f]
             ELSE [opener[p] EXCEPT !.at = "migrating", !.version = v, !.next = 1]
      /\ \A q \in Processes : q # p => opener'[q] = opener[q]
      /\ DOMAIN opener' = Processes
  BY <1>type, LastVersion DEF OpeningType, Counts, Holds
<1>2. /\ o \in OpenerStates /\ o.file = f
      /\ v = 9 => o.at = "opened" /\ ~o.again
      /\ v # 9 => o.at = "migrating" /\ o.version = v /\ o.next = 1
                  /\ o.again = opener[p].again /\ o.faulty = opener[p].faulty
  <2>1. CASE v = 9
    <3>1. o = [Out EXCEPT !.at = "opened", !.file = f]
      BY <1>1, <2>1
    <3> QED BY <2>1, <3>1, OutType DEF OpenerStates, OpenerAt
  <2>2. CASE v # 9
    <3>1. o = [opener[p] EXCEPT !.at = "migrating", !.version = v, !.next = 1]
      BY <1>1, <2>2
    <3>2. v \in 0 .. 8
      BY <2>2
    <3>3. opener[p].file = f
      BY DEF Holds
    <3> HIDE DEF o
    <3>4. /\ o \in OpenerStates /\ o.file = opener[p].file /\ o.at = "migrating" /\ o.version = v
          /\ o.next = 1 /\ o.again = opener[p].again /\ o.faulty = opener[p].faulty
      <4> DEFINE t == [opener[p] EXCEPT !.at = "migrating", !.version = v, !.next = 1]
      <4>1. /\ t \in OpenerStates /\ t.file = opener[p].file /\ t.at = "migrating" /\ t.version = v
            /\ t.next = 1 /\ t.again = opener[p].again /\ t.faulty = opener[p].faulty
        <5>1. t \in OpenerStates
          <6> DEFINE A == OpenerAt  F == Files \cup {NoFile}  S == 0 .. 8  N == 1 .. 5
          <6>1. "migrating" \in A /\ v \in S /\ 1 \in N
            BY <3>2 DEF OpenerAt
          <6>2. OpenerStates = [at : A, file : F, version : S, next : N, again : BOOLEAN, faulty : BOOLEAN]
            BY DEF OpenerStates
          <6> HIDE DEF A, F, S, N
          <6> QED BY <1>0, <6>1, <6>2
        <5> QED BY <1>0, <5>1 DEF OpenerStates
      <4>2. o = t
        BY <3>1
      <4> HIDE DEF t
      <4> QED BY <4>1, <4>2
    <3> QED BY <2>2, <3>3, <3>4
  <2> QED BY <2>1, <2>2
<1>3. opener' \in [Processes -> OpenerStates]
  BY <1>1, <1>2, <1>type DEF OpeningType, Counts
<1> HIDE DEF o
<1>o. opener'[p] = o
  BY DEF o
<1>4. /\ \A h \in Files : Migrates(p, h)' <=> h = f /\ v # 9
      /\ \A h \in Files : Opened(p, h)' <=> h = f /\ v = 9
      /\ \A h \in Files : Holds(p, h)' => h = f
      /\ \A h \in Files, q \in Processes : q # p =>
           Holds(q, h)' = Holds(q, h) /\ Migrates(q, h)' = Migrates(q, h) /\ Opened(q, h)' = Opened(q, h)
  BY <1>1, <1>2, <1>o DEF Holds, Migrates, Opened
<1>5. \A h \in Files : /\ file'[h].schema = file[h].schema
                       /\ file'[h].corrupt = file[h].corrupt /\ file'[h].torn = file[h].torn
                       /\ file'[h].raced = file[h].raced /\ file'[h].used = file[h].used
                       /\ h # f => file'[h].version = file[h].version
                       /\ Sound(h)' = Sound(h)
  BY DEF Sound
<1>6. ~file[f].raced => \A q \in Processes : q # p => ~Holds(q, f) /\ ~Migrates(q, f)
  BY DEF OInv, Alone, Holds, Migrates
<1>7. file[f].used
  BY <1>type DEF OpeningType, Holds
<1>8. OpeningType'
  <2>1. \A h \in Files : ~file'[h].used => file'[h] = Unused
    BY <1>5, <1>7, <1>type DEF OpeningType
  <2>2. \A q \in Processes :
          /\ opener'[q].at \in {"reading", "migrating", "opened"} =>
               opener'[q].file \in Files /\ file'[opener'[q].file].used
          /\ opener'[q].at \in {"recovering", "degraded"} => opener'[q].faulty \/ opener'[q].file \in Files
    <3> SUFFICES ASSUME NEW q \in Processes
                 PROVE  /\ opener'[q].at \in {"reading", "migrating", "opened"} =>
                             opener'[q].file \in Files /\ file'[opener'[q].file].used
                        /\ opener'[q].at \in {"recovering", "degraded"} =>
                             opener'[q].faulty \/ opener'[q].file \in Files
      OBVIOUS
    <3>1. CASE q = p
      BY <1>2, <1>o, <1>7, <3>1
    <3>2. CASE q # p
      BY <1>1, <1>5, <1>type, <3>2 DEF OpeningType
    <3> QED BY <3>1, <3>2
  <2>3. \A q \in Processes : opener'[q].at = "migrating" => opener'[q].next <= Len(Statements(q)') + 1
    <3> SUFFICES ASSUME NEW q \in Processes, opener'[q].at = "migrating"
                 PROVE  opener'[q].next <= Len(Statements(q)') + 1
      OBVIOUS
    <3>1. CASE q # p
      BY <1>1, <1>type, <3>1 DEF OpeningType, Statements
    <3>2. CASE q = p
      <4>1. PICK w \in 1 .. 9 : w = v + 1
        BY <1>2, <1>o, <3>2
      <4>2. Statements(q)' = Migrations[w] /\ opener'[q].next = 1
        BY <1>2, <1>o, <3>2, <4>1 DEF Statements
      <4>3. Len(Migrations[w]) \in {1, 2, 4}
        BY MigrationLengths, Zenon
      <4>4. 1 <= Len(Migrations[w]) + 1
        BY <4>3
      <4> QED BY <4>2, <4>4, Zenon
    <3> QED BY <3>1, <3>2
  <2> QED BY <1>3, <2>1, <2>2, <2>3, <1>type DEF OpeningType
<1>9. Sane'
  <2>1. \A q \in Processes, h \in Files : Migrates(q, h)' \/ Opened(q, h)' => ~file'[h].corrupt
    BY <1>4, <1>5 DEF OInv, Sane
  <2>2. \A q \in Processes : opener'[q].again /\ ~opener'[q].faulty =>
          opener[q].again /\ ~opener[q].faulty /\ (opener'[q].at = "reading" => q # p)
    BY <1>1, <1>2, <1>o
  <2>3. \A q \in Processes : opener'[q].again /\ ~opener'[q].faulty =>
          (path \in Files => ~file'[path].corrupt)
    BY <1>5, <2>2 DEF OInv, Sane
  <2>4. \A q \in Processes : opener'[q].again /\ ~opener'[q].faulty /\ opener'[q].at = "reading" =>
          ~file'[opener'[q].file].corrupt
    BY <1>1, <1>5, <1>type, <2>2 DEF OInv, Sane, OpeningType
  <2> QED BY <2>1, <2>3, <2>4 DEF Sane
<1>10. Alone'
  <2> SUFFICES ASSUME NEW h \in Files, ~file'[h].raced
               PROVE  /\ \A q, r \in Processes : Holds(q, h)' /\ Holds(r, h)' => q = r
                      /\ \A q \in Processes : Migrates(q, h)' => opener'[q].version = file'[h].version
                      /\ \A q \in Processes : Opened(q, h)' => file'[h].version = 9
    BY DEF Alone
  <2>0. ~file[h].raced
    BY <1>5
  <2>1. CASE h = f
    BY <1>1, <1>2, <1>o, <1>4, <1>6, <2>0, <2>1
  <2>2. CASE h # f
    BY <1>1, <1>4, <1>5, <2>0, <2>2 DEF OInv, Alone
  <2> QED BY <2>1, <2>2
<1>11. Plain'
  <2>1. \A h \in Files : PlainOf(file'[h].version) \subseteq file'[h].schema
    BY <1>5 DEF OInv, Plain
  <2>2. ASSUME NEW q \in Processes, NEW h \in Files, q # p
        PROVE  /\ Migrates(q, h)' =>
                    /\ PlainOf(opener'[q].version) \subseteq file'[h].schema
                    /\ opener'[q].next > Len(Statements(q)') => PlainOf(opener'[q].version + 1) \subseteq file'[h].schema
               /\ Opened(q, h)' => PlainOf(9) \subseteq file'[h].schema
    BY <1>1, <1>4, <1>5, <2>2 DEF OInv, Plain, Statements
  <2>3. ASSUME NEW h \in Files
        PROVE  /\ Migrates(p, h)' =>
                    /\ PlainOf(opener'[p].version) \subseteq file'[h].schema
                    /\ ~(opener'[p].next > Len(Statements(p)'))
               /\ Opened(p, h)' => PlainOf(9) \subseteq file'[h].schema
    <3>1. Opened(p, h)' => PlainOf(9) \subseteq file'[h].schema
      BY <1>4, <1>5
    <3>2. ASSUME Migrates(p, h)'
          PROVE  /\ PlainOf(opener'[p].version) \subseteq file'[h].schema
                 /\ ~(opener'[p].next > Len(Statements(p)'))
      <4>0. h = f /\ v # 9 /\ opener'[p].version = v /\ opener'[p].next = 1
        BY <1>2, <1>o, <1>4, <3>2
      <4>1. PICK w \in 1 .. 9 : w = v + 1
        BY <4>0
      <4>2. Statements(p)' = Migrations[w]
        BY <4>0, <4>1 DEF Statements
      <4>4. ~(1 > Len(Migrations[w]))
        BY NotEmpty, Zenon
      <4>5. ~(opener'[p].next > Len(Statements(p)'))
        BY <4>0, <4>2, <4>4, Zenon
      <4> QED BY <1>5, <4>0, <4>5
    <3> QED BY <3>1, <3>2
  <2> QED BY <2>1, <2>2, <2>3 DEF Plain
<1>12. \A h \in Files : PinKept(h) => PinKept(h)'
  <2> SUFFICES ASSUME NEW h \in Files, NEW q \in Processes, Renames(q, h) PROVE Renames(q, h)'
    BY <1>5 DEF PinKept
  <2>1. q # p
    BY DEF Renames, Migrates, Holds
  <2> QED BY <1>1, <1>4, <2>1 DEF Renames
<1>13. Pinned'
  <2>1. \A h \in Files : file'[h].version >= 1 => PinKept(h)'
    BY <1>5, <1>12 DEF OInv, Pinned
  <2>2. \A q \in Processes, h \in Files :
          Migrates(q, h)' /\ (opener'[q].version >= 1 \/ opener'[q].next > 1) => PinKept(h)'
    <3> SUFFICES ASSUME NEW q \in Processes, NEW h \in Files, Migrates(q, h)',
                        opener'[q].version >= 1 \/ opener'[q].next > 1
                 PROVE  PinKept(h)'
      OBVIOUS
    <3>1. CASE q = p
      <4>1. h = f /\ opener'[q].version = v /\ opener'[q].next = 1
        BY <1>2, <1>o, <1>4, <3>1
      <4>2. v >= 1
        BY <4>1
      <4> QED BY <1>12, <4>1, <4>2
    <3>2. CASE q # p
      BY <1>1, <1>4, <1>12, <3>2 DEF OInv, Pinned
    <3> QED BY <3>1, <3>2
  <2>3. \A q \in Processes, h \in Files : Opened(q, h)' => PinKept(h)'
    BY <1>1, <1>4, <1>12 DEF OInv, Pinned
  <2> QED BY <2>1, <2>2, <2>3 DEF Pinned
<1>14. Swapped'
  <2> SUFFICES ASSUME NEW h \in Files, ~file'[h].raced
               PROVE  /\ file'[h].version # 4 => "pins_v5" \notin file'[h].schema
                      /\ file'[h].version \notin {0, 4} => "pins" \in file'[h].schema
                      /\ file'[h].version = 4 => "pins" \in file'[h].schema \/ "pins_v5" \in file'[h].schema
                      /\ \A q \in Processes : Migrates(q, h)' => SwapHere(q, file[h].schema)'
    BY <1>5 DEF Swapped, SwapHere
  <2>0. ~file[h].raced
    BY <1>5
  <2>1. CASE h = f
    <3>1. \A q \in Processes : Migrates(q, h)' => SwapHere(q, file[h].schema)'
      BY <1>2, <1>o, <1>4, <1>6, <2>0, <2>1 DEF SwapHere
    <3> QED BY <1>5, <2>0, <2>1, <3>1
  <2>2. CASE h # f
    <3>1. \A q \in Processes : Migrates(q, h)' => SwapHere(q, file[h].schema)'
      BY <1>1, <1>4, <1>5, <2>0, <2>2 DEF SwapHere, OInv, Swapped
    <3> QED BY <1>5, <2>0, <2>2, <3>1 DEF OInv, Swapped
  <2> QED BY <2>1, <2>2
<1>15. Exact'
  <2> SUFFICES ASSUME NEW h \in Files, Sound(h)'
               PROVE  /\ \A q \in Processes : Migrates(q, h)' =>
                           file'[h].schema = Stage(opener'[q].version + 1, opener'[q].next)
                      /\ (\A q \in Processes : ~Migrates(q, h)') => file'[h].schema = SchemaOf(file'[h].version)
    BY DEF Exact
  <2>0. Sound(h) /\ ~file[h].raced
    BY <1>5 DEF Sound
  <2>1. CASE h = f
    <3>1. file'[h].schema = SchemaOf(v)
      BY <1>5, <2>0, <2>1
    <3>2. ASSUME NEW q \in Processes, Migrates(q, h)'
          PROVE  file'[h].schema = Stage(opener'[q].version + 1, opener'[q].next)
      <4>1. q = p
        BY <1>4, <1>6, <2>0, <2>1, <3>2
      <4>2. v \in 0 .. 8 /\ opener'[q].version = v /\ opener'[q].next = 1
        BY <1>2, <1>o, <1>4, <3>2, <4>1
      <4>3. Stage(v + 1, 1) = SchemaOf(v)
        BY <4>2, StageStarts
      <4> QED BY <3>1, <4>2, <4>3
    <3> QED BY <2>1, <3>1, <3>2
  <2>2. CASE h # f
    <3>1. ~Migrates(p, h)
      BY <2>2 DEF Migrates, Holds
    <3> QED BY <1>1, <1>4, <1>5, <2>0, <2>2, <3>1 DEF OInv, Exact
  <2> QED BY <2>1, <2>2
<1>16. RecoveryJustified'
  <2> SUFFICES ASSUME NEW q \in Processes, opener'[q].at \in {"recovering", "degraded"}, ~opener'[q].faulty
               PROVE  LET h == file'[opener'[q].file] IN
                      h.torn \/ h.raced \/ (h.corrupt /\ opener'[q].at = "recovering")
    BY DEF RecoveryJustified
  <2>1. q # p /\ opener'[q] = opener[q]
    BY <1>1, <1>2, <1>o
  <2>2. opener[q].file \in Files
    BY <1>type, <2>1 DEF OpeningType
  <2> QED BY <1>5, <2>1, <2>2 DEF OInv, RecoveryJustified
<1> QED BY <1>8, <1>9, <1>10, <1>11, <1>13, <1>14, <1>15, <1>16 DEF OInv

(* A failed attempt keeps the invariant when the file it leaves was no good *)
(* or the host is to blame.                                                 *)
LEMMA FailKeeps ==
  ASSUME OInv, NEW p \in Processes, NEW faulty \in BOOLEAN, Fails(p, faulty),
         ~faulty /\ ~opener[p].faulty =>
           /\ opener[p].file \in Files
           /\ \/ file[opener[p].file].torn \/ file[opener[p].file].raced
              \/ file[opener[p].file].corrupt /\ ~opener[p].again
  PROVE  OInv'
<1>type. OpeningType
  BY DEF OInv
<1> DEFINE at == IF opener[p].again THEN "degraded" ELSE "recovering"
           o  == [opener[p] EXCEPT !.at = at, !.faulty = @ \/ faulty]
<1>1. opener[p] \in OpenerStates /\ at \in {"recovering", "degraded"}
  BY <1>type DEF OpeningType
<1>2. opener' = [opener EXCEPT ![p] = o]
  BY <1>type DEF Fails, OpeningType
<1>3. /\ o \in OpenerStates /\ o.at = at /\ o.file = opener[p].file
      /\ o.again = opener[p].again /\ (o.faulty <=> opener[p].faulty \/ faulty)
  <2> HIDE DEF at
  <2> QED BY <1>1 DEF OpenerStates, OpenerAt
<1>4. file' = Abandoned(p) /\ path' = path
  BY DEF Fails
<1>5. o.at = "recovering" <=> ~opener[p].again
  BY <1>3
<1> HIDE DEF o, at
<1>6. o.again /\ ~o.faulty => path = NoFile \/ (path \in Files /\ ~file[path].corrupt)
  <2> SUFFICES ASSUME o.again, ~o.faulty
               PROVE  path = NoFile \/ (path \in Files /\ ~file[path].corrupt)
    OBVIOUS
  <2>1. opener[p].again
    BY <1>3
  <2>2. ~opener[p].faulty
    BY <1>3
  <2>3. path \in Files => ~file[path].corrupt
    BY <2>1, <2>2 DEF OInv, Sane
  <2>4. path \in Files \cup {NoFile}
    BY <1>type DEF OpeningType
  <2> QED BY <2>3, <2>4
<1>7. ~o.faulty =>
        /\ o.file = opener[p].file /\ o.file \in Files
        /\ \/ file[o.file].torn \/ file[o.file].raced
           \/ file[o.file].corrupt /\ o.at = "recovering"
  BY <1>3, <1>5
<1>8. o.at \in {"out", "opening", "recovering", "degraded"}
  BY <1>1, <1>3
<1> QED BY <1>2, <1>3, <1>4, <1>6, <1>7, <1>8, LeaveKeeps

LEMMA ReadKeeps ==
  ASSUME OInv, NEW p \in Processes, ReadVersion(p)
  PROVE  OInv'
<1>type. OpeningType
  BY DEF OInv
<1> DEFINE f == opener[p].file
<1>1. f \in Files /\ opener[p].at = "reading" /\ Holds(p, f)
  BY <1>type DEF OpeningType, ReadVersion, Holds
<1>2. CASE file[f].corrupt
  <2>1. Fails(p, FALSE)
    BY <1>2 DEF ReadVersion
  <2>2. ~opener[p].faulty => ~opener[p].again
    BY <1>1, <1>2 DEF OInv, Sane
  <2> QED BY <1>1, <1>2, <2>1, <2>2, FailKeeps
<1>3. CASE ~file[f].corrupt
  <2>1. Counts(p, file[f].version) /\ file' = file /\ path' = path
    BY <1>3 DEF ReadVersion
  <2>2. file \in [Files -> FileStates] /\ file[f].version \in 0 .. 9
    BY <1>1, <1>type DEF OpeningType, FileStates
  <2>3. ~Renames(p, f) /\ \A q \in Processes : Migrates(q, f) => Holds(q, f) /\ q # p
    BY <1>1 DEF Renames, Migrates, Holds
  <2> HIDE DEF f
  <2>4. /\ PlainOf(file[f].version) \subseteq file[f].schema
        /\ file[f].version >= 1 => PinKept(f)
    BY <1>1 DEF OInv, Plain, Pinned
  <2>5. ~file[f].raced =>
          /\ file[f].version # 4 => "pins_v5" \notin file[f].schema
          /\ file[f].version \notin {0, 4} => "pins" \in file[f].schema
          /\ file[f].version = 4 => "pins" \in file[f].schema \/ "pins_v5" \in file[f].schema
          /\ \A q \in Processes : Opened(q, f) => file[f].version = 9
    BY <1>1 DEF OInv, Swapped, Alone
  <2>6. Sound(f) => file[f].schema = SchemaOf(file[f].version)
    <3> SUFFICES ASSUME Sound(f) PROVE file[f].schema = SchemaOf(file[f].version)
      OBVIOUS
    <3>1. \A q \in Processes : ~Migrates(q, f)
      BY <1>1, <2>3 DEF OInv, Alone, Sound
    <3> QED BY <1>1, <3>1 DEF OInv, Exact
  <2> QED BY <1>1, <1>3, <2>1, <2>2, <2>3, <2>4, <2>5, <2>6, CountKeeps
<1> QED BY <1>2, <1>3

LEMMA StampKeeps ==
  ASSUME OInv, NEW p \in Processes, Stamp(p)
  PROVE  OInv'
<1>type. OpeningType
  BY DEF OInv
<1> DEFINE f == opener[p].file  v == opener[p].version  n == opener[p].next
<1>1. f \in Files /\ opener[p].at = "migrating" /\ Holds(p, f) /\ Migrates(p, f)
  BY <1>type DEF OpeningType, Stamp, Holds, Migrates
<1>2. v \in 0 .. 8 /\ n \in 1 .. 5
  BY <1>type DEF OpeningType, OpenerStates
<1>3. /\ n > Len(Statements(p)) /\ n <= Len(Statements(p)) + 1
      /\ file' = [file EXCEPT ![f].version = v + 1]
      /\ Counts(p, v + 1) /\ path' = path
  BY <1>1, <1>type DEF Stamp, OpeningType
<1> HIDE DEF f, v, n
<1>w. PICK w \in 1 .. 9 : w = v + 1
  BY <1>2
<1>4. Statements(p) = Migrations[w]
  BY <1>w, Zenon DEF Statements, v
<1>5. /\ w = 1 => n = 3
      /\ w = 5 => n = 5
      /\ w \notin {1, 5} => n = 2
      /\ n = Len(Migrations[w]) + 1
  <2>1. PICK l \in {1, 2, 4} : l = Len(Migrations[w])
    BY MigrationLengths, Zenon
  <2>2. (w = 1 => l = 2) /\ (w = 5 => l = 4) /\ (w \notin {1, 5} => l = 1)
    BY <2>1, MigrationLengths, Zenon
  <2>3. n > l /\ n <= l + 1
    BY <1>3, <1>4, <2>1, Zenon
  <2>4. n = l + 1
    BY <1>2, <2>3
  <2>5. n = Len(Migrations[w]) + 1
    BY <2>1, <2>4, Zenon
  <2> QED BY <2>2, <2>4, <2>5
<1>6. /\ file[f] \in FileStates /\ file \in [Files -> FileStates]
      /\ \A h \in Files : h # f => file'[h] = file[h]
      /\ file'[f] = [file[f] EXCEPT !.version = w] /\ DOMAIN file' = Files
  BY <1>1, <1>3, <1>w, <1>type DEF OpeningType
<1>7. /\ file'[f] \in FileStates /\ file'[f].version = w
      /\ file'[f].schema = file[f].schema /\ file'[f].corrupt = file[f].corrupt
      /\ file'[f].used = file[f].used /\ file'[f].torn = file[f].torn /\ file'[f].raced = file[f].raced
  <2> DEFINE S == 0 .. 9
  <2>1. w \in S
    OBVIOUS
  <2>2. FileStates = [schema : SUBSET Columns, version : S, corrupt : BOOLEAN, used : BOOLEAN,
                      torn : BOOLEAN, raced : BOOLEAN]
    BY DEF FileStates
  <2> HIDE DEF S
  <2> QED BY <1>6, <2>1, <2>2
<1>8. file' \in [Files -> FileStates]
  BY <1>1, <1>3, <1>6, <1>7
<1>9. ~file[f].corrupt
  BY <1>1 DEF OInv, Sane
<1>10. opener[p].file = f /\ opener[p].version = v /\ opener[p].next = n
  BY DEF f, v, n
<1>11. ~Renames(p, f)
  BY <1>5, <1>w, <1>2, <1>10 DEF Renames
<1>12. PlainOf(w) \subseteq file[f].schema
  BY <1>1, <1>3, <1>w, <1>10 DEF OInv, Plain
<1>13. PinKept(f)
  BY <1>1, <1>5, <1>2, <1>10 DEF OInv, Pinned
<1>14. ~file[f].raced =>
         /\ w # 4 => "pins_v5" \notin file[f].schema
         /\ w \notin {0, 4} => "pins" \in file[f].schema
         /\ w = 4 => "pins" \in file[f].schema \/ "pins_v5" \in file[f].schema
         /\ \A q \in Processes : Opened(q, f) => w = 9
  <2> SUFFICES ASSUME ~file[f].raced
               PROVE  /\ "pins_v5" \notin file[f].schema /\ "pins" \in file[f].schema
                      /\ \A q \in Processes : Opened(q, f) => w = 9
    OBVIOUS
  <2>1. file[f].version = v
    BY <1>1, <1>10 DEF OInv, Alone
  <2>2. SwapHere(p, file[f].schema)
    BY <1>1 DEF OInv, Swapped
  <2>3. v # 9 /\ (v = 0 => n > 1) /\ (v = 4 => n = 5)
    BY <1>2, <1>5, <1>w
  <2>4. "pins_v5" \notin file[f].schema
    BY <1>1, <1>10, <2>1, <2>2, <2>3 DEF OInv, Swapped, SwapHere
  <2>5. "pins" \in file[f].schema
    BY <1>1, <1>10, <2>1, <2>2, <2>3 DEF OInv, Swapped, SwapHere
  <2>6. \A q \in Processes : ~Opened(q, f)
    BY <1>1, <2>1, <2>3 DEF OInv, Alone
  <2> QED BY <2>4, <2>5, <2>6
<1>15. Sound(f) => file[f].schema = SchemaOf(w)
  <2> SUFFICES ASSUME Sound(f) PROVE file[f].schema = SchemaOf(w)
    OBVIOUS
  <2>1. file[f].schema = Stage(v + 1, n)
    BY <1>1, <1>10 DEF OInv, Exact
  <2>2. Stage(w, Len(Migrations[w]) + 1) = SchemaOf(w)
    BY Stages
  <2> QED BY <1>w, <1>5, <2>1, <2>2, Zenon
<1>16. Counts(p, w) /\ w \in 0 .. 9
  <2>1. Counts(p, w)
    BY <1>3, <1>w, Zenon
  <2> QED BY <2>1
<1> QED BY <1>1, <1>3, <1>6, <1>7, <1>8, <1>9, <1>11, <1>12, <1>13, <1>14, <1>15, <1>16, CountKeeps

LEMMA MigrateKeeps ==
  ASSUME OInv, NEW p \in Processes, Migrate(p)
  PROVE  OInv'
<1> USE OpeningAssumption
<1>type. OpeningType
  BY DEF OInv
<1> DEFINE f == opener[p].file  v == opener[p].version  n == opener[p].next
           s == Statements(p)[n]
<1>1. f \in Files /\ opener[p].at = "migrating" /\ Holds(p, f) /\ Migrates(p, f)
  BY <1>type DEF OpeningType, Migrate, Holds, Migrates
<1>2. v \in 0 .. 8 /\ n \in 1 .. 5
  BY <1>type DEF OpeningType, OpenerStates
<1>3. n <= Len(Statements(p))
  BY DEF Migrate
<1>w. PICK w \in 1 .. 9 : w = v + 1
  BY <1>2
<1> HIDE DEF f, v, n, s
<1>4. Statements(p) = Migrations[w] /\ s = Migrations[w][n]
  BY <1>w, Zenon DEF Statements, v, s
<1>l. PICK l \in 1 .. 4 : l = Len(Migrations[w])
  <2>1. PICK k \in {1, 2, 4} : k = Len(Migrations[w])
    BY MigrationLengths, Zenon
  <2>2. k \in 1 .. 4
    OBVIOUS
  <2> QED BY <2>1, <2>2, Zenon
<1>5. /\ n \in 1 .. l /\ n \in 1 .. Len(Migrations[w])
      /\ (w = 1 => l = 2) /\ (w = 5 => l = 4) /\ (w \notin {1, 5} => l = 1)
  <2>1. (w = 1 => l = 2) /\ (w = 5 => l = 4) /\ (w \notin {1, 5} => l = 1)
    BY <1>l, MigrationLengths, Zenon
  <2>2. n <= l
    BY <1>3, <1>4, <1>l, Zenon
  <2>3. n \in 1 .. l
    BY <1>2, <1>l, <2>2
  <2>4. n \in 1 .. Len(Migrations[w])
    BY <1>l, <2>3, Zenon
  <2> QED BY <2>1, <2>3, <2>4
<1>n. n \in 1 .. 4 /\ n <= l /\ l \in Nat
  <2>1. n <= l
    BY <1>3, <1>4, <1>l, Zenon
  <2> QED BY <1>2, <2>1
<1>6. opener[p].file = f /\ opener[p].version = v /\ opener[p].next = n
  BY DEF f, v, n
<1>7. /\ s.adds \subseteq Columns
      /\ s.drops \subseteq {"pins", "pins_v5"}
      /\ "pins" \in s.drops => w = 5 /\ n = 3
      /\ "pins_v5" \in s.drops => w = 5 /\ n = 4
      /\ "pins_v5" \in s.adds => w = 5 /\ n = 1
      /\ w = 1 /\ n = 1 => "pins" \in s.adds
      /\ w = 5 /\ n = 1 => "pins_v5" \in s.adds /\ "pins_v5" \in s.lacks
      /\ w = 5 /\ n = 2 => {"pins", "pins_v5"} \subseteq s.needs
      /\ w = 5 /\ n = 4 => "pins" \in s.adds /\ "pins_v5" \in s.drops
  <2>1. \A i \in 1 .. Len(Migrations[w]) :
          LET t == Migrations[w][i]
          IN  /\ t.adds \subseteq Columns
              /\ t.drops \subseteq {"pins", "pins_v5"}
              /\ "pins" \in t.drops => w = 5 /\ i = 3
              /\ "pins_v5" \in t.drops => w = 5 /\ i = 4
              /\ "pins_v5" \in t.adds => w = 5 /\ i = 1
              /\ w = 1 /\ i = 1 => "pins" \in t.adds
              /\ w = 5 /\ i = 1 => "pins_v5" \in t.adds /\ "pins_v5" \in t.lacks
              /\ w = 5 /\ i = 2 => {"pins", "pins_v5"} \subseteq t.needs
              /\ w = 5 /\ i = 4 => "pins" \in t.adds /\ "pins_v5" \in t.drops
    BY PinStatements
  <2> QED BY <1>4, <1>5, <2>1, Zenon
<1>8. /\ s.needs \subseteq Stage(w, n) /\ s.lacks \cap Stage(w, n) = {}
      /\ (Stage(w, n) \cup s.adds) \ s.drops = Stage(w, n + 1)
  <2>1. \A i \in 1 .. Len(Migrations[w]) :
          LET t == Migrations[w][i]
          IN  /\ t.needs \subseteq Stage(w, i) /\ t.lacks \cap Stage(w, i) = {}
              /\ (Stage(w, i) \cup t.adds) \ t.drops = Stage(w, i + 1)
    BY StagesFollow
  <2> QED BY <1>4, <1>5, <2>1, Zenon
<1>9. ~file[f].corrupt
  BY <1>1 DEF OInv, Sane
<1>10. Sound(f) => file[f].schema = Stage(w, n)
  <2>1. Sound(f) => file[f].schema = Stage(v + 1, n)
    BY <1>1, <1>6 DEF OInv, Exact
  <2> QED BY <1>w, <2>1, Zenon
<1>11. CASE ~(s.needs \subseteq file[f].schema /\ s.lacks \cap file[f].schema = {})
  <2>1. Fails(p, FALSE)
    BY <1>11 DEF Migrate, s, f, n
  <2>2. ~Sound(f)
    BY <1>8, <1>10, <1>11
  <2>3. file[f].torn \/ file[f].raced
    BY <1>9, <2>2 DEF Sound
  <2> QED BY <1>1, <1>6, <2>1, <2>3, FailKeeps
<1>12. CASE s.needs \subseteq file[f].schema /\ s.lacks \cap file[f].schema = {}
  <2>1. /\ file' = [file EXCEPT ![f].schema = (@ \cup s.adds) \ s.drops]
        /\ opener' = [opener EXCEPT ![p].next = @ + 1]
        /\ path' = path
    BY <1>12 DEF Migrate, s, f, n
  <2> DEFINE after == (file[f].schema \cup s.adds) \ s.drops
  <2>2. file[f] \in FileStates /\ opener[p] \in OpenerStates
    BY <1>1, <1>type DEF OpeningType
  <2>3. file[f].schema \subseteq Columns
    BY <2>2 DEF FileStates
  <2>4. after \in SUBSET Columns
    BY <1>7, <2>3
  <2>5. /\ file'[f] = [file[f] EXCEPT !.schema = after] /\ DOMAIN file' = Files
        /\ \A h \in Files : h # f => file'[h] = file[h]
    BY <1>1, <1>type, <2>1 DEF OpeningType
  <2>a. \A x : x \in after <=> (x \in file[f].schema \/ x \in s.adds) /\ x \notin s.drops
    OBVIOUS
  <2> HIDE DEF after
  <2>6. /\ file'[f] \in FileStates /\ file'[f].schema = after
        /\ file'[f].version = file[f].version /\ file'[f].corrupt = file[f].corrupt
        /\ file'[f].used = file[f].used /\ file'[f].torn = file[f].torn /\ file'[f].raced = file[f].raced
    BY <2>2, <2>4, <2>5 DEF FileStates
  <2>7. file' \in [Files -> FileStates]
    BY <1>1, <1>type, <2>1, <2>5, <2>6 DEF OpeningType
  <2>8. /\ opener'[p] = [opener[p] EXCEPT !.next = n + 1] /\ DOMAIN opener' = Processes
        /\ \A q \in Processes : q # p => opener'[q] = opener[q]
    BY <1>6, <1>type, <2>1 DEF OpeningType
  <2>9. n + 1 \in 1 .. 5
    BY <1>n
  <2>10. /\ opener'[p] \in OpenerStates /\ opener'[p].next = n + 1
         /\ opener'[p].at = "migrating" /\ opener'[p].file = f /\ opener'[p].version = v
         /\ opener'[p].again = opener[p].again /\ opener'[p].faulty = opener[p].faulty
    <3> DEFINE m == n + 1  N == 1 .. 5
    <3>1. OpenerStates = [at : OpenerAt, file : Files \cup {NoFile}, version : 0 .. 8, next : N,
                          again : BOOLEAN, faulty : BOOLEAN]
      BY DEF OpenerStates
    <3>2. m \in N
      BY <2>9
    <3>3. opener'[p] = [opener[p] EXCEPT !.next = m]
      BY <2>8
    <3> HIDE DEF m, N
    <3>4. /\ opener'[p] \in OpenerStates /\ opener'[p].next = m
          /\ opener'[p].at = opener[p].at /\ opener'[p].file = opener[p].file
          /\ opener'[p].version = opener[p].version
          /\ opener'[p].again = opener[p].again /\ opener'[p].faulty = opener[p].faulty
      BY <2>2, <3>1, <3>2, <3>3
    <3> QED BY <1>1, <1>6, <3>4 DEF m
  <2>11. opener' \in [Processes -> OpenerStates]
    BY <1>type, <2>1, <2>8, <2>10 DEF OpeningType
  <2>12. /\ \A h \in Files, q \in Processes :
              Holds(q, h)' = Holds(q, h) /\ Migrates(q, h)' = Migrates(q, h) /\ Opened(q, h)' = Opened(q, h)
         /\ \A h \in Files : h # f => ~Migrates(p, h)
         /\ ~file[f].raced => \A q \in Processes : q # p => ~Migrates(q, f)
    <3>1. \A h \in Files, q \in Processes :
              Holds(q, h)' = Holds(q, h) /\ Migrates(q, h)' = Migrates(q, h) /\ Opened(q, h)' = Opened(q, h)
      <4> SUFFICES ASSUME NEW h \in Files, NEW q \in Processes
                   PROVE  Holds(q, h)' = Holds(q, h) /\ Migrates(q, h)' = Migrates(q, h) /\ Opened(q, h)' = Opened(q, h)
        OBVIOUS
      <4>1. opener'[q].at = opener[q].at /\ opener'[q].file = opener[q].file
        BY <1>1, <1>6, <2>8, <2>10
      <4> QED BY <4>1 DEF Holds, Migrates, Opened
    <3>2. \A h \in Files : h # f => ~Migrates(p, h)
      BY <1>6 DEF Migrates
    <3>3. ~file[f].raced => \A q \in Processes : q # p => ~Migrates(q, f)
      BY <1>1 DEF OInv, Alone, Migrates, Holds
    <3> QED BY <3>1, <3>2, <3>3
  <2>13. \A h \in Files : /\ file'[h].version = file[h].version
                          /\ file'[h].corrupt = file[h].corrupt /\ file'[h].torn = file[h].torn
                          /\ file'[h].raced = file[h].raced /\ file'[h].used = file[h].used
                          /\ h # f => file'[h].schema = file[h].schema
                          /\ Sound(h)' = Sound(h)
    BY <2>5, <2>6 DEF Sound
  <2>14. Statements(p)' = Migrations[w]
    BY <1>w, <2>10, Zenon DEF Statements
  <2>15. OpeningType'
    <3>1. \A h \in Files : ~file'[h].used => file'[h] = Unused
      <4>1. file[f].used
        BY <1>1, <1>6, <1>type DEF OpeningType
      <4> QED BY <1>type, <2>5, <2>13, <4>1 DEF OpeningType
    <3>2. \A q \in Processes :
            /\ opener'[q].at \in {"reading", "migrating", "opened"} =>
                 opener'[q].file \in Files /\ file'[opener'[q].file].used
            /\ opener'[q].at \in {"recovering", "degraded"} => opener'[q].faulty \/ opener'[q].file \in Files
      <4> SUFFICES ASSUME NEW q \in Processes
                   PROVE  /\ opener'[q].at \in {"reading", "migrating", "opened"} =>
                               opener'[q].file \in Files /\ file'[opener'[q].file].used
                          /\ opener'[q].at \in {"recovering", "degraded"} => opener'[q].faulty \/ opener'[q].file \in Files
        OBVIOUS
      <4>1. opener'[q].at = opener[q].at /\ opener'[q].file = opener[q].file /\ opener'[q].faulty = opener[q].faulty
        BY <1>1, <1>6, <2>8, <2>10
      <4> QED BY <1>type, <2>13, <4>1 DEF OpeningType
    <3>3. ASSUME NEW q \in Processes, opener'[q].at = "migrating"
          PROVE  opener'[q].next <= Len(Statements(q)') + 1
      <4>1. CASE q # p
        BY <1>type, <2>8, <3>3, <4>1 DEF OpeningType, Statements
      <4>2. CASE q = p
        <5>1. n + 1 <= l + 1
          BY <1>5, <1>l
        <5>2. Len(Statements(q)') = l
          BY <1>l, <2>14, <4>2, Zenon
        <5> QED BY <2>10, <4>2, <5>1, <5>2
      <4> QED BY <4>1, <4>2
    <3> QED BY <1>type, <2>1, <2>7, <2>11, <3>1, <3>2, <3>3 DEF OpeningType
  <2>16. Sane'
    <3>1. \A q \in Processes, h \in Files : Migrates(q, h)' \/ Opened(q, h)' => ~file'[h].corrupt
      BY <2>12, <2>13 DEF OInv, Sane
    <3>2. ASSUME NEW q \in Processes, opener'[q].again, ~opener'[q].faulty
          PROVE  /\ path' \in Files => ~file'[path'].corrupt
                 /\ opener'[q].at = "reading" => ~file'[opener'[q].file].corrupt
      <4>1. opener[q].again /\ ~opener[q].faulty /\ (opener'[q].at = "reading" => q # p)
        BY <2>8, <2>10, <3>2
      <4> QED BY <1>type, <2>1, <2>8, <2>13, <4>1 DEF OInv, Sane, OpeningType
    <3> QED BY <3>1, <3>2 DEF Sane
  <2>17. Alone'
    <3> SUFFICES ASSUME NEW h \in Files, ~file'[h].raced
                 PROVE  /\ \A q, r \in Processes : Holds(q, h)' /\ Holds(r, h)' => q = r
                        /\ \A q \in Processes : Migrates(q, h)' => opener'[q].version = file'[h].version
                        /\ \A q \in Processes : Opened(q, h)' => file'[h].version = 9
      BY DEF Alone
    <3>1. ~file[h].raced
      BY <2>13
    <3>2. \A q \in Processes : opener'[q].version = opener[q].version
      BY <1>6, <2>8, <2>10
    <3> QED BY <2>12, <2>13, <3>1, <3>2 DEF OInv, Alone
  <2>18. \A c : \A h \in Files : PlainOf(c) \subseteq file[h].schema => PlainOf(c) \subseteq file'[h].schema
    <3> SUFFICES ASSUME NEW c, NEW h \in Files, PlainOf(c) \subseteq file[h].schema
                 PROVE  PlainOf(c) \subseteq file'[h].schema
      OBVIOUS
    <3>1. CASE h # f
      BY <2>5, <3>1
    <3>2. CASE h = f
      BY <1>7, <2>6, <2>a, <3>2, PlainNames
    <3> QED BY <3>1, <3>2
  <2>19. n + 1 > l => PlainOf(w) \subseteq file'[f].schema
    <3> SUFFICES ASSUME n + 1 > l PROVE PlainOf(w) \subseteq file'[f].schema
      OBVIOUS
    <3>1. n = l
      BY <1>5, <1>l
    <3>2. PlainOf(w) \subseteq PlainOf(w - 1) \cup s.adds
      BY <1>4, <1>l, <3>1, LastStatement, Zenon
    <3>3. w - 1 = v
      BY <1>w, <1>2
    <3>4. PlainOf(v) \subseteq file[f].schema
      BY <1>1, <1>6 DEF OInv, Plain
    <3>5. PlainOf(w) \subseteq PlainOf(v) \cup s.adds
      BY <3>2, <3>3, Zenon
    <3> QED BY <1>7, <2>6, <2>a, <3>4, <3>5, PlainNames
  <2>20. Plain'
    <3>1. \A h \in Files : PlainOf(file'[h].version) \subseteq file'[h].schema
      BY <2>13, <2>18 DEF OInv, Plain
    <3>2. ASSUME NEW q \in Processes, NEW h \in Files, Migrates(q, h)'
          PROVE  /\ PlainOf(opener'[q].version) \subseteq file'[h].schema
                 /\ opener'[q].next > Len(Statements(q)') => PlainOf(opener'[q].version + 1) \subseteq file'[h].schema
      <4>1. CASE q # p
        BY <2>8, <2>12, <2>18, <3>2, <4>1 DEF OInv, Plain, Statements
      <4>2. CASE q = p
        <5>1. h = f
          BY <2>12, <3>2, <4>2
        <5>2. PlainOf(v) \subseteq file'[f].schema
          BY <1>1, <1>6, <2>18 DEF OInv, Plain
        <5>3. Len(Statements(q)') = l
          BY <1>l, <2>14, <4>2, Zenon
        <5>4. opener'[q].next > Len(Statements(q)') => PlainOf(w) \subseteq file'[f].schema
          BY <2>10, <2>19, <4>2, <5>3
        <5>5. PlainOf(opener'[q].version + 1) = PlainOf(w)
          BY <1>w, <2>10, <4>2, Zenon
        <5> QED BY <2>10, <4>2, <5>1, <5>2, <5>4, <5>5
      <4> QED BY <4>1, <4>2
    <3>3. \A q \in Processes, h \in Files : Opened(q, h)' => PlainOf(9) \subseteq file'[h].schema
      BY <2>12, <2>18 DEF OInv, Plain
    <3> QED BY <3>1, <3>2, <3>3 DEF Plain
  <2>21. \A h \in Files : PinKept(h) => PinKept(h)'
    <3> SUFFICES ASSUME NEW h \in Files, PinKept(h) PROVE PinKept(h)'
      OBVIOUS
    <3>1. CASE file[h].torn
      BY <2>13, <3>1 DEF PinKept
    <3>2. CASE "pins" \in file[h].schema
      <4>1. CASE "pins" \in file'[h].schema
        BY <4>1 DEF PinKept
      <4>2. CASE "pins" \notin file'[h].schema
        <5>1. h = f /\ "pins" \in s.drops
          BY <2>6, <2>13, <2>a, <3>2, <4>2
        <5>2. w = 5 /\ n = 3
          BY <1>7, <5>1
        <5>3. v = 4 /\ n + 1 = 4
          BY <1>w, <1>2, <5>2
        <5>4. Renames(p, h)'
          BY <1>1, <2>10, <2>12, <5>1, <5>3 DEF Renames
        <5> QED BY <5>4 DEF PinKept
      <4> QED BY <4>1, <4>2
    <3>3. ASSUME NEW q \in Processes, Renames(q, h) PROVE PinKept(h)'
      <4>1. CASE q # p
        <5>1. Renames(q, h)'
          BY <2>8, <2>12, <3>3, <4>1 DEF Renames
        <5> QED BY <5>1 DEF PinKept
      <4>2. CASE q = p
        <5>1. h = f /\ v = 4 /\ n = 4
          BY <1>6, <3>3, <4>2 DEF Renames, Migrates
        <5>2. w = 5
          BY <1>w, <5>1
        <5>3. "pins" \in s.adds /\ "pins" \notin s.drops
          BY <1>7, <5>1, <5>2
        <5>4. "pins" \in file'[h].schema
          BY <2>6, <2>a, <5>1, <5>3
        <5> QED BY <5>4 DEF PinKept
      <4> QED BY <4>1, <4>2
    <3> QED BY <3>1, <3>2, <3>3 DEF PinKept
  <2>22. \A h \in Files : h = f => PinKept(h)'
    <3> SUFFICES ASSUME NEW h \in Files, h = f PROVE PinKept(h)'
      OBVIOUS
    <3>1. CASE v >= 1 \/ n > 1
      BY <1>1, <1>6, <2>21, <3>1 DEF OInv, Pinned
    <3>2. CASE ~(v >= 1 \/ n > 1)
      <4>1. w = 1 /\ n = 1
        BY <1>2, <1>w, <3>2
      <4>2. "pins" \in s.adds /\ "pins" \notin s.drops
        BY <1>7, <4>1
      <4> QED BY <2>6, <2>a, <4>2 DEF PinKept
    <3> QED BY <3>1, <3>2
  <2>23. Pinned'
    <3>1. \A h \in Files : file'[h].version >= 1 => PinKept(h)'
      BY <2>13, <2>21 DEF OInv, Pinned
    <3>2. ASSUME NEW q \in Processes, NEW h \in Files, Migrates(q, h)',
                 opener'[q].version >= 1 \/ opener'[q].next > 1
          PROVE  PinKept(h)'
      <4>1. CASE q = p
        BY <2>12, <2>22, <3>2, <4>1
      <4>2. CASE q # p
        BY <2>8, <2>12, <2>21, <3>2, <4>2 DEF OInv, Pinned
      <4> QED BY <4>1, <4>2
    <3>3. \A q \in Processes, h \in Files : Opened(q, h)' => PinKept(h)'
      BY <2>12, <2>21 DEF OInv, Pinned
    <3> QED BY <3>1, <3>2, <3>3 DEF Pinned
  <2>24. Swapped'
    <3> SUFFICES ASSUME NEW h \in Files, ~file'[h].raced
                 PROVE  /\ file'[h].version # 4 => "pins_v5" \notin file'[h].schema
                        /\ file'[h].version \notin {0, 4} => "pins" \in file'[h].schema
                        /\ file'[h].version = 4 => "pins" \in file'[h].schema \/ "pins_v5" \in file'[h].schema
                        /\ \A q \in Processes : Migrates(q, h)' => SwapHere(q, file[h].schema)'
      BY DEF Swapped, SwapHere
    <3>0. ~file[h].raced
      BY <2>13
    <3>1. CASE h # f
      <4>1. \A q \in Processes : Migrates(q, h)' => SwapHere(q, file[h].schema)'
        BY <2>8, <2>12, <2>13, <3>0, <3>1 DEF SwapHere, OInv, Swapped
      <4> QED BY <2>13, <3>0, <3>1, <4>1 DEF OInv, Swapped
    <3>2. CASE h = f
      <4>1. file[f].version = v
        BY <1>1, <1>6, <3>0, <3>2 DEF OInv, Alone
      <4>2. SwapHere(p, file[f].schema)
        BY <1>1, <3>0, <3>2 DEF OInv, Swapped
      <4>3. /\ v = 0 /\ n > 1 => "pins" \in file[f].schema
            /\ v = 4 /\ n \in {2, 3} => "pins" \in file[f].schema /\ "pins_v5" \in file[f].schema
            /\ v = 4 /\ n = 4 => "pins_v5" \in file[f].schema
        BY <1>6, <4>2 DEF SwapHere
      <4>4. /\ v # 4 => "pins_v5" \notin file[f].schema
            /\ v \notin {0, 4} => "pins" \in file[f].schema
            /\ v = 4 => "pins" \in file[f].schema \/ "pins_v5" \in file[f].schema
        BY <1>1, <3>0, <3>2, <4>1 DEF OInv, Swapped
      <4>5. (w = 5 <=> v = 4) /\ (w = 1 <=> v = 0)
        BY <1>2, <1>w
      <4>6. n \in {1, 2, 3, 4}
        BY <1>n
      <4>7. /\ "pins_v5" \in s.lacks => "pins_v5" \notin file[f].schema
            /\ "pins" \in s.needs => "pins" \in file[f].schema
            /\ "pins_v5" \in s.needs => "pins_v5" \in file[f].schema
        BY <1>12
      <4>8. /\ v # 4 => "pins_v5" \notin after
            /\ v \notin {0, 4} => "pins" \in after
            /\ v = 0 => "pins" \in after
        BY <1>7, <2>a, <4>3, <4>4, <4>5, <4>6
      <4>9. v = 4 => /\ n \in {1, 2} => "pins" \in after /\ "pins_v5" \in after
                     /\ n = 3 => "pins_v5" \in after
                     /\ n = 4 => "pins" \in after /\ "pins_v5" \notin after
        BY <1>7, <2>a, <4>3, <4>4, <4>5, <4>7
      <4>10. SwapHere(p, file[h].schema)'
        BY <1>2, <2>6, <2>10, <3>2, <4>8, <4>9 DEF SwapHere
      <4>11. \A q \in Processes : Migrates(q, h)' => q = p
        BY <2>12, <3>0, <3>2
      <4> QED BY <2>6, <3>2, <4>1, <4>6, <4>8, <4>9, <4>10, <4>11
    <3> QED BY <3>1, <3>2
  <2>25. Exact'
    <3> SUFFICES ASSUME NEW h \in Files, Sound(h)'
                 PROVE  /\ \A q \in Processes : Migrates(q, h)' =>
                             file'[h].schema = Stage(opener'[q].version + 1, opener'[q].next)
                        /\ (\A q \in Processes : ~Migrates(q, h)') => file'[h].schema = SchemaOf(file'[h].version)
      BY DEF Exact
    <3>0. Sound(h) /\ ~file[h].raced
      BY <2>13 DEF Sound
    <3>1. CASE h # f
      BY <2>8, <2>12, <2>13, <3>0, <3>1 DEF OInv, Exact
    <3>2. CASE h = f
      <4>1. file[f].schema = Stage(w, n)
        BY <1>10, <3>0, <3>2
      <4>2. file'[f].schema = Stage(w, n + 1)
        BY <1>8, <2>6, <4>1 DEF after
      <4>3. Stage(opener'[p].version + 1, opener'[p].next) = Stage(w, n + 1)
        BY <1>w, <2>10, Zenon
      <4>4. \A q \in Processes : Migrates(q, h)' => q = p
        BY <2>12, <3>0, <3>2
      <4>5. Migrates(p, h)'
        BY <1>1, <2>12, <3>2
      <4> QED BY <3>2, <4>2, <4>3, <4>4, <4>5
    <3> QED BY <3>1, <3>2
  <2>26. RecoveryJustified'
    <3> SUFFICES ASSUME NEW q \in Processes, opener'[q].at \in {"recovering", "degraded"}, ~opener'[q].faulty
                 PROVE  LET h == file'[opener'[q].file] IN
                        h.torn \/ h.raced \/ (h.corrupt /\ opener'[q].at = "recovering")
      BY DEF RecoveryJustified
    <3>1. q # p /\ opener'[q] = opener[q]
      BY <2>8, <2>10
    <3>2. opener[q].file \in Files
      BY <1>type, <3>1 DEF OpeningType
    <3> QED BY <2>13, <3>1, <3>2 DEF OInv, RecoveryJustified
  <2> QED BY <2>15, <2>16, <2>17, <2>20, <2>23, <2>24, <2>25, <2>26 DEF OInv
<1> QED BY <1>11, <1>12

LEMMA LeftType ==
  ASSUME NEW v \in 0 .. 9
  PROVE  /\ Left(v) \in FileStates /\ Left(v).schema = SchemaOf(v) /\ Left(v).version = v
         /\ ~Left(v).corrupt /\ Left(v).used /\ ~Left(v).torn /\ ~Left(v).raced
<1>1. SchemaOf(v) \in SUBSET Columns
  <2>1. v \in {0, 1, 2, 3, 4, 5, 6, 7, 8, 9}
    OBVIOUS
  <2> QED BY <2>1, SchemaTable DEF Columns
<1> DEFINE S == 0 .. 9
<1>2. FileStates = [schema : SUBSET Columns, version : S, corrupt : BOOLEAN, used : BOOLEAN,
                    torn : BOOLEAN, raced : BOOLEAN]
  BY DEF FileStates
<1>3. v \in S
  OBVIOUS
<1> HIDE DEF S
<1> QED BY <1>1, <1>2, <1>3, UnusedType DEF Left

LEMMA NoDatabaseType ==
  /\ NoDatabase \in FileStates /\ NoDatabase.schema = {} /\ NoDatabase.version = 0
  /\ NoDatabase.corrupt /\ NoDatabase.used /\ ~NoDatabase.torn /\ ~NoDatabase.raced
BY UnusedType DEF NoDatabase, FileStates

LEMMA OpeningStarts ==
  ASSUME OpeningInit
  PROVE  OInv
<1> USE OpeningAssumption
<1>1. path \in Files
  BY DEF OpeningInit
<1>2. PICK before \in {Left(v) : v \in Releases} \cup {NoDatabase} :
        file = [f \in Files |-> IF f = path THEN before ELSE Unused]
  BY DEF OpeningInit
<1>3. /\ before \in FileStates /\ before.used /\ ~before.torn /\ ~before.raced
      /\ before.version \in 0 .. 9 /\ before.schema = SchemaOf(before.version)
  <2>1. CASE before = NoDatabase
    BY <2>1, NoDatabaseType, SchemaTable
  <2>2. CASE before \in {Left(v) : v \in Releases}
    <3>1. PICK v \in Releases : before = Left(v)
      BY <2>2
    <3>2. v \in 0 .. 9
      OBVIOUS
    <3> QED BY <3>1, <3>2, LeftType
  <2> QED BY <2>1, <2>2
<1>4. \A f \in Files :
        /\ file[f] \in FileStates /\ ~file[f].torn /\ ~file[f].raced
        /\ file[f].schema = SchemaOf(file[f].version) /\ file[f].version \in 0 .. 9
        /\ ~file[f].used => file[f] = Unused
  BY <1>2, <1>3, UnusedType, SchemaTable
<1>5. \A p \in Processes : opener[p] = Out
  BY DEF OpeningInit
<1>6. \A p \in Processes, f \in Files : ~Migrates(p, f) /\ ~Opened(p, f) /\ ~Holds(p, f)
  BY <1>5, OutType DEF Migrates, Opened, Holds
<1>7. OpeningType
  <2>1. file \in [Files -> FileStates]
    BY <1>2, <1>4
  <2>2. opener \in [Processes -> OpenerStates]
    BY <1>5, OutType DEF OpeningInit
  <2> QED BY <1>1, <1>4, <1>5, <2>1, <2>2, OutType DEF OpeningType
<1>8. Sane /\ RecoveryJustified
  BY <1>5, <1>6, OutType DEF Sane, RecoveryJustified
<1>9. Alone
  BY <1>6 DEF Alone
<1>10. Plain
  BY <1>4, <1>6 DEF Plain, PlainOf
<1>11. \A f \in Files : file[f].version \notin {0} => "pins" \in file[f].schema
  <2> SUFFICES ASSUME NEW f \in Files, file[f].version # 0 PROVE "pins" \in file[f].schema
    OBVIOUS
  <2>1. file[f].version \in {1, 2, 3, 4, 5, 6, 7, 8, 9}
    BY <1>4
  <2> QED BY <1>4, <2>1, SchemaTable
<1>12. Pinned
  BY <1>4, <1>6, <1>11 DEF Pinned, PinKept
<1>13. Swapped
  BY <1>4, <1>6, <1>11, PlainNames DEF Swapped
<1>14. Exact
  BY <1>4, <1>6 DEF Exact
<1> QED BY <1>7, <1>8, <1>9, <1>10, <1>12, <1>13, <1>14 DEF OInv

LEMMA BeginKeeps ==
  ASSUME OInv, NEW p \in Processes, Begin(p)
  PROVE  OInv'
<1>type. OpeningType
  BY DEF OInv
<1> DEFINE o == [opener[p] EXCEPT !.at = "opening"]
<1>1. opener[p] \in OpenerStates /\ opener' = [opener EXCEPT ![p] = o]
  BY <1>type DEF OpeningType, Begin
<1>2. o \in OpenerStates /\ o.at = "opening" /\ o.again = opener[p].again /\ o.faulty = opener[p].faulty
  BY <1>1 DEF OpenerStates, OpenerAt
<1>3. file' = Abandoned(p) /\ path' = path
  BY DEF Begin, Abandoned, Inside
<1> HIDE DEF o
<1>4. o.again /\ ~o.faulty => path = NoFile \/ (path \in Files /\ ~file[path].corrupt)
  BY <1>2, <1>type DEF OInv, Sane, OpeningType
<1> QED BY <1>1, <1>2, <1>3, <1>4, LeaveKeeps

LEMMA HostKeeps ==
  ASSUME OInv, NEW p \in Processes, HostFails(p)
  PROVE  OInv'
BY FailKeeps DEF HostFails

LEMMA RecoverKeeps ==
  ASSUME OInv, NEW p \in Processes, Recover(p)
  PROVE  OInv'
<1> USE OpeningAssumption
<1>type. OpeningType
  BY DEF OInv
<1> DEFINE faulty == opener[p].faulty \/ path' # NoFile
           o == [opener[p] EXCEPT !.at = "opening", !.again = TRUE, !.faulty = faulty]
<1>1. opener[p] \in OpenerStates /\ opener' = [opener EXCEPT ![p] = o]
  BY <1>type DEF OpeningType, Recover
<1>2. /\ o \in OpenerStates /\ o.at = "opening"
      /\ o.faulty \/ path' = NoFile
  <2>1. faulty \in BOOLEAN /\ (faulty \/ path' = NoFile)
    BY <1>1 DEF OpenerStates
  <2> HIDE DEF faulty
  <2> QED BY <1>1, <2>1 DEF OpenerStates, OpenerAt
<1>3. file' = Abandoned(p) /\ path' \in {path, NoFile}
  BY DEF Recover, Abandoned, Inside
<1> HIDE DEF o, faulty
<1> QED BY <1>1, <1>2, <1>3, LeaveKeeps

LEMMA ExitKeeps ==
  ASSUME OInv, NEW p \in Processes, Exit(p)
  PROVE  OInv'
<1>1. opener' = [opener EXCEPT ![p] = Out] /\ file' = Abandoned(p) /\ path' = path
  BY DEF Exit
<1> QED BY <1>1, OutType, LeaveKeeps

(* OInv is inductive: every step of every process keeps it.                 *)
LEMMA OpeningHolds == OpeningSpec => []OInv
<1>1. OpeningInit => OInv
  BY OpeningStarts
<1>2. OInv /\ [OpeningNext]_openingVars => OInv'
  <2> SUFFICES ASSUME OInv, [OpeningNext]_openingVars PROVE OInv'
    OBVIOUS
  <2>1. CASE UNCHANGED openingVars
    <3>1. file' = file /\ path' = path /\ opener' = opener
      BY <2>1 DEF openingVars
    <3>2. \A p, f : /\ Holds(p, f)' = Holds(p, f) /\ Migrates(p, f)' = Migrates(p, f)
                    /\ Opened(p, f)' = Opened(p, f) /\ Renames(p, f)' = Renames(p, f)
      BY <3>1 DEF Holds, Migrates, Opened, Renames
    <3>3. OpeningType'
      BY <3>1 DEF OInv, OpeningType, Statements
    <3>4. Sane' /\ RecoveryJustified'
      BY <3>1, <3>2 DEF OInv, Sane, RecoveryJustified
    <3>5. Alone'
      BY <3>1, <3>2 DEF OInv, Alone
    <3>6. Plain'
      BY <3>1, <3>2 DEF OInv, Plain, Statements
    <3>7. Pinned'
      BY <3>1, <3>2 DEF OInv, Pinned, PinKept
    <3>8. Swapped'
      BY <3>1, <3>2 DEF OInv, Swapped, SwapHere
    <3>9. Exact'
      BY <3>1, <3>2 DEF OInv, Exact, Sound
    <3> QED BY <3>3, <3>4, <3>5, <3>6, <3>7, <3>8, <3>9 DEF OInv
  <2>2. ASSUME NEW p \in Processes, Begin(p) PROVE OInv'
    BY <2>2, BeginKeeps
  <2>3. ASSUME NEW p \in Processes, OpenDatabase(p) PROVE OInv'
    BY <2>3, OpenKeeps
  <2>4. ASSUME NEW p \in Processes, ReadVersion(p) PROVE OInv'
    BY <2>4, ReadKeeps
  <2>5. ASSUME NEW p \in Processes, Migrate(p) PROVE OInv'
    BY <2>5, MigrateKeeps
  <2>6. ASSUME NEW p \in Processes, Stamp(p) PROVE OInv'
    BY <2>6, StampKeeps
  <2>7. ASSUME NEW p \in Processes, HostFails(p) PROVE OInv'
    BY <2>7, HostKeeps
  <2>8. ASSUME NEW p \in Processes, Recover(p) PROVE OInv'
    BY <2>8, RecoverKeeps
  <2>9. ASSUME NEW p \in Processes, Exit(p) PROVE OInv'
    BY <2>9, ExitKeeps
  <2> QED BY <2>1, <2>2, <2>3, <2>4, <2>5, <2>6, <2>7, <2>8, <2>9 DEF OpeningNext
<1> QED BY <1>1, <1>2, PTL DEF OpeningSpec

(* No store opens on half a schema, but beside another process that is      *)
(* replacing the pins table or ended doing so; and a database is put aside  *)
(* only when it is none, the host failed, a migration on it stopped half    *)
(* way or two processes had it open at once (sqlite-store.ts,               *)
(* createResilientStore and runMigrations).  That the last two give up a    *)
(* sound database is what OnlyCorruptGivenUp refutes.                       *)
THEOREM StoresOpenWhole == OpeningSpec => []OpeningSound
<1>1. OInv => OpeningSound
  BY OpenedIsComplete DEF OInv, OpeningSound
<1> QED BY <1>1, OpeningHolds, PTL
=============================================================================
