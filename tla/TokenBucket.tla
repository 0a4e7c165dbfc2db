------------------------------ MODULE TokenBucket ------------------------------
(***************************************************************************)
(* The token bucket of rate_limits that the gateway asks before it routes,  *)
(* shared by the processes of one working directory: consumeToken is one    *)
(* immediate transaction, but the first use of a key is three (it finds no  *)
(* bucket, inserts one unless there is one by now, and consumes), and the   *)
(* refill is computed from wall-clock readings, which may go back.          *)
(*                                                                          *)
(* Time is counted in ticks, Second of them in a second, and the tokens in  *)
(* a bucket in parts of a token, Second of them in one, so that a tick      *)
(* refills refill_rate parts and all arithmetic is exact.                   *)
(***************************************************************************)
EXTENDS Integers

CONSTANTS
  Callers,      (* processes that route behind the same key                 *)
  Costs,        (* tokens a call may ask for                                *)
  MaxTokens,    (* max_tokens                                               *)
  RefillRate,   (* refill_rate, tokens a second                             *)
  Second,       (* ticks in a second                                        *)
  MaxForward    (* how far the clock moves forward in all, a bound          *)

ASSUME RefillRateAssumption == RefillRate \in Nat \ {0}
ASSUME SecondAssumption     == Second \in Nat \ {0}
ASSUME MaxTokensAssumption  == MaxTokens \in Nat
ASSUME CostsAssumption      == Costs \subseteq Nat \ {0}

VARIABLES
  bucket,       (* the row: created, tokens in parts, last_refill_at        *)
  clock,        (* Date.now()                                               *)
  caller,       (* per caller: the step of createSqliteRateLimiter, its cost*)
  advised,      (* per caller: the retry-after it was last told, if it      *)
                (* still binds: nobody took a token and the clock did not   *)
                (* go back since                                            *)
  granted,      (* history: tokens handed out                               *)
  forward       (* history: how far the clock has moved forward in all      *)

bucketVars == <<bucket, clock, caller, advised, granted, forward>>

Idle     == [at |-> "idle", cost |-> 0]
NoAdvice == [cost |-> 0, until |-> 0]

BucketInit ==
  /\ bucket = [created |-> FALSE, tokens |-> 0, last |-> 0]
  /\ clock = 0
  /\ caller = [c \in Callers |-> Idle]
  /\ advised = [c \in Callers |-> NoAdvice]
  /\ granted = 0
  /\ forward = 0

-----------------------------------------------------------------------------
FullBucket == MaxTokens * Second
Elapsed  == IF clock > bucket.last THEN clock - bucket.last ELSE 0
Refilled ==
  LET full == bucket.tokens + RefillRate * Elapsed
  IN  IF full < FullBucket THEN full ELSE FullBucket

(* Mutant: retry-after is rounded down.                                     *)
RetryAfterFloor(deficit) == deficit \div (RefillRate * Second)

(* Seconds until the deficit is refilled, rounded up.                       *)
RetryAfter(deficit) == (deficit + RefillRate * Second - 1) \div (RefillRate * Second)

(* Mutant: INSERT OR REPLACE.                                               *)
InitBucketReplaces(c) ==
  /\ caller[c].at = "not found"
  /\ bucket' = [created |-> TRUE, tokens |-> FullBucket, last |-> clock]
  /\ caller' = [caller EXCEPT ![c].at = "created"]
  /\ UNCHANGED <<clock, advised, granted, forward>>

(* INSERT OR IGNORE: a bucket another process created meanwhile stays.      *)
InitBucket(c) ==
  /\ caller[c].at = "not found"
  /\ bucket' = IF bucket.created THEN bucket
               ELSE [created |-> TRUE, tokens |-> FullBucket, last |-> clock]
  /\ caller' = [caller EXCEPT ![c].at = "created"]
  /\ UNCHANGED <<clock, advised, granted, forward>>

(* consumeToken on an existing bucket, allowed: the gateway routes.         *)
Allow(c, cost) ==
  /\ bucket.created
  /\ Refilled >= cost * Second
  /\ bucket' = [bucket EXCEPT !.tokens = Refilled - cost * Second, !.last = clock]
  /\ granted' = granted + cost
  /\ advised' = [d \in Callers |-> NoAdvice]
  /\ caller' = [caller EXCEPT ![c] = Idle]
  /\ UNCHANGED <<clock, forward>>

(* Denied: the refill is stored all the same, and the caller is told when   *)
(* to come back, also if its cost is more than the bucket ever holds.       *)
Deny(c, cost) ==
  /\ bucket.created
  /\ Refilled < cost * Second
  /\ bucket' = [bucket EXCEPT !.tokens = Refilled, !.last = clock]
  /\ LET back == clock + RetryAfter(cost * Second - Refilled) * Second
     IN  advised' = [advised EXCEPT ![c] = IF cost > MaxTokens THEN NoAdvice
                                           ELSE [cost |-> cost, until |-> back]]
  /\ caller' = [caller EXCEPT ![c] = Idle]
  /\ UNCHANGED <<clock, granted, forward>>

(* The first consumeToken finds no row and throws.                          *)
NotFound(c, cost) ==
  /\ caller[c].at = "idle"
  /\ ~bucket.created
  /\ caller' = [caller EXCEPT ![c] = [at |-> "not found", cost |-> cost]]
  /\ UNCHANGED <<bucket, clock, advised, granted, forward>>

Consume(c) ==
  \/ \E cost \in Costs : caller[c].at = "idle" /\ (Allow(c, cost) \/ Deny(c, cost))
  \/ caller[c].at = "created" /\ (Allow(c, caller[c].cost) \/ Deny(c, caller[c].cost))

(* The wall clock goes on, or is set back.                                  *)
Tick ==
  /\ forward < MaxForward
  /\ clock' = clock + 1
  /\ forward' = forward + 1
  /\ UNCHANGED <<bucket, caller, advised, granted>>

SetBack ==
  /\ clock' \in 0 .. clock - 1
  /\ advised' = [c \in Callers |-> NoAdvice]
  /\ UNCHANGED <<bucket, caller, granted, forward>>

BucketNext ==
  \/ \E c \in Callers :
       \/ \E cost \in Costs : NotFound(c, cost)
       \/ InitBucket(c)
       \/ Consume(c)
  \/ Tick
  \/ SetBack

BucketSpec == BucketInit /\ [][BucketNext]_bucketVars

-----------------------------------------------------------------------------
(* Whatever the interleaving of first uses and whatever the clock does, the *)
(* tokens handed out and those still there are no more than one bucketful   *)
(* and what the clock's forward movement refills: two processes that both   *)
(* find no bucket do not get one each, and setting the clock back and       *)
(* forth refills nothing twice.                                             *)
RateBounded == granted * Second + bucket.tokens <= FullBucket + RefillRate * forward

(* A caller that was denied and waits the seconds it was told then gets its *)
(* tokens, unless another caller took some meanwhile or the clock was set   *)
(* back; calls that are denied in between do not push it further out.       *)
RetryHonest ==
  \A c \in Callers :
    advised[c].cost > 0 /\ clock >= advised[c].until => Refilled >= advised[c].cost * Second
=============================================================================
