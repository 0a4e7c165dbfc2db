------------------------------- MODULE LocalZero -------------------------------
(***************************************************************************)
(* The local_zero stage of one pipeline and its speculative prewarm: a ping *)
(* of the local runtime that races a deadline, whose outcomes feed a window *)
(* per session; when too few of them are accepted, prewarming stops for the *)
(* session.  Whatever becomes of the prewarm, the stage then pings once     *)
(* more without a deadline.  One route of the pipeline runs at a time.      *)
(***************************************************************************)
EXTENDS Integers, Sequences, FiniteSets

CONSTANTS
  PrewarmSessions,       (* sessions the pipeline routes for                *)
  SESSION_WINDOW_SIZE,
  MinAttempts,           (* min_attempts_before_guard                       *)
  MinAcceptancePct,      (* min_acceptance_rate                             *)
  MaxMisses              (* misses in a row worth counting, a bound         *)

ASSUME PrewarmAssumption ==
  /\ SESSION_WINDOW_SIZE \in Nat \ {0} /\ MinAttempts \in Nat \ {0}
  /\ MinAcceptancePct \in 0 .. 100 /\ MaxMisses \in Nat

VARIABLES
  guard,   (* per session: the window, newest last, and whether disabled    *)
  local,   (* the route in the stage: where it is, its session              *)
  misses   (* history, per session: prewarms in a row that were not         *)
           (* accepted                                                      *)

localVars == <<guard, local, misses>>

NoRoute == [at |-> "idle", session |-> "none"]

LocalInit ==
  /\ guard = [s \in PrewarmSessions |-> [outcomes |-> <<>>, disabled |-> FALSE]]
  /\ local = NoRoute
  /\ misses = [s \in PrewarmSessions |-> 0]

-----------------------------------------------------------------------------
Accepted(outcomes) == Cardinality({i \in DOMAIN outcomes : outcomes[i]})
LowAcceptance(outcomes) ==
  /\ Len(outcomes) >= MinAttempts
  /\ 100 * Accepted(outcomes) < MinAcceptancePct * Len(outcomes)

Pushed(outcomes, accepted) ==
  IF Len(outcomes) < SESSION_WINDOW_SIZE THEN Append(outcomes, accepted)
  ELSE Append(Tail(outcomes), accepted)

Counting(s, accepted) ==
  misses' = [misses EXCEPT ![s] = IF accepted THEN 0 ELSE IF @ < MaxMisses THEN @ + 1 ELSE @]

(* Mutant: the rate is computed before the outcome is pushed.               *)
recordOutcomeLate(s, accepted) ==
  /\ guard' = [guard EXCEPT ![s] = [outcomes |-> Pushed(@.outcomes, accepted),
                                    disabled |-> LowAcceptance(@.outcomes)]]
  /\ Counting(s, accepted)

recordOutcome(s, accepted) ==
  LET outcomes == Pushed(guard[s].outcomes, accepted) IN
  /\ guard' = [guard EXCEPT ![s] = [outcomes |-> outcomes, disabled |-> LowAcceptance(outcomes)]]
  /\ Counting(s, accepted)

(* An eligible turn with a healthy local model; a meter below its threshold *)
(* or any other gate leaves the stage as it was.                            *)
Enter(s) ==
  /\ local.at = "idle"
  /\ local' = [at |-> IF guard[s].disabled THEN "probing" ELSE "warming", session |-> s]
  /\ UNCHANGED <<guard, misses>>

(* A ready runtime decides the route.                                       *)
Warm ==
  /\ local.at = "warming"
  /\ recordOutcome(local.session, TRUE)
  /\ local' = NoRoute

(* Not ready, an error, or the deadline; the answer of a ping that is late  *)
(* finds its signal aborted and is dropped.                                 *)
Miss ==
  /\ local.at = "warming"
  /\ recordOutcome(local.session, FALSE)
  /\ local' = [local EXCEPT !.at = "probing"]

(* The ping without a deadline: the route is decided, or goes on.           *)
Probe ==
  /\ local.at = "probing"
  /\ local' = NoRoute
  /\ UNCHANGED <<guard, misses>>

LocalNext == (\E s \in PrewarmSessions : Enter(s)) \/ Warm \/ Miss \/ Probe

LocalSpec == LocalInit /\ [][LocalNext]_localVars

-----------------------------------------------------------------------------
(* However good a session's record, a local runtime that goes bad costs it  *)
(* a bounded number of deadlines in a row: as soon as the misses alone push *)
(* a full window below the rate, prewarming has stopped.                    *)
SpeculationBounded ==
  \A s \in PrewarmSessions :
    /\ misses[s] >= MinAttempts
    /\ 100 * (SESSION_WINDOW_SIZE - misses[s]) < MinAcceptancePct * SESSION_WINDOW_SIZE
    => guard[s].disabled
=============================================================================
