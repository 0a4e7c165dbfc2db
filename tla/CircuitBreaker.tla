---------------------------- MODULE CircuitBreaker ----------------------------
(***************************************************************************)
(* The per-model circuit breaker (infrastructure/gateway/circuit-breaker.ts)*)
(* as functions on one circuit.  Gateway keeps the map of circuits.         *)
(*                                                                          *)
(* The clock is abstracted to the age of the last state change, counted in  *)
(* ticks up to ResetTimeout and kept only while the circuit is open, the    *)
(* one state in which the code reads it.  A model without an entry is a     *)
(* closed circuit with zero counters, as getSnapshot reports it.            *)
(***************************************************************************)
EXTENDS Naturals

CONSTANTS
  FailureThreshold,    (* consecutive infra failures that trip the breaker  *)
  ResetTimeout,        (* ticks an open circuit waits before a probe        *)
  HalfOpenSuccesses    (* consecutive successes that close it again         *)

ASSUME FailureThresholdAssumption  == FailureThreshold \in Nat \ {0}
ASSUME ResetTimeoutAssumption      == ResetTimeout \in Nat \ {0}
ASSUME HalfOpenSuccessesAssumption == HalfOpenSuccesses \in Nat \ {0}

CircuitState == {"closed", "open", "half_open"}

(* failures saturates at the threshold: the code only compares it with >=.  *)
CircuitEntry ==
  [state : CircuitState,
   failures : 0 .. FailureThreshold,
   successes : 0 .. HalfOpenSuccesses,
   age : 0 .. ResetTimeout]

NewCircuit == [state |-> "closed", failures |-> 0, successes |-> 0, age |-> 0]

CoolingDown(c) == c.state = "open" /\ c.age < ResetTimeout

(* The answer of canDispatch ...                                            *)
CanDispatch(c) == ~CoolingDown(c)

(* ... and what asking does to the circuit: a cooled-down one half-opens.   *)
Asked(c) ==
  IF c.state = "open" /\ CanDispatch(c)
  THEN [c EXCEPT !.state = "half_open", !.successes = 0, !.age = 0]
  ELSE c

(* Mutant: a success in the half-open state does not clear the failures.    *)
AfterSuccessKeepsFailures(c) ==
  LET enough == c.successes + 1 >= HalfOpenSuccesses
  IN  CASE c.state = "half_open" ->
             [c EXCEPT !.successes = @ + 1, !.state = IF enough THEN "closed" ELSE @]
        [] c.state = "closed" -> [c EXCEPT !.failures = 0, !.successes = 0]
        [] c.state = "open"   -> [c EXCEPT !.failures = 0]

AfterSuccess(c) ==
  LET enough == c.successes + 1 >= HalfOpenSuccesses
  IN  CASE c.state = "half_open" ->
             [c EXCEPT !.failures = 0, !.successes = @ + 1,
                       !.state = IF enough THEN "closed" ELSE @]
        [] c.state = "closed" -> [c EXCEPT !.failures = 0, !.successes = 0]
        [] c.state = "open"   -> [c EXCEPT !.failures = 0]

Counted(n) == IF n < FailureThreshold THEN n + 1 ELSE n

(* A failure opens a half-open circuit at once and any other one when the   *)
(* count reaches the threshold; on a circuit already open it restarts the   *)
(* cool-down.                                                               *)
AfterFailure(c) ==
  LET counted == [c EXCEPT !.failures = Counted(@), !.successes = 0]
  IN  IF c.state = "half_open" \/ counted.failures >= FailureThreshold
      THEN [counted EXCEPT !.state = "open", !.age = 0]
      ELSE counted

(* One tick of the clock.                                                   *)
Aged(c) == IF CoolingDown(c) THEN [c EXCEPT !.age = @ + 1] ELSE c
=============================================================================
