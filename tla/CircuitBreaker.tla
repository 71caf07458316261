--------------------------- MODULE CircuitBreaker ---------------------------
(***************************************************************************)
(* The state of one circuit and what CircuitBreaker makes of it.  Of the   *)
(* time it was opened at the model keeps whether half_open_after has gone  *)
(* by since.  The count of failures stops at the threshold: the code only  *)
(* asks whether it was reached.                                            *)
(*                                                                         *)
(* A definition named X_Y is a mutated form of X; no specification uses it.*)
(***************************************************************************)
EXTENDS Naturals

CONSTANTS FailureThreshold,     \* failures before opening
          SuccessThreshold      \* successes in half_open before closing

ASSUME ThresholdsAssumption ==
  FailureThreshold \in Nat \ {0} /\ SuccessThreshold \in Nat \ {0}

Circuit == [state : {"closed", "open", "half_open"},
            failures : 0..FailureThreshold,
            successes : 0..SuccessThreshold,
            aged : BOOLEAN]

Closed == [state |-> "closed", failures |-> 0, successes |-> 0, aged |-> FALSE]

\* is_open: the request is rejected.
Rejects(c) == c.state = "open" /\ ~c.aged

\* is_open moves the circuit on.
Probes(c) == c.state = "open" /\ c.aged

HalfOpen(c) == [c EXCEPT !.state = "half_open", !.successes = 0]

AfterSuccess_ClosesOpen(c) ==
  IF c.state = "half_open" /\ c.successes + 1 < SuccessThreshold
    THEN [c EXCEPT !.successes = @ + 1]
    ELSE Closed

\* record_success
AfterSuccess(c) ==
  CASE c.state = "half_open" ->
         IF c.successes + 1 >= SuccessThreshold
           THEN Closed ELSE [c EXCEPT !.successes = @ + 1]
    [] c.state = "closed" -> [c EXCEPT !.failures = 0]
    [] OTHER -> c

\* record_failure
AfterFailure(c, force) ==
  LET failures == IF c.failures < FailureThreshold THEN c.failures + 1 ELSE c.failures
      opens == \/ c.state = "closed" /\ (force \/ failures >= FailureThreshold)
               \/ c.state = "half_open"
  IN  IF opens THEN [c EXCEPT !.failures = failures, !.state = "open", !.aged = FALSE]
               ELSE [c EXCEPT !.failures = failures]
=============================================================================
