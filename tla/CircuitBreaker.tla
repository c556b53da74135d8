---------------------------- MODULE CircuitBreaker ----------------------------
(***************************************************************************)
(* The circuit breaker around the calls to one provider, as operators on   *)
(* the breaker: each takes it and returns it as one uninterrupted stretch  *)
(* of a method leaves it.  AgentRouter holds one breaker per provider and  *)
(* says when the stretches run.                                            *)
(*                                                                         *)
(* Nothing locks a breaker, and calls that overlap are calls of different  *)
(* threads.  A thread may lose the interpreter at a call.  In the methods  *)
(* there are two: _maybe_half_open asks the clock between reading the      *)
(* state and writing it, and _on_failure asks it between opening the       *)
(* breaker and writing opened_at.  At those two places a method is split.  *)
(***************************************************************************)
EXTENDS Naturals

CONSTANTS
  FailureThreshold,   \* failure_threshold
  HalfOpenMaxCalls    \* half_open_max_calls

ASSUME BreakerAssumption ==
  /\ FailureThreshold \in Nat \ {0}
  /\ HalfOpenMaxCalls \in Nat \ {0}

(* failures is failure_count, counted up to the threshold it is compared   *)
(* with; probes is half_open_calls; cooled says that recovery_timeout_s    *)
(* has passed since opened_at, which starts as 0.0, so that a breaker that *)
(* never opened may be cooled as well.                                     *)
Breaker == [state    : {"closed", "open", "half_open"},
            failures : 0..FailureThreshold,
            probes   : 0..HalfOpenMaxCalls,
            cooled   : BOOLEAN]

NewBreaker ==
  [state |-> "closed", failures |-> 0, probes |-> 0, cooled |-> FALSE]

(* _maybe_half_open from the clock on, in a thread that has read "open".   *)
(* The state is not read again, whatever it is by now.                     *)
HalfOpened_KeepsProbes(b) ==
  IF b.cooled THEN [b EXCEPT !.state = "half_open"] ELSE b

HalfOpened(b) ==
  IF b.cooled THEN [b EXCEPT !.state = "half_open", !.probes = 0] ELSE b

(* call raises CircuitOpenError without calling fn. *)
Rejects(b) ==
  \/ b.state = "open"
  \/ b.state = "half_open" /\ b.probes >= HalfOpenMaxCalls

(* call goes on to fn, counting it while half-open. *)
Admitted_CountsAll(b) == [b EXCEPT !.probes = @ + 1]

Admitted(b) ==
  IF b.state = "half_open" THEN [b EXCEPT !.probes = @ + 1] ELSE b

OnSuccess_KeepsFailures(b) == [b EXCEPT !.state = "closed", !.probes = 0]

OnSuccess(b) == [b EXCEPT !.state = "closed", !.failures = 0, !.probes = 0]

(* _on_failure up to the clock.  It opens the breaker, or leaves its state *)
(* alone: a call may end after the breaker was opened by another.          *)
Opens(b) ==
  b.state = "half_open" \/ b.failures + 1 >= FailureThreshold

OnFailure(b) ==
  LET n == IF b.failures < FailureThreshold THEN b.failures + 1
                                            ELSE FailureThreshold
  IN  IF Opens(b) THEN [b EXCEPT !.failures = n, !.state = "open"]
                  ELSE [b EXCEPT !.failures = n]

(* opened_at is set to what the clock said. *)
Stamped(b) == [b EXCEPT !.cooled = FALSE]

(* recovery_timeout_s passes. *)
Cooled(b) == [b EXCEPT !.cooled = TRUE]

(* The next call would go on to fn, if no other came in between. *)
LetsThrough(b) == ~Rejects(IF b.state = "open" THEN HalfOpened(b) ELSE b)

=============================================================================
