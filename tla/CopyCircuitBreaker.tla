------------------------- MODULE CopyCircuitBreaker -------------------------
(***************************************************************************)
(* The circuit breaker of the copy engine (engine/circuit-breaker.ts): a   *)
(* record held in the memory of the worker process and the pure functions  *)
(* its methods compute on it.  Date.now() is the parameter now.            *)
(***************************************************************************)
EXTENDS Integers

CONSTANTS
    FailureThreshold,   \* failures that open the breaker (5 in production)
    RecoveryTimeout,    \* ticks the breaker stays open (60 s in production)
    HalfOpenMaxCalls    \* the limit halfOpenCallCount is compared with (2)

ASSUME BreakerAssumption ==
    /\ FailureThreshold \in Nat \ {0}
    /\ RecoveryTimeout \in Nat
    /\ HalfOpenMaxCalls \in Nat \ {0}

Breaker == [state : {"CLOSED", "OPEN", "HALF_OPEN"},
            failureCount : Nat,
            lastFailureTime : Nat,
            halfOpenCallCount : Nat]

InitBreaker == [state |-> "CLOSED", failureCount |-> 0,
                lastFailureTime |-> 0, halfOpenCallCount |-> 0]

Recovered(b, now) == now - b.lastFailureTime >= RecoveryTimeout

(* Mutant: an open breaker admits calls before its timeout.                *)
CanExecuteWhenOpen(b, now) ==
    b.state = "HALF_OPEN" => b.halfOpenCallCount < HalfOpenMaxCalls

(* The value canExecute() returns, and the breaker it leaves behind.  The  *)
(* code compares halfOpenCallCount with its limit but never increments it. *)
CanExecute(b, now) ==
    \/ b.state = "CLOSED"
    \/ b.state = "OPEN" /\ Recovered(b, now)
    \/ b.state = "HALF_OPEN" /\ b.halfOpenCallCount < HalfOpenMaxCalls

AfterCanExecute(b, now) ==
    IF b.state = "OPEN" /\ Recovered(b, now)
    THEN [state |-> "HALF_OPEN", failureCount |-> b.failureCount,
          lastFailureTime |-> b.lastFailureTime, halfOpenCallCount |-> 0]
    ELSE b

RecordSuccess(b) ==
    [state |-> IF b.state = "HALF_OPEN" THEN "CLOSED" ELSE b.state,
     failureCount |-> 0,
     lastFailureTime |-> b.lastFailureTime,
     halfOpenCallCount |-> 0]

RecordFailure(b, now) ==
    [state |-> IF \/ b.state = "HALF_OPEN"
                  \/ b.failureCount + 1 >= FailureThreshold
               THEN "OPEN" ELSE b.state,
     failureCount |-> b.failureCount + 1,
     lastFailureTime |-> now,
     halfOpenCallCount |-> b.halfOpenCallCount]
=============================================================================
