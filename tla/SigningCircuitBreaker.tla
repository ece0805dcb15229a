------------------------ MODULE SigningCircuitBreaker ------------------------
(***************************************************************************)
(* SigningCircuitBreaker (services/signing-circuit-breaker.ts): stops      *)
(* signing while the wallet provider fails.  Its methods have no await     *)
(* inside, so each is one step; allowRequest, recordSuccess and            *)
(* recordFailure of different requests come in any order.                  *)
(***************************************************************************)
EXTENDS SlidingWindow

CONSTANTS
    FailureThreshold,   \* FAILURE_THRESHOLD (10 in production)
    FailureWindow,      \* WINDOW_MS in ticks (5 min)
    RecoveryTimeout,    \* RECOVERY_TIMEOUT_MS in ticks (2 min)
    HalfOpenMaxCalls,   \* HALF_OPEN_MAX_CALLS (3)
    MaxFailures         \* bound on recorded failures

ASSUME BreakerAssumption ==
    /\ FailureThreshold \in Nat \ {0}
    /\ FailureWindow \in Nat \ {0}
    /\ RecoveryTimeout \in Nat
    /\ HalfOpenMaxCalls \in Nat \ {0}
    /\ MaxFailures \in Nat

VARIABLES
    circuit,             \* state
    failures,            \* times of the failures in the window
    halfOpenSuccesses,
    halfOpenFailures,
    openedAt,            \* 0 stands for null
    failed,              \* history: failures recorded since it last closed
    trippedAt,           \* history: when it left CLOSED or HALF_OPEN for OPEN
    probes               \* history: requests admitted since it became HALF_OPEN,
                         \* counted until they exceed the limit

circuitVars == <<circuit, failures, halfOpenSuccesses, halfOpenFailures,
                 openedAt, failed, trippedAt, probes>>
breakerVars == <<clock, circuitVars>>

BreakerTypeOK ==
    /\ clock \in Nat
    /\ circuit \in {"CLOSED", "OPEN", "HALF_OPEN"}
    /\ failures \in Seq(Nat)
    /\ halfOpenSuccesses \in 0..HalfOpenMaxCalls - 1
    /\ halfOpenFailures \in Nat
    /\ openedAt \in Nat
    /\ failed \in Seq(Nat)
    /\ trippedAt \in Nat
    /\ probes \in Nat

BreakerInit ==
    /\ clock = 1
    /\ circuit = "CLOSED"
    /\ failures = <<>>
    /\ halfOpenSuccesses = 0
    /\ halfOpenFailures = 0
    /\ openedAt = 0
    /\ failed = <<>>
    /\ trippedAt = 0
    /\ probes = 0

-----------------------------------------------------------------------------
(* Mutant: the stamp of the first trip is kept when probing fails.         *)
ToOpenKeepingStamp ==
    /\ circuit' = "OPEN"
    /\ openedAt' = IF openedAt = 0 THEN clock ELSE openedAt
    /\ halfOpenSuccesses' = 0
    /\ halfOpenFailures' = 0
    /\ trippedAt' = IF circuit = "OPEN" THEN trippedAt ELSE clock
    /\ probes' = 0

(* transitionTo, for each of the three states.                             *)
ToOpen ==
    /\ circuit' = "OPEN"
    /\ openedAt' = clock
    /\ halfOpenSuccesses' = 0
    /\ halfOpenFailures' = 0
    /\ trippedAt' = IF circuit = "OPEN" THEN trippedAt ELSE clock
    /\ probes' = 0

ToHalfOpen(admittedProbes) ==
    /\ circuit' = "HALF_OPEN"
    /\ halfOpenSuccesses' = 0
    /\ halfOpenFailures' = 0
    /\ probes' = admittedProbes
    /\ UNCHANGED <<failures, openedAt, failed, trippedAt>>

ToClosed ==
    /\ circuit' = "CLOSED"
    /\ failures' = <<>>
    /\ openedAt' = 0
    /\ halfOpenSuccesses' = 0
    /\ halfOpenFailures' = 0
    /\ failed' = <<>>
    /\ probes' = 0
    /\ UNCHANGED trippedAt

Recovered == clock - openedAt >= RecoveryTimeout

ProbesLeft == halfOpenSuccesses + halfOpenFailures < HalfOpenMaxCalls

(* allowRequest when it returns and when it throws.                        *)
AllowRequest ==
    \/ circuit = "CLOSED" /\ UNCHANGED circuitVars
    \/ circuit = "OPEN" /\ Recovered /\ ToHalfOpen(1)
    \/ /\ circuit = "HALF_OPEN"
       /\ ProbesLeft
       /\ probes' = IF probes > HalfOpenMaxCalls THEN probes ELSE probes + 1
       /\ UNCHANGED <<circuit, failures, halfOpenSuccesses, halfOpenFailures,
                      openedAt, failed, trippedAt>>

RefuseRequest ==
    /\ \/ circuit = "OPEN" /\ ~Recovered
       \/ circuit = "HALF_OPEN" /\ ~ProbesLeft
    /\ UNCHANGED circuitVars

(* Mutant: one success too many is asked for, more than allowRequest lets  *)
(* through.                                                                *)
RecordSuccessBeyondLimit ==
    \/ circuit = "HALF_OPEN" /\ halfOpenSuccesses + 1 > HalfOpenMaxCalls /\ ToClosed
    \/ /\ circuit = "HALF_OPEN"
       /\ halfOpenSuccesses + 1 <= HalfOpenMaxCalls
       /\ halfOpenSuccesses' = halfOpenSuccesses + 1
       /\ UNCHANGED <<circuit, failures, halfOpenFailures, openedAt, failed,
                      trippedAt, probes>>
    \/ circuit # "HALF_OPEN" /\ UNCHANGED circuitVars

RecordSuccess ==
    \/ /\ circuit = "HALF_OPEN"
       /\ halfOpenSuccesses + 1 >= HalfOpenMaxCalls
       /\ ToClosed
    \/ /\ circuit = "HALF_OPEN"
       /\ halfOpenSuccesses + 1 < HalfOpenMaxCalls
       /\ halfOpenSuccesses' = halfOpenSuccesses + 1
       /\ UNCHANGED <<circuit, failures, halfOpenFailures, openedAt, failed,
                      trippedAt, probes>>
    \/ circuit # "HALF_OPEN" /\ UNCHANGED circuitVars

(* Mutant: failures older than the window are counted.                     *)
CountedWithoutPruning == Append(failures, clock)

(* Mutant: the window starts anew when its first failure is too old.       *)
CountedAfresh ==
    IF failures # <<>> /\ clock - failures[1] >= FailureWindow
    THEN <<clock>> ELSE Append(failures, clock)

(* The branch for CLOSED is taken while OPEN as well: a request admitted   *)
(* before the breaker opened may report its failure afterwards.            *)
Counted == Prune(Append(failures, clock), FailureWindow)

RecordFailure ==
    /\ Len(failed) < MaxFailures
    /\ failed' = Append(failed, clock)
    /\ \/ circuit = "HALF_OPEN" /\ ToOpen /\ UNCHANGED failures
       \/ /\ circuit # "HALF_OPEN"
          /\ failures' = Counted
          /\ Len(Counted) >= FailureThreshold
          /\ ToOpen
       \/ /\ circuit # "HALF_OPEN"
          /\ failures' = Counted
          /\ Len(Counted) < FailureThreshold
          /\ UNCHANGED <<circuit, halfOpenSuccesses, halfOpenFailures, openedAt,
                         trippedAt, probes>>

(* getStats, called by the status route: prunes, then getState may turn    *)
(* an OPEN breaker HALF_OPEN.                                              *)
ReadBreaker ==
    /\ failures' = Prune(failures, FailureWindow)
    /\ \/ /\ circuit = "OPEN" /\ openedAt # 0 /\ Recovered
          /\ circuit' = "HALF_OPEN"
          /\ halfOpenSuccesses' = 0
          /\ halfOpenFailures' = 0
          /\ probes' = 0
       \/ /\ ~(circuit = "OPEN" /\ openedAt # 0 /\ Recovered)
          /\ UNCHANGED <<circuit, halfOpenSuccesses, halfOpenFailures, probes>>
    /\ UNCHANGED <<openedAt, failed, trippedAt>>

(* The process restarts with a new breaker.                                *)
ForgetBreaker ==
    /\ circuit' = "CLOSED"
    /\ failures' = <<>>
    /\ halfOpenSuccesses' = 0
    /\ halfOpenFailures' = 0
    /\ openedAt' = 0
    /\ failed' = <<>>
    /\ trippedAt' = 0
    /\ probes' = 0

BreakerNext ==
    \/ AllowRequest /\ UNCHANGED clock
    \/ RefuseRequest /\ UNCHANGED clock
    \/ RecordSuccess /\ UNCHANGED clock
    \/ RecordFailure /\ UNCHANGED clock
    \/ ReadBreaker /\ UNCHANGED clock
    \/ ForgetBreaker /\ UNCHANGED clock
    \/ Tick /\ UNCHANGED circuitVars

BreakerSpec == BreakerInit /\ [][BreakerNext]_breakerVars

-----------------------------------------------------------------------------
(* "opens if threshold exceeded within window": a breaker is not CLOSED    *)
(* once FailureThreshold failures since it last closed fell into any       *)
(* stretch of one window, whatever was pruned, read or reset in between.   *)
TripsInTime ==
    circuit = "CLOSED" => AtMost(FailureThreshold - 1, FailureWindow, failed)

(* It leaves CLOSED only when that many failures lie in the latest window. *)
TripsForCause ==
    [][circuit = "CLOSED" /\ circuit' = "OPEN"
          => Busy(FailureThreshold, FailureWindow, failed')]_breakerVars

(* It probes only after a full RecoveryTimeout since it tripped, also when *)
(* probes failed and tripped it again.                                     *)
QuietPeriod ==
    circuit = "HALF_OPEN" => clock - trippedAt >= RecoveryTimeout

(* The probe limit never refuses a request: a half-open breaker that       *)
(* admitted nobody could never learn that the provider is back.            *)
NeverStuck == circuit = "HALF_OPEN" => ProbesLeft

(* The runbook: HALF_OPEN "allows 3 probe requests to test recovery".      *)
ProbesBounded == probes <= HalfOpenMaxCalls
=============================================================================
