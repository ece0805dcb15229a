------------------------------- MODULE MCGuards -------------------------------
(* What guards a key for TLC: the rate limiter and the circuit breaker of   *)
(* signing, and the contract that limits session keys.  They share nothing  *)
(* but a clock, so a behaviour exercises one of them.                       *)
EXTENDS SigningRateLimiter, SigningCircuitBreaker, AutomationModule

VARIABLE guard    \* the guard this behaviour exercises

(* One tight set of limits, one with a looser rate, an expiry and neither a *)
(* daily nor a per-trade limit.                                             *)
MCConstraints ==
    {[maxNotionalPerTrade |-> 2, maxNotionalPerDay |-> 3,
      maxTxPerHour |-> 1, expiry |-> 0],
     [maxNotionalPerTrade |-> 0, maxNotionalPerDay |-> 0,
      maxTxPerHour |-> 2, expiry |-> 4]}

GuardsInit ==
    /\ LimiterInit
    /\ BreakerInit
    /\ ModuleInit
    /\ guard \in {"limiter", "breaker", "module"}

GuardsNext ==
    /\ UNCHANGED guard
    /\ \/ guard = "limiter" /\ LimiterNext /\ UNCHANGED <<circuitVars, moduleVars>>
       \/ guard = "breaker" /\ BreakerNext /\ UNCHANGED <<windowVars, moduleVars>>
       \/ guard = "module" /\ ModuleNext /\ UNCHANGED <<clock, windowVars, circuitVars>>

GuardsSpec == GuardsInit /\ [][GuardsNext]_<<clock, windowVars, circuitVars, moduleVars, guard>>
=============================================================================
