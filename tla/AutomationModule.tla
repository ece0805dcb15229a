-------------------------- MODULE AutomationModule --------------------------
(***************************************************************************)
(* The Safe module that lets a backend session key act for a Safe within   *)
(* limits (packages/contracts/src/AutomationModule.sol), for one Safe: the *)
(* storage of different Safes is disjoint.  Every external function is one *)
(* transaction, hence one atomic step; one that reverts undoes every       *)
(* effect, its events included, hence no step.  Calls of other contracts   *)
(* back into the module from the Safe's execution are not modelled.        *)
(***************************************************************************)
EXTENDS Integers, FiniteSetsExt

CONSTANTS
    Keys,            \* session key addresses (not zero, not the Safe)
    Targets,         \* contracts the Safe may be asked to call
    Selectors,       \* "transfer" is ERC20's, "other" stands for the rest
    Recipients,      \* destinations of ERC20 transfers (not zero)
    NoRecipient,     \* calldata shorter than 36 bytes names none
    Constraints,     \* the Constraints structs owners pass
    Notionals,       \* values of notionalUsd
    Hour, Day,       \* 1 hours and 1 days in ticks of block.timestamp
    MaxUint32,       \* range of hourlyTxCount
    MaxUint256,      \* range of dailyNotionalUsed
    MaxTimestamp, MaxExecutions, MaxRegistrations  \* bounds of the model

ASSUME ModuleAssumption ==
    /\ Constraints \subseteq [maxNotionalPerTrade : Nat, maxNotionalPerDay : Nat,
                              maxTxPerHour : Nat, expiry : Nat]
    /\ Selectors \subseteq {"transfer", "other"}
    /\ Notionals \subseteq Nat
    /\ NoRecipient \notin Recipients
    /\ Hour \in Nat \ {0} /\ Day \in Nat /\ Hour <= Day
    /\ MaxUint32 \in Nat /\ MaxUint256 \in Nat
    /\ MaxTimestamp \in Nat /\ MaxExecutions \in Nat /\ MaxRegistrations \in Nat

(* What executeFromSessionKey reads of its arguments.                      *)
Calls == [to : Targets, selector : Selectors,
          recipient : Recipients \cup {NoRecipient}, notional : Notionals]

VARIABLES
    active,             \* SessionKeyData.active of each key
    constraints,        \* SessionKeyData.constraints
    dailyNotionalUsed,  \* SessionKeyData.dailyNotionalUsed
    hourlyTxCount,      \* SessionKeyData.hourlyTxCount
    lastDayReset,       \* SessionKeyData.lastDayReset
    lastHourReset,      \* SessionKeyData.lastHourReset
    allowedTargets, allowedSelectors, allowedTokens, withdrawalAllowlist,
    now,                \* block.timestamp
    epoch,              \* history: registrations of each key so far
    executed            \* history: what the Safe was made to execute

keyVars   == <<active, constraints, dailyNotionalUsed, hourlyTxCount,
               lastDayReset, lastHourReset>>
listVars  == <<allowedTargets, allowedSelectors, allowedTokens,
               withdrawalAllowlist>>
moduleVars == <<keyVars, listVars, now, epoch, executed>>

NoConstraints == [maxNotionalPerTrade |-> 0, maxNotionalPerDay |-> 0,
                  maxTxPerHour |-> 0, expiry |-> 0]

(* One entry of the history: the n-th execution, its key and registration, *)
(* the starts of its day and hour windows and the constraints in force.    *)
Execution == [n : Nat, key : Keys, epoch : Nat, at : Nat, day : Nat,
              hour : Nat, notional : Nat, under : Constraints]

ModuleTypeOK ==
    /\ active \in [Keys -> BOOLEAN]
    /\ constraints \in [Keys -> Constraints \cup {NoConstraints}]
    /\ dailyNotionalUsed \in [Keys -> 0..MaxUint256]
    /\ hourlyTxCount \in [Keys -> 0..MaxUint32]
    /\ lastDayReset \in [Keys -> Nat]
    /\ lastHourReset \in [Keys -> Nat]
    /\ allowedTargets \subseteq Targets
    /\ allowedSelectors \subseteq Selectors
    /\ allowedTokens \subseteq Targets
    /\ withdrawalAllowlist \subseteq Recipients
    /\ now \in Nat
    /\ epoch \in [Keys -> Nat]
    /\ executed \subseteq Execution
    /\ IsFiniteSet(executed)

ModuleInit ==
    /\ active = [k \in Keys |-> FALSE]
    /\ constraints = [k \in Keys |-> NoConstraints]
    /\ dailyNotionalUsed = [k \in Keys |-> 0]
    /\ hourlyTxCount = [k \in Keys |-> 0]
    /\ lastDayReset = [k \in Keys |-> 0]
    /\ lastHourReset = [k \in Keys |-> 0]
    /\ allowedTargets = {}
    /\ allowedSelectors = {}
    /\ allowedTokens = {}
    /\ withdrawalAllowlist = {}
    /\ now = 1
    /\ epoch = [k \in Keys |-> 0]
    /\ executed = {}

-----------------------------------------------------------------------------
RegisterSessionKey(k, c) ==
    /\ ~active[k]
    /\ epoch[k] < MaxRegistrations
    /\ active' = [active EXCEPT ![k] = TRUE]
    /\ constraints' = [constraints EXCEPT ![k] = c]
    /\ dailyNotionalUsed' = [dailyNotionalUsed EXCEPT ![k] = 0]
    /\ hourlyTxCount' = [hourlyTxCount EXCEPT ![k] = 0]
    /\ lastDayReset' = [lastDayReset EXCEPT ![k] = now]
    /\ lastHourReset' = [lastHourReset EXCEPT ![k] = now]
    /\ epoch' = [epoch EXCEPT ![k] = @ + 1]
    /\ UNCHANGED <<listVars, now, executed>>

RevokeSessionKey(k) ==
    /\ active[k]
    /\ active' = [active EXCEPT ![k] = FALSE]
    /\ UNCHANGED <<constraints, dailyNotionalUsed, hourlyTxCount, lastDayReset,
                   lastHourReset, listVars, now, epoch, executed>>

(* Mutant: new constraints start with fresh counters.                      *)
UpdateAndResetCounters(k, c) ==
    /\ active[k]
    /\ constraints' = [constraints EXCEPT ![k] = c]
    /\ dailyNotionalUsed' = [dailyNotionalUsed EXCEPT ![k] = 0]
    /\ hourlyTxCount' = [hourlyTxCount EXCEPT ![k] = 0]
    /\ UNCHANGED <<active, lastDayReset, lastHourReset, listVars, now, epoch,
                   executed>>

UpdateConstraints(k, c) ==
    /\ active[k]
    /\ constraints' = [constraints EXCEPT ![k] = c]
    /\ UNCHANGED <<active, dailyNotionalUsed, hourlyTxCount, lastDayReset,
                   lastHourReset, listVars, now, epoch, executed>>

Put(S, x, allowed) == IF allowed THEN S \cup {x} ELSE S \ {x}

SetTargetAllowed(t, allowed) ==
    /\ allowedTargets' = Put(allowedTargets, t, allowed)
    /\ UNCHANGED <<keyVars, allowedSelectors, allowedTokens,
                   withdrawalAllowlist, now, epoch, executed>>

SetSelectorAllowed(sel, allowed) ==
    /\ allowedSelectors' = Put(allowedSelectors, sel, allowed)
    /\ UNCHANGED <<keyVars, allowedTargets, allowedTokens,
                   withdrawalAllowlist, now, epoch, executed>>

SetTokenAllowed(t, allowed) ==
    /\ allowedTokens' = Put(allowedTokens, t, allowed)
    /\ UNCHANGED <<keyVars, allowedTargets, allowedSelectors,
                   withdrawalAllowlist, now, epoch, executed>>

(* addWithdrawalAddress and removeWithdrawalAddress                        *)
SetWithdrawalAddress(r, allowed) ==
    /\ withdrawalAllowlist' = Put(withdrawalAllowlist, r, allowed)
    /\ UNCHANGED <<keyVars, allowedTargets, allowedSelectors, allowedTokens,
                   now, epoch, executed>>

-----------------------------------------------------------------------------
(* The windows are fixed: a window opens at the first execution after the  *)
(* previous one is over.                                                   *)
NewDay(k)    == now >= lastDayReset[k] + Day
NewHour(k)   == now >= lastHourReset[k] + Hour
DayStart(k)  == IF NewDay(k) THEN now ELSE lastDayReset[k]
HourStart(k) == IF NewHour(k) THEN now ELSE lastHourReset[k]
DayUsed(k)   == IF NewDay(k) THEN 0 ELSE dailyNotionalUsed[k]
HourUsed(k)  == IF NewHour(k) THEN 0 ELSE hourlyTxCount[k]

Permitted(k, call) ==
    /\ active[k]
    /\ constraints[k].expiry = 0 \/ now <= constraints[k].expiry
    /\ call.to \in allowedTargets
    /\ call.selector \in allowedSelectors

WithinPerTrade(k, call) ==
    \/ constraints[k].maxNotionalPerTrade = 0
    \/ call.notional <= constraints[k].maxNotionalPerTrade

(* Mutant: the notional of the call itself is not counted.                 *)
WithinDayBefore(k, call) ==
    \/ constraints[k].maxNotionalPerDay = 0
    \/ DayUsed(k) <= constraints[k].maxNotionalPerDay

WithinDay(k, call) ==
    \/ constraints[k].maxNotionalPerDay = 0
    \/ DayUsed(k) + call.notional <= constraints[k].maxNotionalPerDay

(* Mutant: one execution too many, off by one.                             *)
WithinHourInclusive(k) ==
    \/ constraints[k].maxTxPerHour = 0
    \/ HourUsed(k) <= constraints[k].maxTxPerHour

WithinHour(k) ==
    \/ constraints[k].maxTxPerHour = 0
    \/ HourUsed(k) < constraints[k].maxTxPerHour

WithdrawalAllowed(call) ==
    (call.selector = "transfer" /\ call.recipient # NoRecipient)
        => call.recipient \in withdrawalAllowlist

WithinLimits(k, call) ==
    /\ WithinPerTrade(k, call)
    /\ WithinDay(k, call)
    /\ WithinHour(k)
    /\ WithdrawalAllowed(call)

(* Checked arithmetic: an addition that does not fit reverts.              *)
CountersFit(k, call) ==
    /\ DayUsed(k) + call.notional <= MaxUint256
    /\ HourUsed(k) + 1 <= MaxUint32

Execute(k, call) ==
    /\ Permitted(k, call)
    /\ WithinLimits(k, call)
    /\ CountersFit(k, call)
    /\ Cardinality(executed) < MaxExecutions
    /\ dailyNotionalUsed' = [dailyNotionalUsed EXCEPT
                                ![k] = DayUsed(k) + call.notional]
    /\ hourlyTxCount' = [hourlyTxCount EXCEPT ![k] = HourUsed(k) + 1]
    /\ lastDayReset' = [lastDayReset EXCEPT ![k] = DayStart(k)]
    /\ lastHourReset' = [lastHourReset EXCEPT ![k] = HourStart(k)]
    /\ executed' = executed \cup
         {[n |-> Cardinality(executed) + 1, key |-> k, epoch |-> epoch[k],
           at |-> now, day |-> DayStart(k), hour |-> HourStart(k),
           notional |-> call.notional, under |-> constraints[k]]}
    /\ UNCHANGED <<active, constraints, listVars, now, epoch>>

NextBlock ==
    /\ now < MaxTimestamp
    /\ now' = now + 1
    /\ UNCHANGED <<keyVars, listVars, epoch, executed>>

ModuleNext ==
    \/ \E k \in Keys :
          \/ \E c \in Constraints : \/ RegisterSessionKey(k, c)
                                    \/ UpdateConstraints(k, c)
          \/ RevokeSessionKey(k)
          \/ \E call \in Calls : Execute(k, call)
    \/ \E allowed \in BOOLEAN :
          \/ \E t \in Targets : \/ SetTargetAllowed(t, allowed)
                                \/ SetTokenAllowed(t, allowed)
          \/ \E sel \in Selectors : SetSelectorAllowed(sel, allowed)
          \/ \E r \in Recipients : SetWithdrawalAddress(r, allowed)
    \/ NextBlock

ModuleSpec == ModuleInit /\ [][ModuleNext]_moduleVars

-----------------------------------------------------------------------------
(* The executions up to e in the hour window, or day window, e falls into. *)
ExecutedUpTo(e)      == {f \in executed : f.key = e.key /\ f.epoch = e.epoch /\ f.n <= e.n}
SameHour(e)  == {f \in ExecutedUpTo(e) : f.hour = e.hour}
SameDay(e)   == {f \in ExecutedUpTo(e) : f.day = e.day}

NotionalOf(S) == MapThenSumSet(LAMBDA f : f.notional, S)

(* Constraint 6 of the contract: the executions of one hour window never   *)
(* exceed the maxTxPerHour in force at the last of them, whatever resets,  *)
(* reverts and constraint updates happen in between.                       *)
HourlyRate ==
    \A e \in executed : e.under.maxTxPerHour > 0
        => Cardinality(SameHour(e)) <= e.under.maxTxPerHour

(* Constraint 5: the notional executed in one day window never exceeds the *)
(* maxNotionalPerDay in force at the last execution of the window.         *)
DailyBudget ==
    \A e \in executed : e.under.maxNotionalPerDay > 0
        => NotionalOf(SameDay(e)) <= e.under.maxNotionalPerDay

(* Fixed windows let a burst straddle their boundary: any stretch of Hour  *)
(* ticks holds at most twice the largest rate limit in force in it.        *)
RollingHour ==
    \A e \in executed :
        LET recent == {f \in ExecutedUpTo(e) : f.at > e.at - Hour}
            limits == {f.under.maxTxPerHour : f \in recent}
        IN  0 \notin limits => Cardinality(recent) <= 2 * Max(limits)
=============================================================================
