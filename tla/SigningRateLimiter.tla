------------------------- MODULE SigningRateLimiter -------------------------
(***************************************************************************)
(* SigningRateLimiter (services/signing-rate-limiter.ts): a sliding window *)
(* of one minute per user and one for all users, in the memory of the API  *)
(* process.                                                                *)
(***************************************************************************)
EXTENDS SlidingWindow

CONSTANTS
    Users,
    PerUser,       \* PER_USER_PER_MINUTE (30 in production)
    Global,        \* GLOBAL_PER_MINUTE (300)
    RateWindow,    \* windowMs in ticks
    MaxAdmitted    \* bound on admitted requests

ASSUME LimiterAssumption ==
    /\ PerUser \in Nat \ {0}
    /\ Global \in Nat \ {0}
    /\ RateWindow \in Nat \ {0}
    /\ MaxAdmitted \in Nat

VARIABLES
    userWindow,     \* perUserWindows; a user without an entry has an empty one
    globalWindow,
    admitted,       \* history: when each user's requests were admitted
    admittedAll     \* history: when requests of any user were

windowVars  == <<userWindow, globalWindow, admitted, admittedAll>>
limiterVars == <<clock, windowVars>>

LimiterTypeOK ==
    /\ clock \in Nat
    /\ userWindow \in [Users -> Seq(Nat)]
    /\ globalWindow \in Seq(Nat)
    /\ \A u \in Users : Len(userWindow[u]) <= PerUser
    /\ Len(globalWindow) <= Global
    /\ admitted \in [Users -> Seq(Nat)]
    /\ admittedAll \in Seq(Nat)

LimiterInit ==
    /\ clock = 1
    /\ userWindow = [u \in Users |-> <<>>]
    /\ globalWindow = <<>>
    /\ admitted = [u \in Users |-> <<>>]
    /\ admittedAll = <<>>

-----------------------------------------------------------------------------
(* checkAndIncrement up to its first await, in its three outcomes.         *)
Recent(u)    == Prune(userWindow[u], RateWindow)
RecentAll    == Prune(globalWindow, RateWindow)
UserFull(u)  == Len(Recent(u)) >= PerUser
GlobalFull   == Len(RecentAll) >= Global

(* Mutant: the global window is checked and not written.                   *)
AdmitUserOnly(u) ==
    /\ ~UserFull(u) /\ ~GlobalFull
    /\ Len(admittedAll) < MaxAdmitted
    /\ userWindow' = [userWindow EXCEPT ![u] = Append(Recent(u), clock)]
    /\ globalWindow' = RecentAll
    /\ admitted' = [admitted EXCEPT ![u] = Append(@, clock)]
    /\ admittedAll' = Append(admittedAll, clock)

Admit(u) ==
    /\ ~UserFull(u)
    /\ ~GlobalFull
    /\ Len(admittedAll) < MaxAdmitted
    /\ userWindow' = [userWindow EXCEPT ![u] = Append(Recent(u), clock)]
    /\ globalWindow' = Append(RecentAll, clock)
    /\ admitted' = [admitted EXCEPT ![u] = Append(@, clock)]
    /\ admittedAll' = Append(admittedAll, clock)

RefuseUser(u) ==
    /\ UserFull(u)
    /\ userWindow' = [userWindow EXCEPT ![u] = Recent(u)]
    /\ UNCHANGED <<globalWindow, admitted, admittedAll>>

(* Mutant: the request is pushed on the user's window before the global    *)
(* check, and stays there when that check refuses it.                      *)
RefuseGlobalAfterPush(u) ==
    /\ ~UserFull(u) /\ GlobalFull
    /\ userWindow' = [userWindow EXCEPT ![u] = Append(Recent(u), clock)]
    /\ globalWindow' = RecentAll
    /\ UNCHANGED <<admitted, admittedAll>>

RefuseGlobal(u) ==
    /\ ~UserFull(u)
    /\ GlobalFull
    /\ userWindow' = [userWindow EXCEPT ![u] = Recent(u)]
    /\ globalWindow' = RecentAll
    /\ UNCHANGED <<admitted, admittedAll>>

(* getStats, called by the status route, prunes every window.              *)
ReadWindows ==
    /\ userWindow' = [u \in Users |-> Recent(u)]
    /\ globalWindow' = RecentAll
    /\ UNCHANGED <<admitted, admittedAll>>

(* The process restarts with empty windows; the history starts over.       *)
ForgetWindows ==
    /\ userWindow' = [u \in Users |-> <<>>]
    /\ globalWindow' = <<>>
    /\ admitted' = [u \in Users |-> <<>>]
    /\ admittedAll' = <<>>

LimiterNext ==
    \/ \E u \in Users : Admit(u) /\ UNCHANGED clock
    \/ \E u \in Users : RefuseUser(u) /\ UNCHANGED clock
    \/ \E u \in Users : RefuseGlobal(u) /\ UNCHANGED clock
    \/ ReadWindows /\ UNCHANGED clock
    \/ ForgetWindows /\ UNCHANGED clock
    \/ Tick /\ UNCHANGED windowVars

LimiterSpec == LimiterInit /\ [][LimiterNext]_limiterVars

-----------------------------------------------------------------------------
(* "Per-user: max N signing requests per minute": in any stretch of one    *)
(* minute, wherever it starts, at most PerUser requests of a user pass.    *)
UserRate == \A u \in Users : AtMost(PerUser, RateWindow, admitted[u])

(* "Global: max N signing requests per minute across all users".           *)
GlobalRate == AtMost(Global, RateWindow, admittedAll)

(* Both rates at once: what every stretch of a minute is held to.          *)
RatesKept == UserRate /\ GlobalRate

(* A user is refused only when PerUser of its own requests passed within   *)
(* the last minute, or Global of all: refused requests cost nothing.       *)
RefusedForCause ==
    [][\A u \in Users :
          /\ RefuseUser(u) => Busy(PerUser, RateWindow, admitted[u])
          /\ RefuseGlobal(u) => Busy(Global, RateWindow, admittedAll)]_limiterVars
=============================================================================
