----------------------------- MODULE CopyEngine -----------------------------
(***************************************************************************)
(* CopyEngine.processCopiesForEvent and processCopyForUser                 *)
(* (engine/copy-engine.ts): for one leader event, every enabled follower   *)
(* in turn gets a copy attempt, the guardrails, an order on the exchange   *)
(* and the rows that record it.                                            *)
(*                                                                         *)
(* A poll is one running activation of the worker's poll().  setInterval   *)
(* starts activations without waiting for the previous one, so several     *)
(* run interleaved; a step is the code between two awaits together with    *)
(* the effect of the call it awaits.                                       *)
(***************************************************************************)
EXTENDS CopyCircuitBreaker, Sequences, FiniteSets

CONSTANTS
    Users,              \* followers
    Provisioned,        \* those with a POLY_PROXY wallet and credentials
    Authorized,         \* those with a server wallet or a TRADING_EOA
    Trades,             \* the trades the leader may make
    SideOf,             \* side of each trade, "BUY" or "SELL"
    ConditionOf,        \* market (conditionId) of each trade
    TokenOf,            \* token (tokenId) of each trade
    MaxOpenPositions,   \* copyProfile.maxOpenPositions, the same for all
    Polls,              \* activations of poll() that may run at once
    Syncs,              \* activations of syncAllLeaderTrades()
    FaultKinds,         \* which faults the environment may inject
    MaxFaults,          \* bound on uncaught database errors and crashes
    MaxAttempts         \* bound on rows of copy_attempts

Tasks == Polls \cup Syncs

ASSUME EngineAssumption ==
    /\ Users # {} /\ Trades # {}
    /\ Provisioned \subseteq Users
    /\ Authorized \subseteq Users
    /\ SideOf \in [Trades -> {"BUY", "SELL"}]
    /\ DOMAIN ConditionOf = Trades /\ DOMAIN TokenOf = Trades
    /\ MaxOpenPositions \in Nat
    /\ Polls \cap Syncs = {}
    /\ FaultKinds \subseteq {"throw", "lostReply", "database", "crash"}
    /\ MaxFaults \in Nat
    /\ MaxAttempts \in Nat

VARIABLES
    events,    \* leader_events: row i holds the trade it records
    attempts,  \* copy_attempts: [user, event, status, order], order 0 = null
    orders,    \* orders: [user, trade, poly, status]; poly is the exchange's
               \* id of a copy, 0 for an order that the user placed by hand
    follows,   \* users whose follow of the leader is ACTIVE
    enabled,   \* users whose copy profile is ENABLED
    book,      \* orders the exchange accepted: [user, event, attempt]
    breaker,   \* this.circuitBreaker
    clock,     \* Date.now() in ticks
    faults,    \* faults injected so far
    pc,        \* where each activation stands
    ev,        \* leaderEvent (a row of events)
    pend,      \* users of the follows snapshot still to process
    usr,       \* user
    att,       \* attempt.id
    poly       \* orderResult.orderID

dbVars     == <<events, attempts, orders, follows, enabled>>
taskVars   == <<pc, ev, pend, usr, att, poly>>
engineVars == <<dbVars, book, breaker, clock, faults, taskVars>>

Attempt == [user : Users, event : Nat,
            status : {"PENDING", "SUBMITTED", "SKIPPED", "FAILED"},
            order : Nat]
Order   == [user : Users, trade : Trades, poly : Nat, status : {"OPEN", "CLOSED"}]
Booked  == [user : Users, event : Nat, attempt : Nat]

Goto(p, label) == pc' = [pc EXCEPT ![p] = label]

AttemptsOf(u, e) == {i \in DOMAIN attempts :
                        attempts[i].user = u /\ attempts[i].event = e}

NewAttempt(u, e, st) ==
    /\ Len(attempts) < MaxAttempts
    /\ attempts' = Append(attempts, [user |-> u, event |-> e,
                                     status |-> st, order |-> 0])

SetStatus(i, st) == attempts' = [attempts EXCEPT ![i].status = st]

Submit(i, j) == attempts' = [attempts EXCEPT ![i] =
                                [user |-> @.user, event |-> @.event,
                                 status |-> "SUBMITTED", order |-> j]]

(* The conditionId column: POST /orders stores the token there.            *)
MarketOf(o) == IF o.poly = 0 THEN TokenOf[o.trade] ELSE ConditionOf[o.trade]

OpenRows(u)       == {j \in DOMAIN orders : orders[j].user = u /\ orders[j].status = "OPEN"}
OpenConditions(u) == {MarketOf(orders[j]) : j \in OpenRows(u)}

CapReached(u, t) == /\ SideOf[t] = "BUY"
                    /\ Cardinality(OpenConditions(u)) >= MaxOpenPositions

-----------------------------------------------------------------------------
SomeUser == CHOOSE u \in Users : TRUE

(* The locals of processCopiesForEvent go out of scope.                    *)
DropCopyLocals(ps) ==
    /\ ev'   = [p \in Polls |-> IF p \in ps THEN 0 ELSE ev[p]]
    /\ pend' = [p \in Polls |-> IF p \in ps THEN {} ELSE pend[p]]
    /\ usr'  = [p \in Polls |-> IF p \in ps THEN SomeUser ELSE usr[p]]
    /\ att'  = [p \in Polls |-> IF p \in ps THEN 0 ELSE att[p]]
    /\ poly' = [p \in Polls |-> IF p \in ps THEN 0 ELSE poly[p]]

(* follow.findMany with the users, their profiles, wallets, credentials.   *)
ReadFollows(p) ==
    /\ pc[p] = "follows"
    /\ pend' = [pend EXCEPT ![p] = follows \cap enabled]
    /\ Goto(p, "users")
    /\ UNCHANGED <<dbVars, book, breaker, clock, faults, ev, usr, att, poly>>

(* The head of processCopyForUser: the breaker is asked before anything.   *)
NextUser(p) ==
    /\ pc[p] = "users"
    /\ \E u \in pend[p] :
          /\ usr' = [usr EXCEPT ![p] = u]
          /\ pend' = [pend EXCEPT ![p] = @ \ {u}]
    /\ breaker' = AfterCanExecute(breaker, clock)
    /\ Goto(p, IF CanExecute(breaker, clock) THEN "dup" ELSE "skip")
    /\ UNCHANGED <<dbVars, book, clock, faults, ev, att, poly>>

CopiesDone(p) ==
    /\ pc[p] = "users"
    /\ pend[p] = {}
    /\ Goto(p, "next")
    /\ DropCopyLocals({p})
    /\ UNCHANGED <<dbVars, book, breaker, clock, faults>>

(* Mutants: the skipped copy is recorded with a status the enum lacks; it  *)
(* is not recorded at all.                                                 *)
SkipWithUnknownStatus(p) ==
    /\ pc[p] = "skip"
    /\ NewAttempt(usr[p], ev[p], "BREAKER_OPEN")
    /\ Goto(p, "users")
    /\ UNCHANGED <<events, orders, follows, enabled, book, breaker, clock,
                   faults, ev, pend, usr, att, poly>>

SkipSilently(p) ==
    /\ pc[p] = "skip"
    /\ Goto(p, "users")
    /\ UNCHANGED <<dbVars, book, breaker, clock, faults, ev, pend, usr, att, poly>>

SkipBreakerOpen(p) ==
    /\ pc[p] = "skip"
    /\ NewAttempt(usr[p], ev[p], "SKIPPED")
    /\ Goto(p, "users")
    /\ UNCHANGED <<events, orders, follows, enabled, book, breaker, clock,
                   faults, ev, pend, usr, att, poly>>

(* Mutants: only SUBMITTED attempts count as duplicates; none does.        *)
CheckSubmittedOnly(p) ==
    /\ pc[p] = "dup"
    /\ Goto(p, IF \A i \in AttemptsOf(usr[p], ev[p]) :
                     attempts[i].status # "SUBMITTED"
               THEN "attempt" ELSE "users")
    /\ UNCHANGED <<dbVars, book, breaker, clock, faults, ev, pend, usr, att, poly>>

CheckNothing(p) ==
    /\ pc[p] = "dup"
    /\ Goto(p, "attempt")
    /\ UNCHANGED <<dbVars, book, breaker, clock, faults, ev, pend, usr, att, poly>>

CheckDuplicate(p) ==
    /\ pc[p] = "dup"
    /\ Goto(p, IF AttemptsOf(usr[p], ev[p]) = {} THEN "attempt" ELSE "users")
    /\ UNCHANGED <<dbVars, book, breaker, clock, faults, ev, pend, usr, att, poly>>

CreateAttempt(p) ==
    /\ pc[p] = "attempt"
    /\ NewAttempt(usr[p], ev[p], "PENDING")
    /\ att' = [att EXCEPT ![p] = Len(attempts) + 1]
    /\ Goto(p, "guard")
    /\ UNCHANGED <<events, orders, follows, enabled, book, breaker, clock,
                   faults, ev, pend, usr, poly>>

MissingCredentials(p) ==
    /\ pc[p] = "guard"
    /\ usr[p] \notin Provisioned
    /\ SetStatus(att[p], "FAILED")
    /\ Goto(p, "users")
    /\ UNCHANGED <<events, orders, follows, enabled, book, breaker, clock,
                   faults, ev, pend, usr, att, poly>>

(* evaluateGuardrails on the open orders just read: the position cap is    *)
(* exact; odds, balance and size depend on data left out here (module      *)
(* Guardrails) and may refuse any copy.                                    *)
GuardrailsSkip(p) ==
    /\ pc[p] = "guard"
    /\ usr[p] \in Provisioned
    /\ SetStatus(att[p], "SKIPPED")
    /\ Goto(p, "users")
    /\ UNCHANGED <<events, orders, follows, enabled, book, breaker, clock,
                   faults, ev, pend, usr, att, poly>>

(* Mutant: the position cap is not looked at.                              *)
AllowBeyondCap(p) ==
    /\ pc[p] = "guard"
    /\ usr[p] \in Provisioned
    /\ Goto(p, "address")
    /\ UNCHANGED <<dbVars, book, breaker, clock, faults, ev, pend, usr, att, poly>>

GuardrailsAllow(p) ==
    /\ pc[p] = "guard"
    /\ usr[p] \in Provisioned
    /\ ~CapReached(usr[p], events[ev[p]])
    /\ Goto(p, "address")
    /\ UNCHANGED <<dbVars, book, breaker, clock, faults, ev, pend, usr, att, poly>>

NoTradingAuthority(p) ==
    /\ pc[p] = "address"
    /\ usr[p] \notin Authorized
    /\ SetStatus(att[p], "FAILED")
    /\ Goto(p, "users")
    /\ UNCHANGED <<events, orders, follows, enabled, book, breaker, clock,
                   faults, ev, pend, usr, att, poly>>

(* tradingAuthority.getAddress: the wallet is READY, or it throws.         *)
GetAddress(p) ==
    /\ pc[p] = "address"
    /\ usr[p] \in Authorized
    /\ Goto(p, "post")
    /\ UNCHANGED <<dbVars, book, breaker, clock, faults, ev, pend, usr, att, poly>>

SigningUnavailable(p) ==
    /\ pc[p] = "address"
    /\ usr[p] \in Authorized
    /\ SetStatus(att[p], "FAILED")
    /\ Goto(p, "unavailable")
    /\ UNCHANGED <<events, orders, follows, enabled, book, breaker, clock,
                   faults, ev, pend, usr, att, poly>>

RecordUnavailable(p) ==
    /\ pc[p] = "unavailable"
    /\ breaker' = RecordFailure(breaker, clock)
    /\ Goto(p, "users")
    /\ UNCHANGED <<dbVars, book, clock, faults, ev, pend, usr, att, poly>>

-----------------------------------------------------------------------------
(* adapter.createOrder: the exchange accepts the order and answers,        *)
(* rejects it, or accepts it and the answer is lost.                       *)
Accept(p) == book' = Append(book, [user |-> usr[p], event |-> ev[p],
                                   attempt |-> att[p]])

PostAccepted(p) ==
    /\ pc[p] = "post"
    /\ Accept(p)
    /\ poly' = [poly EXCEPT ![p] = Len(book) + 1]
    /\ Goto(p, "store")
    /\ UNCHANGED <<dbVars, breaker, clock, faults, ev, pend, usr, att>>

PostRejected(p) ==
    /\ pc[p] = "post"
    /\ SetStatus(att[p], "FAILED")
    /\ Goto(p, "users")
    /\ UNCHANGED <<events, orders, follows, enabled, book, breaker, clock,
                   faults, ev, pend, usr, att, poly>>

(* Mutant: the post is retried when its reply is lost.                     *)
PostAgainWhenReplyLost(p) ==
    /\ pc[p] = "post"
    /\ "lostReply" \in FaultKinds
    /\ Len(book) < MaxAttempts
    /\ Accept(p)
    /\ UNCHANGED <<dbVars, breaker, clock, faults, pc, ev, pend, usr, att, poly>>

PostReplyLost(p) ==
    /\ pc[p] = "post"
    /\ "lostReply" \in FaultKinds
    /\ Accept(p)
    /\ Goto(p, "catch")
    /\ UNCHANGED <<dbVars, breaker, clock, faults, ev, pend, usr, att, poly>>

StoreOrder(p) ==
    /\ pc[p] = "store"
    /\ orders' = Append(orders, [user |-> usr[p], trade |-> events[ev[p]],
                                 poly |-> poly[p], status |-> "OPEN"])
    /\ Goto(p, "submit")
    /\ UNCHANGED <<events, attempts, follows, enabled, book, breaker, clock,
                   faults, ev, pend, usr, att, poly>>

(* Mutant: the attempt is linked to some order of the user.                *)
LinkAnyOrder(p) ==
    /\ pc[p] = "submit"
    /\ \E j \in DOMAIN orders :
          /\ orders[j].user = usr[p]
          /\ Submit(att[p], j)
    /\ Goto(p, "record")
    /\ UNCHANGED <<events, orders, follows, enabled, book, breaker, clock,
                   faults, ev, pend, usr, att, poly>>

(* The order row this activation created is the one with its poly id.      *)
MarkSubmitted(p) ==
    /\ pc[p] = "submit"
    /\ \E j \in DOMAIN orders :
          /\ orders[j].poly = poly[p]
          /\ Submit(att[p], j)
    /\ Goto(p, "record")
    /\ UNCHANGED <<events, orders, follows, enabled, book, breaker, clock,
                   faults, ev, pend, usr, att, poly>>

RecordSubmitted(p) ==
    /\ pc[p] = "record"
    /\ breaker' = RecordSuccess(breaker)
    /\ Goto(p, "users")
    /\ UNCHANGED <<dbVars, book, clock, faults, ev, pend, usr, att, poly>>

-----------------------------------------------------------------------------
(* Mutant: the statements after the last update may throw as well.         *)
ThrowAfterSubmit(p) ==
    /\ pc[p] \in {"guard", "address", "post", "store", "submit", "record"}
    /\ "throw" \in FaultKinds
    /\ Goto(p, "catch")
    /\ UNCHANGED <<dbVars, book, breaker, clock, faults, ev, pend, usr, att, poly>>

(* An exception inside the try block: a database, redis, signing or        *)
(* network call threw before it had any effect.                            *)
ThrowInTry(p) ==
    /\ pc[p] \in {"guard", "address", "post", "store", "submit"}
    /\ "throw" \in FaultKinds
    /\ Goto(p, "catch")
    /\ UNCHANGED <<dbVars, book, breaker, clock, faults, ev, pend, usr, att, poly>>

Catch(p) ==
    /\ pc[p] = "catch"
    /\ breaker' = RecordFailure(breaker, clock)
    /\ Goto(p, "fail")
    /\ UNCHANGED <<dbVars, book, clock, faults, ev, pend, usr, att, poly>>

(* Mutant: the catch block forgets the attempt.                            *)
LeavePending(p) ==
    /\ pc[p] = "fail"
    /\ Goto(p, "users")
    /\ UNCHANGED <<dbVars, book, breaker, clock, faults, ev, pend, usr, att, poly>>

MarkFailed(p) ==
    /\ pc[p] = "fail"
    /\ SetStatus(att[p], "FAILED")
    /\ Goto(p, "users")
    /\ UNCHANGED <<events, orders, follows, enabled, book, breaker, clock,
                   faults, ev, pend, usr, att, poly>>

EngineStep(p) ==
    \/ ReadFollows(p)        \/ NextUser(p)           \/ CopiesDone(p)
    \/ SkipBreakerOpen(p)    \/ CheckDuplicate(p)     \/ CreateAttempt(p)
    \/ MissingCredentials(p) \/ GuardrailsSkip(p)     \/ GuardrailsAllow(p)
    \/ NoTradingAuthority(p)
    \/ GetAddress(p)         \/ SigningUnavailable(p) \/ RecordUnavailable(p)
    \/ PostAccepted(p)       \/ PostRejected(p)       \/ PostReplyLost(p)
    \/ StoreOrder(p)         \/ MarkSubmitted(p)      \/ RecordSubmitted(p)
    \/ ThrowInTry(p)         \/ Catch(p)              \/ MarkFailed(p)
=============================================================================
