---------------------------- MODULE CopyTrading ----------------------------
(***************************************************************************)
(* The copy-trading worker (workers/copy-trading.worker.ts) for one        *)
(* leader: the poll() loop that turns the leader's trades into events and  *)
(* copies them, the syncAllLeaderTrades() loop that only records them, the *)
(* users and API calls that change the rows both read, and crashes of the  *)
(* worker process.  Leaders are handled one after the other and share only *)
(* the breaker, so one leader shows every interaction.                     *)
(***************************************************************************)
EXTENDS CopyEngine

CONSTANTS
    HashOf,      \* transaction hash of each trade, NoHash when undefined
    NoHash,
    Activity,    \* which outside changes happen (see below)
    HandTrades,  \* bound: what users order by hand, each once
    MaxTime,     \* bound on the clock
    MaxEvents    \* bound on rows of leader_events

ASSUME WorkerAssumption ==
    /\ DOMAIN HashOf = Trades
    /\ Activity \subseteq {"copySwitch", "followSwitch", "leaderboard", "cancelOrder"}
    /\ HandTrades \subseteq Trades
    /\ MaxTime \in Nat \ {0}
    /\ MaxEvents \in Nat

VARIABLES
    tradedAt,      \* when the leader made each trade, 0 = not yet
    lastSyncedAt,  \* leader.lastSyncedAt, 0 = null
    since,         \* the lastSyncedAt each activation read when it started
    todo,          \* trades an activation fetched and still has to look at
    trade          \* the trade it is looking at

workerVars == <<tradedAt, lastSyncedAt, since, todo, trade>>
vars       == <<engineVars, workerVars>>

TryLabels      == {"guard", "address", "unavailable", "post", "store",
                   "submit", "record", "catch", "fail"}
UnsettledLabels == {"guard", "address", "post", "store", "submit", "catch",
                    "fail"}
EngineLabels   == {"follows", "users", "skip", "dup", "attempt"} \cup TryLabels
WorkerLabels   == {"idle", "fetch", "next", "create"}

TypeOK ==
    /\ events \in Seq(Trades)
    /\ attempts \in Seq(Attempt)
    /\ orders \in Seq(Order)
    /\ follows \subseteq Users
    /\ enabled \subseteq Users
    /\ book \in Seq(Booked)
    /\ breaker \in Breaker
    /\ clock \in Nat
    /\ faults \in Nat
    /\ pc \in [Tasks -> WorkerLabels \cup EngineLabels]
    /\ ev \in [Polls -> Nat]
    /\ pend \in [Polls -> SUBSET Users]
    /\ usr \in [Polls -> Users]
    /\ att \in [Polls -> Nat]
    /\ poly \in [Polls -> Nat]
    /\ tradedAt \in [Trades -> Nat]
    /\ lastSyncedAt \in Nat
    /\ since \in [Tasks -> Nat]
    /\ todo \in [Tasks -> SUBSET Trades]
    /\ trade \in [Tasks -> Trades]

SomeTrade == CHOOSE t \in Trades : TRUE

Init ==
    /\ events = <<>>
    /\ attempts = <<>>
    /\ orders = <<>>
    /\ follows = Users
    /\ enabled = Users
    /\ book = <<>>
    /\ breaker = InitBreaker
    /\ clock = 1
    /\ faults = 0
    /\ pc = [k \in Tasks |-> "idle"]
    /\ ev = [p \in Polls |-> 0]
    /\ pend = [p \in Polls |-> {}]
    /\ usr = [p \in Polls |-> SomeUser]
    /\ att = [p \in Polls |-> 0]
    /\ poly = [p \in Polls |-> 0]
    /\ tradedAt = [t \in Trades |-> 0]
    /\ lastSyncedAt = 0
    /\ since = [k \in Tasks |-> 0]
    /\ todo = [k \in Tasks |-> {}]
    /\ trade = [k \in Tasks |-> SomeTrade]

-----------------------------------------------------------------------------
(* The leader is polled while somebody follows it with copying enabled,    *)
(* and synced while somebody follows it at all.                            *)
Start(k) ==
    /\ pc[k] = "idle"
    /\ IF k \in Polls THEN follows \cap enabled # {} ELSE follows # {}
    /\ since' = [since EXCEPT ![k] = lastSyncedAt]
    /\ Goto(k, "fetch")
    /\ UNCHANGED <<dbVars, book, breaker, clock, faults, ev, pend, usr, att,
                   poly, tradedAt, lastSyncedAt, todo, trade>>

Fetched == {t \in Trades : tradedAt[t] > 0}

(* The data API fails or lists no trade: the leader is left unstamped.     *)
FetchNothing(k) ==
    /\ pc[k] = "fetch"
    /\ since' = [since EXCEPT ![k] = 0]
    /\ Goto(k, "idle")
    /\ UNCHANGED <<dbVars, book, breaker, clock, faults, ev, pend, usr, att,
                   poly, tradedAt, lastSyncedAt, todo, trade>>

(* Trades no newer than the lastSyncedAt read at the start are passed over.*)
FetchTrades(k) ==
    /\ pc[k] = "fetch"
    /\ Fetched # {}
    /\ todo' = [todo EXCEPT ![k] = {t \in Fetched : tradedAt[t] > since[k]}]
    /\ Goto(k, "next")
    /\ UNCHANGED <<dbVars, book, breaker, clock, faults, ev, pend, usr, att,
                   poly, tradedAt, lastSyncedAt, since, trade>>

(* leaderEvent.findFirst: an undefined hash drops out of Prisma's filter   *)
(* and matches every event of the leader.                                  *)
Matching(t) == {i \in DOMAIN events :
                    HashOf[t] = NoHash \/ HashOf[events[i]] = HashOf[t]}

Take(k, t) == /\ t \in todo[k]
              /\ todo' = [todo EXCEPT ![k] = @ \ {t}]
              /\ trade' = [trade EXCEPT ![k] = t]

FindEventPoll(p) ==
    /\ pc[p] = "next"
    /\ \E t \in todo[p] :
          /\ Take(p, t)
          /\ \/ /\ \E i \in Matching(t) : ev' = [ev EXCEPT ![p] = i]
                /\ Goto(p, "follows")
             \/ /\ Matching(t) = {}
                /\ Goto(p, "create")
                /\ ev' = ev
    /\ UNCHANGED <<dbVars, book, breaker, clock, faults, pend, usr, att,
                   poly, tradedAt, lastSyncedAt, since>>

FindEventSync(s) ==
    /\ pc[s] = "next"
    /\ \E t \in todo[s] :
          /\ Take(s, t)
          /\ Goto(s, IF HashOf[t] # NoHash /\ Matching(t) # {}
                     THEN "next" ELSE "create")
    /\ UNCHANGED <<dbVars, book, breaker, clock, faults, ev, pend, usr, att,
                   poly, tradedAt, lastSyncedAt, since>>

StoreEvent(k) ==
    /\ Len(events) < MaxEvents
    /\ events' = Append(events, trade[k])

StoreEventPoll(p) ==
    /\ pc[p] = "create"
    /\ StoreEvent(p)
    /\ ev' = [ev EXCEPT ![p] = Len(events) + 1]
    /\ Goto(p, "follows")
    /\ UNCHANGED <<attempts, orders, follows, enabled, book, breaker, clock,
                   faults, pend, usr, att, poly, workerVars>>

StoreEventSync(s) ==
    /\ pc[s] = "create"
    /\ StoreEvent(s)
    /\ Goto(s, "next")
    /\ UNCHANGED <<attempts, orders, follows, enabled, book, breaker, clock,
                   faults, ev, pend, usr, att, poly, workerVars>>

Finish(k) ==
    /\ pc[k] = "next"
    /\ todo[k] = {}
    /\ lastSyncedAt' = clock
    /\ since' = [since EXCEPT ![k] = 0]
    /\ trade' = [trade EXCEPT ![k] = SomeTrade]
    /\ Goto(k, "idle")
    /\ UNCHANGED <<dbVars, book, breaker, clock, faults, ev, pend, usr, att,
                   poly, tradedAt, todo>>

DropLocals(ks) ==
    /\ DropCopyLocals(ks)
    /\ since' = [k \in Tasks |-> IF k \in ks THEN 0 ELSE since[k]]
    /\ todo'  = [k \in Tasks |-> IF k \in ks THEN {} ELSE todo[k]]
    /\ trade' = [k \in Tasks |-> IF k \in ks THEN SomeTrade ELSE trade[k]]

(* A call outside the try block of processCopyForUser throws: the error    *)
(* reaches the loop over leaders, which logs it and leaves this leader.    *)
Abandon(k) ==
    /\ pc[k] \in {"fetch", "next", "create", "follows", "skip", "dup",
                  "attempt", "fail"}
    /\ "database" \in FaultKinds
    /\ faults < MaxFaults
    /\ faults' = faults + 1
    /\ DropLocals({k})
    /\ Goto(k, "idle")
    /\ UNCHANGED <<dbVars, book, breaker, clock, tradedAt, lastSyncedAt>>

(* The worker process dies and is restarted: every activation and the      *)
(* breaker are lost, the database and the exchange keep what they have.    *)
Crash ==
    /\ "crash" \in FaultKinds
    /\ faults < MaxFaults
    /\ faults' = faults + 1
    /\ pc' = [k \in Tasks |-> "idle"]
    /\ DropLocals(Tasks)
    /\ breaker' = InitBreaker
    /\ UNCHANGED <<dbVars, book, clock, tradedAt, lastSyncedAt>>

-----------------------------------------------------------------------------
(* The environment of the worker.                                          *)
LeaderTrades(t) ==
    /\ tradedAt[t] = 0
    /\ tradedAt' = [tradedAt EXCEPT ![t] = clock]
    /\ UNCHANGED <<engineVars, lastSyncedAt, since, todo, trade>>

(* POST /copy/enable, POST /copy/disable *)
SetCopying(u) ==
    /\ "copySwitch" \in Activity
    /\ enabled' = (enabled \ {u}) \cup ({u} \ enabled)
    /\ UNCHANGED <<events, attempts, orders, follows, book, breaker, clock,
                   faults, taskVars, workerVars>>

(* POST /follows, DELETE /follows/:followId *)
SetFollow(u) ==
    /\ "followSwitch" \in Activity
    /\ follows' = (follows \ {u}) \cup ({u} \ follows)
    /\ UNCHANGED <<events, attempts, orders, enabled, book, breaker, clock,
                   faults, taskVars, workerVars>>

ByHand == {j \in DOMAIN orders : orders[j].poly = 0}

(* POST /orders, in the process of the API: an OPEN row beside the copies, *)
(* which no guardrail and no position cap looked at.                       *)
PostOrder(u, t) ==
    /\ u \in Provisioned
    /\ \A j \in ByHand : orders[j].user # u \/ orders[j].trade # t
    /\ orders' = Append(orders, [user |-> u, trade |-> t, poly |-> 0, status |-> "OPEN"])
    /\ UNCHANGED <<events, attempts, follows, enabled, book, breaker, clock,
                   faults, taskVars, workerVars>>

(* POST /orders/:orderId/cancel and POST /admin/reconcile: the row, of a   *)
(* copy or not, is no longer OPEN.                                         *)
CloseOrder(j) ==
    /\ "cancelOrder" \in Activity
    /\ orders[j].status = "OPEN"
    /\ orders' = [orders EXCEPT ![j].status = "CLOSED"]
    /\ UNCHANGED <<events, attempts, follows, enabled, book, breaker, clock,
                   faults, taskVars, workerVars>>

ApiOrders ==
    \/ \E u \in Users, t \in HandTrades : PostOrder(u, t)
    \/ \E j \in DOMAIN orders : CloseOrder(j)

(* GET /leaders/leaderboard stamps every leader it lists.                  *)
RefreshLeaderboard ==
    /\ "leaderboard" \in Activity
    /\ lastSyncedAt' = clock
    /\ UNCHANGED <<engineVars, tradedAt, since, todo, trade>>

Tick ==
    /\ clock < MaxTime
    /\ clock' = clock + 1
    /\ UNCHANGED <<dbVars, book, breaker, faults, taskVars, workerVars>>

PollStep(p) ==
    \/ FindEventPoll(p)
    \/ StoreEventPoll(p)
    \/ EngineStep(p) /\ UNCHANGED workerVars

SyncStep(s) ==
    \/ FindEventSync(s)
    \/ StoreEventSync(s)

LoopStep(k) ==
    \/ Start(k) \/ FetchNothing(k) \/ FetchTrades(k) \/ Finish(k)

Next ==
    \/ \E p \in Polls : PollStep(p)
    \/ \E s \in Syncs : SyncStep(s)
    \/ \E k \in Tasks : LoopStep(k) \/ Abandon(k)
    \/ \E t \in Trades : LeaderTrades(t)
    \/ \E u \in Users : SetCopying(u) \/ SetFollow(u)
    \/ ApiOrders
    \/ RefreshLeaderboard
    \/ Tick
    \/ Crash

Spec == Init /\ [][Next]_vars

-----------------------------------------------------------------------------
(* Properties that hold for any number of overlapping activations.         *)

(* An order reaches the exchange only for an attempt of the same user and  *)
(* event that is already on record, and no two orders share an attempt:    *)
(* copy_attempts is written ahead of the exchange, so no crash, lost reply *)
(* or overlap leaves an order nobody can account for.                      *)
OrdersAccountedFor ==
    /\ \A b \in DOMAIN book :
          LET i == book[b].attempt IN
          /\ i \in DOMAIN attempts
          /\ attempts[i].user = book[b].user
          /\ attempts[i].event = book[b].event
          /\ attempts[i].status # "SKIPPED"
    /\ \A b, c \in DOMAIN book : book[b].attempt = book[c].attempt => b = c

(* An attempt reported SUBMITTED names an order row of its own user and    *)
(* trade, whose exchange order was placed for this very attempt.           *)
SubmittedIsLive ==
    \A i \in DOMAIN attempts : attempts[i].status = "SUBMITTED" =>
        LET j == attempts[i].order IN
        /\ j \in DOMAIN orders
        /\ orders[j].user = attempts[i].user
        /\ orders[j].trade = events[attempts[i].event]
        /\ orders[j].poly \in DOMAIN book
        /\ book[orders[j].poly].attempt = i

(* How much overlap can do.  The duplicate check and the position cap read *)
(* what they guard long before it is written, so overlapping activations   *)
(* may pass them together: each of them once, and no more.  The cap bounds *)
(* the markets of the copies, whatever the users buy by hand meanwhile.    *)
OrdersOf(u, e) == {b \in DOMAIN book : book[b].user = u /\ book[b].event = e}

OverlapBoundsOrders ==
    \A u \in Users, e \in DOMAIN events :
        Cardinality(OrdersOf(u, e)) <= Cardinality(Polls)

OpenCopies(u)  == OpenRows(u) \ ByHand
CopyMarkets(u) == {MarketOf(orders[j]) : j \in OpenCopies(u)}
BuyMarkets(u)  == {MarketOf(orders[j]) :
                     j \in {k \in OpenCopies(u) : SideOf[orders[k].trade] = "BUY"}}

OverlapBoundsMarkets ==
    \A u \in Users : Cardinality(BuyMarkets(u)) < MaxOpenPositions + Cardinality(Polls)

-----------------------------------------------------------------------------
(* The inductive invariant behind the first two of these properties.  An   *)
(* activation inside processCopiesForEvent works on an event that is on    *)
(* record; past the creation of its attempt it owns that attempt, alone,   *)
(* and it is PENDING until the activation settles it; until it posts the   *)
(* attempt has no order; between the answer of the exchange and SUBMITTED  *)
(* it holds the id of the order placed for it.                             *)
EventKnown ==
    \A p \in Polls : pc[p] \in EngineLabels => ev[p] \in DOMAIN events

AttemptOwned ==
    \A p \in Polls : pc[p] \in TryLabels =>
        /\ att[p] \in DOMAIN attempts
        /\ attempts[att[p]].user = usr[p]
        /\ attempts[att[p]].event = ev[p]

AttemptNotShared ==
    \A p, q \in Polls :
        pc[p] \in TryLabels /\ pc[q] \in TryLabels /\ p # q => att[p] # att[q]

StillPending ==
    \A p \in Polls : pc[p] \in UnsettledLabels =>
        attempts[att[p]].status = "PENDING"

NotYetPosted ==
    \A p \in Polls : pc[p] \in {"guard", "address", "post"} =>
        \A b \in DOMAIN book : book[b].attempt # att[p]

AttemptsOfKnownEvents ==
    \A i \in DOMAIN attempts : attempts[i].event \in DOMAIN events

PostedOrderKnown ==
    \A p \in Polls : pc[p] \in {"store", "submit"} =>
        poly[p] \in DOMAIN book /\ book[poly[p]].attempt = att[p]

OrderRowsMatchBook ==
    \A j \in DOMAIN orders \ ByHand :
        /\ orders[j].poly \in DOMAIN book
        /\ orders[j].user = book[orders[j].poly].user
        /\ orders[j].trade = events[book[orders[j].poly].event]

IInv ==
    /\ TypeOK
    /\ EventKnown
    /\ AttemptsOfKnownEvents
    /\ AttemptOwned
    /\ AttemptNotShared
    /\ StillPending
    /\ NotYetPosted
    /\ PostedOrderKnown
    /\ OrdersAccountedFor
    /\ OrderRowsMatchBook
    /\ SubmittedIsLive

-----------------------------------------------------------------------------
(* The worker, with all its overlap, faults and crashes, implements the    *)
(* ledger to those who read the attempts beside the exchange.              *)
Ledger == INSTANCE CopyLedger WITH Followers <- Users

AttemptsKept == Ledger!LedgerSpec

(* An attempt that reached a final status keeps it: no late exception and  *)
(* no other activation rewrites an outcome the user may have been shown.   *)
SettledAttempts ==
    [][\A i \in DOMAIN attempts :
          attempts[i].status # "PENDING" => attempts'[i] = attempts[i]]_vars

(* A closed breaker has seen fewer consecutive failures than its threshold *)
(* whatever the order in which overlapping copies report their outcomes.   *)
ClosedBelowThreshold ==
    breaker.state = "CLOSED" => breaker.failureCount < FailureThreshold

-----------------------------------------------------------------------------
(* Properties that hold while activations of poll() do not overlap.        *)

(* The duplicate check keeps its promise: one order per user and event,    *)
(* through crashes, retried polls and replies lost after the order landed. *)
OneOrderPerEvent ==
    \A b, c \in DOMAIN book :
        book[b].user = book[c].user /\ book[b].event = book[c].event => b = c

(* With OrdersAccountedFor, what makes it so: a single activation adds a   *)
(* row that is not SKIPPED only after it has seen none of the pair.        *)
OneLiveAttempt ==
    \A i, j \in DOMAIN attempts :
        /\ attempts[i].user = attempts[j].user
        /\ attempts[i].event = attempts[j].event
        /\ attempts[i].status # "SKIPPED" /\ attempts[j].status # "SKIPPED"
        => i = j

CheckStillTrue ==
    \A p \in Polls : pc[p] = "attempt" => AttemptsOf(usr[p], ev[p]) = {}

(* A transaction hash is recorded once per leader.                         *)
EventsUnique ==
    \A i, j \in DOMAIN events :
        HashOf[events[i]] = HashOf[events[j]] /\ HashOf[events[i]] # NoHash
            => i = j

(* While the breaker is open and has not recovered, nothing is posted.     *)
OpenMeansPaused ==
    [][breaker.state = "OPEN" /\ ~Recovered(breaker, clock)
          => book' = book]_vars

(* A BUY is copied only while the user's open copies cover fewer markets   *)
(* than maxOpenPositions: the count is read long before the row is written *)
(* and users place and cancel orders meanwhile, yet none of that lets the  *)
(* copies grow beyond the cap.                                             *)
CopiesReachCap(u, t) ==
    /\ SideOf[t] = "BUY"
    /\ Cardinality(CopyMarkets(u)) >= MaxOpenPositions

PositionCap ==
    [][\A j \in DOMAIN orders' \ DOMAIN orders :
          orders'[j].poly # 0 => ~CopiesReachCap(orders'[j].user, orders'[j].trade)]_vars

(* What the name of the cap says, of all open orders: it does not hold,    *)
(* since an order placed by hand after the guardrails read the orders is   *)
(* not seen.                                                               *)
PositionCapOfAll ==
    [][\A j \in DOMAIN orders' \ DOMAIN orders :
          orders'[j].poly # 0 => ~CapReached(orders'[j].user, orders'[j].trade)]_vars

(* What makes the two so: from the check to the order nobody else reports  *)
(* to the breaker, or adds a copy of the user.                             *)
BreakerStillAdmits ==
    \A p \in Polls : pc[p] \in {"dup", "attempt", "guard", "address", "post"} =>
        breaker.state # "OPEN"

CapStillFree ==
    \A p \in Polls : pc[p] \in {"address", "post", "store"} =>
        ~CopiesReachCap(usr[p], events[ev[p]])

-----------------------------------------------------------------------------
(* What the doc comment of poll() says of an event the sync loop stored    *)
(* first: the next poll still triggers copy execution for it.              *)
SyncedEventStillCopied ==
    [][\A p \in Polls : pc[p] = "fetch" /\ pc'[p] = "next" =>
          \A i \in DOMAIN events :
              (\E u \in follows \cap enabled : AttemptsOf(u, i) = {})
                  => events[i] \in todo'[p]]_vars

-----------------------------------------------------------------------------
(* The event loop of the worker keeps running every activation; users, the *)
(* leader, the clock and faults owe nothing.                               *)
Fairness == /\ \A p \in Polls : WF_vars(PollStep(p))
            /\ \A k \in Tasks : WF_vars(LoopStep(k))
            /\ \A s \in Syncs : WF_vars(SyncStep(s))

FairSpec == Spec /\ Fairness

(* Every PENDING attempt is settled: each path through the try block, the  *)
(* catch included, ends in a status.                                       *)
AttemptsSettle ==
    \A i \in 1..MaxAttempts :
        (i \in DOMAIN attempts /\ attempts[i].status = "PENDING")
            ~> (i \in DOMAIN attempts /\ attempts[i].status # "PENDING")

(* Every follower in the snapshot of an event ends up with an attempt for  *)
(* that event, whatever happens to the followers before it.                *)
FollowersServed ==
    \A p \in Polls, u \in Users, e \in 1..MaxEvents :
        (ev[p] = e /\ u \in pend[p]) ~> AttemptsOf(u, e) # {}
=============================================================================
