------------------------- MODULE CopyTradingProofs -------------------------
(***************************************************************************)
(* Proofs about the copy-trading worker (module CopyTrading), for any sets *)
(* of followers, trades and overlapping activations and any bounds.  The   *)
(* argument is one inductive invariant, IInv: copy_attempts is written     *)
(* ahead of the exchange, and the activation that wrote a row owns it      *)
(* until the row has its final status.                                     *)
(*                                                                         *)
(* Most steps only move an activation and fall under QuietStep; a step     *)
(* that writes one of the four tables has a lemma of its own.              *)
(*                                                                         *)
(* Then what holds while one activation of poll() runs at a time, and how  *)
(* far the same limits are overrun when several do.                        *)
(***************************************************************************)
EXTENDS CopyTrading, FiniteSetTheorems, TLAPS

(* The methods of the copy breaker keep its record a breaker record.       *)
LEMMA BreakerTypes ==
  ASSUME breaker \in Breaker, clock \in Nat
  PROVE  /\ InitBreaker \in Breaker
         /\ AfterCanExecute(breaker, clock) \in Breaker
         /\ RecordSuccess(breaker) \in Breaker
         /\ RecordFailure(breaker, clock) \in Breaker
BY DEF Breaker, InitBreaker, AfterCanExecute, RecordSuccess, RecordFailure

(* A row added at the end of a table leaves the rows before it as they are.*)
LEMMA AppendFacts ==
  ASSUME NEW S, NEW s \in Seq(S), NEW e \in S
  PROVE  /\ Append(s, e) \in Seq(S)
         /\ DOMAIN s = 1..Len(s) /\ Len(s) \in Nat
         /\ DOMAIN Append(s, e) = 1..(Len(s) + 1)
         /\ DOMAIN s \subseteq DOMAIN Append(s, e)
         /\ Len(s) + 1 \notin DOMAIN s
         /\ \A i \in DOMAIN s : Append(s, e)[i] = s[i]
         /\ Append(s, e)[Len(s) + 1] = e
OBVIOUS

(* An update of one row leaves the others as they are.                     *)
LEMMA UpdateFacts ==
  ASSUME NEW S, NEW s \in Seq(S), NEW i \in DOMAIN s, NEW e \in S
  PROVE  LET t == [s EXCEPT ![i] = e] IN
         /\ t \in Seq(S)
         /\ DOMAIN t = DOMAIN s
         /\ t[i] = e
         /\ \A k \in DOMAIN s : k # i => t[k] = s[k]
OBVIOUS


-----------------------------------------------------------------------------
(* A step that leaves the four tables alone keeps the invariant when every *)
(* activation still inside the try block keeps its locals and has not      *)
(* moved from a label where less is known of them to one where more is.    *)
LEMMA QuietStep ==
  ASSUME IInv, TypeOK',
         UNCHANGED <<events, attempts, orders, book>>,
         \A q \in Polls :
            /\ pc'[q] \in EngineLabels => ev'[q] \in DOMAIN events
            /\ pc'[q] \in TryLabels => /\ pc[q] \in TryLabels
                                       /\ ev'[q] = ev[q]
                                       /\ usr'[q] = usr[q]
                                       /\ att'[q] = att[q]
            /\ pc'[q] \in UnsettledLabels => pc[q] \in UnsettledLabels
            /\ pc'[q] \in {"guard", "address", "post"} =>
                  pc[q] \in {"guard", "address", "post"}
            /\ pc'[q] \in {"store", "submit"} =>
                  pc[q] \in {"store", "submit"} /\ poly'[q] = poly[q]
  PROVE  IInv'
<1> USE DEF EngineLabels, TryLabels, UnsettledLabels
<1>1. EventKnown'            BY DEF EventKnown
<1>2. AttemptsOfKnownEvents' BY DEF IInv, AttemptsOfKnownEvents
<1>3. AttemptOwned'          BY DEF IInv, AttemptOwned
<1>4. AttemptNotShared'      BY DEF IInv, AttemptNotShared
<1>p. StillPending'          BY DEF IInv, StillPending
<1>5. NotYetPosted'          BY DEF IInv, NotYetPosted
<1>6. PostedOrderKnown'      BY DEF IInv, PostedOrderKnown
<1>7. OrdersAccountedFor'    BY DEF IInv, OrdersAccountedFor
<1>8. OrderRowsMatchBook'    BY DEF IInv, OrderRowsMatchBook, ByHand
<1>9. SubmittedIsLive'       BY DEF IInv, SubmittedIsLive
<1>q. QED BY <1>1, <1>2, <1>3, <1>4, <1>p, <1>5, <1>6, <1>7, <1>8,
         <1>9 DEF IInv


-----------------------------------------------------------------------------
(* The steps of processCopiesForEvent.                                     *)

(* Reading the follows keeps the invariant.                                *)
LEMMA ReadFollowsStep ==
  ASSUME IInv, NEW p \in Polls, ReadFollows(p), UNCHANGED workerVars
  PROVE  IInv'
<1>1. /\ pc[p] = "follows" /\ pc' = [pc EXCEPT ![p] = "users"]
      /\ pend' = [pend EXCEPT ![p] = follows \cap enabled]
      /\ UNCHANGED <<dbVars, book, breaker, clock, faults, ev, usr, att, poly>>
  BY DEF ReadFollows, Goto
<1>2. TypeOK'
  BY <1>1 DEF IInv, TypeOK, EngineLabels, Tasks, dbVars, workerVars
<1>3. \A q \in Polls : pc'[q] = IF q = p THEN "users" ELSE pc[q]
  BY <1>1 DEF IInv, TypeOK, Tasks
<1>4. QED
  BY <1>1, <1>2, <1>3, QuietStep DEF IInv, EventKnown, EngineLabels,
     TryLabels, UnsettledLabels, dbVars

(* Taking the next follower and asking the breaker keeps the invariant.    *)
LEMMA NextUserStep ==
  ASSUME IInv, NEW p \in Polls, NextUser(p), UNCHANGED workerVars
  PROVE  IInv'
<1>1. PICK u \in pend[p] : usr' = [usr EXCEPT ![p] = u] /\ pend' = [pend EXCEPT ![p] = @ \ {u}]
  BY DEF NextUser
<1>2. PICK l \in {"dup", "skip"} : pc' = [pc EXCEPT ![p] = l]
  BY DEF NextUser, Goto
<1>3. /\ pc[p] = "users"
      /\ breaker' \in Breaker
      /\ UNCHANGED <<dbVars, book, clock, faults, ev, att, poly>>
  BY BreakerTypes DEF NextUser, IInv, TypeOK
<1>4. TypeOK'
  BY <1>1, <1>2, <1>3 DEF IInv, TypeOK, EngineLabels, Tasks, dbVars, workerVars
<1>5. \A q \in Polls : /\ pc'[q] = IF q = p THEN l ELSE pc[q]
                       /\ q # p => usr'[q] = usr[q]
  BY <1>1, <1>2 DEF IInv, TypeOK, Tasks
<1>6. QED
  BY <1>2, <1>3, <1>4, <1>5, QuietStep DEF IInv, EventKnown, EngineLabels,
     TryLabels, UnsettledLabels, dbVars

(* Steps of the try block and around it that only move the activation.     *)
LEMMA MoveStep ==
  ASSUME IInv, NEW p \in Polls, NEW l \in EngineLabels,
         pc[p] \in EngineLabels,
         pc' = [pc EXCEPT ![p] = l],
         breaker' \in Breaker,
         UNCHANGED <<dbVars, book, clock, faults, ev, pend, usr, att, poly, workerVars>>,
         l \in TryLabels => pc[p] \in TryLabels,
         l \in UnsettledLabels => pc[p] \in UnsettledLabels,
         l \in {"guard", "address", "post"} =>
            pc[p] \in {"guard", "address", "post"},
         l \notin {"store", "submit"}
  PROVE  IInv'
<1>1. TypeOK'
  BY DEF IInv, TypeOK, Tasks, dbVars, workerVars
<1>2. \A q \in Polls : pc'[q] = IF q = p THEN l ELSE pc[q]
  BY DEF IInv, TypeOK, Tasks
<1>3. QED
  BY <1>1, <1>2, QuietStep DEF IInv, EventKnown, dbVars

(* The steps that read, throw or report to the breaker keep the invariant. *)
LEMMA MoveSteps ==
  ASSUME IInv, NEW p \in Polls, UNCHANGED workerVars,
         \/ CheckDuplicate(p)
         \/ GuardrailsAllow(p)    \/ GetAddress(p)
         \/ RecordUnavailable(p)  \/ RecordSubmitted(p)
         \/ ThrowInTry(p)         \/ Catch(p)
  PROVE  IInv'
<1> USE DEF EngineLabels, TryLabels, UnsettledLabels
<1>b. breaker \in Breaker /\ clock \in Nat BY DEF IInv, TypeOK
<1>1. CASE CheckDuplicate(p)
  <2>1. PICK l \in {"attempt", "users"} : pc' = [pc EXCEPT ![p] = l]
    BY <1>1 DEF CheckDuplicate, Goto
  <2>q. QED BY <1>1, <1>b, <2>1, MoveStep DEF CheckDuplicate
<1>2. CASE GuardrailsAllow(p)   BY <1>2, <1>b, MoveStep DEF GuardrailsAllow, Goto
<1>3. CASE GetAddress(p)        BY <1>3, <1>b, MoveStep DEF GetAddress, Goto
<1>4. CASE RecordUnavailable(p) BY <1>4, <1>b, BreakerTypes, MoveStep DEF RecordUnavailable, Goto
<1>5. CASE RecordSubmitted(p)   BY <1>5, <1>b, BreakerTypes, MoveStep DEF RecordSubmitted, Goto
<1>6. CASE ThrowInTry(p)        BY <1>6, <1>b, MoveStep DEF ThrowInTry, Goto
<1>7. CASE Catch(p)             BY <1>7, <1>b, BreakerTypes, MoveStep DEF Catch, Goto
<1>q. QED BY <1>1, <1>2, <1>3, <1>4, <1>5, <1>6, <1>7

(* A new PENDING row has an index no other activation holds.               *)
LEMMA CreateStep ==
  ASSUME IInv, NEW p \in Polls, CreateAttempt(p), UNCHANGED workerVars
  PROVE  IInv'
<1> DEFINE n == Len(attempts) + 1
           new == [user |-> usr[p], event |-> ev[p], status |-> "PENDING", order |-> 0]
<1>a. /\ pc[p] = "attempt"
      /\ attempts' = Append(attempts, new)
      /\ att' = [att EXCEPT ![p] = n]
      /\ pc' = [pc EXCEPT ![p] = "guard"]
      /\ UNCHANGED <<events, orders, follows, enabled, book, breaker, clock,
                     faults, ev, pend, usr, poly, tradedAt, lastSyncedAt, since, todo, trade>>
  BY DEF CreateAttempt, NewAttempt, Goto, workerVars
<1>b. /\ attempts \in Seq(Attempt) /\ new \in Attempt /\ p \in Tasks
      /\ pc \in [Tasks -> WorkerLabels \cup EngineLabels] /\ att \in [Polls -> Nat]
      /\ ev[p] \in DOMAIN events
  BY <1>a DEF IInv, TypeOK, Attempt, Tasks, EventKnown, EngineLabels
<1>c. /\ attempts' \in Seq(Attempt)
      /\ DOMAIN attempts = 1..(n-1) /\ n \in Nat \ {0}
      /\ DOMAIN attempts' = 1..n
      /\ \A i \in DOMAIN attempts : attempts'[i] = attempts[i]
      /\ attempts'[n] = new /\ n \notin DOMAIN attempts
      /\ DOMAIN attempts \subseteq DOMAIN attempts'
  BY <1>a, <1>b, AppendFacts
<1>d. /\ \A q \in Polls : pc'[q] = IF q = p THEN "guard" ELSE pc[q]
      /\ \A q \in Polls : att'[q] = IF q = p THEN n ELSE att[q]
  BY <1>a, <1>b DEF Tasks
<1> HIDE DEF n, new
<1> USE DEF EngineLabels, TryLabels, UnsettledLabels
<1>t. TypeOK'
  BY <1>a, <1>b, <1>c DEF IInv, TypeOK, WorkerLabels
<1>1. EventKnown' BY <1>a, <1>d DEF IInv, EventKnown
<1>2. AttemptsOfKnownEvents' BY <1>a, <1>b, <1>c DEF IInv, AttemptsOfKnownEvents, new
<1>3. AttemptOwned' BY <1>a, <1>b, <1>c, <1>d DEF IInv, AttemptOwned, new
<1>4. AttemptNotShared' BY <1>c, <1>d DEF IInv, AttemptNotShared, AttemptOwned
<1>p. StillPending' BY <1>a, <1>c, <1>d DEF IInv, StillPending, OrdersAccountedFor, AttemptOwned, new
<1>5. NotYetPosted' BY <1>a, <1>c, <1>d DEF IInv, NotYetPosted, OrdersAccountedFor, AttemptOwned, new
<1>6. PostedOrderKnown' BY <1>a, <1>d DEF IInv, PostedOrderKnown
<1>7. OrdersAccountedFor' BY <1>a, <1>c DEF IInv, OrdersAccountedFor
<1>8. OrderRowsMatchBook' BY <1>a DEF IInv, OrderRowsMatchBook, ByHand
<1>9. SubmittedIsLive' BY <1>a, <1>c DEF IInv, SubmittedIsLive, new
<1>q. QED BY <1>t, <1>1, <1>2, <1>3, <1>4, <1>p, <1>5, <1>6, <1>7, <1>8,
         <1>9 DEF IInv

(* A status update by an activation that owns the attempt.                 *)
LEMMA StatusStep ==
  ASSUME IInv, NEW p \in Polls, pc[p] \in TryLabels,
         NEW st \in {"SKIPPED", "FAILED"},
         st = "SKIPPED" => pc[p] = "guard",
         SetStatus(att[p], st),
         NEW l \in {"users", "unavailable"},
         pc' = [pc EXCEPT ![p] = l],
         UNCHANGED <<events, orders, follows, enabled, book, breaker, clock,
                     faults, ev, pend, usr, att, poly, workerVars>>
  PROVE  IInv'
<1> DEFINE i == att[p]
           new == [attempts[i] EXCEPT !.status = st]
<1>a. /\ attempts \in Seq(Attempt) /\ i \in DOMAIN attempts
      /\ attempts[i] \in Attempt
  BY DEF IInv, TypeOK, AttemptOwned
<1>b. /\ new \in Attempt /\ new.user = attempts[i].user
      /\ new.event = attempts[i].event /\ new.status = st
      /\ new.order = attempts[i].order
  BY <1>a DEF Attempt
<1>c. attempts' = [attempts EXCEPT ![i] = new]
  BY DEF SetStatus
<1> HIDE DEF new, i
<1>d. /\ attempts' \in Seq(Attempt)
      /\ DOMAIN attempts' = DOMAIN attempts
      /\ attempts'[i] = new
      /\ \A k \in DOMAIN attempts : k # i => attempts'[k] = attempts[k]
  BY <1>a, <1>b, <1>c, UpdateFacts
<1>e. \A q \in Polls : pc'[q] = IF q = p THEN l ELSE pc[q]
  BY DEF IInv, TypeOK, Tasks
<1>f. UNCHANGED <<tradedAt, lastSyncedAt, since, todo, trade>>
  BY DEF workerVars
<1>o. \A q \in Polls : pc[q] \in TryLabels => q = p \/ att[q] # i
  BY DEF IInv, AttemptNotShared, i
<1> USE DEF EngineLabels, TryLabels, UnsettledLabels
<1>t. TypeOK' BY <1>d, <1>f DEF IInv, TypeOK, Tasks
<1>1. EventKnown' BY <1>e DEF IInv, EventKnown
<1>2. AttemptsOfKnownEvents' BY <1>a, <1>b, <1>d DEF IInv, AttemptsOfKnownEvents
<1>3. AttemptOwned' BY <1>a, <1>b, <1>d, <1>e DEF IInv, AttemptOwned
<1>4. AttemptNotShared' BY <1>e DEF IInv, AttemptNotShared
<1>p. StillPending' BY <1>d, <1>e, <1>o DEF IInv, StillPending, AttemptOwned
<1>5. NotYetPosted' BY <1>d, <1>e, <1>o DEF IInv, NotYetPosted, AttemptOwned
<1>6. PostedOrderKnown' BY <1>e DEF IInv, PostedOrderKnown
<1>7. OrdersAccountedFor'
  <2>1. st = "SKIPPED" => \A b \in DOMAIN book : book[b].attempt # i
    BY DEF IInv, NotYetPosted, i
  <2>q. QED BY <1>b, <1>d, <2>1 DEF IInv, OrdersAccountedFor
<1>8. OrderRowsMatchBook' BY DEF IInv, OrderRowsMatchBook, ByHand
<1>9. SubmittedIsLive' BY <1>b, <1>d DEF IInv, SubmittedIsLive
<1>q. QED BY <1>t, <1>1, <1>2, <1>3, <1>4, <1>p, <1>5, <1>6, <1>7, <1>8,
         <1>9 DEF IInv

(* The early returns and the catch block keep the invariant.               *)
LEMMA StatusSteps ==
  ASSUME IInv, NEW p \in Polls, UNCHANGED workerVars,
         \/ MissingCredentials(p) \/ GuardrailsSkip(p)
         \/ NoTradingAuthority(p) \/ SigningUnavailable(p)
         \/ PostRejected(p)       \/ MarkFailed(p)
  PROVE  IInv'
<1> USE DEF TryLabels, Goto
<1>1. CASE MissingCredentials(p) BY <1>1, StatusStep DEF MissingCredentials
<1>2. CASE GuardrailsSkip(p)     BY <1>2, StatusStep DEF GuardrailsSkip
<1>3. CASE NoTradingAuthority(p) BY <1>3, StatusStep DEF NoTradingAuthority
<1>4. CASE SigningUnavailable(p) BY <1>4, StatusStep DEF SigningUnavailable
<1>5. CASE PostRejected(p)       BY <1>5, StatusStep DEF PostRejected
<1>6. CASE MarkFailed(p)         BY <1>6, StatusStep DEF MarkFailed
<1>q. QED BY <1>1, <1>2, <1>3, <1>4, <1>5, <1>6

(* The breaker was open: a SKIPPED row that no activation owns.            *)
LEMMA SkipStep ==
  ASSUME IInv, NEW p \in Polls, SkipBreakerOpen(p), UNCHANGED workerVars
  PROVE  IInv'
<1> DEFINE n == Len(attempts) + 1
           new == [user |-> usr[p], event |-> ev[p], status |-> "SKIPPED", order |-> 0]
<1>a. /\ pc[p] = "skip"
      /\ attempts' = Append(attempts, new)
      /\ pc' = [pc EXCEPT ![p] = "users"]
      /\ UNCHANGED <<events, orders, follows, enabled, book, breaker, clock,
                     faults, ev, pend, usr, att, poly,
                     tradedAt, lastSyncedAt, since, todo, trade>>
  BY DEF SkipBreakerOpen, NewAttempt, Goto, workerVars
<1>b. /\ attempts \in Seq(Attempt) /\ new \in Attempt
      /\ pc \in [Tasks -> WorkerLabels \cup EngineLabels]
      /\ ev[p] \in DOMAIN events
  BY <1>a DEF IInv, TypeOK, Attempt, EventKnown, EngineLabels
<1>c. /\ attempts' \in Seq(Attempt)
      /\ DOMAIN attempts = 1..(n-1) /\ n \in Nat \ {0}
      /\ DOMAIN attempts' = 1..n
      /\ \A i \in DOMAIN attempts : attempts'[i] = attempts[i]
      /\ attempts'[n] = new /\ n \notin DOMAIN attempts
      /\ DOMAIN attempts \subseteq DOMAIN attempts'
  BY <1>a, <1>b, AppendFacts
<1>d. \A q \in Polls : pc'[q] = IF q = p THEN "users" ELSE pc[q]
  BY <1>a, <1>b DEF Tasks
<1> HIDE DEF n, new
<1> USE DEF EngineLabels, TryLabels, UnsettledLabels
<1>t. TypeOK' BY <1>a, <1>b, <1>c DEF IInv, TypeOK, Tasks
<1>1. EventKnown' BY <1>a, <1>d DEF IInv, EventKnown
<1>2. AttemptsOfKnownEvents' BY <1>a, <1>b, <1>c DEF IInv, AttemptsOfKnownEvents, new
<1>3. AttemptOwned' BY <1>a, <1>c, <1>d DEF IInv, AttemptOwned
<1>4. AttemptNotShared' BY <1>a, <1>d DEF IInv, AttemptNotShared
<1>p. StillPending' BY <1>a, <1>c, <1>d DEF IInv, StillPending, AttemptOwned
<1>5. NotYetPosted' BY <1>a, <1>c, <1>d DEF IInv, NotYetPosted, AttemptOwned
<1>6. PostedOrderKnown' BY <1>a, <1>d DEF IInv, PostedOrderKnown
<1>7. OrdersAccountedFor' BY <1>a, <1>c DEF IInv, OrdersAccountedFor
<1>8. OrderRowsMatchBook' BY <1>a DEF IInv, OrderRowsMatchBook, ByHand
<1>9. SubmittedIsLive' BY <1>a, <1>c DEF IInv, SubmittedIsLive, new
<1>q. QED BY <1>t, <1>1, <1>2, <1>3, <1>4, <1>p, <1>5, <1>6, <1>7, <1>8,
         <1>9 DEF IInv

(* The exchange accepts the order, whether or not the answer arrives.      *)
LEMMA AcceptStep ==
  ASSUME IInv, NEW p \in Polls, pc[p] = "post", Accept(p),
         NEW l \in {"store", "catch"},
         pc' = [pc EXCEPT ![p] = l],
         poly' \in [Polls -> Nat],
         l = "store" => poly' = [poly EXCEPT ![p] = Len(book) + 1],
         l = "catch" => poly' = poly,
         UNCHANGED <<dbVars, breaker, clock, faults, ev, pend, usr, att, workerVars>>
  PROVE  IInv'
<1> DEFINE n == Len(book) + 1
           new == [user |-> usr[p], event |-> ev[p], attempt |-> att[p]]
<1>a. /\ book' = Append(book, new)
      /\ UNCHANGED <<events, attempts, orders, follows, enabled, breaker, clock,
                     faults, ev, pend, usr, att,
                     tradedAt, lastSyncedAt, since, todo, trade>>
  BY DEF Accept, dbVars, workerVars
<1>b. /\ book \in Seq(Booked) /\ new \in Booked
      /\ pc \in [Tasks -> WorkerLabels \cup EngineLabels]
      /\ poly \in [Polls -> Nat]
  BY DEF IInv, TypeOK, Booked
<1>c. /\ book' \in Seq(Booked)
      /\ n \notin DOMAIN book /\ DOMAIN book' = DOMAIN book \cup {n}
      /\ \A b \in DOMAIN book : book'[b] = book[b]
      /\ book'[n] = new
  BY <1>a, <1>b, AppendFacts
<1>d. /\ \A q \in Polls : pc'[q] = IF q = p THEN l ELSE pc[q]
      /\ \A q \in Polls : q # p => poly'[q] = poly[q]
      /\ l = "store" => poly'[p] = n
  BY <1>b DEF Tasks
<1>e. /\ att[p] \in DOMAIN attempts
      /\ attempts[att[p]].user = usr[p] /\ attempts[att[p]].event = ev[p]
      /\ attempts[att[p]].status = "PENDING"
      /\ \A b \in DOMAIN book : book[b].attempt # att[p]
      /\ \A q \in Polls : pc[q] \in TryLabels => q = p \/ att[q] # att[p]
  BY DEF IInv, AttemptOwned, StillPending, NotYetPosted, AttemptNotShared,
     TryLabels, UnsettledLabels
<1>f. new.user = usr[p] /\ new.event = ev[p] /\ new.attempt = att[p]
  OBVIOUS
<1> HIDE DEF n, new
<1> USE DEF EngineLabels, TryLabels, UnsettledLabels
<1>t. TypeOK' BY <1>a, <1>b, <1>c DEF IInv, TypeOK, Tasks
<1>1. EventKnown' BY <1>a, <1>d DEF IInv, EventKnown
<1>2. AttemptsOfKnownEvents' BY <1>a DEF IInv, AttemptsOfKnownEvents
<1>3. AttemptOwned' BY <1>a, <1>d DEF IInv, AttemptOwned
<1>4. AttemptNotShared' BY <1>a, <1>d DEF IInv, AttemptNotShared
<1>p. StillPending' BY <1>a, <1>c, <1>d, <1>e, <1>f DEF IInv, StillPending
<1>5. NotYetPosted' BY <1>a, <1>c, <1>d, <1>e, <1>f DEF IInv, NotYetPosted
<1>6. PostedOrderKnown' BY <1>a, <1>c, <1>d, <1>f DEF IInv, PostedOrderKnown
<1>7. OrdersAccountedFor' BY <1>a, <1>c, <1>e, <1>f DEF IInv, OrdersAccountedFor
<1>8. OrderRowsMatchBook' BY <1>a, <1>c DEF IInv, OrderRowsMatchBook, ByHand
<1>9. SubmittedIsLive' BY <1>a, <1>c DEF IInv, SubmittedIsLive
<1>q. QED BY <1>t, <1>1, <1>2, <1>3, <1>4, <1>p, <1>5, <1>6, <1>7, <1>8,
         <1>9 DEF IInv

(* Posting keeps the invariant, with or without an answer.                 *)
LEMMA AcceptSteps ==
  ASSUME IInv, NEW p \in Polls, UNCHANGED workerVars,
         PostAccepted(p) \/ PostReplyLost(p)
  PROVE  IInv'
<1>0. poly \in [Polls -> Nat] /\ Len(book) + 1 \in Nat BY DEF IInv, TypeOK
<1>1. CASE PostAccepted(p)  BY <1>0, <1>1, AcceptStep DEF PostAccepted, Goto
<1>2. CASE PostReplyLost(p) BY <1>0, <1>2, AcceptStep DEF PostReplyLost, Goto
<1>q. QED BY <1>1, <1>2

(* The stored order row carries the user and trade of its attempt.         *)
LEMMA StoreOrderStep ==
  ASSUME IInv, NEW p \in Polls, StoreOrder(p), UNCHANGED workerVars
  PROVE  IInv'
<1> DEFINE n == Len(orders) + 1
           new == [user |-> usr[p], trade |-> events[ev[p]],
                   poly |-> poly[p], status |-> "OPEN"]
<1>a. /\ pc[p] = "store"
      /\ orders' = Append(orders, new)
      /\ pc' = [pc EXCEPT ![p] = "submit"]
      /\ UNCHANGED <<events, attempts, follows, enabled, book, breaker, clock,
                     faults, ev, pend, usr, att, poly,
                     tradedAt, lastSyncedAt, since, todo, trade>>
  BY DEF StoreOrder, Goto, workerVars
<1>e. /\ ev[p] \in DOMAIN events
      /\ poly[p] \in DOMAIN book /\ book[poly[p]].attempt = att[p]
      /\ att[p] \in DOMAIN attempts
      /\ attempts[att[p]].user = usr[p] /\ attempts[att[p]].event = ev[p]
  BY <1>a DEF IInv, EventKnown, PostedOrderKnown, AttemptOwned, EngineLabels, TryLabels
<1>m. book[poly[p]].user = usr[p] /\ book[poly[p]].event = ev[p]
  BY <1>e DEF IInv, OrdersAccountedFor
<1>b. /\ orders \in Seq(Order) /\ new \in Order
      /\ pc \in [Tasks -> WorkerLabels \cup EngineLabels]
  <2>1. events[ev[p]] \in Trades BY <1>e DEF IInv, TypeOK
  <2>2. usr[p] \in Users /\ poly[p] \in Nat BY DEF IInv, TypeOK
  <2>q. QED BY <2>1, <2>2 DEF IInv, TypeOK, Order
<1>c. /\ orders' \in Seq(Order)
      /\ n \notin DOMAIN orders /\ DOMAIN orders' = DOMAIN orders \cup {n}
      /\ \A j \in DOMAIN orders : orders'[j] = orders[j]
      /\ orders'[n] = new
  BY <1>a, <1>b, AppendFacts
<1>d. \A q \in Polls : pc'[q] = IF q = p THEN "submit" ELSE pc[q]
  BY <1>a, <1>b DEF Tasks
<1>f. new.user = usr[p] /\ new.trade = events[ev[p]] /\ new.poly = poly[p]
  OBVIOUS
<1> HIDE DEF n, new
<1> USE DEF EngineLabels, TryLabels, UnsettledLabels
<1>t. TypeOK' BY <1>a, <1>b, <1>c DEF IInv, TypeOK, Tasks
<1>1. EventKnown' BY <1>a, <1>d DEF IInv, EventKnown
<1>2. AttemptsOfKnownEvents' BY <1>a DEF IInv, AttemptsOfKnownEvents
<1>3. AttemptOwned' BY <1>a, <1>d DEF IInv, AttemptOwned
<1>4. AttemptNotShared' BY <1>a, <1>d DEF IInv, AttemptNotShared
<1>p. StillPending' BY <1>a, <1>d DEF IInv, StillPending
<1>5. NotYetPosted' BY <1>a, <1>d DEF IInv, NotYetPosted
<1>6. PostedOrderKnown' BY <1>a, <1>d DEF IInv, PostedOrderKnown
<1>7. OrdersAccountedFor' BY <1>a DEF IInv, OrdersAccountedFor
<1>8. OrderRowsMatchBook' BY <1>a, <1>c, <1>e, <1>f, <1>m DEF IInv, OrderRowsMatchBook, ByHand
<1>9. SubmittedIsLive' BY <1>a, <1>c DEF IInv, SubmittedIsLive
<1>q. QED BY <1>t, <1>1, <1>2, <1>3, <1>4, <1>p, <1>5, <1>6, <1>7, <1>8,
         <1>9 DEF IInv

(* SUBMITTED names the order row placed for the very attempt.              *)
LEMMA MarkSubmittedStep ==
  ASSUME IInv, NEW p \in Polls, MarkSubmitted(p), UNCHANGED workerVars
  PROVE  IInv'
<1>0. PICK j \in DOMAIN orders : orders[j].poly = poly[p] /\ Submit(att[p], j)
  BY DEF MarkSubmitted
<1> DEFINE i == att[p]
           new == [user |-> attempts[i].user, event |-> attempts[i].event,
                   status |-> "SUBMITTED", order |-> j]
<1>a. /\ pc[p] = "submit"
      /\ pc' = [pc EXCEPT ![p] = "record"]
      /\ UNCHANGED <<events, orders, follows, enabled, book, breaker, clock,
                     faults, ev, pend, usr, att, poly,
                     tradedAt, lastSyncedAt, since, todo, trade>>
  BY DEF MarkSubmitted, Goto, workerVars
<1>b. /\ attempts \in Seq(Attempt) /\ i \in DOMAIN attempts
      /\ attempts[i] \in Attempt /\ new \in Attempt
  <2>1. attempts \in Seq(Attempt) /\ i \in DOMAIN attempts
    BY <1>a DEF IInv, TypeOK, AttemptOwned, TryLabels
  <2>2. attempts[i] \in Attempt BY <2>1
  <2>3. j \in Nat BY DEF IInv, TypeOK
  <2>q. QED BY <2>1, <2>2, <2>3 DEF Attempt
<1>c. attempts' = [attempts EXCEPT ![i] = new]
  BY <1>0 DEF Submit
<1>f. /\ new.user = attempts[i].user /\ new.event = attempts[i].event
      /\ new.status = "SUBMITTED" /\ new.order = j
  OBVIOUS
<1> HIDE DEF new
<1>d. /\ attempts' \in Seq(Attempt)
      /\ DOMAIN attempts' = DOMAIN attempts
      /\ attempts'[i] = new
      /\ \A k \in DOMAIN attempts : k # i => attempts'[k] = attempts[k]
  BY <1>b, <1>c, UpdateFacts
<1>e. \A q \in Polls : pc'[q] = IF q = p THEN "record" ELSE pc[q]
  BY <1>a DEF IInv, TypeOK, Tasks
<1>o. \A q \in Polls : pc[q] \in TryLabels => q = p \/ att[q] # i
  BY <1>a DEF IInv, AttemptNotShared, TryLabels
<1>l. poly[p] \in DOMAIN book /\ book[poly[p]].attempt = i
  BY <1>a DEF IInv, PostedOrderKnown
<1>m. /\ orders[j].user = attempts[i].user
      /\ orders[j].trade = events[attempts[i].event]
  <2>1. /\ book[poly[p]].user = attempts[i].user
        /\ book[poly[p]].event = attempts[i].event
    BY <1>l DEF IInv, OrdersAccountedFor
  <2>2. poly[p] # 0 BY <1>l DEF IInv, TypeOK
  <2>q. QED BY <1>0, <2>1, <2>2 DEF IInv, OrderRowsMatchBook, ByHand
<1> HIDE DEF i
<1> USE DEF EngineLabels, TryLabels, UnsettledLabels
<1>t. TypeOK' BY <1>a, <1>d DEF IInv, TypeOK, Tasks
<1>1. EventKnown' BY <1>a, <1>e DEF IInv, EventKnown
<1>2. AttemptsOfKnownEvents' BY <1>a, <1>b, <1>d, <1>f DEF IInv, AttemptsOfKnownEvents
<1>3. AttemptOwned' BY <1>a, <1>b, <1>d, <1>e, <1>f DEF IInv, AttemptOwned
<1>4. AttemptNotShared' BY <1>a, <1>e DEF IInv, AttemptNotShared
<1>p. StillPending' BY <1>a, <1>d, <1>e, <1>o DEF IInv, StillPending, AttemptOwned
<1>5. NotYetPosted' BY <1>a, <1>d, <1>e, <1>o DEF IInv, NotYetPosted, AttemptOwned
<1>6. PostedOrderKnown' BY <1>a, <1>e DEF IInv, PostedOrderKnown
<1>7. OrdersAccountedFor' BY <1>a, <1>d, <1>f DEF IInv, OrdersAccountedFor
<1>8. OrderRowsMatchBook' BY <1>a DEF IInv, OrderRowsMatchBook, ByHand
<1>9. SubmittedIsLive' BY <1>0, <1>a, <1>d, <1>f, <1>l, <1>m DEF IInv, SubmittedIsLive
<1>q. QED BY <1>t, <1>1, <1>2, <1>3, <1>4, <1>p, <1>5, <1>6, <1>7, <1>8,
         <1>9 DEF IInv

(* A new row of leader_events disturbs no event already on record.         *)
LEMMA NewEventStep ==
  ASSUME IInv, NEW k \in Tasks, pc[k] = "create", StoreEvent(k),
         NEW l \in {"follows", "next"}, pc' = [pc EXCEPT ![k] = l],
         ev' \in [Polls -> Nat],
         \A q \in Polls : ev'[q] = IF q = k /\ l = "follows"
                                   THEN Len(events) + 1 ELSE ev[q],
         UNCHANGED <<attempts, orders, follows, enabled, book, breaker, clock,
                     faults, pend, usr, att, poly, workerVars>>
  PROVE  IInv'
<1> DEFINE n == Len(events) + 1
<1>a. /\ events' = Append(events, trade[k])
      /\ UNCHANGED <<tradedAt, lastSyncedAt, since, todo, trade>>
  BY DEF StoreEvent, workerVars
<1>b. events \in Seq(Trades) /\ trade[k] \in Trades
  BY DEF IInv, TypeOK
<1>c. /\ events' \in Seq(Trades)
      /\ DOMAIN events' = DOMAIN events \cup {n}
      /\ \A e \in DOMAIN events : events'[e] = events[e]
  BY <1>a, <1>b, AppendFacts
<1>d. \A q \in Polls : pc'[q] = IF q = k THEN l ELSE pc[q]
  BY DEF IInv, TypeOK, Tasks
<1> HIDE DEF n
<1> USE DEF EngineLabels, TryLabels, UnsettledLabels
<1>t. TypeOK' BY <1>a, <1>c DEF IInv, TypeOK, Tasks, WorkerLabels
<1>1. EventKnown' BY <1>c, <1>d DEF IInv, EventKnown, n
<1>2. AttemptsOfKnownEvents' BY <1>c DEF IInv, AttemptsOfKnownEvents
<1>3. AttemptOwned' BY <1>d DEF IInv, AttemptOwned
<1>4. AttemptNotShared' BY <1>d DEF IInv, AttemptNotShared
<1>p. StillPending' BY <1>d DEF IInv, StillPending
<1>5. NotYetPosted' BY <1>d DEF IInv, NotYetPosted
<1>6. PostedOrderKnown' BY <1>d DEF IInv, PostedOrderKnown
<1>7. OrdersAccountedFor' BY DEF IInv, OrdersAccountedFor
<1>8. OrderRowsMatchBook'
  <2>1. \A b \in DOMAIN book : book[b].event \in DOMAIN events
    BY DEF IInv, OrdersAccountedFor, AttemptsOfKnownEvents
  <2>q. QED BY <1>c, <2>1 DEF IInv, OrderRowsMatchBook, ByHand
<1>9. SubmittedIsLive'
  BY <1>c DEF IInv, SubmittedIsLive, AttemptsOfKnownEvents
<1>q. QED BY <1>t, <1>1, <1>2, <1>3, <1>4, <1>p, <1>5, <1>6, <1>7, <1>8,
         <1>9 DEF IInv

(* A poll that records a trade keeps the invariant.                        *)
LEMMA StoreEventPollStep ==
  ASSUME IInv, NEW p \in Polls, StoreEventPoll(p)
  PROVE  IInv'
<1>1. p \in Tasks BY DEF Tasks
<1>2. ev \in [Polls -> Nat] /\ Len(events) + 1 \in Nat BY DEF IInv, TypeOK
<1>3. ev' = [ev EXCEPT ![p] = Len(events) + 1] BY DEF StoreEventPoll
<1>4. /\ ev' \in [Polls -> Nat]
      /\ \A q \in Polls : ev'[q] = IF q = p THEN Len(events) + 1 ELSE ev[q]
  BY <1>2, <1>3
<1>q. QED BY <1>1, <1>4, NewEventStep DEF StoreEventPoll, Goto

(* The sync loop that records a trade keeps the invariant.                 *)
LEMMA StoreEventSyncStep ==
  ASSUME IInv, NEW s \in Syncs, StoreEventSync(s)
  PROVE  IInv'
<1>1. s \in Tasks /\ s \notin Polls BY EngineAssumption DEF Tasks
<1>2. ev \in [Polls -> Nat] BY DEF IInv, TypeOK
<1>q. QED BY <1>1, <1>2, NewEventStep DEF StoreEventSync, Goto

-----------------------------------------------------------------------------
(* The steps of the two loops, of faults and of the environment.           *)

(* The placeholders for locals that are out of scope are well typed.       *)
LEMMA Chosen == SomeUser \in Users /\ SomeTrade \in Trades
<1>1. /\ \E u : u \in Users
      /\ \E t : t \in Trades
  BY EngineAssumption
<1>q. QED BY <1>1 DEF SomeUser, SomeTrade

(* Leaving processCopiesForEvent keeps the invariant.                      *)
LEMMA CopiesDoneStep ==
  ASSUME IInv, NEW p \in Polls, CopiesDone(p), UNCHANGED workerVars
  PROVE  IInv'
<1>1. /\ pc[p] = "users" /\ pc' = [pc EXCEPT ![p] = "next"]
      /\ UNCHANGED <<dbVars, book, breaker, clock, faults>>
      /\ DropCopyLocals({p})
  BY DEF CopiesDone, Goto
<1>2. TypeOK'
  BY <1>1, Chosen DEF IInv, TypeOK, DropCopyLocals, WorkerLabels, Tasks, dbVars, workerVars
<1>3. \A q \in Polls : /\ pc'[q] = IF q = p THEN "next" ELSE pc[q]
                       /\ q # p => /\ ev'[q] = ev[q] /\ usr'[q] = usr[q]
                                   /\ att'[q] = att[q] /\ poly'[q] = poly[q]
  BY <1>1 DEF IInv, TypeOK, Tasks, DropCopyLocals
<1>4. QED
  BY <1>1, <1>2, <1>3, QuietStep DEF IInv, EventKnown, EngineLabels,
     TryLabels, UnsettledLabels, dbVars

(* Starting, fetching and finishing keep the invariant.                    *)
LEMMA LoopSteps ==
  ASSUME IInv, NEW k \in Tasks, LoopStep(k)
  PROVE  IInv'
<1> DEFINE Moved(l) == /\ pc' = [pc EXCEPT ![k] = l]
                       /\ UNCHANGED <<dbVars, book, breaker, clock, faults, ev, pend,
                                      usr, att, poly, tradedAt>>
<1>0. ASSUME NEW l \in WorkerLabels, Moved(l), TypeOK' PROVE IInv'
  <2>1. \A q \in Polls : pc'[q] = IF q = k THEN l ELSE pc[q]
    BY <1>0 DEF IInv, TypeOK, Tasks
  <2>q. QED
    BY <1>0, <2>1, QuietStep DEF IInv, EventKnown, EngineLabels,
       TryLabels, UnsettledLabels, WorkerLabels, dbVars
<1> HIDE DEF Moved
<1>t. ASSUME NEW l \in WorkerLabels, Moved(l), lastSyncedAt' \in Nat,
             since' \in [Tasks -> Nat], todo' \in [Tasks -> SUBSET Trades],
             trade' \in [Tasks -> Trades]
      PROVE  TypeOK'
  BY <1>t DEF IInv, TypeOK, Moved, dbVars
<1>i. /\ lastSyncedAt \in Nat /\ clock \in Nat
      /\ since \in [Tasks -> Nat] /\ todo \in [Tasks -> SUBSET Trades]
      /\ trade \in [Tasks -> Trades]
  BY DEF IInv, TypeOK
<1>1. CASE Start(k)
  <2>1. Moved("fetch") BY <1>1 DEF Start, Moved, Goto
  <2>2. /\ lastSyncedAt' \in Nat /\ since' \in [Tasks -> Nat]
        /\ todo' \in [Tasks -> SUBSET Trades] /\ trade' \in [Tasks -> Trades]
    BY <1>1, <1>i DEF Start
  <2>q. QED BY <2>1, <2>2, <1>t, <1>0 DEF WorkerLabels
<1>2. CASE FetchNothing(k)
  <2>1. Moved("idle") BY <1>2 DEF FetchNothing, Moved, Goto
  <2>2. /\ lastSyncedAt' \in Nat /\ since' \in [Tasks -> Nat]
        /\ todo' \in [Tasks -> SUBSET Trades] /\ trade' \in [Tasks -> Trades]
    BY <1>2, <1>i DEF FetchNothing
  <2>q. QED BY <2>1, <2>2, <1>t, <1>0 DEF WorkerLabels
<1>3. CASE FetchTrades(k)
  <2>1. Moved("next") BY <1>3 DEF FetchTrades, Moved, Goto
  <2>2. /\ lastSyncedAt' \in Nat /\ since' \in [Tasks -> Nat]
        /\ todo' \in [Tasks -> SUBSET Trades] /\ trade' \in [Tasks -> Trades]
    BY <1>3, <1>i DEF FetchTrades, Fetched
  <2>q. QED BY <2>1, <2>2, <1>t, <1>0 DEF WorkerLabels
<1>4. CASE Finish(k)
  <2>1. Moved("idle") BY <1>4 DEF Finish, Moved, Goto
  <2>2. /\ lastSyncedAt' \in Nat /\ since' \in [Tasks -> Nat]
        /\ todo' \in [Tasks -> SUBSET Trades] /\ trade' \in [Tasks -> Trades]
    BY <1>4, <1>i, Chosen DEF Finish
  <2>q. QED BY <2>1, <2>2, <1>t, <1>0 DEF WorkerLabels
<1>q. QED BY <1>1, <1>2, <1>3, <1>4 DEF LoopStep

(* The poll copies an event that is on record, or goes to record it.       *)
LEMMA FindEventPollStep ==
  ASSUME IInv, NEW p \in Polls, FindEventPoll(p)
  PROVE  IInv'
<1>1. PICK t \in todo[p] :
        /\ Take(p, t)
        /\ \/ /\ \E i \in Matching(t) : ev' = [ev EXCEPT ![p] = i]
              /\ Goto(p, "follows")
           \/ Goto(p, "create") /\ ev' = ev
  BY DEF FindEventPoll, Take
<1>2. /\ pc[p] = "next" /\ p \in Tasks
      /\ UNCHANGED <<dbVars, book, breaker, clock, faults, pend, usr, att,
                     poly, tradedAt, lastSyncedAt, since>>
  BY DEF FindEventPoll, Tasks
<1>3. todo' \in [Tasks -> SUBSET Trades] /\ trade' \in [Tasks -> Trades]
  BY <1>1, <1>2 DEF IInv, TypeOK, Take
<1>4. PICK l \in {"follows", "create"} :
        /\ pc' = [pc EXCEPT ![p] = l]
        /\ ev' \in [Polls -> Nat]
        /\ \A q \in Polls : q # p => ev'[q] = ev[q]
        /\ l = "follows" => ev'[p] \in DOMAIN events
  <2>1. CASE \E i \in Matching(t) : ev' = [ev EXCEPT ![p] = i] /\ Goto(p, "follows")
    <3>1. PICK i \in DOMAIN events : ev' = [ev EXCEPT ![p] = i] /\ Goto(p, "follows")
      BY <2>1 DEF Matching
    <3>2. i \in Nat /\ ev \in [Polls -> Nat] BY DEF IInv, TypeOK
    <3>q. QED BY <3>1, <3>2 DEF Goto
  <2>2. CASE Goto(p, "create") /\ ev' = ev
    BY <2>2 DEF Goto, IInv, TypeOK
  <2>q. QED BY <1>1, <2>1, <2>2
<1>5. TypeOK'
  BY <1>2, <1>3, <1>4 DEF IInv, TypeOK, dbVars, WorkerLabels, EngineLabels
<1>6. \A q \in Polls : pc'[q] = IF q = p THEN l ELSE pc[q]
  BY <1>4 DEF IInv, TypeOK, Tasks
<1>q. QED
  BY <1>2, <1>4, <1>5, <1>6, QuietStep DEF IInv, EventKnown, EngineLabels,
     TryLabels, UnsettledLabels, dbVars

(* The sync loop never enters the copy engine.                             *)
LEMMA FindEventSyncStep ==
  ASSUME IInv, NEW s \in Syncs, FindEventSync(s)
  PROVE  IInv'
<1>1. PICK t \in todo[s] : Take(s, t)
  BY DEF FindEventSync
<1>2. PICK l \in {"next", "create"} : pc' = [pc EXCEPT ![s] = l]
  BY DEF FindEventSync, Goto
<1>3. /\ s \in Tasks /\ s \notin Polls
      /\ UNCHANGED <<dbVars, book, breaker, clock, faults, ev, pend, usr, att,
                     poly, tradedAt, lastSyncedAt, since>>
  BY EngineAssumption DEF FindEventSync, Tasks
<1>4. todo' \in [Tasks -> SUBSET Trades] /\ trade' \in [Tasks -> Trades]
  BY <1>1, <1>3 DEF IInv, TypeOK, Take
<1>5. TypeOK'
  BY <1>2, <1>3, <1>4 DEF IInv, TypeOK, dbVars, WorkerLabels
<1>6. \A q \in Polls : pc'[q] = pc[q]
  BY <1>2, <1>3 DEF IInv, TypeOK, Tasks
<1>q. QED
  BY <1>3, <1>5, <1>6, QuietStep DEF IInv, EventKnown, dbVars

(* An activation abandoned anywhere leaves the tables as they were.        *)
LEMMA AbandonStep ==
  ASSUME IInv, NEW k \in Tasks, Abandon(k)
  PROVE  IInv'
<1>1. /\ pc' = [pc EXCEPT ![k] = "idle"]
      /\ DropCopyLocals({k}) /\ faults' = faults + 1
      /\ since' = [j \in Tasks |-> IF j \in {k} THEN 0 ELSE since[j]]
      /\ todo'  = [j \in Tasks |-> IF j \in {k} THEN {} ELSE todo[j]]
      /\ trade' = [j \in Tasks |-> IF j \in {k} THEN SomeTrade ELSE trade[j]]
      /\ UNCHANGED <<dbVars, book, breaker, clock, tradedAt, lastSyncedAt>>
  BY DEF Abandon, DropLocals, Goto
<1>2. TypeOK'
  BY <1>1, Chosen DEF IInv, TypeOK, DropCopyLocals, WorkerLabels, dbVars
<1>3. \A q \in Polls : /\ pc'[q] = IF q = k THEN "idle" ELSE pc[q]
                       /\ q # k => /\ ev'[q] = ev[q] /\ usr'[q] = usr[q]
                                   /\ att'[q] = att[q] /\ poly'[q] = poly[q]
  BY <1>1 DEF IInv, TypeOK, Tasks, DropCopyLocals
<1>4. QED
  BY <1>1, <1>2, <1>3, QuietStep DEF IInv, EventKnown, EngineLabels,
     TryLabels, UnsettledLabels, dbVars

(* A crash loses the activations and the breaker, and no row.              *)
LEMMA CrashStep ==
  ASSUME IInv, Crash
  PROVE  IInv'
<1>1. /\ pc' = [k \in Tasks |-> "idle"]
      /\ DropCopyLocals(Tasks) /\ faults' = faults + 1
      /\ since' = [j \in Tasks |-> IF j \in Tasks THEN 0 ELSE since[j]]
      /\ todo'  = [j \in Tasks |-> IF j \in Tasks THEN {} ELSE todo[j]]
      /\ trade' = [j \in Tasks |-> IF j \in Tasks THEN SomeTrade ELSE trade[j]]
      /\ breaker' = InitBreaker
      /\ UNCHANGED <<dbVars, book, clock, tradedAt, lastSyncedAt>>
  BY DEF Crash, DropLocals
<1>2. breaker' \in Breaker
  BY <1>1, BreakerTypes DEF IInv, TypeOK
<1>3. TypeOK'
  BY <1>1, <1>2, Chosen DEF IInv, TypeOK, DropCopyLocals, WorkerLabels, Tasks, dbVars
<1>4. \A q \in Polls : pc'[q] = "idle"
  BY <1>1 DEF Tasks
<1>5. QED
  BY <1>1, <1>3, <1>4, QuietStep DEF EngineLabels, TryLabels,
     UnsettledLabels, dbVars

(* The environment touches neither the activations nor the four tables.    *)
LEMMA EnvironmentSteps ==
  ASSUME IInv,
         \/ \E t \in Trades : LeaderTrades(t)
         \/ \E u \in Users : SetCopying(u) \/ SetFollow(u)
         \/ RefreshLeaderboard \/ Tick \/ UNCHANGED vars
  PROVE  IInv'
<1>0. ASSUME UNCHANGED <<events, attempts, orders, book, taskVars>>, TypeOK'
      PROVE  IInv'
  BY <1>0, QuietStep DEF IInv, EventKnown, EngineLabels, taskVars
<1> USE DEF engineVars, dbVars, workerVars, vars
<1>1. ASSUME NEW t \in Trades, LeaderTrades(t) PROVE IInv'
  <2>1. TypeOK' BY <1>1 DEF LeaderTrades, IInv, TypeOK, taskVars
  <2>q. QED BY <1>0, <1>1, <2>1 DEF LeaderTrades
<1>2. ASSUME NEW u \in Users, SetCopying(u) PROVE IInv'
  <2>1. TypeOK' BY <1>2 DEF SetCopying, IInv, TypeOK, taskVars
  <2>q. QED BY <1>0, <1>2, <2>1 DEF SetCopying
<1>3. ASSUME NEW u \in Users, SetFollow(u) PROVE IInv'
  <2>1. TypeOK' BY <1>3 DEF SetFollow, IInv, TypeOK, taskVars
  <2>q. QED BY <1>0, <1>3, <2>1 DEF SetFollow
<1>4. CASE RefreshLeaderboard
  <2>1. TypeOK' BY <1>4 DEF RefreshLeaderboard, IInv, TypeOK, taskVars
  <2>q. QED BY <1>0, <1>4, <2>1 DEF RefreshLeaderboard
<1>5. CASE Tick
  <2>1. TypeOK' BY <1>5 DEF Tick, IInv, TypeOK, taskVars
  <2>q. QED BY <1>0, <1>5, <2>1 DEF Tick
<1>6. CASE UNCHANGED vars
  <2>1. TypeOK' BY <1>6 DEF IInv, TypeOK, taskVars
  <2>q. QED BY <1>0, <1>6, <2>1
<1>q. QED BY <1>1, <1>2, <1>3, <1>4, <1>5, <1>6

(* The orders that users place, cancel or let expire: no copy is opened,   *)
(* and every row keeps what it is for.                                     *)
LEMMA ApiOrdersApart ==
  ASSUME TypeOK, ApiOrders
  PROVE  /\ UNCHANGED <<events, attempts, follows, enabled, book, breaker, clock,
                         faults, taskVars, workerVars>>
         /\ orders' \in Seq(Order) /\ DOMAIN orders \subseteq DOMAIN orders'
         /\ \A j \in DOMAIN orders :
              /\ orders'[j].user = orders[j].user /\ orders'[j].trade = orders[j].trade
              /\ orders'[j].poly = orders[j].poly
              /\ orders'[j].status = "OPEN" => orders[j].status = "OPEN"
         /\ \A j \in DOMAIN orders' \ DOMAIN orders : orders'[j].poly = 0
<1>0. orders \in Seq(Order) BY DEF TypeOK
<1>1. ASSUME NEW u \in Users, NEW t \in HandTrades,
             orders' = Append(orders, [user |-> u, trade |-> t, poly |-> 0,
                                       status |-> "OPEN"])
      PROVE  /\ orders' \in Seq(Order) /\ DOMAIN orders \subseteq DOMAIN orders'
             /\ \A j \in DOMAIN orders : orders'[j] = orders[j]
             /\ \A j \in DOMAIN orders' \ DOMAIN orders : orders'[j].poly = 0
  <2> DEFINE new == [user |-> u, trade |-> t, poly |-> 0, status |-> "OPEN"]
  <2>1. new \in Order /\ new.poly = 0 BY WorkerAssumption DEF Order
  <2>2. orders' = Append(orders, new) BY <1>1
  <2> HIDE DEF new
  <2>q. QED BY <1>0, <2>1, <2>2, AppendFacts
<1>2. ASSUME NEW j \in DOMAIN orders, orders' = [orders EXCEPT ![j].status = "CLOSED"]
      PROVE  /\ orders' \in Seq(Order) /\ DOMAIN orders' = DOMAIN orders
             /\ \A i \in DOMAIN orders :
                  /\ orders'[i].user = orders[i].user /\ orders'[i].trade = orders[i].trade
                  /\ orders'[i].poly = orders[i].poly
                  /\ orders'[i].status = "OPEN" => orders[i].status = "OPEN"
  <2> DEFINE new == [orders[j] EXCEPT !.status = "CLOSED"]
  <2>1. orders[j] \in Order BY <1>0
  <2>2. /\ new \in Order /\ new.user = orders[j].user /\ new.trade = orders[j].trade
        /\ new.poly = orders[j].poly /\ new.status = "CLOSED"
    BY <2>1 DEF Order
  <2>3. orders' = [orders EXCEPT ![j] = new] BY <1>2
  <2> HIDE DEF new
  <2>4. /\ orders' \in Seq(Order) /\ DOMAIN orders' = DOMAIN orders
        /\ orders'[j] = new
        /\ \A i \in DOMAIN orders : i # j => orders'[i] = orders[i]
    BY <1>0, <2>2, <2>3, UpdateFacts
  <2>q. QED BY <2>2, <2>4
<1>3. CASE \E u \in Users, t \in HandTrades : PostOrder(u, t)
  BY <1>1, <1>3 DEF PostOrder
<1>4. CASE \E j \in DOMAIN orders : CloseOrder(j)
  BY <1>2, <1>4 DEF CloseOrder
<1>q. QED BY <1>3, <1>4 DEF ApiOrders

(* They keep the invariant: it speaks of the orders of the engine.         *)
LEMMA ApiOrdersStep ==
  ASSUME IInv, ApiOrders
  PROVE  IInv'
<1>a. TypeOK BY DEF IInv
<1>b. /\ UNCHANGED <<events, attempts, follows, enabled, book, breaker, clock,
                     faults, taskVars, workerVars>>
      /\ orders' \in Seq(Order) /\ DOMAIN orders \subseteq DOMAIN orders'
      /\ \A j \in DOMAIN orders :
           /\ orders'[j].user = orders[j].user /\ orders'[j].trade = orders[j].trade
           /\ orders'[j].poly = orders[j].poly
      /\ \A j \in DOMAIN orders' \ DOMAIN orders : orders'[j].poly = 0
  BY <1>a, ApiOrdersApart
<1> USE DEF taskVars, workerVars
<1>t. TypeOK' BY <1>a, <1>b DEF TypeOK
<1>1. EventKnown'            BY <1>b DEF IInv, EventKnown
<1>2. AttemptsOfKnownEvents' BY <1>b DEF IInv, AttemptsOfKnownEvents
<1>3. AttemptOwned'          BY <1>b DEF IInv, AttemptOwned
<1>4. AttemptNotShared'      BY <1>b DEF IInv, AttemptNotShared
<1>p. StillPending'          BY <1>b DEF IInv, StillPending
<1>5. NotYetPosted'          BY <1>b DEF IInv, NotYetPosted
<1>6. PostedOrderKnown'      BY <1>b DEF IInv, PostedOrderKnown
<1>7. OrdersAccountedFor'    BY <1>b DEF IInv, OrdersAccountedFor
<1>8. OrderRowsMatchBook'    BY <1>b DEF IInv, OrderRowsMatchBook, ByHand
<1>9. SubmittedIsLive'       BY <1>b DEF IInv, SubmittedIsLive
<1>q. QED BY <1>t, <1>1, <1>2, <1>3, <1>4, <1>p, <1>5, <1>6, <1>7, <1>8,
         <1>9 DEF IInv

-----------------------------------------------------------------------------
(* The empty database satisfies the invariant.                             *)
LEMMA InitIInv == Init => IInv
<1> SUFFICES ASSUME Init PROVE IInv
  OBVIOUS
<1>0. /\ events = <<>> /\ attempts = <<>> /\ orders = <<>> /\ book = <<>>
      /\ \A p \in Polls : pc[p] = "idle"
  BY DEF Init, Tasks
<1>1. TypeOK
  <2>1. breaker \in Breaker BY DEF Init, InitBreaker, Breaker
  <2>2. "idle" \in WorkerLabels BY DEF WorkerLabels
  <2>q. QED BY <2>1, <2>2, Chosen DEF Init, TypeOK
<1>q. QED
  BY <1>0, <1>1 DEF IInv, EventKnown, AttemptsOfKnownEvents, AttemptOwned,
     AttemptNotShared, StillPending, NotYetPosted, PostedOrderKnown,
     OrdersAccountedFor, OrderRowsMatchBook, SubmittedIsLive, EngineLabels,
     TryLabels, UnsettledLabels

(* Every step of the copy engine keeps the invariant.                      *)
LEMMA EngineSteps ==
  ASSUME IInv, NEW p \in Polls, EngineStep(p), UNCHANGED workerVars
  PROVE  IInv'
BY ReadFollowsStep, NextUserStep, CopiesDoneStep, SkipStep, MoveSteps,
   CreateStep, StatusSteps, AcceptSteps, StoreOrderStep, MarkSubmittedStep
   DEF EngineStep

(* Every step of the system keeps the invariant.                           *)
LEMMA NextIInv == IInv /\ [Next]_vars => IInv'
<1> SUFFICES ASSUME IInv, [Next]_vars PROVE IInv'
  OBVIOUS
<1>1. ASSUME NEW p \in Polls, PollStep(p) PROVE IInv'
  BY <1>1, FindEventPollStep, StoreEventPollStep, EngineSteps DEF PollStep
<1>2. ASSUME NEW s \in Syncs, SyncStep(s) PROVE IInv'
  BY <1>2, FindEventSyncStep, StoreEventSyncStep DEF SyncStep
<1>3. ASSUME NEW k \in Tasks, LoopStep(k) \/ Abandon(k) PROVE IInv'
  BY <1>3, LoopSteps, AbandonStep
<1>4. CASE \/ \E t \in Trades : LeaderTrades(t)
           \/ \E u \in Users : SetCopying(u) \/ SetFollow(u)
           \/ RefreshLeaderboard \/ Tick \/ UNCHANGED vars
  BY <1>4, EnvironmentSteps
<1>5. CASE Crash
  BY <1>5, CrashStep
<1>6. CASE ApiOrders
  BY <1>6, ApiOrdersStep
<1>q. QED BY <1>1, <1>2, <1>3, <1>4, <1>5, <1>6 DEF Next

(* The invariant holds throughout: whatever overlaps, fails or crashes, an *)
(* activation works alone on an attempt it has on record.                  *)
THEOREM InvariantHolds == Spec => []IInv
BY InitIInv, NextIInv, PTL DEF Spec

(* The state keeps its types.                                              *)
THEOREM TypesHold == Spec => []TypeOK
<1>1. IInv => TypeOK BY DEF IInv
<1>q. QED BY <1>1, InvariantHolds, PTL

(* No order reaches the exchange without an attempt of its user and event  *)
(* on record, and no attempt places two (processCopyForUser writes the     *)
(* attempt before it posts), with any number of overlapping polls.         *)
THEOREM OrdersAreAccountedFor == Spec => []OrdersAccountedFor
<1>1. IInv => OrdersAccountedFor BY DEF IInv
<1>q. QED BY <1>1, InvariantHolds, PTL

(* A SUBMITTED attempt names the order row of its own user and trade, and  *)
(* the exchange accepted that order for this very attempt.                 *)
THEOREM SubmittedOrdersAreLive == Spec => []SubmittedIsLive
<1>1. IInv => SubmittedIsLive BY DEF IInv
<1>q. QED BY <1>1, InvariantHolds, PTL

-----------------------------------------------------------------------------
(* A settled attempt is never rewritten.                                   *)

(* A status update by the owner of a pending attempt, or a row added at    *)
(* the end, leaves every settled row as it is.                             *)
LEMMA WritesSpareSettled ==
  ASSUME IInv, NEW p \in Polls,
         \/ /\ pc[p] \in UnsettledLabels
            /\ \/ \E st : SetStatus(att[p], st)
               \/ \E j : Submit(att[p], j)
         \/ \E u, e, st : NewAttempt(u, e, st)
  PROVE  \A i \in DOMAIN attempts :
            attempts[i].status # "PENDING" => attempts'[i] = attempts[i]
<1>0. attempts \in Seq(Attempt) BY DEF IInv, TypeOK
<1>1. CASE pc[p] \in UnsettledLabels /\ \E st : SetStatus(att[p], st)
  <2>1. attempts[att[p]].status = "PENDING" BY <1>1 DEF IInv, StillPending
  <2>q. QED BY <1>0, <1>1, <2>1 DEF SetStatus
<1>2. CASE pc[p] \in UnsettledLabels /\ \E j : Submit(att[p], j)
  <2>1. attempts[att[p]].status = "PENDING" BY <1>2 DEF IInv, StillPending
  <2>q. QED BY <1>0, <1>2, <2>1 DEF Submit
<1>3. CASE \E u, e, st : NewAttempt(u, e, st)
  BY <1>0, <1>3 DEF NewAttempt
<1>q. QED BY <1>1, <1>2, <1>3

(* A step of the engine that writes copy_attempts settles a PENDING row it *)
(* owns or adds a row.                                                     *)
LEMMA EngineSparesSettled ==
  ASSUME IInv, NEW p \in Polls, EngineStep(p)
  PROVE  \A i \in DOMAIN attempts :
            attempts[i].status # "PENDING" => attempts'[i] = attempts[i]
<1> USE DEF UnsettledLabels, dbVars
<1>1. CASE \/ ReadFollows(p) \/ NextUser(p) \/ CopiesDone(p) \/ CheckDuplicate(p)
           \/ GuardrailsAllow(p) \/ GetAddress(p) \/ RecordUnavailable(p)
           \/ PostAccepted(p) \/ PostReplyLost(p) \/ StoreOrder(p)
           \/ RecordSubmitted(p) \/ ThrowInTry(p) \/ Catch(p)
  BY <1>1 DEF ReadFollows, NextUser, CopiesDone, CheckDuplicate, GuardrailsAllow,
     GetAddress, RecordUnavailable, PostAccepted, PostReplyLost, StoreOrder,
     RecordSubmitted, ThrowInTry, Catch
<1>2. CASE SkipBreakerOpen(p)
  BY <1>2, WritesSpareSettled DEF SkipBreakerOpen
<1>3. CASE CreateAttempt(p)
  BY <1>3, WritesSpareSettled DEF CreateAttempt
<1>4. CASE MissingCredentials(p) \/ GuardrailsSkip(p)
  BY <1>4, WritesSpareSettled DEF MissingCredentials, GuardrailsSkip
<1>5. CASE NoTradingAuthority(p) \/ SigningUnavailable(p)
  BY <1>5, WritesSpareSettled DEF NoTradingAuthority, SigningUnavailable
<1>6. CASE PostRejected(p) \/ MarkFailed(p)
  BY <1>6, WritesSpareSettled DEF PostRejected, MarkFailed
<1>7. CASE MarkSubmitted(p)
  BY <1>7, WritesSpareSettled DEF MarkSubmitted
<1>q. QED BY <1>1, <1>2, <1>3, <1>4, <1>5, <1>6, <1>7 DEF EngineStep

(* An attempt with a final status keeps its row: no late exception and no  *)
(* overlapping activation rewrites the outcome of a copy.                  *)
THEOREM SettledAttemptsStay == Spec => SettledAttempts
<1>1. IInv /\ [Next]_vars =>
        [\A i \in DOMAIN attempts :
            attempts[i].status # "PENDING" => attempts'[i] = attempts[i]]_vars
  <2> SUFFICES ASSUME IInv, Next
               PROVE  \A i \in DOMAIN attempts :
                        attempts[i].status # "PENDING" => attempts'[i] = attempts[i]
    OBVIOUS
  <2> USE DEF dbVars, engineVars, taskVars
  <2>1. ASSUME NEW p \in Polls, PollStep(p)
        PROVE  \A i \in DOMAIN attempts :
                  attempts[i].status # "PENDING" => attempts'[i] = attempts[i]
    BY <2>1, EngineSparesSettled DEF PollStep, FindEventPoll, StoreEventPoll
  <2>2. ASSUME NEW s \in Syncs, SyncStep(s) PROVE attempts' = attempts
    BY <2>2 DEF SyncStep, FindEventSync, StoreEventSync
  <2>3. ASSUME NEW k \in Tasks, LoopStep(k) \/ Abandon(k) PROVE attempts' = attempts
    BY <2>3 DEF LoopStep, Start, FetchNothing, FetchTrades, Finish, Abandon
  <2>4. ASSUME \/ \E t \in Trades : LeaderTrades(t)
               \/ \E u \in Users : SetCopying(u) \/ SetFollow(u)
               \/ RefreshLeaderboard \/ Tick \/ Crash
        PROVE  attempts' = attempts
    BY <2>4 DEF LeaderTrades, SetCopying, SetFollow, RefreshLeaderboard, Tick, Crash
  <2>5. ASSUME ApiOrders PROVE attempts' = attempts
    BY <2>5, ApiOrdersApart DEF IInv
  <2>q. QED BY <2>1, <2>2, <2>3, <2>4, <2>5 DEF Next
<1>q. QED BY <1>1, InvariantHolds, PTL DEF Spec, SettledAttempts

-----------------------------------------------------------------------------
(* The ledger: each write of an attempt and each order is one of its steps. *)

(* A row added while it is written ahead, as the ledger opens one.         *)
LEMMA NewAttemptOpens ==
  ASSUME IInv, NEW p \in Polls, NEW st \in {"PENDING", "SKIPPED"},
         NewAttempt(usr[p], ev[p], st), UNCHANGED book
  PROVE  Ledger!Open
<1> DEFINE new == [user |-> usr[p], event |-> ev[p], status |-> st, order |-> 0]
<1>1. new \in Ledger!Opened /\ new \in Attempt
  BY DEF IInv, TypeOK, Attempt, Ledger!Opened
<1>2. attempts' = Append(attempts, new) BY DEF NewAttempt
<1> HIDE DEF new
<1>3. /\ attempts \in Seq(Attempt) /\ Len(attempts') = Len(attempts) + 1
      /\ attempts'[Len(attempts) + 1] = new
  BY <1>1, <1>2, AppendFacts DEF IInv, TypeOK
<1>q. QED BY <1>1, <1>2, <1>3 DEF Ledger!Open

(* An order that is accepted is the first and the own one of its attempt.  *)
LEMMA AcceptPlaces ==
  ASSUME IInv, NEW p \in Polls, pc[p] = "post", Accept(p), UNCHANGED attempts
  PROVE  Ledger!LedgerNext
<1>1. /\ att[p] \in DOMAIN attempts
      /\ attempts[att[p]].user = usr[p] /\ attempts[att[p]].event = ev[p]
  BY DEF IInv, AttemptOwned, TryLabels
<1>2. Ledger!Pending(att[p])
  BY <1>1 DEF IInv, StillPending, UnsettledLabels, Ledger!Pending
<1>3. ~Ledger!Placed(att[p])
  BY DEF IInv, NotYetPosted, Ledger!Placed
<1>4. Ledger!Place(att[p])
  BY <1>1, <1>2, <1>3 DEF Accept, Ledger!Place
<1>q. QED BY <1>1, <1>4 DEF Ledger!LedgerNext

(* An attempt that ends without an order on record.                        *)
LEMMA StatusRefuses ==
  ASSUME IInv, NEW p \in Polls, pc[p] \in UnsettledLabels,
         NEW st \in {"FAILED", "SKIPPED"}, SetStatus(att[p], st), UNCHANGED book,
         st = "SKIPPED" => pc[p] = "guard"
  PROVE  Ledger!LedgerNext
<1>1. att[p] \in DOMAIN attempts
  BY DEF IInv, AttemptOwned, TryLabels, UnsettledLabels
<1>2. Ledger!Pending(att[p])
  BY <1>1 DEF IInv, StillPending, Ledger!Pending
<1>3. st = "SKIPPED" => ~Ledger!Placed(att[p])
  BY DEF IInv, NotYetPosted, Ledger!Placed
<1>4. Ledger!Refuse(att[p], st)
  BY <1>2, <1>3 DEF SetStatus, Ledger!Refuse
<1>q. QED BY <1>1, <1>4 DEF Ledger!LedgerNext

(* An attempt that is SUBMITTED has its order on the exchange.             *)
LEMMA SubmitSucceeds ==
  ASSUME IInv, NEW p \in Polls, MarkSubmitted(p)
  PROVE  Ledger!LedgerNext
<1> DEFINE i == att[p]
<1>1. PICK j \in DOMAIN orders : Submit(i, j) /\ book' = book /\ pc[p] = "submit"
  BY DEF MarkSubmitted
<1>2. /\ i \in DOMAIN attempts /\ attempts \in Seq(Attempt)
      /\ j \in Nat \ {0}
  BY <1>1 DEF IInv, TypeOK, AttemptOwned, TryLabels
<1>3. Ledger!Pending(i)
  BY <1>1, <1>2 DEF IInv, StillPending, UnsettledLabels, Ledger!Pending
<1>4. Ledger!Placed(i)
  BY <1>1 DEF IInv, PostedOrderKnown, Ledger!Placed
<1>5. attempts'[i].order = j
  BY <1>1, <1>2 DEF Submit
<1>6. Ledger!Succeed(i)
  BY <1>1, <1>2, <1>3, <1>4, <1>5 DEF Submit, Ledger!Succeed
<1>q. QED BY <1>2, <1>6 DEF Ledger!LedgerNext

(* Every step of the engine is one of the ledger, or none.                 *)
LEMMA EngineKeepsLedger ==
  ASSUME IInv, NEW p \in Polls, EngineStep(p)
  PROVE  Ledger!LedgerNext \/ UNCHANGED <<attempts, book>>
<1> USE DEF dbVars, UnsettledLabels
<1>1. CASE \/ ReadFollows(p) \/ NextUser(p) \/ CopiesDone(p) \/ CheckDuplicate(p)
           \/ GuardrailsAllow(p) \/ GetAddress(p) \/ RecordUnavailable(p)
           \/ StoreOrder(p) \/ RecordSubmitted(p) \/ ThrowInTry(p) \/ Catch(p)
  BY <1>1 DEF ReadFollows, NextUser, CopiesDone, CheckDuplicate, GuardrailsAllow,
     GetAddress, RecordUnavailable, StoreOrder, RecordSubmitted, ThrowInTry, Catch
<1>2. CASE SkipBreakerOpen(p) \/ CreateAttempt(p)
  <2>1. Ledger!Open
    BY <1>2, NewAttemptOpens DEF SkipBreakerOpen, CreateAttempt
  <2>q. QED BY <2>1 DEF Ledger!LedgerNext
<1>3. CASE PostAccepted(p) \/ PostReplyLost(p)
  BY <1>3, AcceptPlaces DEF PostAccepted, PostReplyLost
<1>4. CASE \/ MissingCredentials(p) \/ NoTradingAuthority(p)
           \/ SigningUnavailable(p) \/ PostRejected(p) \/ MarkFailed(p)
  BY <1>4, StatusRefuses DEF MissingCredentials, NoTradingAuthority,
     SigningUnavailable, PostRejected, MarkFailed
<1>5. CASE GuardrailsSkip(p)
  BY <1>5, StatusRefuses DEF GuardrailsSkip
<1>6. CASE MarkSubmitted(p)
  BY <1>6, SubmitSucceeds
<1>q. QED BY <1>1, <1>2, <1>3, <1>4, <1>5, <1>6 DEF EngineStep

(* Whatever overlaps, fails or crashes, the rows of copy_attempts and the  *)
(* orders on the exchange change as the ledger says: written ahead, one    *)
(* order each, settled once.                                               *)
THEOREM AttemptsLedgerImplemented == Spec => AttemptsKept
<1>1. Init => Ledger!LedgerInit
  BY DEF Init, Ledger!LedgerInit
<1>2. IInv /\ [Next]_vars => [Ledger!LedgerNext]_(Ledger!ledgerVars)
  <2> SUFFICES ASSUME IInv, [Next]_vars
               PROVE  Ledger!LedgerNext \/ UNCHANGED <<attempts, book>>
    BY DEF Ledger!ledgerVars
  <2> USE DEF dbVars, engineVars
  <2>1. ASSUME NEW p \in Polls, PollStep(p)
        PROVE  Ledger!LedgerNext \/ UNCHANGED <<attempts, book>>
    BY <2>1, EngineKeepsLedger DEF PollStep, FindEventPoll, StoreEventPoll
  <2>2. ASSUME NEW s \in Syncs, SyncStep(s) PROVE UNCHANGED <<attempts, book>>
    BY <2>2 DEF SyncStep, FindEventSync, StoreEventSync
  <2>3. ASSUME NEW k \in Tasks, LoopStep(k) \/ Abandon(k)
        PROVE  UNCHANGED <<attempts, book>>
    BY <2>3 DEF LoopStep, Start, FetchNothing, FetchTrades, Finish, Abandon
  <2>4. ASSUME \/ \E t \in Trades : LeaderTrades(t)
               \/ \E u \in Users : SetCopying(u) \/ SetFollow(u)
               \/ RefreshLeaderboard \/ Tick \/ Crash \/ UNCHANGED vars
        PROVE  UNCHANGED <<attempts, book>>
    BY <2>4 DEF LeaderTrades, SetCopying, SetFollow, RefreshLeaderboard, Tick, Crash, vars
  <2>5. ASSUME ApiOrders PROVE UNCHANGED <<attempts, book>>
    BY <2>5, ApiOrdersApart DEF IInv
  <2>q. QED BY <2>1, <2>2, <2>3, <2>4, <2>5 DEF Next
<1>q. QED BY <1>1, <1>2, InvariantHolds, PTL DEF Spec, AttemptsKept, Ledger!LedgerSpec

-----------------------------------------------------------------------------
(* The breaker: only its own methods write it.                             *)

(* A step leaves the breaker alone, asks it, reports to it, or restarts it.*)
LEMMA BreakerWrites ==
  ASSUME TypeOK, [Next]_vars
  PROVE  \/ breaker' \in {breaker, InitBreaker, AfterCanExecute(breaker, clock)}
         \/ breaker' \in {RecordSuccess(breaker), RecordFailure(breaker, clock)}
<1> USE DEF dbVars, engineVars
<1>1. ASSUME NEW p \in Polls, EngineStep(p)
      PROVE  \/ breaker' \in {breaker, AfterCanExecute(breaker, clock)}
             \/ breaker' \in {RecordSuccess(breaker), RecordFailure(breaker, clock)}
  BY <1>1 DEF EngineStep, ReadFollows, NextUser, CopiesDone, SkipBreakerOpen,
     CheckDuplicate, CreateAttempt, MissingCredentials, GuardrailsSkip,
     GuardrailsAllow, NoTradingAuthority, GetAddress, SigningUnavailable,
     RecordUnavailable, PostAccepted, PostRejected, PostReplyLost, StoreOrder,
     MarkSubmitted, RecordSubmitted, ThrowInTry, Catch, MarkFailed
<1>2. ASSUME NEW p \in Polls, FindEventPoll(p) \/ StoreEventPoll(p)
      PROVE  breaker' = breaker
  BY <1>2 DEF FindEventPoll, StoreEventPoll
<1>3. ASSUME NEW s \in Syncs, SyncStep(s) PROVE breaker' = breaker
  BY <1>3 DEF SyncStep, FindEventSync, StoreEventSync
<1>4. ASSUME NEW k \in Tasks, LoopStep(k) \/ Abandon(k) PROVE breaker' = breaker
  BY <1>4 DEF LoopStep, Start, FetchNothing, FetchTrades, Finish, Abandon
<1>5. ASSUME \/ \E t \in Trades : LeaderTrades(t)
             \/ \E u \in Users : SetCopying(u) \/ SetFollow(u)
             \/ RefreshLeaderboard \/ Tick \/ UNCHANGED vars
      PROVE  breaker' = breaker
  BY <1>5 DEF LeaderTrades, SetCopying, SetFollow, RefreshLeaderboard, Tick, vars
<1>6. CASE Crash BY <1>6 DEF Crash
<1>7. CASE ApiOrders BY <1>7, ApiOrdersApart
<1>q. QED BY <1>1, <1>2, <1>3, <1>4, <1>5, <1>6, <1>7 DEF Next, PollStep

(* A closed breaker has counted fewer failures in a row than its threshold *)
(* in whatever order overlapping copies report their outcomes.             *)
THEOREM ClosedStaysBelowThreshold == Spec => []ClosedBelowThreshold
<1>1. Init => ClosedBelowThreshold
  BY BreakerAssumption DEF Init, InitBreaker, ClosedBelowThreshold
<1>2. TypeOK /\ ClosedBelowThreshold /\ [Next]_vars => ClosedBelowThreshold'
  BY BreakerAssumption, BreakerWrites DEF TypeOK, ClosedBelowThreshold, Breaker,
     InitBreaker, AfterCanExecute, RecordSuccess, RecordFailure
<1>q. QED BY <1>1, <1>2, TypesHold, PTL DEF Spec

-----------------------------------------------------------------------------
(* One order per user and event, while activations do not overlap.         *)

SingleInv == IInv /\ OneLiveAttempt /\ CheckStillTrue

(* A step that adds no row and moves no SKIPPED row to another status      *)
(* keeps the pair of facts, unless it goes to create an attempt.           *)
LEMMA SingleQuiet ==
  ASSUME OneLiveAttempt, CheckStillTrue,
         DOMAIN attempts' = DOMAIN attempts,
         \A i \in DOMAIN attempts :
            /\ attempts'[i].user = attempts[i].user
            /\ attempts'[i].event = attempts[i].event
            /\ attempts[i].status = "SKIPPED" => attempts'[i].status = "SKIPPED",
         \A q \in Polls : pc'[q] # "attempt"
  PROVE  OneLiveAttempt' /\ CheckStillTrue'
BY DEF OneLiveAttempt, CheckStillTrue

(* The writes an owner makes to its pending attempt are of that kind.      *)
LEMMA OwnedKeeps ==
  ASSUME IInv, NEW p \in Polls, pc[p] \in UnsettledLabels,
         \/ \E st : SetStatus(att[p], st)
         \/ \E j : Submit(att[p], j)
  PROVE  /\ DOMAIN attempts' = DOMAIN attempts
         /\ \A i \in DOMAIN attempts :
              /\ attempts'[i].user = attempts[i].user
              /\ attempts'[i].event = attempts[i].event
              /\ attempts[i].status = "SKIPPED" => attempts'[i].status = "SKIPPED"
<1>1. /\ attempts \in Seq(Attempt)
      /\ \A i \in DOMAIN attempts : attempts[i] \in Attempt
      /\ attempts[att[p]].status = "PENDING"
  BY DEF IInv, TypeOK, StillPending
<1>2. CASE \E st : SetStatus(att[p], st)
  BY <1>1, <1>2 DEF SetStatus, Attempt
<1>3. CASE \E j : Submit(att[p], j)
  BY <1>1, <1>3 DEF Submit
<1>q. QED BY <1>2, <1>3

(* Each step of the engine keeps both facts when no other activation can   *)
(* come between the duplicate check and the row it guards.                 *)
LEMMA SingleEngine ==
  ASSUME SingleInv, NEW p \in Polls, Polls = {p}, EngineStep(p)
  PROVE  OneLiveAttempt' /\ CheckStillTrue'
<1> USE DEF UnsettledLabels, dbVars, Goto
<1>0. /\ pc \in [Tasks -> WorkerLabels \cup EngineLabels] /\ p \in Tasks
      /\ attempts \in Seq(Attempt)
      /\ OneLiveAttempt /\ CheckStillTrue
  BY DEF SingleInv, IInv, TypeOK, Tasks
<1>1. CASE \/ ReadFollows(p) \/ NextUser(p) \/ CopiesDone(p)
           \/ GuardrailsAllow(p) \/ GetAddress(p) \/ RecordUnavailable(p)
           \/ PostAccepted(p) \/ PostReplyLost(p) \/ StoreOrder(p)
           \/ RecordSubmitted(p) \/ ThrowInTry(p) \/ Catch(p)
  <2>1. attempts' = attempts /\ pc'[p] # "attempt"
    BY <1>0, <1>1 DEF ReadFollows, NextUser, CopiesDone, GuardrailsAllow,
       GetAddress, RecordUnavailable, PostAccepted, PostReplyLost, StoreOrder,
       RecordSubmitted, ThrowInTry, Catch
  <2>q. QED BY <1>0, <2>1, SingleQuiet
<1>2. CASE CheckDuplicate(p)
  <2>1. UNCHANGED <<attempts, usr, ev>> BY <1>2 DEF CheckDuplicate
  <2>2. pc'[p] = "attempt" => AttemptsOf(usr[p], ev[p]) = {}
    BY <1>0, <1>2 DEF CheckDuplicate
  <2>q. QED BY <1>0, <2>1, <2>2 DEF OneLiveAttempt, CheckStillTrue, AttemptsOf
<1>3. ASSUME NEW st \in {"SKIPPED", "PENDING"}, NewAttempt(usr[p], ev[p], st),
             pc'[p] # "attempt",
             st = "PENDING" => AttemptsOf(usr[p], ev[p]) = {},
             [user |-> usr[p], event |-> ev[p], status |-> st, order |-> 0]
                \in Attempt
      PROVE  OneLiveAttempt' /\ CheckStillTrue'
  <2> DEFINE n == Len(attempts) + 1
             new == [user |-> usr[p], event |-> ev[p], status |-> st, order |-> 0]
  <2>1. attempts' = Append(attempts, new) BY <1>3 DEF NewAttempt
  <2>2. new.user = usr[p] /\ new.event = ev[p] /\ new.status = st OBVIOUS
  <2>3. new \in Attempt BY <1>3
  <2> HIDE DEF new
  <2>4. /\ n \notin DOMAIN attempts /\ DOMAIN attempts' = DOMAIN attempts \cup {n}
        /\ \A i \in DOMAIN attempts : attempts'[i] = attempts[i]
        /\ attempts'[n] = new
    BY <1>0, <2>1, <2>3, AppendFacts
  <2> HIDE DEF n
  <2>5. OneLiveAttempt'
    BY <1>0, <1>3, <2>2, <2>4 DEF OneLiveAttempt, AttemptsOf
  <2>6. CheckStillTrue' BY <1>3 DEF CheckStillTrue
  <2>q. QED BY <2>5, <2>6
<1>4. \A st \in {"SKIPPED", "PENDING"} :
        [user |-> usr[p], event |-> ev[p], status |-> st, order |-> 0] \in Attempt
  BY DEF SingleInv, IInv, TypeOK, Attempt
<1>5. CASE SkipBreakerOpen(p)
  BY <1>0, <1>3, <1>4, <1>5 DEF SkipBreakerOpen
<1>6. CASE CreateAttempt(p)
  BY <1>0, <1>3, <1>4, <1>6 DEF CreateAttempt, CheckStillTrue
<1>7. CASE \/ MissingCredentials(p) \/ GuardrailsSkip(p) \/ NoTradingAuthority(p)
           \/ SigningUnavailable(p) \/ PostRejected(p) \/ MarkFailed(p)
           \/ MarkSubmitted(p)
  <2>1. pc[p] \in UnsettledLabels /\ pc'[p] # "attempt"
    BY <1>0, <1>7 DEF MissingCredentials, GuardrailsSkip, NoTradingAuthority,
       SigningUnavailable, PostRejected, MarkFailed, MarkSubmitted
  <2>2. \/ \E st : SetStatus(att[p], st)
        \/ \E j : Submit(att[p], j)
    BY <1>7 DEF MissingCredentials, GuardrailsSkip, NoTradingAuthority,
       SigningUnavailable, PostRejected, MarkFailed, MarkSubmitted
  <2>q. QED BY <1>0, <2>1, <2>2, OwnedKeeps, SingleQuiet DEF SingleInv
<1>q. QED BY <1>1, <1>2, <1>5, <1>6, <1>7 DEF EngineStep

(* The steps outside the engine add no attempt and go to create none.      *)
LEMMA SingleNext ==
  ASSUME NEW p, Polls = {p}, SingleInv, [Next]_vars
  PROVE  OneLiveAttempt' /\ CheckStillTrue'
<1> USE DEF dbVars, engineVars, taskVars, Goto
<1>0. /\ pc \in [Tasks -> WorkerLabels \cup EngineLabels] /\ p \in Tasks
      /\ OneLiveAttempt /\ CheckStillTrue
  BY DEF SingleInv, IInv, TypeOK, Tasks
<1>1. CASE EngineStep(p)
  BY <1>1, SingleEngine
<1>2. ASSUME attempts' = attempts, UNCHANGED <<usr, ev>>, pc'[p] = pc[p]
      PROVE  OneLiveAttempt' /\ CheckStillTrue'
  BY <1>0, <1>2 DEF OneLiveAttempt, CheckStillTrue, AttemptsOf
<1>3. ASSUME attempts' = attempts, pc'[p] # "attempt"
      PROVE  OneLiveAttempt' /\ CheckStillTrue'
  BY <1>0, <1>3, SingleQuiet
<1>4. CASE FindEventPoll(p) \/ StoreEventPoll(p)
  <2>1. attempts' = attempts /\ pc'[p] # "attempt"
    BY <1>0, <1>4 DEF FindEventPoll, StoreEventPoll
  <2>q. QED BY <1>3, <2>1
<1>5. ASSUME NEW s \in Syncs, SyncStep(s)
      PROVE  OneLiveAttempt' /\ CheckStillTrue'
  <2>1. attempts' = attempts /\ UNCHANGED <<usr, ev>>
    BY <1>5 DEF SyncStep, FindEventSync, StoreEventSync
  <2>2. pc'[p] = pc[p]
    BY <1>0, <1>5, EngineAssumption DEF SyncStep, FindEventSync, StoreEventSync
  <2>q. QED BY <1>2, <2>1, <2>2
<1>6. ASSUME NEW k \in Tasks, LoopStep(k)
      PROVE  OneLiveAttempt' /\ CheckStillTrue'
  <2>1. attempts' = attempts /\ UNCHANGED <<usr, ev>>
    BY <1>6 DEF LoopStep, Start, FetchNothing, FetchTrades, Finish
  <2>2. pc'[p] = pc[p] \/ pc'[p] # "attempt"
    BY <1>0, <1>6 DEF LoopStep, Start, FetchNothing, FetchTrades, Finish
  <2>q. QED BY <1>2, <1>3, <2>1, <2>2
<1>7. ASSUME NEW k \in Tasks, Abandon(k)
      PROVE  OneLiveAttempt' /\ CheckStillTrue'
  <2>1. attempts' = attempts BY <1>7 DEF Abandon
  <2>2. CASE k = p
    <3>1. pc'[p] # "attempt" BY <1>0, <1>7, <2>2 DEF Abandon
    <3>q. QED BY <1>3, <2>1, <3>1
  <2>3. CASE k # p
    <3>1. pc'[p] = pc[p] /\ usr'[p] = usr[p] /\ ev'[p] = ev[p]
      BY <1>0, <1>7, <2>3 DEF Abandon, DropLocals, DropCopyLocals
    <3>q. QED BY <1>0, <2>1, <3>1 DEF OneLiveAttempt, CheckStillTrue, AttemptsOf
  <2>q. QED BY <2>2, <2>3
<1>8. CASE Crash
  <2>1. attempts' = attempts /\ pc'[p] # "attempt" BY <1>0, <1>8 DEF Crash
  <2>q. QED BY <1>3, <2>1
<1>9. CASE \/ \E t \in Trades : LeaderTrades(t)
           \/ \E u \in Users : SetCopying(u) \/ SetFollow(u)
           \/ RefreshLeaderboard \/ Tick \/ UNCHANGED vars
  <2>1. attempts' = attempts /\ UNCHANGED <<usr, ev, pc>>
    BY <1>9 DEF LeaderTrades, SetCopying, SetFollow, RefreshLeaderboard, Tick, vars
  <2>q. QED BY <1>2, <2>1
<1>10. CASE ApiOrders
  <2>1. attempts' = attempts /\ UNCHANGED <<usr, ev, pc>>
    BY <1>10, ApiOrdersApart DEF SingleInv, IInv
  <2>q. QED BY <1>2, <2>1
<1>q. QED
  BY <1>1, <1>4, <1>5, <1>6, <1>7, <1>8, <1>9, <1>10 DEF Next, PollStep

(* Two orders of one user for one event would need two attempts that are   *)
(* not SKIPPED.                                                            *)
LEMMA SingleImplies == SingleInv => OneOrderPerEvent
BY DEF SingleInv, IInv, OrdersAccountedFor, OneLiveAttempt, OneOrderPerEvent

(* While one activation of poll() runs at a time, a user gets at most one  *)
(* order for a leader event: through crashes, lost replies, abandoned      *)
(* polls, any number of sync loops and a breaker that reopens.             *)
THEOREM SinglePollOneOrder ==
  ASSUME NEW p, Polls = {p}
  PROVE  Spec => []OneOrderPerEvent
<1>1. Init => OneLiveAttempt /\ CheckStillTrue
  BY DEF Init, OneLiveAttempt, CheckStillTrue, Tasks
<1>2. SingleInv /\ IInv' /\ [Next]_vars => SingleInv'
  BY SingleNext DEF SingleInv
<1>3. IInv /\ OneLiveAttempt /\ CheckStillTrue => SingleInv
  BY DEF SingleInv
<1>q. QED BY <1>1, <1>2, <1>3, SingleImplies, InvariantHolds, PTL DEF Spec

-----------------------------------------------------------------------------
(* An open breaker and the position cap, while activations do not overlap: *)
(* both are asked several steps before the order is posted and recorded.   *)

AdmittedLabels == {"dup", "attempt", "guard", "address", "post"}
AllowedLabels  == {"address", "post", "store"}

(* The rows are finitely many, and so are the markets they name.           *)
LEMMA MarketsFinite ==
  ASSUME TypeOK, NEW u
  PROVE  /\ IsFiniteSet(OpenConditions(u)) /\ IsFiniteSet(CopyMarkets(u))
         /\ IsFiniteSet(BuyMarkets(u))
<1>1. IsFiniteSet(DOMAIN orders)
  <2>1. DOMAIN orders = 1..Len(orders) /\ Len(orders) \in Int
    BY DEF TypeOK
  <2>q. QED BY <2>1, FS_Interval
<1>2. ASSUME NEW rows \in SUBSET DOMAIN orders
      PROVE  IsFiniteSet({MarketOf(orders[j]) : j \in rows})
  <2> DEFINE markets == {MarketOf(orders[j]) : j \in rows}
             market == [j \in rows |-> MarketOf(orders[j])]
  <2>1. IsFiniteSet(rows) BY <1>1, <1>2, FS_Subset
  <2>2. market \in Surjection(rows, markets) BY DEF Surjection
  <2> HIDE DEF market, markets
  <2>3. IsFiniteSet(markets) BY <2>1, <2>2, FS_Surjection
  <2>q. QED BY <2>3 DEF markets
<1> DEFINE buys == {k \in OpenCopies(u) : SideOf[orders[k].trade] = "BUY"}
<1>3. /\ OpenRows(u) \in SUBSET DOMAIN orders /\ OpenCopies(u) \in SUBSET DOMAIN orders
      /\ buys \in SUBSET DOMAIN orders
  BY DEF OpenRows, OpenCopies
<1>4. IsFiniteSet(OpenConditions(u)) BY <1>2, <1>3 DEF OpenConditions
<1>5. IsFiniteSet(CopyMarkets(u)) BY <1>2, <1>3 DEF CopyMarkets
<1>6. IsFiniteSet(BuyMarkets(u)) BY <1>2, <1>3 DEF BuyMarkets
<1>q. QED BY <1>4, <1>5, <1>6

(* Orders outside the engine add no market to those of the copies.         *)
LEMMA ApiOrdersAddNone ==
  ASSUME TypeOK, ApiOrders, NEW u
  PROVE  CopyMarkets(u)' \subseteq CopyMarkets(u) /\ BuyMarkets(u)' \subseteq BuyMarkets(u)
<1>1. ASSUME NEW j \in OpenCopies(u)'
      PROVE  /\ j \in OpenCopies(u) /\ MarketOf(orders[j])' = MarketOf(orders[j])
             /\ orders'[j].trade = orders[j].trade
  BY <1>1, ApiOrdersApart DEF OpenCopies, OpenRows, ByHand, MarketOf
<1>q. QED BY <1>1 DEF CopyMarkets, BuyMarkets

(* The markets of the copies are among those the guardrails count.         *)
LEMMA RoomForCopies ==
  ASSUME TypeOK, NEW u, NEW t, ~CapReached(u, t)
  PROVE  ~CopiesReachCap(u, t)
<1>1. CopyMarkets(u) \in SUBSET OpenConditions(u)
  BY DEF CopyMarkets, OpenConditions, OpenCopies
<1>2. /\ Cardinality(OpenConditions(u)) \in Nat /\ Cardinality(CopyMarkets(u)) \in Nat
      /\ Cardinality(CopyMarkets(u)) <= Cardinality(OpenConditions(u))
  BY <1>1, MarketsFinite, FS_Subset, FS_CardinalityType
<1>q. QED BY <1>2, EngineAssumption DEF CapReached, CopiesReachCap

(* A step that keeps what the two answers are about keeps the answers.     *)
LEMMA AnswersKept ==
  ASSUME TypeOK, BreakerStillAdmits, CapStillFree, NEW p, Polls = {p},
         pc'[p] \in AdmittedLabels => pc[p] \in AdmittedLabels /\ breaker' = breaker,
         pc'[p] \in AllowedLabels =>
            /\ pc[p] \in AllowedLabels
            /\ usr' = usr /\ events'[ev'[p]] = events[ev[p]]
            /\ CopyMarkets(usr[p])' \subseteq CopyMarkets(usr[p])
  PROVE  BreakerStillAdmits' /\ CapStillFree'
<1>1. BreakerStillAdmits' BY DEF BreakerStillAdmits, AdmittedLabels
<1>2. ASSUME pc'[p] \in AllowedLabels
      PROVE  ~CopiesReachCap(usr[p], events[ev[p]])'
  <2> DEFINE u == usr[p]  t == events[ev[p]]
  <2>1. ~CopiesReachCap(u, t)
    BY <1>2 DEF CapStillFree, AllowedLabels
  <2>2. CopyMarkets(u)' \subseteq CopyMarkets(u) /\ u' = u /\ t' = t
    BY <1>2
  <2>3. Cardinality(CopyMarkets(u)') <= Cardinality(CopyMarkets(u))
        /\ Cardinality(CopyMarkets(u)') \in Nat /\ Cardinality(CopyMarkets(u)) \in Nat
    BY <2>2, MarketsFinite, FS_Subset, FS_CardinalityType
  <2>q. QED BY <2>1, <2>2, <2>3, EngineAssumption DEF CopiesReachCap
<1>3. CapStillFree' BY <1>2 DEF CapStillFree, AllowedLabels
<1>q. QED BY <1>1, <1>3

(* Each step of the engine keeps both answers or leaves what they are for. *)
LEMMA AnswersEngine ==
  ASSUME IInv, BreakerStillAdmits, CapStillFree, NEW p, Polls = {p}, EngineStep(p)
  PROVE  BreakerStillAdmits' /\ CapStillFree'
<1> USE DEF dbVars, Goto
<1>0. pc \in [Tasks -> WorkerLabels \cup EngineLabels] /\ p \in Tasks
  BY DEF IInv, TypeOK, Tasks
<1>1. CASE NextUser(p)
  <2>1. pc'[p] = "dup" => breaker'.state # "OPEN"
    BY <1>0, <1>1 DEF NextUser, CanExecute, AfterCanExecute
  <2>2. pc'[p] \in {"dup", "skip"} BY <1>0, <1>1 DEF NextUser
  <2>q. QED BY <2>1, <2>2 DEF BreakerStillAdmits, CapStillFree
<1>2. CASE GuardrailsAllow(p)
  <2>1. /\ pc[p] = "guard" /\ pc'[p] = "address" /\ ~CapReached(usr[p], events[ev[p]])
        /\ UNCHANGED <<breaker, events, orders, usr, ev>>
    BY <1>0, <1>2 DEF GuardrailsAllow
  <2>2. BreakerStillAdmits' BY <2>1 DEF BreakerStillAdmits
  <2>3. ~CopiesReachCap(usr[p], events[ev[p]])
    BY <2>1, RoomForCopies DEF IInv
  <2>4. CopyMarkets(usr[p])' = CopyMarkets(usr[p])
    BY <2>1 DEF CopyMarkets, OpenCopies, OpenRows, ByHand, MarketOf
  <2>5. CapStillFree' BY <2>1, <2>3, <2>4 DEF CapStillFree, CopiesReachCap
  <2>q. QED BY <2>2, <2>5
<1>3. CASE CheckDuplicate(p) \/ CreateAttempt(p) \/ GetAddress(p) \/ PostAccepted(p)
  <2>1. /\ UNCHANGED <<breaker, events, orders, usr, ev>>
        /\ pc'[p] \in AdmittedLabels => pc[p] \in AdmittedLabels
        /\ pc'[p] \in AllowedLabels => pc[p] \in AllowedLabels
    BY <1>0, <1>3 DEF CheckDuplicate, CreateAttempt, GetAddress, PostAccepted,
       AdmittedLabels, AllowedLabels
  <2>2. CopyMarkets(usr[p])' = CopyMarkets(usr[p])
    BY <2>1 DEF CopyMarkets, OpenCopies, OpenRows, ByHand, MarketOf
  <2>q. QED BY <2>1, <2>2, AnswersKept DEF IInv
<1>4. CASE \/ ReadFollows(p) \/ CopiesDone(p) \/ SkipBreakerOpen(p)
           \/ MissingCredentials(p) \/ GuardrailsSkip(p) \/ NoTradingAuthority(p)
           \/ SigningUnavailable(p) \/ RecordUnavailable(p)
           \/ PostRejected(p) \/ PostReplyLost(p) \/ StoreOrder(p)
           \/ MarkSubmitted(p) \/ RecordSubmitted(p)
           \/ ThrowInTry(p) \/ Catch(p) \/ MarkFailed(p)
  <2>1. pc'[p] \notin AdmittedLabels \cup AllowedLabels
    BY <1>0, <1>4 DEF ReadFollows, CopiesDone, SkipBreakerOpen, MissingCredentials,
       GuardrailsSkip, NoTradingAuthority, SigningUnavailable, RecordUnavailable,
       PostRejected, PostReplyLost, StoreOrder, MarkSubmitted, RecordSubmitted,
       ThrowInTry, Catch, MarkFailed, AdmittedLabels, AllowedLabels
  <2>q. QED BY <2>1, AnswersKept DEF IInv
<1>q. QED BY <1>1, <1>2, <1>3, <1>4 DEF EngineStep

(* Nothing outside the engine reports to the breaker, adds a copy, or      *)
(* changes a recorded event, but a crash, which ends the activation.       *)
LEMMA AnswersNext ==
  ASSUME IInv, BreakerStillAdmits, CapStillFree, NEW p, Polls = {p}, [Next]_vars
  PROVE  BreakerStillAdmits' /\ CapStillFree'
<1> USE DEF dbVars, engineVars, taskVars, Goto
<1>0. /\ pc \in [Tasks -> WorkerLabels \cup EngineLabels] /\ p \in Tasks
      /\ events \in Seq(Trades) /\ trade \in [Tasks -> Trades]
      /\ AllowedLabels \subseteq EngineLabels
      /\ pc[p] \in AllowedLabels => ev[p] \in DOMAIN events
  BY DEF IInv, TypeOK, Tasks, EventKnown, AllowedLabels, EngineLabels, TryLabels
<1>1. CASE EngineStep(p)
  BY <1>1, AnswersEngine
<1>2. ASSUME pc'[p] \notin AdmittedLabels \cup AllowedLabels
      PROVE  BreakerStillAdmits' /\ CapStillFree'
  BY <1>2, AnswersKept DEF IInv
<1>b. ASSUME UNCHANGED <<breaker, usr>>, pc'[p] = pc[p], ev'[p] = ev[p],
             CopyMarkets(usr[p])' \subseteq CopyMarkets(usr[p]),
             \A i \in DOMAIN events : events'[i] = events[i]
      PROVE  BreakerStillAdmits' /\ CapStillFree'
  BY <1>0, <1>b, AnswersKept DEF IInv
<1>3. ASSUME UNCHANGED <<breaker, orders, usr>>, pc'[p] = pc[p], ev'[p] = ev[p],
             \A i \in DOMAIN events : events'[i] = events[i]
      PROVE  BreakerStillAdmits' /\ CapStillFree'
  <2>1. CopyMarkets(usr[p])' = CopyMarkets(usr[p])
    BY <1>3 DEF CopyMarkets, OpenCopies, OpenRows, ByHand, MarketOf
  <2>q. QED BY <1>3, <1>b, <2>1
<1>4. CASE FindEventPoll(p) \/ StoreEventPoll(p)
  BY <1>0, <1>2, <1>4 DEF FindEventPoll, StoreEventPoll, AdmittedLabels, AllowedLabels
<1>5. ASSUME NEW s \in Syncs, SyncStep(s)
      PROVE  BreakerStillAdmits' /\ CapStillFree'
  <2>1. UNCHANGED <<breaker, orders, usr, ev>>
    BY <1>5 DEF SyncStep, FindEventSync, StoreEventSync
  <2>2. pc'[p] = pc[p]
    BY <1>0, <1>5, EngineAssumption DEF SyncStep, FindEventSync, StoreEventSync
  <2>3. CASE FindEventSync(s) BY <1>3, <2>1, <2>2, <2>3 DEF FindEventSync
  <2>4. CASE StoreEventSync(s)
    <3>1. events' = Append(events, trade[s]) /\ trade[s] \in Trades
      BY <1>0, <2>4 DEF StoreEventSync, StoreEvent, Tasks
    <3>2. \A i \in DOMAIN events : events'[i] = events[i]
      BY <1>0, <3>1, AppendFacts
    <3>q. QED BY <1>3, <2>1, <2>2, <3>2
  <2>q. QED BY <1>5, <2>3, <2>4 DEF SyncStep
<1>6. ASSUME NEW k \in Tasks, LoopStep(k)
      PROVE  BreakerStillAdmits' /\ CapStillFree'
  <2>1. UNCHANGED <<breaker, orders, events, usr, ev>>
    BY <1>6 DEF LoopStep, Start, FetchNothing, FetchTrades, Finish
  <2>2. pc'[p] = pc[p] \/ pc'[p] \notin AdmittedLabels \cup AllowedLabels
    BY <1>0, <1>6 DEF LoopStep, Start, FetchNothing, FetchTrades, Finish,
       AdmittedLabels, AllowedLabels
  <2>q. QED BY <1>2, <1>3, <2>1, <2>2
<1>7. ASSUME NEW k \in Tasks, Abandon(k)
      PROVE  BreakerStillAdmits' /\ CapStillFree'
  <2>1. CASE k = p
    BY <1>0, <1>2, <1>7, <2>1 DEF Abandon, AdmittedLabels, AllowedLabels
  <2>2. CASE k # p
    <3>1. /\ pc'[p] = pc[p] /\ usr' = usr /\ ev'[p] = ev[p]
          /\ UNCHANGED <<breaker, orders, events>>
      BY <1>0, <1>7, <2>2 DEF Abandon, DropLocals, DropCopyLocals, IInv, TypeOK
    <3>q. QED BY <1>3, <3>1
  <2>q. QED BY <2>1, <2>2
<1>8. CASE Crash
  BY <1>0, <1>2, <1>8 DEF Crash, AdmittedLabels, AllowedLabels
<1>9. CASE \/ \E t \in Trades : LeaderTrades(t)
           \/ \E u \in Users : SetCopying(u) \/ SetFollow(u)
           \/ RefreshLeaderboard \/ Tick \/ UNCHANGED vars
  <2>1. UNCHANGED <<breaker, orders, events, usr, ev, pc>>
    BY <1>9 DEF LeaderTrades, SetCopying, SetFollow, RefreshLeaderboard, Tick, vars
  <2>q. QED BY <1>3, <2>1
<1>10. CASE ApiOrders
  <2>1. UNCHANGED <<breaker, events, usr, ev, pc>>
    BY <1>10, ApiOrdersApart DEF IInv
  <2>2. \A u : CopyMarkets(u)' \subseteq CopyMarkets(u)
    BY <1>10, ApiOrdersAddNone DEF IInv
  <2>3. CopyMarkets(usr[p])' \subseteq CopyMarkets(usr[p])
    BY <2>1, <2>2 DEF CopyMarkets, OpenCopies, OpenRows
  <2>q. QED BY <1>b, <2>1, <2>3
<1>q. QED
  BY <1>1, <1>4, <1>5, <1>6, <1>7, <1>8, <1>9, <1>10 DEF Next, PollStep

(* Only an activation that was admitted reaches the exchange, and only one *)
(* whose order was accepted adds a copy to orders, for its user and trade. *)
LEMMA WhoWrites ==
  ASSUME IInv, NEW p, Polls = {p}, Next
  PROVE  /\ book' = book \/ pc[p] = "post"
         /\ orders' = orders \/ StoreOrder(p) \/ ApiOrders
<1> USE DEF dbVars, engineVars
<1>1. CASE EngineStep(p)
  BY <1>1 DEF EngineStep, ReadFollows, NextUser, CopiesDone, SkipBreakerOpen,
     CheckDuplicate, CreateAttempt, MissingCredentials, GuardrailsSkip,
     GuardrailsAllow, NoTradingAuthority, GetAddress, SigningUnavailable,
     RecordUnavailable, PostAccepted, PostRejected, PostReplyLost,
     MarkSubmitted, RecordSubmitted, ThrowInTry, Catch, MarkFailed, StoreOrder
<1>2. CASE FindEventPoll(p) \/ StoreEventPoll(p)
  BY <1>2 DEF FindEventPoll, StoreEventPoll
<1>3. CASE \E s \in Syncs : SyncStep(s)
  BY <1>3 DEF SyncStep, FindEventSync, StoreEventSync
<1>4. CASE \E k \in Tasks : LoopStep(k) \/ Abandon(k)
  BY <1>4 DEF LoopStep, Start, FetchNothing, FetchTrades, Finish, Abandon
<1>5. CASE \/ \E t \in Trades : LeaderTrades(t)
           \/ \E u \in Users : SetCopying(u) \/ SetFollow(u)
           \/ RefreshLeaderboard \/ Tick \/ Crash
  BY <1>5 DEF LeaderTrades, SetCopying, SetFollow, RefreshLeaderboard, Tick, Crash
<1>6. CASE ApiOrders
  BY <1>6, ApiOrdersApart DEF IInv
<1>q. QED BY <1>1, <1>2, <1>3, <1>4, <1>5, <1>6 DEF Next, PollStep

(* While one activation runs at a time, an open breaker that has not       *)
(* recovered lets no order through, though it is asked five awaits before  *)
(* the order is posted (canExecute in processCopyForUser).                 *)
THEOREM SinglePollPaused ==
  ASSUME NEW p, Polls = {p}
  PROVE  Spec => OpenMeansPaused
<1>1. Init => BreakerStillAdmits /\ CapStillFree
  BY DEF Init, BreakerStillAdmits, CapStillFree, Tasks
<1>2. IInv /\ BreakerStillAdmits /\ CapStillFree /\ [Next]_vars
        => BreakerStillAdmits' /\ CapStillFree'
  BY AnswersNext
<1>3. IInv /\ BreakerStillAdmits /\ [Next]_vars =>
        [breaker.state = "OPEN" /\ ~Recovered(breaker, clock) => book' = book]_vars
  BY WhoWrites DEF BreakerStillAdmits, AdmittedLabels
<1>q. QED BY <1>1, <1>2, <1>3, InvariantHolds, PTL DEF Spec, OpenMeansPaused

(* While one activation runs at a time, a BUY is copied only for a user    *)
(* whose open copies still cover fewer markets than the profile allows,    *)
(* though they were counted before the order was posted and the user       *)
(* placed and cancelled other orders since.                                *)
THEOREM SinglePollPositionCap ==
  ASSUME NEW p, Polls = {p}
  PROVE  Spec => PositionCap
<1>1. Init => BreakerStillAdmits /\ CapStillFree
  BY DEF Init, BreakerStillAdmits, CapStillFree, Tasks
<1>2. IInv /\ BreakerStillAdmits /\ CapStillFree /\ [Next]_vars
        => BreakerStillAdmits' /\ CapStillFree'
  BY AnswersNext
<1>3. IInv /\ CapStillFree /\ [Next]_vars =>
        [\A j \in DOMAIN orders' \ DOMAIN orders :
            orders'[j].poly # 0 => ~CopiesReachCap(orders'[j].user, orders'[j].trade)]_vars
  <2> SUFFICES ASSUME IInv, CapStillFree, Next,
                      NEW j \in DOMAIN orders' \ DOMAIN orders, orders'[j].poly # 0
               PROVE  ~CopiesReachCap(orders'[j].user, orders'[j].trade)
    OBVIOUS
  <2>1. StoreOrder(p) BY WhoWrites, ApiOrdersApart DEF IInv
  <2>2. ~CopiesReachCap(usr[p], events[ev[p]])
    BY <2>1 DEF StoreOrder, CapStillFree
  <2>3. /\ orders \in Seq(Order) /\ usr[p] \in Users /\ poly[p] \in Nat
        /\ events \in Seq(Trades) /\ ev[p] \in DOMAIN events
    BY <2>1 DEF StoreOrder, IInv, TypeOK, EventKnown, EngineLabels, TryLabels
  <2> DEFINE new == [user |-> usr[p], trade |-> events[ev[p]],
                     poly |-> poly[p], status |-> "OPEN"]
  <2>4. new \in Order BY <2>3 DEF Order
  <2>5. orders' = Append(orders, new) BY <2>1 DEF StoreOrder
  <2>6. new.user = usr[p] /\ new.trade = events[ev[p]] OBVIOUS
  <2> HIDE DEF new
  <2>7. j = Len(orders) + 1 /\ orders'[j] = new
    BY <2>3, <2>4, <2>5, AppendFacts
  <2>q. QED BY <2>2, <2>6, <2>7
<1>q. QED BY <1>1, <1>2, <1>3, InvariantHolds, PTL DEF Spec, PositionCap
-----------------------------------------------------------------------------
(* How much overlap can do, whatever the number of activations: a limit    *)
(* that is checked long before it is written is passed at most once by     *)
(* each activation.                                                        *)

(* The rows of a pair of user and event that may still lead to an order,   *)
(* and the activations about to write one; the activations whose BUY has   *)
(* passed the position cap and is not recorded.                            *)
Live(u, e)     == {i \in AttemptsOf(u, e) : attempts[i].status # "SKIPPED"}
Creating(u, e) == {p \in Polls : pc[p] = "attempt" /\ usr[p] = u /\ ev[p] = e}
Buying(u)      == {p \in Polls : /\ pc[p] \in AllowedLabels /\ usr[p] = u
                                 /\ SideOf[events[ev[p]]] = "BUY"}

Races ==
    \A u \in Users, e \in Nat :
        Cardinality(Live(u, e)) + Cardinality(Creating(u, e)) <= Cardinality(Polls)

Overshoot ==
    \A u \in Users :
        Cardinality(BuyMarkets(u)) + Cardinality(Buying(u))
            <= (MaxOpenPositions - 1) + Cardinality(Polls)

(* Those who have passed a check and those who have written what it guards *)
(* are no more than the limit and the activations together, if a check     *)
(* passes only below the limit and who writes has passed one.              *)
LEMMA OneForAnother ==
  ASSUME IsFiniteSet(Polls),
         NEW A, NEW A2, IsFiniteSet(A),
         NEW B \in SUBSET Polls, NEW B2 \in SUBSET Polls, NEW n \in Int,
         Cardinality(A) + Cardinality(B) <= n + Cardinality(Polls),
         \/ A2 \subseteq A /\ B2 \subseteq B
         \/ A2 \subseteq A /\ Cardinality(A) <= n
         \/ \E x, p : A2 \subseteq A \cup {x} /\ p \in B /\ B2 \subseteq B \ {p}
  PROVE  Cardinality(A2) + Cardinality(B2) <= n + Cardinality(Polls)
<1>1. /\ IsFiniteSet(B) /\ IsFiniteSet(B2) /\ Cardinality(B2) <= Cardinality(Polls)
      /\ Cardinality(Polls) \in Nat /\ Cardinality(B) \in Nat
      /\ Cardinality(B2) \in Nat /\ Cardinality(A) \in Nat
  BY FS_Subset, FS_CardinalityType
<1>2. CASE A2 \subseteq A /\ B2 \subseteq B
  <2>1. Cardinality(A2) <= Cardinality(A) /\ Cardinality(B2) <= Cardinality(B)
        /\ Cardinality(A2) \in Nat
    BY <1>1, <1>2, FS_Subset, FS_CardinalityType
  <2>q. QED BY <1>1, <2>1
<1>3. CASE A2 \subseteq A /\ Cardinality(A) <= n
  <2>1. Cardinality(A2) <= Cardinality(A) /\ Cardinality(A2) \in Nat
    BY <1>3, FS_Subset, FS_CardinalityType
  <2>q. QED BY <1>1, <1>3, <2>1
<1>4. ASSUME NEW x, NEW p \in B, A2 \subseteq A \cup {x}, B2 \subseteq B \ {p}
      PROVE  Cardinality(A2) + Cardinality(B2) <= n + Cardinality(Polls)
  <2>1. /\ IsFiniteSet(A \cup {x}) /\ Cardinality(A \cup {x}) <= Cardinality(A) + 1
        /\ Cardinality(A \cup {x}) \in Nat
    <3>1. /\ IsFiniteSet(A \cup {x})
          /\ Cardinality(A \cup {x}) =
               IF x \in A THEN Cardinality(A) ELSE Cardinality(A) + 1
      BY FS_AddElement
    <3>q. QED BY <1>1, <3>1
  <2>2. Cardinality(A2) <= Cardinality(A \cup {x}) /\ Cardinality(A2) \in Nat
    BY <1>4, <2>1, FS_Subset, FS_CardinalityType
  <2>3. IsFiniteSet(B \ {p}) /\ Cardinality(B \ {p}) = Cardinality(B) - 1
    BY <1>1, FS_RemoveElement
  <2>4. Cardinality(B2) <= Cardinality(B \ {p})
    BY <1>4, <2>3, FS_Subset
  <2>q. QED BY <1>1, <2>1, <2>2, <2>3, <2>4
<1>q. QED BY <1>2, <1>3, <1>4

(* The rows of the tables are finitely many.                               *)
LEMMA RowsFinite ==
  ASSUME TypeOK, NEW u, NEW e
  PROVE  /\ IsFiniteSet(Live(u, e)) /\ IsFiniteSet(OpenConditions(u))
         /\ IsFiniteSet(BuyMarkets(u))
<1>1. IsFiniteSet(DOMAIN attempts)
  <2>1. DOMAIN attempts = 1..Len(attempts) /\ Len(attempts) \in Int
    BY DEF TypeOK
  <2>q. QED BY <2>1, FS_Interval
<1>2. Live(u, e) \in SUBSET DOMAIN attempts BY DEF Live, AttemptsOf
<1>3. IsFiniteSet(Live(u, e)) BY <1>1, <1>2, FS_Subset
<1>q. QED BY <1>3, MarketsFinite

(* Where an activation is outside the copies of an event.                  *)
OutsideLabels == WorkerLabels \cup {"follows"}

(* Every step is one of the engine, or leaves copies and their rows alone. *)
LEMMA EngineOrOutside ==
  ASSUME IInv, [Next]_vars
  PROVE  \/ \E p \in Polls : EngineStep(p)
         \/ /\ attempts' = attempts /\ (orders' = orders \/ ApiOrders)
            /\ \A i \in DOMAIN events : events'[i] = events[i]
            /\ \A q \in Polls :
                 \/ pc'[q] \in OutsideLabels
                 \/ pc'[q] = pc[q] /\ usr'[q] = usr[q] /\ ev'[q] = ev[q]
<1> USE DEF dbVars, engineVars, taskVars, Goto, OutsideLabels, WorkerLabels
<1>0. /\ pc \in [Tasks -> WorkerLabels \cup EngineLabels] /\ Polls \subseteq Tasks
      /\ Syncs \subseteq Tasks /\ Polls \cap Syncs = {}
      /\ events \in Seq(Trades) /\ trade \in [Tasks -> Trades]
      /\ ev \in [Polls -> Nat] /\ usr \in [Polls -> Users]
  BY EngineAssumption DEF IInv, TypeOK, Tasks
<1> DEFINE Apart(q) == \/ pc'[q] \in OutsideLabels
                       \/ pc'[q] = pc[q] /\ usr'[q] = usr[q] /\ ev'[q] = ev[q]
           Rows == \A i \in DOMAIN events : events'[i] = events[i]
<1>1. ASSUME NEW k \in Tasks, StoreEvent(k) PROVE Rows
  BY <1>0, <1>1, AppendFacts DEF StoreEvent
<1>2. ASSUME NEW p \in Polls, FindEventPoll(p)
      PROVE  UNCHANGED <<attempts, orders>> /\ Rows /\ \A q \in Polls : Apart(q)
  BY <1>0, <1>2 DEF FindEventPoll
<1>3. ASSUME NEW p \in Polls, StoreEventPoll(p)
      PROVE  UNCHANGED <<attempts, orders>> /\ Rows /\ \A q \in Polls : Apart(q)
  <2>1. Rows BY <1>0, <1>1, <1>3 DEF StoreEventPoll
  <2>q. QED BY <1>0, <1>3, <2>1 DEF StoreEventPoll
<1>4. ASSUME NEW s \in Syncs, SyncStep(s)
      PROVE  UNCHANGED <<attempts, orders>> /\ Rows /\ \A q \in Polls : Apart(q)
  <2>1. CASE FindEventSync(s) BY <1>0, <2>1 DEF FindEventSync
  <2>2. CASE StoreEventSync(s)
    <3>1. Rows BY <1>0, <1>1, <2>2 DEF StoreEventSync
    <3>q. QED BY <1>0, <2>2, <3>1 DEF StoreEventSync
  <2>q. QED BY <1>4, <2>1, <2>2 DEF SyncStep
<1>5. ASSUME NEW k \in Tasks, LoopStep(k)
      PROVE  UNCHANGED <<attempts, orders>> /\ Rows /\ \A q \in Polls : Apart(q)
  BY <1>0, <1>5 DEF LoopStep, Start, FetchNothing, FetchTrades, Finish
<1>6. ASSUME NEW k \in Tasks, Abandon(k)
      PROVE  UNCHANGED <<attempts, orders>> /\ Rows /\ \A q \in Polls : Apart(q)
  BY <1>0, <1>6 DEF Abandon, DropLocals, DropCopyLocals
<1>7. CASE Crash
  BY <1>0, <1>7 DEF Crash
<1>8. CASE \/ \E t \in Trades : LeaderTrades(t)
           \/ \E u \in Users : SetCopying(u) \/ SetFollow(u)
           \/ RefreshLeaderboard \/ Tick \/ UNCHANGED vars
  BY <1>8 DEF LeaderTrades, SetCopying, SetFollow, RefreshLeaderboard, Tick, vars
<1>9. ASSUME ApiOrders
      PROVE  attempts' = attempts /\ Rows /\ \A q \in Polls : Apart(q)
  BY <1>9, ApiOrdersApart DEF IInv
<1> HIDE DEF Apart, Rows
<1>q. QED
  <2>1. (\E p \in Polls : EngineStep(p))
        \/ (/\ attempts' = attempts /\ (orders' = orders \/ ApiOrders)
            /\ Rows /\ \A q \in Polls : Apart(q))
    <3>1. CASE \E p \in Polls : PollStep(p)
      BY <1>2, <1>3, <3>1 DEF PollStep
    <3>2. CASE \E k \in Tasks : LoopStep(k) \/ Abandon(k)
      BY <1>5, <1>6, <3>2
    <3>3. CASE \E s \in Syncs : SyncStep(s)
      BY <1>4, <3>3
    <3>4. CASE \/ \E t \in Trades : LeaderTrades(t)
               \/ \E u \in Users : SetCopying(u) \/ SetFollow(u)
               \/ RefreshLeaderboard \/ Tick \/ UNCHANGED vars \/ Crash
      <4>1. CASE Crash
        BY <1>7, <4>1 DEF Rows, Apart
      <4>2. CASE ~Crash
        BY <1>8, <3>4, <4>2 DEF Rows, Apart
      <4>q. QED BY <4>1, <4>2
    <3>5. CASE ApiOrders
      BY <1>9, <3>5
    <3>q. QED BY <3>1, <3>2, <3>3, <3>4, <3>5 DEF Next
  <2>q. QED BY <2>1 DEF Rows, Apart

(* The other activations and the events stand still while one works.       *)
LEMMA EngineAlone ==
  ASSUME IInv, NEW p \in Polls, EngineStep(p)
  PROVE  /\ events' = events
         /\ \A q \in Polls : q # p =>
              pc'[q] = pc[q] /\ usr'[q] = usr[q] /\ ev'[q] = ev[q]
<1> USE DEF dbVars, Goto
<1>0. /\ pc \in [Tasks -> WorkerLabels \cup EngineLabels] /\ Polls \subseteq Tasks
      /\ ev \in [Polls -> Nat] /\ usr \in [Polls -> Users]
  BY DEF IInv, TypeOK, Tasks
<1>1. CASE ReadFollows(p) \/ NextUser(p) \/ CopiesDone(p) \/ SkipBreakerOpen(p)
           \/ CheckDuplicate(p) \/ CreateAttempt(p) \/ MissingCredentials(p)
  BY <1>0, <1>1 DEF ReadFollows, NextUser, CopiesDone, SkipBreakerOpen,
     CheckDuplicate, CreateAttempt, MissingCredentials, DropCopyLocals
<1>2. CASE GuardrailsSkip(p) \/ GuardrailsAllow(p) \/ NoTradingAuthority(p)
           \/ GetAddress(p) \/ SigningUnavailable(p) \/ RecordUnavailable(p)
           \/ PostAccepted(p) \/ PostRejected(p) \/ PostReplyLost(p)
  BY <1>0, <1>2 DEF GuardrailsSkip, GuardrailsAllow, NoTradingAuthority, GetAddress,
     SigningUnavailable, RecordUnavailable, PostAccepted, PostRejected, PostReplyLost
<1>3. CASE StoreOrder(p) \/ MarkSubmitted(p) \/ RecordSubmitted(p)
           \/ ThrowInTry(p) \/ Catch(p) \/ MarkFailed(p)
  BY <1>0, <1>3 DEF StoreOrder, MarkSubmitted, RecordSubmitted, ThrowInTry, Catch,
     MarkFailed
<1>q. QED BY <1>1, <1>2, <1>3 DEF EngineStep

(* A step of the engine adds no row and passes no duplicate check, adds a  *)
(* row it has passed the check for, or passes the check: no row was there. *)
LEMMA RacesEngine ==
  ASSUME IInv, NEW p \in Polls, EngineStep(p), NEW u \in Users, NEW e \in Nat
  PROVE  \/ Live(u, e)' \subseteq Live(u, e) /\ Creating(u, e)' \subseteq Creating(u, e)
         \/ Live(u, e)' \subseteq Live(u, e) /\ Live(u, e) = {}
         \/ \E x : /\ Live(u, e)' \subseteq Live(u, e) \cup {x}
                   /\ p \in Creating(u, e)
                   /\ Creating(u, e)' \subseteq Creating(u, e) \ {p}
<1> USE DEF dbVars, Goto
<1>0. /\ pc \in [Tasks -> WorkerLabels \cup EngineLabels] /\ Polls \subseteq Tasks
      /\ attempts \in Seq(Attempt) /\ ev \in [Polls -> Nat] /\ usr \in [Polls -> Users]
  BY DEF IInv, TypeOK, Tasks
<1>1. ASSUME pc'[p] # "attempt" PROVE Creating(u, e)' \subseteq Creating(u, e) \ {p}
  BY <1>1, EngineAlone DEF Creating
<1>2. ASSUME attempts' = attempts PROVE Live(u, e)' = Live(u, e)
  BY <1>2 DEF Live, AttemptsOf
<1>3. CASE \/ ReadFollows(p) \/ NextUser(p) \/ CopiesDone(p)
           \/ GuardrailsAllow(p) \/ GetAddress(p) \/ RecordUnavailable(p)
           \/ PostAccepted(p) \/ PostReplyLost(p) \/ StoreOrder(p)
           \/ RecordSubmitted(p) \/ ThrowInTry(p) \/ Catch(p)
  <2>1. attempts' = attempts /\ pc'[p] # "attempt"
    BY <1>0, <1>3 DEF ReadFollows, NextUser, CopiesDone, GuardrailsAllow,
       GetAddress, RecordUnavailable, PostAccepted, PostReplyLost, StoreOrder,
       RecordSubmitted, ThrowInTry, Catch
  <2>q. QED BY <1>1, <1>2, <2>1
<1>4. CASE CheckDuplicate(p)
  <2>1. attempts' = attempts /\ UNCHANGED <<usr, ev>> BY <1>4 DEF CheckDuplicate
  <2>2. CASE AttemptsOf(usr[p], ev[p]) = {} /\ usr[p] = u /\ ev[p] = e
    BY <1>2, <2>1, <2>2 DEF Live
  <2>3. CASE AttemptsOf(usr[p], ev[p]) = {} /\ ~(usr[p] = u /\ ev[p] = e)
    <3>1. Creating(u, e)' \subseteq Creating(u, e)
      BY <2>1, <2>3, EngineAlone DEF Creating
    <3>q. QED BY <1>2, <2>1, <3>1
  <2>4. CASE AttemptsOf(usr[p], ev[p]) # {}
    <3>1. pc'[p] # "attempt" BY <1>0, <1>4, <2>4 DEF CheckDuplicate
    <3>q. QED BY <1>1, <1>2, <2>1, <3>1
  <2>q. QED BY <2>2, <2>3, <2>4
<1>5. ASSUME NEW st \in {"SKIPPED", "PENDING"}, NewAttempt(usr[p], ev[p], st)
      PROVE  \E x : Live(u, e)' \subseteq
                      IF st = "PENDING" /\ usr[p] = u /\ ev[p] = e
                      THEN Live(u, e) \cup {x} ELSE Live(u, e)
  <2> DEFINE n == Len(attempts) + 1
             new == [user |-> usr[p], event |-> ev[p], status |-> st, order |-> 0]
  <2>1. attempts' = Append(attempts, new) BY <1>5 DEF NewAttempt
  <2>2. new.user = usr[p] /\ new.event = ev[p] /\ new.status = st OBVIOUS
  <2>3. new \in Attempt BY <1>0, <1>5 DEF Attempt
  <2> HIDE DEF new
  <2>4. /\ DOMAIN attempts' = DOMAIN attempts \cup {n}
        /\ \A i \in DOMAIN attempts : attempts'[i] = attempts[i]
        /\ attempts'[n] = new
    BY <1>0, <2>1, <2>3, AppendFacts
  <2> HIDE DEF n
  <2>q. QED BY <2>2, <2>4 DEF Live, AttemptsOf
<1>6. CASE SkipBreakerOpen(p)
  <2>1. pc'[p] # "attempt" /\ NewAttempt(usr[p], ev[p], "SKIPPED")
    BY <1>0, <1>6 DEF SkipBreakerOpen
  <2>2. Live(u, e)' \subseteq Live(u, e) BY <1>5, <2>1
  <2>q. QED BY <1>1, <2>1, <2>2
<1>7. CASE CreateAttempt(p)
  <2>1. /\ pc[p] = "attempt" /\ pc'[p] # "attempt"
        /\ NewAttempt(usr[p], ev[p], "PENDING")
    BY <1>0, <1>7 DEF CreateAttempt
  <2>2. CASE usr[p] = u /\ ev[p] = e
    <3>1. p \in Creating(u, e) BY <2>1, <2>2 DEF Creating
    <3>2. \E x : Live(u, e)' \subseteq Live(u, e) \cup {x} BY <1>5, <2>1, <2>2
    <3>q. QED BY <1>1, <2>1, <3>1, <3>2
  <2>3. CASE ~(usr[p] = u /\ ev[p] = e)
    <3>1. Live(u, e)' \subseteq Live(u, e) BY <1>5, <2>1, <2>3
    <3>q. QED BY <1>1, <2>1, <3>1
  <2>q. QED BY <2>2, <2>3
<1>8. CASE \/ MissingCredentials(p) \/ GuardrailsSkip(p) \/ NoTradingAuthority(p)
           \/ SigningUnavailable(p) \/ PostRejected(p) \/ MarkFailed(p)
           \/ MarkSubmitted(p)
  <2>1. pc[p] \in UnsettledLabels /\ pc'[p] # "attempt"
    BY <1>0, <1>8 DEF MissingCredentials, GuardrailsSkip, NoTradingAuthority,
       SigningUnavailable, PostRejected, MarkFailed, MarkSubmitted, UnsettledLabels
  <2>2. \/ \E st : SetStatus(att[p], st)
        \/ \E j : Submit(att[p], j)
    BY <1>8 DEF MissingCredentials, GuardrailsSkip, NoTradingAuthority,
       SigningUnavailable, PostRejected, MarkFailed, MarkSubmitted
  <2>3. /\ DOMAIN attempts' = DOMAIN attempts
        /\ \A i \in DOMAIN attempts :
             /\ attempts'[i].user = attempts[i].user
             /\ attempts'[i].event = attempts[i].event
             /\ attempts[i].status = "SKIPPED" => attempts'[i].status = "SKIPPED"
    BY <2>1, <2>2, OwnedKeeps
  <2>4. Live(u, e)' \subseteq Live(u, e) BY <2>3 DEF Live, AttemptsOf
  <2>q. QED BY <1>1, <2>1, <2>4
<1>q. QED BY <1>3, <1>4, <1>6, <1>7, <1>8 DEF EngineStep

(* No step lets a pair be copied more often than activations run at once.  *)
LEMMA RacesNext ==
  ASSUME IsFiniteSet(Polls), IInv, Races, [Next]_vars
  PROVE  Races'
<1> SUFFICES ASSUME NEW u \in Users, NEW e \in Nat
             PROVE  Cardinality(Live(u, e)') + Cardinality(Creating(u, e)')
                      <= 0 + Cardinality(Polls)
  <2>1. Cardinality(Polls) \in Nat BY FS_CardinalityType
  <2>q. QED BY <2>1 DEF Races
<1>1. /\ Cardinality(Live(u, e)) + Cardinality(Creating(u, e)) <= 0 + Cardinality(Polls)
      /\ IsFiniteSet(Live(u, e)) /\ Creating(u, e) \in SUBSET Polls
      /\ Creating(u, e)' \in SUBSET Polls
  <2>1. Cardinality(Polls) \in Nat BY FS_CardinalityType
  <2>2. IsFiniteSet(Live(u, e)) BY RowsFinite DEF IInv
  <2>q. QED BY <2>1, <2>2 DEF Races, Creating
<1>2. \/ Live(u, e)' \subseteq Live(u, e) /\ Creating(u, e)' \subseteq Creating(u, e)
      \/ Live(u, e)' \subseteq Live(u, e) /\ Cardinality(Live(u, e)) <= 0
      \/ \E x, p : /\ Live(u, e)' \subseteq Live(u, e) \cup {x}
                   /\ p \in Creating(u, e)
                   /\ Creating(u, e)' \subseteq Creating(u, e) \ {p}
  <2>1. CASE \E p \in Polls : EngineStep(p)
    <3>1. PICK p \in Polls : EngineStep(p) BY <2>1
    <3>2. Live(u, e) = {} => Cardinality(Live(u, e)) <= 0 BY FS_EmptySet
    <3>q. QED BY <3>1, <3>2, RacesEngine
  <2>2. CASE ~\E p \in Polls : EngineStep(p)
    <3>1. /\ attempts' = attempts
          /\ \A q \in Polls : \/ pc'[q] \in OutsideLabels
                              \/ pc'[q] = pc[q] /\ usr'[q] = usr[q] /\ ev'[q] = ev[q]
      BY <2>2, EngineOrOutside
    <3>2. Live(u, e)' = Live(u, e) BY <3>1 DEF Live, AttemptsOf
    <3>3. Creating(u, e)' \subseteq Creating(u, e)
      BY <3>1 DEF Creating, OutsideLabels, WorkerLabels
    <3>q. QED BY <3>2, <3>3
  <2>q. QED BY <2>1, <2>2
<1> DEFINE A == Live(u, e)  A2 == Live(u, e)'  B == Creating(u, e)  B2 == Creating(u, e)'
<1>3. /\ Cardinality(A) + Cardinality(B) <= 0 + Cardinality(Polls)
      /\ IsFiniteSet(A) /\ B \in SUBSET Polls /\ B2 \in SUBSET Polls
  BY <1>1
<1>4. \/ A2 \subseteq A /\ B2 \subseteq B
      \/ A2 \subseteq A /\ Cardinality(A) <= 0
      \/ \E x, p : A2 \subseteq A \cup {x} /\ p \in B /\ B2 \subseteq B \ {p}
  BY <1>2
<1>5. Cardinality(A2) + Cardinality(B2) <= 0 + Cardinality(Polls)
  <2> HIDE DEF A, A2, B, B2
  <2>1. 0 \in Int OBVIOUS
  <2>q. QED BY <1>3, <1>4, <2>1, OneForAnother
<1>q. QED BY <1>5

(* Each order of the pair is placed for a row of its own.                  *)
LEMMA RacesImply ==
  ASSUME IsFiniteSet(Polls), IInv, Races
  PROVE  OverlapBoundsOrders
<1> SUFFICES ASSUME NEW u \in Users, NEW e \in DOMAIN events
             PROVE  Cardinality(OrdersOf(u, e)) <= Cardinality(Polls)
  BY DEF OverlapBoundsOrders
<1> DEFINE row == [b \in OrdersOf(u, e) |-> book[b].attempt]
<1>1. row \in Injection(OrdersOf(u, e), Live(u, e))
  BY DEF Injection, IsInjective, OrdersOf, Live, AttemptsOf, IInv, OrdersAccountedFor
<1>2. IsFiniteSet(Live(u, e)) BY RowsFinite DEF IInv
<1>3. Cardinality(OrdersOf(u, e)) <= Cardinality(Live(u, e)) /\ IsFiniteSet(OrdersOf(u, e))
  <2> HIDE DEF row
  <2>q. QED BY <1>1, <1>2, FS_Injection
<1>4. /\ Cardinality(OrdersOf(u, e)) \in Nat /\ Cardinality(Live(u, e)) \in Nat
      /\ Cardinality(Polls) \in Nat
  BY <1>2, <1>3, FS_CardinalityType
<1>5. Cardinality(Creating(u, e)) \in Nat
  <2>1. Creating(u, e) \in SUBSET Polls BY DEF Creating
  <2>q. QED BY <2>1, FS_Subset, FS_CardinalityType
<1>6. Cardinality(Live(u, e)) + Cardinality(Creating(u, e)) <= Cardinality(Polls)
  <2>1. e \in Nat BY DEF IInv, TypeOK
  <2>q. QED BY <2>1 DEF Races
<1>q. QED BY <1>3, <1>4, <1>5, <1>6

(* Once per activation the duplicate check lets an order of the same user  *)
(* and event through, and no more: however poll() overlaps with itself, a  *)
(* trade is copied at most as often as activations run at once.            *)
THEOREM OverlapBoundsDuplicates ==
  ASSUME IsFiniteSet(Polls)
  PROVE  Spec => []OverlapBoundsOrders
<1>1. Init => Races
  <2> SUFFICES ASSUME Init, NEW u \in Users, NEW e \in Nat
               PROVE  Cardinality(Live(u, e)) + Cardinality(Creating(u, e))
                        <= Cardinality(Polls)
    BY DEF Races
  <2>1. Live(u, e) = {} BY DEF Init, Live, AttemptsOf
  <2>2. Creating(u, e) = {} BY DEF Init, Creating, Tasks
  <2>3. Cardinality({}) = 0 /\ Cardinality(Polls) \in Nat
    BY FS_EmptySet, FS_CardinalityType
  <2>q. QED BY <2>1, <2>2, <2>3
<1>2. IInv /\ Races /\ [Next]_vars => Races'
  BY RacesNext
<1>3. IInv /\ Races => OverlapBoundsOrders
  BY RacesImply
<1>q. QED BY <1>1, <1>2, <1>3, InvariantHolds, PTL DEF Spec

(* A step of the engine adds no market and passes no BUY, records a BUY    *)
(* that has passed the cap, or passes one: the markets were below it.      *)
LEMMA OvershootEngine ==
  ASSUME IInv, NEW p \in Polls, EngineStep(p), NEW u \in Users
  PROVE  \/ BuyMarkets(u)' \subseteq BuyMarkets(u) /\ Buying(u)' \subseteq Buying(u)
         \/ /\ BuyMarkets(u)' \subseteq BuyMarkets(u)
            /\ Cardinality(BuyMarkets(u)) <= MaxOpenPositions - 1
         \/ \E x : /\ BuyMarkets(u)' \subseteq BuyMarkets(u) \cup {x}
                   /\ p \in Buying(u) /\ Buying(u)' \subseteq Buying(u) \ {p}
<1> USE DEF dbVars, Goto
<1>0. /\ pc \in [Tasks -> WorkerLabels \cup EngineLabels] /\ Polls \subseteq Tasks
      /\ orders \in Seq(Order) /\ events \in Seq(Trades)
      /\ ev \in [Polls -> Nat] /\ usr \in [Polls -> Users] /\ poly \in [Polls -> Nat]
  BY DEF IInv, TypeOK, Tasks
<1>1. ASSUME pc'[p] \notin AllowedLabels PROVE Buying(u)' \subseteq Buying(u) \ {p}
  BY <1>1, EngineAlone DEF Buying
<1>2. ASSUME orders' = orders PROVE BuyMarkets(u)' = BuyMarkets(u)
  BY <1>2 DEF BuyMarkets, OpenCopies, OpenRows, ByHand, MarketOf
<1>3. CASE \/ ReadFollows(p) \/ NextUser(p) \/ CopiesDone(p) \/ SkipBreakerOpen(p)
           \/ CheckDuplicate(p) \/ CreateAttempt(p) \/ MissingCredentials(p)
           \/ GuardrailsSkip(p) \/ NoTradingAuthority(p)
           \/ SigningUnavailable(p) \/ RecordUnavailable(p)
           \/ PostRejected(p) \/ PostReplyLost(p)
           \/ MarkSubmitted(p) \/ RecordSubmitted(p)
           \/ ThrowInTry(p) \/ Catch(p) \/ MarkFailed(p)
  <2>1. orders' = orders /\ pc'[p] \notin AllowedLabels
    BY <1>0, <1>3 DEF ReadFollows, NextUser, CopiesDone, SkipBreakerOpen,
       CheckDuplicate, CreateAttempt, MissingCredentials, GuardrailsSkip,
       NoTradingAuthority, SigningUnavailable, RecordUnavailable, PostRejected,
       PostReplyLost, MarkSubmitted, RecordSubmitted, ThrowInTry, Catch, MarkFailed,
       AllowedLabels
  <2>q. QED BY <1>1, <1>2, <2>1
<1>4. CASE GetAddress(p) \/ PostAccepted(p)
  <2>1. /\ orders' = orders /\ UNCHANGED <<usr, ev>>
        /\ pc[p] \in AllowedLabels
    BY <1>0, <1>4 DEF GetAddress, PostAccepted, AllowedLabels
  <2>2. Buying(u)' \subseteq Buying(u) BY <2>1, EngineAlone DEF Buying
  <2>q. QED BY <1>2, <2>1, <2>2
<1>5. CASE GuardrailsAllow(p)
  <2>1. /\ orders' = orders /\ UNCHANGED <<usr, ev>>
        /\ ~CapReached(usr[p], events[ev[p]])
    BY <1>5 DEF GuardrailsAllow
  <2>2. CASE usr[p] = u /\ SideOf[events[ev[p]]] = "BUY"
    <3>1. ~(Cardinality(OpenConditions(u)) >= MaxOpenPositions)
      BY <2>1, <2>2 DEF CapReached
    <3>2. BuyMarkets(u) \in SUBSET OpenConditions(u)
      BY DEF BuyMarkets, OpenConditions, OpenCopies
    <3>3. IsFiniteSet(OpenConditions(u)) BY RowsFinite DEF IInv
    <3>4. /\ Cardinality(BuyMarkets(u)) <= Cardinality(OpenConditions(u))
          /\ Cardinality(BuyMarkets(u)) \in Nat /\ Cardinality(OpenConditions(u)) \in Nat
      BY <3>2, <3>3, FS_Subset, FS_CardinalityType
    <3>5. Cardinality(BuyMarkets(u)) <= MaxOpenPositions - 1
      BY <3>1, <3>4, EngineAssumption
    <3>q. QED BY <1>2, <2>1, <3>5
  <2>3. CASE ~(usr[p] = u /\ SideOf[events[ev[p]]] = "BUY")
    <3>1. Buying(u)' \subseteq Buying(u) BY <2>1, <2>3, EngineAlone DEF Buying
    <3>q. QED BY <1>2, <2>1, <3>1
  <2>q. QED BY <2>2, <2>3
<1>6. CASE StoreOrder(p)
  <2> DEFINE n == Len(orders) + 1
             new == [user |-> usr[p], trade |-> events[ev[p]],
                     poly |-> poly[p], status |-> "OPEN"]
  <2>1. orders' = Append(orders, new) /\ pc[p] = "store" /\ pc'[p] \notin AllowedLabels
    BY <1>0, <1>6 DEF StoreOrder, AllowedLabels
  <2>2. ev[p] \in DOMAIN events
    BY <2>1 DEF IInv, EventKnown, EngineLabels, TryLabels
  <2>3. new.user = usr[p] /\ new.trade = events[ev[p]] /\ new \in Order
    BY <1>0, <2>2 DEF Order
  <2> HIDE DEF new
  <2>4. /\ DOMAIN orders' = DOMAIN orders \cup {n}
        /\ \A j \in DOMAIN orders : orders'[j] = orders[j]
        /\ orders'[n] = new
    BY <1>0, <2>1, <2>3, AppendFacts
  <2> HIDE DEF n
  <2>5. CASE usr[p] = u /\ SideOf[events[ev[p]]] = "BUY"
    <3>1. BuyMarkets(u)' \subseteq BuyMarkets(u) \cup {MarketOf(new)}
      BY <2>4 DEF BuyMarkets, OpenCopies, OpenRows, ByHand, MarketOf
    <3>2. p \in Buying(u) BY <2>1, <2>5 DEF Buying, AllowedLabels
    <3>q. QED BY <1>1, <2>1, <3>1, <3>2
  <2>6. CASE ~(usr[p] = u /\ SideOf[events[ev[p]]] = "BUY")
    <3>1. BuyMarkets(u)' \subseteq BuyMarkets(u)
      BY <2>3, <2>4, <2>6 DEF BuyMarkets, OpenCopies, OpenRows, ByHand, MarketOf
    <3>q. QED BY <1>1, <2>1, <3>1
  <2>q. QED BY <2>5, <2>6
<1>q. QED BY <1>3, <1>4, <1>5, <1>6 DEF EngineStep

(* No step lets more BUYs past the cap than activations run at once.       *)
LEMMA OvershootNext ==
  ASSUME IsFiniteSet(Polls), IInv, Overshoot, [Next]_vars
  PROVE  Overshoot'
<1> DEFINE n == MaxOpenPositions - 1
<1> SUFFICES ASSUME NEW u \in Users
             PROVE  Cardinality(BuyMarkets(u)') + Cardinality(Buying(u)')
                      <= n + Cardinality(Polls)
  BY DEF Overshoot
<1> DEFINE A == BuyMarkets(u)  A2 == BuyMarkets(u)'  B == Buying(u)  B2 == Buying(u)'
<1>1. n \in Int
  BY EngineAssumption
<1>2. Cardinality(A) + Cardinality(B) <= n + Cardinality(Polls)
  BY DEF Overshoot
<1>3. IsFiniteSet(A) /\ B \in SUBSET Polls /\ B2 \in SUBSET Polls
  BY RowsFinite DEF IInv, Buying
<1>4. \/ A2 \subseteq A /\ B2 \subseteq B
      \/ A2 \subseteq A /\ Cardinality(A) <= n
      \/ \E x, p : A2 \subseteq A \cup {x} /\ p \in B /\ B2 \subseteq B \ {p}
  <2>1. CASE \E p \in Polls : EngineStep(p)
    BY <2>1, OvershootEngine
  <2>2. CASE ~\E p \in Polls : EngineStep(p)
    <3>1. /\ orders' = orders \/ ApiOrders
          /\ \A i \in DOMAIN events : events'[i] = events[i]
          /\ \A q \in Polls : \/ pc'[q] \in OutsideLabels
                              \/ pc'[q] = pc[q] /\ usr'[q] = usr[q] /\ ev'[q] = ev[q]
      BY <2>2, EngineOrOutside
    <3>2. BuyMarkets(u)' \subseteq BuyMarkets(u)
      <4>1. CASE orders' = orders
        BY <4>1 DEF BuyMarkets, OpenCopies, OpenRows, ByHand, MarketOf
      <4>2. CASE ApiOrders BY <4>2, ApiOrdersAddNone DEF IInv
      <4>q. QED BY <3>1, <4>1, <4>2
    <3>3. AllowedLabels \cap OutsideLabels = {} /\ AllowedLabels \subseteq EngineLabels
      BY DEF AllowedLabels, OutsideLabels, WorkerLabels, EngineLabels, TryLabels
    <3>4. Buying(u)' \subseteq Buying(u)
      BY <3>1, <3>3 DEF Buying, IInv, EventKnown
    <3>q. QED BY <3>2, <3>4
  <2>q. QED BY <2>1, <2>2
<1>5. Cardinality(A2) + Cardinality(B2) <= n + Cardinality(Polls)
  <2> HIDE DEF A, A2, B, B2, n
  <2>q. QED BY <1>1, <1>2, <1>3, <1>4, OneForAnother
<1>q. QED BY <1>5

(* The open BUYs among a user's copies spread over fewer markets than      *)
(* maxOpenPositions and the activations together, whatever orders the user *)
(* places or cancels besides: each activation that read the count while *)
(* it was below the cap adds one market, and then the cap is seen.         *)
THEOREM OverlapBoundsPositions ==
  ASSUME IsFiniteSet(Polls), Polls # {}
  PROVE  Spec => []OverlapBoundsMarkets
<1>0. Cardinality(Polls) \in Nat /\ Cardinality(Polls) # 0 /\ MaxOpenPositions \in Nat
  BY FS_CardinalityType, FS_EmptySet, EngineAssumption
<1>1. Init => Overshoot
  <2> SUFFICES ASSUME Init, NEW u \in Users
               PROVE  Cardinality(BuyMarkets(u)) + Cardinality(Buying(u))
                        <= (MaxOpenPositions - 1) + Cardinality(Polls)
    BY DEF Overshoot
  <2>1. BuyMarkets(u) = {} BY DEF Init, BuyMarkets, OpenCopies, OpenRows
  <2>2. Buying(u) = {} BY DEF Init, Buying, AllowedLabels, Tasks
  <2>3. Cardinality({}) = 0 BY FS_EmptySet
  <2>q. QED BY <1>0, <2>1, <2>2, <2>3
<1>2. IInv /\ Overshoot /\ [Next]_vars => Overshoot'
  BY OvershootNext
<1>3. IInv /\ Overshoot => OverlapBoundsMarkets
  <2> SUFFICES ASSUME IInv, Overshoot, NEW u \in Users
               PROVE  Cardinality(BuyMarkets(u)) < MaxOpenPositions + Cardinality(Polls)
    BY DEF OverlapBoundsMarkets
  <2>1. IsFiniteSet(BuyMarkets(u)) /\ Buying(u) \in SUBSET Polls
    BY RowsFinite DEF IInv, Buying
  <2>2. Cardinality(BuyMarkets(u)) \in Nat /\ Cardinality(Buying(u)) \in Nat
    BY <2>1, FS_Subset, FS_CardinalityType
  <2>q. QED BY <1>0, <2>2 DEF Overshoot
<1>q. QED BY <1>1, <1>2, <1>3, InvariantHolds, PTL DEF Spec
=============================================================================
