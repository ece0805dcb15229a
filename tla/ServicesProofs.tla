---------------------------- MODULE ServicesProofs ----------------------------
(***************************************************************************)
(* Proofs about the smaller services, for any number of orders, requests,  *)
(* tabs, ticks, rows, workers and readers: orders that are live are not    *)
(* called dead unless a refusal was ignored, a tab that lost its session   *)
(* will ask for one, the event stream leaves no gaps, the status page is   *)
(* right about the workers, and copies stay within balance and profile.    *)
(***************************************************************************)
EXTENDS Orders, WebSession, EventStream, WorkerHealth, CopyFunding,
        FiniteSetTheorems, WellFoundedInduction, TLAPS

(* What an order has become is settled before its row says so.             *)
RowsFollow ==
    \A o \in OrderIds :
        /\ order[o] # "NONE" => onExchange[o] # "none"
        /\ o \in named =>
             /\ onExchange[o] # "none"
             /\ order[o] = "CANCELLED" => onExchange[o] = "gone" \/ o \in refused
             /\ order[o] = "EXPIRED" => o \in aged

CancelsFollow ==
    \A c \in Cancels :
        LET o == cancel[c].of IN
        /\ cancel[c].at \in {"found", "told"} => o \in OrderIds /\ order[o] # "NONE"
        /\ cancel[c].at = "told" /\ o \in named => onExchange[o] = "gone" \/ o \in refused

ReconcilesFollow ==
    \A r \in Reconciles, o \in OrderIds :
        o \in reconcile[r].todo => order[o] # "NONE" /\ Stale(o)

OrdersInv == OrdersTypeOK /\ RowsFollow /\ CancelsFollow /\ ReconcilesFollow

LEMMA InitOrdersInv == OrdersInit => OrdersInv
BY DEF OrdersInit, OrdersInv, OrdersTypeOK, RowsFollow, CancelsFollow, ReconcilesFollow

LEMMA StepKeepsOrdersInv == OrdersInv /\ [OrdersNext]_orderVars => OrdersInv'
<1> SUFFICES ASSUME OrdersInv, [OrdersNext]_orderVars
             PROVE  OrdersInv'
  OBVIOUS
<1> USE DEF OrdersInv, OrdersTypeOK, RowsFollow, CancelsFollow, ReconcilesFollow, Stale
<1>1. ASSUME NEW o \in OrderIds, PlaceOrder(o)
      PROVE  OrdersInv'
  BY <1>1 DEF PlaceOrder
<1>2. ASSUME NEW o \in OrderIds, StoreOrderRow(o) \/ LoseOrder(o)
      PROVE  OrdersInv'
  BY <1>2 DEF StoreOrderRow, LoseOrder, Placing
<1>3. ASSUME NEW o \in OrderIds, LeaveExchange(o) \/ GrowOld(o)
      PROVE  OrdersInv'
  BY <1>3 DEF LeaveExchange, GrowOld
<1>4. ASSUME NEW c \in Cancels, FindOrder(c) \/ CancelFails(c)
      PROVE  OrdersInv'
  BY <1>4 DEF FindOrder, CancelFails
<1>5. ASSUME NEW c \in Cancels, CancelOnExchange(c)
      PROVE  OrdersInv'
  BY <1>5 DEF CancelOnExchange
<1>6. ASSUME NEW c \in Cancels, MarkCancelled(c)
      PROVE  OrdersInv'
  BY <1>6 DEF MarkCancelled
<1>7. ASSUME NEW r \in Reconciles, ListOpen(r) \/ ExpireNext(r) \/ ReconcileFails(r)
      PROVE  OrdersInv'
  BY <1>7 DEF ListOpen, ExpireNext, ReconcileFails
<1>8. ASSUME UNCHANGED orderVars
      PROVE  OrdersInv'
  BY <1>8 DEF orderVars
<1>9. QED
  BY <1>1, <1>2, <1>3, <1>4, <1>5, <1>6, <1>7, <1>8 DEF OrdersNext

(* The rows of orders, the orders on the exchange and the calls about them *)
(* keep their types, for any number of orders.                             *)
THEOREM OrdersTypeCorrect == OrdersSpec => []OrdersTypeOK
<1>1. OrdersInv => OrdersTypeOK BY DEF OrdersInv
<1>2. QED BY <1>1, InitOrdersInv, StepKeepsOrdersInv, PTL DEF OrdersSpec

(* The routes over orders: with any number of cancels and reconciles at    *)
(* once, a row says CANCELLED only of an order that is gone, or that the   *)
(* exchange answered it had left, and any other live order that is not old *)
(* is OPEN or about to be.                                                 *)
THEOREM OrdersToldRight == OrdersSpec => []OrdersTellExchange
<1>1. OrdersInv => OrdersTellExchange
  BY DEF OrdersInv, OrdersTypeOK, RowsFollow, OrdersTellExchange, Placing
<1>2. QED
  BY <1>1, InitOrdersInv, StepKeepsOrdersInv, PTL DEF OrdersSpec

-----------------------------------------------------------------------------
(* Sessions.  Only the dashboard asks for anything but a session.          *)
AskedFromDashboard ==
    \A t \in Tabs, c \in Calls :
        call[t][c].of \in {"data", "logout"} => page[t] = "dashboard"

SessionsInv == SessionsTypeOK /\ AskedFromDashboard /\ NotStranded

LEMMA InitSessionsInv == SessionsInit => SessionsInv
<1> SUFFICES ASSUME SessionsInit
             PROVE  SessionsInv
  OBVIOUS
<1> USE SessionsAssumption DEF SessionsInit, NoCall
<1>1. SessionsTypeOK
  <2>1. call \in [Tabs -> [Calls ->
          [of : {"none", "verify", "provision", "data", "logout"},
           token : 0..MaxTokens, at : {"idle"} \cup Awaits \cup Answers]]]
    OBVIOUS
  <2>2. /\ held \in [Tabs -> 0..MaxTokens]
        /\ verified \in [Tabs -> BOOLEAN]
        /\ page \in [Tabs -> {"closed", "home", "dashboard"}]
    OBVIOUS
  <2>3. /\ sessions \subseteq Tokens /\ expired \subseteq Tokens
        /\ {issued, storage} \subseteq 0..MaxTokens
        /\ failures \in 0..MaxFailures
    BY DEF Tokens
  <2>4. loggedIn \in BOOLEAN /\ leaving \subseteq Tabs
    OBVIOUS
  <2>5. QED
    BY <2>1, <2>2, <2>3, <2>4 DEF SessionsTypeOK
<1>2. AskedFromDashboard /\ NotStranded
  BY DEF AskedFromDashboard, NotStranded
<1>3. QED
  BY <1>1, <1>2 DEF SessionsInv

(* How requests of a tab change, one by one.                               *)
Elsewhere(t, c) ==
    \A u \in Tabs, d \in Calls : u # t \/ d # c => call'[u][d] = call[u][d]

LEMMA StepMoves ==
    ASSUME SessionsTypeOK, NEW t \in Tabs, NEW c \in Calls, NEW s, Step(t, c, s)
    PROVE  /\ Elsewhere(t, c)
           /\ call'[t][c].of = call[t][c].of
           /\ call'[t][c].token = call[t][c].token
           /\ call'[t][c].at = s
BY DEF SessionsTypeOK, Step, Elsewhere

LEMMA SendAdds ==
    ASSUME SessionsTypeOK, NEW t \in Tabs, NEW c \in Calls, NEW what, NEW s,
           Send(t, c, what, s)
    PROVE  /\ Elsewhere(t, c)
           /\ call[t][c] = NoCall
           /\ call'[t][c] = [of |-> what, token |-> held[t], at |-> s]
BY DEF SessionsTypeOK, Send, Elsewhere

LEMMA ForgetDrops ==
    ASSUME SessionsTypeOK, NEW t \in Tabs, NEW c \in Calls, Forget(t, c)
    PROVE  Elsewhere(t, c) /\ call'[t][c] = NoCall
BY DEF SessionsTypeOK, Forget, Elsewhere

LEMMA ResetDrops ==
    ASSUME SessionsTypeOK, NEW t \in Tabs, Reset(t)
    PROVE  /\ \A u \in Tabs \ {t} : call'[u] = call[u]
           /\ \A c \in Calls : call'[t][c] = NoCall
BY DEF SessionsTypeOK, Reset

CallType == [Tabs -> [Calls ->
    [of : {"none", "verify", "provision", "data", "logout"},
     token : 0..MaxTokens, at : {"idle"} \cup Awaits \cup Answers]]]

LEMMA CallsKeepTypes ==
    ASSUME SessionsTypeOK, NEW t \in Tabs, NEW c \in Calls
    PROVE  /\ Reset(t) \/ Forget(t, c) => call' \in CallType
           /\ \A s \in {"idle"} \cup Awaits \cup Answers : Step(t, c, s) => call' \in CallType
           /\ \A what \in {"verify", "provision", "data", "logout"},
                 s \in Awaits \cup Answers : Send(t, c, what, s) => call' \in CallType
<1> USE SessionsAssumption DEF SessionsTypeOK, CallType, NoCall
<1>1. Reset(t) => call' \in CallType
  BY DEF Reset
<1>2. Forget(t, c) => call' \in CallType
  BY DEF Forget
<1>3. \A s \in {"idle"} \cup Awaits \cup Answers : Step(t, c, s) => call' \in CallType
  <2> SUFFICES ASSUME NEW s \in {"idle"} \cup Awaits \cup Answers, Step(t, c, s)
               PROVE  call' \in CallType
    OBVIOUS
  <2> DEFINE Request == [of : {"none", "verify", "provision", "data", "logout"},
                         token : 0..MaxTokens, at : {"idle"} \cup Awaits \cup Answers]
  <2>1. call \in [Tabs -> [Calls -> Request]]
    OBVIOUS
  <2>2. [call[t][c] EXCEPT !.at = s] \in Request
    <3>1. call[t][c] \in Request
      BY <2>1
    <3>2. QED
      BY <3>1
  <2> HIDE DEF Request
  <2>3. call' = [call EXCEPT ![t] = [call[t] EXCEPT ![c] = [call[t][c] EXCEPT !.at = s]]]
    BY DEF Step
  <2>4. call' \in [Tabs -> [Calls -> Request]]
    BY <2>1, <2>2, <2>3
  <2>5. QED
    BY <2>4 DEF Request
<1>4. \A what \in {"verify", "provision", "data", "logout"},
         s \in Awaits \cup Answers : Send(t, c, what, s) => call' \in CallType
  BY DEF Send
<1>5. QED
  BY <1>1, <1>2, <1>3, <1>4

LEMMA RenewKeepsTypes ==
    ASSUME SessionsTypeOK, NEW t \in Tabs, NEW c \in Calls,
           NEW what \in {"verify", "provision"}, NEW k \in 0..MaxTokens,
           NEW s \in Awaits \cup Answers,
           \/ call' = [call EXCEPT ![t][c].token = k, ![t][c].at = s]
           \/ call' = [call EXCEPT ![t][c].of = what, ![t][c].at = s]
    PROVE  call' \in CallType
<1> DEFINE Request == [of : {"none", "verify", "provision", "data", "logout"},
                       token : 0..MaxTokens, at : {"idle"} \cup Awaits \cup Answers]
<1>1. call \in [Tabs -> [Calls -> Request]] /\ call[t][c] \in Request
  BY DEF SessionsTypeOK
<1>2. /\ [call[t][c] EXCEPT !.token = k] \in Request
      /\ [call[t][c] EXCEPT !.of = what] \in Request
  BY <1>1
<1>3. /\ [[call[t][c] EXCEPT !.token = k] EXCEPT !.at = s] \in Request
      /\ [[call[t][c] EXCEPT !.of = what] EXCEPT !.at = s] \in Request
  BY <1>2
<1> HIDE DEF Request
<1>4. \E x \in Request : call' = [call EXCEPT ![t] = [call[t] EXCEPT ![c] = x]]
  <2>1. CASE call' = [call EXCEPT ![t][c].token = k, ![t][c].at = s]
    <3>1. call' = [call EXCEPT ![t] = [call[t] EXCEPT ![c] =
                     [[call[t][c] EXCEPT !.token = k] EXCEPT !.at = s]]]
      BY <1>1, <2>1
    <3>2. QED
      BY <1>3, <3>1
  <2>2. CASE call' = [call EXCEPT ![t][c].of = what, ![t][c].at = s]
    <3>1. call' = [call EXCEPT ![t] = [call[t] EXCEPT ![c] =
                     [[call[t][c] EXCEPT !.of = what] EXCEPT !.at = s]]]
      BY <1>1, <2>2
    <3>2. QED
      BY <1>3, <3>1
  <2>3. QED
    BY <2>1, <2>2
<1>5. call' \in [Tabs -> [Calls -> Request]]
  BY <1>1, <1>4
<1>6. QED
  BY <1>5 DEF Request, CallType

LEMMA StepKeepsSessionTypes ==
    ASSUME SessionsTypeOK, [SessionsNext]_sessionVars
    PROVE  SessionsTypeOK'
<1> DEFINE Others ==
      /\ sessions \subseteq Tokens /\ expired \subseteq Tokens
      /\ {issued, storage} \subseteq 0..MaxTokens
      /\ held \in [Tabs -> 0..MaxTokens]
      /\ verified \in [Tabs -> BOOLEAN]
      /\ page \in [Tabs -> {"closed", "home", "dashboard"}]
      /\ loggedIn \in BOOLEAN /\ leaving \subseteq Tabs
      /\ failures \in 0..MaxFailures
<1>a. SessionsTypeOK <=> Others /\ call \in CallType
  BY DEF SessionsTypeOK, CallType
<1>b. SessionsTypeOK' <=> Others' /\ call' \in CallType
  BY DEF SessionsTypeOK, CallType
<1> USE SessionsAssumption, <1>a DEF Tokens, serverVars, browserVars
<1>1. ASSUME NEW t \in Tabs, Load(t) \/ GoToDashboard(t)
      PROVE  SessionsTypeOK'
  <2>1. call' \in CallType
    BY <1>1, CallsKeepTypes DEF Load, GoToDashboard, Reset, CallType
  <2>2. Others'
    BY <1>1 DEF Load, GoToDashboard
  <2>3. QED
    BY <1>b, <2>1, <2>2
<1>2. ASSUME LogIn \/ UNCHANGED sessionVars
      PROVE  SessionsTypeOK'
  BY <1>2, <1>b DEF LogIn, sessionVars
<1>3. ASSUME NEW k \in Tokens, Expire(k)
      PROVE  SessionsTypeOK'
  BY <1>3, <1>b DEF Expire
<1>4. ASSUME NEW t \in Tabs, NEW c \in Calls, AuthSync(t, c) \/ SendRequest(t, c)
      PROVE  SessionsTypeOK'
  <2>1. call' \in CallType
    BY <1>4, CallsKeepTypes DEF AuthSync, SendRequest, Awaits, Answers
  <2>2. Others'
    BY <1>4 DEF AuthSync, SendRequest
  <2>3. QED
    BY <1>b, <2>1, <2>2
<1>5. ASSUME NEW t \in Tabs, NEW c \in Calls, FindSession(t, c) \/ DeleteSession(t, c) \/ DatabaseFails(t, c)
      PROVE  SessionsTypeOK'
  <2>1. call' \in CallType
    <3>1. \E s \in Awaits \cup Answers : Step(t, c, s)
      BY <1>5 DEF FindSession, DeleteSession, DatabaseFails, Awaits, Answers
    <3>2. QED
      BY <3>1, CallsKeepTypes
  <2>2. Others'
    BY <1>5 DEF FindSession, DeleteSession, DatabaseFails
  <2>3. QED
    BY <1>b, <2>1, <2>2
<1>6. ASSUME NEW t \in Tabs, NEW c \in Calls, CreateSession(t, c)
      PROVE  SessionsTypeOK'
  <2>1. call' \in CallType
    <3>1. CASE Step(t, c, "unauthorized")
      BY <3>1, CallsKeepTypes DEF Answers
    <3>2. CASE /\ issued < MaxTokens
               /\ call' = [call EXCEPT ![t][c].token = issued + 1, ![t][c].at = "ok"]
      <4>1. issued + 1 \in 0..MaxTokens
        BY <3>2
      <4>2. QED
        BY <3>2, <4>1, RenewKeepsTypes DEF Answers
    <3>3. QED
      BY <1>6, <3>1, <3>2 DEF CreateSession
  <2>2. Others'
    BY <1>6 DEF CreateSession
  <2>3. QED
    BY <1>b, <2>1, <2>2
<1>7. ASSUME NEW t \in Tabs, NEW c \in Calls, Receive(t, c)
      PROVE  SessionsTypeOK'
  <2>1. CASE ReceiveToken(t, c)
    <3>1. call' \in CallType
      <4>1. CASE call' = [call EXCEPT ![t][c].of = "provision", ![t][c].at = "find"]
        BY <4>1, RenewKeepsTypes DEF Awaits
      <4>2. CASE Forget(t, c)
        BY <4>2, CallsKeepTypes
      <4>3. QED
        BY <2>1, <4>1, <4>2 DEF ReceiveToken
    <3>2. Others'
      <4>1. call[t][c].token \in 0..MaxTokens
        BY DEF CallType
      <4>2. held' \in [Tabs -> 0..MaxTokens] /\ storage' \in 0..MaxTokens
        BY <2>1, <4>1 DEF ReceiveToken, ClearStale
      <4>3. verified' \in [Tabs -> BOOLEAN] /\ leaving' \subseteq Tabs
        BY <2>1 DEF ReceiveToken
      <4>4. QED
        BY <2>1, <4>2, <4>3 DEF ReceiveToken
    <3>3. QED
      BY <1>b, <3>1, <3>2
  <2>2. CASE ReceiveProvisioned(t, c)
    <3>1. call' \in CallType
      BY <2>2, CallsKeepTypes DEF ReceiveProvisioned
    <3>2. Others'
      BY <2>2 DEF ReceiveProvisioned, ClearStale
    <3>3. QED
      BY <1>b, <3>1, <3>2
  <2>3. CASE ReceiveData(t, c)
    <3>1. call' \in CallType
      BY <2>3, CallsKeepTypes DEF ReceiveData
    <3>2. Others'
      BY <2>3 DEF ReceiveData, ClearStale
    <3>3. QED
      BY <1>b, <3>1, <3>2
  <2>4. CASE FinishLogout(t, c)
    <3>1. call' \in CallType
      BY <2>4, CallsKeepTypes DEF FinishLogout
    <3>2. Others'
      <4>1. held' \in [Tabs -> 0..MaxTokens] /\ storage' \in 0..MaxTokens
        BY <2>4 DEF FinishLogout
      <4>2. loggedIn' \in BOOLEAN /\ leaving' \subseteq Tabs
        BY <2>4 DEF FinishLogout
      <4>3. QED
        BY <2>4, <4>1, <4>2 DEF FinishLogout
    <3>3. QED
      BY <1>b, <3>1, <3>2
  <2>5. QED
    BY <1>7, <2>1, <2>2, <2>3, <2>4 DEF Receive
<1>8. QED
  BY <1>1, <1>2, <1>3, <1>4, <1>5, <1>6, <1>7 DEF SessionsNext, Serve

(* One call changes what it is for.                                        *)
Becomes(t, c, what) ==
    \A u \in Tabs, d \in Calls :
        call'[u][d].of = IF u = t /\ d = c THEN what ELSE call[u][d].of

(* Another tab that was not stranded is not, whatever this one does.       *)
Alone(t) ==
    \A u \in Tabs \ {t} :
        /\ held'[u] = held[u] /\ verified'[u] = verified[u] /\ page'[u] = page[u]
        /\ u \in leaving => u \in leaving'

LEMMA CallBecomes ==
    ASSUME SessionsTypeOK, NEW t \in Tabs, NEW c \in Calls
    PROVE  /\ Forget(t, c) => Becomes(t, c, "none")
           /\ \A what, s : Send(t, c, what, s) =>
                 call[t][c].of = "none" /\ Becomes(t, c, what)
           /\ \A s : Step(t, c, s) => Becomes(t, c, call[t][c].of)
<1>1. Forget(t, c) => Becomes(t, c, "none")
  BY ForgetDrops DEF Becomes, Elsewhere, NoCall
<1>2. ASSUME NEW what, NEW s, Send(t, c, what, s)
      PROVE  call[t][c].of = "none" /\ Becomes(t, c, what)
  <2>1. /\ Elsewhere(t, c) /\ call[t][c] = NoCall
        /\ call'[t][c] = [of |-> what, token |-> held[t], at |-> s]
    BY <1>2, SendAdds
  <2>2. call[t][c].of = "none" /\ call'[t][c].of = what
    BY <2>1 DEF NoCall
  <2>3. QED
    BY <2>1, <2>2 DEF Becomes, Elsewhere
<1>3. ASSUME NEW s, Step(t, c, s)
      PROVE  Becomes(t, c, call[t][c].of)
  BY <1>3, StepMoves DEF Becomes, Elsewhere
<1>4. QED
  BY <1>1, <1>2, <1>3

(* Only the dashboard asks, and no tab is stranded, after any step.        *)
LEMMA StepKeepsSessions ==
    ASSUME SessionsInv, [SessionsNext]_sessionVars
    PROVE  AskedFromDashboard' /\ NotStranded'
<1>0. SessionsTypeOK
  BY DEF SessionsInv
<1> USE DEF SessionsInv, AskedFromDashboard, NotStranded, serverVars, browserVars
<1>1. ASSUME NEW t \in Tabs, Load(t)
      PROVE  AskedFromDashboard' /\ NotStranded'
  <2>1. /\ \A u \in Tabs \ {t} : call'[u] = call[u]
        /\ \A c \in Calls : call'[t][c].of = "none"
    BY <1>0, <1>1, ResetDrops DEF Load, NoCall
  <2>2. Alone(t) /\ ~verified'[t]
    BY <1>0, <1>1 DEF Load, Alone, SessionsTypeOK
  <2>3. QED
    BY <2>1, <2>2 DEF Alone
<1>2. ASSUME \/ LogIn \/ UNCHANGED sessionVars
             \/ \E t \in Tabs : GoToDashboard(t)
             \/ \E k \in Tokens : Expire(k)
      PROVE  AskedFromDashboard' /\ NotStranded'
  BY <1>0, <1>2 DEF LogIn, sessionVars, GoToDashboard, Expire, SessionsTypeOK
<1>3. ASSUME NEW t \in Tabs, NEW c \in Calls, AuthSync(t, c)
      PROVE  AskedFromDashboard' /\ NotStranded'
  <2>1. Alone(t) /\ UNCHANGED <<held, page, leaving>>
    BY <1>0, <1>3 DEF AuthSync, Alone, SessionsTypeOK
  <2>2. CASE held[t] # 0 /\ UNCHANGED call
    BY <2>1, <2>2 DEF Alone
  <2>3. CASE Send(t, c, "verify", "create")
    <3>1. call[t][c].of = "none" /\ Becomes(t, c, "verify")
      BY <1>0, <2>3, CallBecomes
    <3>2. QED
      BY <2>1, <3>1 DEF Alone, Becomes
  <2>4. QED
    BY <1>3, <2>2, <2>3 DEF AuthSync
<1>4. ASSUME NEW t \in Tabs, NEW c \in Calls, SendRequest(t, c)
      PROVE  AskedFromDashboard' /\ NotStranded'
  <2>1. PICK what \in {"data", "logout"} :
          Send(t, c, what, IF held[t] = 0 THEN "unauthorized" ELSE "find")
    BY <1>4 DEF SendRequest
  <2>2. call[t][c].of = "none" /\ Becomes(t, c, what)
    BY <1>0, <2>1, CallBecomes
  <2>3. page[t] = "dashboard" /\ UNCHANGED <<held, verified, page, leaving>>
    BY <1>4 DEF SendRequest
  <2>4. QED
    BY <2>2, <2>3 DEF Becomes
<1>5. ASSUME NEW t \in Tabs, NEW c \in Calls, Serve(t, c) \/ DatabaseFails(t, c)
      PROVE  AskedFromDashboard' /\ NotStranded'
  <2>1. Becomes(t, c, call[t][c].of)
    <3>1. CASE call' = [call EXCEPT ![t][c].token = issued + 1, ![t][c].at = "ok"]
      BY <1>0, <3>1 DEF Becomes, SessionsTypeOK
    <3>2. CASE \E s : Step(t, c, s)
      BY <1>0, <3>2, CallBecomes
    <3>3. QED
      BY <1>5, <3>1, <3>2
         DEF Serve, FindSession, DeleteSession, CreateSession, DatabaseFails
  <2>2. UNCHANGED <<held, verified, page, leaving>>
    BY <1>5 DEF Serve, FindSession, DeleteSession, CreateSession, DatabaseFails
  <2>3. QED
    BY <2>1, <2>2 DEF Becomes
<1>6. ASSUME NEW t \in Tabs, NEW c \in Calls, ReceiveToken(t, c)
      PROVE  AskedFromDashboard' /\ NotStranded'
  <2>1. Alone(t) /\ UNCHANGED page /\ call[t][c].of = "verify"
    BY <1>0, <1>6 DEF ReceiveToken, ClearStale, Answered, Alone, SessionsTypeOK
  <2>2. CASE Forget(t, c) /\ verified' = [verified EXCEPT ![t] = FALSE]
    <3>1. Becomes(t, c, "none")
      BY <1>0, <2>2, CallBecomes
    <3>2. ~verified'[t]
      BY <1>0, <2>2 DEF SessionsTypeOK
    <3>3. QED
      BY <2>1, <3>1, <3>2 DEF Alone, Becomes
  <2>3. CASE call' = [call EXCEPT ![t][c].of = "provision", ![t][c].at = "find"]
    <3>1. Becomes(t, c, "provision")
      BY <1>0, <2>3 DEF Becomes, SessionsTypeOK
    <3>2. QED
      BY <2>1, <3>1 DEF Alone, Becomes
  <2>4. QED
    BY <1>6, <2>2, <2>3 DEF ReceiveToken
<1>7. ASSUME NEW t \in Tabs, NEW c \in Calls,
             ReceiveProvisioned(t, c) \/ ReceiveData(t, c) \/ FinishLogout(t, c)
      PROVE  AskedFromDashboard' /\ NotStranded'
  <2>1. Becomes(t, c, "none") /\ UNCHANGED <<page, verified>>
    BY <1>0, <1>7, CallBecomes DEF ReceiveProvisioned, ReceiveData, FinishLogout
  <2>2. Alone(t)
    BY <1>0, <1>7 DEF ReceiveProvisioned, ReceiveData, FinishLogout, ClearStale,
                      Alone, SessionsTypeOK
  <2>3. t \in leaving' \/ (held' = held /\ leaving' = leaving /\ call[t][c].of = "data")
    BY <1>7 DEF ReceiveProvisioned, ReceiveData, FinishLogout, ClearStale, Answered
  <2>4. QED
    BY <2>1, <2>2, <2>3 DEF Alone, Becomes
<1>8. QED
  BY <1>1, <1>2, <1>3, <1>4, <1>5, <1>6, <1>7 DEF SessionsNext, Receive

LEMMA SessionsInvariant == SessionsSpec => []SessionsInv
<1>1. SessionsInv /\ [SessionsNext]_sessionVars => SessionsInv'
  BY StepKeepsSessionTypes, StepKeepsSessions DEF SessionsInv
<1>2. QED BY <1>1, InitSessionsInv, PTL DEF SessionsSpec

(* Tokens, sessions and the calls of the tabs keep their types, for any    *)
(* tabs, tokens and bounds.                                                *)
THEOREM SessionsTypeCorrect == SessionsSpec => []SessionsTypeOK
<1>1. SessionsInv => SessionsTypeOK BY DEF SessionsInv
<1>2. QED BY <1>1, SessionsInvariant, PTL

(* ApiClient and AuthSync: with any number of tabs, requests in flight,    *)
(* tokens, expiries and database errors, a tab that has lost its token has *)
(* yet to ask for one, is asking, or is about to load another page.        *)
THEOREM NoTabStranded == SessionsSpec => []NotStranded
<1>1. SessionsInv => NotStranded BY DEF SessionsInv
<1>2. QED BY <1>1, SessionsInvariant, PTL

-----------------------------------------------------------------------------
(* A batch leaves out no row that was there between where it starts and    *)
(* its last; a tick asks from a row that was sent.                         *)
TicksContiguous ==
    inOrder => \A t \in Ticks :
        /\ tick[t].from # 0 => tick[t].from \in sent
        /\ \A r \in tick[t].rows :
             r > tick[t].from /\ \A v \in visible :
                tick[t].from < v /\ v < r => v \in tick[t].rows

StreamInv ==
    /\ StreamTypeOK
    /\ sent \subseteq visible /\ \A t \in Ticks : tick[t].rows \subseteq visible
    /\ TicksContiguous /\ NoGaps

(* Every set of rows that is not empty has a latest one.                   *)
LEMMA LatestExists ==
  ASSUME NEW n \in Nat, NEW S \in SUBSET (1..n), S # {}
  PROVE  \E x \in S : \A y \in S : y <= x
<1> DEFINE Segments == {k..n : k \in S}
<1>1. Segments \subseteq FiniteSubsetsOf(Nat) /\ Segments # {}
  <2>1. ASSUME NEW k \in S PROVE k..n \in FiniteSubsetsOf(Nat)
    <3>1. k..n \in SUBSET Nat /\ k \in Int /\ n \in Int OBVIOUS
    <3>2. IsFiniteSet(k..n) BY <3>1, FS_Interval
    <3>q. QED BY <3>1, <3>2 DEF FiniteSubsetsOf
  <2>q. QED BY <2>1
<1>2. PICK I \in Segments :
        \A J \in Segments : ~ (<<J, I>> \in StrictSubsetOrdering(Nat))
  <2> HIDE DEF Segments
  <2>q. QED BY <1>1, FS_StrictSubsetOrderingWellFounded, WFMin
<1>3. PICK x \in S : I = x..n
  OBVIOUS
<1>4. ASSUME NEW y \in S, y > x PROVE FALSE
  <2>1. x \in x..n /\ x \notin y..n BY <1>4
  <2>2. y..n \in Segments /\ y..n \subseteq x..n /\ y..n # x..n
    BY <1>4, <2>1
  <2>3. <<y..n, x..n>> \in StrictSubsetOrdering(Nat)
    BY <2>2, <1>3 DEF StrictSubsetOrdering
  <2>q. QED BY <2>2, <2>3, <1>2, <1>3
<1>q. QED BY <1>4

(* ...which is what Max chooses.                                           *)
LEMMA LatestIsRow ==
  ASSUME NEW S \in SUBSET RowIds, S # {}
  PROVE  Max(S) \in S
<1>1. \E x \in S : \A y \in S : y <= x
  BY LatestExists, StreamAssumption DEF RowIds
<1>q. QED BY <1>1 DEF Max

(* The oldest rows after where a tick starts leave out none before them.   *)
LEMMA FindManyContiguous ==
  ASSUME visible \subseteq RowIds, NEW from \in RowIds \cup {0}
  PROVE  /\ FindMany(from) \subseteq visible
         /\ \A r \in FindMany(from) :
              r > from /\ \A v \in visible : from < v /\ v < r => v \in FindMany(from)
<1>1. ASSUME NEW r \in FindMany(from), NEW v \in visible, from < v, v < r
      PROVE  v \in FindMany(from)
  <2> DEFINE Before(x) == {w \in visible : from < w /\ w < x}
  <2>0. r \in visible /\ Cardinality(Before(r)) < BatchSize /\ r \in Nat /\ v \in Nat
    BY <1>1, StreamAssumption DEF FindMany, RowIds
  <2>1. IsFiniteSet(Before(r))
    <3>1. IsFiniteSet(RowIds) BY StreamAssumption, FS_Interval DEF RowIds
    <3>q. QED BY <3>1, FS_Subset
  <2>2. Before(v) \subseteq Before(r)
    <3>1. \A w \in visible : w \in Nat BY StreamAssumption DEF RowIds
    <3>2. r \in Nat /\ v \in Nat /\ v < r BY <1>1, <2>0
    <3>3. ASSUME NEW w \in visible, w < v PROVE w < r BY <3>1, <3>2, <3>3
    <3>q. QED BY <3>3
  <2>3. /\ Cardinality(Before(v)) <= Cardinality(Before(r))
        /\ Cardinality(Before(v)) \in Nat /\ Cardinality(Before(r)) \in Nat
    BY <2>1, <2>2, FS_Subset, FS_CardinalityType
  <2>4. Cardinality(Before(v)) < BatchSize
    BY <2>0, <2>3, StreamAssumption
  <2>q. QED BY <1>1, <2>4 DEF FindMany
<1>q. QED BY <1>1 DEF FindMany

(* The invariant of a connection.                                          *)
LEMMA StreamInvariant == StreamSpec => []StreamInv
<1>1. StreamInit => StreamInv
  <2> SUFFICES ASSUME StreamInit PROVE StreamInv OBVIOUS
  <2>1. visible \subseteq RowIds
    BY StreamAssumption DEF StreamInit, RowIds
  <2>2. NoTick \in [at : {"idle", "asked", "answered"}, from : RowIds \cup {0},
                    rows : SUBSET RowIds]
    BY DEF NoTick
  <2>3. StreamTypeOK
    BY <2>1, <2>2, StreamAssumption DEF StreamInit, StreamTypeOK
  <2>4. \A t \in Ticks : tick[t].rows = {} /\ tick[t].from = 0
    BY DEF StreamInit, NoTick
  <2>q. QED BY <2>1, <2>3, <2>4 DEF StreamInit, StreamInv, TicksContiguous, NoGaps
<1>2. StreamInv /\ [StreamNext]_streamVars => StreamInv'
  <2> SUFFICES ASSUME StreamInv, [StreamNext]_streamVars PROVE StreamInv' OBVIOUS
  <2>0. StreamTypeOK /\ \A x \in RowIds : x \in Nat /\ x # 0
    BY StreamAssumption DEF StreamInv, RowIds
  <2> DEFINE TickSet == [at : {"idle", "asked", "answered"}, from : RowIds \cup {0},
                         rows : SUBSET RowIds]
  <2>n. NoTick \in TickSet BY DEF NoTick
  <2>1. ASSUME NEW r \in RowIds, RowAppears(r) PROVE StreamInv'
    <3>1. StreamTypeOK' BY <2>0, <2>1 DEF RowAppears, StreamTypeOK
    <3>2. /\ visible \subseteq RowIds /\ sent \subseteq visible
          /\ \A t \in Ticks : tick[t].rows \subseteq visible
          /\ \A t \in Ticks : tick[t].from \in RowIds \cup {0}
      BY <2>0 DEF StreamInv, StreamTypeOK
    <3>3. inOrder' => inOrder /\ \A v \in visible : v < r
      BY <2>1 DEF RowAppears
    <3>4. NoGaps'
      BY <2>0, <2>1, <3>2, <3>3 DEF RowAppears, StreamInv, NoGaps
    <3>5. TicksContiguous'
      BY <2>0, <2>1, <3>2, <3>3 DEF RowAppears, StreamInv, TicksContiguous
    <3>6. sent' \subseteq visible' /\ \A t \in Ticks : tick'[t].rows \subseteq visible'
      BY <2>1, <3>2 DEF RowAppears
    <3>q. QED BY <3>1, <3>4, <3>5, <3>6 DEF StreamInv
  <2>2. ASSUME NEW t \in Ticks, NEW x \in TickSet,
               tick' = [tick EXCEPT ![t] = x],
               UNCHANGED <<visible, inOrder, lastId, sent, reconnects>>,
               x.rows \subseteq visible,
               inOrder => /\ x.from # 0 => x.from \in sent
                          /\ \A r \in x.rows :
                               r > x.from /\ \A v \in visible :
                                  x.from < v /\ v < r => v \in x.rows
        PROVE  StreamInv'
    <3>1. \A s \in Ticks : tick'[s] = IF s = t THEN x ELSE tick[s]
      BY <2>0, <2>2 DEF StreamTypeOK
    <3>2. tick' \in [Ticks -> TickSet] BY <2>0, <2>2 DEF StreamTypeOK
    <3>3. StreamTypeOK' BY <2>0, <2>2, <3>2 DEF StreamTypeOK
    <3>4. NoGaps' BY <2>2 DEF StreamInv, NoGaps
    <3>5. TicksContiguous' BY <2>2, <3>1 DEF StreamInv, TicksContiguous
    <3>q. QED BY <2>2, <3>1, <3>3, <3>4, <3>5 DEF StreamInv
  <2>3. ASSUME NEW t \in Ticks, StartTick(t) PROVE StreamInv'
    <3> DEFINE x == [at |-> "asked", from |-> lastId, rows |-> {}]
    <3>1. x \in TickSet BY <2>0 DEF StreamTypeOK
    <3>2. x.rows = {} /\ x.from = lastId OBVIOUS
    <3>3. tick' = [tick EXCEPT ![t] = x] BY <2>3 DEF StartTick
    <3> HIDE DEF x
    <3>q. QED BY <2>2, <2>3, <3>1, <3>2, <3>3 DEF StartTick, StreamInv, NoGaps
  <2>4. ASSUME NEW t \in Ticks, tick' = [tick EXCEPT ![t] = NoTick],
               UNCHANGED <<visible, inOrder, lastId, sent, reconnects>>
        PROVE  StreamInv'
    <3>1. NoTick.rows = {} /\ NoTick.from = 0 BY DEF NoTick
    <3>q. QED BY <2>2, <2>4, <2>n, <3>1
  <2>5. ASSUME NEW t \in Ticks, AnswerTick(t) PROVE StreamInv'
    <3> DEFINE from == tick[t].from
               x == [tick[t] EXCEPT !.at = "answered", !.rows = FindMany(from)]
    <3>1. CASE tick' = [tick EXCEPT ![t].at = "answered", ![t].rows = FindMany(tick[t].from)]
      <4>0. /\ from \in RowIds \cup {0} /\ visible \subseteq RowIds
            /\ tick[t] \in TickSet /\ tick \in [Ticks -> TickSet]
        BY <2>0 DEF StreamTypeOK
      <4>1. tick' = [tick EXCEPT ![t] = x] BY <3>1, <4>0
      <4>2. /\ FindMany(from) \subseteq visible
            /\ \A r \in FindMany(from) :
                 r > from /\ \A v \in visible : from < v /\ v < r => v \in FindMany(from)
        BY <4>0, FindManyContiguous
      <4>3. x \in TickSet /\ x.rows = FindMany(from) /\ x.from = from
        BY <4>0, <4>2
      <4>4. inOrder => (from # 0 => from \in sent)
        BY DEF StreamInv, TicksContiguous
      <4>5. UNCHANGED <<visible, inOrder, lastId, sent, reconnects>>
        BY <2>5 DEF AnswerTick
      <4> HIDE DEF x, from
      <4>q. QED BY <2>2, <4>1, <4>2, <4>3, <4>4, <4>5
    <3>2. CASE tick' = [tick EXCEPT ![t] = NoTick]
      BY <2>4, <2>5, <3>2 DEF AnswerTick
    <3>q. QED BY <2>5, <3>1, <3>2 DEF AnswerTick
  <2>6. ASSUME NEW t \in Ticks, WriteRows(t) PROVE StreamInv'
    <3> DEFINE rows == tick[t].rows
               from == tick[t].from
    <3>0. /\ rows \in SUBSET RowIds /\ rows \subseteq visible /\ visible \subseteq RowIds
          /\ sent \subseteq visible /\ from \in RowIds \cup {0}
          /\ tick \in [Ticks -> TickSet]
      BY <2>0 DEF StreamInv, StreamTypeOK
    <3>1. /\ sent' = sent \cup rows /\ lastId' = IF rows = {} THEN lastId ELSE Max(rows)
          /\ tick' = [tick EXCEPT ![t] = NoTick] /\ UNCHANGED <<visible, inOrder, reconnects>>
      BY <2>6 DEF WriteRows
    <3>2. rows # {} => Max(rows) \in rows BY <3>0, LatestIsRow
    <3>3. inOrder => /\ from # 0 => from \in sent
                     /\ \A r \in rows : \A v \in visible : from < v /\ v < r => v \in rows
      BY DEF StreamInv, TicksContiguous
    <3>4. \A s \in Ticks : tick'[s] = IF s = t THEN NoTick ELSE tick[s]
      BY <3>0, <3>1
    <3> HIDE DEF rows, from
    <3>5. StreamTypeOK'
      <4>1. lastId' \in RowIds \cup {0} BY <2>0, <3>0, <3>1, <3>2 DEF StreamTypeOK
      <4>2. tick' \in [Ticks -> TickSet] BY <2>n, <3>0, <3>1
      <4>q. QED BY <2>0, <3>0, <3>1, <4>1, <4>2 DEF StreamTypeOK
    <3>6. NoGaps'
      <4> SUFFICES ASSUME inOrder PROVE NoGaps' BY <3>1 DEF NoGaps
      <4>1. ASSUME NEW r \in rows, NEW v \in visible, v < r PROVE v \in sent'
        <5>1. CASE from < v BY <3>1, <3>3, <4>1, <5>1
        <5>2. CASE v <= from
          <6>1. from \in sent /\ from # 0 /\ from \in Nat /\ v \in Nat
            BY <2>0, <3>0, <3>3, <5>2
          <6>2. v = from \/ v < from BY <5>2, <6>1
          <6>3. v \in sent BY <4>1, <6>1, <6>2 DEF StreamInv, NoGaps
          <6>q. QED BY <3>1, <6>3
        <5>3. from \in Nat /\ v \in Nat BY <2>0, <3>0
        <5>q. QED BY <5>1, <5>2, <5>3
      <4>2. \A r \in sent' : {v \in visible' : v < r} \subseteq sent'
        BY <3>1, <4>1 DEF StreamInv, NoGaps
      <4>3. lastId' # 0 => lastId' \in sent'
        BY <3>1, <3>2 DEF StreamInv, NoGaps
      <4>q. QED BY <4>2, <4>3 DEF NoGaps
    <3>7. TicksContiguous'
      <4>1. NoTick.rows = {} /\ NoTick.from = 0 BY DEF NoTick
      <4>q. QED BY <3>1, <3>4, <4>1 DEF StreamInv, TicksContiguous
    <3>8. sent' \subseteq visible' /\ \A s \in Ticks : tick'[s].rows \subseteq visible'
      BY <3>0, <3>1, <3>4 DEF StreamInv, NoTick
    <3>q. QED BY <3>5, <3>6, <3>7, <3>8 DEF StreamInv
  <2>7. CASE Reconnect
    <3>1. \A t \in Ticks : tick'[t].rows = {} /\ tick'[t].from = 0
      BY <2>7 DEF Reconnect, NoTick
    <3>2. StreamTypeOK'
      <4>1. tick' \in [Ticks -> TickSet] BY <2>7, <2>n DEF Reconnect
      <4>2. reconnects' \in 0..MaxReconnects
        BY <2>0, <2>7, StreamAssumption DEF Reconnect, StreamTypeOK
      <4>q. QED BY <2>0, <2>7, <4>1, <4>2 DEF Reconnect, StreamTypeOK
    <3>q. QED
      BY <2>7, <3>1, <3>2 DEF Reconnect, StreamInv, TicksContiguous, NoGaps
  <2>8. CASE UNCHANGED streamVars
    BY <2>8 DEF streamVars, StreamInv, StreamTypeOK, TicksContiguous, NoGaps
  <2>q. QED BY <2>1, <2>3, <2>5, <2>6, <2>7, <2>8 DEF StreamNext
<1>q. QED BY <1>1, <1>2, PTL DEF StreamSpec

(* The rows of the streams and the ticks that read them keep their types,  *)
(* for any number of rows and ticks.                                       *)
THEOREM StreamTypeCorrect == StreamSpec => []StreamTypeOK
<1>1. StreamInv => StreamTypeOK BY DEF StreamInv
<1>q. QED BY <1>1, StreamInvariant, PTL

(* The event streams: while rows appear in the order of their ids, a       *)
(* connection has left out none before what it has sent, however its ticks *)
(* overlap, fail and finish out of order (setInterval does not wait).      *)
THEOREM StreamsHaveNoGaps == StreamSpec => []NoGaps
<1>1. StreamInv => NoGaps BY DEF StreamInv
<1>q. QED BY <1>1, StreamInvariant, PTL

-----------------------------------------------------------------------------
(* The time a ping names: a run of a process that was up then.             *)
Left(t) == t # 0 => /\ t <= time /\ startedAt # 0
                    /\ ~up => t <= stoppedAt

PingsLeft ==
    /\ up => startedAt # 0
    /\ startedAt <= time /\ stoppedAt <= time /\ report.began <= time
    /\ Len(report.pings) <= Len(Workers)
    /\ \A w \in WorkerSet : Left(queued[w]) /\ Left(lastPing[w])
    /\ \A i \in DOMAIN report.pings : Left(report.pings[i])

(* While the process is up and Redis has always been there, no run is late *)
(* and a ping waits only within the tick of its run; once a worker has had *)
(* time for a run, its latest ping is no older than its interval.          *)
OnTime(w) ==
    /\ time <= nextRun[w]
    /\ queued[w] # 0 => queued[w] = time /\ nextRun[w] = time + Interval[w]
    /\ nextRun[w] > startedAt + Interval[w] =>
         /\ queued[w] = 0 => lastPing[w] + Interval[w] = nextRun[w]
         /\ time > startedAt + Interval[w] /\ queued[w] # 0 =>
              lastPing[w] + Interval[w] = time

RunsOnTime ==
    /\ outages = 0 => redisUp
    /\ ~up => \A w \in WorkerSet : queued[w] = 0
    /\ up /\ outages = 0 => \A w \in WorkerSet : OnTime(w)

(* Nor is one that the request has read, at the time the request began.    *)
ReadsFresh ==
    up /\ outages = 0 =>
        \A i \in DOMAIN report.pings :
            report.began > startedAt + Interval[Workers[i]] =>
                report.pings[i] + Interval[Workers[i]] >= report.began

HealthInv == HealthTypeOK /\ PingsLeft /\ RunsOnTime /\ ReadsFresh

(* What the leaves below need of types and constants.                      *)
LEMMA HealthFacts ==
  ASSUME HealthTypeOK
  PROVE  /\ Len(Workers) \in Nat /\ DOMAIN Workers = 1..Len(Workers)
         /\ \A w \in WorkerSet : Interval[w] \in Nat /\ Interval[w] > 0 /\ StaleAfter(w) \in Nat
         /\ time \in Nat /\ stoppedAt \in Nat /\ startedAt \in Nat
         /\ outages \in Nat /\ starts \in Nat /\ report.began \in Nat
         /\ \A w \in WorkerSet :
              nextRun[w] \in Nat /\ queued[w] \in Nat /\ lastPing[w] \in Nat
         /\ report.pings \in Seq(0..MaxHealthTime) /\ Len(report.pings) \in Nat
         /\ DOMAIN report.pings = 1..Len(report.pings)
         /\ \A i \in DOMAIN report.pings : report.pings[i] \in Nat
BY HealthAssumption DEF HealthTypeOK, StaleAfter

(* Each step of the process, of Redis and of the request keeps the types.  *)
LEMMA HealthTypesStep ==
  ASSUME HealthTypeOK, [HealthNext]_healthVars
  PROVE  HealthTypeOK'
<1>r. \A w \in WorkerSet : nextRun[w] + Interval[w] \in Nat BY HealthFacts
<1> USE HealthAssumption, HealthFacts DEF HealthTypeOK
<1>1. CASE StartWorkers
  <2>1. nextRun' \in [WorkerSet -> Nat] BY <1>1 DEF StartWorkers
  <2>2. {up', redisUp'} \subseteq BOOLEAN BY <1>1 DEF StartWorkers
  <2>3. {stoppedAt', startedAt'} \subseteq 0..MaxHealthTime BY <1>1 DEF StartWorkers
  <2>4. starts' \in 0..MaxStarts BY <1>1 DEF StartWorkers
  <2>q. QED BY <1>1, <2>1, <2>2, <2>3, <2>4 DEF StartWorkers
<1>2. CASE StopWorkers
  <2>1. {up', redisUp'} \subseteq BOOLEAN BY <1>2 DEF StopWorkers
  <2>2. {stoppedAt', startedAt'} \subseteq 0..MaxHealthTime BY <1>2 DEF StopWorkers
  <2>3. queued' \in [WorkerSet -> 0..MaxHealthTime] BY <1>2 DEF StopWorkers
  <2>q. QED BY <1>2, <2>1, <2>2, <2>3 DEF StopWorkers
<1>3. CASE SwitchRedis BY <1>3 DEF SwitchRedis
<1>4. CASE PassTime BY <1>4 DEF PassTime
<1>5. ASSUME NEW w \in WorkerSet, RunWorker(w) PROVE HealthTypeOK'
  <2>1. queued' \in [WorkerSet -> 0..MaxHealthTime] BY <1>5 DEF RunWorker
  <2>2. nextRun' \in [WorkerSet -> Nat] BY <1>r, <1>5 DEF RunWorker
  <2>q. QED BY <1>5, <2>1, <2>2 DEF RunWorker
<1>6. ASSUME NEW w \in WorkerSet, WritePing(w) PROVE HealthTypeOK'
  <2>1. queued' \in [WorkerSet -> 0..MaxHealthTime] BY <1>6 DEF WritePing
  <2>2. lastPing' \in [WorkerSet -> 0..MaxHealthTime] BY <1>6 DEF WritePing
  <2>q. QED BY <1>6, <2>1, <2>2 DEF WritePing
<1>7. CASE ReadPing
  <2>1. Workers[Len(report.pings) + 1] \in WorkerSet
    BY <1>7 DEF ReadPing, WorkerSet
  <2>2. lastPing[Workers[Len(report.pings) + 1]] \in 0..MaxHealthTime BY <2>1
  <2>3. Append(report.pings, lastPing[Workers[Len(report.pings) + 1]])
          \in Seq(0..MaxHealthTime)
    BY <2>2
  <2>4. report'.pings \in Seq(0..MaxHealthTime) BY <1>7, <2>3 DEF ReadPing
  <2>5. report'.began \in 0..MaxHealthTime BY <1>7 DEF ReadPing
  <2>6. report'.answer \in [WorkerSet -> {"none", "running", "stopped"}]
    BY <1>7 DEF ReadPing, NoAnswer
  <2>7. report' \in [pings : Seq(0..MaxHealthTime), began : 0..MaxHealthTime,
                     answer : [WorkerSet -> {"none", "running", "stopped"}]]
    BY <1>7, <2>4, <2>5, <2>6 DEF ReadPing
  <2>q. QED BY <1>7, <2>7 DEF ReadPing
<1>8. CASE AnswerStatus
  <2>1. report'.pings = <<>> /\ report'.began = report.began
        /\ report'.answer \in [WorkerSet -> {"none", "running", "stopped"}]
    BY <1>8 DEF AnswerStatus
  <2>2. <<>> \in Seq(0..MaxHealthTime) OBVIOUS
  <2>q. QED BY <1>8, <2>1, <2>2 DEF AnswerStatus
<1>9. CASE UNCHANGED healthVars BY <1>9 DEF healthVars
<1>q. QED BY <1>1, <1>2, <1>3, <1>4, <1>5, <1>6, <1>7, <1>8, <1>9 DEF HealthNext

(* The ping the request reads next is of the worker it is asked for.       *)
LEMMA ReadAppends ==
  ASSUME HealthTypeOK, ReadPing
  PROVE  LET n == Len(report.pings) + 1 IN
         /\ n <= Len(Workers) /\ Workers[n] \in WorkerSet
         /\ Len(report'.pings) = n /\ DOMAIN report'.pings = 1..n
         /\ report'.pings[n] = lastPing[Workers[n]]
         /\ \A i \in 1..Len(report.pings) : report'.pings[i] = report.pings[i]
         /\ report'.began = IF report.pings = <<>> THEN time ELSE report.began
<1>1. Workers[Len(report.pings) + 1] \in WorkerSet
  BY HealthFacts DEF ReadPing, WorkerSet
<1>2. lastPing[Workers[Len(report.pings) + 1]] \in 0..MaxHealthTime
  BY <1>1 DEF HealthTypeOK
<1>q. QED BY <1>1, <1>2, HealthFacts DEF ReadPing

(* Every ping comes from a run of a process that was up.                   *)
LEMMA PingsLeftStep ==
  ASSUME HealthInv, [HealthNext]_healthVars
  PROVE  PingsLeft'
<1> USE HealthFacts DEF HealthInv, PingsLeft, Left
<1>0. HealthTypeOK OBVIOUS
<1>1. CASE StartWorkers
  BY <1>1 DEF StartWorkers, HealthTypeOK
<1>2. CASE StopWorkers BY <1>2 DEF StopWorkers
<1>3. CASE SwitchRedis BY <1>3 DEF SwitchRedis
<1>4. CASE PassTime BY <1>4 DEF PassTime
<1>5. ASSUME NEW w \in WorkerSet, RunWorker(w) PROVE PingsLeft'
  BY <1>5 DEF RunWorker, Due, HealthTypeOK
<1>6. ASSUME NEW w \in WorkerSet, WritePing(w) PROVE PingsLeft'
  BY <1>6 DEF WritePing, HealthTypeOK
<1>7. CASE ReadPing
  <2>1. \A i \in DOMAIN report'.pings :
           \/ i \in DOMAIN report.pings /\ report'.pings[i] = report.pings[i]
           \/ Workers[i] \in WorkerSet /\ report'.pings[i] = lastPing[Workers[i]]
    <3> SUFFICES ASSUME NEW i \in DOMAIN report'.pings
                 PROVE  \/ i \in DOMAIN report.pings /\ report'.pings[i] = report.pings[i]
                        \/ /\ Workers[i] \in WorkerSet
                           /\ report'.pings[i] = lastPing[Workers[i]]
      OBVIOUS
    <3>1. i \in DOMAIN report.pings \/ i = Len(report.pings) + 1
      BY <1>7, ReadAppends
    <3>q. QED BY <1>7, <3>1, ReadAppends
  <2>2. /\ UNCHANGED <<time, up, queued, lastPing, stoppedAt, startedAt>>
        /\ Len(report'.pings) <= Len(Workers) /\ report'.began <= time
    BY <1>7, ReadAppends DEF ReadPing
  <2>3. \A i \in DOMAIN report'.pings : Left(report'.pings[i])
    BY <2>1
  <2>q. QED BY <2>2, <2>3
<1>8. CASE AnswerStatus BY <1>8 DEF AnswerStatus
<1>9. CASE UNCHANGED healthVars BY <1>9 DEF healthVars
<1>q. QED BY <1>1, <1>2, <1>3, <1>4, <1>5, <1>6, <1>7, <1>8, <1>9 DEF HealthNext

(* No run is late and no ping waits while Redis is there.                  *)
LEMMA RunsOnTimeStep ==
  ASSUME HealthInv, [HealthNext]_healthVars
  PROVE  RunsOnTime'
<1>0. HealthTypeOK /\ RunsOnTime BY DEF HealthInv
<1> USE <1>0, HealthFacts
<1>1. CASE StartWorkers
  BY <1>1 DEF StartWorkers, RunsOnTime, OnTime
<1>2. CASE StopWorkers BY <1>2 DEF StopWorkers, RunsOnTime
<1>3. CASE SwitchRedis
  <2>1. outages' = 0 => outages = 0 /\ ~redisUp BY <1>3 DEF SwitchRedis
  <2>2. outages' # 0 BY <2>1 DEF RunsOnTime
  <2>q. QED BY <1>3, <2>2 DEF SwitchRedis, RunsOnTime
<1>4. CASE PassTime BY <1>4 DEF PassTime, Due, RunsOnTime, OnTime
<1>5. ASSUME NEW w \in WorkerSet, RunWorker(w) PROVE RunsOnTime'
  <2>1. /\ up /\ nextRun[w] <= time
        /\ UNCHANGED <<time, up, lastPing, outages, startedAt, redisUp>>
    BY <1>5 DEF RunWorker, Due
  <2>2. /\ queued'[w] = time /\ nextRun'[w] = nextRun[w] + Interval[w]
        /\ \A v \in WorkerSet : v # w => queued'[v] = queued[v] /\ nextRun'[v] = nextRun[v]
    BY <1>5 DEF RunWorker, HealthTypeOK
  <2>3. ASSUME NEW v \in WorkerSet, OnTime(v) PROVE OnTime(v)'
    <3>1. CASE v = w BY <2>1, <2>2, <2>3, <3>1 DEF OnTime
    <3>2. CASE v # w BY <2>1, <2>2, <2>3, <3>2 DEF OnTime
    <3>q. QED BY <3>1, <3>2
  <2>q. QED BY <2>1, <2>3 DEF RunsOnTime
<1>6. ASSUME NEW w \in WorkerSet, WritePing(w) PROVE RunsOnTime'
  <2>1. /\ queued[w] # 0 /\ UNCHANGED <<time, up, nextRun, outages, startedAt, redisUp>>
    BY <1>6 DEF WritePing
  <2>2. /\ queued'[w] = 0 /\ lastPing'[w] = queued[w]
        /\ \A v \in WorkerSet : v # w => queued'[v] = queued[v] /\ lastPing'[v] = lastPing[v]
    BY <1>6 DEF WritePing, HealthTypeOK
  <2>3. ASSUME NEW v \in WorkerSet, OnTime(v) PROVE OnTime(v)'
    <3>1. CASE v = w BY <2>1, <2>2, <2>3, <3>1 DEF OnTime
    <3>2. CASE v # w BY <2>1, <2>2, <2>3, <3>2 DEF OnTime
    <3>q. QED BY <3>1, <3>2
  <2>q. QED BY <2>1, <2>2, <2>3 DEF RunsOnTime
<1>7. CASE ReadPing BY <1>7 DEF ReadPing, RunsOnTime, OnTime
<1>8. CASE AnswerStatus BY <1>8 DEF AnswerStatus, RunsOnTime, OnTime
<1>9. CASE UNCHANGED healthVars BY <1>9 DEF healthVars, RunsOnTime, OnTime
<1>q. QED BY <1>1, <1>2, <1>3, <1>4, <1>5, <1>6, <1>7, <1>8, <1>9 DEF HealthNext

(* What the request has read stays fresh until it answers.                 *)
LEMMA ReadsFreshStep ==
  ASSUME HealthInv, [HealthNext]_healthVars
  PROVE  ReadsFresh'
<1>t. HealthTypeOK /\ PingsLeft /\ RunsOnTime /\ ReadsFresh BY DEF HealthInv
<1> USE <1>t, HealthFacts DEF ReadsFresh
<1>0. \A i \in DOMAIN report.pings : Workers[i] \in WorkerSet /\ i \in DOMAIN Workers
  BY DEF PingsLeft, WorkerSet
<1>1. CASE StartWorkers
  BY <1>0, <1>1 DEF StartWorkers, PingsLeft
<1>2. CASE StopWorkers BY <1>2 DEF StopWorkers
<1>3. CASE SwitchRedis
  <2>1. outages' = 0 => outages = 0 BY <1>3 DEF SwitchRedis
  <2>q. QED BY <1>3, <2>1 DEF SwitchRedis
<1>4. CASE ReadPing
  <2> SUFFICES ASSUME up, outages = 0, NEW i \in DOMAIN report'.pings,
                      report'.began > startedAt + Interval[Workers[i]]
               PROVE  report'.pings[i] + Interval[Workers[i]] >= report'.began
    BY <1>4 DEF ReadPing
  <2>1. CASE i \in DOMAIN report.pings
    <3>1. report.pings # <<>> BY <2>1
    <3>2. report'.pings[i] = report.pings[i] /\ report'.began = report.began
      BY <1>4, <2>1, <3>1, ReadAppends
    <3>q. QED BY <2>1, <3>2
  <2>2. CASE i \notin DOMAIN report.pings
    <3>0. i = Len(report.pings) + 1
      BY <1>4, <2>2, ReadAppends
    <3>1. /\ Workers[i] \in WorkerSet /\ report'.pings[i] = lastPing[Workers[i]]
          /\ report'.began <= time
      BY <1>4, <3>0, ReadAppends DEF PingsLeft
    <3>2. report'.began \in Nat BY <1>4, ReadAppends
    <3>3. lastPing[Workers[i]] + Interval[Workers[i]] >= time
      <4>1. time > startedAt + Interval[Workers[i]] BY <3>1, <3>2
      <4>2. OnTime(Workers[i]) BY <3>1 DEF RunsOnTime
      <4>q. QED BY <3>1, <4>1, <4>2 DEF OnTime
    <3>q. QED BY <3>1, <3>2, <3>3
  <2>q. QED BY <2>1, <2>2
<1>5. CASE AnswerStatus BY <1>5 DEF AnswerStatus
<1>6. CASE \/ PassTime \/ UNCHANGED healthVars
           \/ \E w \in WorkerSet : RunWorker(w) \/ WritePing(w)
  BY <1>6 DEF PassTime, RunWorker, WritePing, healthVars
<1>q. QED BY <1>1, <1>2, <1>3, <1>4, <1>5, <1>6 DEF HealthNext

(* The invariant of the status request.                                    *)
LEMMA HealthInvariant == HealthSpec => []HealthInv
<1>1. HealthInit => HealthInv
  <2> SUFFICES ASSUME HealthInit PROVE HealthInv OBVIOUS
  <2>1. <<>> \in Seq(0..MaxHealthTime) /\ Len(<<>>) = 0 /\ DOMAIN <<>> = {} OBVIOUS
  <2>2. HealthTypeOK
    <3>1. NoAnswer \in [WorkerSet -> {"none", "running", "stopped"}] BY DEF NoAnswer
    <3>2. report \in [pings : Seq(0..MaxHealthTime), began : 0..MaxHealthTime,
                      answer : [WorkerSet -> {"none", "running", "stopped"}]]
      BY <2>1, <3>1, HealthAssumption DEF HealthInit, NoReport
    <3>3. up \in BOOLEAN /\ redisUp \in BOOLEAN BY DEF HealthInit
    <3>4. 0 \in 0..MaxHealthTime /\ 1 \in 1..MaxHealthTime
          /\ 0 \in 0..MaxOutages /\ 0 \in 0..MaxStarts
      BY HealthAssumption
    <3>q. QED BY <3>2, <3>3, <3>4 DEF HealthInit, HealthTypeOK
  <2>q. QED
    BY <2>1, <2>2, HealthFacts DEF HealthInit, HealthInv, PingsLeft, Left, RunsOnTime,
       OnTime, ReadsFresh, NoReport
<1>2. HealthInv /\ [HealthNext]_healthVars => HealthInv'
  BY HealthTypesStep, PingsLeftStep, RunsOnTimeStep, ReadsFreshStep DEF HealthInv
<1>q. QED BY <1>1, <1>2, PTL DEF HealthSpec

(* Pings, timers and reports of the workers keep their types, for any      *)
(* workers, intervals and bounds.                                          *)
THEOREM HealthTypeCorrect == HealthSpec => []HealthTypeOK
<1>1. HealthInv => HealthTypeOK BY DEF HealthInv
<1>q. QED BY <1>1, HealthInvariant, PTL

(* GET /system/status: a worker it calls running was up within its limit,  *)
(* and one it calls stopped had no time for a run, whatever starts, stops, *)
(* waits and reads come between.                                           *)
THEOREM WorkersAreTold == HealthSpec => WorkersTold
<1>1. ASSUME HealthInv, AnswerStatus, NEW w \in WorkerSet
      PROVE  /\ report'.answer[w] = "running" =>
                  startedAt # 0 /\ (up \/ time <= stoppedAt + StaleAfter(w))
             /\ report'.answer[w] = "stopped" /\ up /\ outages = 0 =>
                  \/ report.began <= startedAt + Interval[w]
                  \/ (time - report.began) + Interval[w] > StaleAfter(w)
  <2> DEFINE i == CHOOSE j \in DOMAIN Workers : Workers[j] = w
  <2>1. i \in DOMAIN Workers /\ Workers[i] = w BY DEF WorkerSet
  <2>2. report'.answer[w] = IF StalePing(w, report.pings[i]) THEN "stopped" ELSE "running"
    BY <1>1 DEF AnswerStatus, HealthInv, HealthTypeOK
  <2> HIDE DEF i
  <2>3. i \in DOMAIN report.pings
    BY <1>1, <2>1, HealthFacts DEF AnswerStatus, HealthInv
  <2>4. ASSUME ~StalePing(w, report.pings[i])
        PROVE  startedAt # 0 /\ (up \/ time <= stoppedAt + StaleAfter(w))
    <3>1. /\ report.pings[i] # 0 /\ time <= report.pings[i] + StaleAfter(w)
          /\ Left(report.pings[i])
      BY <1>1, <2>3, <2>4, HealthFacts DEF StalePing, HealthInv, PingsLeft
    <3>q. QED BY <1>1, <2>3, <3>1, HealthFacts DEF HealthInv, Left
  <2>5. ASSUME StalePing(w, report.pings[i]), up, outages = 0
        PROVE  \/ report.began <= startedAt + Interval[w]
               \/ (time - report.began) + Interval[w] > StaleAfter(w)
    <3> SUFFICES ASSUME ~(report.began <= startedAt + Interval[w])
                 PROVE  (time - report.began) + Interval[w] > StaleAfter(w)
      OBVIOUS
    <3>1. /\ time \in Nat /\ startedAt \in Nat /\ report.began \in Nat
          /\ Interval[w] \in Nat /\ StaleAfter(w) \in Nat /\ report.pings[i] \in Nat
          /\ report.began <= time
      BY <1>1, <2>3, HealthFacts DEF HealthInv, PingsLeft
    <3>2. report.pings[i] + Interval[w] >= report.began
      BY <1>1, <2>1, <2>3, <2>5, <3>1 DEF HealthInv, ReadsFresh
    <3>3. report.pings[i] # 0 BY <3>1, <3>2
    <3>q. QED BY <2>5, <3>1, <3>2, <3>3 DEF StalePing
  <2>q. QED BY <2>2, <2>4, <2>5
<1>2. HealthInv /\ [HealthNext]_healthVars =>
        [AnswerStatus => \A w \in WorkerSet :
            /\ report'.answer[w] = "running" =>
                 startedAt # 0 /\ (up \/ time <= stoppedAt + StaleAfter(w))
            /\ report'.answer[w] = "stopped" /\ up /\ outages = 0 =>
                 \/ report.began <= startedAt + Interval[w]
                 \/ (time - report.began) + Interval[w] > StaleAfter(w)]_healthVars
  BY <1>1
<1>q. QED BY <1>2, HealthInvariant, PTL DEF HealthSpec, WorkersTold

-----------------------------------------------------------------------------
(* The range of a reading that is not torn holds what its answers add up   *)
(* to; the wallet's total is in it while the reading lasts.                *)
WithinRange(q) == ~q.torn => q.low <= q.e + q.n /\ q.e + q.n <= q.high

ReadingTrue(at, q) ==
    /\ at = "idle" => q = NoReading
    /\ at = "save" => BothRead(q)
    /\ BothRead(q) => WithinRange(q)
    /\ at = "read" /\ ~q.torn => q.low <= Total(usdc) /\ Total(usdc) <= q.high
    /\ at = "read" /\ ~q.torn /\ HalfRead(q) =>
         q.e \in {-1, usdc.e} /\ q.n \in {-1, usdc.n}

ReadingsTrue == \A r \in Readers : ReadingTrue(reader[r].at, reader[r].of)

CacheTrue ==
    /\ BothRead(cache.of) /\ WithinRange(cache.of)
    /\ cache.saved <= minute /\ cache.until <= cache.saved + BalanceTTL

BasisTrue ==
    /\ basis.used => basis.age < BalanceTTL
    /\ BothRead(basis.of) /\ WithinRange(basis.of)

FundingInv ==
    /\ FundingTypeOK
    /\ basis \in [used : BOOLEAN, of : Readings, age : Nat]
    /\ ReadingsTrue /\ CacheTrue /\ BasisTrue

-----------------------------------------------------------------------------
(* What evaluateGuardrails promises of the size it allows.                 *)

Fraction(q) == q.n \in Nat /\ q.d \in Nat \ {0}

(* A size whose cost does not exceed an amount exceeds it by no more than  *)
(* half a hundredth of a share once it is rounded.                         *)
LEMMA RoundedCosts ==
  ASSUME NEW q, Fraction(q), NEW p \in Nat, NEW cents \in Nat,
         ~CostExceeds(q, p, cents)
  PROVE  /\ Rounded(q) \in Nat
         /\ 2 * Rounded(q) * p <= 2 * 100 * cents + p
<1> DEFINE n == q.n
           d == q.d
           k == Rounded(q)
<1>1. n \in Nat /\ d \in Nat /\ d > 0 BY DEF Fraction
<1>2. n * p <= 100 * cents * d BY <1>1 DEF CostExceeds
<1>3. k = (2 * n + d) \div (2 * d) BY DEF Rounded
<1> HIDE DEF n, d, k
<1>4. k \in Nat /\ (2 * d) * k <= 2 * n + d BY <1>1, <1>3
<1>5. ((2 * d) * k) * p <= (2 * n + d) * p BY <1>1, <1>4
<1>6. (2 * n + d) * p = 2 * (n * p) + d * p BY <1>1
<1>7. ((2 * d) * k) * p = d * (2 * k * p) BY <1>1, <1>4
<1>8. 2 * (100 * cents * d) + d * p = d * (2 * 100 * cents + p) BY <1>1
<1>9. n * p \in Nat /\ d * p \in Nat /\ 100 * cents * d \in Nat /\ 2 * k * p \in Nat
      /\ 2 * 100 * cents + p \in Nat
  BY <1>1, <1>4
<1>10. d * (2 * k * p) <= d * (2 * 100 * cents + p)
  <2>1. d * (2 * k * p) <= 2 * (n * p) + d * p BY <1>5, <1>6, <1>7
  <2>2. 2 * (n * p) + d * p <= 2 * (100 * cents * d) + d * p BY <1>2, <1>9
  <2>3. d * (2 * k * p) \in Nat /\ 2 * (n * p) + d * p \in Nat
        /\ 2 * (100 * cents * d) + d * p \in Nat
    BY <1>1, <1>9
  <2>q. QED BY <2>1, <2>2, <2>3, <1>8
<1>11. 2 * k * p <= 2 * 100 * cents + p
  BY <1>1, <1>9, <1>10
<1>q. QED BY <1>4, <1>11 DEF k

(* As much as an amount buys costs that amount.                            *)
LEMMA AsMuchCosts ==
  ASSUME NEW cents \in Nat, NEW p \in Nat, p > 0, NEW more \in Nat, cents <= more
  PROVE  Fraction(AsMuchAs(cents, p)) /\ ~CostExceeds(AsMuchAs(cents, p), p, more)
<1>1. Fraction(AsMuchAs(cents, p)) BY DEF Fraction, AsMuchAs
<1>2. (100 * cents) * p <= 100 * more * p
  <2>1. cents * p <= more * p OBVIOUS
  <2>2. (100 * cents) * p = 100 * (cents * p) /\ 100 * more * p = 100 * (more * p) OBVIOUS
  <2>3. cents * p \in Nat /\ more * p \in Nat OBVIOUS
  <2>q. QED BY <2>1, <2>2, <2>3
<1>3. (100 * cents) * p \in Nat /\ 100 * more * p \in Nat OBVIOUS
<1>q. QED BY <1>1, <1>2, <1>3 DEF AsMuchAs, CostExceeds

(* A size that costs more than nothing has a price.                        *)
LEMMA CostlyHasPrice ==
  ASSUME NEW q, Fraction(q), NEW p \in Nat, NEW cents \in Nat, CostExceeds(q, p, cents)
  PROVE  p > 0
<1>1. q.n * p > 100 * cents * q.d BY DEF CostExceeds
<1>2. 100 * cents * q.d \in Nat /\ q.n \in Nat BY DEF Fraction
<1>3. p # 0 BY <1>1, <1>2
<1>q. QED BY <1>3

Profiles == [minOdds : Nat, maxOdds : Nat, maxOpenPositions : Nat,
             copyPercentage : Nat, maxPosition : Nat]
LeaderTrade(o) == o.side \in {"BUY", "SELL"} /\ o.price \in Nat /\ o.size \in Nat

(* The size before the balance is looked at costs at most the largest      *)
(* position.                                                               *)
LEMMA CopySizeCapped ==
  ASSUME NEW profile \in Profiles, NEW o, LeaderTrade(o)
  PROVE  /\ Fraction(CopySize(profile, o))
         /\ ~CostExceeds(CopySize(profile, o), o.price, profile.maxPosition)
<1> DEFINE share == [n |-> o.size * profile.copyPercentage, d |-> 100]
<1>1. o.price \in Nat /\ profile.maxPosition \in Nat
      /\ o.size * profile.copyPercentage \in Nat
  BY DEF Profiles, LeaderTrade
<1>2. Fraction(share) BY <1>1 DEF Fraction
<1>3. CopySize(profile, o) =
        IF CostExceeds(share, o.price, profile.maxPosition)
        THEN AsMuchAs(profile.maxPosition, o.price) ELSE share
  BY DEF CopySize
<1> HIDE DEF share
<1>4. CASE CostExceeds(share, o.price, profile.maxPosition)
  BY <1>1, <1>2, <1>3, <1>4, CostlyHasPrice, AsMuchCosts
<1>5. CASE ~CostExceeds(share, o.price, profile.maxPosition)
  BY <1>2, <1>3, <1>5
<1>q. QED BY <1>4, <1>5

(* What is left of it when the balance has been looked at costs no more    *)
(* than either, if it buys.                                                *)
LEMMA AffordedCapped ==
  ASSUME NEW profile \in Profiles, NEW o, LeaderTrade(o), NEW balance \in Nat
  PROVE  LET size == AffordedSize(profile, o, balance) IN
         /\ Fraction(size)
         /\ ~CostExceeds(size, o.price, profile.maxPosition)
         /\ o.side = "BUY" => ~CostExceeds(size, o.price, balance)
<1> DEFINE size == AffordedSize(profile, o, balance)
           full == CopySize(profile, o)
<1>1. /\ Fraction(full) /\ ~CostExceeds(full, o.price, profile.maxPosition)
      /\ o.price \in Nat /\ profile.maxPosition \in Nat
  BY CopySizeCapped DEF LeaderTrade, Profiles
<1>2. size = IF CostExceeds(full, o.price, balance) /\ o.side = "BUY"
             THEN AsMuchAs(balance, o.price) ELSE full
  BY DEF AffordedSize, Short
<1> HIDE DEF size, full
<1>3. CASE CostExceeds(full, o.price, balance) /\ o.side = "BUY"
  <2>1. o.price > 0 BY <1>1, <1>3, CostlyHasPrice
  <2>2. size = AsMuchAs(balance, o.price) BY <1>2, <1>3
  <2>3. balance <= profile.maxPosition
    <3> SUFFICES ASSUME balance > profile.maxPosition PROVE FALSE BY <1>1
    <3>1. /\ full.n * o.price > 100 * balance * full.d
          /\ full.n * o.price <= 100 * profile.maxPosition * full.d
          /\ full.n \in Nat /\ full.d \in Nat
      BY <1>1, <1>3 DEF CostExceeds, Fraction
    <3>2. 100 * profile.maxPosition * full.d <= 100 * balance * full.d
      BY <1>1, <3>1
    <3>3. full.n * o.price \in Nat /\ 100 * profile.maxPosition * full.d \in Nat
          /\ 100 * balance * full.d \in Nat
      BY <1>1, <3>1
    <3>q. QED BY <3>1, <3>2, <3>3
  <2>q. QED BY <1>1, <2>1, <2>2, <2>3, AsMuchCosts DEF size
<1>4. CASE ~(CostExceeds(full, o.price, balance) /\ o.side = "BUY")
  <2>1. size = full BY <1>2, <1>4
  <2>q. QED BY <1>1, <1>4, <2>1 DEF size
<1>q. QED BY <1>3, <1>4

(* evaluateGuardrails: an allowed size costs at most the largest position  *)
(* and, if it buys, the balance, but for the rounding; a copy is refused   *)
(* for want of funds only below a dollar.                                  *)
THEOREM GuardrailsBound ==
  ASSUME NEW profile \in Profiles, NEW o, LeaderTrade(o),
         NEW open, NEW balance \in Nat
  PROVE  LET made == EvaluateGuardrails(profile, open, o, balance)
             AtMost(cents) == 2 * made.size * o.price <= 2 * 100 * cents + o.price
         IN  /\ made.allowed => AtMost(profile.maxPosition) /\ made.size \in Nat
             /\ made.allowed /\ o.side = "BUY" => AtMost(balance)
             /\ made.why = "balance" => balance < 100
<1> DEFINE made == EvaluateGuardrails(profile, open, o, balance)
           size == AffordedSize(profile, o, balance)
<1>1. /\ made.allowed => made.size = Rounded(size)
      /\ made.why = "balance" => balance < 100
  BY DEF EvaluateGuardrails, Refuse
<1>2. /\ Fraction(size) /\ o.price \in Nat /\ profile.maxPosition \in Nat
      /\ ~CostExceeds(size, o.price, profile.maxPosition)
      /\ o.side = "BUY" => ~CostExceeds(size, o.price, balance)
  BY AffordedCapped DEF LeaderTrade, Profiles
<1> HIDE DEF made, size
<1>3. /\ Rounded(size) \in Nat
      /\ 2 * Rounded(size) * o.price <= 2 * 100 * profile.maxPosition + o.price
  BY <1>2, RoundedCosts
<1>4. o.side = "BUY" => 2 * Rounded(size) * o.price <= 2 * 100 * balance + o.price
  BY <1>2, RoundedCosts
<1>q. QED BY <1>1, <1>3, <1>4 DEF made

-----------------------------------------------------------------------------
(* The readings of the balance.                                            *)

Activations == [at : {"idle", "read", "save"}, of : Readings]

(* What the proofs below need of types and constants.                      *)
LEMMA FundingFacts ==
  ASSUME FundingInv
  PROVE  /\ usdc.e \in Nat /\ usdc.n \in Nat /\ usdc.e \in Holdings /\ usdc.n \in Holdings
         /\ Total(usdc) \in Nat
         /\ \A r \in Readers : /\ reader[r] \in Activations /\ reader[r].of \in Readings
                               /\ ReadingTrue(reader[r].at, reader[r].of)
         /\ cache.of \in Readings /\ cache.saved \in Nat /\ cache.until \in Nat
         /\ NoReading \in Readings /\ NewReading \in Readings
         /\ minute \in Nat /\ BalanceTTL \in Nat \ {0}
<1>1. /\ usdc \in [e : Holdings, n : Holdings] /\ Holdings \subseteq Nat
      /\ reader \in [Readers -> Activations] /\ minute \in 0..MaxFundingTime
      /\ cache \in [of : Readings, saved : Nat, until : Nat]
      /\ MaxFundingTime \in Nat /\ BalanceTTL \in Nat \ {0}
      /\ \A r \in Readers : ReadingTrue(reader[r].at, reader[r].of)
  BY FundingAssumption DEF FundingInv, FundingTypeOK, Activations, ReadingsTrue
<1>2. usdc.e \in Nat /\ usdc.n \in Nat /\ usdc.e \in Holdings /\ usdc.n \in Holdings
  BY <1>1
<1>3. Total(usdc) \in Nat BY <1>2 DEF Total
<1>4. NoReading \in Readings /\ NewReading \in Readings
  BY <1>3 DEF Readings, NoReading, NewReading
<1>5. \A r \in Readers : reader[r] \in Activations /\ reader[r].of \in Readings
  BY <1>1 DEF Activations
<1>q. QED BY <1>1, <1>2, <1>3, <1>4, <1>5

(* One activation that goes on to a true reading leaves all of them true.  *)
LEMMA OneMoves ==
  ASSUME FundingInv, NEW r \in Readers, NEW x \in Activations,
         reader' = [reader EXCEPT ![r] = x], usdc' = usdc,
         ReadingTrue(x.at, x.of)
  PROVE  reader' \in [Readers -> Activations] /\ ReadingsTrue'
<1>1. reader \in [Readers -> Activations]
  BY DEF FundingInv, FundingTypeOK, Activations
<1>2. \A s \in Readers : reader'[s] = IF s = r THEN x ELSE reader[s]
  BY <1>1
<1>3. \A s \in Readers : ReadingTrue(reader'[s].at, reader'[s].of)
  BY <1>2, FundingFacts
<1>q. QED BY <1>1, <1>3 DEF ReadingsTrue, ReadingTrue, Total

(* Where activations begin and end.                                        *)
LEMMA BeginsTrue ==
  ASSUME FundingInv
  PROVE  /\ [at |-> "read", of |-> NewReading] \in Activations
         /\ ReadingTrue("read", NewReading)
         /\ [at |-> "idle", of |-> NoReading] \in Activations
         /\ ReadingTrue("idle", NoReading)
<1> USE FundingFacts
<1>1. NewReading \in Readings /\ NoReading \in Readings OBVIOUS
<1>2. ReadingTrue("read", NewReading)
  BY DEF ReadingTrue, NewReading, BothRead, HalfRead
<1>3. ReadingTrue("idle", NoReading)
  BY DEF ReadingTrue, NoReading, BothRead, WithinRange, HalfRead
<1>q. QED BY <1>1, <1>2, <1>3 DEF Activations

(* The reading after one contract has answered, and after its call failed. *)
LEMMA AnswerTrue ==
  ASSUME FundingInv, NEW r \in Readers, NEW c \in {"e", "n"},
         Reading(r), reader[r].of[c] = -1
  PROVE  LET q == [reader[r].of EXCEPT ![c] = usdc[c]] IN
         q \in Readings /\ ReadingTrue("read", q)
<1> DEFINE o == reader[r].of
           q == [o EXCEPT ![c] = usdc[c]]
<1>1. /\ o \in Readings /\ ReadingTrue("read", o) /\ o[c] = -1
      /\ usdc.e \in Nat /\ usdc.n \in Nat /\ usdc.e \in Holdings /\ usdc.n \in Holdings
      /\ Total(usdc) \in Nat
  BY FundingFacts DEF Reading
<1>2. /\ o.e \in Int /\ o.n \in Int /\ o.high \in Nat /\ o.low \in Nat /\ o.torn \in BOOLEAN
  <2>1. Holdings \cup {0, -1} \subseteq Int BY FundingAssumption
  <2>q. QED BY <1>1, <2>1 DEF Readings
<1> SUFFICES q \in Readings /\ ReadingTrue("read", q)
  OBVIOUS
<1>3. CASE c = "e"
  <2>1. /\ q \in Readings /\ q.e = usdc.e /\ q.n = o.n /\ o.e = -1
        /\ q.high = o.high /\ q.low = o.low /\ q.torn = o.torn
    BY <1>1, <1>3 DEF Readings
  <2> HIDE DEF q, o
  <2>q. QED
    BY <1>1, <1>2, <2>1 DEF ReadingTrue, BothRead, HalfRead, WithinRange, Total
<1>4. CASE c = "n"
  <2>1. /\ q \in Readings /\ q.n = usdc.n /\ q.e = o.e /\ o.n = -1
        /\ q.high = o.high /\ q.low = o.low /\ q.torn = o.torn
    BY <1>1, <1>4 DEF Readings
  <2> HIDE DEF q, o
  <2>q. QED
    BY <1>1, <1>2, <2>1 DEF ReadingTrue, BothRead, HalfRead, WithinRange, Total
<1>q. QED BY <1>3, <1>4

(* A torn reading promises nothing.                                        *)
LEMMA TornTrue ==
  ASSUME NEW q \in Readings, q.torn
  PROVE  ReadingTrue("read", q)
BY DEF ReadingTrue, WithinRange

(* A step that reads, decides or gives up leaves wallet and cache alone.   *)
LEMMA ReadStep ==
  ASSUME FundingInv, NEW r \in Readers, NEW x \in Activations,
         ReadingTrue(x.at, x.of),
         reader' \in {reader, [reader EXCEPT ![r] = x]},
         UNCHANGED <<usdc, cache, minute, changes>>,
         \/ basis' = NoBasis
         \/ \E q \in Readings, age \in Nat :
               /\ Decide(q, age)
               /\ BothRead(q) /\ WithinRange(q) /\ age < BalanceTTL
  PROVE  FundingInv'
<1>1. reader' \in [Readers -> Activations] /\ ReadingsTrue'
  <2>1. CASE reader' = reader
    BY <2>1 DEF FundingInv, FundingTypeOK, Activations, ReadingsTrue, ReadingTrue, Total
  <2>2. CASE reader' = [reader EXCEPT ![r] = x]
    BY <2>2, OneMoves
  <2>q. QED BY <2>1, <2>2
<1>2. FundingTypeOK' BY <1>1 DEF FundingInv, FundingTypeOK, Activations
<1>3. CacheTrue' BY DEF FundingInv, CacheTrue
<1>4. basis' \in [used : BOOLEAN, of : Readings, age : Nat] /\ BasisTrue'
  <2>1. CASE basis' = NoBasis
    <3>1. NoReading \in Readings BY FundingFacts
    <3>q. QED
      BY <2>1, <3>1 DEF NoBasis, BasisTrue, NoReading, BothRead, WithinRange
  <2>2. CASE \E q \in Readings, age \in Nat :
               /\ Decide(q, age)
               /\ BothRead(q) /\ WithinRange(q) /\ age < BalanceTTL
    BY <2>2 DEF Decide, BasisTrue
  <2>q. QED BY <2>1, <2>2
<1>q. QED BY <1>1, <1>2, <1>3, <1>4 DEF FundingInv

(* Reading the cache, or beginning to read the contracts.                  *)
LEMMA StartsKeepFunding ==
  ASSUME FundingInv, NEW r \in Readers,
         StartSync(r) \/ GetCached(r) \/ GiveUp(r)
  PROVE  FundingInv'
<1>1. CASE StartSync(r)
  BY <1>1, BeginsTrue, ReadStep DEF StartSync, Begin
<1>2. CASE GetCached(r)
  <2>1. CASE ~CacheHit /\ Begin(r) /\ basis' = NoBasis
    BY <1>2, <2>1, BeginsTrue, ReadStep DEF GetCached, Begin
  <2>2. CASE CacheHit /\ Decide(cache.of, minute - cache.saved) /\ UNCHANGED reader
    <3>1. minute - cache.saved \in Nat /\ minute - cache.saved < BalanceTTL
      BY <2>2, FundingFacts DEF CacheHit, FundingInv, CacheTrue
    <3>2. cache.of \in Readings /\ BothRead(cache.of) /\ WithinRange(cache.of)
      BY FundingFacts DEF FundingInv, CacheTrue
    <3>q. QED BY <1>2, <2>2, <3>1, <3>2, BeginsTrue, ReadStep DEF GetCached
  <2>q. QED BY <1>2, <2>1, <2>2 DEF GetCached
<1>3. CASE GiveUp(r)
  BY <1>3, BeginsTrue, ReadStep DEF GiveUp, End
<1>q. QED BY <1>1, <1>2, <1>3

(* A contract answers, or its call fails.                                  *)
LEMMA CallKeepsFunding ==
  ASSUME FundingInv, NEW r \in Readers, NEW c \in {"e", "n"}, CallContract(r, c)
  PROVE  FundingInv'
<1>0. /\ Reading(r) /\ reader[r].of[c] = -1 /\ basis' = NoBasis
      /\ UNCHANGED <<usdc, cache, minute, changes>>
      /\ reader[r] \in Activations /\ reader[r].of \in Readings
      /\ reader \in [Readers -> Activations]
  BY FundingFacts DEF CallContract, FundingInv, FundingTypeOK, Activations
<1>1. CASE reader' = [reader EXCEPT ![r].of[c] = usdc[c]]
  <2> DEFINE q == [reader[r].of EXCEPT ![c] = usdc[c]]
             x == [reader[r] EXCEPT !.of = q]
  <2>1. q \in Readings /\ ReadingTrue("read", q) BY <1>0, AnswerTrue
  <2>2. reader' = [reader EXCEPT ![r] = x] BY <1>0, <1>1
  <2> HIDE DEF q
  <2>3. x \in Activations /\ x.at = "read" /\ x.of = q
    BY <1>0, <2>1 DEF Activations, Reading
  <2> HIDE DEF x
  <2>q. QED BY <1>0, <2>1, <2>2, <2>3, ReadStep
<1>2. CASE reader' = [reader EXCEPT ![r] = [Torn(r) EXCEPT !.of[c] = 0]]
  <2> DEFINE x == [Torn(r) EXCEPT !.of[c] = 0]
  <2>1. x \in Activations /\ x.at = "read" /\ x.of.torn
    BY <1>0 DEF Activations, Reading, Readings, Torn
  <2>2. reader' = [reader EXCEPT ![r] = x] BY <1>2
  <2> HIDE DEF x
  <2>3. ReadingTrue(x.at, x.of) BY <2>1, TornTrue DEF Activations
  <2>q. QED BY <1>0, <2>1, <2>2, <2>3, ReadStep
<1>q. QED BY <1>1, <1>2 DEF CallContract

(* The two answers are added up.                                           *)
LEMMA AddUpKeepsFunding ==
  ASSUME FundingInv, NEW r \in Readers, AddUp(r)
  PROVE  FundingInv'
<1> DEFINE q == reader[r].of
           x == [reader[r] EXCEPT !.at = "save"]
<1>0. /\ Reading(r) /\ BothRead(q) /\ UNCHANGED <<usdc, cache, minute, changes>>
      /\ reader[r] \in Activations /\ q \in Readings
      /\ ReadingTrue(reader[r].at, q)
  BY FundingFacts DEF AddUp
<1>1. CASE Move(r, "save") /\ basis' = NoBasis
  <2>1. reader' = [reader EXCEPT ![r] = x] BY <1>1 DEF Move
  <2>2. x \in Activations /\ x.at = "save" /\ x.of = q BY <1>0 DEF Activations
  <2> HIDE DEF x
  <2>3. ReadingTrue(x.at, x.of) BY <1>0, <2>2 DEF ReadingTrue
  <2>q. QED BY <1>0, <1>1, <2>1, <2>2, <2>3, ReadStep
<1>2. CASE Decide(q, 0) /\ End(r)
  <2>1. BothRead(q) /\ WithinRange(q) /\ 0 < BalanceTTL /\ 0 \in Nat
    BY <1>0, FundingAssumption DEF ReadingTrue
  <2>q. QED BY <1>0, <1>2, <2>1, BeginsTrue, ReadStep DEF End
<1>q. QED BY <1>1, <1>2 DEF AddUp

(* The balance goes to the cache, and to the copy that has read it.        *)
LEMMA SaveKeepsFunding ==
  ASSUME FundingInv, NEW r \in Readers, SaveBalance(r)
  PROVE  FundingInv'
<1> DEFINE q == reader[r].of
<1>1. /\ q \in Readings /\ BothRead(q) /\ WithinRange(q)
      /\ minute \in Nat /\ BalanceTTL \in Nat /\ 0 < BalanceTTL
  BY FundingFacts DEF SaveBalance, ReadingTrue
<1>2. /\ cache' = [of |-> q, saved |-> minute, until |-> minute + BalanceTTL]
      /\ reader' = [reader EXCEPT ![r] = [at |-> "idle", of |-> NoReading]]
      /\ UNCHANGED <<usdc, minute, changes>>
      /\ basis' = NoBasis \/ Decide(q, 0)
  BY DEF SaveBalance, End
<1> HIDE DEF q
<1>3. reader' \in [Readers -> Activations] /\ ReadingsTrue'
  BY <1>2, BeginsTrue, OneMoves
<1>4. cache' \in [of : Readings, saved : Nat, until : Nat] /\ CacheTrue'
  BY <1>1, <1>2 DEF CacheTrue
<1>5. FundingTypeOK' BY <1>2, <1>3, <1>4 DEF FundingInv, FundingTypeOK, Activations
<1>6. basis' \in [used : BOOLEAN, of : Readings, age : Nat] /\ BasisTrue'
  <2>1. CASE basis' = NoBasis
    <3>1. NoReading \in Readings BY FundingFacts
    <3>q. QED
      BY <2>1, <3>1 DEF NoBasis, BasisTrue, NoReading, BothRead, WithinRange
  <2>2. CASE Decide(q, 0) BY <1>1, <2>2 DEF Decide, BasisTrue
  <2>q. QED BY <1>2, <2>1, <2>2
<1>q. QED BY <1>3, <1>4, <1>5, <1>6 DEF FundingInv

(* The wallet changes while balances are read.                             *)
LEMMA ChangeKeepsFunding ==
  ASSUME FundingInv, NEW next \in [e : Holdings, n : Holdings], ChangeUsdc(next)
  PROVE  FundingInv'
<1>0. /\ usdc' = next /\ basis' = NoBasis /\ UNCHANGED <<cache, minute>>
      /\ changes' \in 0..MaxChanges /\ Total(next) \in Nat
      /\ next.e \in Nat /\ next.n \in Nat
  <2>1. next.e \in Nat /\ next.n \in Nat BY FundingAssumption
  <2>2. Total(next) \in Nat BY <2>1 DEF Total
  <2>3. changes' \in 0..MaxChanges
    <3>1. changes \in 0..MaxChanges /\ MaxChanges \in Nat
      BY FundingAssumption DEF FundingInv, FundingTypeOK
    <3>2. changes < MaxChanges /\ changes' = changes + 1 BY DEF ChangeUsdc
    <3>q. QED BY <3>1, <3>2
  <2>q. QED BY <2>1, <2>2, <2>3 DEF ChangeUsdc
<1>1. ASSUME NEW r \in Readers
      PROVE  reader'[r] \in Activations /\ ReadingTrue(reader[r].at, reader[r].of)'
  <2> DEFINE q == reader[r].of
  <2>0. /\ reader[r] \in Activations /\ q \in Readings /\ ReadingTrue(reader[r].at, q)
        /\ Total(usdc) \in Nat
        /\ q.e \in Int /\ q.n \in Int /\ q.high \in Nat /\ q.low \in Nat
    <3>1. Holdings \cup {0, -1} \subseteq Int BY FundingAssumption
    <3>q. QED BY <3>1, FundingFacts DEF Readings
  <2>1. CASE ~Reading(r) \/ q.torn
    <3>1. reader'[r] = reader[r] BY <2>1 DEF ChangeUsdc
    <3>q. QED BY <2>0, <2>1, <3>1 DEF ReadingTrue, Reading
  <2>2. CASE Reading(r) /\ ~q.torn /\ HalfRead(q)
    <3>1. reader'[r] = Torn(r) BY <2>2 DEF ChangeUsdc
    <3>2. Torn(r) \in Activations /\ Torn(r).at = "read" /\ Torn(r).of.torn
      BY <2>0, <2>2 DEF Torn, Activations, Readings, Reading
    <3>q. QED BY <3>1, <3>2 DEF ReadingTrue, WithinRange
  <2>3. CASE Reading(r) /\ ~q.torn /\ ~HalfRead(q)
    <3> DEFINE high == IF Total(next) > q.high THEN Total(next) ELSE q.high
               low == IF Total(next) < q.low THEN Total(next) ELSE q.low
               x == [reader[r] EXCEPT !.of.high = high, !.of.low = low]
    <3>1. reader'[r] = x BY <2>3 DEF ChangeUsdc
    <3>2. /\ high \in Nat /\ low \in Nat /\ Total(next) <= high /\ low <= Total(next)
          /\ q.high <= high /\ low <= q.low
      BY <1>0, <2>0
    <3> HIDE DEF high, low
    <3>3. /\ x \in Activations /\ x.at = "read" /\ x.of.e = q.e /\ x.of.n = q.n
          /\ x.of.torn = q.torn /\ x.of.high = high /\ x.of.low = low
      BY <2>0, <2>3, <3>2 DEF Activations, Readings, Reading
    <3> HIDE DEF x, q
    <3>q. QED
      BY <1>0, <2>0, <2>3, <3>1, <3>2, <3>3
         DEF ReadingTrue, BothRead, HalfRead, WithinRange
  <2>q. QED BY <2>1, <2>2, <2>3
<1>2. reader' \in [Readers -> Activations]
  <2>1. reader' = [r \in Readers |-> reader'[r]] BY DEF ChangeUsdc
  <2>q. QED BY <1>1, <2>1
<1>3. ReadingsTrue' BY <1>1 DEF ReadingsTrue
<1>4. FundingTypeOK' BY <1>0, <1>2 DEF FundingInv, FundingTypeOK, Activations
<1>5. CacheTrue' BY <1>0 DEF FundingInv, CacheTrue
<1>6. basis' \in [used : BOOLEAN, of : Readings, age : Nat] /\ BasisTrue'
  <2>1. NoReading \in Readings BY FundingFacts
  <2>q. QED BY <1>0, <2>1 DEF NoBasis, BasisTrue, NoReading, BothRead, WithinRange
<1>q. QED BY <1>3, <1>4, <1>5, <1>6 DEF FundingInv

(* A minute passes: what is cached and read is a minute older.             *)
LEMMA PassMinuteKeepsFunding ==
  ASSUME FundingInv, PassMinute
  PROVE  FundingInv'
<1>1. /\ minute' = minute + 1 /\ minute' \in 0..MaxFundingTime
      /\ UNCHANGED <<usdc, cache, reader, changes>> /\ basis' = NoBasis
  BY FundingAssumption DEF PassMinute, FundingInv, FundingTypeOK
<1>2. FundingTypeOK' BY <1>1 DEF FundingInv, FundingTypeOK
<1>3. ReadingsTrue' BY <1>1 DEF FundingInv, ReadingsTrue, ReadingTrue, Total
<1>4. CacheTrue' BY <1>1, FundingFacts DEF FundingInv, CacheTrue
<1>5. basis' \in [used : BOOLEAN, of : Readings, age : Nat] /\ BasisTrue'
  <2>1. NoReading \in Readings BY FundingFacts
  <2>q. QED BY <1>1, <2>1 DEF NoBasis, BasisTrue, NoReading, BothRead, WithinRange
<1>q. QED BY <1>2, <1>3, <1>4, <1>5 DEF FundingInv

(* The invariant of balances, caches and copies.                           *)
LEMMA FundingInvariant == FundingSpec => []FundingInv
<1>1. FundingInit => FundingInv
  <2> SUFFICES ASSUME FundingInit PROVE FundingInv OBVIOUS
  <2>1. NoReading \in Readings BY DEF NoReading, Readings
  <2>2. FundingTypeOK
    BY <2>1, FundingAssumption DEF FundingInit, FundingTypeOK
  <2>3. basis \in [used : BOOLEAN, of : Readings, age : Nat] /\ BasisTrue
    BY <2>1 DEF FundingInit, NoBasis, BasisTrue, NoReading, BothRead, WithinRange
  <2>4. ReadingsTrue
    <3>1. \A r \in Readers : reader[r].at = "idle" /\ reader[r].of = NoReading
      BY DEF FundingInit
    <3>2. BothRead(NoReading) /\ WithinRange(NoReading)
      BY DEF NoReading, BothRead, WithinRange
    <3>q. QED BY <3>1, <3>2 DEF ReadingsTrue, ReadingTrue
  <2>5. CacheTrue
    BY FundingAssumption DEF FundingInit, CacheTrue, NoReading, BothRead, WithinRange
  <2>q. QED BY <2>2, <2>3, <2>4, <2>5 DEF FundingInv
<1>2. FundingInv /\ [FundingNext]_fundingVars => FundingInv'
  <2> SUFFICES ASSUME FundingInv, [FundingNext]_fundingVars PROVE FundingInv' OBVIOUS
  <2>1. CASE UNCHANGED fundingVars
    BY <2>1 DEF fundingVars, FundingInv, FundingTypeOK, ReadingsTrue, ReadingTrue,
       CacheTrue, BasisTrue, Total
  <2>2. ASSUME NEW r \in Readers, StartSync(r) \/ GetCached(r) \/ GiveUp(r)
        PROVE  FundingInv'
    BY <2>2, StartsKeepFunding
  <2>3. ASSUME NEW r \in Readers, AddUp(r) PROVE FundingInv'
    BY <2>3, AddUpKeepsFunding
  <2>4. ASSUME NEW r \in Readers, SaveBalance(r) PROVE FundingInv'
    BY <2>4, SaveKeepsFunding
  <2>5. ASSUME NEW r \in Readers, NEW c \in {"e", "n"}, CallContract(r, c)
        PROVE  FundingInv'
    BY <2>5, CallKeepsFunding
  <2>6. ASSUME NEW next \in [e : Holdings, n : Holdings], ChangeUsdc(next)
        PROVE  FundingInv'
    BY <2>6, ChangeKeepsFunding
  <2>7. CASE PassMinute BY <2>7, PassMinuteKeepsFunding
  <2>q. QED BY <2>1, <2>2, <2>3, <2>4, <2>5, <2>6, <2>7 DEF FundingNext
<1>q. QED BY <1>1, <1>2, PTL DEF FundingSpec

(* The wallet, the cached balance and the calls that read it keep their    *)
(* types, for any profile, holdings and time to live.                      *)
THEOREM FundingTypeCorrect == FundingSpec => []FundingTypeOK
<1>1. FundingInv => FundingTypeOK BY DEF FundingInv
<1>q. QED BY <1>1, FundingInvariant, PTL

(* The copies of a follower stay within the means it had while its balance *)
(* was read, and within the largest position of its profile, however syncs *)
(* and copies share the cache and whatever the wallet does meanwhile.      *)
THEOREM CopiesStayWithinMeans == FundingSpec => []CopiesWithinMeans
<1>1. FundingInv => CopiesWithinMeans
  <2> SUFFICES ASSUME FundingInv, basis.used, NEW o \in Offers
               PROVE  LET q    == basis.of
                          made == EvaluateGuardrails(Profile, o.openMarkets, o, q.e + q.n)
                          AtMost(cents) ==
                             2 * made.size * o.price <= 2 * 100 * cents + o.price
                      IN  /\ basis.age < BalanceTTL
                          /\ made.allowed => AtMost(Profile.maxPosition)
                          /\ made.allowed /\ o.side = "BUY" /\ ~q.torn => AtMost(q.high)
                          /\ made.why = "balance" /\ ~q.torn => q.low < 100
    BY DEF CopiesWithinMeans, FundingInv, BasisTrue
  <2> DEFINE q    == basis.of
             balance == q.e + q.n
             made == EvaluateGuardrails(Profile, o.openMarkets, o, balance)
  <2>1. /\ q \in Readings /\ BothRead(q) /\ WithinRange(q) /\ basis.age < BalanceTTL
    BY DEF FundingInv, BasisTrue
  <2>2. q.e \in Nat /\ q.n \in Nat /\ q.high \in Nat /\ q.low \in Nat
    <3>1. \A h \in Holdings \cup {0, -1} : h # -1 => h \in Nat BY FundingAssumption
    <3>q. QED BY <2>1, <3>1 DEF Readings, BothRead
  <2>3. balance \in Nat BY <2>2
  <2>4. /\ Profile \in Profiles /\ LeaderTrade(o) /\ o.price \in Nat
        /\ Profile.maxPosition \in Nat
    BY FundingAssumption DEF Profiles, LeaderTrade
  <2>5. /\ made.allowed => /\ made.size \in Nat
                           /\ 2 * made.size * o.price <= 2 * 100 * Profile.maxPosition + o.price
        /\ made.allowed /\ o.side = "BUY" =>
             2 * made.size * o.price <= 2 * 100 * balance + o.price
        /\ made.why = "balance" => balance < 100
    BY <2>3, <2>4, GuardrailsBound
  <2>6. ~q.torn => q.low <= balance /\ balance <= q.high
    BY <2>1 DEF WithinRange
  <2> HIDE DEF q, balance, made
  <2>7. made.allowed /\ o.side = "BUY" /\ ~q.torn =>
          2 * made.size * o.price <= 2 * 100 * q.high + o.price
    <3> SUFFICES ASSUME made.allowed, o.side = "BUY", ~q.torn
                 PROVE  2 * made.size * o.price <= 2 * 100 * q.high + o.price
      OBVIOUS
    <3>1. 2 * made.size * o.price \in Nat BY <2>4, <2>5
    <3>2. 2 * made.size * o.price <= 2 * 100 * balance + o.price BY <2>5
    <3>q. QED BY <2>2, <2>3, <2>4, <2>6, <3>1, <3>2
  <2>8. made.why = "balance" /\ ~q.torn => q.low < 100
    BY <2>2, <2>3, <2>5, <2>6
  <2>q. QED BY <2>1, <2>5, <2>7, <2>8 DEF q, balance, made
<1>2. QED BY <1>1, FundingInvariant, PTL
=============================================================================
