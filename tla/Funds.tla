-------------------------------- MODULE Funds --------------------------------
(***************************************************************************)
(* The routes that move a user's money (routes/funds.ts, routes/claims.ts) *)
(* behind the idempotency plugin (plugins/idempotency.ts) and on top of    *)
(* the relayer adapter: requests of one user, first attempts and retries,  *)
(* each standing at one of its awaits.                                     *)
(***************************************************************************)
EXTENDS RelayerAdapter

CONSTANTS
    IdKeys,       \* values of the Idempotency-Key header
    NoKey,        \* no such header
    MaxFaults     \* bound on database errors and crashes

ASSUME FundsAssumption == NoKey \notin IdKeys /\ MaxFaults \in Nat

VARIABLES
    route,        \* which handler each request calls
    key,          \* its Idempotency-Key
    reply,        \* the response it sends
    withdrawal,   \* status of the withdrawals row it made
    redeemed,     \* requests with a relayer_txs row, SUBMITTED
    deployed,     \* polymarket_credentials.isProxyDeployed
    stored,       \* idempotency_keys: the request whose response is kept
    exposed,      \* keys whose requests overlapped, or left a response unkept
    faults        \* database errors and crashes so far

fundsVars == <<route, key, reply, withdrawal, redeemed, deployed, stored,
               exposed, faults>>
vars      == <<relayerVars, fundsVars>>

Routes == {"withdrawals", "redeem", "approve-exchange"}

HandlerSteps == {"lookup", "auth", "adapter", "create", "record", "audit", "recordTx",
                 "upsert", "readDeployed", "code", "markDeployed", "fail", "store"}
Ended == {"done", "lost"}

FundsTypeOK ==
    /\ RelayerTypeOK
    /\ at \in [Requests -> HandlerSteps \cup AdapterSteps \cup Ended
                             \cup {"idle", "returned", "threw"}]
    /\ route \in [Requests -> Routes \cup {"none"}]
    /\ key \in [Requests -> IdKeys \cup {NoKey}]
    /\ reply \in [Requests -> {"none", "ok", "error", "conflict", "refused"}]
    /\ withdrawal \in [Requests -> {"NONE", "PENDING", "SUBMITTED", "FAILED"}]
    /\ redeemed \subseteq Requests
    /\ deployed \in BOOLEAN
    /\ stored \in [IdKeys -> Requests \cup {0}]
    /\ exposed \subseteq IdKeys
    /\ faults \in 0..MaxFaults

Init ==
    /\ RelayerInit
    /\ route = [r \in Requests |-> "none"]
    /\ key = [r \in Requests |-> NoKey]
    /\ reply = [r \in Requests |-> "none"]
    /\ withdrawal = [r \in Requests |-> "NONE"]
    /\ redeemed = {}
    /\ deployed = FALSE
    /\ stored = [k \in IdKeys |-> 0]
    /\ exposed = {}
    /\ faults = 0

InFlight(r) == at[r] \notin Ended \cup {"idle"}

(* The response is decided; onSend still has to keep it.                   *)
Respond(r, what) == reply' = [reply EXCEPT ![r] = what] /\ Goto(r, "store")

-----------------------------------------------------------------------------
(* onRequest of the idempotency plugin: replay, refuse, or go on.          *)
Arrive(r) ==
    /\ Standing(r, "idle")
    /\ \A q \in 1..(r - 1) : at[q] # "idle"
    /\ \E rt \in Routes, k \in IdKeys \cup {NoKey} :
         /\ route' = [route EXCEPT ![r] = rt]
         /\ key' = [key EXCEPT ![r] = k]
         /\ exposed' = exposed \cup
                {i \in {k} \cap IdKeys : \E q \in Requests : InFlight(q) /\ key[q] = i}
    /\ Goto(r, "lookup")
    /\ UNCHANGED <<nonce, relay, chainNonce, reply, withdrawal, redeemed, deployed,
                   stored, faults>>

FirstStep(r) == IF route[r] = "approve-exchange" THEN "upsert" ELSE "adapter"

Lookup(r) ==
    /\ Standing(r, "lookup")
    /\ LET kept == IF key[r] = NoKey THEN 0 ELSE stored[key[r]] IN
       \/ kept = 0 /\ Goto(r, "auth") /\ UNCHANGED reply
       \/ /\ kept # 0
          /\ reply' = [reply EXCEPT ![r] =
                         IF route[kept] = route[r] THEN reply[kept] ELSE "conflict"]
          /\ Goto(r, "done")
    /\ UNCHANGED <<nonce, relay, chainNonce, route, key, withdrawal, redeemed,
                   deployed, stored, exposed, faults>>

(* authenticate lets the request in, or refuses it: onSend keeps no answer *)
(* for a request without userId.                                           *)
Authenticate(r) ==
    /\ Standing(r, "auth")
    /\ \/ Goto(r, FirstStep(r)) /\ UNCHANGED reply
       \/ reply' = [reply EXCEPT ![r] = "refused"] /\ Goto(r, "done")
    /\ UNCHANGED <<nonce, relay, chainNonce, route, key, withdrawal, redeemed,
                   deployed, stored, exposed, faults>>

(* Mutant: an error is not kept, so that the client can try again.         *)
StoreSuccess(r) ==
    /\ Standing(r, "store")
    /\ stored' = [k \in IdKeys |->
                    IF k = key[r] /\ stored[k] = 0 /\ reply[r] = "ok" THEN r ELSE stored[k]]
    /\ Goto(r, "done")
    /\ UNCHANGED <<nonce, relay, chainNonce, route, key, reply, withdrawal,
                   redeemed, deployed, exposed, faults>>

(* onSend: the first response for a key is kept, errors included, of the   *)
(* requests that were let in; a second insert breaks the unique key and is *)
(* ignored.                                                                *)
Store(r) ==
    /\ Standing(r, "store")
    /\ stored' = [k \in IdKeys |-> IF k = key[r] /\ stored[k] = 0 THEN r ELSE stored[k]]
    /\ Goto(r, "done")
    /\ UNCHANGED <<nonce, relay, chainNonce, route, key, reply, withdrawal,
                   redeemed, deployed, exposed, faults>>

-----------------------------------------------------------------------------
(* getRelayerAdapter: the trading address and the proxy wallet are there,  *)
(* or it throws.                                                           *)
GetAdapter(r) ==
    /\ Standing(r, "adapter")
    /\ \/ /\ Goto(r, IF route[r] = "withdrawals" THEN "create" ELSE "payload")
          /\ UNCHANGED reply
       \/ Respond(r, "error")
    /\ UNCHANGED <<nonce, relay, chainNonce, route, key, withdrawal, redeemed,
                   deployed, stored, exposed, faults>>

SetWithdrawal(r, status) == withdrawal' = [withdrawal EXCEPT ![r] = status]

(* Mutant: the row is written when the transfer is out.                    *)
CreateLater(r) ==
    /\ Standing(r, "create")
    /\ Goto(r, "payload")
    /\ UNCHANGED <<nonce, relay, chainNonce, fundsVars>>

CreateWithdrawal(r) ==
    /\ Standing(r, "create")
    /\ SetWithdrawal(r, "PENDING")
    /\ Goto(r, "payload")
    /\ UNCHANGED <<nonce, relay, chainNonce, route, key, reply, redeemed, deployed,
                   stored, exposed, faults>>

(* The adapter hands its result to the handler.                            *)
AdapterReturned(r) ==
    /\ Standing(r, "returned")
    /\ Goto(r, CASE route[r] = "withdrawals" -> "record"
                 [] route[r] = "redeem"      -> "audit"
                 [] OTHER                    -> "code")
    /\ UNCHANGED <<nonce, relay, chainNonce, fundsVars>>

AdapterThrew(r) ==
    /\ Standing(r, "threw")
    /\ \/ route[r] = "withdrawals" /\ Goto(r, "fail") /\ UNCHANGED reply
       \/ route[r] # "withdrawals" /\ Respond(r, "error")
    /\ UNCHANGED <<nonce, relay, chainNonce, route, key, withdrawal, redeemed,
                   deployed, stored, exposed, faults>>

RecordWithdrawal(r) ==
    /\ Standing(r, "record")
    /\ SetWithdrawal(r, "SUBMITTED")
    /\ Goto(r, "audit")
    /\ UNCHANGED <<nonce, relay, chainNonce, route, key, reply, redeemed, deployed,
                   stored, exposed, faults>>

Audit(r) ==
    /\ Standing(r, "audit")
    /\ \/ route[r] = "redeem" /\ Goto(r, "recordTx") /\ UNCHANGED reply
       \/ route[r] # "redeem" /\ Respond(r, "ok")
    /\ UNCHANGED <<nonce, relay, chainNonce, route, key, withdrawal, redeemed,
                   deployed, stored, exposed, faults>>

RecordRelayerTx(r) ==
    /\ Standing(r, "recordTx")
    /\ redeemed' = redeemed \cup {r}
    /\ Respond(r, "ok")
    /\ UNCHANGED <<nonce, relay, chainNonce, route, key, withdrawal, deployed,
                   stored, exposed, faults>>

(* Mutant: the error is answered and not written.                          *)
AnswerOnly(r) ==
    /\ Standing(r, "fail")
    /\ Respond(r, "error")
    /\ UNCHANGED <<nonce, relay, chainNonce, route, key, withdrawal, redeemed, deployed,
                   stored, exposed, faults>>

(* The catch block of the withdrawal handler.                              *)
FailWithdrawal(r) ==
    /\ Standing(r, "fail")
    /\ SetWithdrawal(r, "FAILED")
    /\ Respond(r, "error")
    /\ UNCHANGED <<nonce, relay, chainNonce, route, key, redeemed, deployed, stored,
                   exposed, faults>>

-----------------------------------------------------------------------------
(* approve-exchange: refresh the proxy address, return early if it is      *)
(* deployed, submit, look for code at the proxy, remember.                 *)
UpsertProxy(r) ==
    /\ Standing(r, "upsert")
    /\ \/ Goto(r, "readDeployed") /\ UNCHANGED reply
       \/ Respond(r, "error")
    /\ UNCHANGED <<nonce, relay, chainNonce, route, key, withdrawal, redeemed,
                   deployed, stored, exposed, faults>>

ReadDeployed(r) ==
    /\ Standing(r, "readDeployed")
    /\ \/ deployed /\ Respond(r, "ok")
       \/ ~deployed /\ Goto(r, "adapter") /\ UNCHANGED reply
    /\ UNCHANGED <<nonce, relay, chainNonce, route, key, withdrawal, redeemed,
                   deployed, stored, exposed, faults>>

CheckCode(r) ==
    /\ Standing(r, "code")
    /\ \/ Goto(r, "markDeployed") /\ UNCHANGED reply
       \/ Respond(r, "error")
    /\ UNCHANGED <<nonce, relay, chainNonce, route, key, withdrawal, redeemed,
                   deployed, stored, exposed, faults>>

MarkDeployed(r) ==
    /\ Standing(r, "markDeployed")
    /\ deployed' = TRUE
    /\ Goto(r, "audit")
    /\ UNCHANGED <<nonce, relay, chainNonce, route, key, reply, withdrawal, redeemed,
                   stored, exposed, faults>>

-----------------------------------------------------------------------------
(* A database call throws: in the withdrawal's try block the catch block   *)
(* runs, elsewhere the error is the response, which nothing keeps before   *)
(* the request is let in; onSend swallows its own.                         *)
DatabaseError(r) ==
    /\ faults < MaxFaults
    /\ faults' = faults + 1
    /\ \/ /\ at[r] \in {"record", "audit"} /\ route[r] = "withdrawals"
          /\ Goto(r, "fail")
          /\ UNCHANGED <<reply, exposed>>
       \/ /\ \/ at[r] \in {"create", "recordTx", "readDeployed", "markDeployed", "fail"}
             \/ at[r] = "audit" /\ route[r] # "withdrawals"
          /\ Respond(r, "error")
          /\ UNCHANGED exposed
       \/ /\ at[r] \in {"lookup", "auth"}
          /\ Goto(r, "done")
          /\ reply' = [reply EXCEPT ![r] = "refused"]
          /\ UNCHANGED exposed
       \/ /\ at[r] = "store"
          /\ Goto(r, "done")
          /\ exposed' = exposed \cup ({key[r]} \cap IdKeys)
          /\ UNCHANGED reply
    /\ UNCHANGED <<nonce, relay, chainNonce, route, key, withdrawal, redeemed,
                   deployed, stored>>

(* The process dies; what the relayer accepted lives on.                   *)
Crash ==
    /\ faults < MaxFaults
    /\ faults' = faults + 1
    /\ \E r \in Requests : InFlight(r)
    /\ at' = [r \in Requests |-> IF InFlight(r) THEN "lost" ELSE at[r]]
    /\ exposed' = exposed \cup {k \in IdKeys : \E r \in Requests : InFlight(r) /\ key[r] = k}
    /\ UNCHANGED <<nonce, relay, chainNonce, route, key, reply, withdrawal, redeemed,
                   deployed, stored>>

HandlerStep(r) ==
    \/ Lookup(r) \/ Authenticate(r) \/ Store(r) \/ GetAdapter(r)
    \/ CreateWithdrawal(r)
    \/ AdapterReturned(r) \/ AdapterThrew(r) \/ RecordWithdrawal(r) \/ Audit(r)
    \/ RecordRelayerTx(r) \/ FailWithdrawal(r) \/ UpsertProxy(r)
    \/ ReadDeployed(r) \/ CheckCode(r) \/ MarkDeployed(r)

RequestStep(r) == HandlerStep(r) \/ (AdapterStep(r) /\ UNCHANGED fundsVars)

Next ==
    \/ \E r \in Requests : Arrive(r) \/ RequestStep(r) \/ DatabaseError(r)
    \/ \E r \in Requests : (Mine(r) \/ Drop(r)) /\ UNCHANGED fundsVars
    \/ Crash

Spec == Init /\ [][Next]_vars

(* Every awaited call of a handler settles: the polls are bounded.         *)
FairSpec == Spec /\ \A r \in Requests : WF_vars(RequestStep(r))

-----------------------------------------------------------------------------
(* Whatever is lost, fails or crashes, no transfer leaves without a row    *)
(* that was written before it: the user can see that money may have moved. *)
TransfersWrittenAhead ==
    \A r \in Requests :
        route[r] = "withdrawals" /\ relay[r] \in Accepted => withdrawal[r] # "NONE"

(* What the tables call SUBMITTED, and an approval that later requests     *)
(* rely on, succeeded on chain.                                            *)
RecordedIsMined ==
    /\ \A r \in Requests :
         withdrawal[r] = "SUBMITTED" \/ r \in redeemed => relay[r] = "mined"
    /\ deployed => \E r \in Requests : route[r] = "approve-exchange" /\ relay[r] = "mined"

(* A client that repeats a request only after the last try was answered    *)
(* makes one submission per Idempotency-Key, whatever that answer was: a   *)
(* try that was refused before the handler, for its session or because the *)
(* database failed, is not kept and did nothing; all others are told the   *)
(* same.                                                                   *)
OneSubmissionPerKey ==
    \A k \in IdKeys \ exposed :
        LET tries == {r \in Requests : key[r] = k} IN
        /\ Cardinality({r \in tries : relay[r] \in Accepted}) <= 1
        /\ \A r, q \in {t \in tries : at[t] = "done" /\ reply[t] # "refused"} :
              route[r] = route[q] => reply[r] = reply[q]

(* No withdrawal stays PENDING while the process and the database live.    *)
WithdrawalsSettle ==
    [](faults = 0) => \A r \in Requests :
        withdrawal[r] = "PENDING" ~> withdrawal[r] \in {"SUBMITTED", "FAILED"}
=============================================================================
