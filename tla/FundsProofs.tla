------------------------------ MODULE FundsProofs ------------------------------
(***************************************************************************)
(* What the routes that move money promise, for any number of requests,    *)
(* keys and faults: transfers have a row before they leave, what is        *)
(* recorded as done was mined, and a key submits once.                     *)
(***************************************************************************)
EXTENDS Funds, FiniteSetTheorems, TLAPS

(* Where a request has submitted nothing yet, and where the adapter has    *)
(* seen the receipt of its transaction.                                    *)
BeforeSubmit == {"idle", "lookup", "auth", "upsert", "readDeployed", "adapter",
                 "create", "payload", "sign", "submit"}
AfterReceipt == {"returned", "record", "audit", "recordTx", "code", "markDeployed"}

(* What the place of a request says of its transaction and its row.        *)
PlacesTell ==
    \A r \in Requests :
        /\ at[r] # "idle" => route[r] \in Routes
        /\ at[r] \in BeforeSubmit => relay[r] = "none"
        /\ at[r] \in AfterReceipt => relay[r] = "mined"
        /\ at[r] \in {"code", "markDeployed"} => route[r] = "approve-exchange"
        /\ at[r] \in AdapterSteps /\ route[r] = "withdrawals"
             => withdrawal[r] # "NONE"

ChainInv ==
    /\ FundsTypeOK
    /\ PlacesTell
    /\ TransfersWrittenAhead
    /\ RecordedIsMined

(* A request that was refused before its handler.                          *)
TurnedAway(r) == at[r] = "done" /\ reply[r] = "refused"

(* A key whose requests never overlapped: until a response is kept there   *)
(* is one request that was let in, and afterwards all others are answered  *)
(* from it; those turned away did nothing.                                 *)
KeysReplay ==
    /\ \A r \in Requests :
         /\ at[r] = "idle" => key[r] = NoKey
         /\ at[r] # "done" => reply[r] # "refused"
         /\ TurnedAway(r) => relay[r] = "none"
    /\ \A k \in IdKeys : stored[k] # 0 => at[stored[k]] = "done" /\ key[stored[k]] = k
    /\ \A k \in IdKeys \ exposed, r \in Requests : key[r] = k /\ ~TurnedAway(r) =>
         /\ at[r] \in Ended => stored[k] # 0
         /\ stored[k] = 0 =>
              \A q \in Requests : key[q] = k /\ ~TurnedAway(q) => q = r
         /\ stored[k] \notin {0, r} =>
              /\ at[r] \in {"lookup", "done"}
              /\ relay[r] = "none"
              /\ at[r] = "done" => reply[r] = IF route[r] = route[stored[k]]
                                              THEN reply[stored[k]] ELSE "conflict"

KeyInv == ChainInv /\ KeysReplay

LEMMA InitInv == Init => KeyInv
<1> SUFFICES ASSUME Init
             PROVE  KeyInv
  OBVIOUS
<1> USE RelayerAssumption, FundsAssumption DEF Init, RelayerInit
<1>1. FundsTypeOK
  <2>1. RelayerTypeOK
    BY DEF RelayerTypeOK
  <2>2. /\ withdrawal \in [Requests -> {"NONE", "PENDING", "SUBMITTED", "FAILED"}]
        /\ reply \in [Requests -> {"none", "ok", "error", "conflict", "refused"}]
        /\ route \in [Requests -> Routes \cup {"none"}]
        /\ key \in [Requests -> IdKeys \cup {NoKey}]
    OBVIOUS
  <2>3. at \in [Requests -> HandlerSteps \cup AdapterSteps \cup Ended
                              \cup {"idle", "returned", "threw"}]
    OBVIOUS
  <2>4. redeemed \subseteq Requests /\ deployed \in BOOLEAN /\ exposed \subseteq IdKeys
    OBVIOUS
  <2>5. stored \in [IdKeys -> Requests \cup {0}]
    OBVIOUS
  <2>6. faults \in 0..MaxFaults
    OBVIOUS
  <2>7. QED
    BY <2>1, <2>2, <2>3, <2>4, <2>5, <2>6 DEF FundsTypeOK
<1>2. PlacesTell /\ TransfersWrittenAhead /\ RecordedIsMined
  BY DEF PlacesTell, TransfersWrittenAhead, RecordedIsMined, BeforeSubmit,
         AfterReceipt, AdapterSteps, Accepted
<1>3. KeysReplay
  BY DEF KeysReplay
<1>4. QED
  BY <1>1, <1>2, <1>3 DEF KeyInv, ChainInv

(* The state keeps its types.                                              *)
LEMMA StepKeepsTypes ==
    ASSUME FundsTypeOK, [Next]_vars
    PROVE  FundsTypeOK'
<1> USE RelayerAssumption, FundsAssumption
        DEF FundsTypeOK, RelayerTypeOK, Goto, Respond, SetWithdrawal, Standing,
            HandlerSteps, AdapterSteps, Ended, Routes, Accepted
<1>1. ASSUME NEW r \in Requests, Arrive(r)
      PROVE  FundsTypeOK'
  BY <1>1 DEF Arrive
<1>2. ASSUME NEW r \in Requests, Lookup(r) \/ Authenticate(r)
      PROVE  FundsTypeOK'
  BY <1>2 DEF Lookup, Authenticate, FirstStep
<1>3. ASSUME NEW r \in Requests, Store(r)
      PROVE  FundsTypeOK'
  BY <1>3 DEF Store
<1>4. ASSUME NEW r \in Requests, GetAdapter(r) \/ CreateWithdrawal(r)
                                   \/ RecordWithdrawal(r) \/ FailWithdrawal(r)
      PROVE  FundsTypeOK'
  BY <1>4 DEF GetAdapter, CreateWithdrawal, RecordWithdrawal, FailWithdrawal
<1>5. ASSUME NEW r \in Requests, AdapterReturned(r) \/ AdapterThrew(r) \/ Audit(r)
                                   \/ RecordRelayerTx(r)
      PROVE  FundsTypeOK'
  BY <1>5 DEF AdapterReturned, AdapterThrew, Audit, RecordRelayerTx, fundsVars
<1>6. ASSUME NEW r \in Requests, UpsertProxy(r) \/ ReadDeployed(r) \/ CheckCode(r)
                                   \/ MarkDeployed(r)
      PROVE  FundsTypeOK'
  BY <1>6 DEF UpsertProxy, ReadDeployed, CheckCode, MarkDeployed
<1>7. ASSUME NEW r \in Requests, AdapterStep(r), UNCHANGED fundsVars
      PROVE  FundsTypeOK'
  BY <1>7 DEF AdapterStep, GetRelayPayload, SignStructHash, Submit,
              PollForTxHash, WaitForReceipt, fundsVars
<1>8. ASSUME NEW r \in Requests, Mine(r) \/ Drop(r), UNCHANGED fundsVars
      PROVE  FundsTypeOK'
  BY <1>8 DEF Mine, Drop, fundsVars
<1>9. ASSUME NEW r \in Requests, DatabaseError(r)
      PROVE  FundsTypeOK'
  BY <1>9 DEF DatabaseError
<1>10. ASSUME Crash
       PROVE  FundsTypeOK'
  BY <1>10 DEF Crash, InFlight
<1>11. ASSUME UNCHANGED vars
       PROVE  FundsTypeOK'
  BY <1>11 DEF vars, relayerVars, fundsVars
<1>12. QED
  BY <1>1, <1>2, <1>3, <1>4, <1>5, <1>6, <1>7, <1>8, <1>9, <1>10, <1>11
     DEF Next, RequestStep, HandlerStep

(* Steps of the other requests leave what a place tells alone, and mined   *)
(* transactions stay mined.                                                *)
LEMMA StepKeepsPlaces ==
    ASSUME ChainInv, [Next]_vars
    PROVE  PlacesTell' /\ TransfersWrittenAhead' /\ RecordedIsMined'
<1> DEFINE Goal == PlacesTell' /\ TransfersWrittenAhead' /\ RecordedIsMined'
<1>0. FundsTypeOK'
  BY StepKeepsTypes DEF ChainInv
<1> USE DEF ChainInv, FundsTypeOK, RelayerTypeOK, PlacesTell, TransfersWrittenAhead,
            RecordedIsMined, BeforeSubmit, AfterReceipt, AdapterSteps, Accepted,
            Goto, Respond, SetWithdrawal, Standing, Routes
<1>1. ASSUME NEW r \in Requests, Arrive(r)
      PROVE  Goal
  BY <1>1 DEF Arrive
<1>2. ASSUME NEW r \in Requests, Lookup(r) \/ Authenticate(r)
      PROVE  Goal
  BY <1>2 DEF Lookup, Authenticate, FirstStep
<1>3. ASSUME NEW r \in Requests, Store(r)
      PROVE  Goal
  BY <1>3 DEF Store
<1>4. ASSUME NEW r \in Requests, GetAdapter(r) \/ CreateWithdrawal(r)
      PROVE  Goal
  BY <1>4 DEF GetAdapter, CreateWithdrawal
<1>5. ASSUME NEW r \in Requests, RecordWithdrawal(r)
      PROVE  Goal
  BY <1>5 DEF RecordWithdrawal
<1>6. ASSUME NEW r \in Requests, FailWithdrawal(r)
      PROVE  Goal
  BY <1>6 DEF FailWithdrawal
<1>7. ASSUME NEW r \in Requests, AdapterReturned(r)
      PROVE  Goal
  BY <1>7 DEF AdapterReturned, fundsVars
<1>8. ASSUME NEW r \in Requests, AdapterThrew(r) \/ Audit(r)
      PROVE  Goal
  BY <1>8 DEF AdapterThrew, Audit
<1>9. ASSUME NEW r \in Requests, RecordRelayerTx(r)
      PROVE  Goal
  BY <1>9 DEF RecordRelayerTx
<1>10. ASSUME NEW r \in Requests, UpsertProxy(r) \/ ReadDeployed(r) \/ CheckCode(r)
       PROVE  Goal
  BY <1>10 DEF UpsertProxy, ReadDeployed, CheckCode
<1>11. ASSUME NEW r \in Requests, MarkDeployed(r)
       PROVE  Goal
  BY <1>11 DEF MarkDeployed
<1>12. ASSUME NEW r \in Requests, GetRelayPayload(r) \/ SignStructHash(r)
                                     \/ PollForTxHash(r) \/ WaitForReceipt(r),
              UNCHANGED fundsVars
       PROVE  Goal
  BY <1>12 DEF GetRelayPayload, SignStructHash, PollForTxHash, WaitForReceipt,
               fundsVars
<1>13. ASSUME NEW r \in Requests, Submit(r), UNCHANGED fundsVars
       PROVE  Goal
  BY <1>13 DEF Submit, fundsVars
<1>14. ASSUME NEW r \in Requests, Mine(r) \/ Drop(r), UNCHANGED fundsVars
       PROVE  Goal
  BY <1>14 DEF Mine, Drop, fundsVars
<1>15. ASSUME NEW r \in Requests, DatabaseError(r)
       PROVE  Goal
  BY <1>15 DEF DatabaseError
<1>16. ASSUME Crash
       PROVE  Goal
  BY <1>16 DEF Crash, InFlight, Ended
<1>17. ASSUME UNCHANGED vars
       PROVE  Goal
  BY <1>17 DEF vars, relayerVars, fundsVars
<1>18. QED
  BY <1>1, <1>2, <1>3, <1>4, <1>5, <1>6, <1>7, <1>8, <1>9, <1>10, <1>11, <1>12,
     <1>13, <1>14, <1>15, <1>16, <1>17
     DEF Next, RequestStep, HandlerStep, AdapterStep

-----------------------------------------------------------------------------
(* A request in a place of its own: its key is neither replayed from nor   *)
(* answered yet.                                                           *)
LEMMA StepKeepsKeys ==
    ASSUME KeyInv, [Next]_vars
    PROVE  KeysReplay'
<1>0. FundsTypeOK'
  BY StepKeepsTypes DEF KeyInv, ChainInv
<1> USE FundsAssumption
        DEF KeyInv, ChainInv, FundsTypeOK, KeysReplay, TurnedAway, Ended, Goto, Respond,
            Standing, SetWithdrawal
<1>1. ASSUME NEW r \in Requests, Arrive(r)
      PROVE  KeysReplay'
  BY <1>1 DEF Arrive, InFlight, PlacesTell, BeforeSubmit
<1>2. ASSUME NEW r \in Requests, Lookup(r) \/ Authenticate(r)
      PROVE  KeysReplay'
  <2> USE DEF PlacesTell, BeforeSubmit, FirstStep
  <2>1. CASE Lookup(r)
    BY <2>1 DEF Lookup
  <2>2. CASE Authenticate(r)
    BY <2>2 DEF Authenticate
  <2>3. QED
    BY <1>2, <2>1, <2>2
<1>3. ASSUME NEW r \in Requests, Store(r)
      PROVE  KeysReplay'
  <2>1. /\ at[r] = "store" /\ at' = [at EXCEPT ![r] = "done"]
        /\ \A k \in IdKeys : stored'[k] =
             IF k = key[r] /\ stored[k] = 0 THEN r ELSE stored[k]
        /\ UNCHANGED <<key, route, reply, relay, exposed>>
    BY <1>3 DEF Store
  <2>2. \A q \in Requests : key'[q] = key[q] /\ route'[q] = route[q]
            /\ reply'[q] = reply[q] /\ relay'[q] = relay[q]
            /\ at'[q] = IF q = r THEN "done" ELSE at[q]
    BY <2>1
  <2>3. /\ \A q \in Requests :
             /\ at'[q] = "idle" => key'[q] = NoKey
             /\ at'[q] # "done" => reply'[q] # "refused"
             /\ TurnedAway(q)' = TurnedAway(q)
        /\ \A k \in IdKeys : stored'[k] # 0 => at'[stored'[k]] = "done"
                                              /\ key'[stored'[k]] = k
    BY <2>1, <2>2
  <2>4. ASSUME NEW k \in IdKeys \ exposed, NEW q \in Requests, key[q] = k, ~TurnedAway(q)
        PROVE  /\ at'[q] \in Ended => stored'[k] # 0
               /\ stored'[k] = 0 =>
                    \A p \in Requests : key[p] = k /\ ~TurnedAway(p) => p = q
               /\ stored'[k] \notin {0, q} =>
                    /\ at'[q] \in {"lookup", "done"}
                    /\ relay[q] = "none"
                    /\ at'[q] = "done" =>
                         reply[q] = IF route[q] = route[stored'[k]]
                                    THEN reply[stored'[k]] ELSE "conflict"
    <3>1. CASE k = key[r]
      <4>1. stored[k] = 0 /\ ~TurnedAway(r)
        BY <2>1, <3>1
      <4>2. q = r
        BY <2>4, <3>1, <4>1
      <4>3. stored'[k] = r
        BY <2>1, <3>1, <4>1
      <4>4. r # 0
        BY RelayerAssumption DEF Requests
      <4>5. QED
        BY <4>2, <4>3, <4>4
    <3>2. CASE k # key[r]
      <4>1. q # r /\ stored'[k] = stored[k] /\ at'[q] = at[q]
        BY <2>1, <2>2, <2>4, <3>2
      <4>2. QED
        BY <2>4, <4>1
    <3>3. QED
      BY <3>1, <3>2
  <2>5. QED
    BY <2>1, <2>2, <2>3, <2>4
<1>4. ASSUME NEW r \in Requests, GetAdapter(r) \/ CreateWithdrawal(r)
                                    \/ RecordWithdrawal(r) \/ FailWithdrawal(r)
      PROVE  KeysReplay'
  BY <1>4 DEF GetAdapter, CreateWithdrawal, RecordWithdrawal, FailWithdrawal
<1>5. ASSUME NEW r \in Requests, AdapterReturned(r) \/ AdapterThrew(r) \/ Audit(r)
                                    \/ RecordRelayerTx(r)
      PROVE  KeysReplay'
  BY <1>5 DEF AdapterReturned, AdapterThrew, Audit, RecordRelayerTx, fundsVars
<1>6. ASSUME NEW r \in Requests, UpsertProxy(r) \/ ReadDeployed(r) \/ CheckCode(r)
                                    \/ MarkDeployed(r)
      PROVE  KeysReplay'
  <2>1. CASE UpsertProxy(r)
    BY <2>1 DEF UpsertProxy
  <2>2. CASE ReadDeployed(r)
    BY <2>2 DEF ReadDeployed
  <2>3. CASE CheckCode(r)
    BY <2>3 DEF CheckCode
  <2>4. CASE MarkDeployed(r)
    BY <2>4 DEF MarkDeployed
  <2>5. QED
    BY <1>6, <2>1, <2>2, <2>3, <2>4
<1>7. ASSUME NEW r \in Requests, AdapterStep(r), UNCHANGED fundsVars
      PROVE  KeysReplay'
  <2>1. CASE GetRelayPayload(r)
    BY <1>7, <2>1 DEF GetRelayPayload, fundsVars
  <2>2. CASE SignStructHash(r)
    BY <1>7, <2>2 DEF SignStructHash, fundsVars
  <2>3. CASE Submit(r)
    BY <1>7, <2>3 DEF Submit, fundsVars, RelayerTypeOK
  <2>4. CASE PollForTxHash(r)
    BY <1>7, <2>4 DEF PollForTxHash, fundsVars
  <2>5. CASE WaitForReceipt(r)
    BY <1>7, <2>5 DEF WaitForReceipt, fundsVars
  <2>6. QED
    BY <1>7, <2>1, <2>2, <2>3, <2>4, <2>5 DEF AdapterStep
<1>8. ASSUME NEW r \in Requests, Mine(r) \/ Drop(r), UNCHANGED fundsVars
      PROVE  KeysReplay'
  BY <1>8 DEF Mine, Drop, fundsVars, RelayerTypeOK
<1>9. ASSUME NEW r \in Requests, DatabaseError(r)
      PROVE  KeysReplay'
  BY <1>9 DEF DatabaseError, PlacesTell, BeforeSubmit
<1>10. ASSUME Crash
       PROVE  KeysReplay'
  BY <1>10 DEF Crash, InFlight
<1>11. ASSUME UNCHANGED vars
       PROVE  KeysReplay'
  BY <1>11 DEF vars, relayerVars, fundsVars
<1>12. QED
  BY <1>1, <1>2, <1>3, <1>4, <1>5, <1>6, <1>7, <1>8, <1>9, <1>10, <1>11
     DEF Next, RequestStep, HandlerStep

LEMMA KeysSubmitOnce == KeyInv => OneSubmissionPerKey
<1> SUFFICES ASSUME KeyInv, NEW k \in IdKeys \ exposed
             PROVE  LET tries == {r \in Requests : key[r] = k} IN
                    /\ Cardinality({r \in tries : relay[r] \in Accepted}) <= 1
                    /\ \A r, q \in {t \in tries : at[t] = "done" /\ reply[t] # "refused"} :
                          route[r] = route[q] => reply[r] = reply[q]
  BY DEF OneSubmissionPerKey
<1> USE DEF KeyInv, KeysReplay, TurnedAway
<1> DEFINE tries == {r \in Requests : key[r] = k}
           sent == {r \in tries : relay[r] \in Accepted}
<1>1. ASSUME NEW r \in sent, NEW q \in sent
      PROVE  r = q
  <2>0. /\ "none" \notin Accepted
        /\ ~TurnedAway(r) /\ ~TurnedAway(q)
    BY DEF Accepted
  <2>1. CASE stored[k] = 0
    BY <2>0, <2>1
  <2>2. CASE stored[k] # 0
    <3>1. stored[k] = r /\ stored[k] = q
      BY <2>0, <2>2
    <3>2. QED
      BY <3>1
  <2>3. QED
    BY <2>1, <2>2
<1>2. Cardinality(sent) <= 1
  <2>1. CASE sent = {}
    BY <2>1, FS_EmptySet
  <2>2. CASE sent # {}
    <3>1. PICK r : r \in sent
      BY <2>2
    <3>2. sent = {r}
      <4> HIDE DEF sent
      <4> QED BY <1>1, <3>1
    <3>3. Cardinality({r}) = 1
      BY FS_Singleton
    <3> HIDE DEF sent
    <3>4. QED
      BY <3>2, <3>3
  <2>3. QED
    BY <2>1, <2>2
<1>3. ASSUME NEW r \in tries, NEW q \in tries, at[r] = "done", at[q] = "done",
             reply[r] # "refused", reply[q] # "refused", route[r] = route[q]
      PROVE  reply[r] = reply[q]
  <2>1. stored[k] # 0
    BY <1>3 DEF Ended
  <2>2. stored[k] \in Requests
    BY <2>1 DEF ChainInv, FundsTypeOK
  <2>3. QED
    BY <1>3, <2>1, <2>2
<1>4. QED
  BY <1>2, <1>3

LEMMA KeyInvHolds == Spec => []KeyInv
<1>1. Init => KeyInv
  BY InitInv
<1>2. KeyInv /\ [Next]_vars => KeyInv'
  BY StepKeepsTypes, StepKeepsPlaces, StepKeepsKeys DEF KeyInv, ChainInv
<1>3. QED
  BY <1>1, <1>2, PTL DEF Spec

(* The tables, the relayer and the places of requests keep their types.    *)
THEOREM FundsTypeCorrect == Spec => []FundsTypeOK
<1>1. KeyInv => FundsTypeOK
  BY DEF KeyInv, ChainInv
<1>2. QED
  BY <1>1, KeyInvHolds, PTL

(* A withdrawal route creates its row before it calls relayer.withdraw:    *)
(* with any requests, errors and crashes no transfer is out without one.   *)
THEOREM TransfersHaveRows == Spec => []TransfersWrittenAhead
<1>1. KeyInv => TransfersWrittenAhead
  BY DEF KeyInv, ChainInv
<1>2. QED
  BY <1>1, KeyInvHolds, PTL

(* SUBMITTED rows and isProxyDeployed are written after a receipt that     *)
(* says success, and what was mined stays mined.                           *)
THEOREM RecordsAreMined == Spec => []RecordedIsMined
<1>1. KeyInv => RecordedIsMined
  BY DEF KeyInv, ChainInv
<1>2. QED
  BY <1>1, KeyInvHolds, PTL

(* The idempotency plugin keeps the first response of a key: retries after *)
(* an answer submit nothing more and are told the same, except those that  *)
(* are refused before they reach the handler.                              *)
THEOREM RetriesAreReplayed == Spec => []OneSubmissionPerKey
BY KeysSubmitOnce, KeyInvHolds, PTL
=============================================================================
