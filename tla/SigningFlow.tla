----------------------------- MODULE SigningFlow -----------------------------
(***************************************************************************)
(* DynamicServerWalletProvider.executeWithTracking (signTypedData and      *)
(* signMessage) and executeTransaction                                     *)
(* (adapters/dynamic-server-wallet.provider.ts) around the rate limiter,   *)
(* the circuit breaker and SigningRequestService: concurrent requests of   *)
(* the API process, each standing at one of its awaits.  A step is the     *)
(* code between two awaits together with the effect of the awaited call.   *)
(***************************************************************************)
EXTENDS SigningRateLimiter, SigningCircuitBreaker

CONSTANTS
    Requests,      \* calls of signTypedData, signMessage, executeTransaction
    KindOf,        \* "SIGN" for the first two, "TX" for the last
    UserOf,        \* userId
    KeyOf,         \* idempotencyKey: user, purpose and payload
    Ready,         \* users whose server wallet is READY
    MaxRetry,      \* MAX_RETRY_ATTEMPTS (3)
    FaultKinds,    \* which faults the environment may inject
    MaxFaults      \* bound on database errors and crashes

Keys == {KeyOf[r] : r \in Requests}

ASSUME FlowAssumption ==
    /\ KindOf \in [Requests -> {"SIGN", "TX"}]
    /\ UserOf \in [Requests -> Users]
    /\ DOMAIN KeyOf = Requests
    /\ MaxRetry \in Nat
    /\ FaultKinds \subseteq {"refusal", "lostReply", "database", "crash"}
    /\ MaxFaults \in Nat

VARIABLES
    rows,        \* signing_requests: the row of each key (idempotencyKey is unique)
    submitted,   \* signatures or transactions the provider made for each key
    audit,       \* audit_logs about requests: <<correlationId, action>>
    pc,          \* where each request stands
    tries,       \* attempt, in retryWithBackoff
    signature,   \* what the provider returned to the request
    answer,      \* what the request returned to its caller, 0 if nothing
    faults       \* faults injected so far

flowVars == <<rows, submitted, audit, pc, tries, signature, answer, faults>>
vars     == <<clock, windowVars, circuitVars, flowVars>>

NoRow == [status |-> "NONE", signature |-> 0, by |-> {}]

(* A row; by holds the one request that created it (its correlationId).    *)
Row == [status : {"NONE", "CREATED", "SENT", "SUCCEEDED", "FAILED"},
        signature : Nat, by : SUBSET Requests]

FirstStep(r) == IF KindOf[r] = "SIGN" THEN "limit" ELSE "wallet"

(* The steps of a request that holds its row, and its possible ends.       *)
Holding == {"announce", "send", "call", "succeed", "report", "log", "fail",
            "blame", "logFailure"}
Ended   == {"answered", "refused", "threw", "lost"}

FlowTypeOK ==
    /\ rows \in [Keys -> Row]
    /\ submitted \in [Keys -> Nat]
    /\ audit \subseteq Requests \X {"SENT", "SUCCEEDED", "FAILED"}
    /\ pc \in [Requests -> {"limit", "breaker", "wallet", "find", "create"}
                              \cup Holding \cup Ended]
    /\ tries \in [Requests -> 0..MaxRetry]
    /\ signature \in [Requests -> Nat]
    /\ answer \in [Requests -> Nat]
    /\ faults \in 0..MaxFaults

TypeOK == LimiterTypeOK /\ BreakerTypeOK /\ FlowTypeOK

Init ==
    /\ LimiterInit
    /\ BreakerInit
    /\ rows = [k \in Keys |-> NoRow]
    /\ submitted = [k \in Keys |-> 0]
    /\ audit = {}
    /\ pc = [r \in Requests |-> FirstStep(r)]
    /\ tries = [r \in Requests |-> 0]
    /\ signature = [r \in Requests |-> 0]
    /\ answer = [r \in Requests |-> 0]
    /\ faults = 0

At(r, label)   == pc[r] = label
Goto(r, label) == pc' = [pc EXCEPT ![r] = label]
BySign(r, sign, tx) == IF KindOf[r] = "SIGN" THEN sign ELSE tx
SetStatus(r, st) == rows' = [rows EXCEPT ![KeyOf[r]].status = st]
Log(r, action)   == audit' = audit \cup {<<r, action>>}

-----------------------------------------------------------------------------
(* Pre-flight checks; the two entry points make them in different order.   *)
Limit(r) ==
    /\ At(r, "limit")
    /\ \/ Admit(UserOf[r]) /\ Goto(r, "breaker")
       \/ RefuseUser(UserOf[r]) /\ Goto(r, "refused")
       \/ RefuseGlobal(UserOf[r]) /\ Goto(r, "refused")
    /\ UNCHANGED <<clock, circuitVars, rows, submitted, audit, tries, signature,
                   answer, faults>>

Allow(r) ==
    /\ At(r, "breaker")
    /\ \/ AllowRequest /\ Goto(r, BySign(r, "wallet", "create"))
       \/ RefuseRequest /\ Goto(r, "refused")
    /\ UNCHANGED <<clock, windowVars, rows, submitted, audit, tries, signature,
                   answer, faults>>

(* requireReadyWallet                                                      *)
Wallet(r) ==
    /\ At(r, "wallet")
    /\ Goto(r, IF UserOf[r] \in Ready THEN BySign(r, "find", "limit")
                                      ELSE "refused")
    /\ UNCHANGED <<clock, windowVars, circuitVars, rows, submitted, audit, tries,
                   signature, answer, faults>>

(* Mutant: any row with the key counts as an answer.                       *)
FindAnyStatus(r) ==
    /\ At(r, "find")
    /\ LET row == rows[KeyOf[r]]
       IN  \/ /\ row.status # "NONE"
              /\ answer' = [answer EXCEPT ![r] = submitted[KeyOf[r]]]
              /\ Goto(r, "answered")
           \/ row.status = "NONE" /\ Goto(r, "create") /\ UNCHANGED answer
    /\ UNCHANGED <<clock, windowVars, circuitVars, rows, submitted, audit, tries,
                   signature, faults>>

(* findByIdempotencyKey: a recorded signature is returned as it is.        *)
Find(r) ==
    /\ At(r, "find")
    /\ LET row == rows[KeyOf[r]]
           cached == row.status = "SUCCEEDED" /\ row.signature # 0
       IN  \/ /\ cached
              /\ answer' = [answer EXCEPT ![r] = row.signature]
              /\ Goto(r, "answered")
           \/ ~cached /\ Goto(r, "create") /\ UNCHANGED answer
    /\ UNCHANGED <<clock, windowVars, circuitVars, rows, submitted, audit, tries,
                   signature, faults>>

(* Mutant: no unique key on idempotencyKey, and the newest row wins.       *)
CreateAgain(r) ==
    /\ At(r, "create")
    /\ rows' = [rows EXCEPT ![KeyOf[r]] =
                   [status |-> "CREATED", signature |-> 0, by |-> {r}]]
    /\ Goto(r, BySign(r, "announce", "send"))
    /\ UNCHANGED <<clock, windowVars, circuitVars, submitted, audit, tries,
                   signature, answer, faults>>

(* create fails on the unique key when any request made the row before.    *)
Create(r) ==
    /\ At(r, "create")
    /\ \/ /\ rows[KeyOf[r]].status = "NONE"
          /\ rows' = [rows EXCEPT ![KeyOf[r]] =
                         [status |-> "CREATED", signature |-> 0, by |-> {r}]]
          /\ Goto(r, BySign(r, "announce", "send"))
       \/ /\ rows[KeyOf[r]].status # "NONE"
          /\ Goto(r, "threw")
          /\ UNCHANGED rows
    /\ UNCHANGED <<clock, windowVars, circuitVars, submitted, audit, tries,
                   signature, answer, faults>>

Announce(r) ==
    /\ At(r, "announce")
    /\ Log(r, "SENT")
    /\ Goto(r, "send")
    /\ UNCHANGED <<clock, windowVars, circuitVars, rows, submitted, tries,
                   signature, answer, faults>>

MarkSent(r) ==
    /\ At(r, "send")
    /\ SetStatus(r, "SENT")
    /\ Goto(r, "call")
    /\ UNCHANGED <<clock, windowVars, circuitVars, submitted, audit, tries,
                   signature, answer, faults>>

-----------------------------------------------------------------------------
(* retryWithBackoff: the provider signs (or sends the transaction) and its *)
(* answer arrives; or it refuses; or its answer is lost, after the effect. *)
CallReturns(r) ==
    /\ At(r, "call")
    /\ submitted' = [submitted EXCEPT ![KeyOf[r]] = @ + 1]
    /\ signature' = [signature EXCEPT ![r] = submitted[KeyOf[r]] + 1]
    /\ Goto(r, "succeed")
    /\ UNCHANGED <<clock, windowVars, circuitVars, rows, audit, tries, answer,
                   faults>>

(* Mutant: the attempts are numbered from 0 and compared with >.           *)
RetryOnceMore(r) ==
    IF tries[r] <= MaxRetry
    THEN tries' = [tries EXCEPT ![r] = @ + 1] /\ UNCHANGED pc
    ELSE Goto(r, "fail") /\ UNCHANGED tries

(* An error of the last attempt is thrown, others are slept on.  The       *)
(* adapter never throws the AppError that would end the attempts at once.  *)
Retry(r) ==
    IF tries[r] < MaxRetry
    THEN tries' = [tries EXCEPT ![r] = @ + 1] /\ UNCHANGED pc
    ELSE Goto(r, "fail") /\ UNCHANGED tries

CallFails(r) ==
    /\ At(r, "call")
    /\ \/ "refusal" \in FaultKinds /\ UNCHANGED submitted
       \/ /\ "lostReply" \in FaultKinds
          /\ submitted' = [submitted EXCEPT ![KeyOf[r]] = @ + 1]
    /\ Retry(r)
    /\ UNCHANGED <<clock, windowVars, circuitVars, rows, audit, signature, answer,
                   faults>>

-----------------------------------------------------------------------------
MarkSucceeded(r) ==
    /\ At(r, "succeed")
    /\ rows' = [rows EXCEPT ![KeyOf[r]] =
                   [status |-> "SUCCEEDED", signature |-> signature[r],
                    by |-> @.by]]
    /\ Goto(r, "report")
    /\ UNCHANGED <<clock, windowVars, circuitVars, submitted, audit, tries,
                   signature, answer, faults>>

Answer(r) == answer' = [answer EXCEPT ![r] = signature[r]]

(* recordSuccess; executeTransaction returns without an audit entry.       *)
ReportSuccess(r) ==
    /\ At(r, "report")
    /\ RecordSuccess
    /\ Goto(r, BySign(r, "log", "answered"))
    /\ IF KindOf[r] = "TX" THEN Answer(r) ELSE UNCHANGED answer
    /\ UNCHANGED <<clock, windowVars, rows, submitted, audit, tries, signature,
                   faults>>

(* Mutant: the entry is written without waiting for it, and is lost.       *)
AnswerUnlogged(r) ==
    /\ At(r, "log")
    /\ Answer(r)
    /\ Goto(r, "answered")
    /\ UNCHANGED <<clock, windowVars, circuitVars, rows, submitted, audit, tries,
                   signature, faults>>

LogSuccess(r) ==
    /\ At(r, "log")
    /\ Log(r, "SUCCEEDED")
    /\ Answer(r)
    /\ Goto(r, "answered")
    /\ UNCHANGED <<clock, windowVars, circuitVars, rows, submitted, tries,
                   signature, faults>>

(* Mutant: a failed request leaves no row, so that it can be retried.      *)
ForgetRow(r) ==
    /\ At(r, "fail")
    /\ rows' = [rows EXCEPT ![KeyOf[r]] = NoRow]
    /\ Goto(r, "blame")
    /\ UNCHANGED <<clock, windowVars, circuitVars, submitted, audit, tries,
                   signature, answer, faults>>

(* Mutant: the catch block does not write the row.                         *)
LeaveSent(r) ==
    /\ At(r, "fail")
    /\ Goto(r, "blame")
    /\ UNCHANGED <<clock, windowVars, circuitVars, rows, submitted, audit, tries,
                   signature, answer, faults>>

(* The catch block.                                                        *)
MarkFailed(r) ==
    /\ At(r, "fail")
    /\ SetStatus(r, "FAILED")
    /\ Goto(r, "blame")
    /\ UNCHANGED <<clock, windowVars, circuitVars, submitted, audit, tries,
                   signature, answer, faults>>

ReportFailure(r) ==
    /\ At(r, "blame")
    /\ RecordFailure
    /\ Goto(r, BySign(r, "logFailure", "threw"))
    /\ UNCHANGED <<clock, windowVars, rows, submitted, audit, tries, signature,
                   answer, faults>>

LogFailure(r) ==
    /\ At(r, "logFailure")
    /\ Log(r, "FAILED")
    /\ Goto(r, "threw")
    /\ UNCHANGED <<clock, windowVars, circuitVars, rows, submitted, tries,
                   signature, answer, faults>>

-----------------------------------------------------------------------------
(* A database call fails before it has an effect: inside the try block the *)
(* catch block runs, elsewhere the error reaches the caller.               *)
DatabaseError(r) ==
    /\ "database" \in FaultKinds /\ faults < MaxFaults
    /\ faults' = faults + 1
    /\ \/ /\ pc[r] \in {"succeed", "log"}
          /\ Goto(r, "fail")
       \/ /\ pc[r] \in {"wallet", "find", "create", "announce", "send", "fail",
                        "logFailure"}
          /\ Goto(r, "threw")
    /\ UNCHANGED <<clock, windowVars, circuitVars, rows, submitted, audit, tries,
                   signature, answer>>

(* The process dies: requests in flight and everything in memory are gone. *)
InFlight(r) == pc[r] # FirstStep(r) /\ pc[r] \notin Ended

Crash ==
    /\ "crash" \in FaultKinds /\ faults < MaxFaults
    /\ faults' = faults + 1
    /\ pc' = [r \in Requests |-> IF InFlight(r) THEN "lost" ELSE pc[r]]
    /\ ForgetWindows
    /\ ForgetBreaker
    /\ UNCHANGED <<clock, rows, submitted, audit, tries, signature, answer>>

(* GET /system/status reads both statistics.                               *)
ReadStatus ==
    /\ ReadBreaker
    /\ ReadWindows
    /\ UNCHANGED <<clock, flowVars>>

TimePasses == Tick /\ UNCHANGED <<windowVars, circuitVars, flowVars>>

Step(r) ==
    \/ Limit(r) \/ Allow(r) \/ Wallet(r) \/ Find(r) \/ Create(r)
    \/ Announce(r) \/ MarkSent(r) \/ CallReturns(r) \/ CallFails(r)
    \/ MarkSucceeded(r) \/ ReportSuccess(r) \/ LogSuccess(r)
    \/ MarkFailed(r) \/ ReportFailure(r) \/ LogFailure(r)

Next ==
    \/ \E r \in Requests : Step(r) \/ DatabaseError(r)
    \/ Crash
    \/ ReadStatus
    \/ TimePasses

Spec == Init /\ [][Next]_vars

(* Node resumes a request whose awaited call has settled, and every        *)
(* awaited call of this code settles, with a result or an error.           *)
FairSpec == Spec /\ \A r \in Requests : WF_vars(InFlight(r) /\ Step(r))

-----------------------------------------------------------------------------
(* "Ensures the same signing request is not submitted twice": of all the   *)
(* requests with one key, at most one ever gets to the provider, crashes   *)
(* and failures of earlier ones included.                                  *)
RowHeldByOne ==
    \A r \in Requests : pc[r] \in Holding => rows[KeyOf[r]].by = {r}

(* Retries and lost replies make the provider sign a payload, or send a    *)
(* transaction, at most once per attempt of one request.                   *)
SubmissionsBounded == \A k \in Keys : submitted[k] <= MaxRetry + 1

(* A signature a caller holds is the one on record for its key, whether it *)
(* was made for this request or found in the table, for ever.              *)
AnswersOnRecord ==
    \A r \in Requests :
        answer[r] # 0 => rows[KeyOf[r]].signature = answer[r]

(* "Every signing request generates an audit log entry": no new signature  *)
(* is returned before both entries about it are written.                   *)
AnswersLogged ==
    \A r \in Requests :
        KindOf[r] = "SIGN" /\ answer[r] # 0 /\ rows[KeyOf[r]].by = {r}
            => {<<r, "SENT">>, <<r, "SUCCEEDED">>} \subseteq audit

(* While the database answers, the table keeps the promise of              *)
(* SigningLedger to those who read it.                                     *)
Ledger == INSTANCE SigningLedger
              WITH status   <- [k \in Keys |-> rows[k].status],
                   recorded <- [k \in Keys |-> rows[k].signature]

LedgerKept == Ledger!LedgerSpec

(* "CREATED -> SENT -> SUCCEEDED/FAILED/RETRIED" of the checklist: a row   *)
(* that is SUCCEEDED is at the end of its life.                            *)
SucceededIsFinal ==
    [][\A k \in Keys : rows[k].status = "SUCCEEDED"
                           => rows'[k].status = "SUCCEEDED"]_vars

(* Every row a request opened is settled: nobody else would settle it.     *)
RowsSettle ==
    \A k \in Keys : rows[k].status \in {"CREATED", "SENT"}
                        ~> rows[k].status \in {"SUCCEEDED", "FAILED"}
=============================================================================
