-------------------------- MODULE SigningFlowProofs --------------------------
(***************************************************************************)
(* Proofs about SigningFlow, for any number of requests, users and keys,   *)
(* any retries and any faults: what its properties say of rows, answers    *)
(* and submissions, and that the theorems about the rate limiter and the   *)
(* circuit breaker hold of the requests that share them.                   *)
(***************************************************************************)
EXTENDS SigningFlow, SigningGuardsProofs

Starting == {"limit", "breaker", "wallet", "find", "create"}

(* What a request knows at each of its awaits.                             *)
Unknown(r) ==
    pc[r] \in Starting => tries[r] = 0 /\ \A k \in Keys : r \notin rows[k].by

Holds(r) == pc[r] \in Holding => rows[KeyOf[r]].by = {r}

Attempts(r) ==
    /\ pc[r] \in {"announce", "send"} => tries[r] = 0 /\ submitted[KeyOf[r]] = 0
    /\ pc[r] = "call" => submitted[KeyOf[r]] <= tries[r]

Unsigned(r) ==
    /\ pc[r] \in {"announce", "send", "call", "succeed"}
          => rows[KeyOf[r]].signature = 0
    /\ pc[r] \in {"report", "log"} => rows[KeyOf[r]].signature = signature[r]

Answered(r) ==
    answer[r] # 0 => pc[r] = "answered" /\ rows[KeyOf[r]].signature = answer[r]

Logged(r) ==
    KindOf[r] = "SIGN" =>
        /\ pc[r] \in {"send", "call", "succeed", "report", "log"}
              => <<r, "SENT">> \in audit
        /\ answer[r] # 0 /\ rows[KeyOf[r]].by = {r}
              => {<<r, "SENT">>, <<r, "SUCCEEDED">>} \subseteq audit

RequestInv(r) ==
    Unknown(r) /\ Holds(r) /\ Attempts(r) /\ Unsigned(r) /\ Answered(r) /\ Logged(r)

KeyInv(k) ==
    /\ rows[k].status = "NONE"
          => rows[k].by = {} /\ rows[k].signature = 0 /\ submitted[k] = 0
    /\ submitted[k] <= MaxRetry + 1

FlowInv ==
    /\ FlowTypeOK
    /\ \A r \in Requests : RequestInv(r)
    /\ \A k \in Keys : KeyInv(k)

-----------------------------------------------------------------------------
(* A step of r touches its own locals and the row and the submissions of   *)
(* its key, and the audit log only grows.                                  *)
Footprint(r) ==
    /\ \A q \in Requests : q # r =>
          /\ pc'[q] = pc[q] /\ tries'[q] = tries[q]
          /\ signature'[q] = signature[q] /\ answer'[q] = answer[q]
    /\ \A k \in Keys : k # KeyOf[r] =>
          rows'[k] = rows[k] /\ submitted'[k] = submitted[k]
    /\ audit \subseteq audit'

(* The row is written only by a request that holds it or that makes it,    *)
(* and the signature on record only by the former before it reports.       *)
OwnRowOnly(r) ==
    \/ rows'[KeyOf[r]] = rows[KeyOf[r]] /\ submitted'[KeyOf[r]] = submitted[KeyOf[r]]
    \/ /\ pc[r] \in Holding
       /\ rows'[KeyOf[r]].by = rows[KeyOf[r]].by
       /\ \/ rows'[KeyOf[r]].signature = rows[KeyOf[r]].signature
          \/ pc[r] = "succeed"
    \/ /\ rows[KeyOf[r]].status = "NONE"
       /\ rows'[KeyOf[r]].by = {r}
       /\ rows'[KeyOf[r]].signature = 0
       /\ submitted'[KeyOf[r]] = submitted[KeyOf[r]]

LEMMA OthersKeepInv ==
    ASSUME FlowInv, NEW r \in Requests, NEW q \in Requests, q # r,
           Footprint(r), OwnRowOnly(r)
    PROVE  RequestInv(q)'
<1>1. /\ pc'[q] = pc[q] /\ tries'[q] = tries[q]
      /\ signature'[q] = signature[q] /\ answer'[q] = answer[q]
      /\ audit \subseteq audit'
      /\ KeyOf[q] \in Keys /\ KeyOf[r] \in Keys
  BY DEF Footprint, Keys
<1>2. /\ Unknown(q) /\ Holds(q) /\ Attempts(q) /\ Unsigned(q) /\ Answered(q) /\ Logged(q)
      /\ Holds(r) /\ Unsigned(r)
      /\ KeyInv(KeyOf[r])
  BY <1>1 DEF FlowInv, RequestInv
<1>3. CASE KeyOf[q] # KeyOf[r]
  <2>1. rows'[KeyOf[q]] = rows[KeyOf[q]] /\ submitted'[KeyOf[q]] = submitted[KeyOf[q]]
    BY <1>1, <1>3 DEF Footprint
  <2>2. Unknown(q)'
    <3>1. \A k \in Keys : rows'[k].by \in {rows[k].by, {r}}
      BY <1>2 DEF Footprint, OwnRowOnly
    <3>2. QED
      BY <1>1, <1>2, <3>1 DEF Unknown
  <2>3. QED
    BY <1>1, <1>2, <2>1, <2>2
       DEF RequestInv, Holds, Attempts, Unsigned, Answered, Logged
<1>4. CASE KeyOf[q] = KeyOf[r] /\ rows'[KeyOf[r]] = rows[KeyOf[r]]
                               /\ submitted'[KeyOf[r]] = submitted[KeyOf[r]]
  <2>1. Unknown(q)'
    BY <1>1, <1>2, <1>4 DEF Unknown, Footprint
  <2>2. QED
    BY <1>1, <1>2, <1>4, <2>1
       DEF RequestInv, Holds, Attempts, Unsigned, Answered, Logged
<1>5. CASE /\ KeyOf[q] = KeyOf[r]
           /\ ~(/\ rows'[KeyOf[r]] = rows[KeyOf[r]]
                /\ submitted'[KeyOf[r]] = submitted[KeyOf[r]])
  <2>1. pc[q] \notin Holding
    BY <1>2, <1>5 DEF OwnRowOnly, Holds, KeyInv
  <2>2. rows'[KeyOf[r]].by \in {rows[KeyOf[r]].by, {r}}
    BY <1>5 DEF OwnRowOnly
  <2>3. Unknown(q)'
    <3>1. \A k \in Keys : rows'[k].by \in {rows[k].by, {r}}
      BY <2>2 DEF Footprint
    <3>2. QED
      BY <1>1, <1>2, <3>1 DEF Unknown
  <2>4. Holds(q)' /\ Attempts(q)' /\ Unsigned(q)'
    BY <1>1, <2>1 DEF Holds, Attempts, Unsigned, Holding
  <2>5. Answered(q)'
    <3>1. rows'[KeyOf[r]].signature = rows[KeyOf[r]].signature
          \/ rows[KeyOf[r]].signature = 0
      BY <1>2, <1>5 DEF OwnRowOnly, KeyInv, Unsigned
    <3>2. QED
      BY <1>1, <1>2, <1>5, <3>1 DEF Answered
  <2>6. Logged(q)'
    BY <1>1, <1>2, <1>5, <2>1, <2>2 DEF Logged, Holding
  <2>7. QED
    BY <2>3, <2>4, <2>5, <2>6 DEF RequestInv
<1>6. QED
  BY <1>3, <1>4, <1>5

(* It remains to show what a step does to its own request and key.         *)
LEMMA OwnStepKeepsInv ==
    ASSUME FlowInv, NEW r \in Requests, Footprint(r), OwnRowOnly(r),
           FlowTypeOK', RequestInv(r)', KeyInv(KeyOf[r])'
    PROVE  FlowInv'
<1>1. ASSUME NEW q \in Requests
      PROVE  RequestInv(q)'
  BY OthersKeepInv
<1>2. ASSUME NEW k \in Keys
      PROVE  KeyInv(k)'
  <2>1. CASE k = KeyOf[r]
    BY <2>1
  <2>2. CASE k # KeyOf[r]
    BY <2>2 DEF FlowInv, KeyInv, Footprint
  <2>3. QED
    BY <2>1, <2>2
<1>3. QED
  BY <1>1, <1>2 DEF FlowInv

-----------------------------------------------------------------------------
LEMMA MoveFacts ==
    ASSUME FlowInv, NEW r \in Requests, NEW label, Goto(r, label)
    PROVE  /\ pc'[r] = label
           /\ \A q \in Requests : q # r => pc'[q] = pc[q]
           /\ KeyOf[r] \in Keys
           /\ RequestInv(r) /\ KeyInv(KeyOf[r])
BY DEF FlowInv, FlowTypeOK, Goto, Keys

(* A request that is turned away, or whose error reaches the caller.       *)
LEMMA GivingUpKeepsInv ==
    ASSUME FlowInv, NEW r \in Requests, NEW label \in {"refused", "threw"},
           pc[r] # "answered", Goto(r, label), faults' \in 0..MaxFaults,
           UNCHANGED <<rows, submitted, tries, signature, answer>>,
           audit \subseteq audit',
           audit' \subseteq Requests \X {"SENT", "SUCCEEDED", "FAILED"}
    PROVE  FlowInv'
<1>1. /\ pc'[r] = label
      /\ \A q \in Requests : q # r => pc'[q] = pc[q]
      /\ RequestInv(r) /\ KeyInv(KeyOf[r])
  BY MoveFacts
<1>2. FlowTypeOK'
  BY DEF FlowInv, FlowTypeOK, Goto, Ended
<1>3. Footprint(r) /\ OwnRowOnly(r)
  BY <1>1 DEF Footprint, OwnRowOnly
<1>4. answer[r] = 0
  BY <1>1 DEF RequestInv, Answered
<1>5. RequestInv(r)'
  BY <1>1, <1>4
     DEF RequestInv, Unknown, Holds, Attempts, Unsigned, Answered, Logged,
         Starting, Holding
<1>6. KeyInv(KeyOf[r])'
  BY <1>1 DEF KeyInv
<1>7. QED
  BY <1>2, <1>3, <1>5, <1>6, OwnStepKeepsInv

(* A request that has not made a row and goes on.                          *)
LEMMA StartingKeepsInv ==
    ASSUME FlowInv, NEW r \in Requests, NEW label \in Starting,
           pc[r] \in Starting, Goto(r, label),
           UNCHANGED <<rows, submitted, audit, tries, signature, answer, faults>>
    PROVE  FlowInv'
<1>1. /\ pc'[r] = label
      /\ \A q \in Requests : q # r => pc'[q] = pc[q]
      /\ RequestInv(r) /\ KeyInv(KeyOf[r])
  BY MoveFacts
<1>2. FlowTypeOK'
  BY DEF FlowInv, FlowTypeOK, Goto, Starting
<1>3. Footprint(r) /\ OwnRowOnly(r)
  BY <1>1 DEF Footprint, OwnRowOnly
<1>4. answer[r] = 0
  BY <1>1 DEF RequestInv, Answered, Starting
<1>5. RequestInv(r)'
  BY <1>1, <1>4
     DEF RequestInv, Unknown, Holds, Attempts, Unsigned, Answered, Logged,
         Starting, Holding
<1>6. KeyInv(KeyOf[r])'
  BY <1>1 DEF KeyInv
<1>7. QED
  BY <1>2, <1>3, <1>5, <1>6, OwnStepKeepsInv

(* A request in its catch block.                                           *)
LEMMA FailingKeepsInv ==
    ASSUME FlowInv, NEW r \in Requests,
           NEW label \in {"fail", "blame", "logFailure"},
           pc[r] \in Holding, Goto(r, label), Footprint(r), FlowTypeOK',
           UNCHANGED <<tries, signature, answer>>,
           rows'[KeyOf[r]].by = rows[KeyOf[r]].by,
           rows'[KeyOf[r]].signature = rows[KeyOf[r]].signature,
           rows'[KeyOf[r]].status = "NONE" => rows[KeyOf[r]].status = "NONE",
           submitted'[KeyOf[r]] <= MaxRetry + 1
    PROVE  FlowInv'
<1>1. pc'[r] = label /\ RequestInv(r) /\ KeyInv(KeyOf[r])
  BY MoveFacts
<1>2. OwnRowOnly(r)
  BY DEF OwnRowOnly
<1>3. answer[r] = 0
  BY <1>1 DEF RequestInv, Answered, Holding
<1>4. rows[KeyOf[r]].by = {r} /\ rows[KeyOf[r]].status # "NONE"
  BY <1>1 DEF RequestInv, Holds, KeyInv
<1>5. RequestInv(r)'
  BY <1>1, <1>3, <1>4
     DEF RequestInv, Unknown, Holds, Attempts, Unsigned, Answered, Logged,
         Starting, Holding
<1>6. KeyInv(KeyOf[r])'
  BY <1>4 DEF KeyInv
<1>7. QED
  BY <1>2, <1>5, <1>6, OwnStepKeepsInv

LEMMA IdleFlowKeepsInv ==
    ASSUME FlowInv, UNCHANGED flowVars
    PROVE  FlowInv'
<1>1. FlowTypeOK'
  BY DEF FlowInv, FlowTypeOK, flowVars
<1>2. \A r \in Requests : RequestInv(r)'
  BY DEF FlowInv, flowVars, RequestInv, Unknown, Holds, Attempts, Unsigned,
         Answered, Logged
<1>3. \A k \in Keys : KeyInv(k)'
  BY DEF FlowInv, flowVars, KeyInv
<1>4. QED
  BY <1>1, <1>2, <1>3 DEF FlowInv

-----------------------------------------------------------------------------
LEMMA PreflightKeepsInv ==
    ASSUME FlowInv, NEW r \in Requests, Limit(r) \/ Allow(r) \/ Wallet(r)
    PROVE  FlowInv'
<1>1. \E label \in Starting \cup {"refused"} : Goto(r, label)
  BY DEF Limit, Allow, Wallet, BySign, Starting
<1>2. /\ pc[r] \in Starting
      /\ UNCHANGED <<rows, submitted, audit, tries, signature, answer, faults>>
  BY DEF Limit, Allow, Wallet, At, Starting
<1>3. /\ faults \in 0..MaxFaults
      /\ audit \subseteq Requests \X {"SENT", "SUCCEEDED", "FAILED"}
  BY DEF FlowInv, FlowTypeOK
<1>4. ASSUME Goto(r, "refused")
      PROVE  FlowInv'
  BY <1>2, <1>3, <1>4, GivingUpKeepsInv DEF Starting
<1>5. QED
  BY <1>1, <1>2, <1>4, StartingKeepsInv

LEMMA FindKeepsInv ==
    ASSUME FlowInv, NEW r \in Requests, Find(r)
    PROVE  FlowInv'
<1>1. CASE Goto(r, "create") /\ UNCHANGED answer
  <2>1. /\ pc[r] \in Starting /\ "create" \in Starting
        /\ UNCHANGED <<rows, submitted, audit, tries, signature, faults>>
    BY DEF Find, At, Starting
  <2>2. QED
    BY <1>1, <2>1, StartingKeepsInv
<1>2. CASE /\ rows[KeyOf[r]].status = "SUCCEEDED"
           /\ answer' = [answer EXCEPT ![r] = rows[KeyOf[r]].signature]
           /\ Goto(r, "answered")
  <2>0. /\ pc[r] = "find"
        /\ UNCHANGED <<rows, submitted, audit, tries, signature, faults>>
    BY DEF Find, At
  <2>1. /\ pc'[r] = "answered"
        /\ \A q \in Requests : q # r => pc'[q] = pc[q]
        /\ KeyOf[r] \in Keys /\ RequestInv(r) /\ KeyInv(KeyOf[r])
    BY <1>2, MoveFacts
  <2>2. /\ answer'[r] = rows[KeyOf[r]].signature
        /\ \A q \in Requests : q # r => answer'[q] = answer[q]
        /\ answer' \in [Requests -> Nat]
    BY <1>2, <2>1 DEF FlowInv, FlowTypeOK, Row
  <2>3. FlowTypeOK'
    BY <1>2, <2>0, <2>2 DEF FlowInv, FlowTypeOK, Goto, Ended
  <2>4. Footprint(r) /\ OwnRowOnly(r)
    BY <2>0, <2>1, <2>2 DEF Footprint, OwnRowOnly
  <2>5. r \notin rows[KeyOf[r]].by
    BY <2>0, <2>1 DEF RequestInv, Unknown, Starting
  <2>6. RequestInv(r)'
    BY <2>0, <2>1, <2>2, <2>5
       DEF RequestInv, Unknown, Holds, Attempts, Unsigned, Answered, Logged,
           Starting, Holding
  <2>7. KeyInv(KeyOf[r])'
    BY <2>0, <2>1 DEF KeyInv
  <2>8. QED
    BY <2>3, <2>4, <2>6, <2>7, OwnStepKeepsInv
<1>3. QED
  BY <1>1, <1>2 DEF Find

LEMMA CreateKeepsInv ==
    ASSUME FlowInv, NEW r \in Requests, Create(r)
    PROVE  FlowInv'
<1>1. /\ pc[r] = "create"
      /\ UNCHANGED <<submitted, audit, tries, signature, answer, faults>>
  BY DEF Create, At
<1>2. CASE Goto(r, "threw") /\ UNCHANGED rows
  <2>1. /\ faults' \in 0..MaxFaults
        /\ audit' \subseteq Requests \X {"SENT", "SUCCEEDED", "FAILED"}
    BY <1>1 DEF FlowInv, FlowTypeOK
  <2>2. QED
    BY <1>1, <1>2, <2>1, GivingUpKeepsInv
<1>3. CASE /\ rows[KeyOf[r]].status = "NONE"
           /\ rows' = [rows EXCEPT ![KeyOf[r]] =
                          [status |-> "CREATED", signature |-> 0, by |-> {r}]]
           /\ Goto(r, BySign(r, "announce", "send"))
  <2>1. /\ pc'[r] = BySign(r, "announce", "send")
        /\ \A q \in Requests : q # r => pc'[q] = pc[q]
        /\ KeyOf[r] \in Keys /\ RequestInv(r) /\ KeyInv(KeyOf[r])
    BY <1>3, MoveFacts
  <2>2. /\ rows'[KeyOf[r]] = [status |-> "CREATED", signature |-> 0, by |-> {r}]
        /\ \A k \in Keys : k # KeyOf[r] => rows'[k] = rows[k]
        /\ rows' \in [Keys -> Row]
    BY <1>3, <2>1 DEF FlowInv, FlowTypeOK, Row
  <2>3. FlowTypeOK'
    BY <1>1, <1>3, <2>2 DEF FlowInv, FlowTypeOK, Goto, BySign, Holding
  <2>4. Footprint(r) /\ OwnRowOnly(r)
    BY <1>1, <1>3, <2>1, <2>2 DEF Footprint, OwnRowOnly
  <2>5. answer[r] = 0 /\ tries[r] = 0 /\ submitted[KeyOf[r]] = 0
    BY <1>1, <1>3, <2>1
       DEF RequestInv, Answered, Unknown, KeyInv, Starting
  <2>6. KindOf[r] = "SIGN" => pc'[r] = "announce"
    BY <2>1 DEF BySign
  <2>7. RequestInv(r)'
    BY <1>1, <2>1, <2>2, <2>5, <2>6
       DEF RequestInv, Unknown, Holds, Attempts, Unsigned, Answered, Logged,
           Starting, Holding, BySign
  <2>8. KeyInv(KeyOf[r])'
    BY <1>1, <2>1, <2>2 DEF KeyInv
  <2>9. QED
    BY <2>3, <2>4, <2>7, <2>8, OwnStepKeepsInv
<1>4. QED
  BY <1>2, <1>3 DEF Create

-----------------------------------------------------------------------------
(* Facts of a request that holds its row.                                  *)
LEMMA HolderFacts ==
    ASSUME FlowInv, NEW r \in Requests, pc[r] \in Holding
    PROVE  /\ KeyOf[r] \in Keys
           /\ rows[KeyOf[r]].by = {r}
           /\ rows[KeyOf[r]].status # "NONE"
           /\ answer[r] = 0
           /\ RequestInv(r) /\ KeyInv(KeyOf[r])
           /\ rows[KeyOf[r]] \in Row
           /\ submitted[KeyOf[r]] \in Nat /\ submitted[KeyOf[r]] <= MaxRetry + 1
<1>1. KeyOf[r] \in Keys /\ RequestInv(r)
  BY DEF FlowInv, Keys
<1>2. KeyInv(KeyOf[r])
  BY <1>1 DEF FlowInv
<1>3. rows[KeyOf[r]].by = {r} /\ answer[r] = 0
  BY <1>1 DEF RequestInv, Holds, Answered, Holding
<1>4. QED
  BY <1>1, <1>2, <1>3 DEF KeyInv, FlowInv, FlowTypeOK

LEMMA AnnounceKeepsInv ==
    ASSUME FlowInv, NEW r \in Requests, Announce(r)
    PROVE  FlowInv'
<1>1. /\ pc[r] = "announce" /\ pc[r] \in Holding
      /\ audit' = audit \cup {<<r, "SENT">>}
      /\ Goto(r, "send")
      /\ UNCHANGED <<rows, submitted, tries, signature, answer, faults>>
  BY DEF Announce, At, Log, Holding
<1>2. pc'[r] = "send" /\ \A q \in Requests : q # r => pc'[q] = pc[q]
  BY <1>1, MoveFacts
<1>3. FlowTypeOK'
  BY <1>1 DEF FlowInv, FlowTypeOK, Goto, Holding
<1>4. Footprint(r) /\ OwnRowOnly(r)
  BY <1>1, <1>2 DEF Footprint, OwnRowOnly
<1>5. RequestInv(r)' /\ KeyInv(KeyOf[r])'
  BY <1>1, <1>2, HolderFacts
     DEF RequestInv, Unknown, Holds, Attempts, Unsigned, Answered, Logged,
         Starting, Holding, KeyInv
<1>6. QED
  BY <1>3, <1>4, <1>5, OwnStepKeepsInv

LEMMA SetStatusFacts ==
    ASSUME FlowInv, NEW r \in Requests,
           NEW st \in {"SENT", "SUCCEEDED", "FAILED"}, SetStatus(r, st)
    PROVE  /\ rows' \in [Keys -> Row]
           /\ rows'[KeyOf[r]].status = st
           /\ rows'[KeyOf[r]].by = rows[KeyOf[r]].by
           /\ rows'[KeyOf[r]].signature = rows[KeyOf[r]].signature
           /\ \A k \in Keys : k # KeyOf[r] => rows'[k] = rows[k]
<1>1. KeyOf[r] \in Keys /\ rows \in [Keys -> Row]
  BY DEF FlowInv, FlowTypeOK, Keys
<1>2. rows'[KeyOf[r]] = [rows[KeyOf[r]] EXCEPT !.status = st]
  BY <1>1 DEF SetStatus
<1>3. rows[KeyOf[r]] \in Row
  BY <1>1
<1>4. [rows[KeyOf[r]] EXCEPT !.status = st] \in Row
  BY <1>3 DEF Row
<1>5. QED
  BY <1>1, <1>2, <1>3, <1>4 DEF SetStatus, Row

LEMMA MarkSentKeepsInv ==
    ASSUME FlowInv, NEW r \in Requests, MarkSent(r)
    PROVE  FlowInv'
<1>1. /\ pc[r] = "send" /\ pc[r] \in Holding
      /\ SetStatus(r, "SENT") /\ Goto(r, "call")
      /\ UNCHANGED <<submitted, audit, tries, signature, answer, faults>>
  BY DEF MarkSent, At, Holding
<1>2. pc'[r] = "call" /\ \A q \in Requests : q # r => pc'[q] = pc[q]
  BY <1>1, MoveFacts
<1>3. /\ rows' \in [Keys -> Row]
      /\ rows'[KeyOf[r]].status = "SENT"
      /\ rows'[KeyOf[r]].by = rows[KeyOf[r]].by
      /\ rows'[KeyOf[r]].signature = rows[KeyOf[r]].signature
      /\ \A k \in Keys : k # KeyOf[r] => rows'[k] = rows[k]
  BY <1>1, SetStatusFacts
<1>4. FlowTypeOK'
  BY <1>1, <1>3 DEF FlowInv, FlowTypeOK, Goto, Holding
<1>5. Footprint(r) /\ OwnRowOnly(r)
  BY <1>1, <1>2, <1>3 DEF Footprint, OwnRowOnly
<1>6. RequestInv(r)' /\ KeyInv(KeyOf[r])'
  BY <1>1, <1>2, <1>3, HolderFacts
     DEF RequestInv, Unknown, Holds, Attempts, Unsigned, Answered, Logged,
         Starting, Holding, KeyInv
<1>7. QED
  BY <1>4, <1>5, <1>6, OwnStepKeepsInv

LEMMA CallReturnsKeepsInv ==
    ASSUME FlowInv, NEW r \in Requests, CallReturns(r)
    PROVE  FlowInv'
<1> USE FlowAssumption
<1>1. /\ pc[r] = "call" /\ pc[r] \in Holding
      /\ submitted' = [submitted EXCEPT ![KeyOf[r]] = submitted[KeyOf[r]] + 1]
      /\ signature' = [signature EXCEPT ![r] = submitted[KeyOf[r]] + 1]
      /\ Goto(r, "succeed")
      /\ UNCHANGED <<rows, audit, tries, answer, faults>>
  BY DEF CallReturns, At, Holding
<1>2. pc'[r] = "succeed" /\ \A q \in Requests : q # r => pc'[q] = pc[q]
  BY <1>1, MoveFacts
<1>3. /\ submitted'[KeyOf[r]] = submitted[KeyOf[r]] + 1
      /\ submitted' \in [Keys -> Nat] /\ signature' \in [Requests -> Nat]
      /\ \A k \in Keys : k # KeyOf[r] => submitted'[k] = submitted[k]
      /\ \A q \in Requests : q # r => signature'[q] = signature[q]
  BY <1>1, HolderFacts DEF FlowInv, FlowTypeOK
<1>4. FlowTypeOK'
  BY <1>1, <1>3 DEF FlowInv, FlowTypeOK, Goto, Holding
<1>5. Footprint(r) /\ OwnRowOnly(r)
  BY <1>1, <1>2, <1>3 DEF Footprint, OwnRowOnly
<1>6. RequestInv(r)'
  BY <1>1, <1>2, <1>3, HolderFacts
     DEF RequestInv, Unknown, Holds, Attempts, Unsigned, Answered, Logged,
         Starting, Holding
<1>7. KeyInv(KeyOf[r])'
  <2>1. submitted[KeyOf[r]] <= tries[r] /\ tries[r] \in 0..MaxRetry
        /\ submitted[KeyOf[r]] \in Nat
    BY <1>1, HolderFacts DEF RequestInv, Attempts, FlowInv, FlowTypeOK
  <2>2. QED
    BY <1>1, <1>3, <2>1, HolderFacts DEF KeyInv
<1>8. QED
  BY <1>4, <1>5, <1>6, <1>7, OwnStepKeepsInv

LEMMA CallFailsKeepsInv ==
    ASSUME FlowInv, NEW r \in Requests, CallFails(r)
    PROVE  FlowInv'
<1> USE FlowAssumption
<1>1. /\ pc[r] = "call" /\ pc[r] \in Holding
      /\ UNCHANGED <<rows, audit, signature, answer, faults>>
      /\ Retry(r)
  BY DEF CallFails, At, Holding
<1>2. /\ submitted' \in [Keys -> Nat]
      /\ submitted'[KeyOf[r]] \in {submitted[KeyOf[r]], submitted[KeyOf[r]] + 1}
      /\ \A k \in Keys : k # KeyOf[r] => submitted'[k] = submitted[k]
  BY <1>1, HolderFacts DEF CallFails, FlowInv, FlowTypeOK
<1>3. /\ submitted[KeyOf[r]] \in Nat /\ tries[r] \in 0..MaxRetry
      /\ submitted[KeyOf[r]] <= tries[r]
  BY <1>1, HolderFacts DEF RequestInv, Attempts, FlowInv, FlowTypeOK
<1>4. submitted'[KeyOf[r]] <= tries[r] + 1 /\ submitted'[KeyOf[r]] <= MaxRetry + 1
  BY <1>2, <1>3
<1>5. CASE tries[r] < MaxRetry
  <2>1. /\ tries' = [tries EXCEPT ![r] = tries[r] + 1] /\ UNCHANGED pc
    BY <1>1, <1>5 DEF Retry
  <2>2. /\ tries'[r] = tries[r] + 1
        /\ \A q \in Requests : q # r => tries'[q] = tries[q]
        /\ tries' \in [Requests -> 0..MaxRetry]
    BY <1>3, <1>5, <2>1 DEF FlowInv, FlowTypeOK
  <2>3. FlowTypeOK'
    BY <1>1, <1>2, <2>1, <2>2 DEF FlowInv, FlowTypeOK
  <2>4. Footprint(r) /\ OwnRowOnly(r)
    BY <1>1, <1>2, <2>1, <2>2 DEF Footprint, OwnRowOnly
  <2>5. RequestInv(r)' /\ KeyInv(KeyOf[r])'
    BY <1>1, <1>4, <2>1, <2>2, HolderFacts
       DEF RequestInv, Unknown, Holds, Attempts, Unsigned, Answered, Logged,
           Starting, Holding, KeyInv
  <2>6. QED
    BY <2>3, <2>4, <2>5, OwnStepKeepsInv
<1>6. CASE ~(tries[r] < MaxRetry)
  <2>1. Goto(r, "fail") /\ UNCHANGED tries
    BY <1>1, <1>6 DEF Retry
  <2>2. FlowTypeOK'
    BY <1>1, <1>2, <2>1 DEF FlowInv, FlowTypeOK, Goto, Holding
  <2>3. Footprint(r)
    BY <1>1, <1>2, <2>1, MoveFacts DEF Footprint
  <2>4. QED
    BY <1>1, <1>4, <2>1, <2>2, <2>3, FailingKeepsInv
<1>7. QED
  BY <1>5, <1>6

LEMMA MarkSucceededKeepsInv ==
    ASSUME FlowInv, NEW r \in Requests, MarkSucceeded(r)
    PROVE  FlowInv'
<1>1. /\ pc[r] = "succeed" /\ pc[r] \in Holding
      /\ rows' = [rows EXCEPT ![KeyOf[r]] =
                     [status |-> "SUCCEEDED", signature |-> signature[r],
                      by |-> rows[KeyOf[r]].by]]
      /\ Goto(r, "report")
      /\ UNCHANGED <<submitted, audit, tries, signature, answer, faults>>
  BY DEF MarkSucceeded, At, Holding
<1>2. pc'[r] = "report" /\ \A q \in Requests : q # r => pc'[q] = pc[q]
  BY <1>1, MoveFacts
<1>3. /\ rows'[KeyOf[r]] = [status |-> "SUCCEEDED", signature |-> signature[r],
                            by |-> rows[KeyOf[r]].by]
      /\ \A k \in Keys : k # KeyOf[r] => rows'[k] = rows[k]
  BY <1>1, HolderFacts DEF FlowInv, FlowTypeOK
<1>4. rows' \in [Keys -> Row]
  <2>1. rows'[KeyOf[r]] \in Row
    BY <1>3, HolderFacts, <1>1 DEF FlowInv, FlowTypeOK, Row
  <2>2. QED
    BY <1>1, <1>3, <2>1 DEF FlowInv, FlowTypeOK
<1>5. FlowTypeOK'
  BY <1>1, <1>4 DEF FlowInv, FlowTypeOK, Goto, Holding
<1>6. Footprint(r) /\ OwnRowOnly(r)
  BY <1>1, <1>2, <1>3 DEF Footprint, OwnRowOnly
<1>7. RequestInv(r)' /\ KeyInv(KeyOf[r])'
  BY <1>1, <1>2, <1>3, HolderFacts
     DEF RequestInv, Unknown, Holds, Attempts, Unsigned, Answered, Logged,
         Starting, Holding, KeyInv
<1>8. QED
  BY <1>5, <1>6, <1>7, OwnStepKeepsInv

(* The request returns its signature, logged if the log is of its kind.    *)
LEMMA AnswerKeepsInv ==
    ASSUME FlowInv, NEW r \in Requests, pc[r] \in {"report", "log"},
           Goto(r, "answered"), Answer(r),
           UNCHANGED <<rows, submitted, tries, signature, faults>>,
           audit \subseteq audit',
           audit' \subseteq Requests \X {"SENT", "SUCCEEDED", "FAILED"},
           KindOf[r] = "SIGN" => <<r, "SUCCEEDED">> \in audit'
    PROVE  FlowInv'
<1>1. pc'[r] = "answered" /\ \A q \in Requests : q # r => pc'[q] = pc[q]
  BY MoveFacts
<1>2. /\ answer'[r] = signature[r]
      /\ \A q \in Requests : q # r => answer'[q] = answer[q]
      /\ answer' \in [Requests -> Nat]
  BY DEF Answer, FlowInv, FlowTypeOK
<1>3. FlowTypeOK'
  BY <1>2 DEF FlowInv, FlowTypeOK, Goto, Ended
<1>4. Footprint(r) /\ OwnRowOnly(r)
  BY <1>1, <1>2 DEF Footprint, OwnRowOnly
<1>5. RequestInv(r)' /\ KeyInv(KeyOf[r])'
  BY <1>1, <1>2, HolderFacts
     DEF RequestInv, Unknown, Holds, Attempts, Unsigned, Answered, Logged,
         Starting, Holding, KeyInv
<1>6. QED
  BY <1>3, <1>4, <1>5, OwnStepKeepsInv

LEMMA ReportSuccessKeepsInv ==
    ASSUME FlowInv, NEW r \in Requests, ReportSuccess(r)
    PROVE  FlowInv'
<1>1. /\ pc[r] = "report" /\ pc[r] \in Holding
      /\ Goto(r, BySign(r, "log", "answered"))
      /\ IF KindOf[r] = "TX" THEN Answer(r) ELSE UNCHANGED answer
      /\ UNCHANGED <<rows, submitted, audit, tries, signature, faults>>
      /\ KindOf[r] \in {"SIGN", "TX"}
      /\ audit \subseteq Requests \X {"SENT", "SUCCEEDED", "FAILED"}
  BY FlowAssumption DEF ReportSuccess, At, Holding, FlowInv, FlowTypeOK
<1>2. CASE KindOf[r] = "TX"
  BY <1>1, <1>2, AnswerKeepsInv DEF BySign
<1>3. CASE KindOf[r] = "SIGN"
  <2>1. Goto(r, "log") /\ UNCHANGED answer
    BY <1>1, <1>3 DEF BySign
  <2>2. pc'[r] = "log" /\ \A q \in Requests : q # r => pc'[q] = pc[q]
    BY <2>1, MoveFacts
  <2>3. FlowTypeOK'
    BY <1>1, <2>1 DEF FlowInv, FlowTypeOK, Goto, Holding
  <2>4. Footprint(r) /\ OwnRowOnly(r)
    BY <1>1, <2>1, <2>2 DEF Footprint, OwnRowOnly
  <2>5. RequestInv(r)' /\ KeyInv(KeyOf[r])'
    BY <1>1, <2>1, <2>2, HolderFacts
       DEF RequestInv, Unknown, Holds, Attempts, Unsigned, Answered, Logged,
           Starting, Holding, KeyInv
  <2>6. QED
    BY <2>3, <2>4, <2>5, OwnStepKeepsInv
<1>4. QED
  BY <1>1, <1>2, <1>3

LEMMA LogSuccessKeepsInv ==
    ASSUME FlowInv, NEW r \in Requests, LogSuccess(r)
    PROVE  FlowInv'
<1>1. audit' = audit \cup {<<r, "SUCCEEDED">>}
      /\ audit \subseteq Requests \X {"SENT", "SUCCEEDED", "FAILED"}
  BY DEF LogSuccess, Log, FlowInv, FlowTypeOK
<1>2. /\ audit \subseteq audit' /\ <<r, "SUCCEEDED">> \in audit'
      /\ audit' \subseteq Requests \X {"SENT", "SUCCEEDED", "FAILED"}
  BY <1>1
<1>3. /\ pc[r] \in {"report", "log"} /\ Goto(r, "answered") /\ Answer(r)
      /\ UNCHANGED <<rows, submitted, tries, signature, faults>>
  BY DEF LogSuccess, At
<1>4. QED
  BY <1>2, <1>3, AnswerKeepsInv

LEMMA CatchKeepsInv ==
    ASSUME FlowInv, NEW r \in Requests,
           MarkFailed(r) \/ ReportFailure(r) \/ LogFailure(r)
    PROVE  FlowInv'
<1>0. /\ faults \in 0..MaxFaults
      /\ audit \subseteq Requests \X {"SENT", "SUCCEEDED", "FAILED"}
  BY DEF FlowInv, FlowTypeOK
<1>1. CASE MarkFailed(r)
  <2>1. /\ pc[r] \in Holding
        /\ SetStatus(r, "FAILED") /\ Goto(r, "blame")
        /\ UNCHANGED <<submitted, audit, tries, signature, answer, faults>>
    BY <1>1 DEF MarkFailed, At, Holding
  <2>2. /\ rows' \in [Keys -> Row]
        /\ rows'[KeyOf[r]].status = "FAILED"
        /\ rows'[KeyOf[r]].by = rows[KeyOf[r]].by
        /\ rows'[KeyOf[r]].signature = rows[KeyOf[r]].signature
        /\ \A k \in Keys : k # KeyOf[r] => rows'[k] = rows[k]
    BY <2>1, SetStatusFacts
  <2>3. FlowTypeOK'
    BY <2>1, <2>2 DEF FlowInv, FlowTypeOK, Goto, Holding
  <2>4. Footprint(r)
    BY <2>1, <2>2, MoveFacts DEF Footprint
  <2>5. QED
    BY <2>1, <2>2, <2>3, <2>4, HolderFacts, FailingKeepsInv
<1>2. CASE ReportFailure(r)
  <2>1. /\ pc[r] \in Holding /\ pc[r] # "answered"
        /\ Goto(r, "logFailure") \/ Goto(r, "threw")
        /\ UNCHANGED <<rows, submitted, audit, tries, signature, answer, faults>>
    BY <1>2 DEF ReportFailure, At, Holding, BySign
  <2>2. CASE Goto(r, "logFailure")
    <3>1. FlowTypeOK'
      BY <2>1, <2>2 DEF FlowInv, FlowTypeOK, Goto, Holding
    <3>2. Footprint(r)
      BY <2>1, <2>2, MoveFacts DEF Footprint
    <3>3. QED
      BY <2>1, <2>2, <3>1, <3>2, HolderFacts, FailingKeepsInv
  <2>3. QED
    BY <1>0, <2>1, <2>2, GivingUpKeepsInv
<1>3. CASE LogFailure(r)
  BY <1>0, <1>3, GivingUpKeepsInv DEF LogFailure, At, Log
<1>4. QED
  BY <1>1, <1>2, <1>3

LEMMA DatabaseErrorKeepsInv ==
    ASSUME FlowInv, NEW r \in Requests, DatabaseError(r)
    PROVE  FlowInv'
<1> USE FlowAssumption
<1>1. /\ faults' \in 0..MaxFaults
      /\ audit \subseteq Requests \X {"SENT", "SUCCEEDED", "FAILED"}
      /\ UNCHANGED <<rows, submitted, audit, tries, signature, answer>>
  BY DEF DatabaseError, FlowInv, FlowTypeOK
<1>2. CASE pc[r] \in {"succeed", "log"} /\ Goto(r, "fail")
  <2>1. pc[r] \in Holding
    BY <1>2 DEF Holding
  <2>2. FlowTypeOK'
    BY <1>1, <1>2 DEF FlowInv, FlowTypeOK, Goto, Holding
  <2>3. Footprint(r)
    BY <1>1, <1>2, MoveFacts DEF Footprint
  <2>4. QED
    BY <1>1, <1>2, <2>1, <2>2, <2>3, HolderFacts, FailingKeepsInv
<1>3. CASE pc[r] # "answered" /\ Goto(r, "threw")
  BY <1>1, <1>3, GivingUpKeepsInv
<1>4. QED
  BY <1>2, <1>3 DEF DatabaseError

LEMMA CrashKeepsInv ==
    ASSUME FlowInv, Crash
    PROVE  FlowInv'
<1> USE FlowAssumption
<1>1. /\ faults' \in 0..MaxFaults
      /\ pc' = [r \in Requests |-> IF InFlight(r) THEN "lost" ELSE pc[r]]
      /\ UNCHANGED <<rows, submitted, tries, signature, answer, audit>>
  BY DEF Crash, FlowInv, FlowTypeOK
<1>2. FlowTypeOK'
  BY <1>1 DEF FlowInv, FlowTypeOK, Ended
<1>3. ASSUME NEW r \in Requests
      PROVE  RequestInv(r)'
  <2>1. pc'[r] = pc[r] \/ (pc'[r] = "lost" /\ pc[r] # "answered")
    BY <1>1 DEF InFlight, Ended
  <2>2. RequestInv(r)
    BY DEF FlowInv
  <2>3. CASE pc'[r] = pc[r]
    BY <1>1, <2>2, <2>3
       DEF RequestInv, Unknown, Holds, Attempts, Unsigned, Answered, Logged
  <2>4. CASE pc'[r] = "lost" /\ pc[r] # "answered"
    BY <1>1, <2>2, <2>4
       DEF RequestInv, Unknown, Holds, Attempts, Unsigned, Answered, Logged,
           Starting, Holding
  <2>5. QED
    BY <2>1, <2>3, <2>4
<1>4. \A k \in Keys : KeyInv(k)'
  BY <1>1 DEF FlowInv, KeyInv
<1>5. QED
  BY <1>2, <1>3, <1>4 DEF FlowInv

-----------------------------------------------------------------------------
LEMMA FlowInvInit == Init => FlowInv
<1> SUFFICES ASSUME Init
             PROVE  FlowInv
  OBVIOUS
<1> USE FlowAssumption
<1>1. FlowTypeOK
  BY DEF Init, FlowTypeOK, NoRow, Row, FirstStep
<1>2. ASSUME NEW r \in Requests
      PROVE  RequestInv(r)
  <2>1. KeyOf[r] \in Keys /\ pc[r] \in {"limit", "wallet"}
    BY DEF Keys, Init, FirstStep
  <2>2. QED
    BY <2>1
       DEF Init, NoRow, RequestInv, Unknown, Holds, Attempts, Unsigned,
           Answered, Logged, Holding
<1>3. \A k \in Keys : KeyInv(k)
  BY DEF Init, NoRow, KeyInv
<1>4. QED
  BY <1>1, <1>2, <1>3 DEF FlowInv

LEMMA FlowInvStep == FlowInv /\ [Next]_vars => FlowInv'
<1> SUFFICES ASSUME FlowInv, [Next]_vars
             PROVE  FlowInv'
  OBVIOUS
<1>1. ASSUME NEW r \in Requests, Step(r)
      PROVE  FlowInv'
  BY <1>1, PreflightKeepsInv, FindKeepsInv, CreateKeepsInv, AnnounceKeepsInv,
     MarkSentKeepsInv, CallReturnsKeepsInv, CallFailsKeepsInv,
     MarkSucceededKeepsInv, ReportSuccessKeepsInv, LogSuccessKeepsInv,
     CatchKeepsInv
     DEF Step
<1>2. ASSUME NEW r \in Requests, DatabaseError(r)
      PROVE  FlowInv'
  BY <1>2, DatabaseErrorKeepsInv
<1>3. CASE Crash
  BY <1>3, CrashKeepsInv
<1>4. CASE ReadStatus \/ TimePasses \/ UNCHANGED vars
  BY <1>4, IdleFlowKeepsInv DEF ReadStatus, TimePasses, vars
<1>5. QED
  BY <1>1, <1>2, <1>3, <1>4 DEF Next

(* What each request knows of its row is true at each of its awaits.       *)
THEOREM FlowInvAlways == Spec => []FlowInv
BY FlowInvInit, FlowInvStep, PTL DEF Spec

(* executeWithTracking, executeTransaction: types of rows and locals.      *)
THEOREM FlowTypeCorrect == Spec => []FlowTypeOK
<1>1. FlowInv => FlowTypeOK
  BY DEF FlowInv
<1>2. QED
  BY <1>1, FlowInvAlways, PTL

(* The unique idempotencyKey lets one request of a key reach the provider. *)
THEOREM OneRequestHoldsRow == Spec => []RowHeldByOne
<1>1. FlowInv => RowHeldByOne
  BY DEF FlowInv, RequestInv, Holds, RowHeldByOne
<1>2. QED
  BY <1>1, FlowInvAlways, PTL

(* retryWithBackoff: a payload is signed at most once per attempt, however *)
(* many callers ask for it and whatever is lost.                           *)
THEOREM SubmissionsAreBounded == Spec => []SubmissionsBounded
<1>1. FlowInv => SubmissionsBounded
  BY DEF FlowInv, KeyInv, SubmissionsBounded
<1>2. QED
  BY <1>1, FlowInvAlways, PTL

(* A returned signature stays the one on record for its key.               *)
THEOREM AnswersAreOnRecord == Spec => []AnswersOnRecord
<1>1. FlowInv => AnswersOnRecord
  BY DEF FlowInv, RequestInv, Answered, AnswersOnRecord
<1>2. QED
  BY <1>1, FlowInvAlways, PTL

(* A new signature is returned after both entries about it are written.    *)
THEOREM AnswersAreLogged == Spec => []AnswersLogged
<1>1. FlowInv => AnswersLogged
  BY DEF FlowInv, RequestInv, Logged, AnswersLogged
<1>2. QED
  BY <1>1, FlowInvAlways, PTL

-----------------------------------------------------------------------------
(* The requests that share the rate limiter use it as LimiterSpec says.    *)
THEOREM FlowUsesLimiter == Spec => LimiterSpec
<1> USE FlowAssumption
<1>1. Init => LimiterInit
  BY DEF Init
<1>2. [Next]_vars => [LimiterNext]_limiterVars
  <2> SUFFICES ASSUME [Next]_vars
               PROVE  LimiterNext \/ UNCHANGED limiterVars
    OBVIOUS
  <2>1. ASSUME NEW r \in Requests, Limit(r)
        PROVE  LimiterNext
    BY <2>1 DEF Limit, LimiterNext
  <2>2. ASSUME NEW r \in Requests, Step(r), ~Limit(r)
        PROVE  UNCHANGED limiterVars
    BY <2>2
       DEF Step, Allow, Wallet, Find, Create, Announce, MarkSent, CallReturns,
           CallFails, MarkSucceeded, ReportSuccess, LogSuccess, MarkFailed,
           ReportFailure, LogFailure, limiterVars
  <2>3. ASSUME NEW r \in Requests, DatabaseError(r)
        PROVE  UNCHANGED limiterVars
    BY <2>3 DEF DatabaseError, limiterVars
  <2>4. CASE Crash
    BY <2>4 DEF Crash, LimiterNext
  <2>5. CASE ReadStatus
    BY <2>5 DEF ReadStatus, LimiterNext
  <2>6. CASE TimePasses
    BY <2>6 DEF TimePasses, LimiterNext
  <2>7. CASE UNCHANGED vars
    BY <2>7 DEF vars, limiterVars
  <2>8. QED
    BY <2>1, <2>2, <2>3, <2>4, <2>5, <2>6, <2>7 DEF Next
<1>3. QED
  BY <1>1, <1>2, PTL DEF Spec, LimiterSpec

(* The requests that share the circuit breaker, which report in any order  *)
(* and perhaps long after they were let through, use it as BreakerSpec says.*)
THEOREM FlowUsesBreaker == Spec => BreakerSpec
<1>1. Init => BreakerInit
  BY DEF Init
<1>2. [Next]_vars => [BreakerNext]_breakerVars
  <2> SUFFICES ASSUME [Next]_vars
               PROVE  BreakerNext \/ UNCHANGED breakerVars
    OBVIOUS
  <2>1. ASSUME NEW r \in Requests, Allow(r) \/ ReportSuccess(r) \/ ReportFailure(r)
        PROVE  BreakerNext
    BY <2>1 DEF Allow, ReportSuccess, ReportFailure, BreakerNext
  <2>2. ASSUME NEW r \in Requests, Step(r),
               ~(Allow(r) \/ ReportSuccess(r) \/ ReportFailure(r))
        PROVE  UNCHANGED breakerVars
    BY <2>2
       DEF Step, Limit, Wallet, Find, Create, Announce, MarkSent, CallReturns,
           CallFails, MarkSucceeded, LogSuccess, MarkFailed, LogFailure,
           breakerVars
  <2>3. ASSUME NEW r \in Requests, DatabaseError(r)
        PROVE  UNCHANGED breakerVars
    BY <2>3 DEF DatabaseError, breakerVars
  <2>4. CASE Crash
    BY <2>4 DEF Crash, BreakerNext
  <2>5. CASE ReadStatus
    BY <2>5 DEF ReadStatus, BreakerNext
  <2>6. CASE TimePasses
    BY <2>6 DEF TimePasses, BreakerNext
  <2>7. CASE UNCHANGED vars
    BY <2>7 DEF vars, breakerVars
  <2>8. QED
    BY <2>1, <2>2, <2>3, <2>4, <2>5, <2>6, <2>7 DEF Next
<1>3. QED
  BY <1>1, <1>2, PTL DEF Spec, BreakerSpec

(* checkAndIncrement limits concurrent requests as it limits any others.   *)
THEOREM FlowKeepsRates == Spec => []RatesKept
BY FlowUsesLimiter, RatesHold

(* The breaker keeps its promises to concurrent requests.                  *)
THEOREM FlowKeepsBreaker == Spec => []TripsInTime /\ []QuietPeriod /\ []NeverStuck
BY FlowUsesBreaker, BreakerTripsInTime, BreakerKeepsQuiet, BreakerNeverStuck

-----------------------------------------------------------------------------
(* The status of a row that a request is still working on.                 *)
StatusKnown(r) ==
    /\ pc[r] \in {"announce", "send"} => rows[KeyOf[r]].status = "CREATED"
    /\ pc[r] \in {"call", "succeed", "fail"}
          => rows[KeyOf[r]].status = "SENT" /\ rows[KeyOf[r]].signature = 0
    /\ pc[r] = "succeed" => signature[r] # 0

LedgerInv == \A r \in Requests : StatusKnown(r)

(* Steps that write no row.                                                *)
LEMMA RowlessKeepsLedger ==
    ASSUME FlowInv, LedgerInv, NEW r \in Requests, UNCHANGED <<rows, signature>>,
           \A q \in Requests : q # r => pc'[q] = pc[q],
           StatusKnown(r)'
    PROVE  LedgerInv'
BY DEF LedgerInv, StatusKnown

(* Steps that write the row of their key.                                  *)
LEMMA RowWriteKeepsLedger ==
    ASSUME FlowInv, LedgerInv, NEW r \in Requests, UNCHANGED signature,
           \A q \in Requests : q # r => pc'[q] = pc[q],
           \A k \in Keys : k # KeyOf[r] => rows'[k] = rows[k],
           pc[r] \in Holding \/ rows[KeyOf[r]].status = "NONE",
           StatusKnown(r)'
    PROVE  LedgerInv'
<1>1. ASSUME NEW q \in Requests, q # r
      PROVE  StatusKnown(q)'
  <2>1. KeyOf[q] \in Keys /\ KeyOf[r] \in Keys /\ pc'[q] = pc[q]
        /\ signature'[q] = signature[q]
    BY <1>1 DEF Keys
  <2>2. CASE KeyOf[q] # KeyOf[r]
    BY <2>1, <2>2 DEF LedgerInv, StatusKnown
  <2>3. CASE KeyOf[q] = KeyOf[r]
    <3>1. pc[q] \notin Holding
      BY <1>1, <2>1, <2>3 DEF FlowInv, RequestInv, Holds, KeyInv
    <3>2. QED
      BY <2>1, <3>1 DEF StatusKnown, Holding
  <2>4. QED
    BY <2>2, <2>3
<1>2. QED
  BY <1>1 DEF LedgerInv

LEMMA LedgerInvInit == Init => LedgerInv
BY DEF Init, FirstStep, LedgerInv, StatusKnown

(* A step of a request, and what it does to the table.                     *)
RowStep(r) ==
    \/ UNCHANGED rows
    \/ /\ \A k \in Keys : k # KeyOf[r] => rows'[k] = rows[k]
       /\ \/ /\ rows[KeyOf[r]].status = "NONE"
             /\ rows'[KeyOf[r]].status = "CREATED"
             /\ rows'[KeyOf[r]].signature = rows[KeyOf[r]].signature
          \/ /\ rows[KeyOf[r]].status = "CREATED"
             /\ rows'[KeyOf[r]].status = "SENT"
             /\ rows'[KeyOf[r]].signature = rows[KeyOf[r]].signature
          \/ /\ rows[KeyOf[r]].status = "SENT"
             /\ rows'[KeyOf[r]].status = "FAILED"
             /\ rows'[KeyOf[r]].signature = rows[KeyOf[r]].signature
          \/ /\ rows[KeyOf[r]].status = "SENT"
             /\ rows'[KeyOf[r]].status = "SUCCEEDED"
             /\ rows'[KeyOf[r]].signature \in Nat \ {0}

LEMMA RequestStepKeepsLedger ==
    ASSUME FlowInv, LedgerInv, NEW r \in Requests, Step(r)
    PROVE  LedgerInv' /\ RowStep(r)
<1>0. /\ StatusKnown(r) /\ KeyOf[r] \in Keys /\ KeyInv(KeyOf[r])
      /\ rows \in [Keys -> Row]
  BY DEF LedgerInv, FlowInv, FlowTypeOK, Keys
<1>1. CASE Limit(r) \/ Allow(r) \/ Wallet(r) \/ Find(r)
  <2>1. UNCHANGED <<rows, signature>>
    BY <1>1 DEF Limit, Allow, Wallet, Find
  <2>2. \E label \in {"limit", "breaker", "wallet", "find", "create", "refused",
                      "answered"} : Goto(r, label)
    BY <1>1 DEF Limit, Allow, Wallet, Find, BySign
  <2>3. StatusKnown(r)'
    BY <2>2, MoveFacts DEF StatusKnown
  <2>4. QED
    BY <2>1, <2>2, <2>3, MoveFacts, RowlessKeepsLedger DEF RowStep
<1>2. CASE Announce(r) \/ ReportSuccess(r) \/ LogSuccess(r) \/ ReportFailure(r)
           \/ LogFailure(r)
  <2>1. UNCHANGED <<rows, signature>>
    BY <1>2 DEF Announce, ReportSuccess, LogSuccess, ReportFailure, LogFailure
  <2>2. \/ pc[r] = "announce" /\ Goto(r, "send")
        \/ \E label \in {"log", "answered", "logFailure", "threw"} : Goto(r, label)
    BY <1>2 DEF Announce, ReportSuccess, LogSuccess, ReportFailure, LogFailure,
                At, BySign
  <2>3. StatusKnown(r)'
    BY <1>0, <2>1, <2>2, MoveFacts DEF StatusKnown
  <2>4. QED
    BY <2>1, <2>2, <2>3, MoveFacts, RowlessKeepsLedger DEF RowStep
<1>3. CASE CallFails(r)
  <2>1. /\ UNCHANGED <<rows, signature>> /\ pc[r] = "call"
        /\ UNCHANGED pc \/ Goto(r, "fail")
    BY <1>3 DEF CallFails, Retry, At
  <2>2. /\ \A q \in Requests : q # r => pc'[q] = pc[q]
        /\ pc'[r] \in {"call", "fail"}
    BY <2>1, MoveFacts
  <2>3. StatusKnown(r)'
    BY <1>0, <2>1, <2>2 DEF StatusKnown
  <2>4. QED
    BY <2>1, <2>2, <2>3, RowlessKeepsLedger DEF RowStep
<1>4. CASE CallReturns(r)
  <2>1. /\ UNCHANGED rows /\ pc[r] = "call" /\ Goto(r, "succeed")
        /\ signature' = [signature EXCEPT ![r] = submitted[KeyOf[r]] + 1]
        /\ signature \in [Requests -> Nat] /\ submitted[KeyOf[r]] \in Nat
    BY <1>0, <1>4 DEF CallReturns, At, FlowInv, FlowTypeOK
  <2>2. /\ pc'[r] = "succeed" /\ \A q \in Requests : q # r => pc'[q] = pc[q]
        /\ signature'[r] # 0
        /\ \A q \in Requests : q # r => signature'[q] = signature[q]
    BY <2>1, MoveFacts
  <2>3. LedgerInv'
    BY <1>0, <2>1, <2>2 DEF LedgerInv, StatusKnown
  <2>4. QED
    BY <2>1, <2>3 DEF RowStep
<1>5. CASE Create(r)
  <2>1. UNCHANGED signature
    BY <1>5 DEF Create
  <2>2. CASE Goto(r, "threw") /\ UNCHANGED rows
    <3>1. StatusKnown(r)'
      BY <2>2, MoveFacts DEF StatusKnown
    <3>2. QED
      BY <2>1, <2>2, <3>1, MoveFacts, RowlessKeepsLedger DEF RowStep
  <2>3. CASE /\ rows[KeyOf[r]].status = "NONE"
             /\ rows' = [rows EXCEPT ![KeyOf[r]] =
                            [status |-> "CREATED", signature |-> 0, by |-> {r}]]
             /\ Goto(r, BySign(r, "announce", "send"))
    <3>1. /\ rows'[KeyOf[r]] = [status |-> "CREATED", signature |-> 0, by |-> {r}]
          /\ \A k \in Keys : k # KeyOf[r] => rows'[k] = rows[k]
          /\ rows[KeyOf[r]].signature = 0
      BY <1>0, <2>3 DEF KeyInv
    <3>2. /\ pc'[r] \in {"announce", "send"}
          /\ \A q \in Requests : q # r => pc'[q] = pc[q]
      BY <2>3, MoveFacts DEF BySign
    <3>3. StatusKnown(r)'
      BY <3>1, <3>2 DEF StatusKnown
    <3>4. LedgerInv'
      BY <2>1, <2>3, <3>1, <3>2, <3>3, RowWriteKeepsLedger
    <3>5. QED
      BY <2>3, <3>1, <3>4 DEF RowStep
  <2>4. QED
    BY <1>5, <2>2, <2>3 DEF Create
<1>6. CASE MarkSent(r) \/ MarkFailed(r)
  <2>1. /\ UNCHANGED signature /\ pc[r] \in Holding
        /\ \/ pc[r] = "send" /\ SetStatus(r, "SENT") /\ Goto(r, "call")
           \/ pc[r] = "fail" /\ SetStatus(r, "FAILED") /\ Goto(r, "blame")
    BY <1>6 DEF MarkSent, MarkFailed, At, Holding
  <2>2. /\ \A k \in Keys : k # KeyOf[r] => rows'[k] = rows[k]
        /\ rows'[KeyOf[r]].signature = rows[KeyOf[r]].signature
        /\ \A q \in Requests : q # r => pc'[q] = pc[q]
        /\ \/ pc[r] = "send" /\ pc'[r] = "call" /\ rows'[KeyOf[r]].status = "SENT"
           \/ pc[r] = "fail" /\ pc'[r] = "blame" /\ rows'[KeyOf[r]].status = "FAILED"
    BY <2>1, SetStatusFacts, MoveFacts
  <2>3. rows[KeyOf[r]].signature = 0
    BY <1>0, <2>2, MoveFacts, <2>1 DEF RequestInv, Unsigned, StatusKnown
  <2>4. StatusKnown(r)'
    BY <2>2, <2>3 DEF StatusKnown
  <2>5. LedgerInv'
    BY <2>1, <2>2, <2>4, RowWriteKeepsLedger
  <2>6. QED
    BY <1>0, <2>2, <2>5 DEF RowStep, StatusKnown
<1>7. CASE MarkSucceeded(r)
  <2>1. /\ UNCHANGED signature /\ pc[r] = "succeed" /\ pc[r] \in Holding
        /\ rows' = [rows EXCEPT ![KeyOf[r]] =
                       [status |-> "SUCCEEDED", signature |-> signature[r],
                        by |-> rows[KeyOf[r]].by]]
        /\ Goto(r, "report")
    BY <1>7 DEF MarkSucceeded, At, Holding
  <2>2. /\ rows'[KeyOf[r]].status = "SUCCEEDED"
        /\ rows'[KeyOf[r]].signature = signature[r]
        /\ signature[r] \in Nat \ {0}
        /\ \A k \in Keys : k # KeyOf[r] => rows'[k] = rows[k]
    BY <1>0, <2>1 DEF StatusKnown, FlowInv, FlowTypeOK
  <2>3. pc'[r] = "report" /\ \A q \in Requests : q # r => pc'[q] = pc[q]
    BY <2>1, MoveFacts
  <2>4. StatusKnown(r)'
    BY <2>3 DEF StatusKnown
  <2>5. LedgerInv'
    BY <2>1, <2>2, <2>3, <2>4, RowWriteKeepsLedger
  <2>6. QED
    BY <1>0, <2>1, <2>2, <2>5 DEF RowStep, StatusKnown
<1>8. QED
  BY <1>1, <1>2, <1>3, <1>4, <1>5, <1>6, <1>7 DEF Step

LEMMA LedgerInvStep ==
    ASSUME "database" \notin FaultKinds, FlowInv, LedgerInv, [Next]_vars
    PROVE  LedgerInv' /\ (UNCHANGED rows \/ \E r \in Requests : RowStep(r))
<1>1. ASSUME NEW r \in Requests, Step(r)
      PROVE  LedgerInv' /\ RowStep(r)
  BY <1>1, RequestStepKeepsLedger
<1>2. CASE Crash
  <2>1. /\ UNCHANGED <<rows, signature>>
        /\ \A r \in Requests : pc'[r] \in {pc[r], "lost"}
    BY <1>2 DEF Crash
  <2>2. QED
    BY <2>1 DEF LedgerInv, StatusKnown
<1>3. CASE ReadStatus \/ TimePasses \/ UNCHANGED vars
  BY <1>3 DEF ReadStatus, TimePasses, vars, flowVars, LedgerInv, StatusKnown
<1>4. QED
  BY <1>1, <1>2, <1>3 DEF Next, DatabaseError

(* One step of the table is one step of the abstract ledger.               *)
LEMMA RowStepIsLedgerStep ==
    ASSUME FlowInv, FlowInv', NEW r \in Requests, RowStep(r)
    PROVE  [Ledger!LedgerNext]_(Ledger!ledgerVars)
<1> DEFINE K == KeyOf[r]
           status == [k \in Keys |-> rows[k].status]
           recorded == [k \in Keys |-> rows[k].signature]
<1>1. K \in Keys /\ rows \in [Keys -> Row] /\ rows' \in [Keys -> Row]
  BY DEF FlowInv, FlowTypeOK, Keys
<1>2. CASE UNCHANGED rows
  BY <1>2 DEF Ledger!ledgerVars
<1>3. CASE \A k \in Keys : k # K => rows'[k] = rows[k]
  <2>1. status' = [status EXCEPT ![K] = rows'[K].status]
    BY <1>1, <1>3
  <2>2. recorded' = [recorded EXCEPT ![K] = rows'[K].signature]
    BY <1>1, <1>3
  <2>3. /\ status[K] = rows[K].status /\ recorded[K] = rows[K].signature
        /\ recorded'[K] = rows'[K].signature
    BY <1>1
  <2>4. rows'[K].signature = rows[K].signature => recorded' = recorded
    BY <1>1, <2>2, <2>3
  <2>5. CASE /\ rows[K].status = "NONE" /\ rows'[K].status = "CREATED"
             /\ rows'[K].signature = rows[K].signature
    <3>1. Ledger!Open(K)
      BY <2>1, <2>3, <2>4, <2>5 DEF Ledger!Open, Ledger!Advance
    <3>2. QED
      BY <1>1, <3>1 DEF Ledger!LedgerNext
  <2>6. CASE /\ rows[K].status = "CREATED" /\ rows'[K].status = "SENT"
             /\ rows'[K].signature = rows[K].signature
    <3>1. Ledger!Send(K)
      BY <2>1, <2>3, <2>4, <2>6 DEF Ledger!Send, Ledger!Advance
    <3>2. QED
      BY <1>1, <3>1 DEF Ledger!LedgerNext
  <2>7. CASE /\ rows[K].status = "SENT" /\ rows'[K].status = "FAILED"
             /\ rows'[K].signature = rows[K].signature
    <3>1. Ledger!Fail(K)
      BY <2>1, <2>3, <2>4, <2>7 DEF Ledger!Fail, Ledger!Advance
    <3>2. QED
      BY <1>1, <3>1 DEF Ledger!LedgerNext
  <2>8. CASE /\ rows[K].status = "SENT" /\ rows'[K].status = "SUCCEEDED"
             /\ rows'[K].signature \in Nat \ {0}
    <3>1. Ledger!Succeed(K)
      BY <2>1, <2>2, <2>3, <2>8 DEF Ledger!Succeed, Ledger!Advance
    <3>2. QED
      BY <1>1, <3>1 DEF Ledger!LedgerNext
  <2>9. CASE UNCHANGED rows
    BY <1>2, <2>9
  <2>10. QED
    BY <2>5, <2>6, <2>7, <2>8, <2>9 DEF RowStep
<1>4. QED
  BY <1>2, <1>3 DEF RowStep

(* While the database answers, the table lives as SigningLedger says: one  *)
(* life per key, with crashes, refusals and lost replies in between.       *)
THEOREM LedgerImplemented ==
    ASSUME "database" \notin FaultKinds
    PROVE  Spec => LedgerKept
<1>1. Init => Ledger!LedgerInit
  BY DEF Init, NoRow, Ledger!LedgerInit
<1>2. Spec => [](FlowInv /\ LedgerInv)
  <2>1. FlowInv /\ LedgerInv /\ [Next]_vars => FlowInv' /\ LedgerInv'
    BY FlowInvStep, LedgerInvStep
  <2>2. QED
    BY <2>1, FlowInvInit, LedgerInvInit, PTL DEF Spec
<1>3. FlowInv /\ LedgerInv /\ [Next]_vars => [Ledger!LedgerNext]_(Ledger!ledgerVars)
  <2> SUFFICES ASSUME FlowInv, LedgerInv, [Next]_vars
               PROVE  [Ledger!LedgerNext]_(Ledger!ledgerVars)
    OBVIOUS
  <2>1. FlowInv'
    BY FlowInvStep
  <2>2. CASE UNCHANGED rows
    BY <2>2 DEF Ledger!ledgerVars
  <2>3. QED
    BY <2>1, <2>2, LedgerInvStep, RowStepIsLedgerStep
<1>4. QED
  BY <1>1, <1>2, <1>3, PTL DEF Spec, LedgerKept, Ledger!LedgerSpec
=============================================================================
