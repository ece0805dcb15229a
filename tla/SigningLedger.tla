---------------------------- MODULE SigningLedger ----------------------------
(***************************************************************************)
(* What the table signing_requests promises its readers: one life per      *)
(* idempotency key, CREATED, then SENT, then SUCCEEDED with a signature    *)
(* that never changes, or FAILED for good.                                 *)
(***************************************************************************)
EXTENDS Integers

CONSTANT Keys   \* idempotency keys

VARIABLES status, recorded   \* per key; recorded is 0 without a signature

ledgerVars == <<status, recorded>>

LedgerInit ==
    /\ status = [k \in Keys |-> "NONE"]
    /\ recorded = [k \in Keys |-> 0]

Advance(k, from, to) ==
    /\ status[k] = from
    /\ status' = [status EXCEPT ![k] = to]

Open(k)  == Advance(k, "NONE", "CREATED") /\ UNCHANGED recorded
Send(k)  == Advance(k, "CREATED", "SENT") /\ UNCHANGED recorded
Fail(k)  == Advance(k, "SENT", "FAILED") /\ UNCHANGED recorded

Succeed(k) ==
    /\ Advance(k, "SENT", "SUCCEEDED")
    /\ recorded'[k] \in Nat \ {0}
    /\ recorded' = [recorded EXCEPT ![k] = recorded'[k]]

LedgerNext == \E k \in Keys : Open(k) \/ Send(k) \/ Fail(k) \/ Succeed(k)

LedgerSpec == LedgerInit /\ [][LedgerNext]_ledgerVars
=============================================================================
