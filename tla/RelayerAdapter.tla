---------------------------- MODULE RelayerAdapter ----------------------------
(***************************************************************************)
(* RelayerAdapter.submitProxyTransactions (adapters/relayer.adapter.ts):   *)
(* each request makes at most one submission.  The relayer and the chain   *)
(* are external: an accepted transaction is mined if its nonce is the      *)
(* wallet's next one, succeeds or reverts, or is dropped.                  *)
(***************************************************************************)
EXTENDS Naturals, FiniteSets

CONSTANT MaxRequests     \* bound on HTTP requests, numbered as they arrive

Requests == 1..MaxRequests

ASSUME RelayerAssumption == MaxRequests \in Nat

VARIABLES
    at,          \* where each request stands
    nonce,       \* the nonce it read from /relay-payload
    relay,       \* what became of its transaction
    chainNonce   \* the next nonce of the wallet on the relay hub

relayerVars == <<at, nonce, relay, chainNonce>>

AdapterSteps == {"payload", "sign", "submit", "hash", "receipt"}

Accepted == {"queued", "mined", "reverted", "dropped"}

RelayerTypeOK ==
    /\ nonce \in [Requests -> Nat]
    /\ relay \in [Requests -> {"none"} \cup Accepted]
    /\ chainNonce \in Nat

RelayerInit ==
    /\ at = [r \in Requests |-> "idle"]
    /\ nonce = [r \in Requests |-> 0]
    /\ relay = [r \in Requests |-> "none"]
    /\ chainNonce = 0

Standing(r, step) == at[r] = step
Goto(r, step)     == at' = [at EXCEPT ![r] = step]

-----------------------------------------------------------------------------
(* The adapter; "returned" and "threw" are its two ways to end.            *)
GetRelayPayload(r) ==
    /\ Standing(r, "payload")
    /\ \/ Goto(r, "sign") /\ nonce' = [nonce EXCEPT ![r] = chainNonce]
       \/ Goto(r, "threw") /\ UNCHANGED nonce
    /\ UNCHANGED <<relay, chainNonce>>

SignStructHash(r) ==
    /\ Standing(r, "sign")
    /\ Goto(r, "submit") \/ Goto(r, "threw")
    /\ UNCHANGED <<nonce, relay, chainNonce>>

(* POST /submit: the answer names the hash or not yet, or is lost though   *)
(* the relayer has the transaction; or the relayer refuses.                *)
Submit(r) ==
    /\ Standing(r, "submit")
    /\ \/ /\ relay' = [relay EXCEPT ![r] = "queued"]
          /\ \E next \in {"hash", "receipt", "threw"} : Goto(r, next)
       \/ Goto(r, "threw") /\ UNCHANGED relay
    /\ UNCHANGED <<nonce, chainNonce>>

(* pollForTxHash: a hash, a failed state, or no answer in time.            *)
PollForTxHash(r) ==
    /\ Standing(r, "hash")
    /\ \/ relay[r] # "dropped" /\ Goto(r, "receipt")
       \/ Goto(r, "threw")
    /\ UNCHANGED <<nonce, relay, chainNonce>>

(* Mutant: a receipt is enough, whatever its status.                       *)
WaitForAnyReceipt(r) ==
    /\ Standing(r, "receipt")
    /\ \/ relay[r] \in {"mined", "reverted"} /\ Goto(r, "returned")
       \/ Goto(r, "threw")
    /\ UNCHANGED <<nonce, relay, chainNonce>>

(* waitForReceipt throws on a revert, when the chain cannot be read and    *)
(* when the retries run out, whatever becomes of the transaction later.    *)
WaitForReceipt(r) ==
    /\ Standing(r, "receipt")
    /\ \/ relay[r] = "mined" /\ Goto(r, "returned")
       \/ Goto(r, "threw")
    /\ UNCHANGED <<nonce, relay, chainNonce>>

AdapterStep(r) ==
    \/ GetRelayPayload(r) \/ SignStructHash(r) \/ Submit(r) \/ PollForTxHash(r)
    \/ WaitForReceipt(r)

(* The relayer and the chain.                                              *)
Mine(r) ==
    /\ relay[r] = "queued" /\ nonce[r] = chainNonce
    /\ \E outcome \in {"mined", "reverted"} : relay' = [relay EXCEPT ![r] = outcome]
    /\ chainNonce' = chainNonce + 1
    /\ UNCHANGED <<at, nonce>>

Drop(r) ==
    /\ relay[r] = "queued"
    /\ relay' = [relay EXCEPT ![r] = "dropped"]
    /\ UNCHANGED <<at, nonce, chainNonce>>
=============================================================================
