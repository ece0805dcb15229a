----------------------------- MODULE CopyLedger -----------------------------
(***************************************************************************)
(* What copy_attempts promises those who read it beside the exchange: an   *)
(* attempt opens PENDING or is SKIPPED at once; while it is PENDING it may *)
(* get one order, its own; then it settles for good, SKIPPED only without  *)
(* an order and SUBMITTED only with one.  How many activations write it,   *)
(* what they await and how they die is not seen.                           *)
(***************************************************************************)
EXTENDS Naturals, Sequences

CONSTANT Followers

VARIABLES
    attempts,  \* rows [user, event, status, order], order 0 = null
    book       \* orders the exchange accepted: [user, event, attempt]

ledgerVars == <<attempts, book>>

LedgerInit == attempts = <<>> /\ book = <<>>

Pending(i) == i \in DOMAIN attempts /\ attempts[i].status = "PENDING"
Placed(i)  == \E b \in DOMAIN book : book[b].attempt = i

Opened == [user : Followers, event : Nat, status : {"PENDING", "SKIPPED"}, order : {0}]

Open ==
    /\ Len(attempts') = Len(attempts) + 1
    /\ LET new == attempts'[Len(attempts')] IN
          new \in Opened /\ attempts' = Append(attempts, new)
    /\ UNCHANGED book

Place(i) ==
    /\ Pending(i) /\ ~Placed(i)
    /\ book' = Append(book, [user |-> attempts[i].user,
                             event |-> attempts[i].event, attempt |-> i])
    /\ UNCHANGED attempts

(* FAILED says nothing of the order: the answer of the exchange, or the    *)
(* row it belongs in, may have been lost.                                  *)
Refuse(i, status) ==
    /\ Pending(i)
    /\ status = "SKIPPED" => ~Placed(i)
    /\ attempts' = [attempts EXCEPT ![i].status = status]
    /\ UNCHANGED book

Succeed(i) ==
    /\ Pending(i) /\ Placed(i)
    /\ attempts'[i].order \in Nat \ {0}
    /\ attempts' = [attempts EXCEPT ![i] =
                        [user |-> @.user, event |-> @.event,
                         status |-> "SUBMITTED", order |-> attempts'[i].order]]
    /\ UNCHANGED book

LedgerNext ==
    \/ Open
    \/ \E i \in DOMAIN attempts :
          \/ Place(i) \/ Succeed(i)
          \/ \E status \in {"FAILED", "SKIPPED"} : Refuse(i, status)

LedgerSpec == LedgerInit /\ [][LedgerNext]_ledgerVars
=============================================================================
