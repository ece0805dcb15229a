-------------------------------- MODULE Orders --------------------------------
(***************************************************************************)
(* The routes that place, cancel and reconcile orders (routes/orders.ts,   *)
(* routes/admin.ts), beside the exchange, which fills and drops orders on  *)
(* its own: requests in any number at once, each standing at one of its    *)
(* awaits.                                                                 *)
(***************************************************************************)
EXTENDS Naturals

CONSTANTS
    MaxOrders,      \* bound on orders, numbered as they are posted
    MaxCancels,     \* bound on cancel requests
    MaxReconciles   \* bound on reconcile requests

OrderIds   == 1..MaxOrders
Cancels    == 1..MaxCancels
Reconciles == 1..MaxReconciles

VARIABLES
    order,      \* status of each orders row, NONE before it exists
    named,      \* the orders the exchange answered an id for
    onExchange, \* none, live or gone
    aged,       \* orders older than maxAgeMs
    cancel,     \* each cancel request: where it stands and its order
    reconcile,  \* each reconcile request: the rows it still has to expire
    lost,       \* orders whose handler failed before the row was written
    refused     \* history: live orders the exchange answered it did not cancel

orderVars == <<order, named, onExchange, aged, cancel, reconcile, lost,
               refused>>

OrdersTypeOK ==
    /\ order \in [OrderIds -> {"NONE", "OPEN", "CANCELLED", "EXPIRED"}]
    /\ onExchange \in [OrderIds -> {"none", "live", "gone"}]
    /\ {named, aged, lost, refused} \subseteq SUBSET OrderIds
    /\ cancel \in [Cancels -> [at : {"idle", "found", "told", "done"},
                               of : OrderIds \cup {0}]]
    /\ reconcile \in [Reconciles -> [at : {"idle", "listed"},
                                     todo : SUBSET OrderIds]]

OrdersInit ==
    /\ order = [o \in OrderIds |-> "NONE"]
    /\ named = {}
    /\ onExchange = [o \in OrderIds |-> "none"]
    /\ aged = {}
    /\ cancel = [c \in Cancels |-> [at |-> "idle", of |-> 0]]
    /\ reconcile = [r \in Reconciles |-> [at |-> "idle", todo |-> {}]]
    /\ lost = {}
    /\ refused = {}

-----------------------------------------------------------------------------
(* POST /orders: the exchange takes the order and names it, or its answer  *)
(* names none, be it taken or not; a refusal that throws leaves no trace.  *)
PlaceOrder(o) ==
    /\ onExchange[o] = "none" /\ \A p \in 1..(o - 1) : onExchange[p] # "none"
    /\ \/ /\ named' = named \cup {o}
          /\ onExchange' = [onExchange EXCEPT ![o] = "live"]
       \/ /\ named' = named
          /\ \E there \in {"live", "gone"} : onExchange' = [onExchange EXCEPT ![o] = there]
    /\ UNCHANGED <<order, aged, cancel, reconcile, lost, refused>>

Placing(o) == onExchange[o] # "none" /\ order[o] = "NONE" /\ o \notin lost

StoreOrderRow(o) ==
    /\ Placing(o)
    /\ order' = [order EXCEPT ![o] = "OPEN"]
    /\ UNCHANGED <<named, onExchange, aged, cancel, reconcile, lost, refused>>

(* The insert fails, or the process dies: nothing takes the order back.    *)
LoseOrder(o) ==
    /\ Placing(o)
    /\ lost' = lost \cup {o}
    /\ UNCHANGED <<order, named, onExchange, aged, cancel, reconcile, refused>>

-----------------------------------------------------------------------------
(* POST /orders/:orderId/cancel, for a row of any status.                  *)
FindOrder(c) ==
    /\ cancel[c].at = "idle"
    /\ \E o \in OrderIds :
         /\ order[o] # "NONE"
         /\ cancel' = [cancel EXCEPT ![c] = [at |-> "found", of |-> o]]
    /\ UNCHANGED <<order, named, onExchange, aged, reconcile, lost, refused>>

(* The exchange takes the order back, or has it no more, or there is no id *)
(* to name it by.  It may also leave the order and say so in its answer,   *)
(* at which the handler does not look.  Or the call throws, before the     *)
(* exchange has acted or after, and the request ends.                      *)
CancelOnExchange(c) ==
    /\ cancel[c].at = "found"
    /\ LET o == cancel[c].of IN
       \/ /\ o \in named
          /\ onExchange' = [onExchange EXCEPT ![o] = "gone"]
          /\ \E next \in {"told", "done"} : cancel' = [cancel EXCEPT ![c].at = next]
          /\ UNCHANGED refused
       \/ /\ o \in named /\ onExchange[o] = "live"
          /\ refused' = refused \cup {o}
          /\ cancel' = [cancel EXCEPT ![c].at = "told"]
          /\ UNCHANGED onExchange
       \/ /\ cancel' = [cancel EXCEPT ![c].at = IF o \in named THEN "done" ELSE "told"]
          /\ UNCHANGED <<onExchange, refused>>
    /\ UNCHANGED <<order, named, aged, reconcile, lost>>

(* Mutant: the row is written first and the exchange told afterwards.      *)
MarkFirst(c) ==
    /\ cancel[c].at = "found"
    /\ order' = [order EXCEPT ![cancel[c].of] = "CANCELLED"]
    /\ UNCHANGED <<named, onExchange, aged, cancel, reconcile, lost, refused>>

MarkCancelled(c) ==
    /\ cancel[c].at = "told"
    /\ order' = [order EXCEPT ![cancel[c].of] = "CANCELLED"]
    /\ cancel' = [cancel EXCEPT ![c].at = "done"]
    /\ UNCHANGED <<named, onExchange, aged, reconcile, lost, refused>>

(* The update, or the audit entry after it, throws: the request ends.      *)
CancelFails(c) ==
    /\ cancel[c].at \in {"found", "told"}
    /\ cancel' = [cancel EXCEPT ![c].at = "done"]
    /\ UNCHANGED <<order, named, onExchange, aged, reconcile, lost, refused>>

-----------------------------------------------------------------------------
Stale(o) == o \in aged \/ o \notin named

(* POST /admin/reconcile: the OPEN rows and the threshold are read once,   *)
(* then the stale ones become EXPIRED, one by one, whatever they are by    *)
(* then; a failing update ends the request.                                *)
ListOpen(r) ==
    /\ reconcile[r].at = "idle"
    /\ reconcile' = [reconcile EXCEPT ![r] =
          [at |-> "listed", todo |-> {o \in OrderIds : order[o] = "OPEN" /\ Stale(o)}]]
    /\ UNCHANGED <<order, named, onExchange, aged, cancel, lost, refused>>

ExpireNext(r) ==
    /\ reconcile[r].at = "listed"
    /\ \E o \in reconcile[r].todo :
         /\ order' = [order EXCEPT ![o] = "EXPIRED"]
         /\ reconcile' = [reconcile EXCEPT ![r].todo = @ \ {o}]
    /\ UNCHANGED <<named, onExchange, aged, cancel, lost, refused>>

ReconcileFails(r) ==
    /\ reconcile[r].todo # {}
    /\ reconcile' = [reconcile EXCEPT ![r].todo = {}]
    /\ UNCHANGED <<order, named, onExchange, aged, cancel, lost, refused>>

-----------------------------------------------------------------------------
(* The exchange fills an order or drops it; time passes.                   *)
LeaveExchange(o) ==
    /\ onExchange[o] = "live"
    /\ onExchange' = [onExchange EXCEPT ![o] = "gone"]
    /\ UNCHANGED <<order, named, aged, cancel, reconcile, lost, refused>>

GrowOld(o) ==
    /\ order[o] # "NONE" /\ o \notin aged
    /\ aged' = aged \cup {o}
    /\ UNCHANGED <<order, named, onExchange, cancel, reconcile, lost, refused>>

OrdersNext ==
    \/ \E o \in OrderIds : \/ PlaceOrder(o) \/ StoreOrderRow(o) \/ LoseOrder(o)
                           \/ LeaveExchange(o) \/ GrowOld(o)
    \/ \E c \in Cancels : \/ FindOrder(c) \/ CancelOnExchange(c)
                          \/ MarkCancelled(c) \/ CancelFails(c)
    \/ \E r \in Reconciles : ListOpen(r) \/ ExpireNext(r) \/ ReconcileFails(r)

OrdersSpec == OrdersInit /\ [][OrdersNext]_orderVars

-----------------------------------------------------------------------------
(* A row that says CANCELLED has no live order, if it could be named.      *)
CancelledIsGone == \A o \in named : order[o] = "CANCELLED" => onExchange[o] # "live"

(* The table and the exchange, with cancels and reconciles at once: the    *)
(* ignored answer is the only way to a row that says CANCELLED while its   *)
(* order lives, if the order could be named; and a live order that could   *)
(* be named, is not old and was not lost with its handler is OPEN or about *)
(* to be.  Nothing else hides from the user what is at risk.               *)
OrdersTellExchange ==
    \A o \in named \ refused : onExchange[o] = "live" =>
        /\ order[o] # "CANCELLED"
        /\ o \notin aged \cup lost => Placing(o) \/ order[o] = "OPEN"
=============================================================================
