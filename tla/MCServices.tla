------------------------------ MODULE MCServices ------------------------------
(* The routes that move money and the smaller services around them for TLC. *)
(* They share no state here, so a behaviour exercises one of them while the *)
(* others stand still.                                                      *)
EXTENDS Funds, Orders, EventStream, WebSession, WorkerHealth, CopyFunding

CONSTANTS w1, w2   \* workers

VARIABLE service    \* the one this behaviour exercises

Services == {"funds", "orders", "stream", "session", "health", "funding"}

(* A worker that runs often, and one for which the long limit is meant.     *)
MCWorkers    == <<w1, w2>>
MCInterval   == [w \in {w1, w2} |-> IF w = w1 THEN 1 ELSE 3]

MCProfile ==
    [minOdds |-> 5, maxOdds |-> 95, maxOpenPositions |-> 1,
     copyPercentage |-> 50, maxPosition |-> 200]

(* Copies that the balance or the profile cuts, whose size is rounded up    *)
(* or down; ones outside the odds, too small, or one market too many.       *)
MCOffers ==
    [side : {"BUY", "SELL"}, price : {7, 30, 45, 97}, size : {15, 400, 5000},
     openMarkets : {0, 1}]

fundsAll    == vars
servicesVars == <<fundsAll, orderVars, streamVars, sessionVars, healthVars, fundingVars, service>>

ServicesInit ==
    /\ service \in Services
    /\ Init /\ OrdersInit /\ StreamInit /\ SessionsInit /\ HealthInit /\ FundingInit
    /\ service # "stream" => visible = {}
    /\ service # "funding" => usdc = [e |-> 0, n |-> 0]

ServicesNext ==
    /\ UNCHANGED service
    /\ \/ /\ service = "funds" /\ Next
          /\ UNCHANGED <<orderVars, streamVars, sessionVars, healthVars, fundingVars>>
       \/ /\ service = "orders" /\ OrdersNext
          /\ UNCHANGED <<fundsAll, streamVars, sessionVars, healthVars, fundingVars>>
       \/ /\ service = "stream" /\ StreamNext
          /\ UNCHANGED <<fundsAll, orderVars, sessionVars, healthVars, fundingVars>>
       \/ /\ service = "session" /\ SessionsNext
          /\ UNCHANGED <<fundsAll, orderVars, streamVars, healthVars, fundingVars>>
       \/ /\ service = "health" /\ HealthNext
          /\ UNCHANGED <<fundsAll, orderVars, streamVars, sessionVars, fundingVars>>
       \/ /\ service = "funding" /\ FundingNext
          /\ UNCHANGED <<fundsAll, orderVars, streamVars, sessionVars, healthVars>>

(* The fairness of Funds.                                                   *)
ServicesFair ==
    \A r \in Requests :
        WF_servicesVars(service = "funds" /\ RequestStep(r)
            /\ UNCHANGED <<orderVars, streamVars, sessionVars, healthVars, fundingVars, service>>)

ServicesSpec == ServicesInit /\ [][ServicesNext]_servicesVars /\ ServicesFair
=============================================================================
