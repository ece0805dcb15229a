--------------------------- MODULE MCCopyTrading ---------------------------
(* Values of the constants of CopyTrading for TLC.                          *)
EXTENDS CopyTrading, TLC

CONSTANTS t1, t2, h1

MCBuy       == [t \in Trades |-> "BUY"]
MCBuySell   == [t \in Trades |-> IF t = t1 THEN "BUY" ELSE "SELL"]
MCDistinct  == [t \in Trades |-> t]
MCTokens    == [t \in Trades |-> <<"token", t>>]
MCPartlyHashed == [t \in Trades |-> IF t = t1 THEN t1 ELSE NoHash]
MCSymmetry  == Permutations(Polls) \cup Permutations(Users)
=============================================================================
