---------------------------- MODULE MCSigningFlow ----------------------------
(* Values of the constants of SigningFlow for TLC: r1 and r2 sign the same  *)
(* payload for u1, r3 stands for another request, of u1 or of u2.           *)
EXTENDS SigningFlow, TLC

CONSTANTS u1, u2, r1, r2, r3, k1, k2

MCSignOnly == [r \in Requests |-> "SIGN"]
MCWithTx   == [r \in Requests |-> IF r = r3 THEN "TX" ELSE "SIGN"]

MCOneUser  == [r \in Requests |-> u1]
MCTwoUsers == [r \in Requests |-> IF r = r3 THEN u2 ELSE u1]

MCKeys     == [r \in Requests |-> IF r = r3 THEN k2 ELSE k1]
MCDistinct == [r \in Requests |-> r]
=============================================================================
