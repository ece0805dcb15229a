------------------------------ MODULE Guardrails ------------------------------
(***************************************************************************)
(* evaluateGuardrails (engine/guardrails.ts) as a function.  Prices and    *)
(* dollars are in cents, shares in hundredths, percentages are whole.  The *)
(* code computes in binary floating point and rounds the size to           *)
(* hundredths with toFixed(2); here sizes are exact fractions n / d of a   *)
(* hundredth until they are rounded.                                       *)
(***************************************************************************)
EXTENDS Integers

(* The cost of the size q.n / q.d at the price p exceeds so many cents.    *)
CostExceeds(q, p, cents) == q.n * p > 100 * cents * q.d

AsMuchAs(cents, p) == [n |-> 100 * cents, d |-> p]

Rounded(q) == (2 * q.n + q.d) \div (2 * q.d)

Refuse(why) == [allowed |-> FALSE, size |-> 0, why |-> why]

InOddsRange(profile, trade) ==
    profile.minOdds <= trade.price /\ trade.price <= profile.maxOdds

TooManyOpen(profile, openMarkets, trade) ==
    openMarkets >= profile.maxOpenPositions /\ trade.side = "BUY"

(* The share of the leader's size, capped by the largest position.         *)
CopySize(profile, trade) ==
    LET share == [n |-> trade.size * profile.copyPercentage, d |-> 100] IN
    IF CostExceeds(share, trade.price, profile.maxPosition)
      THEN AsMuchAs(profile.maxPosition, trade.price) ELSE share

Short(profile, trade, balance) ==
    /\ CostExceeds(CopySize(profile, trade), trade.price, balance)
    /\ trade.side = "BUY"

(* What is left of it with this balance.                                   *)
AffordedSize(profile, trade, balance) ==
    IF Short(profile, trade, balance) THEN AsMuchAs(balance, trade.price)
    ELSE CopySize(profile, trade)

BelowMinimum(q) == q.n < 10 * q.d

EvaluateGuardrails(profile, openMarkets, trade, balance) ==
    IF ~InOddsRange(profile, trade) THEN Refuse("odds")
    ELSE IF TooManyOpen(profile, openMarkets, trade) THEN Refuse("positions")
    ELSE IF Short(profile, trade, balance) /\ balance < 100 THEN Refuse("balance")
    ELSE IF BelowMinimum(AffordedSize(profile, trade, balance)) THEN Refuse("size")
    ELSE [allowed |-> TRUE, why |-> "",
          size |-> Rounded(AffordedSize(profile, trade, balance))]
=============================================================================
