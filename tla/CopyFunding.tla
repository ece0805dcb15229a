------------------------------ MODULE CopyFunding ------------------------------
(***************************************************************************)
(* How the copy engine learns what a follower can spend: the position-sync *)
(* worker caches the wallet's balance in Redis for ten minutes             *)
(* (workers/position-sync.worker.ts), a copy reads the cache, or the chain *)
(* when the cache is empty or says zero (engine/copy-engine.ts), and the   *)
(* guardrails size it.  A balance is the sum of two token contracts, asked *)
(* at once and answered in any order; one that does not answer counts 0.   *)
(* One follower; activations of sync() and copies in any number.           *)
(***************************************************************************)
EXTENDS Guardrails

CONSTANTS
    Syncs, Copies,  \* activations of sync(), and copies, in flight at once
    Profile,
    Offers,         \* leader trades, each with the open markets of the follower
    Holdings,       \* what a token contract may hold for the wallet, in cents
    BalanceTTL,     \* USDC_BALANCE_TTL
    MaxFundingTime, MaxChanges  \* bounds of the model

ASSUME FundingAssumption ==
    /\ Profile \in [minOdds : Nat, maxOdds : Nat, maxOpenPositions : Nat,
                    copyPercentage : Nat, maxPosition : Nat]
    /\ Offers \subseteq [side : {"BUY", "SELL"}, price : Nat, size : Nat, openMarkets : Nat]
    /\ Holdings \subseteq Nat
    /\ BalanceTTL \in Nat \ {0}
    /\ MaxFundingTime \in Nat /\ MaxChanges \in Nat

Readers == Syncs \cup Copies

VARIABLES
    usdc,      \* what the wallet holds in each of the two contracts
    cache,     \* user:{id}:usdc_balance, with its expiry
    reader,    \* each activation: where it stands and what it has read
    minute,    \* the clock of Redis
    basis,     \* the balance the guardrails decided on in the step before
    changes    \* of the wallet so far

fundingVars == <<usdc, cache, reader, minute, basis, changes>>

Total(u) == u.e + u.n

(* A reading: the answers of the two contracts, -1 before they answer, and *)
(* as history the range of the wallet's total meanwhile, unless the        *)
(* reading was torn: a call failed, or the wallet changed between answers. *)
NewReading == [e |-> -1, n |-> -1, high |-> Total(usdc), low |-> Total(usdc), torn |-> FALSE]
NoReading  == [e |-> 0, n |-> 0, high |-> 0, low |-> 0, torn |-> FALSE]

Readings ==
    [e : Holdings \cup {0, -1}, n : Holdings \cup {0, -1}, high : Nat, low : Nat, torn : BOOLEAN]

NoBasis == [used |-> FALSE, of |-> NoReading, age |-> 0]

FundingTypeOK ==
    /\ usdc \in [e : Holdings, n : Holdings]
    /\ cache \in [of : Readings, saved : Nat, until : Nat]
    /\ reader \in [Readers -> [at : {"idle", "read", "save"}, of : Readings]]
    /\ minute \in 0..MaxFundingTime
    /\ changes \in 0..MaxChanges

FundingInit ==
    /\ usdc \in [e : Holdings, n : Holdings]
    /\ cache = [of |-> NoReading, saved |-> 0, until |-> 0]
    /\ reader = [r \in Readers |-> [at |-> "idle", of |-> NoReading]]
    /\ minute = 0
    /\ basis = NoBasis
    /\ changes = 0

Reading(r)  == reader[r].at = "read"
BothRead(q) == q.e # -1 /\ q.n # -1
HalfRead(q) == (q.e = -1) # (q.n = -1)
Torn(r)     == [reader[r] EXCEPT !.of.high = 0, !.of.low = 0, !.of.torn = TRUE]
Move(r, step) == reader' = [reader EXCEPT ![r].at = step]
Begin(r)    == reader' = [reader EXCEPT ![r] = [at |-> "read", of |-> NewReading]]
End(r)      == reader' = [reader EXCEPT ![r] = [at |-> "idle", of |-> NoReading]]

(* The guardrails decide at once on what the copy has read.                *)
Decide(q, age) == basis' = [used |-> TRUE, of |-> q, age |-> age]

-----------------------------------------------------------------------------
(* syncUserPositions, once the positions are stored; if the data API does  *)
(* not answer well it returns before this, and the cache is left alone.    *)
StartSync(r) ==
    /\ r \in Syncs /\ reader[r].at = "idle"
    /\ Begin(r)
    /\ basis' = NoBasis
    /\ UNCHANGED <<usdc, cache, minute, changes>>

CacheHit == minute < cache.until /\ cache.of.e + cache.of.n # 0

(* A copy asks Redis: no entry and the value 0 both lead to the chain.     *)
GetCached(r) ==
    /\ r \in Copies /\ reader[r].at = "idle"
    /\ \/ ~CacheHit /\ Begin(r) /\ basis' = NoBasis
       \/ CacheHit /\ Decide(cache.of, minute - cache.saved) /\ UNCHANGED reader
    /\ UNCHANGED <<usdc, cache, minute, changes>>

(* eth_call of one contract answers, or fails and counts as zero.          *)
CallContract(r, c) ==
    /\ Reading(r) /\ reader[r].of[c] = -1
    /\ \/ reader' = [reader EXCEPT ![r].of[c] = usdc[c]]
       \/ reader' = [reader EXCEPT ![r] = [Torn(r) EXCEPT !.of[c] = 0]]
    /\ basis' = NoBasis
    /\ UNCHANGED <<usdc, cache, minute, changes>>

(* Both have answered: a sync saves any balance, a copy one above zero,    *)
(* and decides on zero as it is.                                           *)
AddUp(r) ==
    /\ Reading(r) /\ BothRead(reader[r].of)
    /\ LET q == reader[r].of IN
       \/ (r \in Syncs \/ q.e + q.n > 0) /\ Move(r, "save") /\ basis' = NoBasis
       \/ r \in Copies /\ q.e + q.n = 0 /\ Decide(q, 0) /\ End(r)
    /\ UNCHANGED <<usdc, cache, minute, changes>>

(* Mutant: the entry is saved without an expiry.                           *)
SaveForGood(r) ==
    /\ reader[r].at = "save"
    /\ cache' = [of |-> reader[r].of, saved |-> minute, until |-> MaxFundingTime + 1]
    /\ IF r \in Copies THEN Decide(reader[r].of, 0) ELSE basis' = NoBasis
    /\ End(r)
    /\ UNCHANGED <<usdc, minute, changes>>

SaveBalance(r) ==
    /\ reader[r].at = "save"
    /\ cache' = [of |-> reader[r].of, saved |-> minute, until |-> minute + BalanceTTL]
    /\ IF r \in Copies THEN Decide(reader[r].of, 0) ELSE basis' = NoBasis
    /\ End(r)
    /\ UNCHANGED <<usdc, minute, changes>>

(* Redis fails, or the process dies.                                       *)
GiveUp(r) ==
    /\ reader[r].at # "idle"
    /\ End(r)
    /\ basis' = NoBasis
    /\ UNCHANGED <<usdc, cache, minute, changes>>

-----------------------------------------------------------------------------
(* Deposits, trades and withdrawals, and swaps between the two tokens.      *)
ChangeUsdc(next) ==
    /\ next # usdc /\ changes < MaxChanges
    /\ changes' = changes + 1
    /\ usdc' = next
    /\ reader' = [r \in Readers |->
         IF ~Reading(r) \/ reader[r].of.torn THEN reader[r]
         ELSE IF HalfRead(reader[r].of) THEN Torn(r)
         ELSE [reader[r] EXCEPT
                 !.of.high = IF Total(next) > @ THEN Total(next) ELSE @,
                 !.of.low  = IF Total(next) < @ THEN Total(next) ELSE @]]
    /\ basis' = NoBasis
    /\ UNCHANGED <<cache, minute>>

PassMinute ==
    /\ minute < MaxFundingTime
    /\ minute' = minute + 1
    /\ basis' = NoBasis
    /\ UNCHANGED <<usdc, cache, reader, changes>>

FundingNext ==
    \/ \E r \in Readers :
          \/ StartSync(r) \/ GetCached(r) \/ AddUp(r) \/ SaveBalance(r) \/ GiveUp(r)
          \/ \E c \in {"e", "n"} : CallContract(r, c)
    \/ \E next \in [e : Holdings, n : Holdings] : ChangeUsdc(next)
    \/ PassMinute

FundingSpec == FundingInit /\ [][FundingNext]_fundingVars

-----------------------------------------------------------------------------
(* Whatever the leader trades: a copy that is made costs no more than the  *)
(* largest position of the profile and, if it buys, than the wallet held   *)
(* while its balance was read, but for the rounding of its size; one that  *)
(* is refused for want of funds has a wallet that held less than a dollar  *)
(* then; and a saved balance is not used after its ten minutes.  A reading *)
(* with a failed call, or with funds on the move between its two answers,  *)
(* can only promise the first.                                             *)
CopiesWithinMeans ==
    basis.used =>
      /\ basis.age < BalanceTTL
      /\ \A o \in Offers :
           LET q    == basis.of
               made == EvaluateGuardrails(Profile, o.openMarkets, o, q.e + q.n)
               AtMost(cents) == 2 * made.size * o.price <= 2 * 100 * cents + o.price
           IN  /\ made.allowed => AtMost(Profile.maxPosition)
               /\ made.allowed /\ o.side = "BUY" /\ ~q.torn => AtMost(q.high)
               /\ made.why = "balance" /\ ~q.torn => q.low < 100
=============================================================================
