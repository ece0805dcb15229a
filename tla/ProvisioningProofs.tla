-------------------------- MODULE ProvisioningProofs --------------------------
(***************************************************************************)
(* Proofs about Provisioning, for any number of calls, wallets and faults: *)
(* an address that was handed out stays, and credentials, proxy and proof  *)
(* belong to the wallet on record, in the two cases the code is made for.  *)
(***************************************************************************)
EXTENDS Provisioning, TLAPS

Settled == sw.status = "READY" /\ ~sw.mock

(* Places where a call makes a wallet, and where it has one.               *)
Making == {"refind", "mint", "write", "upsert", "catch"}
Having == {"creds", "derive", "storeCreds", "proxy", "storeProof"}

Unused   == handed = {} /\ creds = 0 /\ proxy = 0 /\ proof = 0
Agreeing ==
    /\ handed \subseteq {sw.addr}
    /\ creds \in {0, sw.addr} /\ proxy \in {0, sw.addr} /\ proof \in {0, sw.addr}

(* What a call is for, as far as its place tells, and for good.            *)
KindsTell ==
    /\ sw.mock => sw.addr = 0
    /\ \A c \in Calls :
         /\ at[c] = "idle" <=> kind[c] = "none"
         /\ at[c] = "lock" => kind[c] = "revoke"
         /\ at[c] \in {"list", "dropCreds", "dropRow"} => kind[c] = "migrate"
         /\ at[c] = "checkProof" => addr[c] # 0
         /\ ~replaced => kind[c] \notin {"rotate", "revoke", "migrate"}

Alone ==
    ~overlapped =>
        \A b, c \in Calls : at[b] \notin Ended /\ at[c] \notin Ended => b = c

(* A new user whose calls have not failed gets one wallet, by whichever    *)
(* call inserts the row, and all the others use it.                        *)
FirstInsertWins ==
    ~failed /\ ~replaced =>
        /\ sw.status \in {"NONE", "READY"} /\ ~sw.mock
        /\ \A c \in Calls :
             /\ at[c] \in {"mint", "write", "catch"} => seen[c] = 0
             /\ at[c] \in Having \cup {"upsert"} => Settled /\ addr[c] = sw.addr
        /\ Settled \/ Unused
        /\ Agreeing

(* Calls that follow each other: what a wallet has been used for keeps the *)
(* next call from making another.                                          *)
UsedStays ==
    ~overlapped /\ ~replaced =>
        /\ Settled \/ Unused
        /\ Agreeing
        /\ \A c \in Calls :
             /\ at[c] \in Making => Unused
             /\ at[c] \in Having \cup {"upsert"} => Settled /\ addr[c] = sw.addr

(* Migrations that follow each other drop credentials before their wallet. *)
NoTurns == \A c \in Calls : kind[c] \notin {"rotate", "revoke"}

CredsFollow ==
    ~overlapped /\ NoTurns =>
        /\ creds # 0 => Settled /\ creds = sw.addr
        /\ \A c \in Calls :
             /\ at[c] \in Making \cup {"dropRow"} => creds = 0
             /\ at[c] \in {"upsert", "creds", "derive", "storeCreds"}
                  => Settled /\ addr[c] = sw.addr

PartsInv == TypeOK /\ KindsTell /\ Alone /\ FirstInsertWins /\ UsedStays /\ CredsFollow

(* A call begins; while calls have never met, the others are over.         *)
Begun(c, what, step) ==
    /\ step = "list" => what = "migrate"
    /\ at[c] = "idle"
    /\ at' = [at EXCEPT ![c] = step]
    /\ kind' = [kind EXCEPT ![c] = what]
    /\ ~overlapped' => ~overlapped /\ \A b \in Calls : at[b] \in Ended
    /\ ~replaced' => ~replaced /\ what \notin {"rotate", "revoke", "migrate"}
    /\ overlapped' \in BOOLEAN /\ replaced' \in BOOLEAN
    /\ UNCHANGED <<rowVars, handed, seen, addr, failed, faults, provisionVars>>

LEMMA CallBegins ==
    ASSUME TypeOK, NEW c \in Calls, Route(c)
    PROVE  \E what \in Kinds \ {"none"}, step \in {"find", "list", "findProof"} :
              Begun(c, what, step)
<1>1. ASSUME NEW what \in Kinds \ {"none"}, NEW step \in {"find", "list", "findProof"},
             Begin(c, what, step), step = "list" => what = "migrate",
             UNCHANGED provisionVars
      PROVE  \E w \in Kinds \ {"none"}, s \in {"find", "list", "findProof"} : Begun(c, w, s)
  <2>1. ~overlapped' => ~overlapped /\ InFlight = {}
    BY <1>1 DEF Begin
  <2>2. ~overlapped' => \A b \in Calls : at[b] \in Ended
    BY <2>1 DEF InFlight
  <2>3. overlapped' \in BOOLEAN /\ replaced' \in BOOLEAN
    BY <1>1 DEF Begin, TypeOK
  <2>4. Begun(c, what, step)
    BY <1>1, <2>1, <2>2, <2>3 DEF Begun, Begin, Standing, Goto
  <2>5. QED
    BY <2>4
<1>2. CASE (GetAddress(c) \/ Rotate(c) \/ Revoke(c)) /\ UNCHANGED provisionVars
  BY <1>1, <1>2 DEF GetAddress, Rotate, Revoke, Kinds
<1>3. CASE PostProvision(c) \/ PostProof(c)
  BY <1>1, <1>3 DEF PostProvision, PostProof, Kinds
<1>4. CASE PostMigrate(c) \/ MigrateScript(c)
  BY <1>1, <1>4 DEF PostMigrate, MigrateScript, Kinds
<1>5. QED
  BY <1>2, <1>3, <1>4 DEF Route

RowType == [id : Nat, status : {"NONE", "READY", "FAILED"}, addr : Addresses,
            mock : BOOLEAN]

(* The types, one by one.                                                  *)
Typed ==
    /\ sw \in RowType
    /\ minted \in Addresses /\ walletRow \in Addresses /\ handed \subseteq Addresses
    /\ creds \in Addresses /\ proxy \in Addresses /\ proof \in Addresses
    /\ kind \in [Calls -> Kinds]
    /\ at \in [Calls -> WalletSteps \cup ProvisionSteps \cup Ended]
    /\ seen \in [Calls -> Nat]
    /\ addr \in [Calls -> Addresses]
    /\ overlapped \in BOOLEAN /\ failed \in BOOLEAN
    /\ replaced \in BOOLEAN /\ profile \in BOOLEAN
    /\ faults \in 0..MaxFaults

LEMMA TypesOneByOne == (TypeOK <=> Typed) /\ (TypeOK' <=> Typed')
BY DEF TypeOK, Typed, RowType

LEMMA StepKeepsTypes ==
    ASSUME Typed, [Next]_vars
    PROVE  Typed'
<1> USE WalletAssumption
    DEF Typed, RowType, Addresses, Calls, Kinds, WalletSteps, ProvisionSteps,
        Ended, rowVars, Same,
        Standing, Goto
<1>0. ASSUME UNCHANGED vars
      PROVE  Typed'
  BY <1>0 DEF vars, walletVars, provisionVars
<1>1. ASSUME NEW c \in Calls, Route(c)
      PROVE  Typed'
  <2>1. PICK what \in Kinds \ {"none"}, step \in {"find", "list", "findProof"} :
           Begun(c, what, step)
    BY <1>1, CallBegins, TypesOneByOne
  <2>2. QED
    BY <2>1 DEF Begun, provisionVars
<1>2. ASSUME NEW c \in Calls, Find(c), UNCHANGED provisionVars
      PROVE  Typed'
  <2>1. at' \in [Calls -> WalletSteps \cup ProvisionSteps \cup Ended]
    BY <1>2 DEF Find, Return, Throw
  <2>2. /\ seen' \in [Calls -> Nat] /\ addr' \in [Calls -> Addresses]
        /\ handed' \subseteq Addresses
    BY <1>2 DEF Find, Return
  <2>3. failed' \in BOOLEAN
    BY <1>2 DEF Find, Throw
  <2>4. QED
    BY <1>2, <2>1, <2>2, <2>3 DEF Find, provisionVars
<1>3. ASSUME NEW c \in Calls, Refind(c), UNCHANGED provisionVars
      PROVE  Typed'
  BY <1>3 DEF Refind, Return, provisionVars
<1>4. ASSUME NEW c \in Calls, Mint(c), UNCHANGED provisionVars
      PROVE  Typed'
  <2>1. at' \in [Calls -> WalletSteps \cup ProvisionSteps \cup Ended]
    BY <1>4 DEF Mint
  <2>2. minted' \in Addresses /\ addr' \in [Calls -> Addresses]
    <3>1. CASE minted < MaxMinted /\ minted' = minted + 1
      <4>1. minted + 1 \in Addresses
        BY <3>1
      <4>2. \/ addr' = [addr EXCEPT ![c] = minted + 1]
            \/ UNCHANGED addr
        BY <1>4 DEF Mint
      <4> HIDE DEF Addresses
      <4>3. addr' \in [Calls -> Addresses]
        BY <4>1, <4>2
      <4>4. QED
        BY <3>1, <4>1, <4>3
    <3>2. CASE UNCHANGED <<minted, addr>>
      BY <3>2
    <3>3. QED
      BY <1>4, <3>1, <3>2 DEF Mint
  <2>3. QED
    BY <1>4, <2>1, <2>2 DEF Mint, provisionVars
<1>5. ASSUME NEW c \in Calls, WriteRow(c), UNCHANGED provisionVars
      PROVE  Typed'
  <2>1. at' \in [Calls -> WalletSteps \cup ProvisionSteps \cup Ended]
    BY <1>5 DEF WriteRow
  <2>2. sw' \in RowType
    <3>1. addr[c] \in Addresses /\ (IF seen[c] = 0 THEN sw.id + 1 ELSE sw.id) \in Nat
      OBVIOUS
    <3> HIDE DEF Addresses
    <3>2. CASE PutRow(c, "READY", addr[c])
      BY <3>1, <3>2 DEF PutRow
    <3>3. CASE UNCHANGED sw
      BY <3>3
    <3>4. QED
      BY <1>5, <3>2, <3>3 DEF WriteRow
  <2>3. QED
    BY <1>5, <2>1, <2>2 DEF WriteRow, provisionVars
<1>6. ASSUME NEW c \in Calls, UpsertWallet(c), UNCHANGED provisionVars
      PROVE  Typed'
  BY <1>6 DEF UpsertWallet, Return, provisionVars
<1>7. ASSUME NEW c \in Calls, MarkWalletFailed(c), UNCHANGED provisionVars
      PROVE  Typed'
  <2>1. at' \in [Calls -> WalletSteps \cup ProvisionSteps \cup Ended] /\ failed' \in BOOLEAN
    BY <1>7 DEF MarkWalletFailed, Throw
  <2>2. sw' \in RowType
    <3>1. CASE PutRow(c, "FAILED", 0)
      BY <3>1 DEF PutRow
    <3>2. CASE sw' = [sw EXCEPT !.status = "FAILED"] \/ UNCHANGED sw
      BY <3>2
    <3>3. QED
      BY <1>7, <3>1, <3>2 DEF MarkWalletFailed
  <2>3. QED
    BY <1>7, <2>1, <2>2 DEF MarkWalletFailed, provisionVars
<1>8. ASSUME NEW c \in Calls, RevokeWallet(c), UNCHANGED provisionVars
      PROVE  Typed'
  BY <1>8 DEF RevokeWallet, RowIsThere, Throw, provisionVars
<1>9. ASSUME NEW c \in Calls, WalletError(c), UNCHANGED provisionVars
      PROVE  Typed'
  BY <1>9 DEF WalletError, InFlight, provisionVars
<1>10. ASSUME NEW c \in Calls, ReadCreds(c)
      PROVE  Typed'
  BY <1>10 DEF ReadCreds, provisionVars
<1>11. ASSUME NEW c \in Calls, DeriveCreds(c)
      PROVE  Typed'
  BY <1>11 DEF DeriveCreds, Throw, provisionVars
<1>12. ASSUME NEW c \in Calls, StoreCreds(c)
      PROVE  Typed'
  BY <1>12 DEF StoreCreds, Throw, provisionVars
<1>13. ASSUME NEW c \in Calls, StoreProxy(c)
      PROVE  Typed'
  BY <1>13 DEF StoreProxy, provisionVars
<1>14. ASSUME NEW c \in Calls, CreateProfile(c)
      PROVE  Typed'
  BY <1>14 DEF CreateProfile, provisionVars
<1>15. ASSUME NEW c \in Calls, ListReady(c)
      PROVE  Typed'
  BY <1>15 DEF ListReady, provisionVars
<1>16. ASSUME NEW c \in Calls, DropCreds(c)
      PROVE  Typed'
  BY <1>16 DEF DropCreds, provisionVars
<1>17. ASSUME NEW c \in Calls, DropRow(c)
      PROVE  Typed'
  <2>1. at' \in [Calls -> WalletSteps \cup ProvisionSteps \cup Ended] /\ failed' \in BOOLEAN
    BY <1>17 DEF DropRow, Throw
  <2>2. sw' \in RowType
    <3>1. 0 \in Addresses
      OBVIOUS
    <3>2. [sw EXCEPT !.status = "NONE", !.addr = 0, !.mock = FALSE] \in RowType
      BY <3>1
    <3>3. QED
      BY <1>17, <3>2 DEF DropRow
  <2>3. QED
    BY <1>17, <2>1, <2>2 DEF DropRow, provisionVars
<1>18. ASSUME NEW c \in Calls, FindProof(c)
      PROVE  Typed'
  BY <1>18 DEF FindProof, provisionVars
<1>19. ASSUME NEW c \in Calls, CheckProof(c)
      PROVE  Typed'
  BY <1>19 DEF CheckProof, Throw, provisionVars
<1>20. ASSUME NEW c \in Calls, StoreProof(c)
      PROVE  Typed'
  BY <1>20 DEF StoreProof, Throw, provisionVars
<1>21. QED
  BY <1>0, <1>1, <1>2, <1>3, <1>4, <1>5, <1>6, <1>7, <1>8, <1>9, <1>10,
     <1>11, <1>12, <1>13, <1>14, <1>15, <1>16, <1>17, <1>18, <1>19, <1>20
     DEF Next, ProvisionStep, WalletStep

LEMMA StepKeepsKinds ==
    ASSUME TypeOK, KindsTell, [Next]_vars
    PROVE  KindsTell'
<1> USE WalletAssumption
    DEF TypeOK, KindsTell, Addresses, rowVars, Same, Standing, Goto
<1>0. ASSUME UNCHANGED vars
      PROVE  KindsTell'
  BY <1>0 DEF vars, walletVars, provisionVars
<1>1. ASSUME NEW c \in Calls, Route(c)
      PROVE  KindsTell'
  <2>1. PICK what \in Kinds \ {"none"}, step \in {"find", "list", "findProof"} :
           Begun(c, what, step)
    BY <1>1, CallBegins
  <2>2. QED
    BY <2>1 DEF Begun, provisionVars
<1>2. ASSUME NEW c \in Calls, Find(c), UNCHANGED provisionVars
      PROVE  KindsTell'
  BY <1>2 DEF Find, Return, Throw, provisionVars
<1>3. ASSUME NEW c \in Calls, Refind(c), UNCHANGED provisionVars
      PROVE  KindsTell'
  BY <1>3 DEF Refind, Return, provisionVars
<1>4. ASSUME NEW c \in Calls, Mint(c), UNCHANGED provisionVars
      PROVE  KindsTell'
  BY <1>4 DEF Mint, provisionVars
<1>5. ASSUME NEW c \in Calls, WriteRow(c), UNCHANGED provisionVars
      PROVE  KindsTell'
  BY <1>5 DEF WriteRow, CanPut, RowIsThere, PutRow, provisionVars
<1>6. ASSUME NEW c \in Calls, UpsertWallet(c), UNCHANGED provisionVars
      PROVE  KindsTell'
  BY <1>6 DEF UpsertWallet, Return, provisionVars
<1>7. ASSUME NEW c \in Calls, MarkWalletFailed(c), UNCHANGED provisionVars
      PROVE  KindsTell'
  BY <1>7 DEF MarkWalletFailed, CanPut, RowIsThere, PutRow, Throw,
     provisionVars
<1>8. ASSUME NEW c \in Calls, RevokeWallet(c), UNCHANGED provisionVars
      PROVE  KindsTell'
  BY <1>8 DEF RevokeWallet, RowIsThere, Throw, provisionVars
<1>9. ASSUME NEW c \in Calls, WalletError(c), UNCHANGED provisionVars
      PROVE  KindsTell'
  <2>1. /\ at[c] \notin Ended /\ at'[c] \in {"catch", "failed"}
        /\ \A b \in Calls \ {c} : at'[b] = at[b]
        /\ UNCHANGED <<sw, kind, addr, replaced>>
    BY <1>9 DEF WalletError, InFlight
  <2>2. QED
    BY <2>1 DEF Ended
<1>10. ASSUME NEW c \in Calls, ReadCreds(c)
      PROVE  KindsTell'
  BY <1>10 DEF ReadCreds, provisionVars
<1>11. ASSUME NEW c \in Calls, DeriveCreds(c)
      PROVE  KindsTell'
  BY <1>11 DEF DeriveCreds, Throw, provisionVars
<1>12. ASSUME NEW c \in Calls, StoreCreds(c)
      PROVE  KindsTell'
  BY <1>12 DEF StoreCreds, Throw, provisionVars
<1>13. ASSUME NEW c \in Calls, StoreProxy(c)
      PROVE  KindsTell'
  BY <1>13 DEF StoreProxy, provisionVars
<1>14. ASSUME NEW c \in Calls, CreateProfile(c)
      PROVE  KindsTell'
  BY <1>14 DEF CreateProfile, provisionVars
<1>15. ASSUME NEW c \in Calls, ListReady(c)
      PROVE  KindsTell'
  BY <1>15 DEF ListReady, provisionVars
<1>16. ASSUME NEW c \in Calls, DropCreds(c)
      PROVE  KindsTell'
  BY <1>16 DEF DropCreds, provisionVars
<1>17. ASSUME NEW c \in Calls, DropRow(c)
      PROVE  KindsTell'
  BY <1>17 DEF DropRow, RowIsThere, Throw, provisionVars
<1>18. ASSUME NEW c \in Calls, FindProof(c)
      PROVE  KindsTell'
  BY <1>18 DEF FindProof, provisionVars
<1>19. ASSUME NEW c \in Calls, CheckProof(c)
      PROVE  KindsTell'
  BY <1>19 DEF CheckProof, Throw, provisionVars
<1>20. ASSUME NEW c \in Calls, StoreProof(c)
      PROVE  KindsTell'
  BY <1>20 DEF StoreProof, Throw, provisionVars
<1>21. QED
  BY <1>0, <1>1, <1>2, <1>3, <1>4, <1>5, <1>6, <1>7, <1>8, <1>9, <1>10,
     <1>11, <1>12, <1>13, <1>14, <1>15, <1>16, <1>17, <1>18, <1>19, <1>20
     DEF Next, ProvisionStep, WalletStep

LEMMA StepKeepsAlone ==
    ASSUME TypeOK, Alone, [Next]_vars
    PROVE  Alone'
<1> USE WalletAssumption
    DEF TypeOK, Alone, Ended, rowVars, Same, Standing, Goto
<1>0. ASSUME UNCHANGED vars
      PROVE  Alone'
  BY <1>0 DEF vars, walletVars, provisionVars
<1>1. ASSUME NEW c \in Calls, Route(c)
      PROVE  Alone'
  <2>1. PICK what \in Kinds \ {"none"}, step \in {"find", "list", "findProof"} :
           Begun(c, what, step)
    BY <1>1, CallBegins
  <2>2. QED
    BY <2>1 DEF Begun, provisionVars
<1>2. ASSUME NEW c \in Calls, Find(c), UNCHANGED provisionVars
      PROVE  Alone'
  BY <1>2 DEF Find, Return, Throw, provisionVars
<1>3. ASSUME NEW c \in Calls, Refind(c), UNCHANGED provisionVars
      PROVE  Alone'
  BY <1>3 DEF Refind, Return, provisionVars
<1>4. ASSUME NEW c \in Calls, Mint(c), UNCHANGED provisionVars
      PROVE  Alone'
  BY <1>4 DEF Mint, provisionVars
<1>5. ASSUME NEW c \in Calls, WriteRow(c), UNCHANGED provisionVars
      PROVE  Alone'
  BY <1>5 DEF WriteRow, CanPut, RowIsThere, PutRow, provisionVars
<1>6. ASSUME NEW c \in Calls, UpsertWallet(c), UNCHANGED provisionVars
      PROVE  Alone'
  BY <1>6 DEF UpsertWallet, Return, provisionVars
<1>7. ASSUME NEW c \in Calls, MarkWalletFailed(c), UNCHANGED provisionVars
      PROVE  Alone'
  BY <1>7 DEF MarkWalletFailed, CanPut, RowIsThere, PutRow, Throw,
     provisionVars
<1>8. ASSUME NEW c \in Calls, RevokeWallet(c), UNCHANGED provisionVars
      PROVE  Alone'
  BY <1>8 DEF RevokeWallet, RowIsThere, Throw, provisionVars
<1>9. ASSUME NEW c \in Calls, WalletError(c), UNCHANGED provisionVars
      PROVE  Alone'
  BY <1>9 DEF WalletError, InFlight, provisionVars
<1>10. ASSUME NEW c \in Calls, ReadCreds(c)
      PROVE  Alone'
  BY <1>10 DEF ReadCreds, provisionVars
<1>11. ASSUME NEW c \in Calls, DeriveCreds(c)
      PROVE  Alone'
  BY <1>11 DEF DeriveCreds, Throw, provisionVars
<1>12. ASSUME NEW c \in Calls, StoreCreds(c)
      PROVE  Alone'
  BY <1>12 DEF StoreCreds, Throw, provisionVars
<1>13. ASSUME NEW c \in Calls, StoreProxy(c)
      PROVE  Alone'
  BY <1>13 DEF StoreProxy, provisionVars
<1>14. ASSUME NEW c \in Calls, CreateProfile(c)
      PROVE  Alone'
  BY <1>14 DEF CreateProfile, provisionVars
<1>15. ASSUME NEW c \in Calls, ListReady(c)
      PROVE  Alone'
  BY <1>15 DEF ListReady, provisionVars
<1>16. ASSUME NEW c \in Calls, DropCreds(c)
      PROVE  Alone'
  BY <1>16 DEF DropCreds, provisionVars
<1>17. ASSUME NEW c \in Calls, DropRow(c)
      PROVE  Alone'
  BY <1>17 DEF DropRow, RowIsThere, Throw, provisionVars
<1>18. ASSUME NEW c \in Calls, FindProof(c)
      PROVE  Alone'
  BY <1>18 DEF FindProof, provisionVars
<1>19. ASSUME NEW c \in Calls, CheckProof(c)
      PROVE  Alone'
  BY <1>19 DEF CheckProof, Throw, provisionVars
<1>20. ASSUME NEW c \in Calls, StoreProof(c)
      PROVE  Alone'
  BY <1>20 DEF StoreProof, Throw, provisionVars
<1>21. QED
  BY <1>0, <1>1, <1>2, <1>3, <1>4, <1>5, <1>6, <1>7, <1>8, <1>9, <1>10,
     <1>11, <1>12, <1>13, <1>14, <1>15, <1>16, <1>17, <1>18, <1>19, <1>20
     DEF Next, ProvisionStep, WalletStep

LEMMA StepKeepsFirst ==
    ASSUME TypeOK, KindsTell, FirstInsertWins, [Next]_vars
    PROVE  FirstInsertWins'
<1> USE WalletAssumption
    DEF TypeOK, KindsTell, FirstInsertWins, Settled, Unused, Agreeing, Making,
        Having, Addresses, rowVars, Same, Standing, Goto
<1>0. ASSUME UNCHANGED vars
      PROVE  FirstInsertWins'
  BY <1>0 DEF vars, walletVars, provisionVars
<1>1. ASSUME NEW c \in Calls, Route(c)
      PROVE  FirstInsertWins'
  <2>1. PICK what \in Kinds \ {"none"}, step \in {"find", "list", "findProof"} :
           Begun(c, what, step)
    BY <1>1, CallBegins
  <2>2. QED
    BY <2>1 DEF Begun, provisionVars
<1>2. ASSUME NEW c \in Calls, Find(c), UNCHANGED provisionVars
      PROVE  FirstInsertWins'
  BY <1>2 DEF Find, Return, Throw, provisionVars
<1>3. ASSUME NEW c \in Calls, Refind(c), UNCHANGED provisionVars
      PROVE  FirstInsertWins'
  BY <1>3 DEF Refind, Return, provisionVars
<1>4. ASSUME NEW c \in Calls, Mint(c), UNCHANGED provisionVars
      PROVE  FirstInsertWins'
  BY <1>4 DEF Mint, provisionVars
<1>5. ASSUME NEW c \in Calls, WriteRow(c), UNCHANGED provisionVars
      PROVE  FirstInsertWins'
  BY <1>5 DEF WriteRow, CanPut, RowIsThere, PutRow, provisionVars
<1>6. ASSUME NEW c \in Calls, UpsertWallet(c), UNCHANGED provisionVars
      PROVE  FirstInsertWins'
  BY <1>6 DEF UpsertWallet, Return, provisionVars
<1>7. ASSUME NEW c \in Calls, MarkWalletFailed(c), UNCHANGED provisionVars
      PROVE  FirstInsertWins'
  BY <1>7 DEF MarkWalletFailed, CanPut, RowIsThere, PutRow, Throw,
     provisionVars
<1>8. ASSUME NEW c \in Calls, RevokeWallet(c), UNCHANGED provisionVars
      PROVE  FirstInsertWins'
  BY <1>8 DEF RevokeWallet, RowIsThere, Throw, provisionVars
<1>9. ASSUME NEW c \in Calls, WalletError(c), UNCHANGED provisionVars
      PROVE  FirstInsertWins'
  BY <1>9 DEF WalletError, InFlight, provisionVars
<1>10. ASSUME NEW c \in Calls, ReadCreds(c)
      PROVE  FirstInsertWins'
  BY <1>10 DEF ReadCreds, provisionVars
<1>11. ASSUME NEW c \in Calls, DeriveCreds(c)
      PROVE  FirstInsertWins'
  BY <1>11 DEF DeriveCreds, Throw, provisionVars
<1>12. ASSUME NEW c \in Calls, StoreCreds(c)
      PROVE  FirstInsertWins'
  BY <1>12 DEF StoreCreds, Throw, provisionVars
<1>13. ASSUME NEW c \in Calls, StoreProxy(c)
      PROVE  FirstInsertWins'
  BY <1>13 DEF StoreProxy, provisionVars
<1>14. ASSUME NEW c \in Calls, CreateProfile(c)
      PROVE  FirstInsertWins'
  BY <1>14 DEF CreateProfile, provisionVars
<1>15. ASSUME NEW c \in Calls, ListReady(c)
      PROVE  FirstInsertWins'
  BY <1>15 DEF ListReady, provisionVars
<1>16. ASSUME NEW c \in Calls, DropCreds(c)
      PROVE  FirstInsertWins'
  BY <1>16 DEF DropCreds, provisionVars
<1>17. ASSUME NEW c \in Calls, DropRow(c)
      PROVE  FirstInsertWins'
  BY <1>17 DEF DropRow, RowIsThere, Throw, provisionVars
<1>18. ASSUME NEW c \in Calls, FindProof(c)
      PROVE  FirstInsertWins'
  BY <1>18 DEF FindProof, provisionVars
<1>19. ASSUME NEW c \in Calls, CheckProof(c)
      PROVE  FirstInsertWins'
  BY <1>19 DEF CheckProof, Throw, provisionVars
<1>20. ASSUME NEW c \in Calls, StoreProof(c)
      PROVE  FirstInsertWins'
  BY <1>20 DEF StoreProof, Throw, provisionVars
<1>21. QED
  BY <1>0, <1>1, <1>2, <1>3, <1>4, <1>5, <1>6, <1>7, <1>8, <1>9, <1>10,
     <1>11, <1>12, <1>13, <1>14, <1>15, <1>16, <1>17, <1>18, <1>19, <1>20
     DEF Next, ProvisionStep, WalletStep

LEMMA StepKeepsUsed ==
    ASSUME TypeOK, KindsTell, Alone, UsedStays, [Next]_vars
    PROVE  UsedStays'
<1> USE WalletAssumption
    DEF TypeOK, KindsTell, Alone, UsedStays, Ended, Settled, Unused, Agreeing,
        Making, Having, Addresses, rowVars, Same, Standing, Goto
<1>0. ASSUME UNCHANGED vars
      PROVE  UsedStays'
  BY <1>0 DEF vars, walletVars, provisionVars
<1>1. ASSUME NEW c \in Calls, Route(c)
      PROVE  UsedStays'
  <2>1. PICK what \in Kinds \ {"none"}, step \in {"find", "list", "findProof"} :
           Begun(c, what, step)
    BY <1>1, CallBegins
  <2>2. QED
    BY <2>1 DEF Begun, provisionVars
<1>2. ASSUME NEW c \in Calls, Find(c), UNCHANGED provisionVars
      PROVE  UsedStays'
  BY <1>2 DEF Find, Return, Throw, provisionVars
<1>3. ASSUME NEW c \in Calls, Refind(c), UNCHANGED provisionVars
      PROVE  UsedStays'
  BY <1>3 DEF Refind, Return, provisionVars
<1>4. ASSUME NEW c \in Calls, Mint(c), UNCHANGED provisionVars
      PROVE  UsedStays'
  BY <1>4 DEF Mint, provisionVars
<1>5. ASSUME NEW c \in Calls, WriteRow(c), UNCHANGED provisionVars
      PROVE  UsedStays'
  BY <1>5 DEF WriteRow, CanPut, RowIsThere, PutRow, provisionVars
<1>6. ASSUME NEW c \in Calls, UpsertWallet(c), UNCHANGED provisionVars
      PROVE  UsedStays'
  BY <1>6 DEF UpsertWallet, Return, provisionVars
<1>7. ASSUME NEW c \in Calls, MarkWalletFailed(c), UNCHANGED provisionVars
      PROVE  UsedStays'
  BY <1>7 DEF MarkWalletFailed, CanPut, RowIsThere, PutRow, Throw,
     provisionVars
<1>8. ASSUME NEW c \in Calls, RevokeWallet(c), UNCHANGED provisionVars
      PROVE  UsedStays'
  BY <1>8 DEF RevokeWallet, RowIsThere, Throw, provisionVars
<1>9. ASSUME NEW c \in Calls, WalletError(c), UNCHANGED provisionVars
      PROVE  UsedStays'
  BY <1>9 DEF WalletError, InFlight, provisionVars
<1>10. ASSUME NEW c \in Calls, ReadCreds(c)
      PROVE  UsedStays'
  BY <1>10 DEF ReadCreds, provisionVars
<1>11. ASSUME NEW c \in Calls, DeriveCreds(c)
      PROVE  UsedStays'
  BY <1>11 DEF DeriveCreds, Throw, provisionVars
<1>12. ASSUME NEW c \in Calls, StoreCreds(c)
      PROVE  UsedStays'
  BY <1>12 DEF StoreCreds, Throw, provisionVars
<1>13. ASSUME NEW c \in Calls, StoreProxy(c)
      PROVE  UsedStays'
  BY <1>13 DEF StoreProxy, provisionVars
<1>14. ASSUME NEW c \in Calls, CreateProfile(c)
      PROVE  UsedStays'
  BY <1>14 DEF CreateProfile, provisionVars
<1>15. ASSUME NEW c \in Calls, ListReady(c)
      PROVE  UsedStays'
  BY <1>15 DEF ListReady, provisionVars
<1>16. ASSUME NEW c \in Calls, DropCreds(c)
      PROVE  UsedStays'
  BY <1>16 DEF DropCreds, provisionVars
<1>17. ASSUME NEW c \in Calls, DropRow(c)
      PROVE  UsedStays'
  BY <1>17 DEF DropRow, RowIsThere, Throw, provisionVars
<1>18. ASSUME NEW c \in Calls, FindProof(c)
      PROVE  UsedStays'
  BY <1>18 DEF FindProof, provisionVars
<1>19. ASSUME NEW c \in Calls, CheckProof(c)
      PROVE  UsedStays'
  BY <1>19 DEF CheckProof, Throw, provisionVars
<1>20. ASSUME NEW c \in Calls, StoreProof(c)
      PROVE  UsedStays'
  BY <1>20 DEF StoreProof, Throw, provisionVars
<1>21. QED
  BY <1>0, <1>1, <1>2, <1>3, <1>4, <1>5, <1>6, <1>7, <1>8, <1>9, <1>10,
     <1>11, <1>12, <1>13, <1>14, <1>15, <1>16, <1>17, <1>18, <1>19, <1>20
     DEF Next, ProvisionStep, WalletStep

LEMMA StepKeepsCreds ==
    ASSUME TypeOK, KindsTell, Alone, CredsFollow, [Next]_vars
    PROVE  CredsFollow'
<1> USE WalletAssumption
    DEF TypeOK, KindsTell, Alone, CredsFollow, NoTurns, Ended, Settled,
        Unused, Agreeing, Making, Having, Addresses, rowVars, Same, Standing,
        Goto
<1>0. ASSUME UNCHANGED vars
      PROVE  CredsFollow'
  BY <1>0 DEF vars, walletVars, provisionVars
<1>1. ASSUME NEW c \in Calls, Route(c)
      PROVE  CredsFollow'
  <2>1. PICK what \in Kinds \ {"none"}, step \in {"find", "list", "findProof"} :
           Begun(c, what, step)
    BY <1>1, CallBegins
  <2>2. QED
    BY <2>1 DEF Begun, provisionVars
<1>2. ASSUME NEW c \in Calls, Find(c), UNCHANGED provisionVars
      PROVE  CredsFollow'
  BY <1>2 DEF Find, Return, Throw, provisionVars
<1>3. ASSUME NEW c \in Calls, Refind(c), UNCHANGED provisionVars
      PROVE  CredsFollow'
  BY <1>3 DEF Refind, Return, provisionVars
<1>4. ASSUME NEW c \in Calls, Mint(c), UNCHANGED provisionVars
      PROVE  CredsFollow'
  BY <1>4 DEF Mint, provisionVars
<1>5. ASSUME NEW c \in Calls, WriteRow(c), UNCHANGED provisionVars
      PROVE  CredsFollow'
  BY <1>5 DEF WriteRow, CanPut, RowIsThere, PutRow, provisionVars
<1>6. ASSUME NEW c \in Calls, UpsertWallet(c), UNCHANGED provisionVars
      PROVE  CredsFollow'
  BY <1>6 DEF UpsertWallet, Return, provisionVars
<1>7. ASSUME NEW c \in Calls, MarkWalletFailed(c), UNCHANGED provisionVars
      PROVE  CredsFollow'
  BY <1>7 DEF MarkWalletFailed, CanPut, RowIsThere, PutRow, Throw,
     provisionVars
<1>8. ASSUME NEW c \in Calls, RevokeWallet(c), UNCHANGED provisionVars
      PROVE  CredsFollow'
  BY <1>8 DEF RevokeWallet, RowIsThere, Throw, provisionVars
<1>9. ASSUME NEW c \in Calls, WalletError(c), UNCHANGED provisionVars
      PROVE  CredsFollow'
  BY <1>9 DEF WalletError, InFlight, provisionVars
<1>10. ASSUME NEW c \in Calls, ReadCreds(c)
      PROVE  CredsFollow'
  BY <1>10 DEF ReadCreds, provisionVars
<1>11. ASSUME NEW c \in Calls, DeriveCreds(c)
      PROVE  CredsFollow'
  BY <1>11 DEF DeriveCreds, Throw, provisionVars
<1>12. ASSUME NEW c \in Calls, StoreCreds(c)
      PROVE  CredsFollow'
  BY <1>12 DEF StoreCreds, Throw, provisionVars
<1>13. ASSUME NEW c \in Calls, StoreProxy(c)
      PROVE  CredsFollow'
  BY <1>13 DEF StoreProxy, provisionVars
<1>14. ASSUME NEW c \in Calls, CreateProfile(c)
      PROVE  CredsFollow'
  BY <1>14 DEF CreateProfile, provisionVars
<1>15. ASSUME NEW c \in Calls, ListReady(c)
      PROVE  CredsFollow'
  BY <1>15 DEF ListReady, provisionVars
<1>16. ASSUME NEW c \in Calls, DropCreds(c)
      PROVE  CredsFollow'
  BY <1>16 DEF DropCreds, provisionVars
<1>17. ASSUME NEW c \in Calls, DropRow(c)
      PROVE  CredsFollow'
  BY <1>17 DEF DropRow, RowIsThere, Throw, provisionVars
<1>18. ASSUME NEW c \in Calls, FindProof(c)
      PROVE  CredsFollow'
  BY <1>18 DEF FindProof, provisionVars
<1>19. ASSUME NEW c \in Calls, CheckProof(c)
      PROVE  CredsFollow'
  BY <1>19 DEF CheckProof, Throw, provisionVars
<1>20. ASSUME NEW c \in Calls, StoreProof(c)
      PROVE  CredsFollow'
  BY <1>20 DEF StoreProof, Throw, provisionVars
<1>21. QED
  BY <1>0, <1>1, <1>2, <1>3, <1>4, <1>5, <1>6, <1>7, <1>8, <1>9, <1>10,
     <1>11, <1>12, <1>13, <1>14, <1>15, <1>16, <1>17, <1>18, <1>19, <1>20
     DEF Next, ProvisionStep, WalletStep

-----------------------------------------------------------------------------
LEMMA InitPartsInv == Init => PartsInv
<1> SUFFICES ASSUME Init
             PROVE  PartsInv
  OBVIOUS
<1>1. Typed
  <2>1. /\ 0 \in Addresses /\ 0 \in 0..MaxFaults /\ 0 \in Nat /\ 1 \in Nat
        /\ "idle" \in WalletSteps \cup ProvisionSteps \cup Ended /\ "none" \in Kinds
    BY WalletAssumption DEF Addresses, Ended, Kinds
  <2>2. sw \in RowType
        /\ failed \in BOOLEAN
    BY <2>1 DEF Init, WalletInit, RowType
  <2>3. QED
    BY <2>1, <2>2 DEF Init, WalletInit, Typed
<1>2. KindsTell /\ Alone
  BY DEF Init, WalletInit, KindsTell, Alone, Ended
<1>3. FirstInsertWins /\ UsedStays /\ CredsFollow
  BY DEF Init, WalletInit, FirstInsertWins, UsedStays, CredsFollow, Settled, Unused,
         Agreeing, Making, Having
<1>4. QED
  BY <1>1, <1>2, <1>3, TypesOneByOne DEF PartsInv

LEMMA StepKeepsPartsInv == PartsInv /\ [Next]_vars => PartsInv'
<1> SUFFICES ASSUME PartsInv, [Next]_vars
             PROVE  PartsInv'
  OBVIOUS
<1>1. TypeOK'
  BY StepKeepsTypes, TypesOneByOne DEF PartsInv
<1>2. KindsTell' /\ Alone'
  BY StepKeepsKinds, StepKeepsAlone DEF PartsInv
<1>3. FirstInsertWins' /\ UsedStays' /\ CredsFollow'
  BY StepKeepsFirst, StepKeepsUsed, StepKeepsCreds DEF PartsInv
<1>4. QED
  BY <1>1, <1>2, <1>3 DEF PartsInv

LEMMA PartsInvHolds == Spec => []PartsInv
BY InitPartsInv, StepKeepsPartsInv, PTL DEF Spec

(* The rows of the wallet and the places of the calls keep their types,    *)
(* with any overlap of calls, errors and crashes.                          *)
THEOREM WalletTypes == Spec => []TypeOK
<1>1. PartsInv => TypeOK
  BY DEF PartsInv
<1>2. QED
  BY <1>1, PartsInvHolds, PTL

(* getAddress: an address that was handed out stays the READY wallet until *)
(* it is replaced, while calls follow each other, whatever fails, or while *)
(* none fails, whatever overlaps.                                          *)
THEOREM HandedAddressesStay == Spec => []HandedAddressStays
<1>1. PartsInv => HandedAddressStays
  BY DEF PartsInv, FirstInsertWins, UsedStays, HandedAddressStays, Orderly, Settled,
         Unused, Agreeing
<1>2. QED
  BY <1>1, PartsInvHolds, PTL

(* provision and the binding proof: in the same two cases, credentials,    *)
(* proxy and proof belong to the wallet on record, and credentials do so   *)
(* through any number of migrations.                                       *)
THEOREM PartsStayInAgreement == Spec => []PartsAgree
<1>1. PartsInv => PartsAgree
  <2> SUFFICES ASSUME PartsInv, Orderly
               PROVE  PartsAgree
    BY DEF PartsAgree
  <2> USE DEF PartsInv, Settled, Unused, Agreeing
  <2>1. replaced \/ {proxy, proof} \subseteq {0, sw.addr}
    BY DEF Orderly, FirstInsertWins, UsedStays
  <2>2. ASSUME creds # 0, NoTurns
        PROVE  sw.status = "READY" /\ sw.addr = creds
    BY <2>2 DEF Orderly, FirstInsertWins, CredsFollow
  <2>3. QED
    BY <2>1, <2>2 DEF PartsAgree, NoTurns
<1>2. QED
  BY <1>1, PartsInvHolds, PTL
=============================================================================
