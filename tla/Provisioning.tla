----------------------------- MODULE Provisioning -----------------------------
(***************************************************************************)
(* ProvisioningService.provision, the migration route and script, and the  *)
(* binding proof (services/provisioning.service.ts, routes/wallets.ts,     *)
(* routes/admin.ts, scripts/migrate-wallets.ts, routes/binding-proof.ts)   *)
(* on top of the server wallet.                                            *)
(***************************************************************************)
EXTENDS ServerWallet

VARIABLES
    creds,      \* polymarket_credentials: the address they were derived for
    proxy,      \* wallets: the address the POLY_PROXY row is derived from
    profile,    \* the copy profile exists
    proof       \* binding_proofs: the server wallet that was bound

provisionVars == <<creds, proxy, profile, proof>>
vars          == <<walletVars, provisionVars>>

ProvisionSteps == {"creds", "derive", "storeCreds", "proxy", "profile", "list",
                   "dropCreds", "dropRow", "findProof", "checkProof", "storeProof"}

TypeOK ==
    /\ sw \in [id : Nat, status : {"NONE", "READY", "FAILED"}, addr : Addresses,
               mock : BOOLEAN]
    /\ {minted, walletRow, creds, proxy, proof} \cup handed \subseteq Addresses
    /\ kind \in [Calls -> Kinds]
    /\ at \in [Calls -> WalletSteps \cup ProvisionSteps \cup Ended]
    /\ seen \in [Calls -> Nat]
    /\ addr \in [Calls -> Addresses]
    /\ {overlapped, failed, replaced, profile} \subseteq BOOLEAN
    /\ faults \in 0..MaxFaults

Init ==
    /\ WalletInit
    /\ creds = 0
    /\ proxy = 0
    /\ profile = FALSE
    /\ proof = 0

-----------------------------------------------------------------------------
(* The routes and the script; the user signs a proof for some address.     *)
PostProvision(c)  == Begin(c, "provision", "find") /\ UNCHANGED provisionVars
PostMigrate(c)    == Begin(c, "migrate", "list") /\ UNCHANGED provisionVars
MigrateScript(c)  == Begin(c, "migrate", "list") /\ UNCHANGED provisionVars
PostProof(c)      == Begin(c, "bind", "findProof") /\ UNCHANGED provisionVars

Same == UNCHANGED <<rowVars, handed, kind, overlapped, replaced, faults>>

(* provision, after getAddress: existing credentials are never derived     *)
(* again.                                                                  *)
ReadCreds(c) ==
    /\ Standing(c, "creds")
    /\ Goto(c, IF creds = 0 THEN "derive" ELSE "proxy")
    /\ Same /\ UNCHANGED <<seen, addr, failed, provisionVars>>

(* The exchange derives credentials for the address the caller names if    *)
(* the wallet that signs, the one on record, has this address.             *)
DeriveCreds(c) ==
    /\ Standing(c, "derive")
    /\ \/ sw.status = "READY" /\ sw.addr = addr[c] /\ Goto(c, "storeCreds") /\ UNCHANGED failed
       \/ Throw(c)
    /\ Same /\ UNCHANGED <<seen, addr, provisionVars>>

StoreCreds(c) ==
    /\ Standing(c, "storeCreds")
    /\ \/ creds = 0 /\ creds' = addr[c] /\ Goto(c, "proxy") /\ UNCHANGED failed
       \/ creds # 0 /\ Throw(c) /\ UNCHANGED creds
    /\ Same /\ UNCHANGED <<seen, addr, proxy, profile, proof>>

StoreProxy(c) ==
    /\ Standing(c, "proxy")
    /\ proxy' = addr[c]
    /\ Goto(c, "profile")
    /\ Same /\ UNCHANGED <<seen, addr, failed, creds, profile, proof>>

CreateProfile(c) ==
    /\ Standing(c, "profile")
    /\ profile' = TRUE
    /\ Goto(c, "done")
    /\ Same /\ UNCHANGED <<seen, addr, failed, creds, proxy, proof>>

-----------------------------------------------------------------------------
(* Migration: of a READY wallet, delete the credentials, delete the row,   *)
(* provision anew.                                                         *)
ListReady(c) ==
    /\ Standing(c, "list")
    /\ seen' = [seen EXCEPT ![c] = sw.id]
    /\ Goto(c, IF sw.status = "READY" THEN "dropCreds" ELSE "done")
    /\ Same /\ UNCHANGED <<addr, failed, provisionVars>>

(* Mutant: the credentials of the old wallet are kept.                     *)
KeepCreds(c) ==
    /\ Standing(c, "dropCreds")
    /\ Goto(c, "dropRow")
    /\ Same /\ UNCHANGED <<seen, addr, failed, provisionVars>>

DropCreds(c) ==
    /\ Standing(c, "dropCreds")
    /\ creds' = 0
    /\ Goto(c, "dropRow")
    /\ Same /\ UNCHANGED <<seen, addr, failed, proxy, profile, proof>>

DropRow(c) ==
    /\ Standing(c, "dropRow")
    /\ \/ RowIsThere(c) /\ sw' = [sw EXCEPT !.status = "NONE", !.addr = 0, !.mock = FALSE]
                        /\ Goto(c, "find") /\ UNCHANGED failed
       \/ ~RowIsThere(c) /\ Throw(c) /\ UNCHANGED sw
    /\ UNCHANGED <<minted, walletRow, handed, kind, seen, addr, overlapped, replaced,
                   faults, provisionVars>>

-----------------------------------------------------------------------------
(* The binding proof: the first one is kept for ever.                      *)
FindProof(c) ==
    /\ Standing(c, "findProof")
    /\ Goto(c, IF proof # 0 THEN "done" ELSE "checkProof")
    /\ \E a \in Addresses \ {0} : addr' = [addr EXCEPT ![c] = a]
    /\ Same /\ UNCHANGED <<seen, failed, provisionVars>>

CheckProof(c) ==
    /\ Standing(c, "checkProof")
    /\ \/ sw.status = "READY" /\ sw.addr = addr[c] /\ Goto(c, "storeProof") /\ UNCHANGED failed
       \/ Throw(c)
    /\ Same /\ UNCHANGED <<seen, addr, provisionVars>>

StoreProof(c) ==
    /\ Standing(c, "storeProof")
    /\ \/ proof = 0 /\ proof' = addr[c] /\ Goto(c, "done") /\ UNCHANGED failed
       \/ proof # 0 /\ Throw(c) /\ UNCHANGED proof
    /\ Same /\ UNCHANGED <<seen, addr, creds, proxy, profile>>

Route(c) ==
    \/ (GetAddress(c) \/ Rotate(c) \/ Revoke(c)) /\ UNCHANGED provisionVars
    \/ PostProvision(c) \/ PostMigrate(c) \/ MigrateScript(c) \/ PostProof(c)

ProvisionStep(c) ==
    \/ ReadCreds(c) \/ DeriveCreds(c) \/ StoreCreds(c) \/ StoreProxy(c)
    \/ CreateProfile(c) \/ ListReady(c) \/ DropCreds(c) \/ DropRow(c)
    \/ FindProof(c) \/ CheckProof(c) \/ StoreProof(c)

Next ==
    \E c \in Calls :
        \/ Route(c)
        \/ ProvisionStep(c)
        \/ (WalletStep(c) \/ WalletError(c)) /\ UNCHANGED provisionVars

Spec == Init /\ [][Next]_vars

-----------------------------------------------------------------------------
(* The two cases in which the code keeps the parts of a user's wallet in   *)
(* agreement: one call at a time, whatever fails; and calls at once, while *)
(* none has failed yet and the user is new (the unique userId decides).    *)
Orderly == ~overlapped \/ (~failed /\ ~replaced)

(* An address that getAddress has handed out, and where funds may have     *)
(* been sent, stays the user's READY wallet until it is rotated, revoked   *)
(* or migrated.                                                            *)
HandedAddressStays ==
    Orderly /\ ~replaced => handed \subseteq {sw.addr} /\ (handed # {} => sw.status = "READY")

(* Credentials, proxy and binding proof belong to the wallet on record;    *)
(* credentials also through any number of migrations.                      *)
PartsAgree ==
    Orderly =>
        /\ creds # 0 /\ (\A c \in Calls : kind[c] \notin {"rotate", "revoke"})
              => sw.status = "READY" /\ sw.addr = creds
        /\ replaced \/ {proxy, proof} \subseteq {0, sw.addr}

(* What getStatus calls complete.                                          *)
Complete == sw.status = "READY" /\ proxy # 0 /\ creds # 0 /\ profile

(* "Idempotent: each step is guarded by a check-before-write pattern": a   *)
(* user may be provisioned more than once, and when all of it is over a    *)
(* complete user has credentials of the wallet that signs.                 *)
ProvisionedOnce ==
    Complete /\ InFlight = {} /\ ~replaced => creds = sw.addr /\ proxy = sw.addr
=============================================================================
