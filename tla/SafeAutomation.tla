---------------------------- MODULE SafeAutomation ----------------------------
(***************************************************************************)
(* SafeAutomationService and its routes (services/safe-automation.service, *)
(* routes/safe-automation): the automation row, the session keys and the   *)
(* withdrawal allowlist of one user (every query is by userId), and        *)
(* concurrent requests of that user, each standing at one of its awaits.   *)
(* Audit entries come last in every request and nothing reads them.        *)
(***************************************************************************)
EXTENDS Naturals, FiniteSets

CONSTANTS
    MaxRequests,  \* bound on HTTP requests of the user, numbered as they arrive
    MaxKeys,      \* bound on session_keys rows, numbered as they are created
    MaxLapsed,    \* bound on keys that expire
    Addresses,    \* withdrawal addresses, lower case
    Menus,        \* the sets of operations a user may make requests for
    None          \* null

Requests == 1..MaxRequests
Keys     == 1..MaxKeys

Operations == {"enable", "disable", "settings", "register", "revoke", "allow",
               "disallow"}

ASSUME AutomationAssumption ==
    /\ MaxRequests \in Nat
    /\ MaxKeys \in Nat
    /\ MaxLapsed \in Nat
    /\ None \notin Keys \cup Addresses
    /\ Menus \subseteq SUBSET Operations

VARIABLES
    automation,   \* safe_automations: enabled and activeSessionKeyId
    keys,         \* status of each session_keys row, NONE before it exists
    lapsed,       \* keys whose expiresAt has passed
    allowlist,    \* withdrawal_allowlist
    request,      \* what each request does, where it stands, what it names
    menu,         \* what the user of this behaviour makes requests for
    overlapped    \* two requests of the user have been in flight at once

automationVars == <<automation, keys, lapsed, allowlist, request, menu, overlapped>>

Statuses == {"NONE", "ACTIVE", "ROTATED", "REVOKED", "EXPIRED"}

Steps == {"check", "write", "revokeAll", "rotate", "create", "point", "retire",
          "read", "clear"}

AutomationTypeOK ==
    /\ automation \in [enabled : BOOLEAN, key : Keys \cup {None}]
    /\ keys \in [Keys -> Statuses]
    /\ lapsed \subseteq Keys
    /\ allowlist \subseteq Addresses
    /\ request \in [Requests -> [op  : Operations \cup {"none"},
                                 at  : Steps \cup {"idle", "done", "failed"},
                                 arg : Keys \cup Addresses \cup {None}]]
    /\ menu \in Menus
    /\ overlapped \in BOOLEAN

(* The user is new, or has enabled the module and registered a key.        *)
AutomationInit ==
    /\ \/ /\ automation = [enabled |-> FALSE, key |-> None]
          /\ keys = [k \in Keys |-> "NONE"]
       \/ /\ 1 \in Keys
          /\ automation = [enabled |-> TRUE, key |-> 1]
          /\ keys = [k \in Keys |-> IF k = 1 THEN "ACTIVE" ELSE "NONE"]
    /\ lapsed = {}
    /\ allowlist = {}
    /\ request = [r \in Requests |-> [op |-> "none", at |-> "idle", arg |-> None]]
    /\ menu \in Menus
    /\ overlapped = FALSE

Active   == {k \in Keys : keys[k] = "ACTIVE"}
InFlight == {r \in Requests : request[r].at \in Steps}

At(r, op, step) == request[r].op = op /\ request[r].at = step
Goto(r, step)   ==
    request' = [request EXCEPT ![r] =
        IF step \in Steps THEN [@ EXCEPT !.at = step]
                          ELSE [op |-> "none", at |-> step, arg |-> None]]

-----------------------------------------------------------------------------
(* The routes.                                                             *)
Begin(r, op, arg) ==
    /\ request[r].at = "idle" /\ op \in menu
    /\ \A q \in 1..(r - 1) : request[q].at # "idle"
    /\ request' = [request EXCEPT ![r] = [op |-> op, at |-> "check", arg |-> arg]]
    /\ overlapped' = (overlapped \/ InFlight # {})
    /\ UNCHANGED <<automation, keys, lapsed, allowlist, menu>>

(* Bound: a registration begins only while MaxKeys leaves a row for it.    *)
KeysLeft ==
    Cardinality({q \in InFlight : request[q].op = "register" /\ request[q].at # "point"})
        < Cardinality({k \in Keys : keys[k] = "NONE"})

PostEnable(r)        == Begin(r, "enable", None)
PostDisable(r)       == Begin(r, "disable", None)
PutSettings(r)       == Begin(r, "settings", None)
PostSessionKey(r)    == KeysLeft /\ Begin(r, "register", None)
DeleteSessionKey(r)  == \E k \in Keys : Begin(r, "revoke", k)
PostAllowlist(r)     == \E a \in Addresses : Begin(r, "allow", a)
DeleteAllowlist(r)   == \E a \in Addresses : Begin(r, "disallow", a)

(* The first await of a request decides whether it goes on.                *)
RequireEnabled(r, next) ==
    /\ Goto(r, IF automation.enabled THEN next ELSE "done")
    /\ UNCHANGED <<automation, keys, lapsed, allowlist, menu, overlapped>>

-----------------------------------------------------------------------------
(* enableModule: refused with 409 if enabled; the upsert keeps an          *)
(* activeSessionKeyId that is there.                                       *)
FindAutomation(r) ==
    /\ At(r, "enable", "check")
    /\ Goto(r, IF automation.enabled THEN "done" ELSE "write")
    /\ UNCHANGED <<automation, keys, lapsed, allowlist, menu, overlapped>>

UpsertAutomation(r) ==
    /\ At(r, "enable", "write")
    /\ automation' = [automation EXCEPT !.enabled = TRUE]
    /\ Goto(r, "done")
    /\ UNCHANGED <<keys, lapsed, allowlist, menu, overlapped>>

(* Mutant: the session keys are left alone.                                *)
DisableKeepingKeys(r) == At(r, "disable", "check") /\ RequireEnabled(r, "write")

(* disableModule                                                           *)
CheckDisable(r) == At(r, "disable", "check") /\ RequireEnabled(r, "revokeAll")

Retire(status) ==
    keys' = [k \in Keys |-> IF keys[k] = "ACTIVE" THEN status ELSE keys[k]]

RevokeActiveKeys(r) ==
    /\ At(r, "disable", "revokeAll")
    /\ Retire("REVOKED")
    /\ Goto(r, "write")
    /\ UNCHANGED <<automation, lapsed, allowlist, menu, overlapped>>

Disable(r) ==
    /\ At(r, "disable", "write")
    /\ automation' = [enabled |-> FALSE, key |-> None]
    /\ Goto(r, "done")
    /\ UNCHANGED <<keys, lapsed, allowlist, menu, overlapped>>

(* updateSigningMode and updateConstraints write columns that no modelled  *)
(* code reads.                                                             *)
UpdateSettings(r) == At(r, "settings", "check") /\ RequireEnabled(r, "done")

-----------------------------------------------------------------------------
(* registerSessionKey: retire the ACTIVE keys, insert the new one, point   *)
(* the automation row at it.                                               *)
CheckRegister(r) == At(r, "register", "check") /\ RequireEnabled(r, "rotate")

RotateActiveKeys(r) ==
    /\ At(r, "register", "rotate")
    /\ Retire("ROTATED")
    /\ Goto(r, "create")
    /\ UNCHANGED <<automation, lapsed, allowlist, menu, overlapped>>

CreateSessionKey(r) ==
    /\ At(r, "register", "create")
    /\ \E k \in Keys :
         /\ keys[k] = "NONE" /\ \A j \in 1..(k - 1) : keys[j] # "NONE"
         /\ keys' = [keys EXCEPT ![k] = "ACTIVE"]
         /\ request' = [request EXCEPT ![r] = [op |-> "register", at |-> "point", arg |-> k]]
    /\ UNCHANGED <<automation, lapsed, allowlist, menu, overlapped>>

PointAtKey(r) ==
    /\ At(r, "register", "point")
    /\ automation' = [automation EXCEPT !.key = request[r].arg]
    /\ Goto(r, "done")
    /\ UNCHANGED <<keys, lapsed, allowlist, menu, overlapped>>

(* revokeSessionKey: 404 or 400 unless the key is ACTIVE when it is read.  *)
FindKey(r) ==
    /\ At(r, "revoke", "check")
    /\ Goto(r, IF keys[request[r].arg] = "ACTIVE" THEN "retire" ELSE "done")
    /\ UNCHANGED <<automation, keys, lapsed, allowlist, menu, overlapped>>

RevokeKey(r) ==
    /\ At(r, "revoke", "retire")
    /\ keys' = [keys EXCEPT ![request[r].arg] = "REVOKED"]
    /\ Goto(r, "read")
    /\ UNCHANGED <<automation, lapsed, allowlist, menu, overlapped>>

ReadPointer(r) ==
    /\ At(r, "revoke", "read")
    /\ Goto(r, IF automation.key = request[r].arg THEN "clear" ELSE "done")
    /\ UNCHANGED <<automation, keys, lapsed, allowlist, menu, overlapped>>

ClearPointer(r) ==
    /\ At(r, "revoke", "clear")
    /\ automation' = [automation EXCEPT !.key = None]
    /\ Goto(r, "done")
    /\ UNCHANGED <<keys, lapsed, allowlist, menu, overlapped>>

-----------------------------------------------------------------------------
(* addWithdrawalAddress: requireEnabled, then look and insert; the unique  *)
(* constraint makes a second insert throw.                                 *)
CheckAllow(r) == At(r, "allow", "check") /\ RequireEnabled(r, "read")

FindAddress(r) ==
    /\ \/ At(r, "allow", "read")
          /\ Goto(r, IF request[r].arg \in allowlist THEN "done" ELSE "write")
       \/ At(r, "disallow", "check")
          /\ Goto(r, IF request[r].arg \in allowlist THEN "write" ELSE "done")
    /\ UNCHANGED <<automation, keys, lapsed, allowlist, menu, overlapped>>

AddAddress(r) ==
    /\ At(r, "allow", "write")
    /\ allowlist' = allowlist \cup {request[r].arg}
    /\ Goto(r, IF request[r].arg \in allowlist THEN "failed" ELSE "done")
    /\ UNCHANGED <<automation, keys, lapsed, menu, overlapped>>

(* removeWithdrawalAddress: deleting a row that is gone throws.            *)
RemoveAddress(r) ==
    /\ At(r, "disallow", "write")
    /\ allowlist' = allowlist \ {request[r].arg}
    /\ Goto(r, IF request[r].arg \in allowlist THEN "done" ELSE "failed")
    /\ UNCHANGED <<automation, keys, lapsed, menu, overlapped>>

-----------------------------------------------------------------------------
(* A database call of the request fails, or its process dies: what was     *)
(* written stays written.                                                  *)
RequestFails(r) ==
    /\ r \in InFlight
    /\ Goto(r, "failed")
    /\ UNCHANGED <<automation, keys, lapsed, allowlist, menu, overlapped>>

(* The expiry time of a key passes.                                        *)
Lapse(k) ==
    /\ keys[k] # "NONE" /\ k \notin lapsed
    /\ Cardinality(lapsed) < MaxLapsed
    /\ lapsed' = lapsed \cup {k}
    /\ UNCHANGED <<automation, keys, allowlist, request, menu, overlapped>>

Route(r) ==
    \/ PostEnable(r) \/ PostDisable(r) \/ PutSettings(r)
    \/ PostSessionKey(r) \/ DeleteSessionKey(r)
    \/ PostAllowlist(r) \/ DeleteAllowlist(r)

RequestStep(r) ==
    \/ FindAutomation(r) \/ UpsertAutomation(r)
    \/ CheckDisable(r) \/ RevokeActiveKeys(r) \/ Disable(r)
    \/ UpdateSettings(r)
    \/ CheckRegister(r) \/ RotateActiveKeys(r) \/ CreateSessionKey(r) \/ PointAtKey(r)
    \/ FindKey(r) \/ RevokeKey(r) \/ ReadPointer(r) \/ ClearPointer(r)
    \/ CheckAllow(r) \/ FindAddress(r) \/ AddAddress(r) \/ RemoveAddress(r)

RequestsGoOn ==
    \/ \E r \in Requests : RequestStep(r) \/ RequestFails(r)
    \/ \E k \in Keys : Lapse(k)

-----------------------------------------------------------------------------
(* While requests do not overlap: no key of a disabled module is ACTIVE    *)
(* ("Revoke all active session keys"), also when some request stopped      *)
(* half-way; and if none did, the only ACTIVE key is the one the row       *)
(* names, so that what the status route shows and what the worker would    *)
(* sign with agree.                                                        *)
KeysInOrder ==
    ~overlapped =>
        /\ ~automation.enabled => Active = {}
        /\ (\A r \in Requests : request[r].at \in {"idle", "done"})
              => Active \subseteq {automation.key}
=============================================================================
