----------------------------- MODULE ServerWallet -----------------------------
(***************************************************************************)
(* The server wallet of one user in DynamicServerWalletProvider            *)
(* (adapters/dynamic-server-wallet.provider.ts): getAddress, rotate,       *)
(* revoke and the creation they share, as concurrent calls that each stand *)
(* at one of their awaits.  Addresses are numbered as the provider mints   *)
(* them; 0 is no address.                                                  *)
(***************************************************************************)
EXTENDS Naturals, FiniteSets

CONSTANTS
    MaxCalls,     \* bound on calls, numbered as they begin
    MaxMinted,    \* bound on wallets the provider mints
    MaxFaults     \* bound on database errors and crashes

Calls     == 1..MaxCalls
Addresses == 0..MaxMinted

ASSUME WalletAssumption == MaxCalls \in Nat /\ MaxMinted \in Nat /\ MaxFaults \in Nat

VARIABLES
    sw,           \* the server_wallets row; userId is unique, id changes
    minted,       \* wallets the provider has made
    walletRow,    \* wallets: address of the SERVER_WALLET row
    handed,       \* addresses getAddress has returned
    kind,         \* what each call does
    at,           \* where it stands
    seen,         \* id of the row it read, 0 if there was none
    addr,         \* address it created or was given
    overlapped,   \* two calls have been in flight at once
    failed,       \* a call has failed, or the user came with a mock wallet
    replaced,     \* the wallet has been rotated, revoked or migrated
    faults        \* database errors and crashes so far

walletVars == <<sw, minted, walletRow, handed, kind, at, seen, addr, overlapped,
                failed, replaced, faults>>
rowVars    == <<sw, minted, walletRow>>

Kinds == {"none", "address", "rotate", "revoke", "provision", "migrate", "bind"}

WalletSteps == {"find", "refind", "mint", "write", "upsert", "catch", "lock"}

Ended == {"idle", "done", "failed"}

InFlight == {c \in Calls : at[c] \notin Ended}

(* A mock wallet is a row left by development, READY like any other.       *)
WalletInit ==
    /\ \E mock \in BOOLEAN :
         /\ sw = IF mock THEN [id |-> 1, status |-> "READY", addr |-> 0, mock |-> TRUE]
                         ELSE [id |-> 0, status |-> "NONE", addr |-> 0, mock |-> FALSE]
         /\ failed = mock
    /\ minted = 0
    /\ walletRow = 0
    /\ handed = {}
    /\ kind = [c \in Calls |-> "none"]
    /\ at = [c \in Calls |-> "idle"]
    /\ seen = [c \in Calls |-> 0]
    /\ addr = [c \in Calls |-> 0]
    /\ overlapped = FALSE
    /\ replaced = FALSE
    /\ faults = 0

Standing(c, step) == at[c] = step
Goto(c, step)     == at' = [at EXCEPT ![c] = step]

(* A call ends with an error; its caller may try again.                    *)
Throw(c) == Goto(c, "failed") /\ failed' = TRUE

Begin(c, what, step) ==
    /\ Standing(c, "idle") /\ \A b \in 1..(c - 1) : ~Standing(b, "idle")
    /\ kind' = [kind EXCEPT ![c] = what]
    /\ Goto(c, step)
    /\ overlapped' = (overlapped \/ InFlight # {})
    /\ replaced' = (replaced \/ what \in {"rotate", "revoke", "migrate"})
    /\ UNCHANGED <<rowVars, handed, seen, addr, failed, faults>>

GetAddress(c)  == Begin(c, "address", "find")
Rotate(c)      == Begin(c, "rotate", "find")
Revoke(c)      == Begin(c, "revoke", "find")

(* getAddress returns to its caller, provision and migration go on.        *)
Return(c, a) ==
    /\ addr' = [addr EXCEPT ![c] = a]
    /\ handed' = handed \cup {a}
    /\ Goto(c, IF kind[c] \in {"provision", "migrate"} THEN "creds" ELSE "done")

-----------------------------------------------------------------------------
(* getAddress, and the first read of rotate and revoke.                    *)
Find(c) ==
    /\ Standing(c, "find")
    /\ \/ /\ kind[c] \notin {"rotate", "revoke"} /\ sw.status = "READY" /\ ~sw.mock
          /\ Return(c, sw.addr)
          /\ UNCHANGED failed
       \/ /\ kind[c] \notin {"rotate", "revoke"} /\ (sw.status # "READY" \/ sw.mock)
          /\ Goto(c, "refind")
          /\ UNCHANGED <<handed, addr, failed>>
       \/ /\ kind[c] = "rotate"
          /\ IF sw.status = "NONE" THEN Throw(c) ELSE Goto(c, "refind") /\ UNCHANGED failed
          /\ UNCHANGED <<handed, addr>>
       \/ /\ kind[c] = "revoke"
          /\ Goto(c, IF sw.status = "NONE" THEN "done" ELSE "lock")
          /\ UNCHANGED <<handed, addr, failed>>
    /\ seen' = [seen EXCEPT ![c] = IF sw.status = "NONE" THEN 0 ELSE sw.id]
    /\ UNCHANGED <<rowVars, kind, overlapped, replaced, faults>>

(* createServerWallet: a rotation, or a mock wallet, is made anew though   *)
(* the row is READY.                                                       *)
Refind(c) ==
    /\ Standing(c, "refind")
    /\ seen' = [seen EXCEPT ![c] = IF sw.status = "NONE" THEN 0 ELSE sw.id]
    /\ \/ /\ sw.status = "READY" /\ ~sw.mock /\ kind[c] # "rotate"
          /\ Return(c, sw.addr)
       \/ /\ sw.status # "READY" \/ sw.mock \/ kind[c] = "rotate"
          /\ Goto(c, "mint")
          /\ UNCHANGED <<handed, addr>>
    /\ UNCHANGED <<rowVars, kind, overlapped, failed, replaced, faults>>

(* adapter.createWallet under retryWithBackoff: it answers, its answer is  *)
(* lost and it is tried again, or the attempts run out.                    *)
Mint(c) ==
    /\ Standing(c, "mint")
    /\ \/ /\ minted < MaxMinted
          /\ minted' = minted + 1
          /\ \/ addr' = [addr EXCEPT ![c] = minted + 1] /\ Goto(c, "write")
             \/ UNCHANGED <<addr, at>>
       \/ Goto(c, "catch") /\ UNCHANGED <<minted, addr>>
    /\ UNCHANGED <<sw, walletRow, handed, kind, seen, overlapped, failed, replaced, faults>>

(* Mutant: the flag of a development wallet survives.                      *)
PutRowKeepingMock(c, status, a) ==
    sw' = [id |-> IF seen[c] = 0 THEN sw.id + 1 ELSE sw.id, status |-> status,
           addr |-> a, mock |-> sw.mock]

(* Update the row that was read, by its id, or insert one; userId is       *)
(* unique and an update of a deleted row throws.                           *)
RowIsThere(c) == sw.status # "NONE" /\ sw.id = seen[c]

PutRow(c, status, a) ==
    sw' = [id |-> IF seen[c] = 0 THEN sw.id + 1 ELSE sw.id, status |-> status,
           addr |-> a, mock |-> FALSE]

CanPut(c) == IF seen[c] = 0 THEN sw.status = "NONE" ELSE RowIsThere(c)

WriteRow(c) ==
    /\ Standing(c, "write")
    /\ \/ CanPut(c) /\ PutRow(c, "READY", addr[c]) /\ Goto(c, "upsert")
       \/ ~CanPut(c) /\ Goto(c, "catch") /\ UNCHANGED sw
    /\ UNCHANGED <<minted, walletRow, handed, kind, seen, addr, overlapped, failed,
                   replaced, faults>>

(* The SERVER_WALLET row follows, then an audit entry and the return.      *)
UpsertWallet(c) ==
    /\ Standing(c, "upsert")
    /\ walletRow' = addr[c]
    /\ Return(c, addr[c])
    /\ UNCHANGED <<sw, minted, kind, seen, overlapped, failed, replaced, faults>>

(* The catch block marks the row FAILED, whoever wrote it, or inserts one. *)
MarkWalletFailed(c) ==
    /\ Standing(c, "catch")
    /\ \/ /\ CanPut(c)
          /\ IF seen[c] = 0 THEN PutRow(c, "FAILED", 0)
             ELSE sw' = [sw EXCEPT !.status = "FAILED"]
       \/ ~CanPut(c) /\ UNCHANGED sw
    /\ Throw(c)
    /\ UNCHANGED <<minted, walletRow, handed, kind, seen, addr, overlapped, replaced,
                   faults>>

(* revoke: the row becomes FAILED whatever it is by now.                   *)
RevokeWallet(c) ==
    /\ Standing(c, "lock")
    /\ \/ RowIsThere(c) /\ sw' = [sw EXCEPT !.status = "FAILED"]
                        /\ Goto(c, "done") /\ UNCHANGED failed
       \/ ~RowIsThere(c) /\ Throw(c) /\ UNCHANGED sw
    /\ UNCHANGED <<minted, walletRow, handed, kind, seen, addr, overlapped, replaced,
                   faults>>

(* A database call throws: from the try block of the creation the catch    *)
(* block runs, after the upsert as well (its audit entry); elsewhere the   *)
(* call ends, as it does when its process dies.                            *)
WalletError(c) ==
    /\ c \in InFlight /\ faults < MaxFaults
    /\ faults' = faults + 1
    /\ failed' = TRUE
    /\ \/ at[c] \in {"write", "upsert"} /\ Goto(c, "catch")
       \/ Goto(c, "failed")
    /\ walletRow' \in {walletRow, IF at[c] = "upsert" THEN addr[c] ELSE walletRow}
    /\ UNCHANGED <<sw, minted, handed, kind, seen, addr, overlapped, replaced>>

WalletStep(c) ==
    \/ Find(c) \/ Refind(c) \/ Mint(c) \/ WriteRow(c) \/ UpsertWallet(c)
    \/ MarkWalletFailed(c) \/ RevokeWallet(c)
=============================================================================
