------------------------------ MODULE WebSession ------------------------------
(***************************************************************************)
(* Sessions of one user: the routes that open and close them               *)
(* (routes/auth.ts), the check before every handler (plugins/auth.ts) and  *)
(* the tabs of one browser (lib/api-client.ts, app/providers.tsx,          *)
(* app/page.tsx, components/WalletDropdown.tsx, hooks/useApi.ts), whose     *)
(* tokens share one localStorage.  Tokens are numbered as they are issued; *)
(* 0 is no token.  A page that is told to load another one lives on, and   *)
(* takes answers, until that one has loaded.                               *)
(***************************************************************************)
EXTENDS Naturals

CONSTANTS
    Tabs,          \* tabs of the browser
    Calls,         \* requests of a tab that are in flight at once
    MaxTokens,     \* bound on sessions
    MaxFailures    \* bound on database errors

ASSUME SessionsAssumption == MaxTokens \in Nat /\ MaxFailures \in Nat

Tokens == 1..MaxTokens
NoCall == [of |-> "none", token |-> 0, at |-> "idle"]

VARIABLES
    sessions,    \* auth_sessions: the tokens that have a row
    expired,     \* tokens whose expiresAt has passed
    issued,      \* sessions created so far
    loggedIn,    \* with the identity provider
    storage,     \* localStorage mm_jwt
    held,        \* ApiClient.token of each tab
    verified,    \* verifiedRef of AuthSync in each tab
    page,        \* what each tab shows
    call,        \* each request: what for, the token it sent, where it stands
    leaving,     \* tabs told to load another page (window.location.href)
    failures

serverVars  == <<sessions, expired, issued>>
browserVars == <<loggedIn, storage, held, verified, page, leaving>>
sessionVars == <<serverVars, browserVars, call, failures>>

Awaits  == {"find", "expire", "delete", "create"}
Answers == {"ok", "error", "unauthorized"}

SessionsTypeOK ==
    /\ sessions \subseteq Tokens /\ expired \subseteq Tokens
    /\ {issued, storage} \subseteq 0..MaxTokens
    /\ held \in [Tabs -> 0..MaxTokens]
    /\ verified \in [Tabs -> BOOLEAN]
    /\ page \in [Tabs -> {"closed", "home", "dashboard"}]
    /\ call \in [Tabs -> [Calls ->
          [of : {"none", "verify", "provision", "data", "logout"},
           token : 0..MaxTokens, at : {"idle"} \cup Awaits \cup Answers]]]
    /\ loggedIn \in BOOLEAN /\ leaving \subseteq Tabs
    /\ failures \in 0..MaxFailures

SessionsInit ==
    /\ sessions = {} /\ expired = {} /\ issued = 0
    /\ loggedIn = FALSE /\ storage = 0 /\ leaving = {} /\ failures = 0
    /\ held = [t \in Tabs |-> 0]
    /\ verified = [t \in Tabs |-> FALSE]
    /\ page = [t \in Tabs |-> "closed"]
    /\ call = [t \in Tabs |-> [c \in Calls |-> NoCall]]

Live == sessions \ expired

Reset(t)      == call' = [call EXCEPT ![t] = [c \in Calls |-> NoCall]]
Forget(t, c)    == call' = [call EXCEPT ![t][c] = NoCall]
Step(t, c, s) == call' = [call EXCEPT ![t][c].at = s]

Send(t, c, what, s) ==
    /\ call[t][c] = NoCall
    /\ call' = [call EXCEPT ![t][c] = [of |-> what, token |-> held[t], at |-> s]]

Answered(t, c, what) == call[t][c].of = what /\ call[t][c].at \in Answers

-----------------------------------------------------------------------------
(* A page is loaded, because the last one asked for it or by hand: a new   *)
(* ApiClient reads localStorage, and the answers to the requests of the    *)
(* page before reach nobody.                                               *)
Load(t) ==
    /\ held' = [held EXCEPT ![t] = storage]
    /\ verified' = [verified EXCEPT ![t] = FALSE]
    /\ leaving' = leaving \ {t}
    /\ \E p \in {"home", "dashboard"} : page' = [page EXCEPT ![t] = p]
    /\ Reset(t)
    /\ UNCHANGED <<serverVars, loggedIn, storage, failures>>

LogIn ==
    /\ ~loggedIn /\ \E t \in Tabs : page[t] # "closed"
    /\ loggedIn' = TRUE
    /\ UNCHANGED <<serverVars, storage, held, verified, page, leaving, call, failures>>

(* The home page goes to the dashboard with a token, without a load.       *)
GoToDashboard(t) ==
    /\ page[t] = "home" /\ loggedIn /\ held[t] # 0
    /\ page' = [page EXCEPT ![t] = "dashboard"]
    /\ UNCHANGED <<serverVars, loggedIn, storage, held, verified, leaving, call, failures>>

(* AuthSync, on either page: a tab without a token asks for one, once.     *)
AuthSync(t, c) ==
    /\ page[t] # "closed" /\ loggedIn /\ ~verified[t]
    /\ verified' = [verified EXCEPT ![t] = TRUE]
    /\ \/ held[t] # 0 /\ UNCHANGED call
       \/ held[t] = 0 /\ Send(t, c, "verify", "create")
    /\ UNCHANGED <<serverVars, loggedIn, storage, held, page, leaving, failures>>

(* The queries and mutations of the dashboard, and the logout of its wallet *)
(* menu.  Queries wait for a token; mutations and logout go out without    *)
(* one too, and are then refused before any session is looked for.         *)
SendRequest(t, c) ==
    /\ page[t] = "dashboard"
    /\ \E what \in {"data", "logout"} :
          Send(t, c, what, IF held[t] = 0 THEN "unauthorized" ELSE "find")
    /\ UNCHANGED <<serverVars, browserVars, failures>>

-----------------------------------------------------------------------------
(* POST /auth/crossmint/verify and /auth/dynamic/verify: a new session,    *)
(* unless the provider's token is refused.                                 *)
CreateSession(t, c) ==
    /\ call[t][c].at = "create"
    /\ \/ /\ issued < MaxTokens
          /\ issued' = issued + 1
          /\ sessions' = sessions \cup {issued + 1}
          /\ call' = [call EXCEPT ![t][c].token = issued + 1, ![t][c].at = "ok"]
       \/ Step(t, c, "unauthorized") /\ UNCHANGED <<issued, sessions>>
    /\ UNCHANGED <<expired, browserVars, failures>>

(* authenticate                                                            *)
FindSession(t, c) ==
    /\ call[t][c].at = "find"
    /\ Step(t, c, CASE call[t][c].token \notin sessions -> "unauthorized"
                    [] call[t][c].token \in expired      -> "expire"
                    [] call[t][c].of = "logout"          -> "delete"
                    [] OTHER                             -> "ok")
    /\ UNCHANGED <<serverVars, browserVars, failures>>

(* Deleting a row that is gone throws: the client gets a 500.              *)
DeleteSession(t, c) ==
    /\ call[t][c].at \in {"expire", "delete"}
    /\ LET k == call[t][c].token IN
         /\ sessions' = sessions \ {k}
         /\ Step(t, c, CASE k \notin sessions         -> "error"
                         [] call[t][c].at = "expire"  -> "unauthorized"
                         [] OTHER                     -> "ok")
    /\ UNCHANGED <<expired, issued, browserVars, failures>>

DatabaseFails(t, c) ==
    /\ call[t][c].at \in Awaits
    /\ failures < MaxFailures
    /\ failures' = failures + 1
    /\ Step(t, c, "error")
    /\ UNCHANGED <<serverVars, browserVars>>

Expire(k) ==
    /\ k \in Live
    /\ expired' = expired \cup {k}
    /\ UNCHANGED <<sessions, issued, browserVars, call, failures>>

-----------------------------------------------------------------------------
(* ApiClient: a 401 clears the token the client holds by now, whichever    *)
(* was refused, and any page but the home page is left for that one.       *)
Refused(t, c) == call[t][c].at = "unauthorized" /\ held[t] # 0

ClearStale(t, c) ==
    /\ storage' = IF Refused(t, c) THEN 0 ELSE storage
    /\ held' = IF Refused(t, c) THEN [held EXCEPT ![t] = 0] ELSE held

(* The answers arrive.  A new token is stored and wallets are provisioned  *)
(* with it; a failed verification may be tried again.                      *)
ReceiveToken(t, c) ==
    /\ Answered(t, c, "verify")
    /\ IF call[t][c].at = "ok"
         THEN /\ held' = [held EXCEPT ![t] = call[t][c].token]
              /\ storage' = call[t][c].token
              /\ call' = [call EXCEPT ![t][c].of = "provision", ![t][c].at = "find"]
              /\ UNCHANGED <<verified, leaving>>
         ELSE /\ ClearStale(t, c)
              /\ leaving' = IF Refused(t, c) /\ page[t] # "home"
                              THEN leaving \cup {t} ELSE leaving
              /\ verified' = [verified EXCEPT ![t] = FALSE]
              /\ Forget(t, c)
    /\ UNCHANGED <<serverVars, loggedIn, page, failures>>

(* Whatever comes of the provisioning, the dashboard is loaded.            *)
ReceiveProvisioned(t, c) ==
    /\ Answered(t, c, "provision")
    /\ ClearStale(t, c)
    /\ leaving' = leaving \cup {t}
    /\ Forget(t, c)
    /\ UNCHANGED <<serverVars, loggedIn, verified, page, failures>>

(* Mutant: the router shows the home page, which is not loaded anew.       *)
ReceiveInPlace(t, c) ==
    /\ Answered(t, c, "data")
    /\ ClearStale(t, c)
    /\ page' = IF Refused(t, c) THEN [page EXCEPT ![t] = "home"] ELSE page
    /\ Forget(t, c)
    /\ UNCHANGED <<serverVars, loggedIn, verified, leaving, failures>>

ReceiveData(t, c) ==
    /\ Answered(t, c, "data")
    /\ ClearStale(t, c)
    /\ leaving' = IF Refused(t, c) /\ page[t] # "home"
                    THEN leaving \cup {t} ELSE leaving
    /\ Forget(t, c)
    /\ UNCHANGED <<serverVars, loggedIn, verified, page, failures>>

(* Whatever the logout route answers: the token is cleared, the provider   *)
(* told, and the home page is to be loaded.                                *)
FinishLogout(t, c) ==
    /\ Answered(t, c, "logout")
    /\ storage' = 0
    /\ held' = [held EXCEPT ![t] = 0]
    /\ loggedIn' = FALSE
    /\ leaving' = leaving \cup {t}
    /\ Forget(t, c)
    /\ UNCHANGED <<serverVars, verified, page, failures>>

Receive(t, c) ==
    \/ ReceiveToken(t, c) \/ ReceiveProvisioned(t, c) \/ ReceiveData(t, c)
    \/ FinishLogout(t, c)

Serve(t, c) == FindSession(t, c) \/ DeleteSession(t, c) \/ CreateSession(t, c)

SessionsNext ==
    \/ \E t \in Tabs :
          \/ Load(t) \/ GoToDashboard(t)
          \/ \E c \in Calls : \/ AuthSync(t, c) \/ SendRequest(t, c)
                              \/ Serve(t, c) \/ DatabaseFails(t, c) \/ Receive(t, c)
    \/ \E k \in Tokens : Expire(k)
    \/ LogIn

SessionsSpec == SessionsInit /\ [][SessionsNext]_sessionVars

-----------------------------------------------------------------------------
(* A tab that holds no token is not left without one while it stays open:  *)
(* AuthSync has yet to ask for one, is opening a session, or another page  *)
(* is being loaded; whichever of verification, provisioning, a refused     *)
(* request and logout came last.  (AuthSync asks once in the life of a     *)
(* page: verifiedRef.)                                                     *)
NotStranded ==
    \A t \in Tabs :
        held[t] = 0 /\ verified[t]
          => t \in leaving \/ \E c \in Calls : call[t][c].of \in {"verify", "provision"}

(* Not so, even of one tab: only logout and expiry part a browser from a   *)
(* session that is good.  "Clear stale session on 401": the request that   *)
(* is refused may be one that went out before the session was opened.      *)
GoodSessionKept ==
    [][storage' = 0 /\ storage \in Live
         => \E t \in Tabs, c \in Calls : Answered(t, c, "logout")]_sessionVars
=============================================================================
