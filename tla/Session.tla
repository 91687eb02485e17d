------------------------------ MODULE Session -------------------------------
(***************************************************************************)
(* The session of a browser tab: AuthContext.tsx keeps the user and the    *)
(* access token in memory and the refresh token in localStorage, and       *)
(* apiClient.ts answers a 401 with one refresh shared by the requests that *)
(* wait for it.  What runs between two awaits is one step; calls end in    *)
(* any order.  /auth/me answers the owner of the token it was sent with.   *)
(***************************************************************************)
EXTENDS Naturals, FiniteSets

CONSTANTS
    Users,
    Requests,       \* calls of the pages that may be in flight together
    MaxVisits,      \* bound: sign-ins and reloads
    None

AccessTokens == [of : Users, fresh : BOOLEAN]
RefreshTokens == [of : Users, lapsed : BOOLEAN]

ASSUME SessionAssumption ==
    /\ None \notin Users \cup Requests \cup AccessTokens \cup RefreshTokens
    /\ MaxVisits \in Nat

VARIABLES
    overlap,        \* does the user sign in or out while calls are in flight (fixed)
    lossy,          \* may the network lose calls (fixed)
    accounts,       \* users the server knows
    user,           \* the user the tab shows, or None
    access,         \* accessTokenRef: owner and whether it is still fresh, or None
    stored,         \* the refresh token in localStorage: owner, has it lapsed; or None
    ipc, itoken,    \* the effect of a page load: its step, the token it read
    fpc, fuser,     \* the form: its step, the user it is about
    error,          \* the message the form shows
    rpc, rtoken,    \* each request: its step, the access token it was sent with
    call, promise,  \* refresh calls in flight by the request that made them; refreshPromise
    kept,           \* the user who signed in and whose token neither lapsed nor was given up
    visits

world == <<accounts, visits, overlap, lossy>>
tokens == <<user, access, stored, kept>>
init == <<ipc, itoken>>
form == <<fpc, fuser, error>>
calls == <<rpc, rtoken, call, promise>>
sessionVars == <<world, tokens, init, form, calls>>

Fresh(u) == [of |-> u, fresh |-> TRUE]

Idle == [r \in Requests |-> "idle"]
NoTokens == [r \in Requests |-> None]

-----------------------------------------------------------------------------
(* Page load *)

SessionInit ==
    /\ overlap \in BOOLEAN /\ lossy \in BOOLEAN
    /\ accounts = {} /\ visits = 0 /\ user = None /\ access = None /\ stored = None /\ kept = None
    /\ ipc = "done" /\ itoken = None /\ fpc = "idle" /\ fuser = None /\ error = "none"
    /\ rpc = Idle /\ rtoken = NoTokens /\ call = NoTokens /\ promise = None

\* A new page has no memory of the old one's calls.  Its refresh token may
\* have lapsed since.
Reload ==
    /\ visits < MaxVisits /\ visits' = visits + 1
    /\ \E lapsed \in BOOLEAN :
        /\ stored' = IF stored # None /\ lapsed THEN [stored EXCEPT !.lapsed = TRUE] ELSE stored
        /\ kept' = IF lapsed THEN None ELSE kept
    /\ user' = None /\ access' = None
    /\ itoken' = stored' /\ ipc' = IF stored' = None THEN "done" ELSE "refresh"
    /\ fpc' = "idle" /\ fuser' = None /\ error' = "none"
    /\ rpc' = Idle /\ rtoken' = NoTokens /\ call' = NoTokens /\ promise' = None
    /\ UNCHANGED <<accounts, overlap, lossy>>

InitFails ==
    /\ \/ ipc = "refresh" /\ (itoken.lapsed \/ lossy)
       \/ ipc = "me" /\ lossy
    /\ ipc' = "done" /\ itoken' = None /\ stored' = None
    /\ UNCHANGED <<world, user, access, kept, form, calls>>

\* Variant: the new access token is not kept.
InitRefreshedUnset ==
    /\ ipc = "refresh" /\ ~ itoken.lapsed /\ ipc' = "me"
    /\ UNCHANGED <<world, tokens, itoken, form, calls>>

InitRefreshed ==
    /\ ipc = "refresh" /\ ~ itoken.lapsed /\ ipc' = "me" /\ access' = Fresh(itoken.of)
    /\ UNCHANGED <<world, user, stored, kept, itoken, form, calls>>

InitMe ==
    /\ ipc = "me" /\ user' = itoken.of /\ ipc' = "done" /\ itoken' = None
    /\ UNCHANGED <<world, access, stored, kept, form, calls>>

-----------------------------------------------------------------------------
(* The sign-in and sign-up forms, and signing out *)

InFlight == ipc # "done" \/ fpc # "idle" \/ \E r \in Requests : rpc[r] # "idle"

\* The forms are routes of their own: they do not wait for the page load.
Submit(u, signup) ==
    /\ user = None /\ fpc = "idle" /\ (overlap \/ ~ InFlight)
    /\ visits < MaxVisits /\ visits' = visits + 1
    /\ fpc' = (IF signup THEN "register" ELSE "login") /\ fuser' = u /\ error' = "none"
    /\ UNCHANGED <<accounts, overlap, lossy, tokens, init, calls>>

FormFails(message) ==
    /\ fpc' = "idle" /\ error' = message /\ UNCHANGED <<visits, overlap, lossy, tokens, init, calls, fuser>>

Registered ==
    /\ fpc = "register" /\ fuser \notin accounts
    /\ accounts' = accounts \cup {fuser} /\ fpc' = "login_signup"
    /\ UNCHANGED <<visits, overlap, lossy, tokens, init, calls, fuser, error>>

\* A conflict; or the call failed, before or after the server had its effect.
RegisterFails ==
    /\ fpc = "register"
    /\ \/ fuser \in accounts /\ FormFails("taken") /\ UNCHANGED accounts
       \/ lossy /\ FormFails("signup") /\ accounts' \in {accounts, accounts \cup {fuser}}

LoggingIn == fpc \in {"login", "login_signup"}

\* Variant: the refresh token stays in memory.
LoggedInUnstored ==
    /\ LoggingIn /\ fuser \in accounts /\ access' = Fresh(fuser) /\ kept' = fuser
    /\ fpc' = (IF fpc = "login" THEN "me" ELSE "me_signup")
    /\ UNCHANGED <<world, user, stored, init, calls, fuser, error>>

LoggedIn ==
    /\ LoggingIn /\ fuser \in accounts
    /\ access' = Fresh(fuser) /\ stored' = [of |-> fuser, lapsed |-> FALSE] /\ kept' = fuser
    /\ fpc' = (IF fpc = "login" THEN "me" ELSE "me_signup")
    /\ UNCHANGED <<world, user, init, calls, fuser, error>>

FormMe ==
    /\ fpc \in {"me", "me_signup"} /\ user' = fuser /\ fpc' = "idle"
    /\ UNCHANGED <<world, access, stored, kept, init, calls, fuser, error>>

\* wrong credentials, or the network
LoginFails ==
    /\ \/ LoggingIn /\ (fuser \notin accounts \/ lossy)
       \/ fpc \in {"me", "me_signup"} /\ lossy
    /\ FormFails(IF fpc \in {"login", "me"} THEN "signin" ELSE "signup") /\ UNCHANGED accounts

Logout ==
    /\ user # None /\ (overlap \/ ~ InFlight)
    /\ user' = None /\ access' = None /\ stored' = None /\ kept' = None
    /\ UNCHANGED <<world, init, form, calls>>

-----------------------------------------------------------------------------
(* request and refreshAccessToken *)

Expire ==
    /\ access # None /\ access.fresh /\ access' = [access EXCEPT !.fresh = FALSE]
    /\ UNCHANGED <<world, user, stored, kept, init, form, calls>>

Send(r) ==
    /\ user # None /\ rpc[r] = "idle" /\ rpc' = [rpc EXCEPT ![r] = "sent"]
    /\ rtoken' = [rtoken EXCEPT ![r] = access]
    /\ UNCHANGED <<world, tokens, init, form, call, promise>>

Done(rs) ==
    /\ rpc' = [r \in Requests |-> IF r \in rs THEN "idle" ELSE rpc[r]]
    /\ rtoken' = [r \in Requests |-> IF r \in rs THEN None ELSE rtoken[r]]

Accepted(r) == rtoken[r] # None /\ rtoken[r].fresh

\* an answer that is no 401, a call that rejects, or any answer to the retry
CallAnswered(r) ==
    /\ \/ rpc[r] = "sent" /\ (Accepted(r) \/ lossy)
       \/ rpc[r] = "retry"
    /\ Done({r}) /\ UNCHANGED <<world, tokens, init, form, call, promise>>

\* onAuthExpired, once for each of the waiting requests
AuthExpired == user' = None /\ access' = None /\ stored' = None

\* Variant: every 401 makes a call of its own.
AlwaysCall == TRUE

\* Coalesce concurrent 401s
NeedsCall == promise = None

Unauthorized(r) ==
    /\ rpc[r] = "sent" /\ ~ Accepted(r)
    /\ IF stored = None
       THEN AuthExpired /\ Done({r}) /\ UNCHANGED <<kept, call, promise>>
       ELSE /\ rpc' = [rpc EXCEPT ![r] = "wait"]
            /\ IF NeedsCall THEN call' = [call EXCEPT ![r] = stored] /\ promise' = r
               ELSE UNCHANGED <<call, promise>>
            /\ UNCHANGED <<tokens, rtoken>>
    /\ UNCHANGED <<world, init, form>>

\* Who resumes with a call: without coalescing, only its own caller.
Waiting(c) == {r \in Requests : rpc[r] = "wait" /\ (r = c \/ (promise = c /\ call[r] = None))}

CallEnds(c) == /\ call' = [call EXCEPT ![c] = None]
               /\ promise' = (IF promise = c THEN None ELSE promise)
               /\ UNCHANGED <<world, init, form>>

\* Variant: the waiting requests are not sent again.
RefreshStalls(c) ==
    /\ call[c] # None /\ ~ call[c].lapsed /\ access' = Fresh(call[c].of)
    /\ CallEnds(c) /\ UNCHANGED <<user, stored, kept, rpc, rtoken>>

Refreshed(c) ==
    /\ call[c] # None /\ ~ call[c].lapsed /\ access' = Fresh(call[c].of)
    /\ rpc' = [r \in Requests |-> IF r \in Waiting(c) THEN "retry" ELSE rpc[r]]
    /\ rtoken' = [r \in Requests |-> IF r \in Waiting(c) THEN access' ELSE rtoken[r]]
    /\ CallEnds(c) /\ UNCHANGED <<user, stored, kept>>

RefreshFails(c) ==
    /\ call[c] # None /\ (call[c].lapsed \/ lossy)
    /\ AuthExpired /\ Done(Waiting(c)) /\ CallEnds(c) /\ UNCHANGED kept

CallStep(r) == CallAnswered(r) \/ Unauthorized(r) \/ Refreshed(r) \/ RefreshFails(r)
InitStep == InitFails \/ InitRefreshed \/ InitMe
FormStep == Registered \/ RegisterFails \/ LoggedIn \/ FormMe \/ LoginFails

SessionNext ==
    \/ Reload \/ InitStep \/ FormStep \/ Logout \/ Expire
    \/ \E u \in Users : \E signup \in BOOLEAN : Submit(u, signup)
    \/ \E r \in Requests : Send(r) \/ CallStep(r)

SessionSpec == SessionInit /\ [][SessionNext]_sessionVars

\* Every call of the browser is answered or rejected.
SessionFairSpec ==
    /\ SessionSpec /\ WF_sessionVars(InitStep) /\ WF_sessionVars(FormStep)
    /\ \A r \in Requests : WF_sessionVars(CallStep(r))

-----------------------------------------------------------------------------
(* Properties *)

\* Types of every variable.
SessionTypeOK ==
    /\ accounts \subseteq Users /\ user \in Users \cup {None} /\ kept \in Users \cup {None}
    /\ access \in AccessTokens \cup {None} /\ stored \in RefreshTokens \cup {None}
    /\ ipc \in {"refresh", "me", "done"} /\ itoken \in RefreshTokens \cup {None}
    /\ fpc \in {"idle", "register", "login", "login_signup", "me", "me_signup"}
    /\ fuser \in Users \cup {None} /\ error \in {"none", "taken", "signin", "signup"}
    /\ rpc \in [Requests -> {"idle", "sent", "wait", "retry"}]
    /\ rtoken \in [Requests -> AccessTokens \cup {None}]
    /\ call \in [Requests -> RefreshTokens \cup {None}] /\ promise \in Requests \cup {None}
    /\ visits \in 0..MaxVisits /\ overlap \in BOOLEAN /\ lossy \in BOOLEAN

\* The user on the screen is the one whose tokens the tab and localStorage
\* hold (login, the effect and onAuthExpired write the three one by one).
SessionIsWhole ==
    user # None /\ ~ overlap => /\ access # None /\ access.of = user
                   /\ stored # None /\ stored.of = user

\* Who is signed out can be sure that no token is left (logout, onAuthExpired).
SignedOutIsClean ==
    user = None /\ ~ InFlight /\ ~ overlap /\ ~ lossy => stored = None

\* "a login survives a page reload": the refresh token of a user who neither
\* signed out nor stayed away too long is kept.
LoginSurvivesReload == kept # None /\ ~ overlap /\ ~ lossy => stored # None /\ stored.of = kept

\* "Coalesce concurrent 401s into a single refresh call."
OneRefreshCall == Cardinality({r \in Requests : call[r] # None}) <= 1

\* A page load shows its page, or the form, in the end (finally).
InitEnds == ipc # "done" ~> ipc = "done"

\* A request ends with at most one retry, whatever becomes of its refresh.
RequestsEnd == \A r \in Requests : rpc[r] # "idle" ~> rpc[r] = "idle"

\* What the screen says and what the tab and localStorage hold agree, both for
\* somebody who is signed in and for somebody who is not.
SessionIsSound == SessionTypeOK /\ SessionIsWhole /\ SignedOutIsClean

\* Neither a page load nor a request of a page waits for ever.
CallsEnd == InitEnds /\ RequestsEnd
=============================================================================
