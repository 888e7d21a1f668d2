---------------------------- MODULE BrowserSession ----------------------------
(***************************************************************************)
(* The session of one browser: tabs of the web client that share a refresh *)
(* cookie and keep an access token each (lib/api.ts, App.tsx), and the     *)
(* server that rotates and revokes refresh tokens (service/auth_session.go *)
(* and the account handlers).                                              *)
(*                                                                         *)
(* A request and its answer are two steps of the network apart.  A refresh *)
(* token is a number in the order of issue; the tokens that a login and    *)
(* the rotations after it issue form one family.                           *)
(***************************************************************************)
EXTENDS Naturals, FiniteSets

CONSTANTS
    Tabs,            \* tabs of the browser
    Calls,           \* calls of one tab that may meet an expired token at a time
    MaxStale,        \* bound on those of all tabs
    MaxTokens,       \* bound on the refresh tokens issued
    MaxRevocations   \* bound on password changes and disablings

ASSUME BoundsAssumption == MaxTokens \in Nat /\ MaxRevocations \in Nat /\ MaxStale \in Nat

NoToken == 0
Tokens == 1..MaxTokens

VARIABLES
    issued,      \* number of refresh tokens issued so far
    family,      \* family[k]: the token of the login that token k descends from
    live,        \* tokens neither revoked nor expired
    epoch,       \* number of revocations of the account's sessions
    active,      \* the account is not disabled
    cookie,      \* the refresh cookie of the browser
    access,      \* access[t]: cachedAccessToken is set
    ready,       \* ready[t]: authReady
    route,       \* route[t]: what the router shows, a page or the login form
    refresh,     \* refresh[t]: exchanges of performRefresh in flight
    joined,      \* joined[t]: refreshRequest is not null
    call,        \* call[t][c]: a call the server will refuse: the token it was sent with,
                 \* or that it waits for a refresh
    login,       \* login[t]: the login exchange
    logout,      \* logout[t]: the logout exchange
    \* history
    loginEpoch,  \* loginEpoch[k]: the epoch in which login k read the user
    overtaken,   \* logins that read the user before a revocation and insert after it
    out,         \* families logged out in an undisturbed browser
    disturbed    \* exchanges overlapped between tabs, or an answer was lost

server == <<issued, family, live, epoch, active>>
history == <<loginEpoch, overtaken, out, disturbed>>
sessionVars == <<server, cookie, access, ready, route, refresh, joined, call, login, logout,
                 history>>

NoExchange == [at |-> "idle", token |-> NoToken]
NoLogin == [at |-> "idle", token |-> NoToken, seen |-> 0, bearer |-> FALSE]

\* An exchange that reads or writes the cookie is in flight in tab t.
Busy(t) == refresh[t] # {} \/ login[t].at # "idle" \/ logout[t].at # "idle"
Quiet == \A t \in Tabs : ~Busy(t)

\* Tab t sends an exchange that overlaps one of another tab, or of another kind of its own.
Overlaps(t) ==
    \/ \E u \in Tabs \ {t} : Busy(u)
    \/ login[t].at # "idle"
    \/ logout[t].at # "idle"

-----------------------------------------------------------------------------
\* The server: the refresh_tokens table.

\* Insert a row for a new token: of the family it descends from, or its own.
Issue(root) ==
    /\ issued < MaxTokens
    /\ issued' = issued + 1
    /\ family' = [family EXCEPT ![issued + 1] = IF root = NoToken THEN issued + 1 ELSE root]

\* RefreshSession, one transaction: the row must be unrevoked and unexpired and
\* its user active; it is revoked under the same condition and a new row inserted.
Bug_Rotate(k) ==
    /\ k \in 1..issued
    /\ active
    /\ Issue(family[k])
    /\ live' = live \cup {issued + 1}

Rotate(k) ==
    /\ k \in live
    /\ active
    /\ Issue(family[k])
    /\ live' = (live \ {k}) \cup {issued + 1}

\* revokeAllRefreshTokens, with the new password, e-mail or status in one transaction.
Revoke == live' = {}

RevokeAll ==
    /\ epoch < MaxRevocations
    /\ epoch' = epoch + 1
    /\ Revoke
    /\ active' \in {active, FALSE}
    /\ UNCHANGED <<overtaken, issued, family, cookie, access, ready, route, refresh, joined,
                   call, login, logout, loginEpoch, out, disturbed>>

Enable ==
    /\ ~active
    /\ active' = TRUE
    /\ UNCHANGED <<issued, family, live, epoch, cookie, access, ready, route, refresh, joined,
                   call, login, logout, history>>

-----------------------------------------------------------------------------
\* refreshSession and performRefresh.

\* refreshSession: join the request in flight, or start one with the cookie of the moment.
Join(t) ==
    IF joined[t]
    THEN UNCHANGED <<refresh, joined, disturbed>>
    ELSE /\ refresh' = [refresh EXCEPT ![t] = {[at |-> "asked", token |-> cookie, new |-> NoToken]}]
         /\ joined' = [joined EXCEPT ![t] = TRUE]
         /\ disturbed' = (disturbed \/ Overlaps(t))

Answer(t, x, how, new) ==
    refresh' = [refresh EXCEPT ![t] =
                   (@ \ {x}) \cup {[at |-> how, token |-> NoToken, new |-> new]}]

ServeRefresh(t, x) ==
    /\ x.at = "asked"
    /\ \/ /\ Rotate(x.token)
          /\ Answer(t, x, "granted", issued + 1)
       \/ /\ ~(x.token \in live /\ active)
          /\ Answer(t, x, "denied", NoToken)
          /\ UNCHANGED <<issued, family, live>>
       \/ /\ Answer(t, x, "failed", NoToken)
          /\ UNCHANGED <<issued, family, live>>
    /\ UNCHANGED <<epoch, active, cookie, access, ready, route, joined, call, login, logout,
                   loginEpoch, overtaken, out, disturbed>>

\* The answer of a served exchange never reaches the tab: performRefresh catches and returns false.
LoseAnswer(t, x) ==
    /\ x.at = "granted"
    /\ Answer(t, x, "failed", NoToken)
    /\ disturbed' = TRUE
    /\ UNCHANGED <<server, cookie, access, ready, route, joined, call, login, logout,
                   loginEpoch, overtaken, out>>

\* Navigation to /login by assigning window.location: the module state is lost,
\* exchanges in flight are dropped, and the tab opens anew.
Reload(t) ==
    /\ access' = [access EXCEPT ![t] = FALSE]
    /\ ready' = [ready EXCEPT ![t] = FALSE]
    /\ route' = [route EXCEPT ![t] = "login"]
    /\ call' = [call EXCEPT ![t] = [c \in Calls |-> "idle"]]
    /\ login' = [login EXCEPT ![t] = NoLogin]
    /\ logout' = [logout EXCEPT ![t] = NoExchange]

\* App's first effect: restoreSession, which refreshes when there is no access token.
Restart(t, k) ==
    /\ refresh' = [refresh EXCEPT ![t] = {[at |-> "asked", token |-> k, new |-> NoToken]}]
    /\ joined' = [joined EXCEPT ![t] = TRUE]

\* Login reads the user and compares the password; the epoch it saw is kept.
\* A disabled account or a wrong password is refused.
CheckLogin(t, bearer) ==
    \/ /\ active
       /\ login' = [login EXCEPT ![t] = [NoLogin EXCEPT !.at = "checked", !.seen = epoch]]
    \/ login' = [login EXCEPT ![t] = [NoLogin EXCEPT !.at = "denied", !.bearer = bearer]]

\* The answer arrives: the browser takes the cookie, performRefresh the access
\* token, refreshRequest becomes null, and all that waited for it continue.
\* What waits is sent again with the new token; when the refresh failed,
\* handleUnauthorized takes the tab to /login.
Waiting(t) == login[t].at = "waiting" \/ \E c \in Calls : call[t][c] = "waiting"

WakeWaiting(t) ==
    /\ call' = [call EXCEPT ![t] = [c \in Calls |-> IF @[c] = "waiting" THEN "idle" ELSE @[c]]]
    /\ IF login[t].at = "waiting"
       THEN CheckLogin(t, FALSE)
       ELSE UNCHANGED login

Bug_TakeCookie(x) == cookie' = IF x.at = "denied" THEN NoToken ELSE cookie

TakeCookie(x) ==
    cookie' = CASE x.at = "granted" -> x.new
                [] x.at = "denied"  -> NoToken
                [] OTHER            -> cookie

RefreshArrives(t, x) ==
    /\ x.at # "asked"
    /\ TakeCookie(x)
    /\ \/ /\ x.at = "granted"
          /\ access' = [access EXCEPT ![t] = TRUE]
          /\ ready' = [ready EXCEPT ![t] = TRUE]
          /\ route' = [route EXCEPT ![t] = IF ready[t] THEN @ ELSE "page"]
          /\ refresh' = [refresh EXCEPT ![t] = @ \ {x}]
          /\ joined' = [joined EXCEPT ![t] = FALSE]
          /\ WakeWaiting(t)
          /\ UNCHANGED <<logout, disturbed>>
       \/ /\ x.at # "granted"
          /\ Waiting(t)
          /\ Reload(t)
          /\ Restart(t, cookie')
          /\ disturbed' = (disturbed \/ Overlaps(t))
       \/ /\ x.at # "granted"
          /\ ~Waiting(t)
          /\ access' = [access EXCEPT ![t] = FALSE]
          /\ ready' = [ready EXCEPT ![t] = TRUE]
          /\ refresh' = [refresh EXCEPT ![t] = @ \ {x}]
          /\ joined' = [joined EXCEPT ![t] = FALSE]
          /\ UNCHANGED <<route, call, login, logout, disturbed>>
    /\ UNCHANGED <<server, loginEpoch, overtaken, out>>

-----------------------------------------------------------------------------
\* requestRaw.

\* A call of a page.  One that the server takes leaves the session as it is and
\* is not followed; this one was sent with an expired token.
Call(t, c) ==
    /\ ready[t]
    /\ route[t] = "page"
    /\ call[t][c] = "idle"
    /\ access[t]
    /\ Cardinality({x \in Tabs \X Calls : call[x[1]][x[2]] # "idle"}) < MaxStale
    /\ call' = [call EXCEPT ![t][c] = "stale"]
    /\ UNCHANGED <<server, cookie, access, ready, route, refresh, joined, login, logout,
                   history>>

\* The 401 of a call that carried a token: it waits for a refresh and is then
\* attempted once more.
CallRefused(t, c) ==
    /\ call[t][c] = "stale"
    /\ call' = [call EXCEPT ![t][c] = "waiting"]
    /\ Join(t)
    /\ UNCHANGED <<server, cookie, access, ready, route, login, logout, loginEpoch, overtaken,
                   out>>

-----------------------------------------------------------------------------
\* Signing in and out.

\* The login form is sent.
SendLogin(t) ==
    /\ ready[t]
    /\ route[t] = "login"
    /\ login[t].at = "idle"
    /\ CheckLogin(t, access[t])
    /\ disturbed' = (disturbed \/ ~Quiet)
    /\ UNCHANGED <<server, cookie, access, ready, route, refresh, joined, call, logout,
                   loginEpoch, overtaken, out>>

\* issueAuthResponse inserts the row, with no look at the user again.
InsertLogin(t) ==
    /\ login[t].at = "checked"
    /\ Issue(NoToken)
    /\ live' = live \cup {issued + 1}
    /\ login' = [login EXCEPT ![t] = [NoLogin EXCEPT !.at = "granted", !.token = issued + 1]]
    /\ loginEpoch' = [loginEpoch EXCEPT ![issued + 1] = login[t].seen]
    /\ overtaken' = IF login[t].seen < epoch THEN overtaken \cup {issued + 1} ELSE overtaken
    /\ UNCHANGED <<epoch, active, cookie, access, ready, route, refresh, joined, call, logout,
                   out, disturbed>>

\* The answer: setAuth and the dashboard; or a 401, whose answer clears the
\* cookie and which requestRaw meets like that of any call; or it is lost.
LoginArrives(t) ==
    \/ /\ login[t].at = "granted"
       /\ cookie' = login[t].token
       /\ access' = [access EXCEPT ![t] = TRUE]
       /\ route' = [route EXCEPT ![t] = "page"]
       /\ login' = [login EXCEPT ![t] = NoLogin]
       /\ UNCHANGED <<server, ready, refresh, joined, call, logout, history>>
    \/ /\ login[t].at = "granted"
       /\ login' = [login EXCEPT ![t] = NoLogin]
       /\ disturbed' = TRUE
       /\ UNCHANGED <<server, cookie, access, ready, route, refresh, joined, call, logout,
                      loginEpoch, overtaken, out>>
    \/ /\ login[t].at = "denied"
       /\ ~login[t].bearer
       /\ cookie' = NoToken
       /\ disturbed' = (disturbed \/ cookie # NoToken \/ (\E u \in Tabs \ {t} : Busy(u)) \/ refresh[t] # {}
                                  \/ logout[t].at # "idle")
       /\ Reload(t)
       /\ Restart(t, NoToken)
       /\ UNCHANGED <<server, loginEpoch, overtaken, out>>
    \/ /\ login[t].at = "denied"
       /\ login[t].bearer
       /\ cookie' = NoToken
       /\ login' = [login EXCEPT ![t].at = "waiting"]
       /\ refresh' = [refresh EXCEPT ![t] = IF joined[t] THEN @ ELSE
                         {[at |-> "asked", token |-> NoToken, new |-> NoToken]}]
       /\ joined' = [joined EXCEPT ![t] = TRUE]
       /\ disturbed' = TRUE
       /\ UNCHANGED <<server, access, ready, route, call, logout, loginEpoch, overtaken, out>>

SendLogout(t) ==
    /\ ready[t]
    /\ route[t] = "page"
    /\ logout[t].at = "idle"
    /\ logout' = [logout EXCEPT ![t] = [at |-> "asked", token |-> cookie]]
    /\ disturbed' = (disturbed \/ ~Quiet)
    /\ UNCHANGED <<server, cookie, access, ready, route, refresh, joined, call, login,
                   loginEpoch, overtaken, out>>

\* Logout revokes the row of the cookie's token, if it is not revoked yet.
Logout(k) == live' = live \ {k}

ServeLogout(t) ==
    /\ logout[t].at = "asked"
    /\ \/ /\ Logout(logout[t].token)
          /\ logout' = [logout EXCEPT ![t] = [NoExchange EXCEPT !.at = "done"]]
          /\ out' = IF disturbed \/ logout[t].token = NoToken THEN out
                    ELSE out \cup {family[logout[t].token]}
       \/ /\ logout' = [logout EXCEPT ![t] = [NoExchange EXCEPT !.at = "failed"]]
          /\ UNCHANGED <<live, out>>
    /\ UNCHANGED <<issued, family, epoch, active, cookie, access, ready, route, refresh, joined,
                   call, login, loginEpoch, overtaken, disturbed>>

\* logout clears the access token whatever came of the request, its answer
\* lost or not; handleLogout then shows /login.
LogoutArrives(t) ==
    /\ logout[t].at \in {"done", "failed"}
    /\ \/ /\ logout[t].at = "done"
          /\ cookie' = NoToken
          /\ UNCHANGED disturbed
       \/ /\ disturbed' = (disturbed \/ logout[t].at = "done")
          /\ UNCHANGED cookie
    /\ access' = [access EXCEPT ![t] = FALSE]
    /\ route' = [route EXCEPT ![t] = "login"]
    /\ logout' = [logout EXCEPT ![t] = NoExchange]
    /\ UNCHANGED <<server, ready, refresh, joined, call, login, loginEpoch, overtaken, out>>

\* A link followed: the guards of the routes look at the access token again.
Navigate(t) ==
    /\ ready[t]
    /\ route' = [route EXCEPT ![t] = IF ~access[t] THEN "login" ELSE "page"]
    /\ UNCHANGED <<server, cookie, access, ready, refresh, joined, call, login, logout,
                   history>>

\* The page is loaded again: by the user, or by a tab opened in its place.
Reopen(t) ==
    /\ ready[t]
    /\ Reload(t)
    /\ Restart(t, cookie)
    /\ disturbed' = (disturbed \/ Overlaps(t) \/ Busy(t))
    /\ UNCHANGED <<server, cookie, loginEpoch, overtaken, out>>

-----------------------------------------------------------------------------
SessionInit ==
    /\ issued = 0
    /\ family = [k \in Tokens |-> NoToken]
    /\ live = {}
    /\ epoch = 0
    /\ active = TRUE
    /\ cookie = NoToken
    /\ access = [t \in Tabs |-> FALSE]
    /\ ready = [t \in Tabs |-> FALSE]
    /\ route = [t \in Tabs |-> "login"]
    /\ refresh = [t \in Tabs |-> {[at |-> "asked", token |-> NoToken, new |-> NoToken]}]
    /\ joined = [t \in Tabs |-> TRUE]
    /\ call = [t \in Tabs |-> [c \in Calls |-> "idle"]]
    /\ login = [t \in Tabs |-> NoLogin]
    /\ logout = [t \in Tabs |-> NoExchange]
    /\ loginEpoch = [k \in Tokens |-> 0]
    /\ overtaken = {}
    /\ out = {}
    /\ disturbed = FALSE

\* The browser ends every exchange, by an answer or by an error.
RefreshEnds(t) == \E x \in refresh[t] : ServeRefresh(t, x) \/ RefreshArrives(t, x)

Network(t) ==
    \/ RefreshEnds(t)
    \/ \E c \in Calls : CallRefused(t, c)
    \/ InsertLogin(t) \/ LoginArrives(t)
    \/ ServeLogout(t) \/ LogoutArrives(t)

TabActs(t) ==
    \/ \E c \in Calls : Call(t, c)
    \/ SendLogin(t) \/ SendLogout(t) \/ Navigate(t) \/ Reopen(t)

SessionNext ==
    \/ \E t \in Tabs : Network(t) \/ TabActs(t)
                       \/ \E x \in refresh[t] : LoseAnswer(t, x)
    \/ RevokeAll \/ Enable

SessionSpec == SessionInit /\ [][SessionNext]_sessionVars

-----------------------------------------------------------------------------
\* Of the tokens a login leads to, at most one is worth a session: two tabs,
\* or a retry, that present one token cannot both be answered with a new one
\* (auth_session.go:108, the update under "revoked_at IS NULL").
OneLivePerFamily ==
    \A j, k \in live : family[j] = family[k] => j = k

\* A password change, a new e-mail address or a disabling ends every session
\* of the account, however often it was refreshed since its login; only a login
\* that had compared the old password and inserted its row later outlives it
\* (auth_session.go:45 has no look at the user).
RevocationEndsSessions ==
    \A k \in live : loginEpoch[family[k]] < epoch => family[k] \in overtaken

\* As long as tabs do not refresh across each other and no answer is lost, the
\* browser holds the live token of its last login, whatever the rotations,
\* reloads, retries and failed calls in between: nobody is signed out for no reason.
SessionKept ==
    ~disturbed /\ Quiet =>
        /\ \/ cookie \in live \cup {NoToken}
           \/ loginEpoch[family[cookie]] < epoch
        /\ \A k \in live :
              (\A j \in 1..issued : family[j] <= family[k]) => k = cookie \/ family[k] \in overtaken

\* Signing out ends the session on the server too: no token of it is worth
\* anything later, unless a refresh was under way when the logout was sent.
LoggedOutStaysOut ==
    \A k \in live : family[k] \notin out

\* The tab is at its loading screen, or a call of it waits for a refresh.
Pending(t) == ~ready[t] \/ \E c \in Calls : call[t][c] = "waiting"

\* What refresh tokens are worth, at any time and with any requests under way.
TokensHold ==
    OneLivePerFamily /\ RevocationEndsSessions

\* The browser is signed in as long as its user wants and no longer.
SessionFollowsUser ==
    SessionKept /\ LoggedOutStaysOut
=============================================================================
