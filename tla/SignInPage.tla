------------------------------ MODULE SignInPage ------------------------------
(***************************************************************************)
(* The login page (features/auth/login-page.tsx): credentials with a       *)
(* second step, passkeys, and the return from an identity provider, whose  *)
(* result is kept at the server for one reading.                           *)
(*                                                                         *)
(* Exchanges of the page overlap; one that was begun on a page that is     *)
(* left still signs in and goes to the dashboard when it is answered.      *)
(***************************************************************************)
EXTENDS Screens, Naturals, FiniteSets

CONSTANT MaxTrips   \* bound on the exchanges of the page

Accounts == {"plain", "guarded"}   \* the second one asks for a second factor

ASSUME AccountsAssumption == None \notin Accounts

VARIABLES
    signRoute,    \* "login", "other" (register, forgot password) or "home"
    step,         \* "credentials" or "totp"
    totpToken,    \* the account whose second factor is asked for
    flags,        \* loading, passkeyLoading, oidcLoading, oidcSubmitting
    oidcAction,   \* the address says that a provider has answered
    oidcSession,  \* that answer, kept by the server: an account or None
    trips,        \* exchanges in flight
    signedIn,     \* the account of the access token
    \* history
    tripCount,
    home,         \* the account that the dashboard was opened for
    crossed,      \* a way was begun beside another that the flags do not tell of
    taken,        \* a result of a provider was read from the server
    dropped       \* its answer was lost, or the document was loaded anew

signVars == <<signRoute, step, totpToken, flags, oidcAction, oidcSession, trips, signedIn, tripCount,
              home, crossed, taken, dropped>>

Flag(way) == CASE way \in {"password", "totp"} -> "loading"
               [] way = "passkey" -> "passkeyLoading"
               [] way = "return" -> "oidcLoading"
               [] OTHER -> "oidcSubmitting"

Trip(way, who) ==
    /\ tripCount < MaxTrips
    /\ tripCount' = tripCount + 1
    /\ trips' = trips \cup {[n |-> tripCount + 1, way |-> way, who |-> who, at |-> "sent", here |-> TRUE]}
    /\ flags' = flags \cup {Flag(way)}

\* The effect that asks for the result of a provider runs at the first render (see
\* NewDocument) and again after a change of language, while the address names it.
AskAgain ==
    /\ signRoute = "login" /\ step = "credentials" /\ oidcAction
    /\ Trip("return", None)
    /\ UNCHANGED <<signRoute, step, totpToken, oidcAction, oidcSession, signedIn, home, crossed, taken,
                   dropped>>

\* handleCredentialsSubmit: only "loading" disables it.
SubmitCredentials(who) ==
    /\ signRoute = "login" /\ step = "credentials" /\ "loading" \notin flags
    /\ Trip("password", who)
    /\ crossed' = (crossed \/ trips # {})
    /\ UNCHANGED <<signRoute, step, totpToken, oidcAction, oidcSession, signedIn, home, taken, dropped>>

SubmitTotp ==
    /\ signRoute = "login" /\ step = "totp" /\ "loading" \notin flags
    /\ Trip("totp", totpToken)
    /\ UNCHANGED <<signRoute, step, totpToken, oidcAction, oidcSession, signedIn, home, crossed, taken,
                   dropped>>

\* handleBack does not end the exchange of the second factor.
BackToCredentials ==
    /\ signRoute = "login" /\ step = "totp"
    /\ step' = "credentials" /\ totpToken' = None
    /\ UNCHANGED <<signRoute, flags, oidcAction, oidcSession, trips, signedIn, tripCount, home, crossed,
                   taken, dropped>>

\* handlePasskeyLogin and handleOIDCLogin: any flag disables them.
OtherWay(way) ==
    /\ signRoute = "login" /\ step = "credentials" /\ flags = {}
    /\ \E who \in (IF way = "passkey" THEN Accounts ELSE {None}) : Trip(way, who)
    /\ crossed' = (crossed \/ \E q \in trips : ~q.here \/ q.way = "return")
    /\ UNCHANGED <<signRoute, step, totpToken, oidcAction, oidcSession, signedIn, home, taken, dropped>>

\* A link to another page of the client, and back to a fresh login page.
LeaveSignIn ==
    /\ signRoute = "login" /\ step = "credentials"
    /\ signRoute' = "other"
    /\ flags' = {} /\ oidcAction' = FALSE
    /\ trips' = {[q EXCEPT !.here = FALSE] : q \in trips}
    /\ UNCHANGED <<step, totpToken, oidcSession, signedIn, tripCount, home, crossed, taken, dropped>>

ReturnToSignIn ==
    /\ signRoute = "other"
    /\ signRoute' = "login" /\ step' = "credentials" /\ totpToken' = None
    /\ UNCHANGED <<flags, oidcAction, oidcSession, trips, signedIn, tripCount, home, crossed, taken, dropped>>

-----------------------------------------------------------------------------
\* The server.  A result of a provider is read once; a refusal of a password, a
\* code or a passkey is a 401.
Becomes(q, at, who) == trips' = (trips \ {q}) \cup {[q EXCEPT !.at = at, !.who = who]}

ServeTrip(q) ==
    /\ q.at = "sent"
    /\ \/ /\ q.way = "return"
          /\ Becomes(q, IF oidcSession = None THEN "failed" ELSE "accepted", oidcSession)
          /\ oidcSession' = None
          /\ taken' = (taken \/ oidcSession # None)
       \/ /\ q.way # "return"
          /\ \E at \in {"accepted", "failed"} \cup (IF q.way = "provider" THEN {} ELSE {"refused"}) :
                Becomes(q, at, q.who)
          /\ UNCHANGED <<oidcSession, taken>>
    /\ UNCHANGED <<signRoute, step, totpToken, flags, oidcAction, signedIn, tripCount, home, crossed, dropped>>

\* The answer.  The page's own state is set only while it is mounted.
Bug_FlagFalls(q) ==
    flags' = IF q.here /\ q.at = "accepted" THEN flags \ {Flag(q.way)} ELSE flags

FlagFalls(q) == flags' = IF q.here THEN flags \ {Flag(q.way)} ELSE flags

SignIn(q) ==
    /\ signedIn' = q.who
    /\ signRoute' = "home"
    /\ home' = IF signRoute = "home" THEN home ELSE q.who
    /\ trips' = {[p EXCEPT !.here = FALSE] : p \in trips \ {q}}
    /\ flags' = {} /\ oidcAction' = FALSE
    /\ UNCHANGED <<step, totpToken>>

Bug_SignInHere(q) == q.here /\ \A p \in trips : p.way = q.way => p.n <= q.n

SignInHere(q) == TRUE   \* no handler asks whether its page is still there

SignedInBy(q) ==
    /\ q.at = "accepted" /\ q.way # "provider"
    /\ q.way = "password" => q.who = "plain"
    /\ IF SignInHere(q) THEN SignIn(q)
       ELSE trips' = trips \ {q} /\ FlagFalls(q)
            /\ UNCHANGED <<signRoute, step, totpToken, oidcAction, signedIn, home>>
    /\ UNCHANGED <<oidcSession, tripCount, crossed, taken, dropped>>

AskForTotp(q) ==
    /\ q.at = "accepted" /\ q.way = "password" /\ q.who = "guarded"
    /\ trips' = trips \ {q} /\ FlagFalls(q)
    /\ step' = IF q.here THEN "totp" ELSE step
    /\ totpToken' = IF q.here THEN q.who ELSE totpToken
    /\ UNCHANGED <<signRoute, oidcAction, oidcSession, signedIn, tripCount, home, crossed, taken, dropped>>

TripFails(q) ==
    /\ q.at \in {"failed", "accepted"}
    /\ trips' = trips \ {q} /\ FlagFalls(q)
    /\ oidcAction' = IF q.way = "return" /\ q.here THEN FALSE ELSE oidcAction
    /\ dropped' = (dropped \/ (q.way = "return" /\ q.at = "accepted"))
    /\ UNCHANGED <<signRoute, step, totpToken, oidcSession, signedIn, tripCount, home, crossed, taken>>

\* The document is loaded anew: by the 401 of a sign-in, at the login page and
\* without an access token; or by the provider that sends the browser back.
NewDocument(q) ==
    /\ \/ /\ q.at = "refused"
          /\ oidcAction' = FALSE /\ trips' = {} /\ flags' = {}
          /\ dropped' = (dropped \/ signedIn # None \/ \E p \in trips : p.way = "return")
          /\ UNCHANGED <<oidcSession, taken, tripCount>>
       \/ /\ q.at = "accepted" /\ q.way = "provider"
          /\ oidcAction' = TRUE /\ oidcSession' \in Accounts
          /\ trips' = {[n |-> tripCount + 1, way |-> "return", who |-> None, at |-> "sent", here |-> TRUE]}
          /\ flags' = {Flag("return")} /\ tripCount' = tripCount + 1
          /\ dropped' = FALSE /\ taken' = FALSE
    /\ signRoute' = "login" /\ step' = "credentials" /\ totpToken' = None
    /\ signedIn' = None /\ home' = None /\ crossed' = FALSE

SignInit ==
    /\ signRoute = "login" /\ step = "credentials" /\ totpToken = None /\ flags = {}
    /\ oidcAction = FALSE /\ oidcSession = None /\ trips = {} /\ signedIn = None
    /\ tripCount = 0 /\ home = None /\ crossed = FALSE /\ taken = FALSE /\ dropped = FALSE

TripStep(q) == ServeTrip(q) \/ SignedInBy(q) \/ AskForTotp(q) \/ TripFails(q) \/ NewDocument(q)

SignNext ==
    \/ AskAgain \/ SubmitTotp \/ BackToCredentials \/ LeaveSignIn \/ ReturnToSignIn
    \/ \E who \in Accounts : SubmitCredentials(who)
    \/ \E way \in {"passkey", "provider"} : OtherWay(way)
    \/ \E q \in trips : TripStep(q)

-----------------------------------------------------------------------------
\* The dashboard shows the account whose access token the tab holds: no second
\* way of signing in is answered behind it.  Three ways of the page to do so are
\* left out: the submit button looks at "loading" alone, a page that is opened
\* again knows nothing of the exchanges of the last one, and of two requests for
\* a result the first to end lowers the flag of both.
HomeIsSignedIn == signRoute = "home" /\ ~crossed => home = signedIn

\* A result of a provider is read once, by whichever of the requests for it comes
\* first, and a change of language repeats the request; nevertheless its account is
\* signed in when they are answered.
ResultSignsIn == taken /\ trips = {} /\ ~dropped => signedIn # None

\* A button of the login page is disabled.
Locked == signRoute = "login" /\ flags # {}

\* An attempt to sign in ends with the account that it was for.
SignInEnds ==
    HomeIsSignedIn /\ ResultSignsIn
=============================================================================
