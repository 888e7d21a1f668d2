------------------------- MODULE MCSubscriptionPages -------------------------
(***************************************************************************)
(* The pages that show subscriptions, the login page, and the session of   *)
(* a browser with one tab, under the fairness of their requests.  They are *)
(* looked at one at a time.                                                *)
(***************************************************************************)
EXTENDS SubscriptionPages, SignInPage, BrowserSession

CONSTANTS s1, s2, a, c1, c2

Titles == {"subscriptions", "sign in", "session"}

PartsInit == shown \in Titles /\ Init /\ SignInit /\ SessionInit

Still(part, variables) == shown # part => UNCHANGED variables

PartsNext ==
    /\ \/ On("subscriptions") /\ Next
       \/ On("sign in") /\ SignNext
       \/ On("session") /\ SessionNext
    /\ Still("subscriptions", vars) /\ Still("sign in", signVars) /\ Still("session", sessionVars)

parts == <<shown, vars, signVars, sessionVars>>

\* A request that is answered, of the part that is shown.
Answered(i) ==
    \/ On("subscriptions") /\ (\E r \in runs : r.id = i /\ Answers(r)) /\ UNCHANGED <<signVars, sessionVars>>
    \/ On("sign in") /\ (\E q \in trips : TripStep(q)) /\ UNCHANGED <<vars, sessionVars>>
    \/ On("session") /\ (\E t \in Tabs : RefreshEnds(t)) /\ UNCHANGED <<vars, signVars>>

PartsSpec == PartsInit /\ [][PartsNext]_parts /\ \A i \in Ids : WF_parts(Answered(i))

Waits ==
    \/ shown = "subscriptions" /\ Unsettled
    \/ shown = "sign in" /\ Locked
    \/ shown = "session" /\ \E t \in Tabs : Pending(t)

\* Nothing keeps its user waiting for ever.  No page of subscriptions stays at its
\* skeleton and no group of the action centre disabled (the "finally" of every
\* handler); no button of the login page stays disabled, although a second
\* exchange ends behind the first; and the tab does not stay at its loading screen,
\* nor a call with the refresh that another call began.
NothingWaitsForEver == Waits ~> ~Waits
=============================================================================
