------------------------- MODULE BrowserSessionProofs -------------------------
(***************************************************************************)
(* Proofs about the session of the browser and what its pages show.  For   *)
(* any number of tabs, calls, tokens and revocations: a login leads to one *)
(* live refresh token at most, a revocation ends the sessions of the       *)
(* logins before it, and the browser follows its user as long as its       *)
(* exchanges do not cross.  For any number of exchanges of the login page: *)
(* the dashboard is that of who signed in.  For any number of              *)
(* subscriptions, writes and answers: the detail cache forgets what was    *)
(* invalidated, a write acts on what was shown, and the pages catch up.    *)
(* For any number of forms: a subscription has what its form showed.       *)
(***************************************************************************)
EXTENDS BrowserSession, SignInPage, SubscriptionPages, SubscriptionForm, SequenceTheorems, FiniteSetTheorems, TLAPS

\* The families are those of tokens that were issued, so that a new token is of a
\* family of its own or takes the place of the live token that it comes from.
FamiliesIssued ==
    /\ issued \in 0..MaxTokens
    /\ family \in [Tokens -> Tokens \cup {NoToken}]
    /\ \A k \in 1..issued : family[k] \in 1..issued
    /\ live \subseteq 1..issued
    /\ DOMAIN loginEpoch = Tokens

SessionInv == FamiliesIssued /\ OneLivePerFamily /\ RevocationEndsSessions

\* What a session is worth depends on the table, the epoch and the logins alone.
worth == <<issued, family, live, epoch, loginEpoch, overtaken>>

LEMMA WorthKept == ASSUME SessionInv, UNCHANGED worth PROVE SessionInv'
  BY DEF SessionInv, FamiliesIssued, OneLivePerFamily, RevocationEndsSessions, worth

LEMMA SessionInvInit == SessionInit => SessionInv
  BY BoundsAssumption DEF SessionInit, SessionInv, FamiliesIssued, OneLivePerFamily,
     RevocationEndsSessions, Tokens

\* Fewer live tokens.
LEMMA FewerLive ==
  ASSUME SessionInv, live' \subseteq live, UNCHANGED <<issued, family, epoch, loginEpoch, overtaken>>
  PROVE  SessionInv'
  BY DEF SessionInv, FamiliesIssued, OneLivePerFamily, RevocationEndsSessions

\* A rotation: the new token is of the family of the one that it replaces.
LEMMA RotateStep ==
  ASSUME SessionInv, NEW k, Rotate(k), UNCHANGED <<epoch, loginEpoch, overtaken>>
  PROVE  SessionInv'
  <1> USE BoundsAssumption DEF SessionInv, Rotate, Issue
  <1>1. /\ k \in 1..issued /\ family[k] \in 1..issued /\ family[k] # NoToken
        /\ issued' = issued + 1 /\ issued' \in 1..MaxTokens
        /\ live' = (live \ {k}) \cup {issued + 1}
    BY DEF FamiliesIssued, NoToken, Tokens
  <1>2. family' = [family EXCEPT ![issued + 1] = family[k]]
    BY <1>1
  <1>3. FamiliesIssued'
    BY <1>1, <1>2 DEF FamiliesIssued, Tokens
  <1>4. OneLivePerFamily'
    BY <1>1, <1>2 DEF FamiliesIssued, OneLivePerFamily, Tokens
  <1>5. RevocationEndsSessions'
    BY <1>1, <1>2 DEF FamiliesIssued, RevocationEndsSessions, Tokens
  <1> QED
    BY <1>3, <1>4, <1>5

\* A login: the new token begins a family.
LEMMA LoginStep ==
  ASSUME SessionInv, NEW t \in Tabs, InsertLogin(t)
  PROVE  SessionInv'
  <1> USE BoundsAssumption DEF SessionInv, InsertLogin, Issue
  <1>1. /\ issued' = issued + 1 /\ issued' \in 1..MaxTokens /\ issued \in Nat
        /\ live' = live \cup {issued + 1}
        /\ family' = [family EXCEPT ![issued + 1] = issued + 1]
        /\ UNCHANGED epoch
    BY DEF FamiliesIssued
  <1>2. FamiliesIssued'
    BY <1>1 DEF FamiliesIssued, Tokens
  <1>3. OneLivePerFamily'
    BY <1>1 DEF FamiliesIssued, OneLivePerFamily, Tokens
  <1>4. RevocationEndsSessions'
    <2> SUFFICES ASSUME NEW k \in live', (loginEpoch[family[k]] < epoch)' PROVE (family[k] \in overtaken)'
      BY DEF RevocationEndsSessions
    <2>1. CASE k = issued + 1
      BY <1>1, <2>1 DEF FamiliesIssued, Tokens
    <2>2. CASE k # issued + 1
      <3>1. k \in live /\ family'[k] = family[k] /\ family[k] \in 1..issued
        BY <1>1, <2>2 DEF FamiliesIssued, Tokens
      <3>2. loginEpoch'[family[k]] = loginEpoch[family[k]]
        BY <1>1, <3>1 DEF FamiliesIssued, Tokens
      <3> QED
        BY <1>1, <3>1, <3>2 DEF RevocationEndsSessions
    <2> QED
      BY <2>1, <2>2
  <1> QED
    BY <1>2, <1>3, <1>4

LEMMA NetworkStep == ASSUME SessionInv, NEW t \in Tabs, Network(t) PROVE SessionInv'
  <1>1. ASSUME NEW x \in refresh[t], ServeRefresh(t, x) PROVE SessionInv'
    <2>1. CASE Rotate(x.token)
      BY <1>1, <2>1, RotateStep DEF ServeRefresh
    <2>2. CASE UNCHANGED <<issued, family, live>>
      BY <1>1, <2>2, WorthKept DEF ServeRefresh, worth
    <2> QED
      BY <1>1, <2>1, <2>2 DEF ServeRefresh
  <1>2. ASSUME NEW x \in refresh[t], RefreshArrives(t, x) PROVE SessionInv'
    BY <1>2, WorthKept DEF RefreshArrives, server, worth
  <1>3. ASSUME NEW c \in Calls, CallRefused(t, c) PROVE SessionInv'
    BY <1>3, WorthKept DEF CallRefused, server, worth
  <1>4. CASE InsertLogin(t)
    BY <1>4, LoginStep
  <1>5. CASE LoginArrives(t)
    BY <1>5, WorthKept DEF LoginArrives, server, history, worth
  <1>6. CASE ServeLogout(t)
    BY <1>6, FewerLive DEF ServeLogout, Logout
  <1>7. CASE LogoutArrives(t)
    BY <1>7, WorthKept DEF LogoutArrives, server, worth
  <1> QED
    BY <1>1, <1>2, <1>3, <1>4, <1>5, <1>6, <1>7 DEF Network, RefreshEnds

LEMMA SessionInvStep == ASSUME SessionInv, [SessionNext]_sessionVars PROVE SessionInv'
  <1>1. ASSUME NEW t \in Tabs, Network(t) PROVE SessionInv'
    BY <1>1, NetworkStep
  <1>2. ASSUME NEW t \in Tabs, TabActs(t) PROVE SessionInv'
    BY <1>2, WorthKept DEF TabActs, Call, SendLogin, SendLogout, Navigate, Reopen, server, history, worth
  <1>3. ASSUME NEW t \in Tabs, NEW x \in refresh[t], LoseAnswer(t, x) PROVE SessionInv'
    BY <1>3, WorthKept DEF LoseAnswer, server, worth
  <1>4. CASE RevokeAll
    BY <1>4 DEF RevokeAll, Revoke, SessionInv, FamiliesIssued, OneLivePerFamily, RevocationEndsSessions
  <1>5. CASE Enable
    BY <1>5, WorthKept DEF Enable, history, worth
  <1>6. CASE UNCHANGED sessionVars
    BY <1>6, WorthKept DEF sessionVars, server, history, worth
  <1> QED
    BY <1>1, <1>2, <1>3, <1>4, <1>5, <1>6 DEF SessionNext

LEMMA SessionInvHolds == SessionSpec => []SessionInv
  <1>1. SessionInit => SessionInv
    BY SessionInvInit
  <1>2. SessionInv /\ [SessionNext]_sessionVars => SessionInv'
    BY SessionInvStep
  <1> QED
    BY <1>1, <1>2, PTL DEF SessionSpec

\* Of the tokens a login leads to, at most one is worth a session: whichever tabs and
\* retries present one token, one is answered with a new one (auth_session.go:108); and a
\* password change, a new e-mail address or a disabling ends every session of the account
\* but that of a login which read the user before and inserted its row later
\* (auth_session.go:45,154).
THEOREM TokensHoldAlways == SessionSpec => []TokensHold
  <1>1. SessionInv => TokensHold
    BY DEF SessionInv, TokensHold
  <1> QED
    BY <1>1, SessionInvHolds, PTL

-----------------------------------------------------------------------------
(* The session follows its user. *)

RefreshExchange == [at : {"asked", "granted", "denied", "failed"}, token : Nat, new : Nat]
LoginExchange == [at : {"idle", "checked", "granted", "denied", "waiting"}, token : Nat, seen : Nat, bearer : BOOLEAN]
LogoutExchange == [at : {"idle", "asked", "done", "failed"}, token : Nat]

BrowserTypeOK ==
    /\ cookie \in 0..issued
    /\ access \in [Tabs -> BOOLEAN] /\ joined \in [Tabs -> BOOLEAN]
    /\ refresh \in [Tabs -> SUBSET RefreshExchange]
    /\ login \in [Tabs -> LoginExchange] /\ logout \in [Tabs -> LogoutExchange]
    /\ disturbed \in BOOLEAN /\ active \in BOOLEAN
    /\ epoch \in Nat /\ loginEpoch \in [Tokens -> Nat]

\* A tab has one exchange of performRefresh at a time, and what is granted was issued.
ExchangesHold(t) ==
    /\ joined[t] <=> refresh[t] # {}
    /\ \A x, y \in refresh[t] : x = y
    /\ \A x \in refresh[t] : x.at = "granted" => x.new \in 1..issued
    /\ login[t].at = "granted" => login[t].token \in 1..issued
    /\ login[t].seen <= epoch

\* The server has no session of a disabled account but those of overtaken logins, and none
\* of a family that was logged out.
ServerHolds ==
    /\ \A k \in Tokens : loginEpoch[k] <= epoch
    /\ ~active => /\ \A t \in Tabs : login[t].at = "checked" => login[t].seen < epoch
                  /\ \A k \in live : family[k] \in overtaken
    /\ out \subseteq 1..issued
    /\ LoggedOutStaysOut

\* A cookie h that the browser may keep: it is worth a session unless the account revoked it,
\* no other token of its family is, and the session of the last login is its own.
Kept(h) ==
    /\ h \in live \cup {NoToken} \/ loginEpoch[family[h]] < epoch
    /\ \A k \in live : (\A j \in 1..issued : family[j] <= family[k]) => k = h \/ family[k] \in overtaken
    /\ h # NoToken => \A k \in live : family[k] = family[h] => k = h

\* Before the first login.
Early ==
    /\ issued = 0 /\ cookie = NoToken
    /\ \A t \in Tabs : login[t].at = "idle" /\ logout[t].at = "idle"

\* No answer that changes the cookie is on its way to tab t.
Undecided(t) ==
    /\ \A x \in refresh[t] : x.at \notin {"granted", "denied"}
    /\ login[t].at # "granted" /\ logout[t].at # "done"

\* What tab t waits for: one exchange, which was sent with the cookie, and the cookie that
\* its answer brings.
TabCalm(t) ==
    /\ refresh[t] # {} => login[t].at = "idle" /\ logout[t].at = "idle"
    /\ login[t].at # "idle" => logout[t].at = "idle"
    /\ login[t].at # "waiting"
    /\ \A x \in refresh[t] : /\ x.at = "asked" => x.token = cookie
                             /\ x.at = "granted" => Kept(x.new)
                             /\ x.at = "denied" => Kept(NoToken)
    /\ logout[t].at = "asked" => logout[t].token = cookie
    /\ login[t].at = "granted" => Kept(login[t].token)
    /\ logout[t].at = "done" => Kept(NoToken)

\* An undisturbed browser: the tabs wait for their turn once one has logged in, and the
\* cookie may be kept unless an answer is about to replace it.
BrowserCalm ==
    ~disturbed =>
        /\ \A t, u \in Tabs : t # u /\ Busy(t) /\ Busy(u) => Early
        /\ \A t \in Tabs : TabCalm(t)
        /\ (\A t \in Tabs : Undecided(t)) => Kept(cookie)

ServerInv == BrowserTypeOK /\ (\A t \in Tabs : ExchangesHold(t)) /\ ServerHolds

BrowserInv == ServerInv /\ BrowserCalm

\* What a cookie is worth depends on the table and the epoch alone.
LEMMA KeptUnchanged == ASSUME UNCHANGED worth, NEW h, Kept(h) PROVE Kept(h)'
  BY DEF Kept, worth

LEMMA NothingIssued == ASSUME SessionInv, issued = 0 PROVE Kept(NoToken)
  BY DEF SessionInv, FamiliesIssued, Kept, NoToken

\* A rotation replaces the cookie by the only live token of its family.
LEMMA KeptRotate ==
  ASSUME SessionInv, NEW h, h # NoToken, Kept(h), Rotate(h), UNCHANGED <<epoch, loginEpoch, overtaken>>,
         NEW n, n = issued + 1
  PROVE  Kept(n)'
  <1>1. /\ h \in 1..issued /\ family[h] \in 1..issued /\ family[h] # NoToken /\ issued \in Nat /\ n \in Tokens
        /\ issued' = n /\ live' = (live \ {h}) \cup {n}
    BY BoundsAssumption DEF SessionInv, FamiliesIssued, Rotate, Issue, NoToken, Tokens
  <1>2. family' = [family EXCEPT ![n] = family[h]]
    BY <1>1 DEF Rotate, Issue, NoToken
  <1>3. \A k \in live : k \in 1..issued /\ k # n /\ family'[k] = family[k]
    BY <1>1, <1>2 DEF SessionInv, FamiliesIssued, Tokens
  <1>4. family'[n] = family[h]
    BY <1>1, <1>2 DEF SessionInv, FamiliesIssued
  <1>5. \A j \in 1..issued : j \in 1..n /\ family'[j] = family[j]
    BY <1>1, <1>2 DEF SessionInv, FamiliesIssued, Tokens
  <1>6. ASSUME NEW k \in live', (\A j \in 1..issued : family[j] <= family[k])'
        PROVE  (k = n \/ family[k] \in overtaken)'
    <2>1. CASE k = n
      BY <2>1
    <2>2. CASE k # n
      <3>1. k \in live /\ k # h /\ \A j \in 1..issued : family[j] <= family[k]
        BY <1>1, <1>2, <1>3, <1>5, <1>6, <2>2
      <3> QED
        BY <1>3, <3>1 DEF Kept
    <2> QED
      BY <2>1, <2>2
  <1>7. ASSUME NEW k \in live', (family[k] = family[n])' PROVE k = n
    BY <1>1, <1>2, <1>3, <1>4, <1>7 DEF Kept
  <1>8. n \in live'
    BY <1>1
  <1> QED
    BY <1>6, <1>7, <1>8 DEF Kept

\* The token of a login is of the last family.
LEMMA KeptLogin ==
  ASSUME SessionInv, NEW t \in Tabs, InsertLogin(t), NEW n, n = issued + 1
  PROVE  Kept(n)'
  <1>1. /\ issued \in Nat /\ n \in Tokens /\ issued' = n /\ live' = live \cup {n}
        /\ family' = [family EXCEPT ![n] = n]
    BY BoundsAssumption DEF SessionInv, FamiliesIssued, InsertLogin, Issue, NoToken, Tokens
  <1>2. \A k \in live : k \in 1..issued /\ family'[k] = family[k] /\ family[k] \in 1..issued
    BY <1>1 DEF SessionInv, FamiliesIssued, Tokens
  <1>3. family'[n] = n /\ n \in 1..issued'
    BY <1>1 DEF SessionInv, FamiliesIssued
  <1>4. ASSUME NEW k \in live', (\A j \in 1..issued : family[j] <= family[k])' PROVE k = n
    <2>1. n <= family'[k]
      BY <1>3, <1>4
    <2> QED
      BY <1>1, <1>2, <2>1
  <1>5. ASSUME NEW k \in live', (family[k] = family[n])' PROVE k = n
    BY <1>1, <1>2, <1>3, <1>5
  <1>6. n \in live'
    BY <1>1
  <1> QED
    BY <1>4, <1>5, <1>6 DEF Kept

\* A logout ends the session of the cookie, which was the last one.
LEMMA KeptLogout ==
  ASSUME SessionInv, NEW h, Kept(h), Logout(h), UNCHANGED <<issued, family, epoch, loginEpoch, overtaken>>
  PROVE  Kept(NoToken)'
  BY DEF Kept, Logout, NoToken

\* A cookie that is refused is worth nothing, or the account is disabled.
LEMMA KeptDenied ==
  ASSUME ServerHolds, NEW h, Kept(h), ~(h \in live /\ active)
  PROVE  Kept(NoToken)
  BY DEF Kept, ServerHolds, NoToken

\* A revocation leaves every cookie without a session.
LEMMA KeptRevoked ==
  ASSUME SessionInv, BrowserTypeOK, ServerHolds, RevokeAll, NEW h \in 0..issued
  PROVE  Kept(h)'
  <1>1. h = NoToken \/ family[h] \in Tokens
    BY BoundsAssumption DEF SessionInv, FamiliesIssued, NoToken, Tokens
  <1>2. h = NoToken \/ loginEpoch[family[h]] < epoch + 1
    BY <1>1 DEF BrowserTypeOK, ServerHolds
  <1> QED
    BY <1>2 DEF Kept, RevokeAll, Revoke, NoToken

\* What tab t may have under way after a step of its own: R, J, L and O are its exchange of
\* performRefresh, refreshRequest, its login and its logout.
MayHave(R, J, L, O) ==
    /\ R \subseteq RefreshExchange /\ J \in BOOLEAN /\ L \in LoginExchange /\ O \in LogoutExchange
    /\ J <=> R # {}
    /\ \A x, y \in R : x = y
    /\ \A x \in R : x.at = "granted" => x.new \in 1..issued
    /\ L.at = "granted" => L.token \in 1..issued
    /\ L.seen <= epoch
    /\ L.at = "checked" /\ ~active => L.seen < epoch

Moves(t, R, J, L, O) ==
    /\ refresh' = [refresh EXCEPT ![t] = R] /\ joined' = [joined EXCEPT ![t] = J]
    /\ login' = [login EXCEPT ![t] = L] /\ logout' = [logout EXCEPT ![t] = O]

LEMMA HasMayHave ==
  ASSUME ServerInv, NEW t \in Tabs
  PROVE  \E R, J, L, O : /\ R = refresh[t] /\ J = joined[t] /\ L = login[t] /\ O = logout[t]
                         /\ MayHave(R, J, L, O)
  <1>1. PICK R, J, L, O : R = refresh[t] /\ J = joined[t] /\ L = login[t] /\ O = logout[t]
    OBVIOUS
  <1>2. MayHave(R, J, L, O)
    BY <1>1 DEF ServerInv, BrowserTypeOK, ExchangesHold, ServerHolds, MayHave
  <1> QED
    BY <1>1, <1>2

LEMMA MovedTypes ==
  ASSUME ServerInv, NEW t \in Tabs, NEW R, NEW J, NEW L, NEW O, MayHave(R, J, L, O)', Moves(t, R, J, L, O),
         issued <= issued', issued \in Nat, issued' \in Nat, epoch' = epoch, active' = active
  PROVE  /\ refresh' \in [Tabs -> SUBSET RefreshExchange] /\ joined' \in [Tabs -> BOOLEAN]
         /\ login' \in [Tabs -> LoginExchange] /\ logout' \in [Tabs -> LogoutExchange]
         /\ \A u \in Tabs : ExchangesHold(u)'
         /\ \A u \in Tabs : ~active /\ login'[u].at = "checked" => login'[u].seen < epoch
  <1>1. /\ refresh' \in [Tabs -> SUBSET RefreshExchange] /\ joined' \in [Tabs -> BOOLEAN]
        /\ login' \in [Tabs -> LoginExchange] /\ logout' \in [Tabs -> LogoutExchange]
    BY DEF MayHave, Moves, ServerInv, BrowserTypeOK
  <1>2. /\ refresh'[t] = R /\ joined'[t] = J /\ login'[t] = L
        /\ \A u \in Tabs \ {t} : refresh'[u] = refresh[u] /\ joined'[u] = joined[u] /\ login'[u] = login[u]
    BY DEF Moves, ServerInv, BrowserTypeOK
  <1>3. ExchangesHold(t)' /\ (~active /\ login'[t].at = "checked" => login'[t].seen < epoch)
    BY <1>2 DEF MayHave, ExchangesHold
  <1>4. ASSUME NEW u \in Tabs \ {t}
        PROVE  ExchangesHold(u)' /\ (~active /\ login'[u].at = "checked" => login'[u].seen < epoch)
    BY <1>2, <1>4 DEF ServerInv, ExchangesHold, ServerHolds
  <1> QED
    BY <1>1, <1>3, <1>4

\* A step that leaves the server alone.
LEMMA MovedKeeps ==
  ASSUME ServerInv, NEW t \in Tabs, NEW R, NEW J, NEW L, NEW O, MayHave(R, J, L, O), Moves(t, R, J, L, O),
         UNCHANGED <<worth, active, out>>, access' \in [Tabs -> BOOLEAN], cookie' \in 0..issued, disturbed' \in BOOLEAN,
         issued \in Nat
  PROVE  ServerInv'
  <1>1. MayHave(R, J, L, O)'
    BY DEF MayHave, worth
  <1>2. BrowserTypeOK' /\ \A u \in Tabs : ExchangesHold(u)'
    BY <1>1, MovedTypes DEF ServerInv, BrowserTypeOK, worth
  <1>3. \A u \in Tabs : ~active /\ login'[u].at = "checked" => login'[u].seen < epoch
    BY <1>1, MovedTypes DEF worth
  <1>4. ServerHolds'
    BY <1>3 DEF ServerInv, ServerHolds, LoggedOutStaysOut, worth
  <1> QED
    BY <1>2, <1>4 DEF ServerInv

\* Login reads the user.
LEMMA CheckLoginIs ==
  ASSUME ServerInv, NEW t \in Tabs, NEW b \in BOOLEAN, CheckLogin(t, b)
  PROVE  \E L \in LoginExchange : /\ login' = [login EXCEPT ![t] = L] /\ L.at \in {"checked", "denied"}
                                  /\ L.seen <= epoch /\ (L.at = "checked" => active)
  <1>0. epoch \in Nat
    BY DEF ServerInv, BrowserTypeOK
  <1>1. CASE active /\ login' = [login EXCEPT ![t] = [NoLogin EXCEPT !.at = "checked", !.seen = epoch]]
    <2>1. PICK L : L = [NoLogin EXCEPT !.at = "checked", !.seen = epoch]
      OBVIOUS
    <2>2. L \in LoginExchange
      BY <1>0, <2>1 DEF NoLogin, LoginExchange, NoToken
    <2>3. L.at = "checked" /\ L.seen = epoch
      BY <2>1 DEF NoLogin
    <2>4. login' = [login EXCEPT ![t] = L]
      BY <1>1, <2>1
    <2>5. L.seen <= epoch
      BY <1>0, <2>3
    <2> QED
      BY <1>1, <2>2, <2>3, <2>4, <2>5
  <1>2. CASE login' = [login EXCEPT ![t] = [NoLogin EXCEPT !.at = "denied", !.bearer = b]]
    <2>1. PICK L : L = [NoLogin EXCEPT !.at = "denied", !.bearer = b]
      OBVIOUS
    <2>2. L \in LoginExchange
      BY <1>0, <2>1 DEF NoLogin, LoginExchange, NoToken
    <2>3. L.at = "denied" /\ L.seen = 0
      BY <2>1 DEF NoLogin
    <2>4. login' = [login EXCEPT ![t] = L]
      BY <1>2, <2>1
    <2>5. L.seen <= epoch
      BY <1>0, <2>3
    <2> QED
      BY <2>2, <2>3, <2>4, <2>5
  <1> QED
    BY <1>1, <1>2 DEF CheckLogin

\* A tab that waits for the server with an exchange of its own has a cookie that may be kept.
LEMMA CookieKept ==
  ASSUME SessionInv, BrowserCalm, ~disturbed, NEW t \in Tabs, Busy(t), Undecided(t)
  PROVE  Kept(cookie)
  <1>1. CASE \E u \in Tabs : u # t /\ Busy(u)
    BY <1>1, NothingIssued DEF BrowserCalm, Early
  <1>2. CASE \A u \in Tabs : u # t => ~Busy(u)
    BY <1>2 DEF BrowserCalm, Busy, Undecided
  <1> QED
    BY <1>1, <1>2

\* performRefresh's exchange x of tab t, answered.
LEMMA AnswerIs ==
  ASSUME ServerInv, NEW t \in Tabs, NEW x \in refresh[t], NEW how \in {"granted", "denied", "failed"}, NEW n \in Nat,
         Answer(t, x, how, n)
  PROVE  \E y \in RefreshExchange :
            /\ y.at = how /\ y.new = n
            /\ refresh' = [refresh EXCEPT ![t] = {y}]
  <1>1. PICK y : y = [at |-> how, token |-> NoToken, new |-> n]
    OBVIOUS
  <1>2. y \in RefreshExchange /\ y.at = how /\ y.new = n
    BY <1>1 DEF RefreshExchange, NoToken
  <1>3. (refresh[t] \ {x}) \cup {y} = {y}
    BY DEF ServerInv, ExchangesHold
  <1>4. refresh' = [refresh EXCEPT ![t] = (refresh[t] \ {x}) \cup {y}]
    BY <1>1 DEF Answer
  <1> QED
    BY <1>2, <1>3, <1>4

\* Issuing a token takes the next number.
LEMMA IssueIs ==
  ASSUME SessionInv, NEW root, Issue(root)
  PROVE  /\ issued \in Nat /\ issued' \in Nat /\ issued' = issued + 1 /\ issued <= issued'
         /\ issued + 1 \in Nat /\ issued + 1 \in Tokens /\ issued + 1 \in 1..issued' /\ 1..issued \subseteq 1..issued'
         /\ 0..issued \subseteq 0..issued' /\ issued + 1 \notin 1..issued
  BY BoundsAssumption DEF SessionInv, FamiliesIssued, Issue, Tokens

LEMMA MayHaveLater ==
  ASSUME NEW R, NEW J, NEW L, NEW O, MayHave(R, J, L, O), 1..issued \subseteq 1..issued', UNCHANGED <<epoch, active>>
  PROVE  MayHave(R, J, L, O)'
  BY DEF MayHave

LEMMA RotateKeeps ==
  ASSUME SessionInv, ServerInv, NEW t \in Tabs, NEW x \in refresh[t], ServeRefresh(t, x), Rotate(x.token)
  PROVE  ServerInv'
  <1>1. PICK k : k = x.token
    OBVIOUS
  <1>2. /\ k \in live /\ k \in 1..issued /\ family[k] \in 1..issued /\ active /\ Issue(family[k])
        /\ live' = (live \ {k}) \cup {issued + 1}
    BY <1>1 DEF Rotate, SessionInv, FamiliesIssued
  <1>3. PICK n : n = issued + 1
    OBVIOUS
  <1>4. /\ issued \in Nat /\ issued' \in Nat /\ issued' = n /\ issued <= issued' /\ n \in Nat /\ n \in Tokens
        /\ n \in 1..issued' /\ n \notin 1..issued /\ 1..issued \subseteq 1..issued' /\ 0..issued \subseteq 0..issued'
    BY <1>2, <1>3, IssueIs
  <1>5. family' = [family EXCEPT ![n] = family[k]]
    <2>1. family[k] # NoToken
      BY <1>2, <1>4 DEF NoToken
    <2> QED
      BY <1>2, <1>3, <2>1 DEF Issue
  <1>6. PICK y \in RefreshExchange : y.at \in {"granted", "denied", "failed"} /\ (y.at = "granted" => y.new \in 1..issued')
                                     /\ refresh' = [refresh EXCEPT ![t] = {y}]
    <2>1. NoToken \in Nat
      BY DEF NoToken
    <2> QED
      BY <1>3, <1>4, <2>1, AnswerIs DEF ServeRefresh
  <1>7. PICK R, J, L, O : R = refresh[t] /\ J = joined[t] /\ L = login[t] /\ O = logout[t] /\ MayHave(R, J, L, O)
    BY HasMayHave
  <1>8. UNCHANGED <<epoch, active, cookie, access, joined, login, logout, loginEpoch, overtaken, out, disturbed>>
    BY DEF ServeRefresh
  <1>9. MayHave({y}, J, L, O)'
    BY <1>4, <1>6, <1>7, <1>8 DEF MayHave
  <1>10. Moves(t, {y}, J, L, O)
    BY <1>6, <1>7, <1>8 DEF Moves, ServerInv, BrowserTypeOK
  <1>11. BrowserTypeOK' /\ \A u \in Tabs : ExchangesHold(u)'
    BY <1>4, <1>8, <1>9, <1>10, MovedTypes DEF ServerInv, BrowserTypeOK
  <1>12. \A j \in live' : (j \in live /\ family'[j] = family[j]) \/ (j = n /\ family'[j] = family[k])
    <2>1. family'[n] = family[k]
      BY <1>4, <1>5 DEF SessionInv, FamiliesIssued
    <2>2. \A j \in live : j \in Tokens /\ j # n
      <3>1. live \subseteq 1..issued /\ issued \in 0..MaxTokens /\ MaxTokens \in Nat
        BY BoundsAssumption DEF SessionInv, FamiliesIssued
      <3>2. live \subseteq 1..MaxTokens
        BY <3>1
      <3> QED
        BY <1>4, <3>1, <3>2 DEF Tokens
    <2>3. \A j \in live : family'[j] = family[j]
      BY <1>5, <2>2 DEF SessionInv, FamiliesIssued
    <2> QED
      BY <1>2, <1>3, <2>1, <2>3
  <1>13. ServerHolds'
    BY <1>2, <1>4, <1>8, <1>12 DEF ServerInv, ServerHolds, LoggedOutStaysOut
  <1> QED
    BY <1>11, <1>13 DEF ServerInv

LEMMA ServeRefreshKeeps ==
  ASSUME SessionInv, ServerInv, NEW t \in Tabs, NEW x \in refresh[t], ServeRefresh(t, x)
  PROVE  ServerInv'
  <1>1. CASE Rotate(x.token)
    BY <1>1, RotateKeeps
  <1>2. CASE ~Rotate(x.token)
    <2>1. UNCHANGED worth /\ UNCHANGED <<active, out, access, cookie, disturbed, joined, login, logout>>
      BY <1>2 DEF ServeRefresh, worth
    <2>2. PICK y \in RefreshExchange : y.at \in {"denied", "failed"} /\ refresh' = [refresh EXCEPT ![t] = {y}]
      <3>1. NoToken \in Nat
        BY DEF NoToken
      <3> QED
        BY <1>2, <3>1, AnswerIs DEF ServeRefresh
    <2>3. PICK R, J, L, O : R = refresh[t] /\ J = joined[t] /\ L = login[t] /\ O = logout[t] /\ MayHave(R, J, L, O)
      BY HasMayHave
    <2>4. MayHave({y}, J, L, O)
      BY <2>2, <2>3 DEF MayHave
    <2>5. Moves(t, {y}, J, L, O)
      BY <2>1, <2>2, <2>3 DEF Moves, ServerInv, BrowserTypeOK
    <2>6. issued \in Nat
      BY DEF SessionInv, FamiliesIssued
    <2> QED
      BY <2>1, <2>4, <2>5, <2>6, MovedKeeps DEF ServerInv, BrowserTypeOK
  <1> QED
    BY <1>1, <1>2

LEMMA LoseAnswerKeeps ==
  ASSUME SessionInv, ServerInv, NEW t \in Tabs, NEW x \in refresh[t], LoseAnswer(t, x)
  PROVE  ServerInv'
  <1>1. UNCHANGED worth /\ UNCHANGED <<active, out, access, cookie, joined, login, logout>> /\ disturbed' = TRUE
    BY DEF LoseAnswer, server, worth
  <1>2. PICK y \in RefreshExchange : y.at = "failed" /\ refresh' = [refresh EXCEPT ![t] = {y}]
    <2>1. NoToken \in Nat
      BY DEF NoToken
    <2> QED
      BY <2>1, AnswerIs DEF LoseAnswer
  <1>3. PICK R, J, L, O : R = refresh[t] /\ J = joined[t] /\ L = login[t] /\ O = logout[t] /\ MayHave(R, J, L, O)
    BY HasMayHave
  <1>4. MayHave({y}, J, L, O)
    BY <1>2, <1>3 DEF MayHave
  <1>5. Moves(t, {y}, J, L, O)
    BY <1>1, <1>2, <1>3 DEF Moves, ServerInv, BrowserTypeOK
  <1>6. issued \in Nat
    BY DEF SessionInv, FamiliesIssued
  <1> QED
    BY <1>1, <1>4, <1>5, <1>6, MovedKeeps DEF ServerInv, BrowserTypeOK

\* A request of performRefresh with token k.
LEMMA AskIs ==
  ASSUME NEW k \in Nat
  PROVE  \E y \in RefreshExchange : /\ y = [at |-> "asked", token |-> k, new |-> NoToken]
                                    /\ y.at = "asked" /\ y.token = k
  <1>1. PICK y : y = [at |-> "asked", token |-> k, new |-> NoToken]
    OBVIOUS
  <1>2. y \in RefreshExchange /\ y.at = "asked" /\ y.token = k
    BY <1>1 DEF RefreshExchange, NoToken
  <1> QED
    BY <1>1, <1>2

\* The reload of a tab, which asks with token k.
LEMMA ReloadMoves ==
  ASSUME ServerInv, NEW t \in Tabs, Reload(t), NEW k \in Nat, Restart(t, k)
  PROVE  \E y \in RefreshExchange : /\ y.at = "asked" /\ y.token = k
                                    /\ MayHave({y}, TRUE, NoLogin, NoExchange)
                                    /\ Moves(t, {y}, TRUE, NoLogin, NoExchange)
  <1>1. PICK y \in RefreshExchange : /\ y = [at |-> "asked", token |-> k, new |-> NoToken]
                                     /\ y.at = "asked" /\ y.token = k
    BY AskIs
  <1>2. NoLogin \in LoginExchange /\ NoLogin.at = "idle" /\ NoLogin.seen = 0 /\ NoExchange \in LogoutExchange
    BY DEF NoLogin, LoginExchange, NoExchange, LogoutExchange, NoToken
  <1>3. epoch \in Nat
    BY DEF ServerInv, BrowserTypeOK
  <1>4. MayHave({y}, TRUE, NoLogin, NoExchange)
    BY <1>1, <1>2, <1>3 DEF MayHave
  <1>5. Moves(t, {y}, TRUE, NoLogin, NoExchange)
    BY <1>1 DEF Moves, Reload, Restart
  <1> QED
    BY <1>1, <1>4, <1>5

LEMMA RefreshArrivesKeeps ==
  ASSUME SessionInv, ServerInv, NEW t \in Tabs, NEW x \in refresh[t], RefreshArrives(t, x)
  PROVE  ServerInv'
  <1>1. UNCHANGED worth /\ UNCHANGED <<active, out>> /\ issued \in Nat /\ issued' = issued
    BY DEF RefreshArrives, server, worth, SessionInv, FamiliesIssued
  <1>2. cookie' \in 0..issued /\ cookie' \in Nat
    <2>1. cookie \in 0..issued /\ (x.at = "granted" => x.new \in 1..issued)
      BY DEF ServerInv, BrowserTypeOK, ExchangesHold
    <2>2. cookie' \in {x.new, NoToken, cookie} /\ (x.at # "granted" => cookie' \in {NoToken, cookie})
      BY DEF RefreshArrives, TakeCookie
    <2> QED
      BY <1>1, <2>1, <2>2 DEF RefreshArrives, TakeCookie, NoToken
  <1>3. PICK R, J, L, O : R = refresh[t] /\ J = joined[t] /\ L = login[t] /\ O = logout[t] /\ MayHave(R, J, L, O)
    BY HasMayHave
  <1>4. R \ {x} = {}
    BY <1>3 DEF MayHave
  <1>5. CASE /\ x.at = "granted" /\ access' = [access EXCEPT ![t] = TRUE]
             /\ refresh' = [refresh EXCEPT ![t] = @ \ {x}] /\ joined' = [joined EXCEPT ![t] = FALSE]
             /\ WakeWaiting(t) /\ UNCHANGED <<logout, disturbed>>
    <2>1. PICK K \in LoginExchange : login' = [login EXCEPT ![t] = K] /\ MayHave({}, FALSE, K, O)
      <3>1. CASE login[t].at = "waiting"
        BY <1>3, <1>5, <3>1, CheckLoginIs DEF WakeWaiting, MayHave
      <3>2. CASE login[t].at # "waiting"
        BY <1>3, <1>5, <3>2 DEF WakeWaiting, MayHave, ServerInv, BrowserTypeOK
      <3> QED
        BY <3>1, <3>2
    <2>2. Moves(t, {}, FALSE, K, O)
      BY <1>3, <1>4, <1>5, <2>1 DEF Moves, ServerInv, BrowserTypeOK
    <2> QED
      BY <1>1, <1>2, <1>5, <2>1, <2>2, MovedKeeps DEF ServerInv, BrowserTypeOK
  <1>6. CASE /\ x.at # "granted" /\ Reload(t) /\ Restart(t, cookie')
             /\ disturbed' = (disturbed \/ Overlaps(t))
    <2>1. PICK k : k = cookie'
      OBVIOUS
    <2>2. PICK y : MayHave({y}, TRUE, NoLogin, NoExchange) /\ Moves(t, {y}, TRUE, NoLogin, NoExchange)
      BY <1>2, <1>6, <2>1, ReloadMoves
    <2>3. access' \in [Tabs -> BOOLEAN]
      BY <1>6 DEF Reload, ServerInv, BrowserTypeOK
    <2>4. disturbed' \in BOOLEAN
      BY <1>6
    <2> QED
      BY <1>1, <1>2, <2>2, <2>3, <2>4, MovedKeeps
  <1>7. CASE /\ x.at # "granted" /\ access' = [access EXCEPT ![t] = FALSE]
             /\ refresh' = [refresh EXCEPT ![t] = @ \ {x}] /\ joined' = [joined EXCEPT ![t] = FALSE]
             /\ UNCHANGED <<route, call, login, logout, disturbed>>
    <2>1. MayHave({}, FALSE, L, O)
      BY <1>3 DEF MayHave
    <2>2. Moves(t, {}, FALSE, L, O)
      BY <1>3, <1>4, <1>7 DEF Moves, ServerInv, BrowserTypeOK
    <2> QED
      BY <1>1, <1>2, <1>7, <2>1, <2>2, MovedKeeps DEF ServerInv, BrowserTypeOK
  <1> QED
    BY <1>5, <1>6, <1>7 DEF RefreshArrives

LEMMA InsertLoginKeeps ==
  ASSUME SessionInv, ServerInv, NEW t \in Tabs, InsertLogin(t)
  PROVE  ServerInv'
  <1>1. PICK n : n = issued + 1
    OBVIOUS
  <1>2. /\ issued \in Nat /\ issued' \in Nat /\ issued' = n /\ issued <= issued' /\ n \in Nat /\ n \in Tokens
        /\ n \in 1..issued' /\ n \notin 1..issued /\ 1..issued \subseteq 1..issued' /\ 0..issued \subseteq 0..issued'
    BY <1>1, IssueIs DEF InsertLogin
  <1>3. /\ family' = [family EXCEPT ![n] = n] /\ live' = live \cup {n}
        /\ loginEpoch' = [loginEpoch EXCEPT ![n] = login[t].seen]
        /\ overtaken' = IF login[t].seen < epoch THEN overtaken \cup {n} ELSE overtaken
        /\ UNCHANGED <<epoch, active, cookie, access, refresh, joined, logout, out, disturbed>>
    BY <1>1 DEF InsertLogin, Issue, NoToken
  <1>4. PICK R, J, L, O : R = refresh[t] /\ J = joined[t] /\ L = login[t] /\ O = logout[t] /\ MayHave(R, J, L, O)
    BY HasMayHave
  <1>5. PICK K : K = [NoLogin EXCEPT !.at = "granted", !.token = n]
    OBVIOUS
  <1>6. K \in LoginExchange /\ K.at = "granted" /\ K.token = n /\ K.seen = 0
    BY <1>2, <1>5 DEF NoLogin, LoginExchange, NoToken
  <1>7. epoch \in Nat /\ login[t].seen \in Nat /\ login[t].seen <= epoch
    BY DEF ServerInv, BrowserTypeOK, ExchangesHold, LoginExchange
  <1>8. MayHave(R, J, K, O)'
    BY <1>2, <1>3, <1>4, <1>6, <1>7 DEF MayHave
  <1>9. Moves(t, R, J, K, O)
    BY <1>1, <1>3, <1>4, <1>5 DEF Moves, InsertLogin, ServerInv, BrowserTypeOK
  <1>10. BrowserTypeOK' /\ \A u \in Tabs : ExchangesHold(u)'
    BY <1>2, <1>3, <1>7, <1>8, <1>9, MovedTypes DEF ServerInv, BrowserTypeOK
  <1>11. \A u \in Tabs : ~active /\ login'[u].at = "checked" => login'[u].seen < epoch
    BY <1>2, <1>3, <1>8, <1>9, MovedTypes
  <1>12. \A j \in live : j \in Tokens /\ family'[j] = family[j] /\ family[j] \in 1..issued
    <2>1. \A j \in live : j \in 1..issued /\ j # n /\ family[j] \in 1..issued
      BY <1>2 DEF SessionInv, FamiliesIssued
    <2>2. 1..issued \subseteq Tokens /\ DOMAIN family = Tokens
      BY BoundsAssumption DEF SessionInv, FamiliesIssued, Tokens
    <2> QED
      BY <1>3, <2>1, <2>2
  <1>13. family'[n] = n
    BY <1>2, <1>3 DEF SessionInv, FamiliesIssued
  <1>14. \A k \in Tokens : loginEpoch'[k] <= epoch
    BY <1>2, <1>3, <1>7 DEF ServerInv, BrowserTypeOK, ServerHolds
  <1>15. ~active => \A k \in live' : family'[k] \in overtaken'
    <2>1. ~active => login[t].seen < epoch
      BY DEF ServerInv, ServerHolds, InsertLogin
    <2> QED
      BY <1>3, <1>12, <1>13, <2>1 DEF ServerInv, ServerHolds
  <1>16. out' \subseteq 1..issued' /\ \A k \in live' : family'[k] \notin out'
    BY <1>2, <1>3, <1>12, <1>13 DEF ServerInv, ServerHolds, LoggedOutStaysOut
  <1>17. ServerHolds'
    BY <1>3, <1>11, <1>14, <1>15, <1>16 DEF ServerHolds, LoggedOutStaysOut
  <1> QED
    BY <1>10, <1>17 DEF ServerInv

LEMMA LoginArrivesKeeps ==
  ASSUME SessionInv, ServerInv, NEW t \in Tabs, LoginArrives(t)
  PROVE  ServerInv'
  <1>1. UNCHANGED worth /\ UNCHANGED <<active, out>> /\ issued \in Nat
    BY DEF LoginArrives, server, history, worth, SessionInv, FamiliesIssued
  <1>2. PICK R, J, L, O : R = refresh[t] /\ J = joined[t] /\ L = login[t] /\ O = logout[t] /\ MayHave(R, J, L, O)
    BY HasMayHave
  <1>3. NoLogin \in LoginExchange /\ NoLogin.at = "idle" /\ NoLogin.seen = 0 /\ epoch \in Nat /\ NoToken \in 0..issued
    BY <1>1 DEF NoLogin, LoginExchange, NoToken, ServerInv, BrowserTypeOK
  <1>4. cookie' \in 0..issued
    BY <1>1, <1>3 DEF LoginArrives, ServerInv, BrowserTypeOK, ExchangesHold
  <1>5. CASE /\ login' = [login EXCEPT ![t] = NoLogin] /\ UNCHANGED <<refresh, joined, logout>>
             /\ access' \in {access, [access EXCEPT ![t] = TRUE]} /\ disturbed' \in {disturbed, TRUE}
    <2>1. MayHave(R, J, NoLogin, O)
      BY <1>2, <1>3 DEF MayHave
    <2>2. Moves(t, R, J, NoLogin, O)
      BY <1>2, <1>5 DEF Moves, ServerInv, BrowserTypeOK
    <2> QED
      BY <1>1, <1>4, <1>5, <2>1, <2>2, MovedKeeps DEF ServerInv, BrowserTypeOK
  <1>6. CASE /\ Reload(t) /\ Restart(t, NoToken) /\ disturbed' \in BOOLEAN
    <2>1. NoToken \in Nat
      BY DEF NoToken
    <2>2. PICK y : MayHave({y}, TRUE, NoLogin, NoExchange) /\ Moves(t, {y}, TRUE, NoLogin, NoExchange)
      BY <1>6, <2>1, ReloadMoves
    <2>3. access' \in [Tabs -> BOOLEAN]
      BY <1>6 DEF Reload, ServerInv, BrowserTypeOK
    <2> QED
      BY <1>1, <1>4, <1>6, <2>2, <2>3, MovedKeeps
  <1>7. CASE /\ login[t].at = "denied" /\ login' = [login EXCEPT ![t].at = "waiting"]
             /\ refresh' = [refresh EXCEPT ![t] = IF joined[t] THEN @ ELSE
                              {[at |-> "asked", token |-> NoToken, new |-> NoToken]}]
             /\ joined' = [joined EXCEPT ![t] = TRUE] /\ disturbed' = TRUE /\ UNCHANGED <<access, logout>>
    <2>1. PICK K : K = [L EXCEPT !.at = "waiting"]
      OBVIOUS
    <2>2. K \in LoginExchange /\ K.at = "waiting" /\ K.seen = L.seen
      BY <1>2, <2>1 DEF MayHave, LoginExchange
    <2>3. PICK y \in RefreshExchange : y = [at |-> "asked", token |-> NoToken, new |-> NoToken] /\ y.at = "asked"
      BY AskIs DEF NoToken
    <2>4. PICK S : S = IF J THEN R ELSE {y}
      OBVIOUS
    <2>5. MayHave(S, TRUE, K, O)
      BY <1>2, <2>2, <2>3, <2>4 DEF MayHave
    <2>6. Moves(t, S, TRUE, K, O)
      BY <1>2, <1>7, <2>1, <2>3, <2>4 DEF Moves, ServerInv, BrowserTypeOK
    <2> QED
      BY <1>1, <1>4, <1>7, <2>5, <2>6, MovedKeeps DEF ServerInv, BrowserTypeOK
  <1>8. disturbed \in BOOLEAN
    BY DEF ServerInv, BrowserTypeOK
  <1> QED
    BY <1>5, <1>6, <1>7, <1>8 DEF LoginArrives, history

\* Join asks with the cookie.
LEMMA CallRefusedKeeps ==
  ASSUME SessionInv, ServerInv, NEW t \in Tabs, Join(t), UNCHANGED <<server, cookie, access, login, logout, loginEpoch, overtaken, out>>
  PROVE  ServerInv'
  <1>1. UNCHANGED worth /\ issued \in Nat /\ cookie' \in 0..issued /\ cookie \in Nat
    BY DEF server, worth, SessionInv, FamiliesIssued, ServerInv, BrowserTypeOK
  <1>2. PICK R, J, L, O : R = refresh[t] /\ J = joined[t] /\ L = login[t] /\ O = logout[t] /\ MayHave(R, J, L, O)
    BY HasMayHave
  <1>3. CASE joined[t]
    <2>1. Moves(t, R, J, L, O)
      BY <1>2, <1>3 DEF Moves, Join, ServerInv, BrowserTypeOK
    <2> QED
      BY <1>1, <1>2, <1>3, <2>1, MovedKeeps DEF ServerInv, BrowserTypeOK, Join, server
  <1>4. CASE ~joined[t]
    <2>1. PICK k \in Nat : k = cookie
      BY <1>1
    <2>2. PICK y \in RefreshExchange : y = [at |-> "asked", token |-> k, new |-> NoToken] /\ y.at = "asked"
      BY AskIs
    <2>3. MayHave({y}, TRUE, L, O)
      BY <1>2, <2>2 DEF MayHave
    <2>4. Moves(t, {y}, TRUE, L, O)
      BY <1>2, <1>4, <2>1, <2>2 DEF Moves, Join, ServerInv, BrowserTypeOK
    <2>5. disturbed' \in BOOLEAN
      BY <1>4 DEF Join
    <2> QED
      BY <1>1, <2>3, <2>4, <2>5, MovedKeeps DEF ServerInv, BrowserTypeOK, server
  <1> QED
    BY <1>3, <1>4

LEMMA ReopenKeeps ==
  ASSUME SessionInv, ServerInv, NEW t \in Tabs, Reopen(t)
  PROVE  ServerInv'
  <1>1. UNCHANGED worth /\ UNCHANGED <<active, out>> /\ issued \in Nat /\ cookie' \in 0..issued /\ cookie \in Nat
    BY DEF Reopen, server, worth, SessionInv, FamiliesIssued, ServerInv, BrowserTypeOK
  <1>2. PICK k \in Nat : k = cookie
    BY <1>1
  <1>3. PICK y : MayHave({y}, TRUE, NoLogin, NoExchange) /\ Moves(t, {y}, TRUE, NoLogin, NoExchange)
    BY <1>2, ReloadMoves DEF Reopen
  <1>4. access' \in [Tabs -> BOOLEAN] /\ disturbed' \in BOOLEAN
    BY DEF Reopen, Reload, ServerInv, BrowserTypeOK
  <1> QED
    BY <1>1, <1>3, <1>4, MovedKeeps

LEMMA SendLoginKeeps ==
  ASSUME SessionInv, ServerInv, NEW t \in Tabs, SendLogin(t)
  PROVE  ServerInv'
  <1>1. UNCHANGED worth /\ UNCHANGED <<active, out, cookie, access, refresh, joined, logout>> /\ issued \in Nat
    BY DEF SendLogin, server, worth, SessionInv, FamiliesIssued
  <1>2. PICK R, J, L, O : R = refresh[t] /\ J = joined[t] /\ L = login[t] /\ O = logout[t] /\ MayHave(R, J, L, O)
    BY HasMayHave
  <1>3. PICK b \in BOOLEAN : CheckLogin(t, b)
    BY DEF SendLogin, ServerInv, BrowserTypeOK
  <1>4. PICK K \in LoginExchange : /\ login' = [login EXCEPT ![t] = K] /\ K.at \in {"checked", "denied"}
                                   /\ K.seen <= epoch /\ (K.at = "checked" => active)
    BY <1>3, CheckLoginIs
  <1>5. MayHave(R, J, K, O)
    BY <1>2, <1>4 DEF MayHave
  <1>6. Moves(t, R, J, K, O)
    BY <1>1, <1>2, <1>4 DEF Moves, ServerInv, BrowserTypeOK
  <1>7. disturbed' \in BOOLEAN
    BY DEF SendLogin
  <1> QED
    BY <1>1, <1>5, <1>6, <1>7, MovedKeeps DEF ServerInv, BrowserTypeOK

\* A step that changes nothing of a tab but its logout.
LEMMA LogoutMoves ==
  ASSUME ServerInv, NEW t \in Tabs, NEW O \in LogoutExchange, logout' = [logout EXCEPT ![t] = O],
         UNCHANGED <<refresh, joined, login>>
  PROVE  \E R, J, L : MayHave(R, J, L, O) /\ Moves(t, R, J, L, O)
  <1>1. PICK R, J, L, P : R = refresh[t] /\ J = joined[t] /\ L = login[t] /\ P = logout[t] /\ MayHave(R, J, L, P)
    BY HasMayHave
  <1>2. MayHave(R, J, L, O)
    BY <1>1 DEF MayHave
  <1>3. Moves(t, R, J, L, O)
    BY <1>1 DEF Moves, ServerInv, BrowserTypeOK
  <1> QED
    BY <1>2, <1>3

LEMMA LogoutIs ==
  ASSUME NEW at \in {"idle", "asked", "done", "failed"}
  PROVE  [NoExchange EXCEPT !.at = at] \in LogoutExchange
  BY DEF NoExchange, LogoutExchange, NoToken

LEMMA SendLogoutKeeps ==
  ASSUME SessionInv, ServerInv, NEW t \in Tabs, SendLogout(t)
  PROVE  ServerInv'
  <1>1. UNCHANGED worth /\ UNCHANGED <<active, out, cookie, access, refresh, joined, login>> /\ issued \in Nat
    BY DEF SendLogout, server, worth, SessionInv, FamiliesIssued
  <1>2. [at |-> "asked", token |-> cookie] \in LogoutExchange
    BY <1>1 DEF LogoutExchange, ServerInv, BrowserTypeOK
  <1>3. PICK O \in LogoutExchange : logout' = [logout EXCEPT ![t] = O]
    BY <1>2 DEF SendLogout
  <1>4. disturbed' \in BOOLEAN
    BY DEF SendLogout
  <1> QED
    BY <1>1, <1>3, <1>4, LogoutMoves, MovedKeeps DEF ServerInv, BrowserTypeOK

LEMMA LogoutArrivesKeeps ==
  ASSUME SessionInv, ServerInv, NEW t \in Tabs, LogoutArrives(t)
  PROVE  ServerInv'
  <1>1. UNCHANGED worth /\ UNCHANGED <<active, out, refresh, joined, login>> /\ issued \in Nat
    BY DEF LogoutArrives, server, worth, SessionInv, FamiliesIssued
  <1>2. NoExchange \in LogoutExchange
    BY DEF NoExchange, LogoutExchange, NoToken
  <1>3. PICK O \in LogoutExchange : logout' = [logout EXCEPT ![t] = O]
    BY <1>2 DEF LogoutArrives
  <1>4. disturbed' \in BOOLEAN /\ access' \in [Tabs -> BOOLEAN]
    BY DEF LogoutArrives, ServerInv, BrowserTypeOK
  <1>5. cookie' \in 0..issued
    BY <1>1 DEF LogoutArrives, ServerInv, BrowserTypeOK, NoToken
  <1> QED
    BY <1>1, <1>3, <1>4, <1>5, LogoutMoves, MovedKeeps

\* A logout in an undisturbed browser ends the only session of its family.
LEMMA ServeLogoutKeeps ==
  ASSUME SessionInv, ServerInv, BrowserCalm, NEW t \in Tabs, ServeLogout(t)
  PROVE  ServerInv'
  <1>1. UNCHANGED <<issued, family, epoch, active, cookie, access, refresh, joined, login, loginEpoch, overtaken, disturbed>>
        /\ issued \in Nat
    BY DEF ServeLogout, SessionInv, FamiliesIssued
  <1>2. PICK O \in LogoutExchange : logout' = [logout EXCEPT ![t] = O]
    BY LogoutIs DEF ServeLogout
  <1>3. PICK R, J, L : MayHave(R, J, L, O) /\ Moves(t, R, J, L, O)
    BY <1>1, <1>2, LogoutMoves
  <1>4. MayHave(R, J, L, O)'
    BY <1>1, <1>3 DEF MayHave
  <1>5. BrowserTypeOK' /\ \A u \in Tabs : ExchangesHold(u)'
    BY <1>1, <1>3, <1>4, MovedTypes DEF ServerInv, BrowserTypeOK
  <1>6. live' \subseteq live
    BY DEF ServeLogout, Logout
  <1>7. out' \subseteq 1..issued /\ \A k \in live' : family[k] \notin out'
    <2>1. CASE out' = out
      BY <1>6, <2>1 DEF ServerInv, ServerHolds, LoggedOutStaysOut
    <2>2. CASE out' # out
      <3>1. /\ ~disturbed /\ logout[t].at = "asked" /\ logout[t].token # NoToken
            /\ out' = out \cup {family[logout[t].token]} /\ live' = live \ {logout[t].token}
        BY <2>2 DEF ServeLogout, Logout
      <3>2. logout[t].token = cookie /\ Busy(t) /\ Undecided(t)
        BY <3>1 DEF BrowserCalm, TabCalm, Busy, Undecided
      <3>3. Kept(cookie)
        BY <3>1, <3>2, CookieKept
      <3>4. cookie \in 1..issued
        BY <1>1, <3>1, <3>2 DEF ServerInv, BrowserTypeOK, NoToken
      <3>5. family[cookie] \in 1..issued
        BY <3>4 DEF SessionInv, FamiliesIssued
      <3>6. \A k \in live' : family[k] # family[cookie]
        BY <3>1, <3>2, <3>3 DEF Kept
      <3> QED
        BY <1>6, <3>1, <3>2, <3>5, <3>6 DEF ServerInv, ServerHolds, LoggedOutStaysOut
    <2> QED
      BY <2>1, <2>2
  <1>8. ServerHolds'
    BY <1>1, <1>6, <1>7 DEF ServerInv, ServerHolds, LoggedOutStaysOut
  <1> QED
    BY <1>5, <1>8 DEF ServerInv

LEMMA RevokeAllKeeps ==
  ASSUME SessionInv, ServerInv, RevokeAll
  PROVE  ServerInv'
  <1>1. epoch \in Nat /\ epoch' = epoch + 1 /\ live' = {} /\ active' \in BOOLEAN
    BY DEF RevokeAll, Revoke, ServerInv, BrowserTypeOK
  <1>2. UNCHANGED <<issued, family, cookie, access, refresh, joined, login, logout, loginEpoch, overtaken, out, disturbed>>
    BY DEF RevokeAll
  <1>3. BrowserTypeOK'
    BY <1>1, <1>2 DEF ServerInv, BrowserTypeOK
  <1>4. \A u \in Tabs : login[u].seen \in Nat /\ login[u].seen <= epoch
    BY DEF ServerInv, BrowserTypeOK, ExchangesHold, LoginExchange
  <1>5. \A u \in Tabs : login[u].seen <= epoch + 1 /\ login[u].seen < epoch + 1
    BY <1>1, <1>4
  <1>6. \A u \in Tabs : ExchangesHold(u)'
    BY <1>1, <1>2, <1>5 DEF ServerInv, ExchangesHold
  <1>7. \A k \in Tokens : loginEpoch[k] <= epoch + 1
    BY <1>1 DEF ServerInv, BrowserTypeOK, ServerHolds
  <1>8. ServerHolds'
    BY <1>1, <1>2, <1>5, <1>7 DEF ServerInv, ServerHolds, LoggedOutStaysOut
  <1> QED
    BY <1>3, <1>6, <1>8 DEF ServerInv

LEMMA ServerStep ==
  ASSUME SessionInv, ServerInv, BrowserCalm, [SessionNext]_sessionVars
  PROVE  ServerInv'
  <1>1. ASSUME NEW t \in Tabs, Network(t) PROVE ServerInv'
    <2>1. ASSUME NEW c \in Calls, CallRefused(t, c) PROVE ServerInv'
      BY <2>1, CallRefusedKeeps DEF CallRefused
    <2> QED
      BY <1>1, <2>1, ServeRefreshKeeps, RefreshArrivesKeeps, InsertLoginKeeps, LoginArrivesKeeps, ServeLogoutKeeps,
         LogoutArrivesKeeps DEF Network, RefreshEnds
  <1>2. ASSUME NEW t \in Tabs, TabActs(t) PROVE ServerInv'
    <2>1. ASSUME Navigate(t) \/ \E c \in Calls : Call(t, c)
          PROVE  ServerInv'
      <3>1. UNCHANGED <<server, cookie, access, refresh, joined, login, logout, history>>
        BY <2>1 DEF Navigate, Call
      <3> QED
        BY <3>1 DEF server, history, ServerInv, BrowserTypeOK, ExchangesHold, ServerHolds, LoggedOutStaysOut
    <2> QED
      BY <1>2, <2>1, SendLoginKeeps, SendLogoutKeeps, ReopenKeeps DEF TabActs
  <1>3. ASSUME NEW t \in Tabs, NEW x \in refresh[t], LoseAnswer(t, x) PROVE ServerInv'
    BY <1>3, LoseAnswerKeeps
  <1>4. CASE RevokeAll
    BY <1>4, RevokeAllKeeps
  <1>5. CASE Enable
    BY <1>5 DEF Enable, history, ServerInv, BrowserTypeOK, ExchangesHold, ServerHolds, LoggedOutStaysOut
  <1>6. CASE UNCHANGED sessionVars
    BY <1>6 DEF sessionVars, server, history, ServerInv, BrowserTypeOK, ExchangesHold, ServerHolds, LoggedOutStaysOut
  <1> QED
    BY <1>1, <1>2, <1>3, <1>4, <1>5, <1>6 DEF SessionNext

\* Tab t is the only one with an exchange.
LEMMA AloneCalm ==
  ASSUME NEW t \in Tabs, \A u \in Tabs \ {t} : ~Busy(u)', TabCalm(t)', Undecided(t)' => Kept(cookie)'
  PROVE  BrowserCalm'
  BY DEF BrowserCalm, Busy, TabCalm, Undecided

\* No tab has logged in yet.
LEMMA EarlyCalm ==
  ASSUME SessionInv', Early',
         \A u \in Tabs : \A x \in refresh'[u] : x.at # "granted" /\ (x.at = "asked" => x.token = NoToken)
  PROVE  BrowserCalm'
  <1>1. Kept(NoToken)'
    BY DEF SessionInv, FamiliesIssued, Kept, Early, NoToken
  <1>2. \A u \in Tabs : TabCalm(u)'
    BY <1>1 DEF Early, TabCalm
  <1> QED
    BY <1>1, <1>2 DEF BrowserCalm, Early

LEMMA EarlyExchanges ==
  ASSUME ServerInv, BrowserCalm, ~disturbed, Early, NEW u \in Tabs, NEW x \in refresh[u]
  PROVE  x.at # "granted" /\ (x.at = "asked" => x.token = NoToken)
  <1>1. x.at # "granted"
    BY DEF ServerInv, ExchangesHold, Early
  <1> QED
    BY <1>1 DEF BrowserCalm, TabCalm, Early

\* The exchanges stay, and what may be kept too.
LEMMA StaysCalm ==
  ASSUME ServerInv, BrowserCalm, \A h \in 0..issued : Kept(h) => Kept(h)', issued \in Nat,
         UNCHANGED <<issued, cookie, refresh, login, logout, disturbed>>
  PROVE  BrowserCalm'
  <1>1. NoToken \in 0..issued /\ cookie \in 0..issued
    BY DEF NoToken, ServerInv, BrowserTypeOK
  <1>2. ~disturbed => (\A t, u \in Tabs : t # u /\ Busy(t) /\ Busy(u) => Early)'
    BY DEF BrowserCalm, Busy, Early
  <1>3. ASSUME ~disturbed, NEW t \in Tabs PROVE TabCalm(t)'
    <2>1. TabCalm(t)
      BY <1>3 DEF BrowserCalm
    <2>2. \A x \in refresh[t] : x.at = "granted" => x.new \in 0..issued
      BY DEF ServerInv, ExchangesHold
    <2>3. login[t].at = "granted" => login[t].token \in 0..issued
      BY DEF ServerInv, ExchangesHold
    <2> QED
      BY <1>1, <2>1, <2>2, <2>3 DEF TabCalm
  <1>4. ASSUME ~disturbed, (\A t \in Tabs : Undecided(t))' PROVE Kept(cookie)'
    <2>1. Kept(cookie)
      BY <1>4 DEF BrowserCalm, Undecided
    <2> QED
      BY <1>1, <2>1
  <1> QED
    BY <1>2, <1>3, <1>4 DEF BrowserCalm

LEMMA ServeRefreshCalm ==
  ASSUME SessionInv, SessionInv', ServerInv, BrowserCalm, NEW t \in Tabs, NEW x \in refresh[t], ServeRefresh(t, x), ~disturbed'
  PROVE  BrowserCalm'
  <1>1. /\ x.at = "asked" /\ ~disturbed
        /\ UNCHANGED <<epoch, active, cookie, login, logout, loginEpoch, overtaken>>
    BY DEF ServeRefresh
  <1>2. x.token = cookie /\ login[t].at = "idle" /\ logout[t].at = "idle" /\ refresh[t] = {x}
    BY <1>1 DEF BrowserCalm, TabCalm, ServerInv, ExchangesHold
  <1>3. Busy(t) /\ Undecided(t)
    BY <1>1, <1>2 DEF Busy, Undecided
  <1>4. Kept(cookie)
    BY <1>1, <1>3, CookieKept
  <1>5. PICK c : c = cookie /\ Kept(c)
    BY <1>4
  <1>6. issued \in Nat
    BY DEF SessionInv, FamiliesIssued
  <1>7. PICK y \in RefreshExchange :
            /\ refresh' = [refresh EXCEPT ![t] = {y}]
            /\ \/ y.at = "granted" /\ y.new = issued + 1 /\ Rotate(c)
               \/ y.at = "denied" /\ ~(c \in live /\ active) /\ UNCHANGED <<issued, family, live>>
               \/ y.at = "failed" /\ UNCHANGED <<issued, family, live>>
    <2>1. NoToken \in Nat /\ issued + 1 \in Nat
      BY <1>6 DEF NoToken
    <2> QED
      BY <1>2, <1>5, <2>1, AnswerIs DEF ServeRefresh
  <1>8. refresh'[t] = {y} /\ \A u \in Tabs \ {t} : refresh'[u] = refresh[u]
    BY <1>7 DEF ServerInv, BrowserTypeOK
  <1>9. CASE Early
    <2>1. c = NoToken /\ live = {}
      BY <1>5, <1>9 DEF Early, SessionInv, FamiliesIssued
    <2>2. y.at \in {"denied", "failed"} /\ issued' = issued
      BY <1>7, <2>1 DEF Rotate
    <2>3. Early'
      BY <1>1, <1>9, <2>2 DEF Early
    <2>4. \A u \in Tabs : \A z \in refresh'[u] : z.at # "granted" /\ (z.at = "asked" => z.token = NoToken)
      BY <1>1, <1>8, <1>9, <2>2, EarlyExchanges
    <2> QED
      BY <2>3, <2>4, EarlyCalm
  <1>10. CASE ~Early
    <2>1. \A u \in Tabs \ {t} : ~Busy(u)
      BY <1>1, <1>3, <1>10 DEF BrowserCalm
    <2>2. \A u \in Tabs \ {t} : ~Busy(u)'
      BY <1>1, <1>8, <2>1 DEF Busy
    <2>3. CASE y.at = "granted"
      <3>1. PICK n : n = issued + 1
        OBVIOUS
      <3>2. c # NoToken
        BY <1>6, <1>7, <2>3 DEF Rotate, NoToken, SessionInv, FamiliesIssued
      <3>3. Kept(n)'
        BY <1>1, <1>5, <1>7, <2>3, <3>1, <3>2, KeptRotate
      <3>4. TabCalm(t)' /\ ~Undecided(t)'
        BY <1>1, <1>2, <1>7, <1>8, <2>3, <3>1, <3>3 DEF TabCalm, Undecided
      <3> QED
        BY <2>2, <3>4, AloneCalm
    <2>4. CASE y.at = "denied"
      <3>1. Kept(NoToken)
        BY <1>5, <1>7, <2>4, KeptDenied DEF ServerInv
      <3>2. Kept(NoToken)'
        BY <1>1, <1>7, <2>4, <3>1, KeptUnchanged DEF worth
      <3>3. TabCalm(t)' /\ ~Undecided(t)'
        BY <1>1, <1>2, <1>8, <2>4, <3>2 DEF TabCalm, Undecided
      <3> QED
        BY <2>2, <3>3, AloneCalm
    <2>5. CASE y.at = "failed"
      <3>1. Kept(c)'
        BY <1>1, <1>5, <1>7, <2>5, KeptUnchanged DEF worth
      <3>2. TabCalm(t)' /\ Kept(cookie)'
        BY <1>1, <1>2, <1>5, <1>8, <2>5, <3>1 DEF TabCalm
      <3> QED
        BY <2>2, <3>2, AloneCalm
    <2> QED
      BY <1>7, <2>3, <2>4, <2>5
  <1> QED
    BY <1>9, <1>10

\* Tab t has at most a request of performRefresh under way, and no other tab has anything.
LEMMA SettledCalm ==
  ASSUME NEW t \in Tabs, NEW c, Kept(c)', cookie' = c, \A u \in Tabs \ {t} : ~Busy(u)',
         login'[t].at = "idle", logout'[t].at = "idle", \A x \in refresh'[t] : x.at = "asked" /\ x.token = c
  PROVE  BrowserCalm'
  <1>1. TabCalm(t)' /\ Kept(cookie)'
    BY DEF TabCalm
  <1> QED
    BY <1>1, AloneCalm

LEMMA RefreshArrivesCalm ==
  ASSUME SessionInv, SessionInv', ServerInv, BrowserCalm, NEW t \in Tabs, NEW x \in refresh[t], RefreshArrives(t, x),
         ~disturbed'
  PROVE  BrowserCalm'
  <1>1. UNCHANGED worth /\ ~disturbed
    BY DEF RefreshArrives, server, worth, ServerInv, BrowserTypeOK
  <1>2. login[t].at = "idle" /\ logout[t].at = "idle" /\ refresh[t] = {x} /\ x.at \in {"granted", "denied", "failed"}
    BY <1>1 DEF BrowserCalm, TabCalm, ServerInv, BrowserTypeOK, ExchangesHold, RefreshArrives, RefreshExchange
  <1>3. Busy(t)
    BY <1>2 DEF Busy
  <1>4. Kept(cookie')
    <2>1. CASE x.at = "granted"
      BY <1>1, <2>1 DEF BrowserCalm, TabCalm, RefreshArrives, TakeCookie
    <2>2. CASE x.at = "denied"
      BY <1>1, <2>2 DEF BrowserCalm, TabCalm, RefreshArrives, TakeCookie
    <2>3. CASE x.at = "failed"
      <3>1. Undecided(t)
        BY <1>2, <2>3 DEF Undecided
      <3> QED
        BY <1>1, <1>3, <2>3, <3>1, CookieKept DEF RefreshArrives, TakeCookie
    <2> QED
      BY <1>2, <2>1, <2>2, <2>3
  <1>5. PICK c : c = cookie' /\ Kept(c)
    BY <1>4
  <1>6. Kept(c)'
    BY <1>1, <1>5, KeptUnchanged
  <1>7. /\ \A u \in Tabs \ {t} : refresh'[u] = refresh[u] /\ login'[u] = login[u] /\ logout'[u] = logout[u]
        /\ login'[t].at = "idle" /\ logout'[t].at = "idle"
        /\ \A z \in refresh'[t] : z.at = "asked" /\ z.token = c
    <2>1. CASE x.at = "granted"
      <3>1. /\ refresh' = [refresh EXCEPT ![t] = @ \ {x}] /\ UNCHANGED <<login, logout>>
        BY <1>2, <2>1 DEF RefreshArrives, WakeWaiting
      <3> QED
        BY <1>2, <3>1 DEF ServerInv, BrowserTypeOK
    <2>2. CASE x.at # "granted" /\ Reload(t) /\ Restart(t, cookie')
      BY <1>5, <2>2 DEF Reload, Restart, NoLogin, NoExchange, ServerInv, BrowserTypeOK
    <2>3. CASE /\ refresh' = [refresh EXCEPT ![t] = @ \ {x}] /\ UNCHANGED <<login, logout>>
      BY <1>2, <2>3 DEF ServerInv, BrowserTypeOK
    <2> QED
      BY <2>1, <2>2, <2>3 DEF RefreshArrives
  <1>8. CASE Early
    <2>1. Early' /\ c = NoToken
      <3>1. c = NoToken
        BY <1>5, <1>8, EarlyExchanges, <1>1 DEF Early, RefreshArrives, TakeCookie
      <3> QED
        BY <1>1, <1>5, <1>7, <1>8, <3>1 DEF Early, worth
    <2> QED
      BY <1>1, <1>7, <1>8, <2>1, EarlyCalm, EarlyExchanges
  <1>9. CASE ~Early
    <2>1. \A u \in Tabs \ {t} : ~Busy(u)'
      BY <1>1, <1>3, <1>7, <1>9 DEF BrowserCalm, Busy
    <2> QED
      BY <1>5, <1>6, <1>7, <2>1, SettledCalm
  <1> QED
    BY <1>8, <1>9

\* A tab begins a request of performRefresh: no other exchange is under way.
LEMMA AskCalm ==
  ASSUME SessionInv, ServerInv, BrowserCalm, NEW t \in Tabs, ~disturbed, UNCHANGED <<worth, cookie>>,
         \A u \in Tabs : ~Busy(u), \A u \in Tabs \ {t} : UNCHANGED <<refresh[u], login[u], logout[u]>>,
         login'[t].at = "idle", logout'[t].at = "idle", \A x \in refresh'[t] : x.at = "asked" /\ x.token = cookie
  PROVE  BrowserCalm'
  <1>1. Kept(cookie)
    BY DEF BrowserCalm, Busy, Undecided
  <1>2. PICK c : c = cookie /\ Kept(c)
    BY <1>1
  <1>3. Kept(c)'
    BY <1>2, KeptUnchanged
  <1>4. \A u \in Tabs \ {t} : ~Busy(u)'
    BY DEF Busy
  <1> QED
    BY <1>2, <1>3, <1>4, SettledCalm

LEMMA CallRefusedCalm ==
  ASSUME SessionInv, ServerInv, BrowserCalm, NEW t \in Tabs, Join(t), ~disturbed', UNCHANGED <<worth, cookie, login, logout>>
  PROVE  BrowserCalm'
  <1>1. CASE joined[t]
    <2>1. \A h \in 0..issued : Kept(h) => Kept(h)'
      BY KeptUnchanged
    <2>2. issued' = issued /\ issued \in Nat
      BY DEF worth, SessionInv, FamiliesIssued
    <2> QED
      BY <1>1, <2>1, <2>2, StaysCalm DEF Join
  <1>2. CASE ~joined[t]
    <2>1. ~disturbed /\ ~Overlaps(t) /\ refresh[t] = {}
      BY <1>2 DEF Join, ServerInv, ExchangesHold
    <2>2. \A u \in Tabs : ~Busy(u)
      BY <2>1 DEF Overlaps, Busy
    <2>3. \A u \in Tabs \ {t} : UNCHANGED <<refresh[u], login[u], logout[u]>>
      BY <1>2 DEF Join, ServerInv, BrowserTypeOK
    <2>4. login'[t].at = "idle" /\ logout'[t].at = "idle"
      BY <2>1 DEF Overlaps
    <2>5. \A x \in refresh'[t] : x.at = "asked" /\ x.token = cookie
      BY <1>2 DEF Join, ServerInv, BrowserTypeOK
    <2> QED
      BY <2>1, <2>2, <2>3, <2>4, <2>5, AskCalm
  <1> QED
    BY <1>1, <1>2

LEMMA ReopenCalm ==
  ASSUME SessionInv, ServerInv, BrowserCalm, NEW t \in Tabs, Reopen(t), ~disturbed'
  PROVE  BrowserCalm'
  <1>1. ~disturbed /\ UNCHANGED <<worth, cookie>> /\ \A u \in Tabs : ~Busy(u)
    BY DEF Reopen, server, worth, Overlaps, ServerInv, BrowserTypeOK
  <1>2. \A u \in Tabs \ {t} : UNCHANGED <<refresh[u], login[u], logout[u]>>
    BY DEF Reopen, Reload, Restart, ServerInv, BrowserTypeOK
  <1>3. /\ login'[t].at = "idle" /\ logout'[t].at = "idle"
        /\ \A x \in refresh'[t] : x.at = "asked" /\ x.token = cookie
    BY DEF Reopen, Reload, Restart, NoLogin, NoExchange, ServerInv, BrowserTypeOK
  <1> QED
    BY <1>1, <1>2, <1>3, AskCalm

\* A login or a logout of tab t leaves no other tab an exchange.
LEMMA SignsAlone ==
  ASSUME BrowserCalm, ServerInv, ~disturbed, NEW t \in Tabs, login[t].at # "idle" \/ logout[t].at # "idle"
  PROVE  (\A u \in Tabs \ {t} : ~Busy(u)) /\ refresh[t] = {} /\ Busy(t)
  BY DEF BrowserCalm, TabCalm, Busy, Early

LEMMA LoginArrivesCalm ==
  ASSUME SessionInv, ServerInv, BrowserCalm, NEW t \in Tabs, LoginArrives(t), ~disturbed'
  PROVE  BrowserCalm'
  <1>1. UNCHANGED worth /\ ~disturbed /\ login[t].at \in {"granted", "denied"}
    BY DEF LoginArrives, server, history, worth, ServerInv, BrowserTypeOK
  <1>2. (\A u \in Tabs \ {t} : ~Busy(u)) /\ refresh[t] = {} /\ Busy(t)
    BY <1>1, SignsAlone
  <1>3. login[t].at # "idle" /\ logout[t].at = "idle"
    BY <1>1 DEF BrowserCalm, TabCalm
  <1>4. CASE /\ login[t].at = "granted" /\ cookie' = login[t].token /\ login' = [login EXCEPT ![t] = NoLogin]
             /\ UNCHANGED <<refresh, logout>>
    <2>1. PICK c : c = login[t].token /\ Kept(c)
      BY <1>1, <1>4 DEF BrowserCalm, TabCalm
    <2>2. Kept(c)'
      BY <1>1, <2>1, KeptUnchanged
    <2>3. login'[t].at = "idle" /\ (\A u \in Tabs \ {t} : ~Busy(u)')
      BY <1>2, <1>4 DEF NoLogin, Busy, ServerInv, BrowserTypeOK
    <2> QED
      BY <1>2, <1>3, <1>4, <2>1, <2>2, <2>3, SettledCalm
  <1>5. CASE login[t].at = "denied" /\ cookie = NoToken /\ cookie' = NoToken /\ Reload(t) /\ Restart(t, NoToken)
    <2>1. Undecided(t)
      BY <1>2, <1>3, <1>5 DEF Undecided
    <2>2. PICK c : c = cookie /\ Kept(c)
      BY <1>1, <1>2, <2>1, CookieKept
    <2>3. Kept(c)'
      BY <1>1, <2>2, KeptUnchanged
    <2>4. /\ login'[t].at = "idle" /\ logout'[t].at = "idle"
          /\ \A x \in refresh'[t] : x.at = "asked" /\ x.token = c
      BY <1>5, <2>2 DEF Reload, Restart, NoLogin, NoExchange, ServerInv, BrowserTypeOK
    <2>5. \A u \in Tabs \ {t} : ~Busy(u)'
      BY <1>2, <1>5 DEF Busy, Reload, Restart, ServerInv, BrowserTypeOK
    <2> QED
      BY <1>5, <2>2, <2>3, <2>4, <2>5, SettledCalm
  <1> QED
    BY <1>4, <1>5 DEF LoginArrives

LEMMA InsertLoginCalm ==
  ASSUME SessionInv, ServerInv, BrowserCalm, NEW t \in Tabs, InsertLogin(t), ~disturbed'
  PROVE  BrowserCalm'
  <1>1. ~disturbed /\ login[t].at = "checked" /\ UNCHANGED <<cookie, refresh, logout>>
    BY DEF InsertLogin
  <1>2. (\A u \in Tabs \ {t} : ~Busy(u)) /\ refresh[t] = {} /\ logout[t].at = "idle"
    BY <1>1, SignsAlone DEF BrowserCalm, TabCalm
  <1>3. PICK n : n = issued + 1
    OBVIOUS
  <1>4. Kept(n)'
    BY <1>3, KeptLogin
  <1>5. /\ login'[t].at = "granted" /\ login'[t].token = n
        /\ \A u \in Tabs \ {t} : login'[u] = login[u]
    BY <1>3 DEF InsertLogin, NoLogin, ServerInv, BrowserTypeOK
  <1>6. \A u \in Tabs \ {t} : ~Busy(u)'
    BY <1>1, <1>2, <1>5 DEF Busy
  <1>7. TabCalm(t)' /\ ~Undecided(t)'
    BY <1>1, <1>2, <1>4, <1>5 DEF TabCalm, Undecided
  <1> QED
    BY <1>6, <1>7, AloneCalm

\* The login form and the logout are sent when nothing is under way.
LEMMA SendLoginCalm ==
  ASSUME SessionInv, ServerInv, BrowserCalm, NEW t \in Tabs, SendLogin(t), ~disturbed'
  PROVE  BrowserCalm'
  <1>1. UNCHANGED worth /\ UNCHANGED <<cookie, refresh, logout>> /\ ~disturbed /\ \A u \in Tabs : ~Busy(u)
    BY DEF SendLogin, server, worth, Quiet, ServerInv, BrowserTypeOK
  <1>2. PICK c : c = cookie /\ Kept(c)
    BY <1>1 DEF BrowserCalm, Busy, Undecided
  <1>3. Kept(c)'
    BY <1>1, <1>2, KeptUnchanged
  <1>4. PICK b \in BOOLEAN : CheckLogin(t, b)
    BY DEF SendLogin, ServerInv, BrowserTypeOK
  <1>5. PICK L \in LoginExchange : login' = [login EXCEPT ![t] = L] /\ L.at \in {"checked", "denied"}
    BY <1>4, CheckLoginIs
  <1>6. login'[t].at \in {"checked", "denied"} /\ \A u \in Tabs \ {t} : ~Busy(u)'
    BY <1>1, <1>5 DEF Busy, ServerInv, BrowserTypeOK
  <1>7. TabCalm(t)' /\ Kept(cookie)'
    BY <1>1, <1>2, <1>3, <1>6 DEF TabCalm, Busy
  <1> QED
    BY <1>6, <1>7, AloneCalm

LEMMA SendLogoutCalm ==
  ASSUME SessionInv, ServerInv, BrowserCalm, NEW t \in Tabs, SendLogout(t), ~disturbed'
  PROVE  BrowserCalm'
  <1>1. UNCHANGED worth /\ UNCHANGED <<cookie, refresh, login>> /\ ~disturbed /\ \A u \in Tabs : ~Busy(u)
    BY DEF SendLogout, server, worth, Quiet, ServerInv, BrowserTypeOK
  <1>2. PICK c : c = cookie /\ Kept(c)
    BY <1>1 DEF BrowserCalm, Busy, Undecided
  <1>3. Kept(c)'
    BY <1>1, <1>2, KeptUnchanged
  <1>4. /\ logout'[t].at = "asked" /\ logout'[t].token = cookie
        /\ \A u \in Tabs \ {t} : ~Busy(u)'
    BY <1>1 DEF SendLogout, Busy, ServerInv, BrowserTypeOK
  <1>5. TabCalm(t)' /\ Kept(cookie)'
    BY <1>1, <1>2, <1>3, <1>4 DEF TabCalm, Busy
  <1> QED
    BY <1>4, <1>5, AloneCalm

LEMMA ServeLogoutCalm ==
  ASSUME SessionInv, ServerInv, BrowserCalm, NEW t \in Tabs, ServeLogout(t), ~disturbed'
  PROVE  BrowserCalm'
  <1>1. /\ ~disturbed /\ logout[t].at = "asked"
        /\ UNCHANGED <<issued, family, epoch, cookie, refresh, login, loginEpoch, overtaken>>
    BY DEF ServeLogout
  <1>2. (\A u \in Tabs \ {t} : ~Busy(u)) /\ refresh[t] = {} /\ Busy(t) /\ login[t].at = "idle" /\ logout[t].token = cookie
    BY <1>1, SignsAlone DEF BrowserCalm, TabCalm
  <1>3. Undecided(t)
    BY <1>1, <1>2 DEF Undecided
  <1>4. PICK c : c = cookie /\ Kept(c)
    BY <1>1, <1>2, <1>3, CookieKept
  <1>5. logout'[t].at \in {"done", "failed"} /\ \A u \in Tabs \ {t} : ~Busy(u)'
    BY <1>1, <1>2 DEF ServeLogout, NoExchange, Busy, ServerInv, BrowserTypeOK
  <1>6. CASE logout'[t].at = "done"
    <2>1. Logout(c)
      BY <1>2, <1>4, <1>6 DEF ServeLogout, NoExchange, ServerInv, BrowserTypeOK
    <2>2. Kept(NoToken)'
      BY <1>1, <1>4, <2>1, KeptLogout
    <2>3. TabCalm(t)' /\ ~Undecided(t)'
      BY <1>1, <1>2, <1>6, <2>2 DEF TabCalm, Undecided
    <2> QED
      BY <1>5, <2>3, AloneCalm
  <1>7. CASE logout'[t].at = "failed"
    <2>1. live' = live
      BY <1>7 DEF ServeLogout, NoExchange, ServerInv, BrowserTypeOK
    <2>2. Kept(c)'
      BY <1>1, <1>4, <2>1, KeptUnchanged DEF worth
    <2>3. TabCalm(t)' /\ Kept(cookie)'
      BY <1>1, <1>2, <1>4, <1>7, <2>2 DEF TabCalm
    <2> QED
      BY <1>5, <2>3, AloneCalm
  <1> QED
    BY <1>5, <1>6, <1>7

LEMMA LogoutArrivesCalm ==
  ASSUME SessionInv, ServerInv, BrowserCalm, NEW t \in Tabs, LogoutArrives(t), ~disturbed'
  PROVE  BrowserCalm'
  <1>1. /\ ~disturbed /\ logout[t].at \in {"done", "failed"} /\ UNCHANGED worth /\ UNCHANGED <<refresh, login>>
        /\ logout' = [logout EXCEPT ![t] = NoExchange]
    BY DEF LogoutArrives, server, worth, ServerInv, BrowserTypeOK
  <1>2. (\A u \in Tabs \ {t} : ~Busy(u)) /\ refresh[t] = {} /\ Busy(t) /\ login[t].at = "idle"
    BY <1>1, SignsAlone DEF BrowserCalm, TabCalm
  <1>3. Kept(cookie')
    <2>1. CASE logout[t].at = "done"
      BY <1>1, <2>1 DEF LogoutArrives, BrowserCalm, TabCalm
    <2>2. CASE logout[t].at = "failed"
      <3>1. Undecided(t) /\ cookie' = cookie
        BY <1>1, <1>2, <2>2 DEF LogoutArrives, Undecided
      <3> QED
        BY <1>1, <1>2, <3>1, CookieKept
    <2> QED
      BY <1>1, <2>1, <2>2
  <1>4. PICK c : c = cookie' /\ Kept(c)
    BY <1>3
  <1>5. Kept(c)'
    BY <1>1, <1>4, KeptUnchanged
  <1>6. logout'[t].at = "idle" /\ \A u \in Tabs \ {t} : ~Busy(u)'
    BY <1>1, <1>2 DEF NoExchange, Busy, ServerInv, BrowserTypeOK
  <1> QED
    BY <1>1, <1>2, <1>4, <1>5, <1>6, SettledCalm

LEMMA CalmStep ==
  ASSUME SessionInv, SessionInv', ServerInv, BrowserCalm, [SessionNext]_sessionVars
  PROVE  BrowserCalm'
  <1>1. CASE disturbed'
    BY <1>1 DEF BrowserCalm
  <1>2. CASE UNCHANGED <<worth, cookie, refresh, login, logout, disturbed>>
    <2>1. \A h \in 0..issued : Kept(h) => Kept(h)'
      BY <1>2, KeptUnchanged
    <2>2. issued' = issued /\ issued \in Nat
      BY <1>2 DEF worth, SessionInv, FamiliesIssued
    <2> QED
      BY <1>2, <2>1, <2>2, StaysCalm
  <1>3. ASSUME NEW t \in Tabs, Network(t), ~disturbed' PROVE BrowserCalm'
    <2>1. ASSUME NEW c \in Calls, CallRefused(t, c) PROVE BrowserCalm'
      BY <1>3, <2>1, CallRefusedCalm DEF CallRefused, server, worth
    <2> QED
      BY <1>3, <2>1, ServeRefreshCalm, RefreshArrivesCalm, InsertLoginCalm, LoginArrivesCalm, ServeLogoutCalm,
         LogoutArrivesCalm DEF Network, RefreshEnds
  <1>4. ASSUME NEW t \in Tabs, TabActs(t), ~disturbed' PROVE BrowserCalm'
    <2>1. ASSUME Navigate(t) \/ \E c \in Calls : Call(t, c)
          PROVE  BrowserCalm'
      BY <1>2, <2>1 DEF Navigate, Call, server, history, worth
    <2> QED
      BY <1>4, <2>1, SendLoginCalm, SendLogoutCalm, ReopenCalm DEF TabActs
  <1>5. ASSUME NEW t \in Tabs, NEW x \in refresh[t], LoseAnswer(t, x) PROVE BrowserCalm'
    BY <1>1, <1>5 DEF LoseAnswer
  <1>6. CASE RevokeAll
    <2>1. \A h \in 0..issued : Kept(h)'
      BY <1>6, KeptRevoked DEF ServerInv
    <2>2. issued' = issued /\ issued \in Nat
      BY <1>6 DEF RevokeAll, SessionInv, FamiliesIssued
    <2> QED
      BY <1>6, <2>1, <2>2, StaysCalm DEF RevokeAll
  <1>7. CASE Enable
    BY <1>2, <1>7 DEF Enable, history, worth
  <1>8. CASE UNCHANGED sessionVars
    BY <1>2, <1>8 DEF sessionVars, server, history, worth
  <1> QED
    BY <1>1, <1>3, <1>4, <1>5, <1>6, <1>7, <1>8 DEF SessionNext

LEMMA BrowserInitially == SessionInit => ServerInv /\ BrowserCalm
  <1> SUFFICES ASSUME SessionInit PROVE ServerInv /\ BrowserCalm
    OBVIOUS
  <1>1. PICK y \in RefreshExchange : y = [at |-> "asked", token |-> NoToken, new |-> NoToken] /\ y.at = "asked"
                                     /\ y.token = NoToken
    BY AskIs DEF NoToken
  <1>2. \A t \in Tabs : refresh[t] = {y} /\ login[t] = NoLogin /\ logout[t] = NoExchange /\ joined[t] = TRUE
    BY <1>1 DEF SessionInit
  <1>3. NoLogin \in LoginExchange /\ NoLogin.at = "idle" /\ NoLogin.seen = 0
    BY DEF NoLogin, LoginExchange, NoToken
  <1>4. NoExchange \in LogoutExchange /\ NoExchange.at = "idle"
    BY DEF NoExchange, LogoutExchange, NoToken
  <1>5. refresh = [t \in Tabs |-> {y}]
    BY <1>1 DEF SessionInit
  <1>6. BrowserTypeOK
    <2>1. refresh \in [Tabs -> SUBSET RefreshExchange]
      BY <1>5
    <2>2. login \in [Tabs -> LoginExchange] /\ logout \in [Tabs -> LogoutExchange]
      BY <1>3, <1>4 DEF SessionInit
    <2>3. access \in [Tabs -> BOOLEAN] /\ joined \in [Tabs -> BOOLEAN] /\ loginEpoch \in [Tokens -> Nat]
      BY DEF SessionInit
    <2>4. cookie \in 0..issued /\ epoch \in Nat
      BY DEF SessionInit, NoToken
    <2>5. disturbed \in BOOLEAN /\ active \in BOOLEAN
      BY DEF SessionInit
    <2> QED
      BY <2>1, <2>2, <2>3, <2>4, <2>5 DEF BrowserTypeOK
  <1>7. \A t \in Tabs : ExchangesHold(t)
    BY <1>1, <1>2, <1>3 DEF ExchangesHold, SessionInit
  <1>8. ServerHolds
    BY <1>3 DEF ServerHolds, SessionInit, LoggedOutStaysOut
  <1>9. Early
    BY <1>2, <1>3, <1>4 DEF Early, SessionInit, NoLogin, NoExchange
  <1>10. Kept(NoToken)
    BY DEF Kept, SessionInit, NoToken
  <1>11. BrowserCalm
    BY <1>1, <1>2, <1>3, <1>4, <1>9, <1>10 DEF BrowserCalm, TabCalm, SessionInit, Early
  <1> QED
    BY <1>6, <1>7, <1>8, <1>11 DEF ServerInv

THEOREM BrowserInvariant == SessionSpec => []BrowserInv
  <1>1. SessionInit => SessionInv /\ BrowserInv
    BY SessionInvInit, BrowserInitially DEF BrowserInv
  <1>2. SessionInv /\ BrowserInv /\ [SessionNext]_sessionVars => (SessionInv /\ BrowserInv)'
    BY SessionInvStep, ServerStep, CalmStep DEF BrowserInv
  <1> QED
    BY <1>1, <1>2, PTL DEF SessionSpec

\* As long as the tabs of a browser do not sign in, sign out or refresh across each other and
\* no answer is lost, nobody is signed out for no reason: the browser holds the live token of
\* its last login through every rotation, reload, retry and failed call (lib/api.ts), unless
\* the account was revoked; and a session that was signed out stays so on the server.
THEOREM SessionFollows == SessionSpec => []SessionFollowsUser
  <1>1. BrowserInv => SessionFollowsUser
    BY DEF BrowserInv, ServerInv, BrowserCalm, BrowserTypeOK, ServerHolds, SessionFollowsUser, SessionKept, Quiet, Busy, Undecided, Kept
  <1> QED
    BY <1>1, BrowserInvariant, PTL
-----------------------------------------------------------------------------
(* SignInPage: the account that the dashboard is opened for. *)

SignSpec == SignInit /\ [][SignNext]_signVars

Ways == {"password", "totp", "passkey", "provider", "return"}
OneOrNone == Accounts \cup {None}

TripRecord == [n : Nat, way : Ways, who : OneOrNone, at : {"sent", "accepted", "failed", "refused"}, here : BOOLEAN]

SignTypeOK ==
    /\ signRoute \in {"login", "other", "home"} /\ step \in {"credentials", "totp"}
    /\ totpToken \in OneOrNone /\ oidcAction \in BOOLEAN /\ oidcSession \in OneOrNone
    /\ trips \subseteq TripRecord /\ signedIn \in OneOrNone /\ tripCount \in Nat /\ home \in OneOrNone
    /\ crossed \in BOOLEAN /\ taken \in BOOLEAN /\ dropped \in BOOLEAN

\* An exchange that may sign in has an account.
TripsHaveAccounts ==
    /\ step = "totp" => totpToken \in Accounts
    /\ \A q \in trips : /\ q.way \in {"password", "totp", "passkey"} => q.who \in Accounts
                        /\ q.way = "return" /\ q.at = "accepted" => q.who \in Accounts
                        /\ q.way = "return" => q.at # "refused"

\* Unless ways crossed, an exchange is alone, or all of them ask for one result of a provider.
AloneOrReturns ==
    \/ \A p, q \in trips : p = q
    \/ \A q \in trips : q.way = "return"

\* Who has read the result has left nothing for the others; the page tells of what is under way.
WaysApart ==
    ~crossed =>
        /\ AloneOrReturns
        /\ \A p, q \in trips : p.at = "accepted" /\ q.at = "accepted" => p = q
        /\ \A q \in trips : q.way = "return" /\ q.at = "accepted" => oidcSession = None
        /\ \A q \in trips : q.here /\ q.way # "return" => Flag(q.way) \in flags
        /\ oidcAction => trips # {} /\ \A q \in trips : q.way = "return" /\ q.here
        /\ step = "totp" /\ signRoute = "login" => \A q \in trips : q.way = "totp" /\ q.here

\* Nothing that is under way when the dashboard is open will sign another account in.
HomeStays ==
    ~crossed /\ signRoute = "home" =>
        /\ home = signedIn
        /\ \A q \in trips : q.way = "return" /\ q.at # "accepted" /\ oidcSession = None

ResultUnderWay ==
    taken /\ ~dropped => signedIn # None \/ \E q \in trips : q.way = "return" /\ q.at = "accepted"

SignInv == SignTypeOK /\ TripsHaveAccounts /\ WaysApart /\ HomeStays /\ ResultUnderWay

LEMMA FlagValues ==
  /\ Flag("password") = "loading" /\ Flag("totp") = "loading" /\ Flag("passkey") = "passkeyLoading"
  /\ Flag("return") = "oidcLoading" /\ Flag("provider") = "oidcSubmitting"
BY DEF Flag

LEMMA SignInitial ==
  ASSUME SignInit
  PROVE  SignInv
<1>1. SignTypeOK
  BY DEF SignInit, SignTypeOK, OneOrNone
<1>2. TripsHaveAccounts /\ HomeStays /\ ResultUnderWay
  BY DEF SignInit, TripsHaveAccounts, HomeStays, ResultUnderWay
<1>3. WaysApart
  BY DEF SignInit, WaysApart, AloneOrReturns
<1> QED
  BY <1>1, <1>2, <1>3 DEF SignInv

\* An exchange is begun.
LEMMA TripBegins ==
  ASSUME SignInv, NEW way \in Ways, NEW who \in OneOrNone, Trip(way, who)
  PROVE  \E t \in TripRecord :
            /\ t.way = way /\ t.who = who /\ t.at = "sent" /\ t.here = TRUE
            /\ trips' = trips \cup {t} /\ flags' = flags \cup {Flag(way)} /\ tripCount' \in Nat
<1> DEFINE t == [n |-> tripCount + 1, way |-> way, who |-> who, at |-> "sent", here |-> TRUE]
<1>1. tripCount \in Nat
  BY DEF SignInv, SignTypeOK
<1>2. tripCount + 1 \in Nat
  BY <1>1
<1>3. t \in TripRecord /\ t.way = way /\ t.who = who /\ t.at = "sent" /\ t.here = TRUE
  BY <1>2 DEF TripRecord
<1> QED
  BY <1>2, <1>3 DEF Trip

\* What a new exchange leaves true, whoever asks for it.
LEMMA BeginKeeps ==
  ASSUME SignInv, NEW way \in Ways, NEW who \in OneOrNone, Trip(way, who), signRoute = "login",
         way \in {"password", "totp", "passkey"} => who \in Accounts,
         UNCHANGED <<signRoute, step, totpToken, oidcAction, oidcSession, signedIn, home, taken, dropped>>,
         crossed' \in BOOLEAN
  PROVE  SignTypeOK' /\ TripsHaveAccounts' /\ HomeStays' /\ ResultUnderWay'
<1>1. PICK t \in TripRecord :
            /\ t.way = way /\ t.who = who /\ t.at = "sent" /\ t.here = TRUE
            /\ trips' = trips \cup {t} /\ flags' = flags \cup {Flag(way)} /\ tripCount' \in Nat
  BY TripBegins
<1>2. SignTypeOK'
  BY <1>1 DEF SignInv, SignTypeOK
<1>3. TripsHaveAccounts'
  BY <1>1 DEF SignInv, TripsHaveAccounts
<1>4. HomeStays'
  BY DEF HomeStays
<1>5. ResultUnderWay'
  BY <1>1 DEF SignInv, ResultUnderWay
<1> QED
  BY <1>2, <1>3, <1>4, <1>5

\* An exchange that is begun while there is no other.
LEMMA BeginAlone ==
  ASSUME SignInv, NEW way \in Ways, NEW who \in OneOrNone, Trip(way, who),
         UNCHANGED <<signRoute, step, oidcAction, oidcSession>>,
         ~crossed' => ~crossed /\ trips = {},
         step = "totp" /\ signRoute = "login" => way = "totp"
  PROVE  WaysApart'
<1> SUFFICES ASSUME ~crossed'
             PROVE  WaysApart'
  BY DEF WaysApart
<1>1. PICK t \in TripRecord :
            /\ t.way = way /\ t.who = who /\ t.at = "sent" /\ t.here = TRUE
            /\ trips' = trips \cup {t} /\ flags' = flags \cup {Flag(way)} /\ tripCount' \in Nat
  BY TripBegins
<1>2. trips' = {t} /\ ~oidcAction
  BY <1>1 DEF SignInv, WaysApart
<1> QED
  BY <1>1, <1>2 DEF WaysApart, AloneOrReturns

LEMMA WaysBegin ==
  ASSUME SignInv,
         \/ AskAgain \/ SubmitTotp \/ \E who \in Accounts : SubmitCredentials(who)
         \/ \E way \in {"passkey", "provider"} : OtherWay(way)
  PROVE  SignInv'
<1>0. crossed \in BOOLEAN /\ None \in OneOrNone /\ \A who \in Accounts : who \in OneOrNone
  BY DEF SignInv, SignTypeOK, OneOrNone
<1>1. CASE AskAgain
  <2>1. /\ signRoute = "login" /\ step = "credentials" /\ oidcAction /\ Trip("return", None)
        /\ UNCHANGED <<signRoute, step, totpToken, oidcAction, oidcSession, signedIn, home, crossed, taken, dropped>>
    BY <1>1 DEF AskAgain
  <2>2. "return" \in Ways
    BY DEF Ways
  <2>3. PICK t \in TripRecord :
            /\ t.way = "return" /\ t.who = None /\ t.at = "sent" /\ t.here = TRUE
            /\ trips' = trips \cup {t} /\ flags' = flags \cup {Flag("return")} /\ tripCount' \in Nat
    <3>1. PICK w \in Ways, who \in OneOrNone : w = "return" /\ who = None
      BY <1>0, <2>2
    <3>2. Trip(w, who)
      BY <2>1, <3>1
    <3>3. PICK t \in TripRecord :
              /\ t.way = w /\ t.who = who /\ t.at = "sent" /\ t.here = TRUE
              /\ trips' = trips \cup {t} /\ flags' = flags \cup {Flag(w)} /\ tripCount' \in Nat
      <4>1. SignInv /\ w \in Ways /\ who \in OneOrNone /\ Trip(w, who)
        BY <3>1, <3>2
      <4> QED
        BY ONLY <4>1, TripBegins
    <3> QED
      BY <3>1, <3>3
  <2>4. SignTypeOK' /\ TripsHaveAccounts' /\ HomeStays' /\ ResultUnderWay'
    BY <1>0, <2>1, <2>2, BeginKeeps
  <2>5. WaysApart'
    BY <2>1, <2>3 DEF SignInv, WaysApart, AloneOrReturns
  <2> QED
    BY <2>4, <2>5 DEF SignInv
<1>2. CASE SubmitTotp
  <2>1. /\ signRoute = "login" /\ step = "totp" /\ "loading" \notin flags /\ Trip("totp", totpToken)
        /\ UNCHANGED <<signRoute, step, totpToken, oidcAction, oidcSession, signedIn, home, crossed, taken, dropped>>
    BY <1>2 DEF SubmitTotp
  <2>2. "totp" \in Ways /\ totpToken \in Accounts
    BY <2>1 DEF Ways, SignInv, TripsHaveAccounts
  <2>3. SignTypeOK' /\ TripsHaveAccounts' /\ HomeStays' /\ ResultUnderWay'
    BY <1>0, <2>1, <2>2, BeginKeeps
  <2>4. ~crossed => trips = {}
    BY <2>1, FlagValues DEF SignInv, WaysApart
  <2>5. WaysApart'
    BY <1>0, <2>1, <2>2, <2>4, BeginAlone
  <2> QED
    BY <2>3, <2>5 DEF SignInv
<1>3. ASSUME NEW who \in Accounts, SubmitCredentials(who)
      PROVE  SignInv'
  <2>1. /\ signRoute = "login" /\ step = "credentials" /\ Trip("password", who)
        /\ crossed' = (crossed \/ trips # {})
        /\ UNCHANGED <<signRoute, step, totpToken, oidcAction, oidcSession, signedIn, home, taken, dropped>>
    BY <1>3 DEF SubmitCredentials
  <2>2. "password" \in Ways /\ who \in OneOrNone /\ crossed' \in BOOLEAN
    BY <1>0, <1>3, <2>1 DEF Ways
  <2>3. SignTypeOK' /\ TripsHaveAccounts' /\ HomeStays' /\ ResultUnderWay'
    BY <1>3, <2>1, <2>2, BeginKeeps
  <2>4. WaysApart'
    BY <2>1, <2>2, BeginAlone
  <2> QED
    BY <2>3, <2>4 DEF SignInv
<1>4. ASSUME NEW way \in {"passkey", "provider"}, OtherWay(way)
      PROVE  SignInv'
  <2>1. PICK who \in OneOrNone : Trip(way, who) /\ (way = "passkey" => who \in Accounts)
    BY <1>0, <1>4 DEF OtherWay
  <2>2. /\ signRoute = "login" /\ step = "credentials" /\ flags = {}
        /\ crossed' = (crossed \/ \E q \in trips : ~q.here \/ q.way = "return")
        /\ UNCHANGED <<signRoute, step, totpToken, oidcAction, oidcSession, signedIn, home, taken, dropped>>
    BY <1>4 DEF OtherWay
  <2>3. way \in Ways /\ crossed' \in BOOLEAN
    BY <1>4, <2>2 DEF Ways
  <2>4. SignTypeOK' /\ TripsHaveAccounts' /\ HomeStays' /\ ResultUnderWay'
    BY <1>4, <2>1, <2>2, <2>3, BeginKeeps
  <2>5. ~crossed' => ~crossed /\ trips = {}
    BY <2>2 DEF SignInv, WaysApart
  <2>6. WaysApart'
    BY <2>1, <2>2, <2>3, <2>5, BeginAlone
  <2> QED
    BY <2>4, <2>6 DEF SignInv
<1> QED
  BY <1>1, <1>2, <1>3, <1>4

\* An exchange whose page is left goes on.
Left(t, q) == t \in TripRecord /\ t.way = q.way /\ t.who = q.who /\ t.at = q.at /\ ~t.here
              /\ t = [q EXCEPT !.here = FALSE]

LEMMA PagesFallAway ==
  ASSUME SignInv, NEW S \in SUBSET trips
  PROVE  \A t \in {[q EXCEPT !.here = FALSE] : q \in S} : \E q \in S : Left(t, q)
<1> SUFFICES ASSUME NEW q \in S
             PROVE  Left([q EXCEPT !.here = FALSE], q)
  OBVIOUS
<1>1. q \in TripRecord
  BY DEF SignInv, SignTypeOK
<1> QED
  BY <1>1 DEF TripRecord, Left

\* The ways out of the page and back to it.
LEMMA PageIsLeft ==
  ASSUME SignInv, BackToCredentials \/ LeaveSignIn \/ ReturnToSignIn
  PROVE  SignInv'
<1>1. CASE BackToCredentials
  <2>1. SignTypeOK' /\ TripsHaveAccounts'
    BY <1>1 DEF BackToCredentials, SignInv, SignTypeOK, TripsHaveAccounts, OneOrNone
  <2>2. WaysApart' /\ HomeStays' /\ ResultUnderWay'
    BY <1>1 DEF BackToCredentials, SignInv, WaysApart, AloneOrReturns, HomeStays, ResultUnderWay
  <2> QED
    BY <2>1, <2>2 DEF SignInv
<1>2. CASE ReturnToSignIn
  <2>1. SignTypeOK' /\ TripsHaveAccounts'
    BY <1>2 DEF ReturnToSignIn, SignInv, SignTypeOK, TripsHaveAccounts, OneOrNone
  <2>2. WaysApart' /\ HomeStays' /\ ResultUnderWay'
    BY <1>2 DEF ReturnToSignIn, SignInv, WaysApart, AloneOrReturns, HomeStays, ResultUnderWay
  <2> QED
    BY <2>1, <2>2 DEF SignInv
<1>3. CASE LeaveSignIn
  <2>1. /\ signRoute = "login" /\ step = "credentials" /\ signRoute' = "other" /\ flags' = {} /\ oidcAction' = FALSE
        /\ trips' = {[q EXCEPT !.here = FALSE] : q \in trips}
        /\ UNCHANGED <<step, totpToken, oidcSession, signedIn, tripCount, home, crossed, taken, dropped>>
    BY <1>3 DEF LeaveSignIn
  <2>2. \A t \in trips' : \E q \in trips : Left(t, q)
    BY <2>1, PagesFallAway
  <2>3. None \in OneOrNone
    BY DEF OneOrNone
  <2>4. SignTypeOK'
    BY <2>1, <2>2, <2>3 DEF SignInv, SignTypeOK, Left
  <2>5. TripsHaveAccounts'
    <3> SUFFICES ASSUME NEW t \in trips'
                 PROVE  /\ t.way \in {"password", "totp", "passkey"} => t.who \in Accounts
                        /\ t.way = "return" /\ t.at = "accepted" => t.who \in Accounts
                        /\ t.way = "return" => t.at # "refused"
      BY <2>1 DEF TripsHaveAccounts
    <3>1. PICK q \in trips : Left(t, q)
      BY <2>2
    <3> QED
      BY <3>1 DEF SignInv, TripsHaveAccounts, Left
  <2>6. WaysApart'
    <3> SUFFICES ASSUME ~crossed
                 PROVE  WaysApart'
      BY <2>1 DEF WaysApart
    <3>0. ASSUME NEW p \in trips', NEW s \in trips'
          PROVE  /\ p.at = "accepted" /\ s.at = "accepted" => p = s
                 /\ (\A a, b \in trips : a = b) => p = s
      <4>1. PICK a \in trips : p.at = a.at /\ p = [a EXCEPT !.here = FALSE]
        BY <2>2, <3>0 DEF Left
      <4>2. PICK b \in trips : s.at = b.at /\ s = [b EXCEPT !.here = FALSE]
        BY <2>2, <3>0 DEF Left
      <4>3. a = b => p = s
        BY <4>1, <4>2
      <4> QED
        BY <4>1, <4>2, <4>3 DEF SignInv, WaysApart
    <3>1. AloneOrReturns'
      <4>1. CASE \A a, b \in trips : a = b
        BY <3>0, <4>1 DEF AloneOrReturns
      <4>2. CASE \A a \in trips : a.way = "return"
        BY <2>2, <4>2 DEF AloneOrReturns, Left
      <4> QED
        BY <4>1, <4>2 DEF SignInv, WaysApart, AloneOrReturns
    <3>2. \A p, s \in trips' : p.at = "accepted" /\ s.at = "accepted" => p = s
      BY <3>0
    <3>3. \A t \in trips' : ~t.here /\ (t.way = "return" /\ t.at = "accepted" => oidcSession' = None)
      BY <2>1, <2>2 DEF SignInv, WaysApart, Left
    <3> QED
      BY <2>1, <3>1, <3>2, <3>3 DEF WaysApart
  <2>7. HomeStays' /\ ResultUnderWay'
    <3>1. HomeStays'
      BY <2>1 DEF HomeStays
    <3>2. \A q \in trips : LET t == [q EXCEPT !.here = FALSE]
                           IN  t \in trips' /\ t.way = q.way /\ t.at = q.at
      BY <2>1 DEF SignInv, SignTypeOK, TripRecord
    <3>3. ResultUnderWay'
      BY <2>1, <3>2 DEF SignInv, ResultUnderWay
    <3> QED
      BY <3>1, <3>3
  <2> QED
    BY <2>4, <2>5, <2>6, <2>7 DEF SignInv
<1> QED
  BY <1>1, <1>2, <1>3

\* The server: a result of a provider is read once.
LEMMA TripIsServed ==
  ASSUME SignInv, NEW q \in trips, ServeTrip(q)
  PROVE  SignInv'
<1>1. /\ q.at = "sent"
      /\ UNCHANGED <<signRoute, step, totpToken, flags, oidcAction, signedIn, tripCount, home, crossed, dropped>>
  BY DEF ServeTrip
<1>2. PICK at \in {"accepted", "failed", "refused"}, who \in OneOrNone :
         /\ trips' = (trips \ {q}) \cup {[q EXCEPT !.at = at, !.who = who]}
         /\ q.way = "return" => /\ at = (IF oidcSession = None THEN "failed" ELSE "accepted") /\ who = oidcSession
                                /\ oidcSession' = None /\ taken' = (taken \/ oidcSession # None)
         /\ q.way # "return" => who = q.who /\ UNCHANGED <<oidcSession, taken>>
  <2>1. oidcSession \in OneOrNone /\ q.who \in OneOrNone
    BY DEF SignInv, SignTypeOK, TripRecord
  <2>2. CASE q.way = "return"
    BY <2>1, <2>2 DEF ServeTrip, Becomes
  <2>3. CASE q.way # "return"
    BY <2>1, <2>3 DEF ServeTrip, Becomes
  <2> QED
    BY <2>2, <2>3
<1>3. PICK t \in TripRecord : /\ trips' = (trips \ {q}) \cup {t}
                             /\ t.way = q.way /\ t.at = at /\ t.who = who /\ t.here = q.here
  <2> DEFINE t == [q EXCEPT !.at = at, !.who = who]
  <2>1. t \in TripRecord /\ t.way = q.way /\ t.at = at /\ t.who = who /\ t.here = q.here
    BY DEF SignInv, SignTypeOK, TripRecord
  <2> QED
    BY <1>2, <2>1
<1>4. oidcSession' \in {None, oidcSession} /\ (q.way = "return" /\ at = "accepted" => who \in Accounts)
      /\ (q.way = "return" => at # "refused") /\ taken' \in BOOLEAN
  <2>1. oidcSession # None => oidcSession \in Accounts
    BY DEF SignInv, SignTypeOK, OneOrNone
  <2>2. taken \in BOOLEAN
    BY DEF SignInv, SignTypeOK
  <2> QED
    BY <1>2, <2>1, <2>2
<1>5. SignTypeOK'
  <2>1. None \in OneOrNone
    BY DEF OneOrNone
  <2> QED
    BY <1>1, <1>3, <1>4, <2>1 DEF SignInv, SignTypeOK
<1>6. TripsHaveAccounts'
  BY <1>1, <1>2, <1>3, <1>4 DEF SignInv, TripsHaveAccounts
<1>7. WaysApart'
  <2> SUFFICES ASSUME ~crossed
               PROVE  WaysApart'
    BY <1>1 DEF WaysApart
  <2>0. WaysApart
    BY DEF SignInv
  <2>1. AloneOrReturns'
    BY <1>3, <2>0 DEF WaysApart, AloneOrReturns
  <2>2. \A p \in trips \ {q} : t.at = "accepted" => p.at # "accepted"
    <3>1. CASE q.way = "return"
      <4>1. \A p \in trips \ {q} : p.way = "return"
        BY <2>0, <3>1 DEF WaysApart, AloneOrReturns
      <4> QED
        BY <1>2, <1>3, <2>0, <3>1, <4>1 DEF WaysApart
    <3>2. CASE q.way # "return"
      BY <2>0, <3>2 DEF WaysApart, AloneOrReturns
    <3> QED
      BY <3>1, <3>2
  <2>3. \A p, s \in trips' : p.at = "accepted" /\ s.at = "accepted" => p = s
    BY <1>3, <2>0, <2>2 DEF WaysApart
  <2>4. \A p \in trips' : p.way = "return" /\ p.at = "accepted" => oidcSession' = None
    BY <1>2, <1>3, <1>4, <2>0 DEF WaysApart
  <2>5. \A p \in trips' : p.here /\ p.way # "return" => Flag(p.way) \in flags'
    BY <1>1, <1>3, <2>0 DEF WaysApart
  <2>6. /\ oidcAction' => trips' # {} /\ \A p \in trips' : p.way = "return" /\ p.here
        /\ step' = "totp" /\ signRoute' = "login" => \A p \in trips' : p.way = "totp" /\ p.here
    BY <1>1, <1>3, <2>0 DEF WaysApart
  <2> QED
    BY <2>1, <2>3, <2>4, <2>5, <2>6 DEF WaysApart
<1>8. HomeStays'
  BY <1>1, <1>2, <1>3, <1>4 DEF SignInv, HomeStays
<1>9. ResultUnderWay'
  BY <1>1, <1>2, <1>3 DEF SignInv, ResultUnderWay
<1> QED
  BY <1>5, <1>6, <1>7, <1>8, <1>9 DEF SignInv

\* The answers.
LEMMA TripSignsIn ==
  ASSUME SignInv, NEW q \in trips, SignedInBy(q)
  PROVE  SignInv'
<1>1. /\ q.at = "accepted" /\ q.way # "provider"
      /\ signedIn' = q.who /\ signRoute' = "home" /\ oidcAction' = FALSE
      /\ home' = IF signRoute = "home" THEN home ELSE q.who
      /\ trips' = {[p EXCEPT !.here = FALSE] : p \in trips \ {q}}
      /\ UNCHANGED <<step, totpToken, oidcSession, tripCount, crossed, taken, dropped>>
  BY DEF SignedInBy, SignInHere, SignIn
<1>2. \A t \in trips' : \E p \in trips \ {q} : Left(t, p)
  BY <1>1, PagesFallAway
<1>3. q.who \in Accounts /\ q.who \in OneOrNone
  <2>1. q.way \in Ways
    BY DEF SignInv, SignTypeOK, TripRecord
  <2>2. CASE q.way = "return"
    BY <1>1, <2>2 DEF SignInv, TripsHaveAccounts, OneOrNone
  <2>3. CASE q.way # "return"
    BY <1>1, <2>1, <2>3 DEF SignInv, TripsHaveAccounts, Ways, OneOrNone
  <2> QED
    BY <2>2, <2>3
<1>4. SignTypeOK'
  BY <1>1, <1>2, <1>3 DEF SignInv, SignTypeOK, Left
<1>5. TripsHaveAccounts'
  <2>1. ASSUME NEW t \in trips'
        PROVE  /\ t.way \in {"password", "totp", "passkey"} => t.who \in Accounts
               /\ t.way = "return" /\ t.at = "accepted" => t.who \in Accounts
               /\ t.way = "return" => t.at # "refused"
    <3>1. PICK p \in trips : Left(t, p)
      BY <1>2, <2>1
    <3> QED
      BY <3>1 DEF SignInv, TripsHaveAccounts, Left
  <2> QED
    BY <1>1, <2>1 DEF SignInv, TripsHaveAccounts
<1>6. ASSUME ~crossed
      PROVE  /\ signRoute # "home"
             /\ \A p \in trips \ {q} : p.way = "return" /\ p.at # "accepted" /\ oidcSession = None
  <2>1. WaysApart /\ HomeStays
    BY DEF SignInv
  <2>2. signRoute # "home"
    BY <1>1, <1>6, <2>1 DEF HomeStays
  <2>3. \A p \in trips \ {q} : p.way = "return" /\ q.way = "return"
    BY <1>6, <2>1 DEF WaysApart, AloneOrReturns
  <2>4. \A p \in trips \ {q} : p.at # "accepted"
    BY <1>1, <1>6, <2>1 DEF WaysApart
  <2>5. q.way = "return" => oidcSession = None
    BY <1>1, <1>6, <2>1 DEF WaysApart
  <2> QED
    BY <2>2, <2>3, <2>4, <2>5
<1>7. ASSUME ~crossed
      PROVE  \A t \in trips' : t.way = "return" /\ t.at # "accepted" /\ oidcSession' = None /\ ~t.here
  BY <1>1, <1>2, <1>6, <1>7 DEF Left
<1>8. WaysApart'
  <2> SUFFICES ASSUME ~crossed
               PROVE  WaysApart'
    BY <1>1 DEF WaysApart
  <2> QED
    BY <1>1, <1>7 DEF WaysApart, AloneOrReturns
<1>9. HomeStays'
  BY <1>1, <1>6, <1>7 DEF HomeStays
<1>10. ResultUnderWay'
  BY <1>1, <1>3, AccountsAssumption DEF ResultUnderWay
<1> QED
  BY <1>4, <1>5, <1>8, <1>9, <1>10 DEF SignInv

LEMMA TripEndsHere ==
  ASSUME SignInv, NEW q \in trips, AskForTotp(q) \/ TripFails(q)
  PROVE  SignInv'
<1>1. /\ trips' = trips \ {q} /\ FlagFalls(q)
      /\ UNCHANGED <<signRoute, oidcSession, signedIn, tripCount, home, crossed, taken>>
      /\ oidcAction' = (IF q.way = "return" /\ q.here THEN FALSE ELSE oidcAction)
  BY DEF AskForTotp, TripFails
<1>2. /\ step' \in {"credentials", "totp"} /\ totpToken' \in OneOrNone /\ dropped' \in BOOLEAN
      /\ step' = "totp" => totpToken' \in Accounts
      /\ step' = "totp" => step = "totp" \/ (q.way = "password" /\ q.at = "accepted")
      /\ dropped => dropped'
      /\ q.way = "return" /\ q.at = "accepted" => dropped'
  <2>1. CASE AskForTotp(q)
    <3>1. q.who = "guarded" /\ "guarded" \in Accounts /\ "guarded" \in OneOrNone
      BY <2>1 DEF AskForTotp, Accounts, OneOrNone
    <3> QED
      BY <2>1, <3>1 DEF AskForTotp, SignInv, SignTypeOK, TripsHaveAccounts
  <2>2. CASE TripFails(q)
    BY <2>2 DEF TripFails, SignInv, SignTypeOK, TripsHaveAccounts
  <2> QED
    BY <2>1, <2>2
<1>3. SignTypeOK'
  BY <1>1, <1>2 DEF SignInv, SignTypeOK
<1>4. TripsHaveAccounts'
  BY <1>1, <1>2 DEF SignInv, TripsHaveAccounts
<1>5. WaysApart'
  <2> SUFFICES ASSUME ~crossed
               PROVE  WaysApart'
    BY <1>1 DEF WaysApart
  <2>1. WaysApart
    BY DEF SignInv
  <2>2. AloneOrReturns' /\ \A p \in trips' : p.way = "return"
    BY <1>1, <2>1 DEF WaysApart, AloneOrReturns
  <2>3. ~oidcAction'
    BY <1>1, <2>1 DEF WaysApart
  <2>4. step' = "totp" /\ signRoute' = "login" => trips' = {}
    <3>1. CASE step = "totp"
      BY <1>1, <2>1, <2>2, <3>1 DEF WaysApart
    <3>2. CASE q.way = "password"
      BY <1>1, <2>1, <3>2 DEF WaysApart, AloneOrReturns
    <3> QED
      BY <1>2, <3>1, <3>2
  <2>5. /\ \A p, s \in trips' : p.at = "accepted" /\ s.at = "accepted" => p = s
        /\ \A p \in trips' : p.way = "return" /\ p.at = "accepted" => oidcSession' = None
    BY <1>1, <2>1 DEF WaysApart
  <2> QED
    BY <2>2, <2>3, <2>4, <2>5 DEF WaysApart
<1>6. HomeStays'
  BY <1>1 DEF SignInv, HomeStays
<1>7. ResultUnderWay'
  BY <1>1, <1>2 DEF SignInv, ResultUnderWay
<1> QED
  BY <1>3, <1>4, <1>5, <1>6, <1>7 DEF SignInv

LEMMA DocumentIsLoaded ==
  ASSUME SignInv, NEW q \in trips, NewDocument(q)
  PROVE  SignInv'
<1>1. /\ signRoute' = "login" /\ step' = "credentials" /\ totpToken' = None
      /\ signedIn' = None /\ home' = None /\ crossed' = FALSE
  BY DEF NewDocument
<1>2. None \in OneOrNone /\ tripCount \in Nat /\ oidcSession \in OneOrNone /\ dropped \in BOOLEAN /\ taken \in BOOLEAN
  BY DEF SignInv, SignTypeOK, OneOrNone
<1>3. CASE /\ q.at = "refused" /\ oidcAction' = FALSE /\ trips' = {}
           /\ dropped' = (dropped \/ signedIn # None \/ \E p \in trips : p.way = "return")
           /\ UNCHANGED <<oidcSession, taken, tripCount>>
  <2>1. SignTypeOK'
    BY <1>1, <1>2, <1>3 DEF SignTypeOK
  <2>2. TripsHaveAccounts' /\ WaysApart' /\ HomeStays'
    BY <1>1, <1>3 DEF TripsHaveAccounts, WaysApart, AloneOrReturns, HomeStays
  <2>3. ResultUnderWay'
    BY <1>1, <1>3 DEF SignInv, ResultUnderWay
  <2> QED
    BY <2>1, <2>2, <2>3 DEF SignInv
<1>4. CASE /\ oidcAction' = TRUE /\ oidcSession' \in Accounts
           /\ trips' = {[n |-> tripCount + 1, way |-> "return", who |-> None, at |-> "sent", here |-> TRUE]}
           /\ tripCount' = tripCount + 1
           /\ dropped' = FALSE /\ taken' = FALSE
  <2>0. tripCount + 1 \in Nat
    BY <1>2
  <2>1. PICK t \in TripRecord : trips' = {t} /\ t.way = "return" /\ t.at = "sent" /\ t.here = TRUE
    <3> DEFINE t == [n |-> tripCount + 1, way |-> "return", who |-> None, at |-> "sent", here |-> TRUE]
    <3>1. t \in TripRecord /\ t.way = "return" /\ t.at = "sent" /\ t.here = TRUE
      BY <1>2, <2>0 DEF TripRecord, Ways
    <3> QED
      BY <1>4, <3>1
  <2>2. SignTypeOK'
    BY <1>1, <1>2, <1>4, <2>0, <2>1 DEF SignTypeOK, OneOrNone
  <2>3. TripsHaveAccounts' /\ HomeStays' /\ ResultUnderWay'
    BY <1>1, <1>4, <2>1 DEF TripsHaveAccounts, HomeStays, ResultUnderWay
  <2>4. WaysApart'
    BY <1>1, <2>1 DEF WaysApart, AloneOrReturns
  <2> QED
    BY <2>2, <2>3, <2>4 DEF SignInv
<1> QED
  BY <1>3, <1>4 DEF NewDocument

\* The invariant, for every number of exchanges: while no way was begun beside another that
\* the flags do not tell of, exchanges are alone or ask for one result of a provider, and
\* nothing that is under way when the dashboard is open will sign another account in.
THEOREM SignInvariant == SignSpec => []SignInv
<1>1. SignInit => SignInv
  BY SignInitial
<1>2. ASSUME SignInv, [SignNext]_signVars
      PROVE  SignInv'
  <2>1. CASE UNCHANGED signVars
    BY <1>2, <2>1 DEF signVars, SignInv, SignTypeOK, TripsHaveAccounts, WaysApart, AloneOrReturns, HomeStays,
                      ResultUnderWay
  <2>2. CASE \/ AskAgain \/ SubmitTotp \/ \E who \in Accounts : SubmitCredentials(who)
             \/ \E way \in {"passkey", "provider"} : OtherWay(way)
    BY <1>2, <2>2, WaysBegin
  <2>3. CASE BackToCredentials \/ LeaveSignIn \/ ReturnToSignIn
    BY <1>2, <2>3, PageIsLeft
  <2>4. ASSUME NEW q \in trips, TripStep(q)
        PROVE  SignInv'
    <3>1. CASE ServeTrip(q)
      BY <1>2, <2>4, <3>1, TripIsServed
    <3>2. CASE SignedInBy(q)
      BY <1>2, <2>4, <3>2, TripSignsIn
    <3>3. CASE AskForTotp(q) \/ TripFails(q)
      BY <1>2, <2>4, <3>3, TripEndsHere
    <3>4. CASE NewDocument(q)
      BY <1>2, <2>4, <3>4, DocumentIsLoaded
    <3> QED
      BY <2>4, <3>1, <3>2, <3>3, <3>4 DEF TripStep
  <2> QED
    BY <1>2, <2>1, <2>2, <2>3, <2>4 DEF SignNext
<1> QED
  BY <1>1, <1>2, PTL DEF SignSpec

\* The dashboard shows the account whose token the tab holds, and the account of a result of
\* a provider that was read is signed in once its readers are answered, however many
\* exchanges overlap and whichever page they were begun on.
THEOREM AttemptsEndRight == SignSpec => []SignInEnds
<1>1. SignInv => SignInEnds
  BY DEF SignInv, HomeStays, ResultUnderWay, SignInEnds, HomeIsSignedIn, ResultSignsIn
<1> QED
  BY <1>1, SignInvariant, PTL

-----------------------------------------------------------------------------
(* DetailCache: nothing from before an invalidation comes back. *)

detailVars == <<serverVars, cacheVars>>

\* The server's writes only go on, so that an answer of the present version is at
\* least as new as the last invalidation when it is given and stays so.
WritesGoOn ==
    \A s \in Subs : /\ data[s] # Nothing => data[s] <= writes
                    /\ floor[s] <= data[s]

AnswersAreCurrent ==
    \A l \in loads : /\ l.sentIn <= version[l.sub]
                     /\ l.sentIn = version[l.sub] /\ l.got # Nothing => l.got >= floor[l.sub]

CacheInv ==
    /\ CacheTypeOK
    /\ WritesGoOn
    /\ AnswersAreCurrent
    /\ CachedSinceInvalidation
    /\ OneRequestPerVersion

LEMMA NothingIsLast == MaxWrites \in Nat /\ Nothing \in Nat /\ \A w \in Writes : w < Nothing
  BY CacheBounds DEF Nothing, Writes

LEMMA CacheInvInit == CacheInit => CacheInv
  <1> SUFFICES ASSUME CacheInit PROVE CacheInv
    OBVIOUS
  <1> USE CacheBounds, NothingIsLast DEF CacheInit
  <1>1. CacheTypeOK
    BY DEF CacheTypeOK, Writes
  <1>2. WritesGoOn /\ AnswersAreCurrent
    BY DEF WritesGoOn, AnswersAreCurrent, Nothing
  <1>3. CachedSinceInvalidation /\ OneRequestPerVersion
    BY DEF CachedSinceInvalidation, OneRequestPerVersion
  <1> QED
    BY <1>1, <1>2, <1>3 DEF CacheInv

\* A write of a subscription that is there, or the first of one that nobody asked for yet.
LEMMA CommitKeeps ==
  ASSUME CacheInv, NEW s \in Subs, data[s] # Nothing \/ floor[s] = 0, Commit(s), UNCHANGED cacheVars
  PROVE  CacheInv'
  <1> USE CacheBounds, NothingIsLast DEF CacheInv, Commit, cacheVars
  <1>1. CacheTypeOK'
    BY DEF CacheTypeOK, Writes
  <1>2. WritesGoOn'
    BY DEF CacheTypeOK, WritesGoOn, Writes, Nothing
  <1>3. AnswersAreCurrent' /\ CachedSinceInvalidation' /\ OneRequestPerVersion'
    BY DEF AnswersAreCurrent, CachedSinceInvalidation, OneRequestPerVersion
  <1> QED
    BY <1>1, <1>2, <1>3

LEMMA CacheInvStep == ASSUME CacheInv, [CacheNext]_detailVars PROVE CacheInv'
  <1> USE CacheBounds, NothingIsLast DEF CacheInv
  <1>1. ASSUME NEW s \in Subs, data[s] # Nothing, Commit(s), UNCHANGED cacheVars PROVE CacheInv'
    BY <1>1, CommitKeeps
  <1>2. ASSUME NEW s \in Subs, Remove(s), UNCHANGED cacheVars PROVE CacheInv'
    <2> USE <1>2 DEF Remove, cacheVars
    <2>1. CacheTypeOK'
      BY DEF CacheTypeOK
    <2>2. WritesGoOn'
      BY DEF CacheTypeOK, WritesGoOn, Writes, Nothing
    <2>3. AnswersAreCurrent' /\ CachedSinceInvalidation' /\ OneRequestPerVersion'
      BY DEF AnswersAreCurrent, CachedSinceInvalidation, OneRequestPerVersion
    <2> QED
      BY <2>1, <2>2, <2>3
  <1>3. ASSUME NEW s \in Subs, SendLoad(s), UNCHANGED serverVars PROVE CacheInv'
    <2> USE <1>3 DEF SendLoad, serverVars
    <2>1. CacheTypeOK'
      BY DEF CacheTypeOK
    <2>2. WritesGoOn' /\ CachedSinceInvalidation'
      BY DEF WritesGoOn, CachedSinceInvalidation
    <2>3. AnswersAreCurrent'
      BY DEF AnswersAreCurrent, CacheTypeOK
    <2>4. OneRequestPerVersion'
      <3> DEFINE sent == [sub |-> s, sentIn |-> version[s], got |-> Nothing]
      <3>1. loads' = loads \cup {sent} /\ pending' = [pending EXCEPT ![s] = TRUE] /\ version' = version
        OBVIOUS
      <3>2. \A l \in loads : ~(l.sub = s /\ l.sentIn = version[s])
        BY DEF OneRequestPerVersion, NeedsRequest
      <3>3. ASSUME NEW k \in loads', NEW l \in loads', k.sub = l.sub, k.sentIn = l.sentIn PROVE k = l
        BY <3>1, <3>2, <3>3 DEF OneRequestPerVersion
      <3>4. ASSUME NEW u \in Subs PROVE (pending[u])' <=> \E l \in loads' : l.sub = u /\ l.sentIn = version[u]
        <4>1. CASE u = s
          <5>1. sent \in loads' /\ sent.sub = u /\ sent.sentIn = version[u]
            BY <3>1, <4>1
          <5>2. pending'[u] = TRUE
            BY <3>1, <4>1 DEF CacheTypeOK
          <5> QED
            BY <5>1, <5>2
        <4>2. CASE u # s
          <5>1. pending'[u] = pending[u] /\ sent.sub # u
            BY <3>1, <4>2 DEF CacheTypeOK
          <5>2. pending[u] <=> \E l \in loads : l.sub = u /\ l.sentIn = version[u]
            BY DEF OneRequestPerVersion
          <5> QED
            BY <3>1, <5>1, <5>2
        <4> QED
          BY <4>1, <4>2
      <3> QED
        BY <3>1, <3>3, <3>4 DEF OneRequestPerVersion
    <2> QED
      BY <2>1, <2>2, <2>3, <2>4
  <1>4. ASSUME NEW s \in Subs, Lapse(s), UNCHANGED serverVars PROVE CacheInv'
    BY <1>4 DEF Lapse, serverVars, CacheTypeOK, WritesGoOn, AnswersAreCurrent,
                CachedSinceInvalidation, OneRequestPerVersion
  <1>5. ASSUME NEW s \in Subs, Invalidate(s), UNCHANGED serverVars PROVE CacheInv'
    <2> USE <1>5 DEF Invalidate, serverVars
    <2>1. CacheTypeOK'
      BY DEF CacheTypeOK
    <2>2. WritesGoOn' /\ CachedSinceInvalidation'
      BY DEF WritesGoOn, CachedSinceInvalidation, CacheTypeOK, Writes
    <2>3. AnswersAreCurrent'
      BY DEF AnswersAreCurrent, CacheTypeOK
    <2>4. OneRequestPerVersion'
      BY DEF OneRequestPerVersion, AnswersAreCurrent, CacheTypeOK
    <2> QED
      BY <2>1, <2>2, <2>3, <2>4
  <1>6. ASSUME NEW l \in loads, ServeLoad(l), UNCHANGED serverVars PROVE CacheInv'
    <2> USE <1>6 DEF ServeLoad, serverVars
    <2>0. l = [sub |-> l.sub, sentIn |-> l.sentIn, got |-> Nothing] /\ l.sub \in Subs
      BY DEF CacheTypeOK
    <2>1. CacheTypeOK'
      BY <2>0 DEF CacheTypeOK
    <2>2. WritesGoOn' /\ CachedSinceInvalidation'
      BY DEF WritesGoOn, CachedSinceInvalidation
    <2>3. AnswersAreCurrent'
      BY <2>0 DEF AnswersAreCurrent, WritesGoOn, CacheTypeOK, Writes
    <2>4. OneRequestPerVersion'
      <3> DEFINE served == [l EXCEPT !.got = data[l.sub]]
      <3>1. /\ loads' = (loads \ {l}) \cup {served} /\ pending' = pending /\ version' = version
            /\ served.sub = l.sub /\ served.sentIn = l.sentIn
        BY <2>0
      <3> HIDE DEF served
      <3>2. ASSUME NEW k \in loads', NEW m \in loads', k.sub = m.sub, k.sentIn = m.sentIn PROVE k = m
        BY <3>1, <3>2 DEF OneRequestPerVersion
      <3>3. ASSUME NEW u \in Subs
            PROVE  (\E k \in loads : k.sub = u /\ k.sentIn = version[u])
                      <=> \E k \in loads' : k.sub = u /\ k.sentIn = version[u]
        BY <3>1
      <3> QED
        BY <3>1, <3>2, <3>3 DEF OneRequestPerVersion
    <2> QED
      BY <2>1, <2>2, <2>3, <2>4
  <1>7. ASSUME NEW l \in loads, LoadArrives(l), UNCHANGED serverVars PROVE CacheInv'
    <2> USE <1>7 DEF LoadArrives, Keep, serverVars
    <2>1. CacheTypeOK'
      BY DEF CacheTypeOK
    <2>2. WritesGoOn' /\ AnswersAreCurrent'
      BY DEF WritesGoOn, AnswersAreCurrent
    <2>3. CachedSinceInvalidation'
      BY DEF CachedSinceInvalidation, AnswersAreCurrent, CacheTypeOK
    <2>4. OneRequestPerVersion'
      BY DEF OneRequestPerVersion, CacheTypeOK
    <2> QED
      BY <2>1, <2>2, <2>3, <2>4
  <1>8. ASSUME NEW l \in loads, LoadFails(l), UNCHANGED serverVars PROVE CacheInv'
    <2> USE <1>8 DEF LoadFails, serverVars
    <2>1. CacheTypeOK'
      BY DEF CacheTypeOK
    <2>2. WritesGoOn' /\ AnswersAreCurrent' /\ CachedSinceInvalidation'
      BY DEF WritesGoOn, AnswersAreCurrent, CachedSinceInvalidation
    <2>3. OneRequestPerVersion'
      BY DEF OneRequestPerVersion, CacheTypeOK
    <2> QED
      BY <2>1, <2>2, <2>3
  <1>9. CASE UNCHANGED detailVars
    BY <1>9 DEF detailVars, serverVars, cacheVars, CacheTypeOK, WritesGoOn, AnswersAreCurrent,
                CachedSinceInvalidation, OneRequestPerVersion
  <1> QED
    BY <1>1, <1>2, <1>3, <1>4, <1>5, <1>6, <1>7, <1>8, <1>9 DEF CacheNext

LEMMA CacheInvHolds == CacheSpec => []CacheInv
  <1>1. CacheInit => CacheInv
    BY CacheInvInit
  <1>2. CacheInv /\ [CacheNext]_detailVars => CacheInv'
    BY CacheInvStep
  <1> QED
    BY <1>1, <1>2, PTL DEF CacheSpec, detailVars

\* A detail in the cache is at least as new as the last invalidation: an answer that
\* was under way when a page wrote never comes back into the cache; and two openings of
\* a drawer ask the server once, the entry of a request being there exactly as long as
\* its answer would be kept (subscription-detail-cache.ts:38-62).
THEOREM CacheForgets == CacheSpec => []CacheAgrees
  <1>1. CacheInv => CacheAgrees
    BY DEF CacheInv, CacheAgrees
  <1> QED
    BY <1>1, CacheInvHolds, PTL

-----------------------------------------------------------------------------
(* SubscriptionPages: a write acts on what was shown, and the pages catch up. *)

Values == Writes \cup {Nothing}
Lists == [Subs -> Values]
RunKinds == {"load", "delete", "command", "snooze"} \cup FormKinds

RunRecord(i) ==
    [id : {i}, kind : RunKinds, page : Pages, sub : Subs, saw : Values,
     at : {"sent", "done", "lost", "refused", "fetching"}, list : Lists \cup {Idle}, centre : Lists \cup {Idle},
     here : BOOLEAN, alone : BOOLEAN, ok : BOOLEAN]

FormRecord(i) == [on : {TRUE}, sub : Subs \cup {Nothing}, base : Values, run : {i}, ok : BOOLEAN]

DrawerRecord ==
    [on : {TRUE}, sub : Subs, base : Values, heard : SUBSET (Subs \X (0..MaxInvalidations)), of : Subs,
     got : Values, since : Values, ok : BOOLEAN]

PagesTypeOK ==
    /\ page \in Pages /\ loaded \in BOOLEAN /\ missed \in BOOLEAN /\ blind \in BOOLEAN
    /\ list \in Lists /\ hidden \in Lists /\ centre \in Lists /\ known \in Lists /\ born \subseteq Subs
    /\ \A r \in runs : r \in RunRecord(r.id)
    /\ form = Nobody \/ form \in FormRecord(form.run)
    /\ drawer = ClosedDrawer \/ drawer \in DrawerRecord

\* A handler that was alone when it started is the only one; those of a page that was
\* left can only be there while the next page does not know what they wrote.
RunsApart ==
    /\ \A r \in runs : /\ r.alone => runs = {r}
                       /\ r.here => r.page = page
                       /\ ~r.here => missed
                       /\ r.kind = "load" => r.at = "fetching"
                       /\ r.kind = "delete" => r.page = "dashboard"
                       /\ r.kind \in {"command", "snooze"} => r.page = "actions"
                       /\ r.at # "fetching" => r.list = Idle /\ r.centre = Idle
    /\ ~missed => loaded

\* The page has what the server has unless a handler has written and is still on its way.
Changed == \E r \in runs : r.at \in {"done", "lost", "fetching"}

Agree == list = data /\ (page = "actions" => centre = Centre)

ListFollows ==
    /\ ~missed => Agree \/ Changed
    /\ \A r \in runs : r.alone =>
        /\ r.list # Idle => r.list = data
        /\ r.centre # Idle => r.centre = Centre
        /\ r.at = "done" /\ r.here /\ ~Refetches(r) /\ ~missed =>
              list[r.sub] # Nothing /\ data = [list EXCEPT ![r.sub] = r.saw]

\* While a form is open that was opened on a settled page, its own handler is the only one.
FormFits ==
    /\ ~(form.on /\ drawer.on)
    /\ form.on /\ form.ok =>
        /\ \A r \in runs : r.alone /\ r.here /\ r.kind \in FormKinds /\ r.id = form.run
        /\ form.run = 0 => runs = {}
        /\ ~missed /\ form.sub # Nothing => form.base = data[form.sub] \/ Changed

\* Under a drawer that was opened on a settled page nothing is written.
DrawerFits ==
    drawer.on /\ drawer.ok =>
        /\ runs = {} /\ ~missed
        /\ drawer.base = data[drawer.sub] /\ floor[drawer.sub] = data[drawer.sub]
        /\ drawer.got # Nothing => drawer.got = data[drawer.sub]
        /\ \A h \in drawer.heard : h = <<drawer.sub, version[drawer.sub]>>

WritesFit ==
    /\ ~blind
    /\ \A r \in runs : r.at = "sent" /\ r.ok /\ r.alone => r.saw = data[r.sub]

\* What a drawer shows and may hear is of its subscription, and not older than what
\* was known when it was opened.
DrawerFollows ==
    drawer.on =>
        /\ drawer.of = drawer.sub /\ \A h \in drawer.heard : h[1] = drawer.sub
        /\ drawer.since <= data[drawer.sub]
        /\ drawer.got # Nothing => drawer.since <= drawer.got
        /\ \A l \in loads : <<l.sub, l.sentIn>> \in drawer.heard /\ l.got # Nothing => drawer.since <= l.got

\* So is what the cache has and may still get; that of a new subscription has nothing older.
CacheFollows ==
    /\ \A s \in Subs : /\ known[s] <= data[s]
                       /\ cache[s] # Nothing => known[s] <= cache[s] /\ cache[s] <= data[s]
    /\ \A l \in loads : l.got # Nothing =>
        /\ l.got <= data[l.sub]
        /\ l.sentIn = version[l.sub] => known[l.sub] <= l.got

AnswersFollow ==
    \A r \in runs : r.at = "done" =>
        /\ r.saw <= data[r.sub]
        /\ r.kind = "create" =>
              /\ cache[r.sub] # Nothing => r.saw <= cache[r.sub]
              /\ \A l \in loads : l.sub = r.sub /\ l.got # Nothing => r.saw <= l.got

\* A subscription that is not created yet, and what nobody can know of it.
Unborn(s) == s \notin born \/ \E r \in runs : r.kind = "create" /\ r.at = "sent" /\ r.sub = s

Unheard(s) ==
    /\ data[s] = Nothing /\ floor[s] = 0 /\ known[s] = 0 /\ cache[s] = Nothing
    /\ \A l \in loads : l.sub = s => l.got = Nothing
    /\ \A r \in runs : r.sub = s => r.at # "done"
    /\ drawer.on /\ drawer.sub = s => drawer.since = 0

BirthsFit ==
    /\ \A s \in Subs : Unborn(s) => Unheard(s)
    /\ \A r \in runs : r.kind = "create" => r.sub \in born
    /\ \A q, r \in runs :
          q.kind = "create" /\ q.at = "sent" /\ r.kind = "create" /\ r.at = "sent" /\ q.sub = r.sub => q = r

PagesInv ==
    /\ PagesTypeOK /\ CacheInv /\ RunsApart /\ ListFollows /\ FormFits /\ DrawerFits /\ WritesFit
    /\ DrawerFollows /\ CacheFollows /\ AnswersFollow /\ BirthsFit

LEMMA ValuesAre ==
  /\ Nothing \in Values /\ 0 \in Values /\ Values \subseteq Nat
  /\ \A v \in Values : 0 <= v /\ v <= Nothing /\ (v # Nothing => v \in Writes)
  BY CacheBounds DEF Values, Writes, Nothing

LEMMA PagesInvInit == Init => PagesInv
  <1> SUFFICES ASSUME Init PROVE PagesInv
    OBVIOUS
  <1>1. PICK first \in Subs : first = CHOOSE s \in Subs : TRUE
    BY PagesAssumption
  <1>2. PICK r : /\ r \in RunRecord(1) /\ r.id = 1 /\ r.kind = "load" /\ r.page = page /\ r.at = "fetching"
                 /\ r.here = TRUE /\ r.ok = FALSE /\ r.list = Idle /\ r.centre = Idle /\ runs = {r}
    <2>1. page \in Pages
      BY DEF Init
    <2> DEFINE r == [id |-> 1, kind |-> "load", page |-> page, sub |-> first, saw |-> Nothing, at |-> "fetching",
                     list |-> Idle, centre |-> Idle, here |-> TRUE, alone |-> TRUE, ok |-> FALSE]
    <2>2. r \in RunRecord(1)
      BY <2>1, ValuesAre DEF RunRecord, RunKinds
    <2>3. runs = {r}
      BY <1>1 DEF Init
    <2> QED
      BY <2>2, <2>3
  <1>3. /\ data = [s \in Subs |-> IF s \in Created THEN 0 ELSE Nothing] /\ loads = {} /\ born = Created
        /\ cache = [s \in Subs |-> Nothing] /\ floor = [s \in Subs |-> 0] /\ known = [s \in Subs |-> 0]
        /\ loaded = FALSE /\ missed = TRUE /\ blind = FALSE /\ page \in Pages /\ form = Nobody
        /\ drawer = [on |-> FALSE, heard |-> {}] /\ form.on = FALSE /\ drawer.on = FALSE
        /\ list = [s \in Subs |-> Nothing] /\ hidden = [s \in Subs |-> Nothing] /\ centre = [s \in Subs |-> Nothing]
    BY DEF Init, CacheInit, Nobody
  <1>4. CacheInv
    BY CacheInvInit DEF Init
  <1>5. PagesTypeOK
    BY <1>2, <1>3, ValuesAre, PagesAssumption DEF PagesTypeOK, Lists, ClosedDrawer
  <1>6. RunsApart /\ ListFollows
    BY <1>2, <1>3 DEF RunsApart, ListFollows, Changed
  <1>7. FormFits /\ DrawerFits /\ WritesFit /\ DrawerFollows /\ AnswersFollow
    BY <1>2, <1>3 DEF FormFits, DrawerFits, WritesFit, DrawerFollows, AnswersFollow
  <1>8. CacheFollows
    BY <1>3, ValuesAre DEF CacheFollows
  <1>9. BirthsFit
    BY <1>2, <1>3 DEF BirthsFit, Unborn, Unheard
  <1> QED
    BY <1>4, <1>5, <1>6, <1>7, <1>8, <1>9 DEF PagesInv

\* What the pages have besides the drawer.
rest == <<page, loaded, list, hidden, centre, form, runs, born, known, missed, blind>>

\* What a step of the cache does to it: details come from answers of the present version,
\* and answers from the server.
CacheMoves ==
    /\ UNCHANGED <<serverVars, version, floor>>
    /\ \A s \in Subs : \/ cache'[s] \in {cache[s], Nothing}
                       \/ \E l \in loads : l.sub = s /\ l.sentIn = version[s] /\ l.got # Nothing /\ cache'[s] = l.got
    /\ \A l \in loads' : \/ l \in loads \/ l.got = Nothing
                         \/ /\ l.got = data[l.sub] /\ l.sub \in Subs /\ data[l.sub] # Nothing
                            /\ \E k \in loads : k.sub = l.sub /\ k.sentIn = l.sentIn

LEMMA CacheStepMoves ==
  ASSUME CacheInv, UNCHANGED serverVars,
         \/ \E s \in Subs : SendLoad(s) \/ Lapse(s)
         \/ \E l \in loads : ServeLoad(l) \/ LoadArrives(l) \/ LoadFails(l)
  PROVE  CacheMoves /\ CacheInv'
  <1> USE DEF CacheInv, CacheTypeOK
  <1>1. CacheInv'
    BY CacheInvStep DEF CacheNext
  <1>2. ASSUME NEW s \in Subs, SendLoad(s) PROVE CacheMoves
    BY <1>2 DEF SendLoad, CacheMoves
  <1>3. ASSUME NEW s \in Subs, Lapse(s) PROVE CacheMoves
    BY <1>3 DEF Lapse, CacheMoves
  <1>4. ASSUME NEW l \in loads, ServeLoad(l) PROVE CacheMoves
    <2>1. PICK served : served = [l EXCEPT !.got = data[l.sub]]
      OBVIOUS
    <2>2. served.sub = l.sub /\ served.sentIn = l.sentIn /\ served.got = data[l.sub] /\ l.sub \in Subs
      BY <2>1
    <2>3. /\ loads' = (loads \ {l}) \cup {served} /\ data[l.sub] # Nothing
          /\ UNCHANGED <<cache, version, floor>>
      BY <1>4, <2>1 DEF ServeLoad
    <2> QED
      BY <2>2, <2>3 DEF CacheMoves
  <1>5. ASSUME NEW l \in loads, LoadArrives(l) PROVE CacheMoves
    <2>1. /\ l.got # Nothing /\ loads' = loads \ {l} /\ UNCHANGED <<version, floor>>
          /\ \/ cache' = cache
             \/ version[l.sub] = l.sentIn /\ cache' = [cache EXCEPT ![l.sub] = l.got]
      BY <1>5 DEF LoadArrives, Keep
    <2> QED
      BY <2>1 DEF CacheMoves
  <1>6. ASSUME NEW l \in loads, LoadFails(l) PROVE CacheMoves
    BY <1>6 DEF LoadFails, CacheMoves
  <1> QED
    BY <1>1, <1>2, <1>3, <1>4, <1>5, <1>6

LEMMA StandingStill == ASSUME CacheInv, UNCHANGED <<serverVars, cacheVars>> PROVE CacheMoves /\ CacheInv'
  BY CacheInvStep DEF CacheMoves, detailVars, cacheVars

\* No step of the cache brings back what is older than what was known.
LEMMA CacheMovesFollow ==
  ASSUME PagesInv, CacheMoves, UNCHANGED rest
  PROVE  /\ CacheFollows' /\ AnswersFollow'
         /\ \A s \in Subs : Unborn(s)' =>
                /\ data'[s] = Nothing /\ floor'[s] = 0 /\ known'[s] = 0 /\ cache'[s] = Nothing
                /\ \A l \in loads' : l.sub = s => l.got = Nothing
                /\ \A r \in runs' : r.sub = s => r.at # "done"
  <1> USE DEF PagesInv
  <1>1. UNCHANGED <<writes, data, version, floor, known, runs, born>>
    BY DEF CacheMoves, rest, serverVars
  <1>2. \A s \in Subs : known[s] <= data[s] /\ known[s] \in Nat /\ data[s] \in Nat
    BY ValuesAre DEF CacheFollows, PagesTypeOK, Lists, CacheInv, CacheTypeOK, Values
  <1>3. \A l \in loads : l.sub \in Subs
    BY DEF CacheInv, CacheTypeOK
  <1>4. CacheFollows'
    <2>1. ASSUME NEW s \in Subs, cache'[s] # Nothing PROVE known[s] <= cache'[s] /\ cache'[s] <= data[s]
      BY <2>1 DEF CacheMoves, CacheFollows
    <2>2. ASSUME NEW l \in loads', l.got # Nothing
          PROVE  l.got <= data[l.sub] /\ (l.sentIn = version[l.sub] => known[l.sub] <= l.got)
      BY <1>2, <2>2 DEF CacheMoves, CacheFollows
    <2> QED
      BY <1>1, <1>2, <2>1, <2>2 DEF CacheFollows
  <1>5. AnswersFollow'
    <2> SUFFICES ASSUME NEW r \in runs, r.at = "done"
                 PROVE  /\ r.saw <= data[r.sub]
                        /\ r.kind = "create" =>
                              /\ cache'[r.sub] # Nothing => r.saw <= cache'[r.sub]
                              /\ \A l \in loads' : l.sub = r.sub /\ l.got # Nothing => r.saw <= l.got
      BY <1>1 DEF AnswersFollow
    <2>1. r.sub \in Subs /\ r.saw <= data[r.sub]
      BY DEF AnswersFollow, PagesTypeOK, RunRecord
    <2>2. ASSUME r.kind = "create", cache'[r.sub] # Nothing PROVE r.saw <= cache'[r.sub]
      BY <2>1, <2>2 DEF AnswersFollow, CacheMoves
    <2>3. ASSUME r.kind = "create", NEW l \in loads', l.sub = r.sub, l.got # Nothing PROVE r.saw <= l.got
      BY <2>1, <2>3 DEF AnswersFollow, CacheMoves
    <2> QED
      BY <2>1, <2>2, <2>3
  <1>6. ASSUME NEW s \in Subs, Unborn(s)'
        PROVE  /\ data'[s] = Nothing /\ floor'[s] = 0 /\ known'[s] = 0 /\ cache'[s] = Nothing
               /\ \A l \in loads' : l.sub = s => l.got = Nothing
               /\ \A r \in runs' : r.sub = s => r.at # "done"
    <2>1. Unheard(s)
      BY <1>1, <1>6 DEF BirthsFit, Unborn
    <2>2. data'[s] = Nothing /\ floor'[s] = 0 /\ known'[s] = 0 /\ \A r \in runs' : r.sub = s => r.at # "done"
      BY <1>1, <2>1 DEF Unheard
    <2>3. cache'[s] = Nothing
      BY <2>1 DEF Unheard, CacheMoves
    <2>4. \A l \in loads' : l.sub = s => l.got = Nothing
      BY <2>1 DEF Unheard, CacheMoves
    <2> QED
      BY <2>2, <2>3, <2>4
  <1> QED
    BY <1>4, <1>5, <1>6

\* What does not look at the cache or the drawer.
LEMMA RestStays ==
  ASSUME PagesInv, UNCHANGED <<rest, data>>, drawer' = ClosedDrawer \/ drawer' \in DrawerRecord
  PROVE  PagesTypeOK' /\ RunsApart' /\ ListFollows' /\ WritesFit'
  <1>1. PagesTypeOK'
    BY DEF rest, PagesInv, PagesTypeOK, ClosedDrawer
  <1>2. RunsApart' /\ WritesFit'
    BY DEF rest, PagesInv, RunsApart, WritesFit
  <1>3. Centre' = Centre
    BY DEF rest, Centre
  <1>4. ListFollows'
    BY <1>3 DEF rest, PagesInv, ListFollows, Changed, Agree, Refetches
  <1> QED
    BY <1>1, <1>2, <1>4

\* The cache moves while the drawer stays as it is.
LEMMA DrawerStays ==
  ASSUME PagesInv, CacheMoves, UNCHANGED <<rest, drawer>>
  PROVE  FormFits' /\ DrawerFits' /\ DrawerFollows' /\ BirthsFit'
  <1>1. UNCHANGED <<writes, data, version, floor, known, runs, born, form, missed>>
    BY DEF CacheMoves, rest, serverVars
  <1>2. FormFits' /\ DrawerFits'
    BY <1>1 DEF PagesInv, FormFits, DrawerFits, Changed
  <1>3. DrawerFollows'
    <2> SUFFICES ASSUME drawer.on, NEW l \in loads', <<l.sub, l.sentIn>> \in drawer.heard, l.got # Nothing
                 PROVE  drawer.since <= l.got
      BY <1>1 DEF PagesInv, DrawerFollows
    <2>1. CASE l \in loads
      BY <2>1 DEF PagesInv, DrawerFollows
    <2>2. CASE l.got = data[l.sub]
      <3>1. l.sub = drawer.sub
        BY DEF PagesInv, DrawerFollows
      <3> QED
        BY <2>2, <3>1 DEF PagesInv, DrawerFollows
    <2> QED
      BY <2>1, <2>2 DEF CacheMoves
  <1>4. BirthsFit'
    <2>1. ASSUME NEW s \in Subs, Unborn(s)' PROVE Unheard(s)'
      <3>1. drawer.on /\ drawer.sub = s => drawer.since = 0
        BY <1>1, <2>1 DEF PagesInv, BirthsFit, Unborn, Unheard
      <3> QED
        BY <2>1, <3>1, CacheMovesFollow DEF Unheard
    <2> QED
      BY <1>1, <2>1 DEF PagesInv, BirthsFit
  <1> QED
    BY <1>2, <1>3, <1>4

LEMMA CacheStepKeeps ==
  ASSUME PagesInv, UNCHANGED <<serverVars, pageVars>>,
         \/ \E l \in loads : ServeLoad(l) \/ LoadFails(l)
         \/ \E s \in Subs : Lapse(s) \/ SendLoad(s)
  PROVE  PagesInv'
  <1>1. UNCHANGED <<rest, data, drawer>>
    BY DEF pageVars, rest, serverVars
  <1>2. CacheMoves /\ CacheInv'
    BY CacheStepMoves DEF PagesInv
  <1>3. drawer' = ClosedDrawer \/ drawer' \in DrawerRecord
    BY <1>1 DEF PagesInv, PagesTypeOK
  <1>4. PagesTypeOK' /\ RunsApart' /\ ListFollows' /\ WritesFit'
    BY <1>1, <1>3, RestStays
  <1>5. CacheFollows' /\ AnswersFollow'
    BY <1>1, <1>2, CacheMovesFollow
  <1>6. FormFits' /\ DrawerFits' /\ DrawerFollows' /\ BirthsFit'
    BY <1>1, <1>2, DrawerStays
  <1> QED
    BY <1>2, <1>4, <1>5, <1>6 DEF PagesInv

\* The detail drawer.
LEMMA DetailArrivesKeeps == ASSUME PagesInv, NEW l \in loads, DetailArrives(l) PROVE PagesInv'
  <1>1. UNCHANGED <<rest, data, serverVars>>
    BY DEF DetailArrives, rest, serverVars
  <1>2. CacheMoves /\ CacheInv'
    BY <1>1, CacheStepMoves DEF DetailArrives, PagesInv
  <1>3. l.got # Nothing /\ l.sub \in Subs /\ l.got \in Values /\ l \in loads
    BY DEF DetailArrives, LoadArrives, PagesInv, CacheInv, CacheTypeOK, Values
  <1>4. \/ UNCHANGED drawer
        \/ /\ drawer.on /\ <<l.sub, l.sentIn>> \in drawer.heard
           /\ drawer' = [drawer EXCEPT !.of = l.sub, !.got = l.got]
    BY DEF DetailArrives
  <1>5. CASE UNCHANGED drawer
    <2>1. drawer' = ClosedDrawer \/ drawer' \in DrawerRecord
      BY <1>5 DEF PagesInv, PagesTypeOK
    <2> QED
      BY <1>1, <1>2, <1>5, <2>1, RestStays, CacheMovesFollow, DrawerStays DEF PagesInv
  <1>6. CASE /\ drawer.on /\ <<l.sub, l.sentIn>> \in drawer.heard
             /\ drawer' = [drawer EXCEPT !.of = l.sub, !.got = l.got]
    <2>1. drawer \in DrawerRecord
      BY <1>6 DEF PagesInv, PagesTypeOK, ClosedDrawer
    <2>2. PICK d : d = drawer'
      OBVIOUS
    <2>3. /\ d \in DrawerRecord /\ d.on = drawer.on /\ d.sub = drawer.sub /\ d.base = drawer.base
          /\ d.heard = drawer.heard /\ d.since = drawer.since /\ d.ok = drawer.ok /\ d.of = l.sub /\ d.got = l.got
      BY <1>3, <1>6, <2>1, <2>2 DEF DrawerRecord
    <2>4. l.sub = drawer.sub /\ drawer.since <= l.got
      BY <1>3, <1>6 DEF PagesInv, DrawerFollows
    <2>5. PagesTypeOK' /\ RunsApart' /\ ListFollows' /\ WritesFit'
      BY <1>1, <2>2, <2>3, RestStays
    <2>6. CacheFollows' /\ AnswersFollow'
      BY <1>1, <1>2, CacheMovesFollow
    <2>7. UNCHANGED <<data, version, floor, form, runs, missed>>
      BY <1>1, <1>2 DEF rest, CacheMoves
    <2>8. FormFits'
      BY <2>2, <2>3, <2>7 DEF PagesInv, FormFits, Changed
    <2>9. DrawerFits'
      <3>1. ASSUME drawer.ok PROVE l.got = data[drawer.sub]
        <4>1. l.sentIn = version[l.sub] /\ floor[l.sub] = data[l.sub]
          BY <1>6, <2>4, <3>1 DEF PagesInv, DrawerFits
        <4>2. l.got >= floor[l.sub] /\ l.got <= data[l.sub]
          BY <1>3, <4>1 DEF PagesInv, CacheInv, AnswersAreCurrent, CacheFollows
        <4>3. l.got \in Nat /\ data[l.sub] \in Nat
          BY <1>3, ValuesAre DEF PagesInv, CacheInv, CacheTypeOK, Values
        <4> QED
          BY <2>4, <4>1, <4>2, <4>3
      <3> QED
        BY <1>6, <2>2, <2>3, <2>7, <3>1 DEF PagesInv, DrawerFits
    <2>10. DrawerFollows'
      <3>1. \A k \in loads' : k \in loads
        BY DEF DetailArrives, LoadArrives
      <3> QED
        BY <1>6, <2>2, <2>3, <2>4, <2>7, <3>1 DEF PagesInv, DrawerFollows
    <2>11. BirthsFit'
      <3>1. ASSUME NEW s \in Subs, Unborn(s)' PROVE Unheard(s)'
        <4>1. Unheard(s)
          BY <1>1, <3>1 DEF PagesInv, BirthsFit, Unborn, rest
        <4>2. (drawer.on /\ drawer.sub = s => drawer.since = 0)'
          BY <1>6, <2>2, <2>3, <4>1 DEF Unheard
        <4> QED
          BY <1>1, <1>2, <3>1, <4>2, CacheMovesFollow DEF Unheard
      <3> QED
        BY <1>1, <3>1 DEF PagesInv, BirthsFit, rest
    <2> QED
      BY <1>2, <2>5, <2>6, <2>8, <2>9, <2>10, <2>11 DEF PagesInv
  <1> QED
    BY <1>4, <1>5, <1>6

LEMMA OpenDetailKeeps == ASSUME PagesInv, NEW s \in Subs, OpenDetail(s) PROVE PagesInv'
  <1>1. UNCHANGED <<rest, data, serverVars>>
    BY DEF OpenDetail, rest, serverVars
  <1>2. CacheMoves /\ CacheInv'
    BY <1>1, CacheStepMoves, StandingStill DEF OpenDetail, LoadOrJoin, PagesInv
  <1>3. /\ form.on = FALSE /\ drawer = ClosedDrawer /\ list[s] # Nothing
        /\ drawer' = Drawer(s) /\ UNCHANGED <<cache, version, floor>>
    <2>1. ~form.on /\ ~drawer.on /\ drawer' = Drawer(s) /\ list[s] # Nothing
      BY DEF OpenDetail, Modal, DashboardShows, CalendarShows
    <2>2. form.on = FALSE
      BY <2>1 DEF PagesInv, PagesTypeOK, Nobody, FormRecord
    <2>3. drawer = ClosedDrawer
      BY <2>1 DEF PagesInv, PagesTypeOK, DrawerRecord
    <2>4. UNCHANGED <<cache, version, floor>>
      BY DEF OpenDetail, LoadOrJoin, SendLoad, cacheVars
    <2> QED
      BY <2>1, <2>2, <2>3, <2>4
  <1>4. /\ list[s] \in Values /\ cache[s] \in Values /\ known[s] \in Values /\ version[s] \in 0..MaxInvalidations
        /\ data[s] \in Values /\ Settled \in BOOLEAN
    BY DEF PagesInv, PagesTypeOK, Lists, CacheInv, CacheTypeOK, Values, Settled
  <1>5. PICK d : d = Drawer(s)
    OBVIOUS
  <1>6. /\ d.on = TRUE /\ d.sub = s /\ d.base = list[s] /\ d.of = s /\ d.got = cache[s] /\ d.since = known[s]
        /\ d.ok = (Settled /\ floor[s] = data[s])
        /\ d.heard = (IF cache[s] = Nothing THEN {<<s, version[s]>>} ELSE {})
    BY <1>3, <1>5 DEF Drawer, Listen, ClosedDrawer
  <1>7. d \in DrawerRecord
    <2>1. d.heard \in SUBSET (Subs \X (0..MaxInvalidations))
      BY <1>4, <1>6
    <2> QED
      BY <1>4, <1>5, <1>6, <2>1 DEF Drawer, DrawerRecord
  <1>8. PagesTypeOK' /\ RunsApart' /\ ListFollows' /\ WritesFit'
    BY <1>1, <1>3, <1>5, <1>7, RestStays
  <1>9. CacheFollows' /\ AnswersFollow'
    BY <1>1, <1>2, CacheMovesFollow
  <1>10. UNCHANGED <<data, version, floor, form, runs, missed, known, born>>
    BY <1>1, <1>2 DEF rest, CacheMoves
  <1>11. FormFits'
    BY <1>3, <1>10 DEF FormFits
  <1>12. DrawerFits'
    <2> SUFFICES ASSUME d.ok
                 PROVE  /\ runs = {} /\ ~missed /\ d.base = data[s] /\ floor[s] = data[s]
                        /\ d.got # Nothing => d.got = data[s]
                        /\ \A h \in d.heard : h = <<s, version[s]>>
      BY <1>3, <1>5, <1>6, <1>10 DEF DrawerFits
    <2>1. Settled /\ floor[s] = data[s] /\ runs = {} /\ ~missed
      BY <1>6 DEF Settled
    <2>2. list = data
      BY <2>1 DEF PagesInv, ListFollows, Changed, Agree
    <2>3. cache[s] # Nothing => cache[s] = data[s]
      <3>1. cache[s] \in Nat /\ data[s] \in Nat
        BY <1>4, ValuesAre
      <3> QED
        BY <2>1, <3>1 DEF PagesInv, CacheInv, CachedSinceInvalidation, CacheFollows
    <2> QED
      BY <1>6, <2>1, <2>2, <2>3
  <1>13. DrawerFollows'
    <2>1. ASSUME NEW l \in loads', <<l.sub, l.sentIn>> \in d.heard, l.got # Nothing PROVE d.since <= l.got
      <3>1. l.sub = s /\ l.sentIn = version[s]
        BY <1>6, <2>1
      <3>2. known[l.sub] <= l.got
        BY <1>9, <1>10, <2>1, <3>1 DEF CacheFollows
      <3> QED
        BY <1>6, <3>1, <3>2
    <2>2. d.since <= data[s] /\ (d.got # Nothing => d.since <= d.got)
      BY <1>6 DEF PagesInv, CacheFollows
    <2> QED
      BY <1>3, <1>5, <1>6, <1>10, <2>1, <2>2 DEF DrawerFollows
  <1>14. BirthsFit'
    <2>1. ASSUME NEW u \in Subs, Unborn(u)' PROVE Unheard(u)'
      <3>1. known[u] = 0
        BY <1>10, <2>1 DEF PagesInv, BirthsFit, Unborn, Unheard
      <3>2. (drawer.on /\ drawer.sub = u => drawer.since = 0)'
        BY <1>3, <1>5, <1>6, <3>1
      <3> QED
        BY <1>1, <1>2, <2>1, <3>2, CacheMovesFollow DEF Unheard
    <2> QED
      BY <1>10, <2>1 DEF PagesInv, BirthsFit
  <1> QED
    BY <1>2, <1>8, <1>9, <1>11, <1>12, <1>13, <1>14 DEF PagesInv

\* What opens and closes under the hands of the user.
LEMMA HandsKeep ==
  ASSUME PagesInv,
         \/ CloseDrawer \/ EditFromDrawer \/ OpenNewForm \/ CloseForm
         \/ \E s \in Subs : Edit(s)
  PROVE  PagesInv'
  <1>1. /\ UNCHANGED <<serverVars, cacheVars, writes, data, cache, version, loads, floor, page, loaded, list, hidden,
                       centre, runs, born, known, missed, blind>>
    BY DEF CloseDrawer, EditFromDrawer, OpenNewForm, CloseForm, Edit, serverVars, cacheVars
  <1>2. Settled \in BOOLEAN /\ (Settled => runs = {} /\ ~missed /\ Agree)
    BY DEF Settled, PagesInv, PagesTypeOK, ListFollows, Changed
  <1>3. /\ drawer' = ClosedDrawer \/ drawer' = drawer
        /\ form' = Nobody \/ form' = form \/ form' \in FormRecord(0)
        /\ ~(form'.on /\ drawer'.on)
        /\ form'.on /\ form'.ok /\ form' # form =>
              /\ runs = {} /\ ~missed /\ form'.run = 0
              /\ form'.sub # Nothing => form'.base = data[form'.sub]
    <2>1. CASE CloseDrawer
      BY <2>1 DEF CloseDrawer, ClosedDrawer
    <2>2. CASE CloseForm
      BY <2>2 DEF CloseForm, Nobody
    <2>3. CASE OpenNewForm
      <3>1. form' = [on |-> TRUE, sub |-> Nothing, base |-> Nothing, run |-> 0, ok |-> Settled] /\ drawer' = drawer
            /\ ~drawer.on
        BY <2>3 DEF OpenNewForm, Form, Modal
      <3> QED
        BY <1>2, <3>1, ValuesAre DEF FormRecord
    <2>4. ASSUME NEW s \in Subs, Edit(s)
          PROVE  /\ form' \in FormRecord(0) /\ form'.run = 0 /\ form'.ok = Settled /\ form'.sub = s
                 /\ form'.base = list[s] /\ drawer' = drawer /\ ~drawer.on
      <3>1. form' = [on |-> TRUE, sub |-> s, base |-> list[s], run |-> 0, ok |-> Settled] /\ drawer' = drawer
            /\ ~drawer.on /\ list[s] \in Values
        BY <2>4 DEF Edit, Form, Modal, PagesInv, PagesTypeOK, Lists
      <3> QED
        BY <1>2, <3>1 DEF FormRecord
    <2>5. CASE EditFromDrawer
      <3>1. drawer \in DrawerRecord
        BY <2>5 DEF EditFromDrawer, PagesInv, PagesTypeOK, ClosedDrawer
      <3>2. PICK base \in Values : base = ActiveSubscription
        BY <3>1 DEF ActiveSubscription, DrawerRecord
      <3>3. form' = [on |-> TRUE, sub |-> drawer.sub, base |-> base, run |-> 0, ok |-> drawer.ok /\ Settled]
        BY <2>5, <3>2 DEF EditFromDrawer, Form
      <3>4. drawer' = ClosedDrawer /\ drawer.sub \in Subs /\ (drawer.ok /\ Settled) \in BOOLEAN
        BY <1>2, <2>5, <3>1 DEF EditFromDrawer, DrawerRecord
      <3>5. drawer.ok => base = data[drawer.sub]
        BY <2>5, <3>2 DEF EditFromDrawer, ActiveSubscription, PagesInv, DrawerFits
      <3> QED
        BY <1>2, <3>3, <3>4, <3>5 DEF FormRecord, ClosedDrawer
    <2> QED
      BY <1>2, <2>1, <2>2, <2>3, <2>4, <2>5 DEF Agree
  <1>4. PagesTypeOK'
    <2>1. drawer' = ClosedDrawer \/ drawer' \in DrawerRecord
      BY <1>3 DEF PagesInv, PagesTypeOK
    <2>2. form' = Nobody \/ form' \in FormRecord((form.run)')
      BY <1>3 DEF PagesInv, PagesTypeOK, FormRecord
    <2> QED
      BY <1>1, <2>1, <2>2 DEF PagesInv, PagesTypeOK, ClosedDrawer
  <1>5. CacheInv'
    BY <1>1, StandingStill DEF PagesInv
  <1>6. RunsApart' /\ WritesFit'
    BY <1>1 DEF PagesInv, RunsApart, WritesFit
  <1>7. ListFollows'
    <2>1. Centre' = Centre
      BY <1>1 DEF Centre
    <2> QED
      BY <1>1, <2>1 DEF PagesInv, ListFollows, Changed, Agree, Refetches
  <1>8. FormFits'
    BY <1>1, <1>3 DEF PagesInv, FormFits, Changed
  <1>9. DrawerFits' /\ DrawerFollows'
    BY <1>1, <1>3 DEF PagesInv, DrawerFits, DrawerFollows, ClosedDrawer
  <1>10. CacheFollows' /\ AnswersFollow'
    BY <1>1 DEF PagesInv, CacheFollows, AnswersFollow
  <1>11. BirthsFit'
    BY <1>1, <1>3 DEF PagesInv, BirthsFit, Unborn, Unheard, ClosedDrawer
  <1> QED
    BY <1>4, <1>5, <1>6, <1>7, <1>8, <1>9, <1>10, <1>11 DEF PagesInv

\* What becomes of a handler when another starts: it is not alone any more and, when the
\* page is left, not of the page.
Follows(q, r, here) ==
    /\ q = [r EXCEPT !.alone = FALSE, !.here = here] /\ q \in RunRecord(r.id)
    /\ q.id = r.id /\ q.kind = r.kind /\ q.page = r.page /\ q.sub = r.sub /\ q.saw = r.saw /\ q.at = r.at
    /\ q.list = r.list /\ q.centre = r.centre /\ q.ok = r.ok /\ q.alone = FALSE /\ q.here = here

LEMMA FollowsIs ==
  ASSUME PagesTypeOK, NEW r \in runs, NEW here \in BOOLEAN
  PROVE  Follows([r EXCEPT !.alone = FALSE, !.here = here], r, here)
  <1>1. r \in RunRecord(r.id)
    BY DEF PagesTypeOK
  <1> QED
    BY <1>1 DEF Follows, RunRecord

\* A new handler.
New(n, kind, s, saw, at, p, ok) ==
    /\ n \in RunRecord(n.id) /\ n.kind = kind /\ n.page = p /\ n.sub = s /\ n.saw = saw /\ n.at = at
    /\ n.list = Idle /\ n.centre = Idle /\ n.here = TRUE /\ n.alone = (runs = {}) /\ n.ok = ok

LEMMA NewRunIs ==
  ASSUME NEW kind \in RunKinds, NEW s \in Subs, NEW saw \in Values, NEW at \in {"sent", "fetching"},
         NEW p \in Pages, NEW ok \in BOOLEAN
  PROVE  /\ New(NewRun(kind, s, saw, at, p, ok), kind, s, saw, at, p, ok)
         /\ NewRun(kind, s, saw, at, p, ok).id = CHOOSE i \in Ids : \A r \in runs : r.id # i
  <1>1. PICK id : id = CHOOSE i \in Ids : \A r \in runs : r.id # i
    OBVIOUS
  <1>2. NewRun(kind, s, saw, at, p, ok) =
          [id |-> id, kind |-> kind, page |-> p, sub |-> s, saw |-> saw, at |-> at, list |-> Idle,
           centre |-> Idle, here |-> TRUE, alone |-> runs = {}, ok |-> ok]
    BY <1>1 DEF NewRun
  <1>3. (runs = {}) \in BOOLEAN
    OBVIOUS
  <1> QED
    BY <1>1, <1>2, <1>3 DEF New, RunRecord

LEMMA StartIs ==
  ASSUME PagesTypeOK, NEW kind \in RunKinds, NEW s \in Subs, NEW saw \in Values,
         NEW at \in {"sent", "fetching"}, NEW ok \in BOOLEAN, Start(kind, s, saw, at, ok)
  PROVE  \E n : /\ New(n, kind, s, saw, at, page, ok)
                /\ n.id = CHOOSE i \in Ids : \A r \in runs : r.id # i
                /\ n \in runs' /\ (runs = {} => runs' = {n})
                /\ \A q \in runs' : q = n \/ \E r \in runs : Follows(q, r, r.here)
                /\ \A r \in runs : \E q \in runs' : Follows(q, r, r.here)
  <1>1. page \in Pages
    BY DEF PagesTypeOK
  <1>2. PICK n : n = NewRun(kind, s, saw, at, page, ok)
    OBVIOUS
  <1>3. New(n, kind, s, saw, at, page, ok) /\ n.id = CHOOSE i \in Ids : \A r \in runs : r.id # i
    BY <1>1, <1>2, NewRunIs
  <1>4. runs' = {[r EXCEPT !.alone = FALSE] : r \in runs} \cup {n}
    BY <1>2 DEF Start
  <1>5. ASSUME NEW r \in runs PROVE Follows([r EXCEPT !.alone = FALSE], r, r.here)
    <2>1. r \in RunRecord(r.id)
      BY DEF PagesTypeOK
    <2> QED
      BY <2>1 DEF Follows, RunRecord
  <1>6. n \in runs' /\ \A q \in runs' : q = n \/ \E r \in runs : Follows(q, r, r.here)
    BY <1>4, <1>5
  <1>7. \A r \in runs : \E q \in runs' : Follows(q, r, r.here)
    BY <1>4, <1>5
  <1>8. runs = {} => runs' = {n}
    BY <1>4
  <1> QED
    BY <1>3, <1>6, <1>7, <1>8

\* Handlers come and go while neither the server nor the cache nor what is known changes.
LEMMA RunsFollow ==
  ASSUME PagesInv, UNCHANGED <<serverVars, cacheVars, known, born>>, drawer' \in {drawer, ClosedDrawer},
         \A q \in runs' :
            \/ \E r \in runs : q.kind = r.kind /\ q.sub = r.sub /\ q.saw = r.saw
                               /\ (q.at \in {"sent", "done"} => q.at = r.at)
            \/ q.kind # "create" /\ q.at # "done",
         \A q, r \in runs' :
            q.kind = "create" /\ q.at = "sent" /\ r.kind = "create" /\ r.at = "sent" /\ q.sub = r.sub => q = r
  PROVE  CacheInv' /\ CacheFollows' /\ AnswersFollow' /\ BirthsFit' /\ DrawerFollows'
  <1>1. UNCHANGED <<writes, data, cache, version, loads, floor, known, born>>
    BY DEF serverVars, cacheVars
  <1>2. CacheInv'
    BY StandingStill DEF PagesInv
  <1>3. CacheFollows'
    BY <1>1 DEF PagesInv, CacheFollows
  <1>4. AnswersFollow'
    BY <1>1 DEF PagesInv, AnswersFollow
  <1>5. DrawerFollows'
    BY <1>1 DEF PagesInv, DrawerFollows, ClosedDrawer
  <1>6. BirthsFit'
    <2>1. ASSUME NEW s \in Subs, Unborn(s)' PROVE Unheard(s)'
      <3>1. Unheard(s)
        BY <1>1, <2>1 DEF PagesInv, BirthsFit, Unborn
      <3> QED
        BY <1>1, <3>1 DEF Unheard, ClosedDrawer
    <2>2. \A r \in runs' : r.kind = "create" => r.sub \in born'
      BY <1>1 DEF PagesInv, BirthsFit
    <2> QED
      BY <2>1, <2>2 DEF BirthsFit
  <1> QED
    BY <1>2, <1>3, <1>4, <1>5, <1>6

\* What a new handler leaves true, whoever starts it.
LEMMA StartKeeps ==
  ASSUME PagesInv, NEW kind \in RunKinds, NEW s \in Subs, NEW saw \in Values,
         NEW at \in {"sent", "fetching"}, NEW ok \in BOOLEAN, Start(kind, s, saw, at, ok),
         kind = "load" => at = "fetching", kind = "delete" => page = "dashboard",
         kind \in {"command", "snooze"} => page = "actions",
         at = "sent" /\ ok /\ runs = {} => saw = data[s],
         UNCHANGED <<data, page, loaded, list, hidden, centre, known, missed, blind, drawer>>,
         born' \in SUBSET Subs, form' = Nobody \/ form' \in FormRecord((form.run)')
  PROVE  PagesTypeOK' /\ RunsApart' /\ ListFollows' /\ WritesFit' /\ (Changed => Changed')
  <1>1. PagesTypeOK
    BY DEF PagesInv
  <1>2. PICK n : /\ New(n, kind, s, saw, at, page, ok)
                 /\ n \in runs' /\ (runs = {} => runs' = {n})
                 /\ \A q \in runs' : q = n \/ \E r \in runs : Follows(q, r, r.here)
                 /\ \A r \in runs : \E q \in runs' : Follows(q, r, r.here)
    BY <1>1, StartIs
  <1>3. \A q \in runs' : q.alone => q = n /\ runs = {}
    BY <1>2 DEF Follows, New
  <1>4. PagesTypeOK'
    <2>1. \A q \in runs' : q \in RunRecord(q.id)
      BY <1>2 DEF Follows, New
    <2> QED
      BY <2>1 DEF PagesInv, PagesTypeOK, ClosedDrawer
  <1>5. RunsApart'
    <2>1. ASSUME NEW q \in runs'
          PROVE  /\ q.alone => runs' = {q}
                 /\ q.here => q.page = page
                 /\ ~q.here => missed
                 /\ q.kind = "load" => q.at = "fetching"
                 /\ q.kind = "delete" => q.page = "dashboard"
                 /\ q.kind \in {"command", "snooze"} => q.page = "actions"
                 /\ q.at # "fetching" => q.list = Idle /\ q.centre = Idle
      <3>1. CASE q = n
        BY <1>2, <3>1 DEF New
      <3>2. CASE \E r \in runs : Follows(q, r, r.here)
        BY <3>2 DEF PagesInv, RunsApart, Follows
      <3> QED
        BY <1>2, <3>1, <3>2
    <2> QED
      BY <2>1 DEF PagesInv, RunsApart
  <1>6. Changed => Changed'
    BY <1>2 DEF Changed, Follows
  <1>7. ListFollows'
    <2>1. Centre' = Centre
      BY DEF Centre
    <2>2. n.list = Idle /\ n.centre = Idle /\ n.at # "done"
      BY <1>2 DEF New
    <2>3. \A q \in runs' : q.alone => q.list = Idle /\ q.centre = Idle /\ q.at # "done"
      BY <1>3, <2>2
    <2> QED
      BY <1>6, <2>1, <2>3 DEF PagesInv, ListFollows, Agree
  <1>8. WritesFit'
    <2>1. \A q \in runs' : q.at = "sent" /\ q.ok /\ q.alone => q.saw = data[q.sub]
      BY <1>2, <1>3 DEF New
    <2> QED
      BY <2>1 DEF PagesInv, WritesFit
  <1> QED
    BY <1>4, <1>5, <1>6, <1>7, <1>8

\* Handlers that start while nothing is open.
LEMMA CommandsKeep ==
  ASSUME PagesInv, Refresh \/ \E s \in Subs : Delete(s) \/ Command(s)
  PROVE  PagesInv'
  <1>1. /\ UNCHANGED <<serverVars, cacheVars, data, page, loaded, list, hidden, centre, form, drawer, born, known,
                       missed, blind>>
        /\ ~form.on /\ ~drawer.on
    BY DEF Refresh, Delete, Command, Modal, serverVars
  <1>2. Settled \in BOOLEAN /\ (Settled => Agree) /\ list \in Lists /\ centre \in Lists
    BY DEF Settled, PagesInv, PagesTypeOK, ListFollows, Changed
  <1>3. PICK kind \in RunKinds \ {"create"}, s \in Subs, saw \in Values, at \in {"sent", "fetching"}, ok \in BOOLEAN :
          /\ Start(kind, s, saw, at, ok)
          /\ kind = "load" => at = "fetching"
          /\ kind = "delete" => page = "dashboard"
          /\ kind \in {"command", "snooze"} => page = "actions"
          /\ at = "sent" /\ ok => saw = data[s]
    <2>1. CASE Refresh
      <3>1. PICK first \in Subs : first = CHOOSE s \in Subs : TRUE
        BY PagesAssumption
      <3>2. Start("load", first, Nothing, "fetching", FALSE)
        BY <2>1, <3>1 DEF Refresh
      <3> QED
        BY <3>2, ValuesAre DEF RunKinds
    <2>2. ASSUME NEW s \in Subs, Delete(s)
          PROVE  /\ Start("delete", s, list[s], "sent", Settled) /\ list[s] \in Values /\ page = "dashboard"
                 /\ Settled => list[s] = data[s]
      BY <1>2, <2>2 DEF Delete, DashboardShows, Agree, Lists
    <2>3. ASSUME NEW s \in Subs, Command(s)
          PROVE  \E kind \in {"command", "snooze"}, saw \in Values :
                    Start(kind, s, saw, "sent", Settled) /\ page = "actions" /\ (Settled => saw = data[s])
      <3>1. page = "actions" /\ centre[s] # Nothing
        BY <2>3 DEF Command, ActionsShow
      <3>2. Settled => list[s] = data[s] /\ centre[s] = data[s]
        BY <1>2, <3>1 DEF Agree, Centre
      <3>3. list[s] \in Values /\ centre[s] \in Values
        BY <1>2 DEF Lists
      <3>4. PICK kind \in {"command", "snooze"}, saw \in {list[s], centre[s]} : Start(kind, s, saw, "sent", Settled)
        BY <2>3 DEF Command
      <3> QED
        BY <3>1, <3>2, <3>3, <3>4
    <2>4. CASE \E s \in Subs : Delete(s)
      <3>1. PICK s \in Subs : Delete(s)
        BY <2>4
      <3>2. PICK saw \in Values : saw = list[s]
        BY <2>2, <3>1
      <3> QED
        BY <1>2, <2>2, <3>1, <3>2 DEF RunKinds, FormKinds
    <2>5. CASE \E s \in Subs : Command(s)
      <3>1. PICK s \in Subs : Command(s)
        BY <2>5
      <3>2. PICK kind \in {"command", "snooze"}, saw \in Values :
              Start(kind, s, saw, "sent", Settled) /\ page = "actions" /\ (Settled => saw = data[s])
        BY <2>3, <3>1
      <3> QED
        BY <1>2, <3>2 DEF RunKinds, FormKinds
    <2> QED
      BY <2>1, <2>4, <2>5
  <1>4. born' \in SUBSET Subs /\ (form' = Nobody \/ form' \in FormRecord((form.run)'))
    BY <1>1 DEF PagesInv, PagesTypeOK
  <1>5. PagesTypeOK' /\ RunsApart' /\ ListFollows' /\ WritesFit'
    BY <1>1, <1>3, <1>4, StartKeeps DEF RunKinds
  <1>6. FormFits' /\ DrawerFits'
    BY <1>1 DEF FormFits, DrawerFits
  <1>7. CacheInv' /\ CacheFollows' /\ AnswersFollow' /\ BirthsFit' /\ DrawerFollows'
    <2>1. PICK n : /\ New(n, kind, s, saw, at, page, ok)
                   /\ \A q \in runs' : q = n \/ \E r \in runs : Follows(q, r, r.here)
      BY <1>3, StartIs DEF PagesInv, RunKinds
    <2>2. n.kind # "create" /\ n.at # "done"
      BY <1>3, <2>1 DEF New
    <2>3. \A q \in runs' : \/ \E r \in runs : q.kind = r.kind /\ q.sub = r.sub /\ q.saw = r.saw
                                              /\ (q.at \in {"sent", "done"} => q.at = r.at)
                           \/ q.kind # "create" /\ q.at # "done"
      BY <2>1, <2>2 DEF Follows
    <2>4. ASSUME NEW q \in runs', NEW p \in runs', q.kind = "create", q.at = "sent", p.kind = "create", p.at = "sent",
                 q.sub = p.sub
          PROVE  q = p
      <3>1. PICK r \in runs : Follows(q, r, r.here)
        BY <2>1, <2>2, <2>4
      <3>2. PICK t \in runs : Follows(p, t, t.here)
        BY <2>1, <2>2, <2>4
      <3>3. r = t
        BY <2>4, <3>1, <3>2 DEF PagesInv, BirthsFit, Follows
      <3> QED
        BY <3>1, <3>2, <3>3 DEF Follows
    <2> QED
      BY <1>1, <2>3, <2>4, RunsFollow
  <1> QED
    BY <1>5, <1>6, <1>7 DEF PagesInv

LEMMA SubmitKeeps == ASSUME PagesInv, SubmitForm PROVE PagesInv'
  <1>1. /\ UNCHANGED <<serverVars, cacheVars, writes, data, cache, version, loads, floor, page, loaded, list, hidden,
                       centre, drawer, known, missed, blind>>
        /\ form.on /\ form.run = 0
    BY DEF SubmitForm, serverVars, cacheVars
  <1>2. /\ form \in FormRecord(form.run) /\ ~drawer.on /\ form.sub \in Subs \cup {Nothing} /\ form.base \in Values
        /\ form.ok \in BOOLEAN /\ (form.ok => runs = {})
    <2>1. form \in FormRecord(form.run)
      BY <1>1 DEF PagesInv, PagesTypeOK, Nobody
    <2> QED
      BY <1>1, <2>1 DEF PagesInv, FormFits, FormRecord
  <1>3. Settled \in BOOLEAN /\ (Settled => ~missed /\ runs = {})
    BY DEF Settled, PagesInv, PagesTypeOK
  <1>4. PICK kind \in FormKinds, s \in Subs, saw \in Values, ok \in BOOLEAN :
          /\ Start(kind, s, saw, "sent", ok)
          /\ ok => saw = data[s]
          /\ \/ kind # "create" /\ UNCHANGED born
             \/ kind = "create" /\ s \notin born /\ born' = born \cup {s}
    <2>1. CASE /\ form.sub # Nothing
               /\ \E kind \in {"save", "renew"} : Start(kind, form.sub, form.base, "sent", form.ok /\ Settled)
               /\ UNCHANGED born
      <3>1. form.ok /\ Settled => form.base = data[form.sub]
        BY <1>1, <1>3, <2>1 DEF PagesInv, FormFits, Changed
      <3>2. PICK ok \in BOOLEAN : ok = (form.ok /\ Settled)
        BY <1>2, <1>3
      <3> QED
        BY <1>2, <2>1, <3>1, <3>2 DEF FormKinds
    <2>2. CASE /\ form.sub = Nothing
               /\ \E s \in Subs \ born :
                     Start("create", s, Nothing, "sent", FALSE) /\ born' = born \cup {s}
      BY <2>2, ValuesAre DEF FormKinds
    <2> QED
      BY <2>1, <2>2 DEF SubmitForm
  <1>5. PICK id : id = CHOOSE i \in Ids : \A r \in runs : r.id # i
    OBVIOUS
  <1>6. PICK n : /\ New(n, kind, s, saw, "sent", page, ok) /\ n.id = id
                 /\ n \in runs' /\ (runs = {} => runs' = {n})
                 /\ \A q \in runs' : q = n \/ \E r \in runs : Follows(q, r, r.here)
    <2>1. PagesTypeOK /\ kind \in RunKinds /\ "sent" \in {"sent", "fetching"}
      BY DEF PagesInv, RunKinds
    <2>2. PICK n : /\ New(n, kind, s, saw, "sent", page, ok)
                   /\ n.id = CHOOSE i \in Ids : \A r \in runs : r.id # i
                   /\ n \in runs' /\ (runs = {} => runs' = {n})
                   /\ \A q \in runs' : q = n \/ \E r \in runs : Follows(q, r, r.here)
      BY <1>4, <2>1, StartIs
    <2> QED
      BY <1>5, <2>2
  <1>7. n.kind = kind /\ n.sub = s /\ n.at = "sent" /\ n.alone = (runs = {}) /\ n.here = TRUE
    BY <1>6 DEF New
  <1>8. ASSUME NEW q, NEW r, Follows(q, r, r.here)
         PROVE  q.kind = r.kind /\ q.sub = r.sub /\ q.saw = r.saw /\ q.at = r.at
    BY <1>8 DEF Follows
  <1>9. form' = [form EXCEPT !.run = id]
    BY <1>5 DEF SubmitForm
  <1>10. /\ form' \in FormRecord(id) /\ form'.run = id /\ form'.sub = form.sub /\ form'.base = form.base
        /\ form'.ok = form.ok /\ form'.on = TRUE
    BY <1>2, <1>9 DEF FormRecord
  <1>11. born' \in SUBSET Subs
    BY <1>4 DEF PagesInv, PagesTypeOK
  <1>12. PagesTypeOK' /\ RunsApart' /\ ListFollows' /\ WritesFit' /\ (Changed => Changed')
    <2>1. kind \in RunKinds /\ kind \notin {"load", "delete", "command", "snooze"}
      BY DEF RunKinds, FormKinds
    <2>2. form' \in FormRecord((form.run)')
      BY <1>10
    <2> QED
      BY <1>1, <1>4, <1>11, <2>1, <2>2, StartKeeps
  <1>13. FormFits'
    <2> SUFFICES ASSUME form.ok
                 PROVE  /\ \A r \in runs' : r.alone /\ r.here /\ r.kind \in FormKinds /\ r.id = id
                        /\ id # 0
                        /\ ~missed /\ form.sub # Nothing => form.base = data[form.sub] \/ Changed'
      BY <1>1, <1>2, <1>10 DEF FormFits
    <2>1. runs = {} /\ runs' = {n} /\ n.alone /\ n.here /\ n.kind \in FormKinds
      BY <1>2, <1>6, <1>7
    <2>2. id # 0
      <3>1. Cardinality(runs) < MaxRuns /\ Cardinality(runs) = 0
        BY <1>4, <2>1, FS_EmptySet DEF Start
      <3>2. 1 \in Ids /\ Ids \subseteq Nat \ {0}
        BY <3>1, PagesAssumption DEF Ids
      <3> QED
        BY <1>5, <2>1, <3>2
    <2>3. ~missed /\ form.sub # Nothing => form.base = data[form.sub] \/ Changed'
      BY <1>1, <1>12 DEF PagesInv, FormFits
    <2> QED
      BY <1>6, <2>1, <2>2, <2>3
  <1>14. DrawerFits' /\ DrawerFollows'
    BY <1>1, <1>2 DEF DrawerFits, DrawerFollows
  <1>15. CacheInv' /\ CacheFollows'
    <2>1. CacheInv'
      BY <1>1, StandingStill DEF PagesInv
    <2> QED
      BY <1>1, <2>1 DEF PagesInv, CacheFollows
  <1>16. AnswersFollow'
    <2>1. \A q \in runs' : q.at = "done" => \E r \in runs : r.at = "done" /\ q.kind = r.kind /\ q.sub = r.sub
                                                            /\ q.saw = r.saw
      BY <1>6, <1>7, <1>8
    <2> QED
      BY <1>1, <2>1 DEF PagesInv, AnswersFollow
  <1>17. BirthsFit'
    <2>1. ASSUME NEW u \in Subs, Unborn(u)' PROVE Unheard(u)'
      <3>1. Unborn(u)
        <4>1. CASE u \notin born'
          BY <1>4, <4>1 DEF Unborn
        <4>2. ASSUME NEW q \in runs', q.kind = "create", q.at = "sent", q.sub = u PROVE Unborn(u)
          BY <1>4, <1>6, <1>7, <1>8, <4>2 DEF Unborn
        <4> QED
          BY <2>1, <4>1, <4>2 DEF Unborn
      <3>2. Unheard(u)
        BY <3>1 DEF PagesInv, BirthsFit
      <3>3. \A q \in runs' : q.sub = u => q.at # "done"
        BY <1>6, <1>7, <1>8, <3>2 DEF Unheard
      <3> QED
        BY <1>1, <3>2, <3>3 DEF Unheard
    <2>2. \A q \in runs' : q.kind = "create" => q.sub \in born'
      BY <1>4, <1>6, <1>7, <1>8 DEF PagesInv, BirthsFit
    <2>3. ASSUME NEW q \in runs', NEW p \in runs', q.kind = "create", q.at = "sent", p.kind = "create", p.at = "sent",
                 q.sub = p.sub
          PROVE  q = p
      <3>1. ASSUME NEW r \in runs, r.kind = "create" PROVE r.sub \in born /\ (kind = "create" => r.sub # s)
        BY <1>4, <3>1 DEF PagesInv, BirthsFit
      <3>2. CASE q = n
        <4>1. ASSUME NEW t \in runs, Follows(p, t, t.here) PROVE FALSE
          BY <1>7, <1>8, <2>3, <3>1, <3>2, <4>1
        <4> QED
          BY <1>6, <3>2, <4>1
      <3>3. CASE p = n
        <4>1. ASSUME NEW t \in runs, Follows(q, t, t.here) PROVE FALSE
          BY <1>7, <1>8, <2>3, <3>1, <3>3, <4>1
        <4> QED
          BY <1>6, <3>3, <4>1
      <3>4. CASE q # n /\ p # n
        <4>1. PICK r \in runs : Follows(q, r, r.here)
          BY <1>6, <3>4
        <4>2. PICK t \in runs : Follows(p, t, t.here)
          BY <1>6, <3>4
        <4>3. r = t
          BY <2>3, <4>1, <4>2 DEF PagesInv, BirthsFit, Follows
        <4> QED
          BY <4>1, <4>2, <4>3 DEF Follows
      <3> QED
        BY <3>2, <3>3, <3>4
    <2> QED
      BY <2>1, <2>2, <2>3 DEF BirthsFit
  <1> QED
    BY <1>12, <1>13, <1>14, <1>15, <1>16, <1>17 DEF PagesInv

LEMMA GoKeeps == ASSUME PagesInv, NEW p \in Pages, Go(p) PROVE PagesInv'
  <1>1. /\ UNCHANGED <<serverVars, cacheVars, data, hidden, born, known, blind>> /\ page' = p /\ loaded' = FALSE
        /\ list' = [s \in Subs |-> Nothing] /\ centre' = [s \in Subs |-> Nothing] /\ form' = Nobody
        /\ drawer' = ClosedDrawer /\ missed' = TRUE
    BY DEF Go, serverVars
  <1>2. PICK first \in Subs : first = CHOOSE s \in Subs : TRUE
    BY PagesAssumption
  <1>3. PICK n : n = NewRun("load", first, Nothing, "fetching", p, FALSE)
    OBVIOUS
  <1>4. New(n, "load", first, Nothing, "fetching", p, FALSE)
    BY <1>3, NewRunIs, ValuesAre DEF RunKinds
  <1>5. runs' = {[r EXCEPT !.alone = FALSE, !.here = FALSE] : r \in runs} \cup {n}
    BY <1>2, <1>3 DEF Go
  <1>6. \A q \in runs' : q = n \/ \E r \in runs : Follows(q, r, FALSE)
    BY <1>5, FollowsIs DEF PagesInv
  <1>7. runs = {} => runs' = {n}
    BY <1>5
  <1>8. \A q \in runs' : q.alone => q = n /\ runs = {}
    BY <1>4, <1>6 DEF Follows, New
  <1>9. PagesTypeOK'
    <2>1. \A q \in runs' : q \in RunRecord(q.id)
      BY <1>4, <1>6 DEF Follows, New
    <2> QED
      BY <1>1, <2>1, ValuesAre DEF PagesInv, PagesTypeOK, Lists, ClosedDrawer
  <1>10. RunsApart'
    <2>1. ASSUME NEW q \in runs'
          PROVE  /\ q.alone => runs' = {q}
                 /\ q.here => q.page = p
                 /\ q.kind = "load" => q.at = "fetching"
                 /\ q.kind = "delete" => q.page = "dashboard"
                 /\ q.kind \in {"command", "snooze"} => q.page = "actions"
                 /\ q.at # "fetching" => q.list = Idle /\ q.centre = Idle
      <3>1. CASE q = n
        BY <1>4, <1>7, <3>1 DEF New
      <3>2. CASE \E r \in runs : Follows(q, r, FALSE)
        BY <3>2 DEF PagesInv, RunsApart, Follows
      <3> QED
        BY <1>6, <3>1, <3>2
    <2> QED
      BY <1>1, <2>1 DEF RunsApart
  <1>11. ListFollows' /\ WritesFit'
    <2>1. n.list = Idle /\ n.centre = Idle /\ n.at = "fetching"
      BY <1>4 DEF New
    <2>2. \A q \in runs' : q.alone => q.list = Idle /\ q.centre = Idle /\ q.at = "fetching"
      BY <1>8, <2>1
    <2> QED
      BY <1>1, <2>2 DEF PagesInv, ListFollows, WritesFit
  <1>12. FormFits' /\ DrawerFits'
    BY <1>1 DEF FormFits, DrawerFits, Nobody, ClosedDrawer
  <1>13. CacheInv' /\ CacheFollows' /\ AnswersFollow' /\ BirthsFit' /\ DrawerFollows'
    <2>1. n.kind # "create" /\ n.at # "done"
      BY <1>4 DEF New
    <2>2. \A q \in runs' : \/ \E r \in runs : q.kind = r.kind /\ q.sub = r.sub /\ q.saw = r.saw
                                              /\ (q.at \in {"sent", "done"} => q.at = r.at)
                           \/ q.kind # "create" /\ q.at # "done"
      BY <1>6, <2>1 DEF Follows
    <2>3. ASSUME NEW q \in runs', NEW t \in runs', q.kind = "create", q.at = "sent", t.kind = "create", t.at = "sent",
                 q.sub = t.sub
          PROVE  q = t
      <3>1. PICK r \in runs : Follows(q, r, FALSE)
        BY <1>6, <2>1, <2>3
      <3>2. PICK u \in runs : Follows(t, u, FALSE)
        BY <1>6, <2>1, <2>3
      <3>3. r = u
        BY <2>3, <3>1, <3>2 DEF PagesInv, BirthsFit, Follows
      <3> QED
        BY <3>1, <3>2, <3>3 DEF Follows
    <2> QED
      BY <1>1, <2>2, <2>3, RunsFollow
  <1> QED
    BY <1>9, <1>10, <1>11, <1>12, <1>13 DEF PagesInv

\* One handler goes on, or ends.
Goes(q, r) ==
    /\ q \in RunRecord(r.id) /\ q.id = r.id /\ q.kind = r.kind /\ q.page = r.page /\ q.sub = r.sub
    /\ q.here = r.here /\ q.alone = r.alone /\ q.ok = r.ok /\ q.at # "sent"
    /\ q.kind = "load" => q.at = "fetching"
    /\ q.at # "fetching" => q.list = Idle /\ q.centre = Idle

LEMMA OneMoves ==
  ASSUME PagesInv, NEW r \in runs, NEW S, S = {} \/ \E q \in S : S = {q} /\ Goes(q, r),
         runs' = (runs \ {r}) \cup S, UNCHANGED page,
         missed => missed' \/ runs' = {}, ~missed' => loaded'
  PROVE  /\ RunsApart' /\ (\A x \in runs' : x \in RunRecord(x.id))
         /\ \A x \in runs' : x.alone => x \in S /\ runs' = {x} /\ runs = {r}
         /\ \A x, y \in runs' :
               x.kind = "create" /\ x.at = "sent" /\ y.kind = "create" /\ y.at = "sent" /\ x.sub = y.sub => x = y
  <1>1. ASSUME NEW x \in runs'
        PROVE  /\ x.alone => x \in S /\ runs' = {x} /\ runs = {r}
               /\ x.here => x.page = page
               /\ ~x.here => missed'
               /\ x.kind = "load" => x.at = "fetching"
               /\ x.kind = "delete" => x.page = "dashboard"
               /\ x.kind \in {"command", "snooze"} => x.page = "actions"
               /\ x.at # "fetching" => x.list = Idle /\ x.centre = Idle
               /\ x \in RunRecord(x.id)
    <2>1. CASE x \in runs \ {r}
      BY <2>1 DEF PagesInv, RunsApart, PagesTypeOK
    <2>2. CASE x \in S /\ x \notin runs \ {r}
      <3>1. S = {x} /\ Goes(x, r)
        BY <2>2
      <3> QED
        BY <3>1 DEF PagesInv, RunsApart, Goes
    <2> QED
      BY <2>1, <2>2
  <1>2. RunsApart'
    BY <1>1 DEF RunsApart
  <1>3. \A x \in runs' : x.at = "sent" => x \in runs
    BY DEF Goes
  <1> QED
    BY <1>1, <1>2, <1>3 DEF PagesInv, BirthsFit

\* What an answer leaves of a drawer that was opened on a settled page: there is none.
LEMMA NoSettledDrawer == ASSUME PagesInv, runs # {}, UNCHANGED drawer PROVE DrawerFits'
  BY DEF PagesInv, DrawerFits

LEMMA FetchServedKeeps == ASSUME PagesInv, NEW r \in runs, FetchServed(r) PROVE PagesInv'
  <1>1. /\ UNCHANGED <<serverVars, cacheVars, data, page, loaded, list, hidden, centre, form, drawer, born, known,
                       missed, blind>>
        /\ r.at = "fetching"
    BY DEF FetchServed, serverVars
  <1>2. r \in RunRecord(r.id) /\ data \in Lists /\ Centre \in Lists /\ Centre' = Centre
    BY <1>1 DEF PagesInv, PagesTypeOK, CacheInv, CacheTypeOK, Lists, Values, Centre
  <1>3. PICK q : /\ Goes(q, r) /\ q.saw = r.saw /\ q.at = "fetching" /\ runs' = (runs \ {r}) \cup {q}
                 /\ \/ q.list = data /\ q.centre = r.centre
                    \/ q.list = r.list /\ q.centre = Centre
    <2>1. CASE Replace(r, [r EXCEPT !.list = data])
      <3>1. PICK q : q = [r EXCEPT !.list = data]
        OBVIOUS
      <3>2. Goes(q, r) /\ q.saw = r.saw /\ q.at = "fetching" /\ q.list = data /\ q.centre = r.centre
        BY <1>1, <1>2, <3>1 DEF RunRecord, Goes
      <3> QED
        BY <2>1, <3>1, <3>2 DEF Replace
    <2>2. CASE Replace(r, [r EXCEPT !.centre = Centre])
      <3>1. PICK q : q = [r EXCEPT !.centre = Centre]
        OBVIOUS
      <3>2. Goes(q, r) /\ q.saw = r.saw /\ q.at = "fetching" /\ q.list = r.list /\ q.centre = Centre
        BY <1>1, <1>2, <3>1 DEF RunRecord, Goes
      <3> QED
        BY <2>2, <3>1, <3>2 DEF Replace
    <2> QED
      BY <2>1, <2>2 DEF FetchServed
  <1>4. /\ q.kind = r.kind /\ q.sub = r.sub /\ q.alone = r.alone /\ q.here = r.here /\ q.id = r.id /\ q.ok = r.ok
    BY <1>3 DEF Goes
  <1>5. PICK S : S = {q}
    OBVIOUS
  <1>6. /\ RunsApart' /\ (\A x \in runs' : x \in RunRecord(x.id))
        /\ \A x \in runs' : x.alone => x = q /\ runs' = {x} /\ runs = {r}
        /\ \A x, y \in runs' :
              x.kind = "create" /\ x.at = "sent" /\ y.kind = "create" /\ y.at = "sent" /\ x.sub = y.sub => x = y
    <2>1. \E t \in S : S = {t} /\ Goes(t, r)
      BY <1>3, <1>5
    <2>2. (missed => missed' \/ runs' = {}) /\ (~missed' => loaded')
      BY <1>1 DEF PagesInv, RunsApart
    <2> QED
      BY <1>1, <1>3, <1>5, <2>1, <2>2, OneMoves
  <1>7. PagesTypeOK'
    BY <1>1, <1>6 DEF PagesInv, PagesTypeOK, ClosedDrawer
  <1>8. Changed /\ Changed'
    BY <1>1, <1>3 DEF Changed
  <1>9. ListFollows'
    BY <1>1, <1>2, <1>3, <1>4, <1>6, <1>8 DEF PagesInv, ListFollows
  <1>10. FormFits'
    BY <1>1, <1>3, <1>4, <1>8 DEF PagesInv, FormFits
  <1>11. DrawerFits'
    BY <1>1, NoSettledDrawer
  <1>12. WritesFit'
    BY <1>1, <1>3 DEF PagesInv, WritesFit
  <1>13. CacheInv' /\ CacheFollows' /\ AnswersFollow' /\ BirthsFit' /\ DrawerFollows'
    <2>1. \A x \in runs' : \E y \in runs : x.kind = y.kind /\ x.sub = y.sub /\ x.saw = y.saw
                                           /\ (x.at \in {"sent", "done"} => x.at = y.at)
      BY <1>1, <1>3, <1>4
    <2> QED
      BY <1>1, <1>6, <2>1, RunsFollow
  <1> QED
    BY <1>6, <1>7, <1>9, <1>10, <1>11, <1>12, <1>13 DEF PagesInv

\* A handler ends, with a failure or with the lists.
LEMMA EndKeeps ==
  ASSUME PagesInv, NEW r \in runs, WriteFailed(r) \/ FetchArrives(r) \/ FetchFails(r)
  PROVE  PagesInv'
  <1>1. /\ UNCHANGED <<serverVars, cacheVars, data, page, hidden, drawer, born, known, blind>>
        /\ runs' = runs \ {r}
    BY DEF WriteFailed, FetchArrives, FetchFails, serverVars
  <1>2. Centre' = Centre /\ r \in RunRecord(r.id)
    BY <1>1 DEF Centre, PagesInv, PagesTypeOK
  <1>3. r.alone => runs = {r} /\ runs' = {}
    BY <1>1 DEF PagesInv, RunsApart
  <1>4. \/ /\ WriteFailed(r) /\ r.at \in {"refused", "lost"} /\ UNCHANGED <<loaded, list, centre>>
           /\ missed' = (missed \/ r.at = "lost")
           /\ form' = IF form.on /\ form.run = r.id THEN [form EXCEPT !.run = 0] ELSE form
        \/ /\ r.at = "fetching" /\ r.here /\ list' = r.list /\ r.list # Idle /\ loaded' = TRUE /\ missed' = ~r.alone
           /\ \/ r.page = "actions" /\ centre' = r.centre /\ r.centre # Idle
              \/ r.page # "actions" /\ centre' = centre
           /\ form' = IF r.kind \in FormKinds THEN Nobody ELSE form
        \/ /\ r.at = "fetching" /\ ~r.here /\ UNCHANGED <<loaded, list, centre, missed, form>>
        \/ /\ FetchFails(r) /\ UNCHANGED <<list, centre>> /\ missed' = TRUE /\ loaded' \in BOOLEAN
           /\ form' \in {form, Nobody}
    <2>1. CASE WriteFailed(r)
      BY <2>1 DEF WriteFailed
    <2>2. CASE FetchArrives(r) /\ r.here
      BY <2>2 DEF FetchArrives, PagesInv, PagesTypeOK
    <2>3. CASE FetchArrives(r) /\ ~r.here
      BY <2>3 DEF FetchArrives, PagesInv, PagesTypeOK
    <2>4. CASE FetchFails(r)
      BY <2>4 DEF FetchFails, PagesInv, PagesTypeOK
    <2> QED
      BY <2>1, <2>2, <2>3, <2>4
  <1>5. missed \in BOOLEAN /\ missed' \in BOOLEAN /\ loaded' \in BOOLEAN /\ (missed => missed' \/ runs' = {})
        /\ (~missed' => loaded')
    BY <1>2, <1>3, <1>4 DEF PagesInv, PagesTypeOK, RunsApart, RunRecord
  <1>6. /\ RunsApart' /\ (\A x \in runs' : x \in RunRecord(x.id))
        /\ \A x \in runs' : ~x.alone
        /\ \A x, y \in runs' :
              x.kind = "create" /\ x.at = "sent" /\ y.kind = "create" /\ y.at = "sent" /\ x.sub = y.sub => x = y
    <2>1. PICK S : S = {}
      OBVIOUS
    <2>2. runs' = (runs \ {r}) \cup S
      BY <1>1, <2>1
    <2> QED
      BY <1>1, <1>5, <2>1, <2>2, OneMoves
  <1>7. PagesTypeOK'
    <2>1. list' \in Lists /\ centre' \in Lists
      BY <1>2, <1>4 DEF PagesInv, PagesTypeOK, RunRecord
    <2>2. form' = Nobody \/ form' \in FormRecord((form.run)')
      <3>1. CASE form' \in {form, Nobody}
        BY <3>1 DEF PagesInv, PagesTypeOK
      <3>2. CASE form.on /\ form' = [form EXCEPT !.run = 0]
        <4>1. form \in FormRecord(form.run)
          BY <3>2 DEF PagesInv, PagesTypeOK, Nobody
        <4> QED
          BY <3>2, <4>1 DEF FormRecord
      <3> QED
        BY <1>4, <3>1, <3>2
    <2> QED
      BY <1>1, <1>5, <1>6, <2>1, <2>2 DEF PagesInv, PagesTypeOK, ClosedDrawer
  <1>8. ListFollows'
    <2>1. ASSUME ~missed' PROVE Agree' \/ Changed'
      <3>1. CASE WriteFailed(r) /\ r.at = "refused" /\ UNCHANGED <<list, centre>> /\ missed' = missed
        BY <1>1, <1>2, <2>1, <3>1 DEF PagesInv, ListFollows, Agree, Changed
      <3>2. CASE r.alone /\ r.at = "fetching" /\ r.here /\ list' = r.list /\ r.list # Idle
                 /\ (r.page = "actions" => centre' = r.centre /\ r.centre # Idle)
        BY <1>1, <1>2, <3>2 DEF PagesInv, ListFollows, Agree, RunsApart
      <3>3. r.here
        BY <1>1, <1>3, <1>4, <1>5, <2>1 DEF PagesInv, RunsApart
      <3>4. \/ /\ WriteFailed(r) /\ r.at \in {"refused", "lost"} /\ UNCHANGED <<list, centre>>
               /\ missed' = (missed \/ r.at = "lost")
            \/ /\ r.at = "fetching" /\ list' = r.list /\ r.list # Idle /\ missed' = ~r.alone
               /\ r.page = "actions" => centre' = r.centre /\ r.centre # Idle
        BY <1>4, <2>1, <3>3
      <3> QED
        BY <1>5, <2>1, <3>1, <3>2, <3>3, <3>4
    <2> QED
      BY <1>6, <2>1 DEF ListFollows
  <1>9. FormFits'
    <2>1. CASE form' = Nobody
      BY <2>1 DEF FormFits, Nobody
    <2>2. CASE form' = form
      <3>1. ~(form.on /\ drawer.on)
        BY DEF PagesInv, FormFits
      <3>2. ASSUME form.on, form.ok PROVE missed' /\ runs' = {}
        <4>1. r.alone /\ r.here /\ r.kind \in FormKinds /\ form.run = r.id /\ form.run # 0 /\ form # Nobody
          BY <3>2 DEF PagesInv, FormFits, Nobody
        <4>2. form \in FormRecord(form.run)
          BY <4>1 DEF PagesInv, PagesTypeOK
        <4>3. form # [form EXCEPT !.run = 0]
          BY <4>1, <4>2 DEF FormRecord
        <4> QED
          BY <1>3, <1>4, <2>2, <3>2, <4>1, <4>3
      <3> QED
        BY <1>1, <2>2, <3>1, <3>2 DEF FormFits
    <2>3. CASE WriteFailed(r) /\ form.on /\ form' = [form EXCEPT !.run = 0] /\ missed' = (missed \/ r.at = "lost")
               /\ r.at \in {"refused", "lost"}
      <3>1. form \in FormRecord(form.run)
        BY <2>3 DEF PagesInv, PagesTypeOK, Nobody
      <3>2. form'.on = TRUE /\ form'.ok = form.ok /\ form'.base = form.base /\ form'.sub = form.sub
        BY <2>3, <3>1 DEF FormRecord
      <3>3. ~drawer.on
        BY <2>3 DEF PagesInv, FormFits
      <3>4. ASSUME form.ok PROVE runs = {r} /\ runs' = {}
        BY <1>3, <2>3, <3>4 DEF PagesInv, FormFits
      <3>5. ASSUME form.ok, ~missed', form.sub # Nothing PROVE form.base = data[form.sub]
        <4>1. ~missed /\ r.at = "refused"
          BY <2>3, <3>5
        <4> QED
          BY <2>3, <3>4, <3>5, <4>1 DEF PagesInv, FormFits, Changed
      <3> QED
        BY <1>1, <3>2, <3>3, <3>4, <3>5 DEF FormFits
    <2> QED
      BY <1>4, <2>1, <2>2, <2>3
  <1>10. DrawerFits'
    BY <1>1, NoSettledDrawer
  <1>11. WritesFit'
    BY <1>1 DEF PagesInv, WritesFit
  <1>12. CacheInv' /\ CacheFollows' /\ AnswersFollow' /\ BirthsFit' /\ DrawerFollows'
    <2>1. \A x \in runs' : \E y \in runs : x.kind = y.kind /\ x.sub = y.sub /\ x.saw = y.saw
                                           /\ (x.at \in {"sent", "done"} => x.at = y.at)
      BY <1>1
    <2> QED
      BY <1>1, <1>6, <2>1, RunsFollow
  <1> QED
    BY <1>6, <1>7, <1>8, <1>9, <1>10, <1>11, <1>12 DEF PagesInv

\* The answer of a write.
LEMMA WriteDoneKeeps == ASSUME PagesInv, NEW r \in runs, WriteDone(r) PROVE PagesInv'
  <1>1. /\ UNCHANGED <<serverVars, writes, data, loads, page, loaded, hidden, centre, drawer, born, blind>>
        /\ r.at = "done"
    BY DEF WriteDone, Invalidate, serverVars, cacheVars
  <1>2. /\ r \in RunRecord(r.id) /\ r.kind # "load" /\ r.list = Idle /\ r.centre = Idle /\ r.sub \in Subs
        /\ r.saw \in Values /\ Centre' = Centre
    BY <1>1 DEF PagesInv, PagesTypeOK, RunsApart, RunRecord, Centre
  <1>3. r.alone => runs = {r}
    BY DEF PagesInv, RunsApart
  <1>4. CacheInv'
    BY <1>1, <1>2, CacheInvStep, StandingStill DEF WriteDone, PagesInv, CacheNext
  <1>5. /\ \/ Invalidates(r) /\ cache' = [cache EXCEPT ![r.sub] = Nothing] /\ floor' = [floor EXCEPT ![r.sub] = data[r.sub]]
              /\ version' = [version EXCEPT ![r.sub] = version[r.sub] + 1]
           \/ ~Invalidates(r) /\ UNCHANGED <<cache, floor, version>>
        /\ known' = IF r.page # "calendar" /\ r.kind # "snooze" THEN [known EXCEPT ![r.sub] = r.saw] ELSE known
        /\ form' = IF r.here /\ r.kind \in FormKinds THEN Nobody ELSE form
    BY DEF WriteDone, Invalidate, cacheVars
  <1>6. PICK S : /\ runs' = (runs \ {r}) \cup S
                 /\ \/ /\ \E q \in S : S = {q} /\ Goes(q, r) /\ q.at = "fetching" /\ q.list = Idle /\ q.centre = Idle
                                       /\ q.saw = r.saw
                       /\ UNCHANGED <<list, missed>>
                    \/ /\ S = {} /\ ~(r.here /\ Refetches(r)) /\ missed' = (missed \/ ~r.alone)
                       /\ list' = IF r.here /\ list[r.sub] # Nothing THEN [list EXCEPT ![r.sub] = r.saw] ELSE list
    <2>1. CASE r.here /\ Refetches(r)
      <3>1. PICK q : q = [r EXCEPT !.at = "fetching"]
        OBVIOUS
      <3>2. Goes(q, r) /\ q.at = "fetching" /\ q.list = Idle /\ q.centre = Idle /\ q.saw = r.saw
        BY <1>2, <3>1 DEF RunRecord, Goes
      <3>3. runs' = (runs \ {r}) \cup {q} /\ UNCHANGED <<list, missed>>
        BY <2>1, <3>1 DEF WriteDone, Replace
      <3> QED
        BY <3>2, <3>3
    <2>2. CASE ~(r.here /\ Refetches(r))
      BY <2>2 DEF WriteDone
    <2> QED
      BY <2>1, <2>2
  <1>7. missed \in BOOLEAN /\ missed' \in BOOLEAN /\ (missed => missed') /\ (~missed' => loaded')
    BY <1>1, <1>6 DEF PagesInv, PagesTypeOK, RunsApart
  <1>8. /\ RunsApart' /\ (\A x \in runs' : x \in RunRecord(x.id))
        /\ \A x \in runs' : x.alone => x \in S /\ runs' = {x} /\ runs = {r}
        /\ \A x, y \in runs' :
              x.kind = "create" /\ x.at = "sent" /\ y.kind = "create" /\ y.at = "sent" /\ x.sub = y.sub => x = y
    BY <1>1, <1>6, <1>7, OneMoves
  <1>9. PagesTypeOK'
    <2>1. list' \in Lists /\ known' \in Lists
      BY <1>2, <1>5, <1>6 DEF PagesInv, PagesTypeOK, Lists
    <2> QED
      BY <1>1, <1>5, <1>7, <1>8, <2>1 DEF PagesInv, PagesTypeOK, ClosedDrawer
  <1>10. ListFollows'
    <2>1. CASE S = {}
      <3>1. runs' = runs \ {r} /\ missed' = (missed \/ ~r.alone) /\ ~(r.here /\ Refetches(r))
            /\ list' = IF r.here /\ list[r.sub] # Nothing THEN [list EXCEPT ![r.sub] = r.saw] ELSE list
        BY <1>6, <2>1
      <3>2. ASSUME ~missed' PROVE Agree'
        <4>1. ~missed /\ r.alone /\ r.here /\ ~Refetches(r)
          BY <1>7, <3>1, <3>2 DEF PagesInv, RunsApart
        <4>2. list[r.sub] # Nothing /\ data = [list EXCEPT ![r.sub] = r.saw]
          BY <1>1, <4>1 DEF PagesInv, ListFollows
        <4>3. page # "actions"
          BY <4>1 DEF PagesInv, RunsApart, Refetches
        <4> QED
          BY <1>1, <3>1, <4>1, <4>2, <4>3 DEF Agree
      <3>3. \A x \in runs' : ~x.alone
        BY <1>8, <2>1
      <3> QED
        BY <3>2, <3>3 DEF ListFollows
    <2>2. CASE S # {}
      <3>1. PICK q \in S : S = {q} /\ q.at = "fetching" /\ q.list = Idle /\ q.centre = Idle
        BY <1>6, <2>2
      <3>2. Changed' /\ \A x \in runs' : x.alone => x = q
        BY <1>6, <1>8, <3>1 DEF Changed
      <3> QED
        BY <3>1, <3>2 DEF ListFollows
    <2> QED
      BY <2>1, <2>2
  <1>11. FormFits'
    <2>1. ~(form'.on /\ drawer.on) /\ ~(form'.on /\ form'.ok)
      BY <1>5 DEF PagesInv, FormFits, Nobody
    <2> QED
      BY <1>1, <2>1 DEF FormFits
  <1>12. DrawerFits'
    BY <1>1, NoSettledDrawer
  <1>13. WritesFit'
    <2>1. \A x \in runs' : x.at = "sent" => x \in runs
      BY <1>6 DEF Goes
    <2> QED
      BY <1>1, <2>1 DEF PagesInv, WritesFit
  <1>14. DrawerFollows'
    BY <1>1 DEF PagesInv, DrawerFollows
  <1>15. Invalidates(r) \/ known' = known \/ r.kind = "create"
    BY <1>2, <1>5 DEF PagesInv, RunsApart, Invalidates, RunRecord, RunKinds, FormKinds, Pages
  <1>16. /\ r.saw <= data[r.sub]
         /\ r.kind = "create" => /\ cache[r.sub] # Nothing => r.saw <= cache[r.sub]
                                 /\ \A l \in loads : l.sub = r.sub /\ l.got # Nothing => r.saw <= l.got
    BY <1>1 DEF PagesInv, AnswersFollow
  <1>17. CacheFollows'
    <2>1. ASSUME NEW s \in Subs
          PROVE  /\ known'[s] <= data[s]
                 /\ cache'[s] # Nothing => known'[s] <= cache'[s] /\ cache'[s] <= data[s]
      <3>1. CASE s # r.sub
        <4>1. known'[s] = known[s] /\ cache'[s] = cache[s]
          BY <1>5, <3>1 DEF PagesInv, PagesTypeOK, Lists, CacheInv, CacheTypeOK
        <4> QED
          BY <4>1 DEF PagesInv, CacheFollows
      <3>2. CASE s = r.sub
        <4>1. known'[s] \in {known[s], r.saw} /\ cache'[s] \in {cache[s], Nothing}
          BY <1>5, <3>2 DEF PagesInv, PagesTypeOK, Lists, CacheInv, CacheTypeOK
        <4>2. known'[s] <= data[s]
          BY <1>16, <3>2, <4>1 DEF PagesInv, CacheFollows
        <4>3. ASSUME cache'[s] # Nothing PROVE known'[s] <= cache'[s] /\ cache'[s] <= data[s]
          <5>1. ~Invalidates(r) /\ cache'[s] = cache[s] /\ cache[s] # Nothing
            BY <1>5, <3>2, <4>1, <4>3 DEF PagesInv, CacheInv, CacheTypeOK
          <5> QED
            BY <1>15, <1>16, <3>2, <4>1, <5>1 DEF PagesInv, CacheFollows
        <4> QED
          BY <4>2, <4>3
      <3> QED
        BY <3>1, <3>2
    <2>2. ASSUME NEW l \in loads, l.got # Nothing
          PROVE  /\ l.got <= data[l.sub]
                 /\ l.sentIn = version'[l.sub] => known'[l.sub] <= l.got
      <3>1. l.got <= data[l.sub] /\ l.sub \in Subs /\ l.sentIn <= version[l.sub] /\ l.sentIn \in Nat
        BY <2>2 DEF PagesInv, CacheFollows, CacheInv, CacheTypeOK, AnswersAreCurrent
      <3>2. ASSUME l.sentIn = version'[l.sub] PROVE known'[l.sub] <= l.got
        <4>1. CASE l.sub # r.sub
          <5>1. known'[l.sub] = known[l.sub] /\ version'[l.sub] = version[l.sub]
            BY <1>5, <3>1, <4>1 DEF PagesInv, PagesTypeOK, Lists, CacheInv, CacheTypeOK
          <5> QED
            BY <2>2, <3>2, <5>1 DEF PagesInv, CacheFollows
        <4>2. CASE l.sub = r.sub
          <5>1. ~Invalidates(r)
            <6>1. SUFFICES ASSUME Invalidates(r) PROVE FALSE
              OBVIOUS
            <6>2. version[r.sub] \in Nat /\ version'[r.sub] = version[r.sub] + 1
              BY <1>2, <1>5, <6>1 DEF PagesInv, CacheInv, CacheTypeOK
            <6> QED
              BY <3>1, <3>2, <4>2, <6>2
          <5>2. version' = version /\ known'[l.sub] \in {known[l.sub], r.saw}
            BY <1>2, <1>5, <3>1, <4>2, <5>1 DEF PagesInv, PagesTypeOK, Lists
          <5> QED
            BY <1>15, <1>16, <2>2, <3>2, <4>2, <5>1, <5>2 DEF PagesInv, CacheFollows
        <4> QED
          BY <4>1, <4>2
      <3> QED
        BY <3>1, <3>2
    <2> QED
      BY <1>1, <2>1, <2>2 DEF CacheFollows
  <1>18. \A x \in runs' : x.at \in {"sent", "done"} => x \in runs \ {r}
    BY <1>6 DEF Goes
  <1>19. AnswersFollow'
    <2> SUFFICES ASSUME NEW x \in runs', x.at = "done"
                 PROVE  /\ x.saw <= data[x.sub]
                        /\ x.kind = "create" =>
                              /\ cache'[x.sub] # Nothing => x.saw <= cache'[x.sub]
                              /\ \A l \in loads : l.sub = x.sub /\ l.got # Nothing => x.saw <= l.got
      BY <1>1 DEF AnswersFollow
    <2>1. x \in runs /\ x.sub \in Subs
      BY <1>18 DEF PagesInv, PagesTypeOK, RunRecord
    <2>2. cache'[x.sub] \in {cache[x.sub], Nothing}
      BY <1>5, <2>1 DEF PagesInv, CacheInv, CacheTypeOK
    <2> QED
      BY <2>1, <2>2 DEF PagesInv, AnswersFollow
  <1>20. BirthsFit'
    <2>1. ASSUME NEW s \in Subs, Unborn(s)' PROVE Unheard(s)'
      <3>1. Unheard(s)
        BY <1>1, <1>18, <2>1 DEF PagesInv, BirthsFit, Unborn
      <3>2. s # r.sub
        BY <1>1, <3>1 DEF Unheard
      <3>3. known'[s] = known[s] /\ cache'[s] = cache[s] /\ floor'[s] = floor[s]
        BY <1>5, <3>2 DEF PagesInv, PagesTypeOK, Lists, CacheInv, CacheTypeOK
      <3> QED
        BY <1>1, <1>18, <3>1, <3>3 DEF Unheard
    <2>2. \A x \in runs' : x.kind = "create" => x.sub \in born
      BY <1>6 DEF PagesInv, BirthsFit, Goes
    <2> QED
      BY <1>1, <1>8, <2>1, <2>2 DEF BirthsFit
  <1> QED
    BY <1>4, <1>8, <1>9, <1>10, <1>11, <1>12, <1>13, <1>14, <1>17, <1>19, <1>20 DEF PagesInv

\* The server carries a write out: of what is there or, the first one, of what nobody knows.
LEMMA ServerWrites ==
  ASSUME PagesInv, NEW r \in runs, r.at = "sent", data[r.sub] # Nothing \/ r.kind = "create", UNCHANGED cacheVars,
         CASE r.kind = "snooze" -> hidden' = [hidden EXCEPT ![r.sub] = data[r.sub]] /\ UNCHANGED serverVars
           [] r.kind = "delete" -> Remove(r.sub) /\ UNCHANGED hidden
           [] OTHER             -> Commit(r.sub) /\ UNCHANGED hidden
  PROVE  /\ CacheInv' /\ data' \in Lists /\ hidden' \in Lists
         /\ r.kind = "create" => Unheard(r.sub)
         /\ r.kind # "create" => data[r.sub] # Nothing /\ data[r.sub] <= data'[r.sub]
         /\ \A s \in Subs : s # r.sub => data'[s] = data[s]
         /\ r.kind = "save" => data' = [data EXCEPT ![r.sub] = data'[r.sub]]
  <1>1. r.sub \in Subs /\ data \in Lists /\ hidden \in Lists /\ writes \in Writes
    BY DEF PagesInv, PagesTypeOK, RunRecord, CacheInv, CacheTypeOK, Lists, Values
  <1>2. r.kind = "create" => Unheard(r.sub)
    BY <1>1 DEF PagesInv, BirthsFit, Unborn
  <1>3. r.kind # "create" => data[r.sub] # Nothing /\ data[r.sub] \in Nat /\ data[r.sub] <= Nothing /\ data[r.sub] <= writes
    BY <1>1, ValuesAre DEF PagesInv, CacheInv, WritesGoOn, Lists
  <1>4. CASE r.kind = "snooze"
    <2>1. hidden' = [hidden EXCEPT ![r.sub] = data[r.sub]] /\ UNCHANGED serverVars /\ UNCHANGED data
      BY <1>4 DEF serverVars
    <2>2. CacheInv'
      BY <2>1, StandingStill DEF PagesInv
    <2>3. hidden' \in Lists
      BY <1>1, <2>1 DEF Lists
    <2> QED
      BY <1>1, <1>3, <1>4, <2>1, <2>2, <2>3
  <1>5. CASE r.kind = "delete"
    <2>1. Remove(r.sub) /\ UNCHANGED hidden /\ data[r.sub] # Nothing
      BY <1>5
    <2>2. CacheInv'
      BY <1>1, <2>1, CacheInvStep DEF PagesInv, CacheNext
    <2>3. data' = [data EXCEPT ![r.sub] = Nothing]
      BY <2>1 DEF Remove
    <2> QED
      BY <1>1, <1>3, <1>5, <2>1, <2>2, <2>3, ValuesAre DEF Lists
  <1>6. CASE r.kind \notin {"snooze", "delete"}
    <2>1. Commit(r.sub) /\ UNCHANGED hidden
      BY <1>6
    <2>2. data[r.sub] # Nothing \/ floor[r.sub] = 0
      BY <1>2 DEF Unheard
    <2>3. CacheInv'
      BY <1>1, <2>1, <2>2, CommitKeeps DEF PagesInv
    <2>4. data' = [data EXCEPT ![r.sub] = writes + 1] /\ writes + 1 \in Writes /\ writes \in Nat
      BY <1>1, <2>1, CacheBounds DEF Commit, Writes
    <2>5. data' \in Lists /\ data'[r.sub] = writes + 1
      BY <1>1, <2>4 DEF Lists, Values
    <2>6. r.kind # "create" => data[r.sub] # Nothing /\ data[r.sub] <= data'[r.sub]
      BY <1>3, <2>4, <2>5
    <2> QED
      BY <1>1, <1>2, <2>1, <2>3, <2>4, <2>5, <2>6 DEF Lists
  <1> QED
    BY <1>4, <1>5, <1>6

LEMMA ServeWriteKeeps == ASSUME PagesInv, NEW r \in runs, ServeWrite(r) PROVE PagesInv'
  <1>1. /\ UNCHANGED <<cacheVars, cache, version, loads, floor, page, loaded, list, centre, form, drawer, born, missed,
                       known>>
        /\ r.at = "sent"
    BY DEF ServeWrite, cacheVars
  <1>2. /\ r \in RunRecord(r.id) /\ r.kind # "load" /\ r.list = Idle /\ r.centre = Idle /\ r.sub \in Subs
        /\ r.saw \in Values
    BY <1>1 DEF PagesInv, PagesTypeOK, RunsApart, RunRecord
  <1>3. \/ /\ data[r.sub] # Nothing \/ r.kind = "create"
           /\ CASE r.kind = "snooze" -> hidden' = [hidden EXCEPT ![r.sub] = data[r.sub]] /\ UNCHANGED serverVars
                [] r.kind = "delete" -> Remove(r.sub) /\ UNCHANGED hidden
                [] OTHER             -> Commit(r.sub) /\ UNCHANGED hidden
           /\ blind' = (blind \/ (r.ok /\ r.alone /\ r.saw # data[r.sub]))
           /\ \E how \in {"done", "lost"} : Replace(r, [r EXCEPT !.at = how, !.saw = data'[r.sub]])
        \/ /\ Replace(r, [r EXCEPT !.at = "refused"])
           /\ UNCHANGED <<serverVars, hidden, blind>>
    BY DEF ServeWrite
  <1>4. (missed => missed' \/ runs' = {}) /\ (~missed' => loaded')
    BY <1>1 DEF PagesInv, RunsApart
  <1>5. DrawerFits'
    BY <1>1, NoSettledDrawer
  <1>6. CASE Replace(r, [r EXCEPT !.at = "refused"]) /\ UNCHANGED <<serverVars, hidden, blind>>
    <2>1. PICK q : q = [r EXCEPT !.at = "refused"]
      OBVIOUS
    <2>2. Goes(q, r) /\ q.at = "refused" /\ q.saw = r.saw /\ q.list = Idle /\ q.centre = Idle
      BY <1>2, <2>1 DEF RunRecord, Goes
    <2>3. /\ q.kind = r.kind /\ q.sub = r.sub /\ q.alone = r.alone /\ q.here = r.here /\ q.id = r.id /\ q.ok = r.ok
      BY <2>2 DEF Goes
    <2>4. PICK S : S = {q}
      OBVIOUS
    <2>5. runs' = (runs \ {r}) \cup S
      BY <1>6, <2>1, <2>4 DEF Replace
    <2>6. UNCHANGED data
      BY <1>6 DEF serverVars
    <2>7. /\ RunsApart' /\ (\A x \in runs' : x \in RunRecord(x.id))
          /\ \A x \in runs' : x.alone => x \in S /\ runs' = {x} /\ runs = {r}
          /\ \A x, y \in runs' :
                x.kind = "create" /\ x.at = "sent" /\ y.kind = "create" /\ y.at = "sent" /\ x.sub = y.sub => x = y
      BY <1>1, <1>4, <2>2, <2>4, <2>5, OneMoves
    <2>8. PagesTypeOK'
      BY <1>1, <1>6, <2>7 DEF PagesInv, PagesTypeOK, ClosedDrawer
    <2>9. Changed => Changed'
      BY <1>1, <2>5 DEF Changed
    <2>10. ListFollows'
      <3>1. Centre' = Centre
        BY <1>6, <2>6 DEF Centre
      <3> QED
        BY <1>1, <2>2, <2>4, <2>6, <2>7, <2>9, <3>1 DEF PagesInv, ListFollows, Agree
    <2>11. FormFits'
      BY <1>1, <2>3, <2>4, <2>5, <2>6, <2>9 DEF PagesInv, FormFits
    <2>12. WritesFit'
      BY <1>6, <2>2, <2>4, <2>5, <2>6 DEF PagesInv, WritesFit
    <2>13. CacheInv' /\ CacheFollows' /\ AnswersFollow' /\ BirthsFit' /\ DrawerFollows'
      <3>1. \A x \in runs' : \E y \in runs : x.kind = y.kind /\ x.sub = y.sub /\ x.saw = y.saw
                                             /\ (x.at \in {"sent", "done"} => x.at = y.at)
        BY <2>2, <2>3, <2>4, <2>5
      <3> QED
        BY <1>1, <1>6, <2>7, <3>1, RunsFollow
    <2> QED
      BY <1>5, <2>7, <2>8, <2>10, <2>11, <2>12, <2>13 DEF PagesInv
  <1>7. ASSUME data[r.sub] # Nothing \/ r.kind = "create",
               CASE r.kind = "snooze" -> hidden' = [hidden EXCEPT ![r.sub] = data[r.sub]] /\ UNCHANGED serverVars
                 [] r.kind = "delete" -> Remove(r.sub) /\ UNCHANGED hidden
                 [] OTHER             -> Commit(r.sub) /\ UNCHANGED hidden,
               blind' = (blind \/ (r.ok /\ r.alone /\ r.saw # data[r.sub])),
               NEW how \in {"done", "lost"}, Replace(r, [r EXCEPT !.at = how, !.saw = data'[r.sub]])
        PROVE  PagesInv'
    <2>1. /\ CacheInv' /\ data' \in Lists /\ hidden' \in Lists
          /\ r.kind = "create" => Unheard(r.sub)
          /\ r.kind # "create" => data[r.sub] # Nothing /\ data[r.sub] <= data'[r.sub]
          /\ \A s \in Subs : s # r.sub => data'[s] = data[s]
          /\ r.kind = "save" => data' = [data EXCEPT ![r.sub] = data'[r.sub]]
      BY <1>1, <1>7, ServerWrites
    <2>2. PICK wrote \in Values : wrote = data'[r.sub]
      BY <1>2, <2>1 DEF Lists
    <2>3. PICK q : q = [r EXCEPT !.at = how, !.saw = wrote]
      OBVIOUS
    <2>4. Goes(q, r) /\ q.at = how /\ q.saw = wrote /\ q.list = Idle /\ q.centre = Idle
      BY <1>2, <1>7, <2>3 DEF RunRecord, Goes
    <2>5. /\ q.kind = r.kind /\ q.sub = r.sub /\ q.alone = r.alone /\ q.here = r.here /\ q.id = r.id /\ q.ok = r.ok
          /\ q.page = r.page
      BY <2>4 DEF Goes
    <2>6. PICK S : S = {q}
      OBVIOUS
    <2>7. runs' = (runs \ {r}) \cup S
      BY <1>7, <2>2, <2>3, <2>6 DEF Replace
    <2>8. /\ RunsApart' /\ (\A x \in runs' : x \in RunRecord(x.id))
          /\ \A x \in runs' : x.alone => x \in S /\ runs' = {x} /\ runs = {r}
          /\ \A x, y \in runs' :
                x.kind = "create" /\ x.at = "sent" /\ y.kind = "create" /\ y.at = "sent" /\ x.sub = y.sub => x = y
      BY <1>1, <1>4, <2>4, <2>6, <2>7, OneMoves
    <2>9. blind' = FALSE
      BY <1>1, <1>7 DEF PagesInv, WritesFit
    <2>10. PagesTypeOK'
      BY <1>1, <2>1, <2>8, <2>9 DEF PagesInv, PagesTypeOK, ClosedDrawer
    <2>11. Changed'
      BY <1>7, <2>4, <2>6, <2>7 DEF Changed
    <2>12. ListFollows'
      <3>1. ASSUME q.alone, q.here, ~Refetches(q), ~missed, runs = {r}
            PROVE  list[q.sub] # Nothing /\ data' = [list EXCEPT ![q.sub] = q.saw]
        <4>1. r.kind = "save"
          BY <2>5, <3>1 DEF Refetches
        <4>2. list = data
          BY <1>1, <3>1 DEF PagesInv, ListFollows, Changed, Agree
        <4> QED
          BY <2>1, <2>2, <2>4, <2>5, <4>1, <4>2
      <3>2. \A x \in runs' : x.alone => x = q /\ runs = {r}
        BY <2>6, <2>8
      <3> QED
        BY <1>1, <2>4, <2>11, <3>1, <3>2 DEF ListFollows, Refetches
    <2>13. FormFits'
      BY <1>1, <2>5, <2>6, <2>7, <2>11 DEF PagesInv, FormFits
    <2>14. WritesFit'
      <3>1. \A x \in runs' : x.alone => x = q
        BY <2>6, <2>8
      <3> QED
        BY <1>7, <2>4, <2>9, <3>1 DEF WritesFit
    <2>15. ASSUME NEW s \in Subs
           PROVE  /\ data[s] <= data'[s] \/ (s = r.sub /\ Unheard(s))
                  /\ data[s] \in Nat /\ data'[s] \in Nat
      <3>1. data[s] \in Nat /\ data'[s] \in Nat
        BY <2>1, ValuesAre DEF PagesInv, CacheInv, CacheTypeOK, Lists, Values
      <3> QED
        BY <2>1, <3>1
    <2>16. CacheFollows'
      <3>1. ASSUME NEW s \in Subs
            PROVE  /\ known[s] <= data'[s]
                   /\ cache[s] # Nothing => known[s] <= cache[s] /\ cache[s] <= data'[s]
        <4>1. known[s] \in Nat /\ cache[s] \in Nat /\ known[s] <= data[s]
              /\ (cache[s] # Nothing => known[s] <= cache[s] /\ cache[s] <= data[s])
          BY ValuesAre DEF PagesInv, PagesTypeOK, Lists, CacheInv, CacheTypeOK, Values, CacheFollows
        <4>2. CASE data[s] <= data'[s]
          BY <2>15, <4>1, <4>2
        <4>3. CASE Unheard(s)
          BY <2>15, <4>3 DEF Unheard
        <4> QED
          BY <2>15, <4>2, <4>3
      <3>2. ASSUME NEW l \in loads, l.got # Nothing
            PROVE  /\ l.got <= data'[l.sub]
                   /\ l.sentIn = version[l.sub] => known[l.sub] <= l.got
        <4>1. l.sub \in Subs /\ l.got \in Nat /\ l.got <= data[l.sub]
          BY <3>2, ValuesAre DEF PagesInv, CacheInv, CacheTypeOK, Values, CacheFollows
        <4>2. ~Unheard(l.sub)
          BY <3>2 DEF Unheard
        <4>3. l.got <= data'[l.sub]
          BY <2>15, <4>1, <4>2
        <4> QED
          BY <3>2, <4>3 DEF PagesInv, CacheFollows
      <3> QED
        BY <1>1, <3>1, <3>2 DEF CacheFollows
    <2>17. AnswersFollow'
      <3> SUFFICES ASSUME NEW x \in runs', x.at = "done"
                   PROVE  /\ x.saw <= data'[x.sub]
                          /\ x.kind = "create" =>
                                /\ cache[x.sub] # Nothing => x.saw <= cache[x.sub]
                                /\ \A l \in loads : l.sub = x.sub /\ l.got # Nothing => x.saw <= l.got
        BY <1>1 DEF AnswersFollow
      <3>1. CASE x = q
        <4>1. x.saw <= data'[x.sub]
          BY <1>2, <2>2, <2>4, <2>5, <2>15, <3>1
        <4>2. r.kind = "create" => cache[r.sub] = Nothing /\ \A l \in loads : l.sub = r.sub => l.got = Nothing
          BY <2>1 DEF Unheard
        <4> QED
          BY <2>5, <3>1, <4>1, <4>2
      <3>2. CASE x \in runs
        <4>1. x.sub \in Subs /\ x.saw \in Nat /\ ~Unheard(x.sub)
          BY <3>2, ValuesAre DEF PagesInv, PagesTypeOK, RunRecord, Unheard
        <4>2. x.saw <= data[x.sub] /\ data[x.sub] <= data'[x.sub]
          BY <2>15, <3>2, <4>1 DEF PagesInv, AnswersFollow
        <4>3. x.saw <= data'[x.sub]
          BY <2>15, <4>1, <4>2
        <4> QED
          BY <3>2, <4>3 DEF PagesInv, AnswersFollow
      <3> QED
        BY <2>6, <2>7, <3>1, <3>2
    <2>18. BirthsFit'
      <3>1. ASSUME NEW s \in Subs, Unborn(s)' PROVE Unheard(s)'
        <4>1. s \notin born \/ \E x \in runs \ {r} : x.kind = "create" /\ x.at = "sent" /\ x.sub = s
          BY <1>1, <1>7, <2>4, <2>6, <2>7, <3>1 DEF Unborn
        <4>2. Unheard(s)
          BY <4>1 DEF PagesInv, BirthsFit, Unborn
        <4>3. s # r.sub
          <5>1. r.kind # "create" => s # r.sub
            BY <2>1, <4>2 DEF Unheard
          <5>2. r.kind = "create" => s # r.sub
            BY <1>1, <4>1 DEF PagesInv, BirthsFit
          <5> QED
            BY <5>1, <5>2
        <4>4. data'[s] = data[s] /\ \A x \in runs' : x.sub = s => x \in runs
          BY <2>1, <2>5, <2>6, <2>7, <4>3
        <4> QED
          BY <1>1, <4>2, <4>4 DEF Unheard
      <3>2. \A x \in runs' : x.kind = "create" => x.sub \in born
        BY <2>5, <2>6, <2>7 DEF PagesInv, BirthsFit
      <3> QED
        BY <1>1, <2>8, <3>1, <3>2 DEF BirthsFit
    <2>19. DrawerFollows'
      <3> SUFFICES ASSUME drawer.on PROVE drawer.since <= data'[drawer.sub]
        BY <1>1 DEF PagesInv, DrawerFollows
      <3>1. drawer.sub \in Subs /\ drawer.since \in Nat
        <4>1. drawer \in DrawerRecord
          BY DEF PagesInv, PagesTypeOK, ClosedDrawer
        <4>2. drawer.sub \in Subs /\ drawer.since \in Values
          BY <4>1 DEF DrawerRecord
        <4> QED
          BY <4>2, ValuesAre
      <3>2. drawer.since <= data[drawer.sub] /\ (Unheard(drawer.sub) => drawer.since = 0)
        BY DEF PagesInv, DrawerFollows, Unheard
      <3> QED
        BY <2>15, <3>1, <3>2
    <2> QED
      BY <1>5, <2>1, <2>8, <2>10, <2>12, <2>13, <2>14, <2>16, <2>17, <2>18, <2>19 DEF PagesInv
  <1> QED
    BY <1>3, <1>6, <1>7

LEMMA PagesInvStep == ASSUME PagesInv, [Next]_vars PROVE PagesInv'
  <1>1. ASSUME NEW r \in runs, Answers(r) PROVE PagesInv'
    BY <1>1, ServeWriteKeeps, WriteDoneKeeps, FetchServedKeeps, EndKeeps DEF Answers
  <1>2. CASE CacheStep
    BY <1>2, CacheStepKeeps, DetailArrivesKeeps DEF CacheStep
  <1>3. CASE User
    <2>1. ASSUME NEW s \in Subs, Preload(s) PROVE PagesInv'
      BY <2>1, CacheStepKeeps DEF Preload
    <2> QED
      BY <1>3, <2>1, OpenDetailKeeps, HandsKeep, CommandsKeep, SubmitKeeps, GoKeeps DEF User
  <1>4. CASE UNCHANGED vars
    <2>1. UNCHANGED <<rest, data, drawer, serverVars, cacheVars>>
      BY <1>4 DEF vars, pageVars, rest, serverVars
    <2>2. CacheMoves /\ CacheInv'
      BY <2>1, StandingStill DEF PagesInv
    <2>3. drawer' = ClosedDrawer \/ drawer' \in DrawerRecord
      BY <2>1 DEF PagesInv, PagesTypeOK
    <2> QED
      BY <2>1, <2>2, <2>3, RestStays, CacheMovesFollow, DrawerStays DEF PagesInv
  <1> QED
    BY <1>1, <1>2, <1>3, <1>4 DEF Next, Spent

LEMMA PagesInvHolds == Spec => []PagesInv
  <1>1. Init => PagesInv
    BY PagesInvInit
  <1>2. PagesInv /\ [Next]_vars => PagesInv'
    BY PagesInvStep
  <1> QED
    BY <1>1, <1>2, PTL DEF Spec

\* What a page offers is acted upon as it was shown: a write that was chosen while nothing
\* of its page was under way finds the subscription of the list, the action or the drawer
\* that it was chosen from (the handlers of the dashboard, the action centre and the drawer).
THEOREM WritesActOnWhatIsShown == Spec => []ActsOnWhatIsShown
  <1>1. PagesInv => ActsOnWhatIsShown
    BY DEF PagesInv, WritesFit, ActsOnWhatIsShown
  <1> QED
    BY <1>1, PagesInvHolds, PTL

\* However many handlers ran, a page that is settled has the server's subscriptions and
\* items, and the drawer shows its own subscription, not older than what was known when it
\* was opened (fetchData, and the listeners of subscription-detail-drawer.tsx).
THEOREM PagesStayTrue == Spec => []PagesCatchUp
  <1>1. ASSUME PagesInv PROVE PagesCatchUp
    <2>1. ListCatchesUp
      BY <1>1 DEF PagesInv, ListFollows, ListCatchesUp, Settled, Changed, Agree
    <2>2. DrawerShowsItsOwn
      <3>1. ASSUME drawer.on, drawer.got # Nothing PROVE drawer.of = drawer.sub /\ drawer.got >= drawer.since
        <4>1. drawer.got \in Nat /\ drawer.since \in Nat
          <5>1. drawer \in DrawerRecord
            BY <1>1, <3>1 DEF PagesInv, PagesTypeOK, ClosedDrawer
          <5>2. drawer.got \in Values /\ drawer.since \in Values
            BY <5>1 DEF DrawerRecord
          <5> QED
            BY <5>2, ValuesAre
        <4> QED
          BY <1>1, <3>1, <4>1 DEF PagesInv, DrawerFollows
      <3> QED
        BY <3>1 DEF DrawerShowsItsOwn
    <2> QED
      BY <2>1, <2>2 DEF PagesCatchUp
  <1> QED
    BY <1>1, PagesInvHolds, PTL

-----------------------------------------------------------------------------
(* SubscriptionForm: what was shown is stored, and what is stored is shown. *)

FormSpec == FormInit /\ [][FormNext]_sfVars

CurrencyLists == {<<>>, <<"USD", "EUR">>, <<"USD">>, <<"EUR", "USD">>}
MaybeDate == Dates \cup {None}
Codes3 == {"USD", "EUR"}
Statuses == {"active", "ended"}
Modes == {"auto_renew", "manual_renew", "cancel_at_period_end"}

Recurrences == {"interval", "monthly_date"}

FormValues == [status : Statuses, mode : Modes, next : MaybeDate, ends : MaybeDate, type : Recurrences,
           interval : {1, 2}, monthly : {1, 2}, currency : Codes3, method : {"card", None},
           notify : {"default", "enabled", "disabled"}, days : {None, 3}]

\* A row has the columns that its status, mode, rule and notification call for, and no others.
StoredIsWhole(sub) ==
    /\ sub.status = "ended" => sub.ends # None
    /\ sub.status # "ended" =>
          sub.ends = (IF sub.mode = "cancel_at_period_end" THEN sub.next ELSE None)
    /\ sub.interval # None <=> sub.type = "interval"
    /\ sub.monthly # None <=> sub.type = "monthly_date"
    /\ sub.notify # "on" => sub.days = None

FormTypeOK ==
    /\ storedSub # None => storedSub \in Rows /\ StoredIsWhole(storedSub)
    /\ formOpen \in BOOLEAN /\ (formOpen => formValues \in FormValues)
    /\ currencies \in CurrencyLists /\ methods \in SUBSET {"card"}
    /\ offered \in [currencies : CurrencyLists, methods : SUBSET {"card"}]
    /\ \A e \in typed : e[1] \in Fields \cup {"gone"}

\* What a form shows that is opened for a row and not touched.
Opened(sub) == EndSynced(InitialValues(sub))

ListsRespected ==
    formOpen => Gone(formValues, currencies, methods) = {}

UntouchedShowsStored ==
    formOpen /\ typed = {} /\ storedSub # None => formValues = Opened(storedSub)

SentIsStored ==
    /\ sentShown # None => storedSub # None
    /\ storedSub # None => sentShown = FormShows(Opened(storedSub))

FormInv == FormTypeOK /\ ListsRespected /\ UntouchedShowsStored /\ SentIsStored /\ EditsKept

LEMMA FormNulls == None # 1 /\ None # 2 /\ None # 3 /\ None # "on" /\ None # "off"
BY NullAssumption

LEMMA DatesAre == Dates = {1, 2} /\ Today = 1 /\ TodaysDay = 2 /\ \A d \in Dates : d # None
<1>1. Dates = {1, 2}
  BY DEF Dates, Today
<1> QED
  BY <1>1, FormNulls DEF Today, TodaysDay

\* The lists: the first currency of a list is one of its own, and none is without one.
LEMMA FirstIsOffered ==
  ASSUME NEW cs \in CurrencyLists
  PROVE  OptionsOf(cs)[1] \in Codes3 /\ In(OptionsOf(cs)[1], cs)
         /\ \A c : In(c, cs) => c \in Codes3
<1>1. /\ OptionsOf(<<>>) = <<"USD", "EUR">> /\ OptionsOf(<<"USD", "EUR">>) = <<"USD", "EUR">>
      /\ OptionsOf(<<"USD">>) = <<"USD">> /\ OptionsOf(<<"EUR", "USD">>) = <<"EUR", "USD">>
  BY DEF OptionsOf, Fallback
<1>2. OptionsOf(cs) \in {<<"USD", "EUR">>, <<"USD">>, <<"EUR", "USD">>}
  BY <1>1 DEF CurrencyLists
<1>3. ASSUME NEW o, o \in {<<"USD", "EUR">>, <<"USD">>, <<"EUR", "USD">>}
      PROVE  1 \in DOMAIN o /\ o[1] \in Codes3 /\ \A i \in DOMAIN o : o[i] \in Codes3
  BY <1>3 DEF Codes3
<1> QED
  BY <1>2, <1>3 DEF In

\* The effects of a render, field by field.
LEMMA RenderedValues ==
  ASSUME NEW v \in FormValues, NEW cs \in CurrencyLists, NEW ms \in SUBSET {"card"}
  PROVE  /\ Rendered(v, cs, ms) \in FormValues
         /\ Gone(Rendered(v, cs, ms), cs, ms) = {}
         /\ "currency" \notin Gone(v, cs, ms) => Rendered(v, cs, ms).currency = v.currency
         /\ "method" \notin Gone(v, cs, ms) => Rendered(v, cs, ms).method = v.method
         /\ \A f \in Fields \ {"currency", "method", "ends"} : Rendered(v, cs, ms)[f] = v[f]
         /\ Gone(v, cs, ms) = {} => Rendered(v, cs, ms) = EndSynced(v)
<1> DEFINE a == CurrencyOffered(v, cs)
           b == MethodOffered(a, ms)
           c == EndSynced(b)
<1>1. /\ a \in FormValues /\ In(a.currency, cs) /\ a.method = v.method
      /\ (In(v.currency, cs) => a = v)
      /\ \A f \in Fields \ {"currency"} : a[f] = v[f]
  BY FirstIsOffered DEF CurrencyOffered, FormValues, Fields
<1> HIDE DEF a
<1>2. /\ b \in FormValues /\ b.method \in ms \cup {None} /\ b.currency = a.currency
      /\ (a.method \in ms \cup {None} => b = a)
      /\ \A f \in Fields \ {"method"} : b[f] = a[f]
  BY <1>1 DEF MethodOffered, FormValues, Fields
<1> HIDE DEF b
<1>3. /\ c \in FormValues /\ c.currency = b.currency /\ c.method = b.method
      /\ \A f \in Fields \ {"ends"} : c[f] = b[f]
  <2>1. OrElse(b.next, Today) \in MaybeDate /\ b.next \in MaybeDate
    BY <1>2, DatesAre DEF FormValues, OrElse, MaybeDate
  <2> QED
    BY <1>2, <2>1 DEF EndSynced, FormValues, Fields
<1>4. Rendered(v, cs, ms) = c
  BY DEF Rendered, a, b, c
<1> HIDE DEF c
<1>5. Gone(c, cs, ms) = {}
  BY <1>1, <1>2, <1>3 DEF Gone
<1>6. "currency" \notin Gone(v, cs, ms) => c.currency = v.currency
  BY <1>1, <1>2, <1>3 DEF Gone
<1>7. "method" \notin Gone(v, cs, ms) => c.method = v.method
  BY <1>1, <1>2, <1>3 DEF Gone
<1>8. Gone(v, cs, ms) = {} => c = EndSynced(v)
  BY <1>1, <1>2 DEF Gone, c
<1> QED
  BY <1>1, <1>2, <1>3, <1>4, <1>5, <1>6, <1>7, <1>8

LEMMA InitialAreValues ==
  ASSUME FormTypeOK
  PROVE  InitialValues(storedSub) \in FormValues
<1>1. CASE storedSub = None
  <2>1. CurrencyOptions[1] \in Codes3
    BY FirstIsOffered DEF CurrencyOptions, FormTypeOK
  <2> QED
    BY <1>1, <2>1, DatesAre DEF InitialValues, BlankForm, FormValues, Statuses, Modes, Recurrences, MaybeDate
<1>2. CASE storedSub # None
  <2> DEFINE sub == storedSub
  <2>1. sub \in Rows
    BY <1>2 DEF FormTypeOK
  <2> HIDE DEF sub
  <2>2. /\ OrElse(sub.next, Today) \in MaybeDate /\ EndShown(sub) \in MaybeDate
        /\ OrElse(sub.interval, 1) \in {1, 2} /\ OrElse(sub.monthly, TodaysDay) \in {1, 2}
    BY <2>1, DatesAre DEF Rows, OrElse, EndShown, MaybeDate
  <2>3. /\ sub.status \in Statuses /\ sub.mode \in Modes /\ sub.type \in Recurrences /\ sub.currency \in Codes3
        /\ sub.method \in {"card", None} /\ sub.days \in {None, 3}
    BY <2>1 DEF Rows, Statuses, Modes, Recurrences, Codes3
  <2>4. (CASE sub.notify = None -> "default" [] sub.notify = "on" -> "enabled" [] OTHER -> "disabled")
           \in {"default", "enabled", "disabled"}
    OBVIOUS
  <2> QED
    BY <1>2, <2>2, <2>3, <2>4 DEF InitialValues, FormValues, sub
<1> QED
  BY <1>1, <1>2

\* The form of a row, field by field.
LEMMA OpenedFields ==
  ASSUME NEW sub \in Rows, StoredIsWhole(sub), sub # None
  PROVE  LET v == Opened(sub)
         IN  /\ v.status = sub.status /\ v.mode = sub.mode /\ v.next = sub.next /\ v.type = sub.type
             /\ v.currency = sub.currency /\ v.method = sub.method /\ v.days = sub.days
             /\ v.status = "ended" => v.ends = sub.ends
             /\ v.type = "interval" => v.interval = sub.interval
             /\ v.type = "monthly_date" => v.monthly = sub.monthly
             /\ v.notify = (CASE sub.notify = None -> "default" [] sub.notify = "on" -> "enabled"
                              [] OTHER -> "disabled")
<1> DEFINE w == InitialValues(sub)
           v == Opened(sub)
<1>1. /\ w.status = sub.status /\ w.mode = sub.mode /\ w.next = OrElse(sub.next, Today) /\ w.type = sub.type
      /\ w.currency = sub.currency /\ w.method = sub.method /\ w.days = sub.days
      /\ w.ends = EndShown(sub) /\ w.interval = OrElse(sub.interval, 1) /\ w.monthly = OrElse(sub.monthly, TodaysDay)
      /\ w.notify = (CASE sub.notify = None -> "default" [] sub.notify = "on" -> "enabled" [] OTHER -> "disabled")
      /\ w = [f \in DOMAIN w |-> w[f]] /\ DOMAIN w = Fields
  BY DEF InitialValues, Fields
<1> HIDE DEF w
<1>2. sub.next # None /\ w.next = sub.next
  BY <1>1, DatesAre DEF Rows, OrElse
<1>3. /\ sub.status = "ended" => w.ends = sub.ends /\ w.ends # None
      /\ sub.type = "interval" => w.interval = sub.interval
      /\ sub.type = "monthly_date" => w.monthly = sub.monthly
  BY <1>1, FormNulls DEF StoredIsWhole, EndShown, OrElse
<1>4. \A f \in Fields \ {"ends"} : v[f] = w[f]
  <2>1. v = EndSynced(w)
    BY DEF Opened, w
  <2> QED
    BY <1>1, <2>1 DEF EndSynced, Fields
<1>5. v.status = "ended" => v.ends = w.ends
  <2>1. v = EndSynced(w)
    BY DEF Opened, w
  <2> QED
    BY <1>1, <1>3, <1>4, <2>1 DEF EndSynced, Fields
<1> HIDE DEF v
<1>6. /\ v.status = w.status /\ v.mode = w.mode /\ v.next = w.next /\ v.type = w.type /\ v.currency = w.currency
      /\ v.method = w.method /\ v.days = w.days /\ v.interval = w.interval /\ v.monthly = w.monthly
      /\ v.notify = w.notify
  BY <1>4 DEF Fields
<1> QED
  BY <1>1, <1>2, <1>3, <1>5, <1>6 DEF v

\* A form that is saved unchanged stores the row that it was opened for.
LEMMA UntouchedIsSame ==
  ASSUME FormTypeOK, storedSub # None
  PROVE  Normalized(Payload(Opened(storedSub))) = storedSub
<1> DEFINE sub == storedSub
           v == Opened(sub)
           p == Payload(v)
<1>1. sub \in Rows /\ StoredIsWhole(sub)
  BY DEF FormTypeOK
<1>2. /\ v.status = sub.status /\ v.mode = sub.mode /\ v.next = sub.next /\ v.type = sub.type
      /\ v.currency = sub.currency /\ v.method = sub.method /\ v.days = sub.days
      /\ v.status = "ended" => v.ends = sub.ends
      /\ v.type = "interval" => v.interval = sub.interval
      /\ v.type = "monthly_date" => v.monthly = sub.monthly
      /\ v.notify = (CASE sub.notify = None -> "default" [] sub.notify = "on" -> "enabled" [] OTHER -> "disabled")
  BY <1>1, OpenedFields
<1> HIDE DEF v
<1>3. p = [status |-> p.status, mode |-> p.mode, next |-> p.next, ends |-> p.ends, type |-> p.type,
           interval |-> p.interval, monthly |-> p.monthly, currency |-> p.currency, method |-> p.method,
           notify |-> p.notify, days |-> p.days]
  BY DEF Payload
<1>4. /\ p.status = sub.status /\ p.mode = sub.mode /\ p.next = sub.next /\ p.type = sub.type
      /\ p.currency = sub.currency /\ p.method = sub.method
  BY <1>2 DEF Payload
<1>5. p.interval = sub.interval /\ p.monthly = sub.monthly
  BY <1>1, <1>2 DEF Payload, StoredIsWhole
<1>6. p.notify = sub.notify /\ p.days = sub.days
  <2>1. v.notify = "default" <=> sub.notify = None
    BY <1>2, FormNulls
  <2>2. v.notify = "enabled" <=> sub.notify = "on"
    BY <1>2, FormNulls
  <2> QED
    BY <1>1, <1>2, <2>1, <2>2 DEF Payload, StoredIsWhole, Rows
<1>7. p.ends = (IF sub.status = "ended" THEN sub.ends ELSE IF sub.mode = "cancel_at_period_end" THEN sub.next ELSE None)
  BY <1>2 DEF Payload
<1> HIDE DEF p
<1>8. Normalized(p).ends = sub.ends
  <2>1. CASE sub.status = "ended"
    BY <1>1, <1>3, <1>4, <1>7, <2>1 DEF Normalized, OrElse, StoredIsWhole
  <2>2. CASE sub.status # "ended"
    BY <1>1, <1>3, <1>4, <1>7, <2>2 DEF Normalized, StoredIsWhole
  <2> QED
    BY <2>1, <2>2
<1>9. Normalized(p) = [p EXCEPT !.ends = sub.ends]
  BY <1>3, <1>8 DEF Normalized
<1>10. Normalized(p) = sub
  BY <1>1, <1>3, <1>4, <1>5, <1>6, <1>9 DEF Rows
<1> QED
  BY <1>10 DEF p, v, sub

\* What is saved is a whole row, and its form shows what was shown when it was saved.
LEMMA SavedIsWhole ==
  ASSUME FormTypeOK, NEW v \in FormValues, v.next # None, v.status = "ended" => v.ends # None
  PROVE  LET n == Normalized(Payload(v))
         IN  n \in Rows /\ StoredIsWhole(n) /\ FormShows(Opened(n)) = FormShows(v)
<1> DEFINE p == Payload(v)
           n == Normalized(p)
<1>1. p = [status |-> p.status, mode |-> p.mode, next |-> p.next, ends |-> p.ends, type |-> p.type,
           interval |-> p.interval, monthly |-> p.monthly, currency |-> p.currency, method |-> p.method,
           notify |-> p.notify, days |-> p.days]
  BY DEF Payload
<1>2. /\ p.status = v.status /\ p.mode = v.mode /\ p.next = v.next /\ p.type = v.type
      /\ p.currency = v.currency /\ p.method = v.method
      /\ p.ends = (IF v.status = "ended" THEN v.ends ELSE IF v.mode = "cancel_at_period_end" THEN v.next ELSE None)
      /\ p.interval = (IF v.type = "interval" THEN v.interval ELSE None)
      /\ p.monthly = (IF v.type = "monthly_date" THEN v.monthly ELSE None)
      /\ p.notify = (CASE v.notify = "default" -> None [] v.notify = "enabled" -> "on" [] OTHER -> "off")
      /\ p.days = (IF v.notify = "enabled" THEN v.days ELSE None)
  BY DEF Payload
<1> HIDE DEF p
<1>3. n.ends = (IF v.status = "ended" THEN v.ends ELSE IF v.mode = "cancel_at_period_end" THEN v.next ELSE None)
  BY <1>1, <1>2 DEF Normalized, OrElse
<1>4. /\ n.status = v.status /\ n.mode = v.mode /\ n.next = v.next /\ n.type = v.type
      /\ n.currency = v.currency /\ n.method = v.method /\ n.interval = p.interval /\ n.monthly = p.monthly
      /\ n.notify = p.notify /\ n.days = p.days
      /\ n = [status |-> n.status, mode |-> n.mode, next |-> n.next, ends |-> n.ends, type |-> n.type,
              interval |-> n.interval, monthly |-> n.monthly, currency |-> n.currency, method |-> n.method,
              notify |-> n.notify, days |-> n.days]
  BY <1>1, <1>2 DEF Normalized
<1> HIDE DEF n
<1>5. v.next \in Dates /\ v.ends \in MaybeDate /\ v.interval \in {1, 2} /\ v.monthly \in {1, 2} /\ v.days \in {None, 3}
      /\ v.type \in Recurrences /\ v.mode \in Modes /\ v.status \in Statuses /\ v.currency \in Codes3
      /\ v.method \in {"card", None} /\ v.notify \in {"default", "enabled", "disabled"}
  BY DEF FormValues, MaybeDate
<1>6. n.interval \in {1, 2, None} /\ n.monthly \in {1, 2, None}
      /\ (n.interval # None <=> n.type = "interval") /\ (n.monthly # None <=> n.type = "monthly_date")
  BY <1>2, <1>4, <1>5, FormNulls
<1>7. n.notify \in {None, "on", "off"} /\ n.days \in {None, 3} /\ (n.notify # "on" => n.days = None)
      /\ (n.notify = "on" <=> v.notify = "enabled") /\ (n.notify = None <=> v.notify = "default")
  BY <1>2, <1>4, <1>5, FormNulls
<1>8. n.ends \in Dates \cup {None}
  BY <1>3, <1>5 DEF MaybeDate
<1>9. n \in Rows
  BY <1>4, <1>5, <1>6, <1>7, <1>8 DEF Rows, Statuses, Modes, Recurrences, Codes3
<1>10. StoredIsWhole(n)
  BY <1>3, <1>4, <1>6, <1>7 DEF StoredIsWhole
<1>11. n # None
  BY <1>9, NullAssumption
<1> DEFINE o == Opened(n)
<1>12. /\ o.status = n.status /\ o.mode = n.mode /\ o.next = n.next /\ o.type = n.type
       /\ o.currency = n.currency /\ o.method = n.method /\ o.days = n.days
       /\ o.status = "ended" => o.ends = n.ends
       /\ o.type = "interval" => o.interval = n.interval
       /\ o.type = "monthly_date" => o.monthly = n.monthly
       /\ o.notify = (CASE n.notify = None -> "default" [] n.notify = "on" -> "enabled" [] OTHER -> "disabled")
  BY <1>9, <1>10, <1>11, OpenedFields
<1> HIDE DEF o
<1>13. o.notify = v.notify
  BY <1>5, <1>7, <1>12, FormNulls
<1>14. (o.status = "ended" => o.ends = v.ends) /\ (o.type = "interval" => o.interval = v.interval)
       /\ (o.type # "interval" => o.monthly = v.monthly) /\ (o.notify = "enabled" => o.days = v.days)
  BY <1>2, <1>3, <1>4, <1>5, <1>12, <1>13 DEF Recurrences
<1>15. FormShows(o) = FormShows(v)
  BY <1>4, <1>12, <1>13, <1>14 DEF FormShows
<1> QED
  BY <1>9, <1>10, <1>15 DEF n, o, p

LEMMA EndSyncedTwice ==
  ASSUME NEW v \in FormValues
  PROVE  EndSynced(EndSynced(v)) = EndSynced(v)
<1>1. OrElse(v.next, Today) # None
  BY DatesAre DEF OrElse
<1>2. CASE v.status = "active" /\ v.mode = "cancel_at_period_end"
  BY <1>2 DEF EndSynced, FormValues
<1>3. CASE v.status = "ended" /\ v.ends = None
  BY <1>1, <1>3 DEF EndSynced, FormValues
<1>4. CASE /\ ~(v.status = "active" /\ v.mode = "cancel_at_period_end")
           /\ ~(v.status = "ended" /\ v.ends = None)
  BY <1>4 DEF EndSynced
<1> QED
  BY <1>2, <1>3, <1>4

LEMMA OpenedStays ==
  ASSUME storedSub # None, storedSub' = storedSub
  PROVE  Opened(storedSub)' = Opened(storedSub)
BY DEF Opened, InitialValues

\* An entry of what the user put in stays true if its field does.
LEMMA EditStays ==
  ASSUME FormInv, formOpen, NEW e \in typed, NEW w,
         \A f \in Fields \ {"ends"} : (f = e[1]) => (w[f] = formValues[f])
  PROVE  e[1] \in {"gone", "ends"} \/ w[e[1]] = e[2]
BY DEF FormInv, FormTypeOK, EditsKept

UntouchedKept == formOpen /\ typed = {} /\ storedSub # None => storedSub' = storedSub

LEMMA SubFormOpens ==
  ASSUME FormInv, OpenForm
  PROVE  FormInv' /\ UntouchedKept
<1> DEFINE i == InitialValues(storedSub)
<1>1. /\ formOpen' = TRUE /\ formValues' = Rendered(i, currencies, methods)
      /\ typed' = {<<"gone", f>> : f \in Gone(i, currencies, methods)}
      /\ UNCHANGED <<storedSub, currencies, methods, offered, sentShown>>
  BY DEF OpenForm
<1>2. FormTypeOK /\ i \in FormValues /\ currencies \in CurrencyLists /\ methods \in SUBSET {"card"}
  BY InitialAreValues DEF FormInv, FormTypeOK
<1>3. /\ formValues' \in FormValues /\ Gone(formValues', currencies, methods) = {}
      /\ Gone(i, currencies, methods) = {} => formValues' = EndSynced(i)
  BY <1>1, <1>2, RenderedValues
<1>4. FormTypeOK'
  BY <1>1, <1>2, <1>3 DEF FormTypeOK, StoredIsWhole
<1>5. ListsRespected'
  BY <1>1, <1>3 DEF ListsRespected, Gone, In, OptionsOf
<1>6. UntouchedShowsStored'
  <2> SUFFICES ASSUME typed' = {}, storedSub # None
               PROVE  formValues' = Opened(storedSub)'
    BY <1>1 DEF UntouchedShowsStored
  <2>1. Gone(i, currencies, methods) = {}
    BY <1>1
  <2> QED
    BY <1>1, <1>3, <2>1, OpenedStays DEF Opened
<1>7. SentIsStored'
  BY <1>1, OpenedStays DEF FormInv, SentIsStored, FormShows
<1>8. EditsKept'
  BY <1>1 DEF EditsKept
<1> QED
  BY <1>1, <1>4, <1>5, <1>6, <1>7, <1>8 DEF FormInv, UntouchedKept

LEMMA SubFormCloses ==
  ASSUME FormInv, CancelForm \/ SaveForm
  PROVE  FormInv' /\ UntouchedKept
<1>0. FormTypeOK
  BY DEF FormInv
<1>1. CASE CancelForm
  <2>1. /\ formOpen' = FALSE /\ typed' = {}
        /\ UNCHANGED <<storedSub, currencies, methods, offered, sentShown>>
    BY <1>1 DEF CancelForm, ShowForm
  <2>2. FormTypeOK'
    BY <1>0, <2>1 DEF FormTypeOK, StoredIsWhole
  <2>3. ListsRespected' /\ UntouchedShowsStored' /\ EditsKept'
    BY <2>1 DEF ListsRespected, UntouchedShowsStored, EditsKept
  <2>4. SentIsStored'
    BY <2>1, OpenedStays DEF FormInv, SentIsStored, FormShows
  <2> QED
    BY <2>1, <2>2, <2>3, <2>4 DEF FormInv, UntouchedKept
<1>2. CASE SaveForm /\ formValues.method \in offered.methods \cup {None}
  <2>1. /\ formOpen /\ formValues.next # None /\ (formValues.status = "ended" => formValues.ends # None)
        /\ storedSub' = Normalized(Payload(formValues)) /\ sentShown' = FormShows(formValues)
        /\ formOpen' = FALSE /\ typed' = {}
        /\ UNCHANGED <<currencies, methods, offered>>
    BY <1>2 DEF SaveForm, ShowForm
  <2>2. formValues \in FormValues
    BY <1>0, <2>1 DEF FormTypeOK
  <2>3. storedSub' \in Rows /\ StoredIsWhole(storedSub') /\ FormShows(Opened(storedSub')) = FormShows(formValues)
    BY <1>0, <2>1, <2>2, SavedIsWhole
  <2>4. storedSub' # None
    BY <2>3, NullAssumption
  <2>5. FormTypeOK'
    BY <1>0, <2>1, <2>3 DEF FormTypeOK, StoredIsWhole
  <2>6. ListsRespected' /\ UntouchedShowsStored' /\ EditsKept'
    BY <2>1 DEF ListsRespected, UntouchedShowsStored, EditsKept
  <2>7. Opened(storedSub)' = Opened(storedSub')
    BY <2>4 DEF Opened, InitialValues
  <2>8. SentIsStored'
    BY <2>1, <2>3, <2>4, <2>7 DEF SentIsStored, FormShows
  <2>9. UntouchedKept
    <3> SUFFICES ASSUME typed = {}, storedSub # None
                 PROVE  storedSub' = storedSub
      BY DEF UntouchedKept
    <3>1. formValues = Opened(storedSub)
      BY <2>1 DEF FormInv, UntouchedShowsStored
    <3> QED
      BY <1>0, <2>1, <3>1, UntouchedIsSame
  <2> QED
    BY <2>5, <2>6, <2>8, <2>9 DEF FormInv
<1>3. CASE SaveForm /\ formValues.method \notin offered.methods \cup {None}
  <2>1. UNCHANGED <<storedSub, formOpen, formValues, currencies, methods, offered, typed, sentShown>>
    BY <1>3 DEF SaveForm
  <2>2. FormTypeOK'
    BY <1>0, <2>1 DEF FormTypeOK, StoredIsWhole
  <2>3. ListsRespected' /\ EditsKept'
    BY <2>1 DEF FormInv, ListsRespected, EditsKept, Gone, In, OptionsOf
  <2>4. UntouchedShowsStored' /\ SentIsStored'
    BY <2>1, OpenedStays DEF FormInv, UntouchedShowsStored, SentIsStored, FormShows
  <2> QED
    BY <2>1, <2>2, <2>3, <2>4 DEF FormInv, UntouchedKept
<1> QED
  BY <1>1, <1>2, <1>3

LEMMA FieldChanges ==
  ASSUME FormInv, formOpen, NEW f \in Fields, NEW x \in FormControls(f), ChangeField(f, x)
  PROVE  FormInv' /\ UntouchedKept
<1> DEFINE v == [formValues EXCEPT ![f] = x]
<1>0. /\ FormTypeOK /\ formValues \in FormValues /\ currencies \in CurrencyLists /\ methods \in SUBSET {"card"}
      /\ Gone(formValues, currencies, methods) = {}
  BY DEF FormInv, FormTypeOK, ListsRespected
<1>1. /\ formValues' = Rendered(v, currencies, methods)
      /\ typed' = {e \in typed : e[1] # f} \cup {<<f, x>>}
      /\ UNCHANGED <<storedSub, formOpen, currencies, methods, offered, sentShown>>
  BY DEF ChangeField
<1>2. v \in FormValues
  <2>1. /\ f = "status" => x \in Statuses
        /\ f = "mode" => x \in Modes
        /\ f = "next" => x \in MaybeDate
        /\ f = "ends" => x \in MaybeDate
        /\ f = "type" => x \in Recurrences
        /\ f = "interval" => x \in {1, 2}
        /\ f = "monthly" => x \in {1, 2}
        /\ f = "method" => x \in {"card", None}
        /\ f = "notify" => x \in {"default", "enabled", "disabled"}
        /\ f = "days" => x \in {None, 3}
    BY <1>0 DEF FormControls, Statuses, Modes, Recurrences, MaybeDate
  <2>2. f = "currency" => x \in Codes3
    <3>1. f = "currency" => In(x, currencies)
      BY DEF FormControls, CurrencyOptions, In
    <3> QED
      BY <1>0, <3>1, FirstIsOffered
  <2>3. /\ v.status = (IF f = "status" THEN x ELSE formValues.status)
        /\ v.mode = (IF f = "mode" THEN x ELSE formValues.mode)
        /\ v.next = (IF f = "next" THEN x ELSE formValues.next)
        /\ v.ends = (IF f = "ends" THEN x ELSE formValues.ends)
        /\ v.type = (IF f = "type" THEN x ELSE formValues.type)
        /\ v.interval = (IF f = "interval" THEN x ELSE formValues.interval)
        /\ v.monthly = (IF f = "monthly" THEN x ELSE formValues.monthly)
        /\ v.currency = (IF f = "currency" THEN x ELSE formValues.currency)
        /\ v.method = (IF f = "method" THEN x ELSE formValues.method)
        /\ v.notify = (IF f = "notify" THEN x ELSE formValues.notify)
        /\ v.days = (IF f = "days" THEN x ELSE formValues.days)
    <3>1. \A g \in Fields : v[g] = IF g = f THEN x ELSE formValues[g]
      BY <1>0 DEF FormValues, Fields
    <3> HIDE DEF v
    <3> QED
      BY <3>1 DEF Fields
  <2>5. v = [status |-> v.status, mode |-> v.mode, next |-> v.next, ends |-> v.ends, type |-> v.type,
             interval |-> v.interval, monthly |-> v.monthly, currency |-> v.currency, method |-> v.method,
             notify |-> v.notify, days |-> v.days]
    <3>1. formValues = [g \in Fields |-> formValues[g]]
      BY <1>0 DEF FormValues, Fields
    <3>2. v = [g \in Fields |-> v[g]]
      BY <3>1
    <3> HIDE DEF v
    <3> QED
      BY <3>2 DEF Fields
  <2> HIDE DEF v
  <2>4. /\ v.status \in Statuses /\ v.mode \in Modes /\ v.next \in MaybeDate /\ v.ends \in MaybeDate
        /\ v.type \in Recurrences /\ v.interval \in {1, 2} /\ v.monthly \in {1, 2} /\ v.currency \in Codes3
        /\ v.method \in {"card", None} /\ v.notify \in {"default", "enabled", "disabled"} /\ v.days \in {None, 3}
    <3>1. /\ formValues.status \in Statuses /\ formValues.mode \in Modes /\ formValues.next \in MaybeDate
          /\ formValues.ends \in MaybeDate /\ formValues.type \in Recurrences /\ formValues.interval \in {1, 2}
          /\ formValues.monthly \in {1, 2} /\ formValues.currency \in Codes3 /\ formValues.method \in {"card", None}
          /\ formValues.notify \in {"default", "enabled", "disabled"} /\ formValues.days \in {None, 3}
      BY <1>0 DEF FormValues
    <3> QED
      BY <2>1, <2>2, <2>3, <3>1
  <2> QED
    BY <2>4, <2>5 DEF FormValues
<1>3. Gone(v, currencies, methods) = {}
  <2>1. In(v.currency, currencies)
    <3>1. CASE f = "currency"
      BY <1>0, <3>1 DEF FormControls, CurrencyOptions, In, FormValues
    <3>2. CASE f # "currency"
      BY <1>0, <3>2 DEF Gone, FormValues
    <3> QED
      BY <3>1, <3>2
  <2>2. v.method \in methods \cup {None}
    <3>1. CASE f = "method"
      BY <1>0, <3>1 DEF FormControls, FormValues
    <3>2. CASE f # "method"
      BY <1>0, <3>2 DEF Gone, FormValues
    <3> QED
      BY <3>1, <3>2
  <2> QED
    BY <2>1, <2>2 DEF Gone
<1>4. \A g \in Fields : v[g] = IF g = f THEN x ELSE formValues[g]
  BY <1>0 DEF FormValues, Fields
<1> HIDE DEF v
<1>5. /\ formValues' \in FormValues /\ Gone(formValues', currencies, methods) = {}
      /\ \A g \in Fields \ {"ends"} : formValues'[g] = v[g]
  BY <1>0, <1>1, <1>2, <1>3, RenderedValues DEF Fields
<1>6. FormTypeOK'
  BY <1>0, <1>1, <1>5 DEF FormTypeOK, StoredIsWhole
<1>7. ListsRespected'
  BY <1>1, <1>5 DEF ListsRespected, Gone, In, OptionsOf
<1>8. <<f, x>> \in typed'
  BY <1>1
<1>9. UntouchedShowsStored'
  BY <1>8 DEF UntouchedShowsStored
<1>10. SentIsStored'
  BY <1>1, OpenedStays DEF FormInv, SentIsStored, FormShows
<1>11. EditsKept'
  <2> SUFFICES ASSUME NEW e \in typed'
               PROVE  e[1] \in {"gone", "ends"} \/ formValues'[e[1]] = e[2]
    BY DEF EditsKept
  <2>1. CASE e = <<f, x>>
    <3>1. e[1] = f /\ e[2] = x
      BY <2>1
    <3> QED
      BY <1>4, <1>5, <3>1
  <2>2. CASE e \in typed /\ e[1] # f
    <3>1. \A g \in Fields \ {"ends"} : g = e[1] => formValues'[g] = formValues[g]
      BY <1>4, <1>5, <2>2
    <3> QED
      BY <2>2, <3>1, EditStays
  <2> QED
    BY <1>1, <2>1, <2>2
<1> QED
  BY <1>1, <1>6, <1>7, <1>9, <1>10, <1>11 DEF FormInv, UntouchedKept

\* Lists that are fetched, and settings that change.
LEMMA ListsChange ==
  ASSUME FormInv, ListsArrive \/ SettingsChange
  PROVE  FormInv' /\ UntouchedKept
<1>0. /\ FormTypeOK /\ currencies \in CurrencyLists /\ methods \in SUBSET {"card"}
      /\ offered.currencies \in CurrencyLists /\ offered.methods \in SUBSET {"card"}
  BY DEF FormInv, FormTypeOK
<1>1. CASE SettingsChange
  <2>1. UNCHANGED <<storedSub, formOpen, formValues, currencies, methods, typed, sentShown>>
    BY <1>1 DEF SettingsChange
  <2>2. offered' \in [currencies : CurrencyLists, methods : SUBSET {"card"}]
    BY <1>0, <1>1 DEF SettingsChange, FormTypeOK, CurrencyLists
  <2>3. FormTypeOK'
    BY <1>0, <2>1, <2>2 DEF FormTypeOK, StoredIsWhole
  <2>4. ListsRespected' /\ EditsKept'
    BY <2>1 DEF FormInv, ListsRespected, EditsKept, Gone, In, OptionsOf
  <2>5. UntouchedShowsStored' /\ SentIsStored'
    BY <2>1, OpenedStays DEF FormInv, UntouchedShowsStored, SentIsStored, FormShows
  <2> QED
    BY <2>1, <2>3, <2>4, <2>5 DEF FormInv, UntouchedKept
<1>2. CASE ListsArrive
  <2> DEFINE gone == Gone(formValues, offered.currencies, offered.methods)
             v == Rendered(formValues, offered.currencies, offered.methods)
  <2>1. /\ currencies' = offered.currencies /\ methods' = offered.methods
        /\ UNCHANGED <<storedSub, formOpen, offered, sentShown>>
        /\ formOpen => /\ formValues' = v
                       /\ typed' = {e \in typed : e[1] \notin gone} \cup {<<"gone", f>> : f \in gone}
        /\ ~formOpen => typed' = typed
    BY <1>2 DEF ListsArrive, TypedAfterLists
  <2>2. ASSUME formOpen
        PROVE  /\ formValues \in FormValues /\ v \in FormValues
               /\ Gone(v, offered.currencies, offered.methods) = {}
               /\ "currency" \notin gone => v.currency = formValues.currency
               /\ "method" \notin gone => v.method = formValues.method
               /\ \A f \in Fields \ {"currency", "method", "ends"} : v[f] = formValues[f]
               /\ gone = {} => v = EndSynced(formValues)
    <3>1. formValues \in FormValues
      BY <1>0, <2>2 DEF FormTypeOK
    <3> QED
      BY <1>0, <3>1, RenderedValues
  <2> HIDE DEF gone, v
  <2>3. FormTypeOK'
    <3>1. \A e \in typed' : e[1] \in Fields \cup {"gone"}
      BY <1>0, <2>1 DEF FormTypeOK
    <3> QED
      BY <1>0, <2>1, <2>2, <3>1 DEF FormTypeOK, StoredIsWhole
  <2>4. ListsRespected'
    BY <2>1, <2>2 DEF ListsRespected, Gone, In, OptionsOf
  <2>5. UntouchedShowsStored'
    <3> SUFFICES ASSUME formOpen, typed' = {}, storedSub # None
                 PROVE  formValues' = Opened(storedSub)'
      BY <2>1 DEF UntouchedShowsStored
    <3>1. gone = {} /\ typed = {}
      BY <2>1
    <3>2. formValues = Opened(storedSub) /\ formValues' = EndSynced(formValues)
      BY <2>1, <2>2, <3>1 DEF FormInv, UntouchedShowsStored
    <3>3. EndSynced(Opened(storedSub)) = Opened(storedSub)
      <4>1. InitialValues(storedSub) \in FormValues
        BY <1>0, InitialAreValues
      <4> QED
        BY <4>1, EndSyncedTwice DEF Opened
    <3> QED
      BY <2>1, <3>2, <3>3, OpenedStays
  <2>6. SentIsStored'
    BY <2>1, OpenedStays DEF FormInv, SentIsStored, FormShows
  <2>7. EditsKept'
    <3> SUFFICES ASSUME formOpen, NEW e \in typed'
                 PROVE  e[1] \in {"gone", "ends"} \/ formValues'[e[1]] = e[2]
      BY <2>1 DEF EditsKept
    <3>1. CASE e \in typed /\ e[1] \notin gone
      <4>1. \A f \in Fields \ {"ends"} : f = e[1] => v[f] = formValues[f]
        BY <2>2, <3>1
      <4> QED
        BY <2>1, <3>1, <4>1, EditStays
    <3>2. CASE e[1] = "gone"
      BY <3>2
    <3> QED
      BY <2>1, <3>1, <3>2
  <2> QED
    BY <2>1, <2>3, <2>4, <2>5, <2>6, <2>7 DEF FormInv, UntouchedKept
<1> QED
  BY <1>1, <1>2

LEMMA FormStep ==
  ASSUME FormInv, [FormNext]_sfVars
  PROVE  FormInv' /\ UntouchedKept
<1>1. CASE UNCHANGED sfVars
  <2>1. UNCHANGED <<storedSub, formOpen, formValues, currencies, methods, offered, typed, sentShown>>
    BY <1>1 DEF sfVars
  <2>2. FormTypeOK' /\ ListsRespected' /\ EditsKept'
    BY <2>1 DEF FormInv, FormTypeOK, StoredIsWhole, ListsRespected, EditsKept, Gone, In, OptionsOf
  <2>3. UntouchedShowsStored' /\ SentIsStored'
    BY <2>1, OpenedStays DEF FormInv, UntouchedShowsStored, SentIsStored, FormShows
  <2> QED
    BY <2>1, <2>2, <2>3 DEF FormInv, UntouchedKept
<1>2. CASE OpenForm
  BY <1>2, SubFormOpens
<1>3. CASE CancelForm \/ SaveForm
  BY <1>3, SubFormCloses
<1>4. CASE ListsArrive \/ SettingsChange
  BY <1>4, ListsChange
<1>5. ASSUME formOpen, NEW f \in Fields, NEW x \in FormControls(f), ChangeField(f, x)
      PROVE  FormInv' /\ UntouchedKept
  BY <1>5, FieldChanges
<1> QED
  BY <1>1, <1>2, <1>3, <1>4, <1>5 DEF FormNext

\* The invariant, for any number of changes: a form that was not touched is that of the row,
\* one that is open has a currency and a payment method of the lists, and the row is what
\* the form showed when it was saved.
THEOREM FormInvariant == FormSpec => []FormInv
<1>1. FormInit => FormInv
  <2> SUFFICES ASSUME FormInit
               PROVE  FormInv
    OBVIOUS
  <2>1. offered \in [currencies : CurrencyLists, methods : SUBSET {"card"}]
    BY DEF FormInit, CurrencyLists
  <2>2. FormTypeOK
    BY <2>1 DEF FormInit, FormTypeOK, CurrencyLists
  <2>3. ListsRespected /\ UntouchedShowsStored /\ SentIsStored /\ EditsKept
    BY DEF FormInit, ListsRespected, UntouchedShowsStored, SentIsStored, EditsKept
  <2> QED
    BY <2>2, <2>3 DEF FormInv
<1>2. FormInv /\ [FormNext]_sfVars => FormInv'
  BY FormStep
<1> QED
  BY <1>1, <1>2, PTL DEF FormSpec

\* The form shows what is stored and stores what it shows, whatever its user changes to and
\* fro and whichever lists arrive under it.
THEOREM FormStaysTrue == FormSpec => FormKept
<1>1. FormInv => ReopenShowsWhatWasSaved /\ EditsKept
  BY DEF FormInv, ReopenShowsWhatWasSaved, UntouchedShowsStored, SentIsStored
<1>2. ASSUME FormInv, [FormNext]_sfVars
      PROVE  /\ [ReopenShowsWhatWasSaved' /\ EditsKept']_sfVars
             /\ [formOpen /\ typed = {} /\ storedSub # None /\ Listed(storedSub) => storedSub' = storedSub]_sfVars
  <2>1. FormInv' /\ UntouchedKept
    BY <1>2, FormStep
  <2>2. ReopenShowsWhatWasSaved' /\ EditsKept'
    BY <1>1, <2>1, PTL
  <2> QED
    BY <2>1, <2>2 DEF UntouchedKept
<1> QED
  BY <1>2, FormInvariant, PTL DEF FormSpec, FormKept, UntouchedSavesTheSame
=============================================================================
