------------------------------ MODULE EmailCodes ------------------------------
(***************************************************************************)
(* Codes sent by e-mail: the register, forgot-password and reset-password  *)
(* pages of the web client, and the server that issues a code, counts the  *)
(* wrong guesses at it and consumes it (service/auth_email.go).  One       *)
(* e-mail address and one purpose; other clients guess and ask too.        *)
(***************************************************************************)
EXTENDS Screens, Naturals, FiniteSets

CONSTANTS
    CodeDelay,     \* verificationCodeRequestDelay, and the countdown of the page
    CodeTTL,       \* verificationCodeTTL
    MaxFailures,   \* verificationCodeMaxFailures
    MaxCodeClock,  \* bound on the time
    MaxAsks,       \* bound on the codes asked for
    MaxGuesses     \* bound on the guesses

ASSUME CodesAssumption == {CodeDelay, CodeTTL, MaxFailures, MaxCodeClock, MaxAsks, MaxGuesses} \subseteq Nat

\* No page is called like no page.
ASSUME PageAssumption == None \notin {"register", "forgot", "reset", "left"}

VARIABLES
    purpose,      \* "register" or "reset"
    codeClock,
    codes,        \* email_verification_codes of the address and the purpose
    taken,        \* the registration was made: a user has the address
    asks,         \* requests for a code in flight
    guesses,      \* requests with a code in flight
    codePage,     \* "register", "forgot", "reset", or "left" once it succeeded
    countdown,    \* codeCooldown
    codeSending, codeLoading,
    \* history
    asked, guessed,
    tried,        \* wrong guesses compared with each code
    accepted,     \* guesses that consumed each code
    ended,        \* codes that an account change has put an end to
    overlapped,   \* number of guesses sent while another was under way
    uncounted,    \* number of wrong guesses whose count could not be written
    elsewhere,    \* a code may stand that the page does not know of
    tooFrequent   \* a request of the page was refused as too frequent

codeVars == <<purpose, codeClock, codes, taken, asks, guesses, codePage, countdown, codeSending, codeLoading,
              asked, guessed, tried, accepted, ended, overlapped, uncounted, elsewhere, tooFrequent>>

serverOnly == <<purpose, codeClock, codePage, countdown, codeSending, codeLoading, asked, guessed>>

-----------------------------------------------------------------------------
\* What the server reads first, as soon as it has the request: whether the address is
\* registered (emailExists) and the age of the last code before it issues another
\* (ensureVerificationCodeCooldown), and the last code that is neither consumed nor
\* expired, which a guess is compared with.
Latest(s) == {c \in s : \A d \in s : d.id <= c.id}

TooSoon == \E c \in Latest(codes) : c.made + CodeDelay > codeClock

AskRefused == taken \/ TooSoon

Expired(c) == c.made + CodeTTL <= codeClock

Guessable == Latest({c \in codes : ~c.used /\ ~Expired(c)})

Ask(mine) ==
    /\ asked < MaxAsks
    /\ asked' = asked + 1
    /\ asks' = asks \cup {q \in {[n |-> asked + 1, at |-> IF AskRefused THEN "refused" ELSE "allowed", mine |-> mine]} :
                             mine \/ ~AskRefused}
    /\ tooFrequent' = (tooFrequent \/ (TooSoon /\ ~taken /\ mine /\ ~elsewhere /\ codePage = "register"))

Guess(typed, mine) ==
    /\ guessed < MaxGuesses
    /\ guessed' = guessed + 1
    /\ LET g == [n |-> guessed + 1, typed |-> typed, at |-> "rejected", code |-> 0, seen |-> 0, mine |-> mine]
       IN  guesses' = guesses \cup
              (IF Guessable = {} THEN {h \in {[g EXCEPT !.typed = 0]} : mine}
               ELSE {[g EXCEPT !.at = "read", !.code = c.id, !.seen = c.failed, !.typed = IF @ = c.id THEN @ ELSE 0] :
                       c \in Guessable})
    /\ overlapped' = IF guesses = {} THEN overlapped ELSE overlapped + 1

-----------------------------------------------------------------------------
\* The pages.  The register page acts once its configuration allows registration.
OpenCodes(use) ==
    /\ purpose = None
    /\ purpose' = use
    /\ codePage' = IF use = "register" THEN "register" ELSE "forgot"
    /\ UNCHANGED <<codeClock, codes, taken, asks, guesses, countdown, codeSending, codeLoading, asked, guessed,
                   tried, accepted, ended, overlapped, uncounted, elsewhere, tooFrequent>>

\* handleSendCode of the register page, handleSubmit of the forgot-password page.
SendCode ==
    /\ \/ codePage = "register" /\ countdown = 0 /\ ~codeSending
          /\ codeSending' = TRUE /\ UNCHANGED codeLoading
       \/ codePage = "forgot" /\ ~codeLoading /\ codeLoading' = TRUE /\ UNCHANGED codeSending
    /\ Ask(TRUE)
    /\ UNCHANGED <<purpose, codeClock, codes, taken, guesses, codePage, countdown, guessed, tried, accepted,
                   ended, overlapped, uncounted, elsewhere>>

\* Another client asks for a code, or the page is loaded anew and forgets its countdown.
AskElsewhere ==
    /\ purpose # None
    /\ Ask(FALSE)
    /\ elsewhere' = TRUE
    /\ UNCHANGED <<purpose, codeClock, codes, taken, guesses, codePage, countdown, codeSending, codeLoading,
                   guessed, tried, accepted, ended, overlapped, uncounted>>

\* handleSubmit of the register and the reset-password page.
SubmitCode(code) ==
    /\ \/ codePage = "register"
       \/ codePage = "reset"
    /\ ~codeLoading
    /\ codeLoading' = TRUE
    /\ Guess(code, TRUE)
    /\ UNCHANGED <<purpose, codeClock, codes, taken, asks, codePage, countdown, codeSending, asked, tried,
                   accepted, ended, uncounted, elsewhere, tooFrequent>>

GuessElsewhere(code) ==
    /\ purpose # None
    /\ Guess(code, FALSE)
    /\ UNCHANGED <<purpose, codeClock, codes, taken, asks, codePage, countdown, codeSending, codeLoading,
                   asked, tried, accepted, ended, uncounted, elsewhere, tooFrequent>>

\* A second.  A countdown that lags only asks for less.
CodeTick ==
    /\ purpose # None /\ codeClock < MaxCodeClock
    /\ codeClock' = codeClock + 1
    /\ countdown' = IF countdown > 0 THEN countdown - 1 ELSE 0
    /\ UNCHANGED <<purpose, codes, taken, asks, guesses, codePage, codeSending, codeLoading, asked, guessed,
                   tried, accepted, ended, overlapped, uncounted, elsewhere, tooFrequent>>

-----------------------------------------------------------------------------
\* The rest of issueVerificationCode: the row inserted and then the mail sent; a
\* mail that fails takes the row with it.  The answers of other clients are not followed.
AskAt(a, at) ==
    asks' = (asks \ {a}) \cup {q \in {[a EXCEPT !.at = at]} : a.mine \/ at = "created"}

CreateCode(a) ==
    /\ a.at = "allowed"
    /\ codes' = codes \cup {[id |-> a.n, made |-> codeClock, failed |-> 0, used |-> FALSE]}
    /\ AskAt(a, "created")
    /\ UNCHANGED <<serverOnly, taken, guesses, tried, accepted, ended, overlapped, uncounted, elsewhere, tooFrequent>>

\* cleanupVerificationCodes takes what is consumed; what has expired stays a day.
\* Neither deletion has its error looked at (auth_email.go:305): it may not have happened.
MailCode(a, fails, cleans) ==
    /\ a.at = "created"
    /\ codes' = IF ~cleans THEN codes
                ELSE IF fails THEN {c \in codes : c.id # a.n} ELSE {c \in codes : ~c.used}
    /\ elsewhere' = (elsewhere \/ (fails /\ ~cleans))
    /\ AskAt(a, IF fails THEN "refused" ELSE "mailed")
    /\ UNCHANGED <<serverOnly, taken, guesses, tried, accepted, ended, overlapped, uncounted, tooFrequent>>

\* The answer at the page that asked: the countdown starts, or the reset page
\* opens; whether a code was sent does not matter to it.
AskAnswered(a, lost) ==
    /\ a.at \in {"refused", "mailed"}
    /\ asks' = asks \ {a}
    /\ codeSending' = FALSE
    /\ codeLoading' = IF codePage = "forgot" THEN FALSE ELSE codeLoading
    /\ elsewhere' = (elsewhere \/ (lost /\ a.at = "mailed"))
    /\ IF a.at = "mailed" /\ ~lost
       THEN /\ countdown' = IF codePage = "register" THEN CodeDelay ELSE countdown
            /\ codePage' = IF codePage = "forgot" THEN "reset" ELSE codePage
       ELSE UNCHANGED <<countdown, codePage>>
    /\ UNCHANGED <<purpose, codeClock, codes, taken, guesses, asked, guessed, tried, accepted, ended, overlapped,
                   uncounted, tooFrequent>>

-----------------------------------------------------------------------------
\* The rest of consumeVerificationCode: the guess is compared (bcrypt), and what
\* was read of the row is written back.
GuessAt(g, at) ==
    guesses' = (guesses \ {g}) \cup
        {h \in {[g EXCEPT !.at = at, !.typed = 0, !.code = 0, !.seen = 0]} : g.mine \/ at \in {"spent", "registered"}}

Write(id, failed, used) ==
    codes' = {IF c.id = id THEN [c EXCEPT !.failed = failed, !.used = c.used \/ used] ELSE c : c \in codes}

Bug_Compare(g) ==
    /\ IF g.typed = g.code
       THEN /\ Write(g.code, g.seen, TRUE)
            /\ GuessAt(g, "spent")
            /\ accepted' = [accepted EXCEPT ![g.code] = @ + 1] /\ UNCHANGED tried
       ELSE /\ Write(g.code, g.seen + 1, g.seen > MaxFailures)
            /\ GuessAt(g, "rejected")
            /\ tried' = [tried EXCEPT ![g.code] = @ + 1] /\ UNCHANGED accepted

Compare(g) ==
    IF g.seen >= MaxFailures
    THEN /\ Write(g.code, g.seen, TRUE)
         /\ GuessAt(g, "rejected")
         /\ UNCHANGED <<tried, accepted>>
    ELSE IF g.typed = g.code
    THEN /\ Write(g.code, g.seen, TRUE)
         /\ GuessAt(g, "spent")
         /\ accepted' = [accepted EXCEPT ![g.code] = @ + 1] /\ UNCHANGED tried
    ELSE /\ Write(g.code, g.seen + 1, g.seen + 1 >= MaxFailures)
         /\ GuessAt(g, "rejected")
         /\ tried' = [tried EXCEPT ![g.code] = @ + 1] /\ UNCHANGED accepted

CompareCode(g) ==
    /\ g.at = "read"
    /\ Compare(g)
    /\ UNCHANGED <<serverOnly, taken, asks, ended, overlapped, uncounted, elsewhere, tooFrequent>>

\* The same when the row is not written: a statement fails, also because the request
\* that it runs for was given up.  Of a wrong guess nobody hears (auth_email.go:372),
\* so that it is not counted; a right one is refused.
CompareFails(g) ==
    /\ g.at = "read"
    /\ GuessAt(g, "rejected")
    /\ IF g.seen < MaxFailures /\ g.typed # g.code
       THEN /\ tried' = [tried EXCEPT ![g.code] = @ + 1]
            /\ uncounted' = uncounted + 1
       ELSE UNCHANGED <<tried, uncounted>>
    /\ UNCHANGED <<serverOnly, codes, taken, asks, accepted, ended, overlapped, elsewhere, tooFrequent>>

\* The rest of ResetPassword and of Register: the account is changed and every code of
\* the purpose consumed; or the change fails, and the code is gone.  ResetPassword
\* does both in a transaction.
ConsumeAll ==
    /\ codes' = {[c EXCEPT !.used = TRUE] : c \in codes}
    /\ ended' = {c.id : c \in codes}

ResetPassword(g, fails) ==
    /\ purpose = "reset" /\ g.at = "spent"
    /\ GuessAt(g, IF fails THEN "rejected" ELSE "changed")
    /\ IF fails THEN UNCHANGED <<codes, ended>> ELSE ConsumeAll
    /\ UNCHANGED <<serverOnly, taken, asks, tried, accepted, overlapped, uncounted, elsewhere, tooFrequent>>

\* Register creates the account, which needs an address that is not registered yet, ...
CreateUser(g, fails) ==
    /\ purpose = "register" /\ g.at = "spent"
    /\ GuessAt(g, IF fails \/ taken THEN "rejected" ELSE "registered")
    /\ taken' = (taken \/ ~fails)
    /\ UNCHANGED <<serverOnly, codes, asks, tried, accepted, ended, overlapped, uncounted, elsewhere, tooFrequent>>

\* ... and consumes the codes in a statement of its own whose error it ignores.
ConsumeRest(g, fails) ==
    /\ g.at = "registered"
    /\ GuessAt(g, "changed")
    /\ IF fails THEN UNCHANGED <<codes, ended>> ELSE ConsumeAll
    /\ UNCHANGED <<serverOnly, taken, asks, tried, accepted, overlapped, uncounted, elsewhere, tooFrequent>>

GuessAnswered(g) ==
    /\ g.at \in {"rejected", "changed"}
    /\ guesses' = guesses \ {g}
    /\ codeLoading' = FALSE
    /\ codePage' = IF g.at = "changed" THEN "left" ELSE codePage
    /\ UNCHANGED <<purpose, codeClock, codes, taken, asks, countdown, codeSending, asked, guessed, tried,
                   accepted, ended, overlapped, uncounted, elsewhere, tooFrequent>>

CodesInit ==
    /\ purpose = None /\ codePage = None
    /\ codeClock = 0 /\ codes = {} /\ taken = FALSE /\ asks = {} /\ guesses = {}
    /\ countdown = 0 /\ codeSending = FALSE /\ codeLoading = FALSE
    /\ asked = 0 /\ guessed = 0
    /\ tried = [i \in 1..MaxAsks |-> 0] /\ accepted = [i \in 1..MaxAsks |-> 0]
    /\ ended = {} /\ overlapped = 0 /\ uncounted = 0 /\ elsewhere = FALSE /\ tooFrequent = FALSE

CodesNext ==
    \/ \E use \in {"register", "reset"} : OpenCodes(use)
    \/ SendCode \/ AskElsewhere \/ CodeTick
    \/ \E code \in 0..asked : SubmitCode(code) \/ GuessElsewhere(code)
    \/ \E a \in asks : CreateCode(a)
                       \/ \E b \in BOOLEAN : AskAnswered(a, b) \/ \E cleans \in BOOLEAN : MailCode(a, b, cleans)
    \/ \E g \in guesses : CompareCode(g) \/ CompareFails(g) \/ GuessAnswered(g)
                          \/ \E b \in BOOLEAN : ResetPassword(g, b) \/ CreateUser(g, b) \/ ConsumeRest(g, b)

-----------------------------------------------------------------------------
\* A code is consumed by its fifth wrong guess at the latest, and by one right one: a guess
\* beyond that overlapped another, whose count it wrote over (auth_email.go:367), or one
\* went uncounted as its statement failed; and there are no more of them than of those.
GuessesBounded ==
    \A i \in 1..MaxAsks : /\ tried[i] <= MaxFailures + overlapped + uncounted
                          /\ accepted[i] <= 1 + overlapped

\* The statement that ends the codes at an account change ends all that were sent before,
\* those included that a newer code had hidden, and no guess that is under way revives one.
\* A registration whose statement fails leaves codes, which its address makes worthless.
ChangeEndsCodes == \A c \in codes : c.id \in ended => c.used

\* When the countdown of the register page has run out the server's delay is over
\* too: its next request is not refused as too frequent.
CooldownsAgree == ~tooFrequent

\* What a code is worth: few guesses, and nothing after the change it was sent for; the
\* page's countdown and the server's delay agree on when another one may be asked for.
CodesHold ==
    GuessesBounded /\ ChangeEndsCodes /\ CooldownsAgree
=============================================================================
