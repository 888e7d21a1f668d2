------------------------------ MODULE TwoFactor ------------------------------
(***************************************************************************)
(* Two-factor authentication: the section and the setup dialog of the      *)
(* settings page (totp-section.tsx, totp-setup-dialog.tsx), and the server *)
(* that keeps a secret being set up, the secret in use and the backup      *)
(* codes (service/totp.go).  The server makes its changes one statement at *)
(* a time: an update or an insert that fails ends the request there, a     *)
(* delete that fails is passed over.                                       *)
(***************************************************************************)
EXTENDS Screens, Naturals, FiniteSets

CONSTANTS
    MaxTotpSends,   \* bound on the requests of the page
    MaxFaults,      \* bound on the statements that fail
    BackupCodes     \* number of the backup codes: eight in the code

ASSUME TotpAssumption == MaxFaults \in Nat /\ BackupCodes \in Nat \ {0}

Working == {"set", "clear", "insert", "off", "forget"}   \* where a request is at the server

VARIABLES
    secret,       \* totp_secret; totp_enabled is set with it
    pendingSecret,\* totp_temp_secret
    codesHeld,    \* user_backup_codes: each with the secret whose enabling made it
    totpReqs,     \* requests in flight
    \* the page
    totpOpen,     \* the setup dialog is open
    totpStep,     \* "qr" or "backup"
    qrSecret,     \* the secret it shows
    verifying, disabling,
    totpShown,    \* user.totp_enabled, as the page has it
    \* history
    totpSends, faults, secretsMade,
    totpAway,     \* the dialog was closed before its end, a fetch or a statement failed, or two
                  \* fetches of the user were under way together
    replaced,     \* a secret was set while another was in force
    totpCrossed   \* requests that change the second factor were under way together

totpVars == <<secret, pendingSecret, codesHeld, totpReqs, totpOpen, totpStep, qrSecret, verifying, disabling,
              totpShown, totpSends, faults, secretsMade, totpAway, replaced, totpCrossed>>

totpServer == <<secret, pendingSecret, codesHeld>>
totpPage == <<totpOpen, totpStep, qrSecret, verifying, disabling, totpShown>>

Changes == {"confirm", "disable", "use"}

Secret2FA(n) == <<n, 0>>   \* the codes of its enabling are <<n, 1>>, <<n, 2>>, ...

Ask2FA(op, what) ==
    /\ totpSends < MaxTotpSends
    /\ totpSends' = totpSends + 1
    /\ totpReqs' = totpReqs \cup {[n |-> totpSends + 1, op |-> op, what |-> what, at |-> "sent", left |-> 0,
                                   answer |-> None]}
    /\ totpCrossed' = (totpCrossed \/ (op \in Changes /\ \E q \in totpReqs : q.op \in Changes))

\* A fetch of the user (GET /auth/me) is under way.
FetchingUser == \E q \in totpReqs : q.op = "me"

-----------------------------------------------------------------------------
\* The section and its dialog.  The dialog asks for a new secret when it opens.
OpenTotpSetup ==
    /\ ~totpOpen /\ ~totpShown
    /\ totpOpen' = TRUE /\ totpStep' = "qr" /\ qrSecret' = None
    /\ Ask2FA("setup", None)
    /\ UNCHANGED <<totpServer, verifying, disabling, totpShown, faults, secretsMade, totpAway, replaced>>

CloseTotpSetup ==
    /\ totpOpen
    /\ totpOpen' = FALSE
    /\ totpAway' = (totpAway \/ totpStep = "backup" \/ verifying)
    /\ UNCHANGED <<totpServer, totpReqs, totpStep, qrSecret, verifying, disabling, totpShown, totpSends, faults,
                   secretsMade, replaced, totpCrossed>>

\* handleVerify, with a code of the secret that the dialog shows.
VerifySetup ==
    /\ totpOpen /\ totpStep = "qr" /\ ~verifying
    /\ verifying' = TRUE
    /\ Ask2FA("confirm", qrSecret)
    /\ UNCHANGED <<totpServer, totpOpen, totpStep, qrSecret, disabling, totpShown, faults, secretsMade, totpAway, replaced>>

\* handleDone and handleEnabled: the user is fetched anew.
FinishSetup ==
    /\ totpOpen /\ totpStep = "backup"
    /\ totpOpen' = FALSE
    /\ Ask2FA("me", None)
    /\ totpAway' = (totpAway \/ FetchingUser)
    /\ UNCHANGED <<totpServer, totpStep, qrSecret, verifying, disabling, totpShown, faults, secretsMade, replaced>>

\* The page is opened anew, which forgets what it had open, and its first answer is
\* there before the user acts.
ReopenSettings ==
    /\ totpReqs = {}
    /\ totpOpen' = FALSE /\ verifying' = FALSE /\ disabling' = FALSE
    /\ totpShown' = (secret # None)
    /\ UNCHANGED <<totpServer, totpReqs, totpStep, qrSecret, totpSends, faults, secretsMade, totpAway, replaced,
                   totpCrossed>>

\* handleDisable, with the password and a code of the secret or a backup code.
SendDisable ==
    /\ totpShown /\ ~disabling
    /\ disabling' = TRUE
    /\ \E what \in codesHeld \cup {secret} : Ask2FA("disable", what)
    /\ UNCHANGED <<totpServer, totpOpen, totpStep, qrSecret, verifying, totpShown, faults, secretsMade, totpAway, replaced>>

\* A sign-in elsewhere with a backup code.
SignInWithCode ==
    /\ secret # None
    /\ \E c \in codesHeld : Ask2FA("use", c)
    /\ UNCHANGED <<totpServer, totpPage, faults, secretsMade, totpAway, replaced>>

-----------------------------------------------------------------------------
\* The server.
TotpAt(q, at) == totpReqs' = (totpReqs \ {q}) \cup {[q EXCEPT !.at = at]}

GenerateSetup(q) ==
    /\ q.op = "setup" /\ q.at = "sent"
    /\ secretsMade' = secretsMade + 1
    /\ pendingSecret' = Secret2FA(secretsMade + 1)
    /\ totpReqs' = (totpReqs \ {q}) \cup {[q EXCEPT !.at = "done", !.answer = Secret2FA(secretsMade + 1)]}
    /\ UNCHANGED <<secret, codesHeld, totpPage, totpSends, faults, totpAway, replaced, totpCrossed>>

\* ConfirmSetup reads the user and validates the code ...
ReadSetup(q) ==
    /\ q.op = "confirm" /\ q.at = "sent"
    /\ TotpAt(q, IF pendingSecret # None /\ q.what = pendingSecret THEN "set" ELSE "refused")
    /\ UNCHANGED <<totpServer, totpPage, totpSends, faults, secretsMade, totpAway, replaced, totpCrossed>>

\* ... then updates it, and replaces the backup codes: all of them are deleted, and
\* inserted one by one.
EnableSecret(q) ==
    /\ q.at = "set"
    /\ secret' = q.what /\ pendingSecret' = None
    /\ TotpAt(q, "clear")
    /\ replaced' = (replaced \/ secret # None)
    /\ UNCHANGED <<codesHeld, totpPage, totpSends, faults, secretsMade, totpAway, totpCrossed>>

Bug_ClearCodes(q) ==
    /\ q.at = "clear"
    /\ totpReqs' = (totpReqs \ {q}) \cup {[q EXCEPT !.at = "insert", !.left = BackupCodes]}
    /\ UNCHANGED <<secret, pendingSecret, codesHeld, totpPage, totpSends, faults, secretsMade, totpAway, replaced,
                   totpCrossed>>

ClearCodes(q) ==
    /\ q.at = "clear"
    /\ codesHeld' = {}
    /\ totpReqs' = (totpReqs \ {q}) \cup {[q EXCEPT !.at = "insert", !.left = BackupCodes]}
    /\ UNCHANGED <<secret, pendingSecret, totpPage, totpSends, faults, secretsMade, totpAway, replaced, totpCrossed>>

InsertCode(q) ==
    /\ q.at = "insert"
    /\ codesHeld' = codesHeld \cup {<<q.what[1], q.left>>}
    /\ totpReqs' = (totpReqs \ {q}) \cup
                   {[q EXCEPT !.left = @ - 1, !.at = IF q.left = 1 THEN "done" ELSE "insert"]}
    /\ UNCHANGED <<secret, pendingSecret, totpPage, totpSends, faults, secretsMade, totpAway, replaced, totpCrossed>>

\* Disable takes a code of the secret, or a backup code, which it uses up.
VerifyDisable(q) ==
    /\ q.op = "disable" /\ q.at = "sent"
    /\ LET backup == q.what \in codesHeld
       IN  /\ TotpAt(q, IF backup \/ (secret # None /\ q.what = secret) THEN "off" ELSE "refused")
           /\ codesHeld' = codesHeld \ {q.what}
    /\ UNCHANGED <<secret, pendingSecret, totpPage, totpSends, faults, secretsMade, totpAway, replaced, totpCrossed>>

TurnOff(q) ==
    /\ q.at = "off"
    /\ secret' = None /\ pendingSecret' = None
    /\ TotpAt(q, "forget")
    /\ UNCHANGED <<codesHeld, totpPage, totpSends, faults, secretsMade, totpAway, replaced, totpCrossed>>

ForgetCodes(q) ==
    /\ q.at = "forget"
    /\ codesHeld' = {}
    /\ TotpAt(q, "done")
    /\ UNCHANGED <<secret, pendingSecret, totpPage, totpSends, faults, secretsMade, totpAway, replaced, totpCrossed>>

\* VerifyBackupCode: the codes are read and compared, and the one that fits is deleted.
FindCode(q) ==
    /\ q.op = "use" /\ q.at = "sent"
    /\ TotpAt(q, IF q.what \in codesHeld THEN "found" ELSE "refused")
    /\ UNCHANGED <<totpServer, totpPage, totpSends, faults, secretsMade, totpAway, replaced, totpCrossed>>

SpendCode(q) ==
    /\ q.at = "found"
    /\ codesHeld' = codesHeld \ {q.what}
    /\ TotpAt(q, "done")
    /\ UNCHANGED <<secret, pendingSecret, totpPage, totpSends, faults, secretsMade, totpAway, replaced, totpCrossed>>

\* A statement fails, or the server stops there: the rest of the request is not done.
StatementFails(q) ==
    /\ faults < MaxFaults /\ q.at \in Working
    /\ faults' = faults + 1
    /\ TotpAt(q, "refused")
    /\ totpAway' = TRUE
    /\ UNCHANGED <<totpServer, totpPage, totpSends, secretsMade, replaced, totpCrossed>>

\* The errors of the deletes are dropped: one that fails leaves its rows, and the request
\* goes on.
DeleteIgnored(q) ==
    /\ faults < MaxFaults
    /\ faults' = faults + 1
    /\ \/ /\ q.at = "clear"
          /\ totpReqs' = (totpReqs \ {q}) \cup {[q EXCEPT !.at = "insert", !.left = BackupCodes]}
       \/ q.at \in {"forget", "found"} /\ TotpAt(q, "done")
       \/ q.op = "disable" /\ q.at = "sent" /\ q.what \in codesHeld /\ TotpAt(q, "off")
    /\ UNCHANGED <<totpServer, totpPage, totpSends, secretsMade, totpAway, replaced, totpCrossed>>

ReadUser(q) ==
    /\ q.op = "me" /\ q.at = "sent"
    /\ totpReqs' = (totpReqs \ {q}) \cup {[q EXCEPT !.at = "done", !.answer = secret]}
    /\ UNCHANGED <<totpServer, totpPage, totpSends, faults, secretsMade, totpAway, replaced, totpCrossed>>

-----------------------------------------------------------------------------
\* The answers at the page.  An answer about a setup is taken by whichever opening
\* of the dialog there is; a setup that fails closes it.
TotpAnswered(q) ==
    /\ q.at \in {"done", "refused"}
    /\ qrSecret' = IF q.op = "setup" /\ q.at = "done" THEN q.answer ELSE qrSecret
    /\ totpStep' = IF q.op = "confirm" /\ q.at = "done" THEN "backup" ELSE totpStep
    /\ verifying' = IF q.op = "confirm" THEN FALSE ELSE verifying
    /\ disabling' = IF q.op = "disable" THEN FALSE ELSE disabling
    /\ totpShown' = IF q.op = "me" THEN q.answer # None ELSE totpShown
    /\ LET fetch == q.op = "disable" /\ q.at = "done"
       IN  /\ totpReqs' = (totpReqs \ {q}) \cup {p \in {[q EXCEPT !.op = "me", !.at = "sent"]} : fetch}
           /\ totpAway' = (totpAway \/ (fetch /\ FetchingUser))
    /\ UNCHANGED <<totpServer, totpOpen, totpSends, faults, secretsMade, replaced, totpCrossed>>

\* A request that does not reach the server.
TotpLost(q) ==
    /\ q.at = "sent"
    /\ IF q.op = "setup" THEN totpReqs' = totpReqs \ {q} /\ totpOpen' = FALSE
       ELSE IF q.op = "me" THEN totpReqs' = totpReqs \ {q} /\ UNCHANGED totpOpen
       ELSE TotpAt(q, "refused") /\ UNCHANGED totpOpen
    /\ totpAway' = (totpAway \/ q.op = "me" \/ (q.op = "setup" /\ (totpStep = "backup" \/ verifying)))
    /\ UNCHANGED <<totpServer, totpStep, qrSecret, verifying, disabling, totpShown, totpSends, faults, secretsMade,
                   replaced, totpCrossed>>

TotpInit ==
    /\ secret = None /\ pendingSecret = None /\ codesHeld = {} /\ totpReqs = {}
    /\ totpOpen = FALSE /\ totpStep = "qr" /\ qrSecret = None /\ verifying = FALSE /\ disabling = FALSE
    /\ totpShown = FALSE
    /\ totpSends = 0 /\ faults = 0 /\ secretsMade = 0 /\ totpAway = FALSE /\ replaced = FALSE /\ totpCrossed = FALSE

TotpStepOf(q) ==
    \/ GenerateSetup(q) \/ ReadSetup(q) \/ EnableSecret(q) \/ ClearCodes(q) \/ InsertCode(q)
    \/ VerifyDisable(q) \/ TurnOff(q) \/ ForgetCodes(q) \/ FindCode(q) \/ SpendCode(q)
    \/ StatementFails(q) \/ DeleteIgnored(q) \/ ReadUser(q) \/ TotpAnswered(q) \/ TotpLost(q)

TotpNext ==
    \/ OpenTotpSetup \/ CloseTotpSetup \/ VerifySetup \/ FinishSetup \/ ReopenSettings
    \/ SendDisable \/ SignInWithCode
    \/ \E q \in totpReqs : TotpStepOf(q)

-----------------------------------------------------------------------------
\* What the code leaves in order when one statement fails; two that fail are beyond it: a
\* disabling cut short leaves codes that a set-up cut short does not delete.
OneFault == MaxFaults \in {0, 1}

TotpQuiet == \A q \in totpReqs : q.at \notin Working \cup {"found"}

\* With one statement that fails anywhere, and requests one after the other, a
\* backup code that opens the account is one of the enabling in force: what an
\* unfinished disabling leaves behind does not survive the next enabling
\* (totp.go:76 and :132).  A set-up confirmed over a second factor in force that fails
\* after its first statement is the exception: it leaves the codes of the one before.
CodesOfThisSecret ==
    secret # None /\ TotpQuiet /\ ~totpCrossed /\ ~(replaced /\ faults > 0)
        => \A c \in codesHeld : c[1] = secret[1]

\* When all is answered the section shows whether the second factor is in force,
\* unless its dialog was closed before "Done", something failed, or requests crossed
\* (a fetch of the user that is answered late shows what a later one had replaced).
SectionAgrees ==
    totpReqs = {} /\ ~totpAway /\ ~totpCrossed /\ ~totpOpen => totpShown = (secret # None)

\* Secret, codes and section of the page belong together, whichever statement fails.
SecondFactorHolds ==
    CodesOfThisSecret /\ SectionAgrees
=============================================================================
