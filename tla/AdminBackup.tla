----------------------------- MODULE AdminBackup -----------------------------
(***************************************************************************)
(* The backup tab of the admin page (admin-backup-tab.tsx, the restore and *)
(* download handlers of use-admin-page-state.ts, reauth-dialog.tsx) with   *)
(* the tickets the server gives for a second proof of identity (reauth.go).*)
(*                                                                         *)
(* A run of a handler that waits is a record of "flows".  It keeps the     *)
(* operation of the render that started it (and the file, left out here:   *)
(* none is chosen while the dialog is open), and it goes on when its       *)
(* dialog is gone.                                                         *)
(***************************************************************************)
EXTENDS Screens, Naturals, FiniteSets

CONSTANTS
    MaxFlows,      \* bound on the factors that the administrator presents
    MaxPrompts,    \* bound on the dialogs that are opened
    MaxTickets     \* maxReauthTickets

Files == {"db", "zip"}
Factors == {"password", "passkey", "oidc"}
Operations == {"download", "restore"}

\* A dialog that is open is open for an operation.
ASSUME OperationsAssumption == None \notin Operations

VARIABLES
    restoreFile, restorePassword, restoreConfirmOpen,
    restoreEncryptedEntry, \* the file whose detection found it encrypted
    detecting,             \* files whose detection is under way
    reauthPrompt,          \* the operation the dialog is open for
    mounted,               \* number of the dialog that is mounted (its key changes)
    busy,                  \* of the dialog that is mounted
    oidcPopup,             \* number of the dialog that opened the popup
    flows,                 \* factors being presented, and what follows
    tickets,               \* at the server
    oidcResult,            \* the session that the cookie of a popup names
    \* history
    presented,             \* factors presented
    ran                    \* operations that the server carried out

restoreVars == <<restoreFile, restorePassword, restoreConfirmOpen, restoreEncryptedEntry, detecting>>
dialogVars == <<reauthPrompt, mounted, busy, oidcPopup>>
ticketVars == <<tickets, oidcResult, presented, ran>>
backupVars == <<restoreVars, dialogVars, flows, ticketVars>>

-----------------------------------------------------------------------------
\* The inputs of a restore.  The dialog is modal: they are not reached while it is open.
ChooseRestoreFile(f) ==
    /\ reauthPrompt = None /\ f # restoreFile
    /\ restoreFile' = f
    /\ restorePassword' = None
    /\ restoreEncryptedEntry' = None
    /\ restoreConfirmOpen' = FALSE
    /\ detecting' = detecting \cup ({f} \cap {"zip"})
    /\ UNCHANGED <<dialogVars, flows, ticketVars>>

\* The answer of a detection is taken for whichever file is chosen by then.
DetectionEnds(f, found) ==
    /\ f \in detecting
    /\ detecting' = detecting \ {f}
    /\ restoreEncryptedEntry' = IF found THEN f ELSE restoreEncryptedEntry
    /\ UNCHANGED <<restoreFile, restorePassword, restoreConfirmOpen, dialogVars, flows, ticketVars>>

TypeRestorePassword(p) ==
    /\ reauthPrompt = None /\ restoreEncryptedEntry # None /\ p # restorePassword
    /\ restorePassword' = p
    /\ UNCHANGED <<restoreFile, restoreConfirmOpen, restoreEncryptedEntry, detecting, dialogVars, flows,
                   ticketVars>>

RestoreConfirm(open) ==
    /\ reauthPrompt = None /\ open # restoreConfirmOpen
    /\ open => restoreFile # None
    /\ restoreConfirmOpen' = open
    /\ UNCHANGED <<restoreFile, restorePassword, restoreEncryptedEntry, detecting, dialogVars, flows,
                   ticketVars>>

\* Whether the inputs let a restore begin.  A password is refused here only when
\* it could be verified against the entry that was found, in the file it is of.
VerifiedWrong == restoreEncryptedEntry = restoreFile /\ restorePassword # "right"

RestoreInputsValid ==
    /\ restoreFile # None
    /\ restoreEncryptedEntry # None => restorePassword # None /\ ~VerifiedWrong

-----------------------------------------------------------------------------
\* The dialog: its key is the operation, so that it is another one whenever the
\* operation changes, and the one that goes closes its popup.
Prompt(op) ==
    /\ reauthPrompt' = op
    /\ IF op = reauthPrompt
       THEN UNCHANGED <<mounted, busy, oidcPopup>>
       ELSE mounted' = mounted + 1 /\ busy' = FALSE /\ oidcPopup' = None

OpenReauth(op) ==
    /\ reauthPrompt = None /\ mounted < MaxPrompts
    /\ op = "restore" => restoreConfirmOpen /\ RestoreInputsValid
    /\ Prompt(op)
    /\ UNCHANGED <<restoreVars, flows, ticketVars>>

\* Cancel is disabled while the dialog is busy; Escape and the close button are not.
DismissReauth ==
    /\ reauthPrompt # None
    /\ Prompt(None)
    /\ UNCHANGED <<restoreVars, flows, ticketVars>>

\* handlePasswordConfirm, handlePasskeyConfirm, handleOIDCConfirm.
PresentFactor(how) ==
    /\ reauthPrompt # None /\ ~busy
    /\ Cardinality(presented) < MaxFlows
    /\ LET id == Cardinality(presented) + 1
       IN  /\ presented' = presented \cup {[id |-> id, op |-> reauthPrompt]}
           /\ flows' = flows \cup {[id |-> id, dialog |-> mounted, op |-> reauthPrompt,
                                    how |-> how, at |-> "start", proof |-> None]}
    /\ busy' = TRUE
    /\ oidcPopup' = IF how = "oidc" THEN mounted ELSE oidcPopup
    /\ UNCHANGED <<restoreVars, reauthPrompt, mounted, tickets, oidcResult, ran>>

At(x, at) == flows' = (flows \ {x}) \cup {[x EXCEPT !.at = at]}

\* The catch of the three handlers: what a dialog that is gone sets is lost.
FlowFails(x) ==
    /\ x.at \in {"start", "browser", "finish"}
    /\ x.how = "oidc" /\ x.at = "browser" => oidcPopup # x.dialog
    /\ flows' = flows \ {x}
    /\ busy' = IF x.dialog = mounted THEN FALSE ELSE busy
    /\ oidcPopup' = IF x.dialog = oidcPopup THEN None ELSE oidcPopup
    /\ UNCHANGED <<restoreVars, reauthPrompt, mounted, ticketVars>>

\* The challenge of a passkey, or the address for the popup, is there.
Challenged(x) ==
    /\ x.at = "start" /\ x.how # "password"
    /\ At(x, "browser")
    /\ UNCHANGED <<restoreVars, dialogVars, ticketVars>>

PasskeyGiven(x) ==
    /\ x.at = "browser" /\ x.how = "passkey"
    /\ At(x, "finish")
    /\ UNCHANGED <<restoreVars, dialogVars, ticketVars>>

\* The provider answers in the popup, which tells every listener of the page that
\* opened it, those of dialogs that are gone included until they notice.
PopupAnswers(x, outcome) ==
    /\ x.at = "browser" /\ x.how = "oidc" /\ oidcPopup = x.dialog
    /\ oidcResult' = [op |-> IF outcome THEN x.op ELSE None, proof |-> x.id]
    /\ oidcPopup' = None
    /\ flows' = {IF y.how = "oidc" /\ y.at = "browser" THEN [y EXCEPT !.at = "finish"] ELSE y : y \in flows}
    /\ UNCHANGED <<restoreVars, reauthPrompt, mounted, busy, tickets, presented, ran>>

PopupClosed ==
    /\ oidcPopup # None
    /\ oidcPopup' = None
    /\ UNCHANGED <<restoreVars, reauthPrompt, mounted, busy, flows, ticketVars>>

-----------------------------------------------------------------------------
\* The server: a ticket for a factor that it accepts, the oldest giving way.
Oldest == {t \in tickets : \A u \in tickets : t.id <= u.id}

Mint(x, proof) ==
    /\ tickets' = (IF Cardinality(tickets) >= MaxTickets THEN tickets \ Oldest ELSE tickets)
                  \cup {[id |-> x.id, op |-> x.op]}
    /\ flows' = (flows \ {x}) \cup {[x EXCEPT !.at = "ticket", !.proof = proof]}

FactorAccepted(x) ==
    /\ \/ x.at = "start" /\ x.how = "password"
       \/ x.at = "finish" /\ x.how = "passkey"
    /\ Mint(x, x.id)
    /\ UNCHANGED <<restoreVars, dialogVars, oidcResult, presented, ran>>

\* VerifyOIDC: the session of the popup is taken, whether it fits or not.
Bug_PopupAccepted(x) ==
    /\ x.at = "finish" /\ x.how = "oidc" /\ oidcResult # None
    /\ oidcResult.op # None
    /\ Mint(x, oidcResult.proof)
    /\ oidcResult' = None
    /\ UNCHANGED <<restoreVars, dialogVars, presented, ran>>

PopupAccepted(x) ==
    /\ x.at = "finish" /\ x.how = "oidc" /\ oidcResult # None
    /\ oidcResult.op = x.op
    /\ Mint(x, oidcResult.proof)
    /\ oidcResult' = None
    /\ UNCHANGED <<restoreVars, dialogVars, presented, ran>>

PopupRefused(x) ==
    /\ x.at = "finish" /\ x.how = "oidc" /\ oidcResult # None
    /\ oidcResult.op # x.op
    /\ oidcResult' = None
    /\ UNCHANGED <<restoreVars, dialogVars, flows, tickets, presented, ran>>

TicketExpires(t) ==
    /\ tickets' = tickets \ {t}
    /\ UNCHANGED <<restoreVars, dialogVars, flows, oidcResult, presented, ran>>

\* verified: the dialog closes, whichever is open, and the operation is sent.
TicketArrives(x) ==
    /\ x.at = "ticket"
    /\ Prompt(None)
    /\ At(x, "sent")
    /\ UNCHANGED <<restoreVars, ticketVars>>

\* Consume comes before anything else, and a ticket is spent even when the rest fails.
ServerRuns(x, fails) ==
    /\ x.at = "sent"
    /\ LET t == [id |-> x.id, op |-> x.op]
       IN  /\ tickets' = tickets \ {t}
           /\ ran' = IF t \in tickets /\ ~fails
                     THEN ran \cup {[id |-> x.id, op |-> x.op, proof |-> x.proof]}
                     ELSE ran
           /\ At(x, IF t \in tickets /\ ~fails THEN "done" ELSE "refused")
    /\ UNCHANGED <<restoreVars, dialogVars, oidcResult, presented>>

\* The end of onVerified, which closes whichever dialog is open by now.
OperationAnswered(x) ==
    /\ x.at \in {"done", "refused"}
    /\ flows' = flows \ {x}
    /\ restoreConfirmOpen' = IF x.op = "restore" /\ x.at = "done" THEN FALSE ELSE restoreConfirmOpen
    /\ Prompt(None)
    /\ UNCHANGED <<restoreFile, restorePassword, restoreEncryptedEntry, detecting, ticketVars>>

BackupInit ==
    /\ restoreFile = None /\ restorePassword = None /\ restoreConfirmOpen = FALSE
    /\ restoreEncryptedEntry = None /\ detecting = {}
    /\ reauthPrompt = None /\ mounted = 0 /\ busy = FALSE /\ oidcPopup = None
    /\ flows = {} /\ tickets = {} /\ oidcResult = None /\ presented = {} /\ ran = {}

FlowStep(x) ==
    \/ FlowFails(x) \/ Challenged(x) \/ PasskeyGiven(x) \/ FactorAccepted(x)
    \/ PopupAccepted(x) \/ PopupRefused(x) \/ TicketArrives(x) \/ OperationAnswered(x)
    \/ \E b \in BOOLEAN : PopupAnswers(x, b) \/ ServerRuns(x, b)

BackupNext ==
    \/ \E f \in Files \cup {None} : ChooseRestoreFile(f)
    \/ \E f \in detecting, b \in BOOLEAN : DetectionEnds(f, b)
    \/ \E p \in {"right", "wrong", None} : TypeRestorePassword(p)
    \/ \E b \in BOOLEAN : RestoreConfirm(b)
    \/ \E op \in Operations : OpenReauth(op)
    \/ DismissReauth
    \/ \E how \in Factors : PresentFactor(how)
    \/ PopupClosed
    \/ \E t \in tickets : TicketExpires(t)
    \/ \E x \in flows : FlowStep(x)

-----------------------------------------------------------------------------
\* Every operation that the server carries out has a factor of its own behind it,
\* presented for that operation, although a popup is heard by dialogs that are gone.
EachRunIsProven ==
    /\ \A r \in ran : \E p \in presented : p.id = r.proof /\ p.op = r.op
    /\ \A r, s \in ran : r.proof = s.proof => r = s

\* A popup belongs to the dialog that is open: none outlives it and posts to a
\* listener that is gone.
NoOrphanPopup == oidcPopup # None => reauthPrompt # None /\ oidcPopup = mounted

\* An operation on backups is proven afresh each time, by a dialog that is there.
RestoresAreProven ==
    EachRunIsProven /\ NoOrphanPopup
=============================================================================
