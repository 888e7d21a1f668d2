----------------------------- MODULE AccountPage -----------------------------
(***************************************************************************)
(* The account tab of the settings page (use-settings-account.ts): the     *)
(* e-mail address is changed with a code sent to the new one, while the    *)
(* user is fetched by other parts of the page.  Guessing of codes is left  *)
(* to EmailCodes: here a code is known by the address that it was sent to. *)
(***************************************************************************)
EXTENDS Screens, Naturals

CONSTANT MaxAccountSends   \* bound on the requests of the page

Addresses == {"old", "new", "other"}

VARIABLES
    email,          \* users.email
    takenBy,        \* addresses of other accounts
    codesAt,        \* addresses with a live code for changing to them
    accountReqs,    \* requests in flight
    userEmail,      \* user.email as the page has it
    newEmail,       \* the field; the code typed beside it is codeTyped
    codeTyped,
    emailCodeSent, emailCodeLoading, emailChangeLoading,
    \* history
    accountSends,
    mailed,         \* addresses that got a code
    presentedCodes,      \* addresses whose code was presented
    userCrossed     \* a fetch of the user and a change were under way together

accountVars == <<email, takenBy, codesAt, accountReqs, userEmail, newEmail, codeTyped, emailCodeSent,
                 emailCodeLoading, emailChangeLoading, accountSends, mailed, presentedCodes, userCrossed>>

emailAtServer == <<email, takenBy, codesAt, mailed, presentedCodes>>

AccountAsk(op, address, code) ==
    /\ accountSends < MaxAccountSends
    /\ accountSends' = accountSends + 1
    /\ accountReqs' = accountReqs \cup {[n |-> accountSends + 1, op |-> op, address |-> address, code |-> code,
                                         at |-> "sent", answer |-> None]}
    /\ userCrossed' = (userCrossed \/ \E q \in accountReqs : "change" \in {op, q.op})

-----------------------------------------------------------------------------
\* The first load, and the fetch after a second factor was set up or turned off.
FetchUser ==
    /\ AccountAsk("me", None, None)
    /\ UNCHANGED <<emailAtServer, userEmail, newEmail, codeTyped, emailCodeSent, emailCodeLoading,
                   emailChangeLoading>>

\* Only the button that was pressed is disabled: the fields can be changed meanwhile.
TypeAddress(address, code) ==
    /\ newEmail' = address /\ codeTyped' = code
    /\ UNCHANGED <<emailAtServer, accountReqs, userEmail, emailCodeSent, emailCodeLoading, emailChangeLoading,
                   accountSends, userCrossed>>

SendEmailChangeCode ==
    /\ ~emailCodeLoading /\ newEmail # None /\ newEmail # userEmail
    /\ emailCodeSent' = FALSE /\ emailCodeLoading' = TRUE
    /\ AccountAsk("code", newEmail, None)
    /\ UNCHANGED <<emailAtServer, userEmail, newEmail, codeTyped, emailChangeLoading>>

ConfirmEmailChange ==
    /\ ~emailChangeLoading /\ newEmail # None /\ codeTyped # None
    /\ emailChangeLoading' = TRUE
    /\ AccountAsk("change", newEmail, codeTyped)
    /\ UNCHANGED <<emailAtServer, userEmail, newEmail, codeTyped, emailCodeSent, emailCodeLoading>>

-----------------------------------------------------------------------------
\* The server.
AccountAt(q, at, answer) == accountReqs' = (accountReqs \ {q}) \cup {[q EXCEPT !.at = at, !.answer = answer]}

Unavailable(address) == address = email \/ address \in takenBy

ReadAccount(q) ==
    /\ q.op = "me" /\ q.at = "sent"
    /\ AccountAt(q, "done", email)
    /\ UNCHANGED <<emailAtServer, userEmail, newEmail, codeTyped, emailCodeSent, emailCodeLoading,
                   emailChangeLoading, accountSends, userCrossed>>

MailChangeCode(q) ==
    /\ q.op = "code" /\ q.at = "sent"
    /\ IF Unavailable(q.address) THEN AccountAt(q, "refused", None) /\ UNCHANGED <<codesAt, mailed>>
       ELSE /\ AccountAt(q, "done", None)
            /\ codesAt' = codesAt \cup {q.address} /\ mailed' = mailed \cup {q.address}
    /\ UNCHANGED <<email, takenBy, presentedCodes, userEmail, newEmail, codeTyped, emailCodeSent, emailCodeLoading,
                   emailChangeLoading, accountSends, userCrossed>>

\* The address is looked at, and its code consumed, ...
Bug_CodeFits(q) == q.code \in codesAt

CodeFits(q) == q.code = q.address /\ q.address \in codesAt

ConsumeChangeCode(q) ==
    /\ q.op = "change" /\ q.at = "sent"
    /\ IF ~Unavailable(q.address) /\ CodeFits(q)
       THEN /\ AccountAt(q, "change", None)
            /\ codesAt' = codesAt \ {q.code} /\ presentedCodes' = presentedCodes \cup {q.code}
       ELSE AccountAt(q, "refused", None) /\ UNCHANGED <<codesAt, presentedCodes>>
    /\ UNCHANGED <<email, takenBy, mailed, userEmail, newEmail, codeTyped, emailCodeSent, emailCodeLoading,
                   emailChangeLoading, accountSends, userCrossed>>

\* ... and then it is set, unless another account has taken it: e-mails are unique.
SetEmail(q) ==
    /\ q.at = "change"
    /\ IF q.address \in takenBy THEN AccountAt(q, "refused", None) /\ UNCHANGED email
       ELSE AccountAt(q, "done", q.address) /\ email' = q.address
    /\ UNCHANGED <<takenBy, codesAt, mailed, presentedCodes, userEmail, newEmail, codeTyped, emailCodeSent,
                   emailCodeLoading, emailChangeLoading, accountSends, userCrossed>>

TakeAddress(address) ==
    /\ ~Unavailable(address)
    /\ takenBy' = takenBy \cup {address}
    /\ UNCHANGED <<email, codesAt, mailed, presentedCodes, accountReqs, userEmail, newEmail, codeTyped, emailCodeSent,
                   emailCodeLoading, emailChangeLoading, accountSends, userCrossed>>

-----------------------------------------------------------------------------
\* The answers.
UserOf(q) == IF q.op \in {"me", "change"} THEN q.answer ELSE userEmail

AccountAnswered(q) ==
    /\ q.at = "done"
    /\ accountReqs' = accountReqs \ {q}
    /\ userEmail' = UserOf(q)
    /\ IF q.op = "change" THEN newEmail' = None /\ codeTyped' = None ELSE UNCHANGED <<newEmail, codeTyped>>
    /\ emailCodeSent' = (q.op = "code" \/ (q.op # "change" /\ emailCodeSent))
    /\ emailCodeLoading' = (q.op # "code" /\ emailCodeLoading)
    /\ emailChangeLoading' = (q.op # "change" /\ emailChangeLoading)
    /\ UNCHANGED <<emailAtServer, accountSends, userCrossed>>

\* A refusal, a request that does not arrive, or an answer that does not.
AccountRefused(q) ==
    /\ q.at # "change"
    /\ accountReqs' = accountReqs \ {q}
    /\ emailCodeLoading' = (q.op # "code" /\ emailCodeLoading)
    /\ emailChangeLoading' = (q.op # "change" /\ emailChangeLoading)
    /\ userCrossed' = (userCrossed \/ q.op = "me" \/ (q.op = "change" /\ q.at = "done"))
    /\ UNCHANGED <<emailAtServer, userEmail, newEmail, codeTyped, emailCodeSent, accountSends>>

AccountInit ==
    /\ email = "old" /\ takenBy = {} /\ codesAt = {} /\ accountReqs = {}
    /\ userEmail = None /\ newEmail = None /\ codeTyped = None
    /\ emailCodeSent = FALSE /\ emailCodeLoading = FALSE /\ emailChangeLoading = FALSE
    /\ accountSends = 0 /\ mailed = {} /\ presentedCodes = {} /\ userCrossed = FALSE

AccountNext ==
    \/ FetchUser \/ SendEmailChangeCode \/ ConfirmEmailChange
    \/ \E address \in Addresses, code \in mailed \cup {None} : TypeAddress(address, code)
    \/ \E address \in Addresses : TakeAddress(address)
    \/ \E q \in accountReqs :
          \/ ReadAccount(q) \/ MailChangeCode(q) \/ ConsumeChangeCode(q) \/ SetEmail(q)
          \/ AccountAnswered(q) \/ AccountRefused(q)

-----------------------------------------------------------------------------
\* The account has an address whose own code was presented, although the field can
\* be changed between asking and confirming, and codes of two addresses are alive.
AddressProven == email # "old" => email \in presentedCodes

\* The page shows the address of the account when all is answered, unless a fetch
\* of the user failed or overlapped a change: whichever is answered last is shown.
AddressShown ==
    accountReqs = {} /\ ~userCrossed /\ userEmail # None => userEmail = email

\* The address of an account is proven, and it is the one that the page shows.
AddressAgrees ==
    AddressProven /\ AddressShown
=============================================================================
