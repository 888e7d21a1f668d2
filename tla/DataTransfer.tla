----------------------------- MODULE DataTransfer -----------------------------
(***************************************************************************)
(* Import and export on the settings page: a file of one of two formats is *)
(* previewed by the server, which imports it once the preview is           *)
(* confirmed.  The server does either in one transaction, and takes back   *)
(* what a preview did.                                                     *)
(***************************************************************************)
EXTENDS Screens, Naturals, Sequences

CONSTANT MaxTransfers   \* bound on the requests of the page

Formats == {"wallos", "subdux"}

\* An export has no format.
ASSUME FormatsAssumption == None \notin Formats

Names == {"a", "b"}     \* name, amount, currency and schedule of a subscription

\* The files of the user: the rows of each, in their order.
Uploads == {<<"a", "b">>, <<"b", "b">>}

VARIABLES
    held,          \* subscriptions of each name at the server
    advanced,      \* names whose billing date has moved on since
    transfers,     \* requests in flight
    exporting,     \* exportLoading
    secretsOpen,   \* exportSecretsConfirmOpen
    importing,     \* importLoading and subduxImportLoading
    previewed,     \* the preview of each format: the file and its new names, or None
    \* history
    transferCount,
    imported       \* rows of each name that imports have made

transferVars == <<held, advanced, transfers, exporting, secretsOpen, importing, previewed, transferCount,
                  imported>>

Transfer(op, format, file) ==
    /\ transferCount < MaxTransfers
    /\ transferCount' = transferCount + 1
    /\ transfers' = transfers \cup {[n |-> transferCount + 1, op |-> op, format |-> format, file |-> file,
                                     at |-> "sent", news |-> {}]}

PreviewOpen(format) == previewed[format] # None

-----------------------------------------------------------------------------
\* The page.  A preview is a dialog over it, which nothing closes while it loads.
Covered == \E format \in Formats : PreviewOpen(format)

Export(withSecrets) ==
    /\ ~exporting /\ ~Covered
    /\ withSecrets => secretsOpen
    /\ exporting' = TRUE
    /\ Transfer(IF withSecrets THEN "secrets" ELSE "export", None, <<>>)
    /\ UNCHANGED <<held, advanced, secretsOpen, importing, previewed, imported>>

OpenSecrets(open) ==
    /\ ~exporting /\ ~Covered /\ secretsOpen # open
    /\ secretsOpen' = open
    /\ UNCHANGED <<held, advanced, transfers, exporting, importing, previewed, transferCount, imported>>

\* handleImportWallos and handleImportSubdux.
ChooseFile(format, file) ==
    /\ format \notin importing /\ ~Covered
    /\ importing' = importing \cup {format}
    /\ Transfer("preview", format, file)
    /\ UNCHANGED <<held, advanced, exporting, secretsOpen, previewed, imported>>

\* The file of the preview; Wallos does not confirm one whose rows are all skipped.
ConfirmImport(format) ==
    /\ PreviewOpen(format) /\ format \notin importing
    /\ format = "wallos" => previewed[format].news # {}
    /\ importing' = importing \cup {format}
    /\ Transfer("confirm", format, previewed[format].file)
    /\ UNCHANGED <<held, advanced, exporting, secretsOpen, previewed, imported>>

Dismiss(format) ==
    /\ PreviewOpen(format) /\ format \notin importing
    /\ previewed' = [previewed EXCEPT ![format] = None]
    /\ UNCHANGED <<held, advanced, transfers, exporting, secretsOpen, importing, transferCount, imported>>

-----------------------------------------------------------------------------
\* The server.  A row of the file is a duplicate when the user has a subscription
\* of its name or an earlier row had it; the billing date does not count.
Occurrences(x, file) == Len(SelectSeq(file, LAMBDA y : y = x))

Bug_NewRows(x, file) ==
    IF Occurrences(x, file) > 0 /\ (held[x] = 0 \/ x \in advanced) THEN 1 ELSE 0

NewRows(x, file) == IF Occurrences(x, file) > 0 /\ held[x] = 0 THEN 1 ELSE 0

ServeTransfer(q) ==
    /\ q.at = "sent"
    /\ IF q.op = "confirm"
       THEN /\ held' = [x \in Names |-> held[x] + NewRows(x, q.file)]
            /\ imported' = [x \in Names |-> imported[x] + NewRows(x, q.file)]
       ELSE UNCHANGED <<held, imported>>
    /\ transfers' = (transfers \ {q}) \cup
                    {[q EXCEPT !.at = "done", !.news = {x \in Names : NewRows(x, q.file) > 0}]}
    /\ UNCHANGED <<advanced, exporting, secretsOpen, importing, previewed, transferCount>>

\* Billing dates move on, and the user deletes or renames what was imported.
Advance(x) ==
    /\ held[x] > 0 /\ x \notin advanced
    /\ advanced' = advanced \cup {x}
    /\ UNCHANGED <<held, transfers, exporting, secretsOpen, importing, previewed, transferCount, imported>>

Forget(x) ==
    /\ held[x] > 0
    /\ held' = [held EXCEPT ![x] = 0] /\ imported' = [imported EXCEPT ![x] = 0]
    /\ advanced' = advanced \ {x}
    /\ UNCHANGED <<transfers, exporting, secretsOpen, importing, previewed, transferCount>>

-----------------------------------------------------------------------------
\* The answers; a failure leaves the preview open for another try.
TransferAnswered(q) ==
    /\ q.at = "done"
    /\ transfers' = transfers \ {q}
    /\ exporting' = (exporting /\ q.op \notin {"export", "secrets"})
    /\ secretsOpen' = (secretsOpen /\ q.op # "secrets")
    /\ importing' = importing \ {q.format}
    /\ previewed' = CASE q.op = "preview" -> [previewed EXCEPT ![q.format] = [file |-> q.file, news |-> q.news]]
                      [] q.op = "confirm" -> [previewed EXCEPT ![q.format] = None]
                      [] OTHER -> previewed
    /\ UNCHANGED <<held, advanced, transferCount, imported>>

\* Not sent, refused, or the answer lost.
TransferFails(q) ==
    /\ transfers' = transfers \ {q}
    /\ exporting' = (exporting /\ q.op \notin {"export", "secrets"})
    /\ importing' = importing \ {q.format}
    /\ UNCHANGED <<held, advanced, secretsOpen, previewed, transferCount, imported>>

TransferInit ==
    /\ held = [x \in Names |-> 0] /\ advanced = {} /\ transfers = {}
    /\ exporting = FALSE /\ secretsOpen = FALSE /\ importing = {}
    /\ previewed = [format \in Formats |-> None]
    /\ transferCount = 0 /\ imported = [x \in Names |-> 0]

TransferNext ==
    \/ \E b \in BOOLEAN : Export(b) \/ OpenSecrets(b)
    \/ \E format \in Formats :
          \/ ConfirmImport(format) \/ Dismiss(format)
          \/ \E file \in Uploads : ChooseFile(format, file)
    \/ \E x \in Names : Advance(x) \/ Forget(x)
    \/ \E q \in transfers : ServeTransfer(q) \/ TransferAnswered(q) \/ TransferFails(q)

-----------------------------------------------------------------------------
\* An import whose answer was lost is confirmed again, perhaps after a rollover,
\* and the same rows come in the other format: none is imported twice.
ImportedOnce == \A x \in Names : imported[x] <= 1

\* An import under way has its preview on the screen, of the file that it imports:
\* its end is reported there and it cannot be begun a second time.
ImportIsShown ==
    \A q \in transfers : q.op = "confirm" =>
        /\ PreviewOpen(q.format) /\ previewed[q.format].file = q.file
        /\ \A p \in transfers : p.format = q.format => p = q

\* An import is done once, and shown as long as it lasts.
ImportAgrees ==
    ImportedOnce /\ ImportIsShown
=============================================================================
