--------------------------- MODULE SubscriptionForm ---------------------------
(***************************************************************************)
(* The values of the subscription form (use-subscription-form-state.ts):   *)
(* what it starts with, the effects that follow a change, what it sends,   *)
(* and what the server makes of it.  The lists of currencies and payment   *)
(* methods may be fetched anew under the open form.                        *)
(*                                                                         *)
(* A date is a number, Today or later; None stands for a null and for an   *)
(* empty field.  Of the rules of recurrence two are kept, an interval and  *)
(* a day of the month.                                                     *)
(***************************************************************************)
EXTENDS Screens, Naturals, Sequences

CONSTANTS
    MaxEdits   \* bound on the changes a user makes

Today == 1
Dates == Today..2
TodaysDay == 2                 \* today.getDate()
Fallback == <<"USD", "EUR">>   \* DEFAULT_CURRENCY_FALLBACK

\* The row of a subscription, as the page has it.
Rows == [status : {"active", "ended"}, mode : {"auto_renew", "manual_renew", "cancel_at_period_end"},
         next : Dates, ends : Dates \cup {None}, type : {"interval", "monthly_date"},
         interval : {1, 2, None}, monthly : {1, 2, None}, currency : {"USD", "EUR"}, method : {"card", None},
         notify : {None, "on", "off"}, days : {None, 3}]

\* A null is no row and none of the values of a column.
ASSUME NullAssumption == None \notin 1..3 /\ None \notin {"active", "card", "on", "off"} /\ None \notin Rows

VARIABLES
    storedSub,  \* the subscription at the server, None before it is created
    formOpen,   \* the dialog is open
    formValues, \* the fields
    currencies, \* the user's currencies, as the page has them
    methods,    \* the user's payment methods, as the page has them
    offered,    \* the same two, as the server has them
    edits,      \* changes made so far
    \* history
    typed,      \* what the user put into which field since the form was opened
    sentShown   \* what the form showed when it was last saved

sfVars == <<storedSub, formOpen, formValues, currencies, methods, offered, edits, typed, sentShown>>

Fields == {"status", "mode", "next", "ends", "type", "interval", "monthly", "currency", "method",
           "notify", "days"}

OptionsOf(cs) == IF cs # <<>> THEN cs ELSE Fallback
CurrencyOptions == OptionsOf(currencies)
In(c, cs) == \E i \in DOMAIN OptionsOf(cs) : OptionsOf(cs)[i] = c

-----------------------------------------------------------------------------
\* buildInitialValues.
BlankForm ==
    [status |-> "active", mode |-> "auto_renew", next |-> Today, ends |-> Today,
     type |-> "interval", interval |-> 1, monthly |-> TodaysDay,
     currency |-> CurrencyOptions[1], method |-> None, notify |-> "default", days |-> None]

OrElse(a, b) == IF a # None THEN a ELSE b

EndShown(sub) == OrElse(sub.ends, OrElse(sub.next, Today))

InitialValues(sub) ==
    IF sub = None THEN BlankForm
    ELSE [status |-> sub.status, mode |-> sub.mode, next |-> OrElse(sub.next, Today),
          ends |-> EndShown(sub),
          type |-> sub.type, interval |-> OrElse(sub.interval, 1), monthly |-> OrElse(sub.monthly, TodaysDay),
          currency |-> sub.currency, method |-> sub.method,
          notify |-> CASE sub.notify = None -> "default" [] sub.notify = "on" -> "enabled"
                       [] OTHER -> "disabled",
          days |-> sub.days]

\* The effects that follow a render, to their fixpoint: a currency that is not
\* offered gives way to the first, a payment method that is not there to none,
\* and the end follows the next date of a subscription that ends with its period.
CurrencyOffered(v, cs) ==
    IF In(v.currency, cs) THEN v ELSE [v EXCEPT !.currency = OptionsOf(cs)[1]]

MethodOffered(v, ms) ==
    IF v.method \in ms \cup {None} THEN v ELSE [v EXCEPT !.method = None]

EndSynced(v) ==
    CASE v.status = "active" /\ v.mode = "cancel_at_period_end" -> [v EXCEPT !.ends = v.next]
      [] v.status = "ended" /\ v.ends = None -> [v EXCEPT !.ends = OrElse(v.next, Today)]
      [] OTHER -> v

Rendered(v, cs, ms) == EndSynced(MethodOffered(CurrencyOffered(v, cs), ms))

-----------------------------------------------------------------------------
\* handleSubmit: the payload of the formValues.
Bug_Payload(v) ==
    [status |-> v.status, mode |-> v.mode, next |-> v.next,
     ends |-> IF v.mode = "cancel_at_period_end" THEN v.next
              ELSE IF v.status = "ended" THEN v.ends ELSE None,
     type |-> v.type,
     interval |-> IF v.type = "interval" THEN v.interval ELSE None,
     monthly |-> IF v.type = "monthly_date" THEN v.monthly ELSE None,
     currency |-> v.currency, method |-> v.method,
     notify |-> CASE v.notify = "default" -> None [] v.notify = "enabled" -> "on" [] OTHER -> "off",
     days |-> v.days]

Payload(v) ==
    [status |-> v.status, mode |-> v.mode, next |-> v.next,
     ends |-> IF v.status = "ended" THEN v.ends
              ELSE IF v.mode = "cancel_at_period_end" THEN v.next ELSE None,
     type |-> v.type,
     interval |-> IF v.type = "interval" THEN v.interval ELSE None,
     monthly |-> IF v.type = "monthly_date" THEN v.monthly ELSE None,
     currency |-> v.currency, method |-> v.method,
     notify |-> CASE v.notify = "default" -> None [] v.notify = "enabled" -> "on" [] OTHER -> "off",
     days |-> IF v.notify = "enabled" THEN v.days ELSE None]

\* normalizeLifecycleDraft and normalizeBillingDraft, with what an update leaves
\* out taken from the stored subscription.
Normalized(p) ==
    LET ends == IF p.ends # None \/ storedSub = None THEN p.ends ELSE storedSub.ends
    IN  [p EXCEPT !.ends = IF p.status = "ended" THEN OrElse(ends, p.next)
                           ELSE IF p.mode = "cancel_at_period_end" THEN p.next ELSE None]

-----------------------------------------------------------------------------
\* What the lists leave nothing of.
Gone(v, cs, ms) == (IF In(v.currency, cs) THEN {} ELSE {"currency"})
                   \cup (IF v.method \in ms \cup {None} THEN {} ELSE {"method"})

\* The dialog opens: this is when the fields are reset, and not when the page
\* hands over another subscription or another default currency later.
OpenForm ==
    /\ ~formOpen
    /\ formOpen' = TRUE
    /\ formValues' = Rendered(InitialValues(storedSub), currencies, methods)
    /\ typed' = {<<"gone", f>> : f \in Gone(InitialValues(storedSub), currencies, methods)}
    /\ UNCHANGED <<storedSub, currencies, methods, offered, edits, sentShown>>

ShowForm(open) ==
    /\ formOpen' = open
    /\ formValues' = IF open THEN formValues ELSE None
    /\ typed' = IF open THEN typed ELSE {}

CancelForm ==
    /\ formOpen
    /\ ShowForm(FALSE)
    /\ UNCHANGED <<storedSub, currencies, methods, offered, edits, sentShown>>

\* What the controls allow: renewal mode, end and days only while they are shown.
FormControls(f) ==
    CASE f = "status"   -> {"active", "ended"}
      [] f = "mode"     -> IF formValues.status = "ended" THEN {}
                           ELSE {"auto_renew", "manual_renew", "cancel_at_period_end"}
      [] f = "next"     -> Dates \cup {None}
      [] f = "ends"     -> IF formValues.status = "ended" THEN Dates \cup {None} ELSE {}
      [] f = "type"     -> {"interval", "monthly_date"}
      [] f = "interval" -> IF formValues.type = "interval" THEN {1, 2} ELSE {}
      [] f = "monthly"  -> IF formValues.type = "monthly_date" THEN {1, 2} ELSE {}
      [] f = "currency" -> {CurrencyOptions[i] : i \in DOMAIN CurrencyOptions}
      [] f = "method"   -> methods \cup {None}
      [] f = "notify"   -> {"default", "enabled", "disabled"}
      [] f = "days"     -> IF formValues.notify = "enabled" THEN {None, 3} ELSE {}

ChangeField(f, x) ==
    /\ formOpen
    /\ edits < MaxEdits
    /\ edits' = edits + 1
    /\ formValues' = Rendered([formValues EXCEPT ![f] = x], currencies, methods)
    /\ typed' = {e \in typed : e[1] # f} \cup {<<f, x>>}
    /\ UNCHANGED <<storedSub, formOpen, currencies, methods, offered, sentShown>>

\* What the form shows of its formValues.
FormShows(v) ==
    <<v.status, v.mode, v.next, IF v.status = "ended" THEN v.ends ELSE None, v.type,
      IF v.type = "interval" THEN v.interval ELSE v.monthly, v.currency, v.method, v.notify,
      IF v.notify = "enabled" THEN v.days ELSE None>>

\* Saved, the required fields filled in; or refused, when the payment method is
\* not there any more.
SaveForm ==
    /\ formOpen
    /\ formValues.next # None
    /\ formValues.status = "ended" => formValues.ends # None
    /\ IF formValues.method \in offered.methods \cup {None}
       THEN /\ storedSub' = Normalized(Payload(formValues))
            /\ sentShown' = FormShows(formValues)
            /\ ShowForm(FALSE)
       ELSE UNCHANGED <<storedSub, formOpen, formValues, typed, sentShown>>
    /\ UNCHANGED <<currencies, methods, offered, edits>>

\* The page fetches its lists; the effects of the open form look at them.
TypedAfterLists ==
    LET gone == IF formOpen THEN Gone(formValues, offered.currencies, offered.methods) ELSE {}
    IN  {e \in typed : e[1] \notin gone} \cup {<<"gone", f>> : f \in gone}

ListsArrive ==
    /\ <<currencies, methods>> # <<offered.currencies, offered.methods>>
    /\ currencies' = offered.currencies
    /\ methods' = offered.methods
    /\ formValues' = IF formOpen THEN Rendered(formValues, offered.currencies, offered.methods)
                     ELSE formValues
    /\ typed' = TypedAfterLists
    /\ UNCHANGED <<storedSub, formOpen, offered, edits, sentShown>>

\* The settings change in another tab; what the subscription uses cannot be deleted.
SettingsChange ==
    /\ edits < MaxEdits
    /\ \/ \E c \in {<<"USD", "EUR">>, <<"USD">>, <<"EUR", "USD">>} :
             /\ storedSub # None => In(storedSub.currency, c)
             /\ offered' = [offered EXCEPT !.currencies = c]
       \/ \E s \in SUBSET {"card"} :
             /\ storedSub # None => storedSub.method \in s \cup {None}
             /\ offered' = [offered EXCEPT !.methods = s]
    /\ edits' = edits + 1
    /\ UNCHANGED <<storedSub, formOpen, formValues, currencies, methods, typed, sentShown>>

FormInit ==
    /\ storedSub = None
    /\ formOpen = FALSE
    /\ formValues = None
    /\ currencies = <<>>
    /\ methods = {}
    /\ offered = [currencies |-> <<"USD", "EUR">>, methods |-> {"card"}]
    /\ edits = 0
    /\ typed = {}
    /\ sentShown = None

FormNext ==
    \/ OpenForm \/ CancelForm \/ SaveForm \/ ListsArrive \/ SettingsChange
    \/ formOpen /\ \E f \in Fields : \E x \in FormControls(f) : ChangeField(f, x)

-----------------------------------------------------------------------------
\* The page has the currency and the payment method of a subscription in its lists.
Listed(sub) == In(sub.currency, currencies) /\ sub.method \in methods \cup {None}

\* What is saved is what the form showed: opened again and not touched, it shows
\* the same, whatever fields were changed to and fro before it was sent.
ReopenShowsWhatWasSaved ==
    formOpen /\ typed = {} /\ sentShown # None /\ Listed(storedSub) =>
        FormShows(formValues) = sentShown

\* Lists fetched under an open form (handlers of the page behind it do that)
\* take nothing from the user but a currency or a payment method that is gone.
EditsKept ==
    formOpen => \A e \in typed : e[1] \in {"gone", "ends"} \/ formValues[e[1]] = e[2]

\* Saving a form that was only opened changes nothing at the server, once the
\* page has the subscription's currency and payment method in its lists.
UntouchedSavesTheSame ==
    [][formOpen /\ typed = {} /\ storedSub # None /\ Listed(storedSub) => storedSub' = storedSub]_sfVars

\* The form of a subscription shows what is stored and stores what it shows, after each
\* step that its user, the page or another tab takes.
FormKept ==
    [][ReopenShowsWhatWasSaved' /\ EditsKept']_sfVars /\ UntouchedSavesTheSame
=============================================================================
