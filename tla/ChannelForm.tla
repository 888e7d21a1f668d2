----------------------------- MODULE ChannelForm -----------------------------
(***************************************************************************)
(* The dialog that adds or edits a notification channel (features/         *)
(* settings/notification-channel-form), the list that it works on, and the *)
(* server's merge of what it sends with the secrets it holds               *)
(* (notification_channel_security.go).  Secrets never leave the server:    *)
(* the list has them blank, the form shows a mask for the ones it knows    *)
(* are set, and a blank one that is sent means "as before".                *)
(*                                                                         *)
(* A text is blank, one of two texts, or the mask; a choice (a method, a   *)
(* priority, an encryption, a message type) is "a", its default, or "b".   *)
(***************************************************************************)
EXTENDS Screens, Naturals

CONSTANTS ChannelTypes,     \* the types of channel of the run
          MaxChannelEdits,  \* bound on the changes of the form's fields
          MaxSaves          \* bound on the saves

Blank == ""
Texts == {"a", "b"}
Masked == "mask"            \* eight bullets
Headers == {"h", "k"}

-----------------------------------------------------------------------------
(* The fields of a type.  A required one keeps the form from being sent    *)
(* when it is blank; a free one is sent blank; a number is sent as its     *)
(* default when it is blank (or zero).                                     *)
Kind(secret, required, sent, erasable, default) ==
    [secret |-> secret, required |-> required, sent |-> sent, erasable |-> erasable, default |-> default]

Needed         == Kind(FALSE, TRUE, TRUE, TRUE, Blank)
Free           == Kind(FALSE, FALSE, TRUE, TRUE, Blank)
Optional       == Kind(FALSE, FALSE, FALSE, TRUE, Blank)
Chosen         == Kind(FALSE, FALSE, TRUE, FALSE, "a")
Number         == Kind(FALSE, FALSE, TRUE, TRUE, "a")
NeededSecret   == Kind(TRUE, TRUE, TRUE, TRUE, Blank)
FreeSecret     == Kind(TRUE, FALSE, TRUE, TRUE, Blank)
OptionalSecret == Kind(TRUE, FALSE, FALSE, TRUE, Blank)

Smtp       == [host |-> Needed, port |-> Number, username |-> Free, password |-> FreeSecret, from_email |-> Needed,
               from_name |-> Free, to_email |-> Needed, encryption |-> Chosen]
Resend     == [api_key |-> NeededSecret, from_email |-> Needed, to_email |-> Needed]
Telegram   == [bot_token |-> NeededSecret, chat_id |-> Needed]
Webhook    == [url |-> Needed, method |-> Chosen, secret |-> OptionalSecret]
Napcat     == [url |-> Needed, access_token |-> OptionalSecret, message_type |-> Chosen, user_id |-> Needed,
               group_id |-> Needed]
Pushdeer   == [push_key |-> NeededSecret, server_url |-> Optional]
Pushplus   == [token |-> NeededSecret, topic |-> Optional, endpoint |-> Optional, template |-> Chosen,
               channel |-> Optional]
Pushover   == [token |-> NeededSecret, user |-> NeededSecret, device |-> Optional, priority |-> Chosen,
               sound |-> Optional, endpoint |-> Optional]
Gotify     == [url |-> Needed, token |-> NeededSecret]
Ntfy       == [url |-> Optional, topic |-> Needed, token |-> OptionalSecret, priority |-> Optional, tags |-> Optional,
               click |-> Optional, icon |-> Optional]
Bark       == [url |-> Optional, device_key |-> NeededSecret]
ServerChan == [send_key |-> NeededSecret]
Feishu     == [webhook_url |-> NeededSecret, secret |-> OptionalSecret]
Wecom      == [webhook_url |-> NeededSecret]
Dingtalk   == [webhook_url |-> NeededSecret, secret |-> OptionalSecret]

Layout(t) ==
    CASE t = "smtp" -> Smtp           [] t = "resend" -> Resend       [] t = "telegram" -> Telegram
      [] t = "webhook" -> Webhook     [] t = "pushdeer" -> Pushdeer   [] t = "pushplus" -> Pushplus
      [] t = "pushover" -> Pushover   [] t = "gotify" -> Gotify       [] t = "ntfy" -> Ntfy
      [] t = "bark" -> Bark           [] t = "serverchan" -> ServerChan
      [] t = "feishu" -> Feishu       [] t = "wecom" -> Wecom         [] t = "dingtalk" -> Dingtalk
      [] t = "napcat" -> Napcat

\* Fields that the server takes and the form does not know.
ServerOnly(t) == CASE t = "smtp" -> {"skip_tls_verify"} [] t = "ntfy" -> {"username", "password"} [] OTHER -> {}

FormFields(t) == DOMAIN Layout(t)
SecretFields(t) == {f \in FormFields(t) : Layout(t)[f].secret} \cup (IF t = "ntfy" THEN {"password"} ELSE {})

\* A napcat channel writes to a user or to a group, and only that field is shown and sent.
Visible(t, values) ==
    FormFields(t) \ (IF t # "napcat" THEN {} ELSE IF values["message_type"] = "a" THEN {"group_id"} ELSE {"user_id"})

\* What the server keeps of a channel, what the list has of it, and what a save sends.
FieldTexts == Texts \cup {Blank, Masked}
Maps(names) == UNION {[S -> FieldTexts] : S \in SUBSET names}
HeaderMaps == Maps(Headers) \cup {None}

ChannelRows(t) == [type : {t}, config : Maps(FormFields(t) \cup ServerOnly(t)), headers : HeaderMaps]

ListedRows(t) == [type : {t}, config : Maps(FormFields(t) \cup ServerOnly(t)), headers : HeaderMaps,
                  secrets : SUBSET SecretFields(t), names : SUBSET Headers]

ChannelSaves(t) == [type : {t}, config : Maps(FormFields(t)), headers : HeaderMaps, new : BOOLEAN,
                    seen : Maps(FormFields(t)), text : HeaderMaps, row : ChannelRows(t) \cup {None},
                    answer : {None, "read", "saved", "failed"}]

\* A null is none of these.
ASSUME ChannelAssumption ==
    /\ ChannelTypes \subseteq {"smtp", "resend", "telegram", "webhook", "napcat", "pushdeer", "pushplus", "pushover",
                               "gotify", "ntfy", "bark", "serverchan", "feishu", "wecom", "dingtalk"}
    /\ None \notin {"new", "old", "read", "saved", "failed"} /\ None \notin Maps(Headers)
    /\ \A t \in ChannelTypes : None \notin ChannelRows(t) /\ None \notin ListedRows(t) /\ None \notin ChannelSaves(t)

VARIABLES
    stored,         \* the channel's row: its type, its fields, its headers (None: not set)
    listed,         \* the channel in the list of the page
    dialog,         \* None, or what is edited: "new" or "old"
    chType, chValues, chHeaders,   \* the form; the text of the headers is None when blank
    configured,     \* the secrets and headers that the channel was said to have
    formSaving,     \* the request of the form and the row that it read, None when there is none
    \* history
    channelEdits, saves

channelVars == <<stored, listed, dialog, chType, chValues, chHeaders, configured, formSaving, channelEdits, saves>>

fields == <<chType, chValues, chHeaders, configured>>

-----------------------------------------------------------------------------
(* What the server answers, and the form's reading of it.                  *)
MaskHeaders(headers) == IF headers = None THEN None ELSE [h \in DOMAIN headers |-> Blank]

NonBlank(map) == IF map = None THEN {} ELSE {f \in DOMAIN map : map[f] # Blank}

Sanitized(channel) ==
    [type    |-> channel.type,
     config  |-> [f \in DOMAIN channel.config |-> IF f \in SecretFields(channel.type) THEN Blank ELSE channel.config[f]],
     headers |-> MaskHeaders(channel.headers),
     secrets |-> NonBlank(channel.config) \cap SecretFields(channel.type),
     names   |-> NonBlank(channel.headers)]

ValuesOf(t, config) ==
    [f \in FormFields(t) |-> IF f \in DOMAIN config THEN config[f] ELSE Layout(t)[f].default]

\* Only headers with a value are shown, and those of the server as the mask.
HeadersDisplay(row) == IF row.names = {} THEN None ELSE [h \in row.names |-> Masked]

\* What a field shows while it is not being typed in.
Shows(f) ==
    IF chValues[f] = Blank /\ f \in configured THEN Masked ELSE chValues[f]

-----------------------------------------------------------------------------
(* What the form sends.                                                    *)
Sanitize(v) == IF v = Masked THEN Blank ELSE v

HeadersInput(text) == [h \in DOMAIN text |-> Sanitize(text[h])]

Outgoing(f) ==
    LET v == IF Layout(chType)[f].secret THEN Sanitize(chValues[f]) ELSE chValues[f]
    IN  IF v = Blank THEN Layout(chType)[f].default ELSE v

BuildConfig == [f \in {g \in Visible(chType, chValues) : Layout(chType)[g].sent \/ Outgoing(g) # Blank} |-> Outgoing(f)]

BuildHeaders == IF chHeaders = None THEN None ELSE HeadersInput(chHeaders)

-----------------------------------------------------------------------------
(* The server's merge with what it has read.                               *)
Bug_MergeSecrets(t, kept, sent) ==
    [f \in DOMAIN sent |-> IF f \in SecretFields(t) /\ sent[f] = Blank /\ f \in DOMAIN kept THEN kept[f] ELSE sent[f]]

MergeSecrets(t, kept, sent) ==
    [f \in DOMAIN sent \cup (SecretFields(t) \cap DOMAIN kept) |->
        IF f \in SecretFields(t) /\ f \in DOMAIN kept /\ (f \notin DOMAIN sent \/ sent[f] = Blank)
        THEN kept[f] ELSE sent[f]]

MergeHeaders(kept, sent) ==
    IF kept = None THEN sent
    ELSE IF sent = None THEN kept
    ELSE [h \in DOMAIN sent |-> IF sent[h] = Blank /\ h \in DOMAIN kept THEN kept[h] ELSE sent[h]]

Merged(q) ==
    IF q.row = None THEN [type |-> q.type, config |-> q.config, headers |-> q.headers]
    ELSE [type    |-> q.row.type,
          config  |-> MergeSecrets(q.row.type, q.row.config, q.config),
          headers |-> MergeHeaders(q.row.headers, q.headers)]

Has(config, f) == f \in DOMAIN config /\ config[f] # Blank

\* A webhook that is called with GET ("b") cannot be signed.
Valid(channel) ==
    /\ \A f \in Visible(channel.type, [g \in FormFields(channel.type) |->
                                          IF g \in DOMAIN channel.config THEN channel.config[g] ELSE Blank]) :
          Layout(channel.type)[f].required => Has(channel.config, f)
    /\ channel.type = "webhook" => ~(channel.config["method"] = "b" /\ Has(channel.config, "secret"))

-----------------------------------------------------------------------------
(* The user.                                                               *)
FormHolds(t, values, headers, secrets) ==
    chType' = t /\ chValues' = values /\ chHeaders' = headers /\ configured' = secrets

AddChannel ==
    /\ dialog = None /\ listed = None
    /\ dialog' = "new"
    /\ \E t \in ChannelTypes : FormHolds(t, ValuesOf(t, <<>>), None, {})
    /\ UNCHANGED <<stored, listed, formSaving, channelEdits, saves>>

EditChannel ==
    /\ dialog = None /\ listed # None
    /\ dialog' = "old"
    /\ FormHolds(listed.type, ValuesOf(listed.type, listed.config), HeadersDisplay(listed),
                 listed.secrets \cap FormFields(listed.type))
    /\ UNCHANGED <<stored, listed, formSaving, channelEdits, saves>>

Touches ==
    /\ dialog # None /\ channelEdits < MaxChannelEdits
    /\ channelEdits' = channelEdits + 1
    /\ UNCHANGED <<stored, listed, dialog, chType, configured, formSaving, saves>>

TypeField(f, v) ==
    /\ Touches
    /\ f \in Visible(chType, chValues) /\ v # chValues[f]
    /\ v = Masked => Layout(chType)[f].secret
    /\ v = Blank => Layout(chType)[f].erasable
    /\ chValues' = [chValues EXCEPT ![f] = v]
    /\ UNCHANGED chHeaders

\* The headers are one text: entries are added, changed, renamed and removed in it.
TypeHeaders(names, h, v) ==
    /\ Touches /\ chType = "webhook"
    /\ chHeaders' = [n \in names |-> IF n # h /\ chHeaders # None /\ n \in DOMAIN chHeaders THEN chHeaders[n] ELSE v]
    /\ UNCHANGED chValues

EraseHeaders ==
    /\ Touches /\ chHeaders # None
    /\ chHeaders' = None
    /\ UNCHANGED chValues

CloseForm ==
    /\ dialog # None
    /\ dialog' = None /\ FormHolds(None, None, None, {})
    /\ UNCHANGED <<stored, listed, formSaving, channelEdits, saves>>

SaveChannel ==
    /\ dialog # None /\ formSaving = None /\ saves < MaxSaves
    /\ \A f \in Visible(chType, chValues) : Layout(chType)[f].required => Shows(f) # Blank
    /\ saves' = saves + 1
    /\ formSaving' = [type |-> chType, config |-> BuildConfig, headers |-> BuildHeaders, new |-> dialog = "new",
                      seen |-> [f \in Visible(chType, chValues) |-> Shows(f)], text |-> chHeaders, row |-> None, answer |-> None]
    /\ UNCHANGED <<stored, listed, dialog, fields, channelEdits>>

\* UpdateChannel: the row is read and merged, and a bad configuration is refused ...
ReadChannel ==
    /\ formSaving # None /\ formSaving.answer = None
    /\ LET q == [formSaving EXCEPT !.row = stored]
       IN  formSaving' = [q EXCEPT !.answer = IF Valid(Merged(q)) THEN "read" ELSE "failed"]
    /\ UNCHANGED <<stored, listed, dialog, fields, channelEdits, saves>>

\* ... and the whole configuration is written, over what was stored in between.
WriteChannel ==
    /\ formSaving # None /\ formSaving.answer = "read"
    /\ stored' = Merged(formSaving)
    /\ formSaving' = [formSaving EXCEPT !.answer = "saved"]
    /\ UNCHANGED <<listed, dialog, fields, channelEdits, saves>>

SaveAnswered ==
    /\ formSaving # None /\ formSaving.answer = "saved"
    /\ formSaving' = None /\ dialog' = None /\ FormHolds(None, None, None, {})
    /\ listed' = Sanitized(stored)
    /\ UNCHANGED <<stored, channelEdits, saves>>

\* A save is refused, a statement fails, or an answer is lost.  A creation whose answer is
\* lost leaves a channel that the page does not have; the next one is another.
SaveFails ==
    /\ formSaving # None
    /\ formSaving' = None
    /\ stored' = IF formSaving.answer = "saved" /\ formSaving.new THEN None ELSE stored
    /\ UNCHANGED <<listed, dialog, fields, channelEdits, saves>>

\* A client of the API: a full channel, with fields that the form does not know ...
CreateElsewhere(t) ==
    /\ stored = None /\ listed = None /\ dialog = None /\ formSaving = None
    /\ stored' = [type |-> t, config |-> [f \in FormFields(t) \cup ServerOnly(t) |-> "a"],
                  headers |-> IF t = "webhook" THEN [h \in Headers |-> "a"] ELSE None]
    /\ listed' = Sanitized(stored')
    /\ UNCHANGED <<dialog, fields, formSaving, channelEdits, saves>>

\* ... or a secret that it changes while the form is open.
Rotate(f) ==
    /\ stored # None /\ f \in DOMAIN stored.config \cap SecretFields(stored.type)
    /\ stored.config[f] = "a"
    /\ stored' = [stored EXCEPT !.config[f] = "b"]
    /\ UNCHANGED <<listed, dialog, fields, formSaving, channelEdits, saves>>

ChannelInit ==
    /\ stored = None /\ listed = None /\ dialog = None
    /\ chType = None /\ chValues = None /\ chHeaders = None /\ configured = {}
    /\ formSaving = None /\ channelEdits = 0 /\ saves = 0

ChannelNext ==
    \/ AddChannel \/ EditChannel \/ CloseForm \/ SaveChannel \/ ReadChannel \/ WriteChannel \/ SaveAnswered \/ SaveFails
    \/ dialog # None /\ \E f \in FormFields(chType), v \in FieldTexts : TypeField(f, v)
    \/ \E names \in SUBSET Headers, h \in Headers, v \in FieldTexts : TypeHeaders(names, h, v)
    \/ EraseHeaders
    \/ \E t \in ChannelTypes : CreateElsewhere(t)
    \/ stored # None /\ \E f \in SecretFields(stored.type) : Rotate(f)

-----------------------------------------------------------------------------
\* The mask is for the eyes: it is never stored as if it were a password, whether it
\* was typed, left in a field or left in the text of the headers.
MaskNotStored ==
    stored # None =>
        /\ \A f \in DOMAIN stored.config : stored.config[f] # Masked
        /\ stored.headers # None => \A h \in DOMAIN stored.headers : stored.headers[h] # Masked

Serves == formSaving # None /\ formSaving.answer = "read" /\ formSaving' # None /\ formSaving'.answer = "saved"

\* A save changes a secret of the row that it read only if the form showed another text for
\* it: an edit of the host does not lose the password, whoever set it since the form was
\* opened.  What another writer stores between the two statements is lost, a secret as well.
SecretsSurvive ==
    [][Serves /\ formSaving.row # None =>
        \A f \in SecretFields(formSaving.type) \cap DOMAIN formSaving.row.config :
            \/ f \in DOMAIN stored'.config /\ stored'.config[f] = formSaving.row.config[f]
            \/ f \in DOMAIN formSaving.seen /\ formSaving.seen[f] \in Texts]_channelVars

\* What the form shows is what the channel has: a field that is not masked is stored as it
\* was shown, and so is a header; a blank number is stored as its default; a header that is
\* masked or blank keeps the value that the channel had, and one that was taken out of the
\* text is gone.  This form cannot say that a secret, or a header, is to be blank.
SavedAsShown ==
    [][Serves =>
        /\ \A f \in DOMAIN formSaving.seen :
              formSaving.seen[f] \in Texts => Has(stored'.config, f) /\ stored'.config[f] = formSaving.seen[f]
        /\ \A f \in DOMAIN formSaving.seen \ SecretFields(formSaving.type) :
              formSaving.seen[f] = Blank =>
                  IF Has(stored'.config, f) THEN stored'.config[f] = Layout(formSaving.type)[f].default
                  ELSE Layout(formSaving.type)[f].default = Blank
        /\ formSaving.text # None =>
              /\ DOMAIN stored'.headers = DOMAIN formSaving.text
              /\ \A h \in DOMAIN formSaving.text :
                    stored'.headers[h] =
                        IF formSaving.text[h] \in Texts THEN formSaving.text[h]
                        ELSE IF formSaving.row # None /\ formSaving.row.headers # None /\ h \in DOMAIN formSaving.row.headers
                        THEN formSaving.row.headers[h] ELSE Blank]_channelVars

\* What a channel has is what its form showed, and of the secrets it had when the save read
\* it nothing is lost or made up.
ChannelKept ==
    []MaskNotStored /\ SecretsSurvive /\ SavedAsShown
=============================================================================
