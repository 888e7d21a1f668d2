------------------------------ MODULE AdminPage ------------------------------
(***************************************************************************)
(* The tabs of the admin page other than the backups                       *)
(* (use-admin-page-state.ts): the table of users, the settings, which are  *)
(* one form saved as a whole and then fetched anew, and the panels that    *)
(* are refreshed.  None of the buttons of users and settings waits for the *)
(* request before.                                                         *)
(***************************************************************************)
EXTENDS Screens, Naturals

CONSTANTS
    MaxAdminSends,   \* bound on the requests of the page
    MaxEvents        \* bound on the changes made elsewhere

People == {1, 2, 3}      \* the first user, whom the server protects, one more, and one to create
Panels == {"tasks", "rates"}
Mask == "mask"           \* what the field of a secret that is set shows
Default == 1             \* the value of a setting before the first load

\* A user that is there is a row, and a field that is empty shows no mask.
ASSUME RowsAssumption ==
    /\ None \notin [role : {"admin", "user"}, status : {"active", "disabled"}]
    /\ None # Mask

VARIABLES
    people,         \* users: None, or a role and a status
    settings,       \* system settings: one plain, one secret
    version,        \* of what a panel shows
    adminReqs,      \* requests in flight
    loaded,         \* loading is over
    activeTab,      \* "users", "settings" or "panels"
    table,          \* users, as the page has them
    form,           \* settingsForm: the plain setting, the typed secret, whether one is set
    editing,        \* the field of the secret has the focus
    panel,          \* the version that a panel shows
    refreshing,     \* panels whose button is disabled
    \* history
    adminSends, events,
    created,        \* the third user was created
    typedSecrets,
    touched,        \* the form was changed since the server's answer replaced it
    formCrossed,    \* saves overlapped, another admin saved, or a request failed
    tableLost,      \* an answer about users was lost, or opposite wishes about one overlapped
    wentBack        \* a panel showed an older version than before

adminVars == <<people, settings, version, adminReqs, loaded, activeTab, table, form, editing, panel, refreshing, adminSends,
               events, created, typedSecrets, touched, formCrossed, tableLost, wentBack>>

usersPart == <<people, table, created, tableLost>>
formPart == <<settings, form, editing, typedSecrets, touched, formCrossed>>
panelPart == <<version, panel, refreshing, wentBack>>

Request(op, on, val) ==
    /\ adminSends < MaxAdminSends
    /\ adminSends' = adminSends + 1
    /\ adminReqs' = adminReqs \cup {[n |-> adminSends + 1, op |-> op, on |-> on, val |-> val, at |-> "sent",
                                     answer |-> None]}

Saving == \E q \in adminReqs : q.op \in {"save", "fresh"}

-----------------------------------------------------------------------------
\* Users: the row as it is shown decides what is asked for.
Wish(op, u) ==
    CASE op = "role" -> IF table[u].role = "admin" THEN "user" ELSE "admin"
      [] op = "status" -> IF table[u].status = "active" THEN "disabled" ELSE "active"
      [] OTHER -> None

AskUser(op, u) ==
    /\ loaded /\ activeTab = "users" /\ table[u] # None
    /\ Request(op, u, Wish(op, u))
    /\ tableLost' = (tableLost \/ \E q \in adminReqs : q.op = op /\ q.on = u /\ q.val # Wish(op, u))
    /\ UNCHANGED <<events, loaded, activeTab, people, table, created, formPart, panelPart>>

CreateUser ==
    /\ loaded /\ activeTab = "users"
    /\ Request("create", 3, None)
    /\ UNCHANGED <<events, loaded, activeTab, usersPart, formPart, panelPart>>

\* The settings: the secret is typed in a field that shows a mask when it is left.
EditSite(v) ==
    /\ loaded /\ activeTab = "settings" /\ form.site # v
    /\ form' = [form EXCEPT !.site = v]
    /\ touched' = TRUE
    /\ UNCHANGED <<settings, editing, typedSecrets, formCrossed, adminReqs, adminSends, events, loaded, activeTab, usersPart,
                   panelPart>>

FocusSecret(b) ==
    /\ loaded /\ activeTab = "settings" /\ editing # b
    /\ editing' = b
    /\ UNCHANGED <<settings, form, typedSecrets, touched, formCrossed, adminReqs, adminSends, events, loaded, activeTab,
                   usersPart, panelPart>>

SecretShown ==
    IF editing THEN form.secret
    ELSE IF form.secret = None /\ form.set THEN Mask ELSE form.secret

\* A key typed behind what the field shows: what it shows with the key is the value.
TypeSecret ==
    /\ editing /\ form.secret = None
    /\ form' = [form EXCEPT !.secret = IF SecretShown = Mask THEN Mask ELSE "typed"]
    /\ typedSecrets' = typedSecrets \cup {"typed"}
    /\ touched' = TRUE
    /\ UNCHANGED <<settings, editing, formCrossed, adminReqs, adminSends, events, loaded, activeTab, usersPart, panelPart>>

SaveSettings ==
    /\ loaded /\ activeTab = "settings"
    /\ Request("save", None, form)
    /\ formCrossed' = (formCrossed \/ Saving)
    /\ touched' = FALSE
    /\ UNCHANGED <<settings, form, editing, typedSecrets, events, loaded, activeTab, usersPart, panelPart>>

Refresh(p) ==
    /\ loaded /\ activeTab = "panels" /\ p \notin refreshing
    /\ refreshing' = refreshing \cup {p}
    /\ Request("refresh", p, None)
    /\ UNCHANGED <<version, panel, wentBack, events, loaded, activeTab, usersPart, formPart>>

-----------------------------------------------------------------------------
\* The server.
Answer(q, at, answer) == adminReqs' = (adminReqs \ {q}) \cup {[q EXCEPT !.at = at, !.answer = answer]}

Protected(q) ==
    q.on = 1 /\ (q.op = "delete" \/ (q.op = "role" /\ q.val = "user") \/ (q.op = "status" /\ q.val = "disabled"))

After(q, row) ==
    IF row = None \/ q.op = "delete" THEN None
    ELSE IF q.op = "role" THEN [row EXCEPT !.role = q.val] ELSE [row EXCEPT !.status = q.val]

NewUser == [role |-> "user", status |-> "active"]

ServeUsers(q) ==
    /\ q.at = "sent" /\ q.op \in {"role", "status", "delete", "create"}
    /\ IF q.op = "create"
       THEN /\ Answer(q, IF created THEN "refused" ELSE "done", None)
            /\ people' = IF created THEN people ELSE [people EXCEPT ![3] = NewUser]
            /\ created' = TRUE
       ELSE /\ Answer(q, IF Protected(q) THEN "refused" ELSE "done", None)
            /\ people' = IF Protected(q) THEN people ELSE [people EXCEPT ![q.on] = After(q, @)]
            /\ UNCHANGED created
    /\ UNCHANGED <<table, tableLost, adminSends, events, loaded, activeTab, formPart, panelPart>>

\* A secret is sent, and stored, only when something was typed.
ServeSettings(q) ==
    /\ q.at = "sent" /\ q.op \in {"save", "fresh"}
    /\ IF q.op = "save"
       THEN /\ settings' = [site |-> q.val.site,
                            secret |-> IF q.val.secret = None THEN settings.secret ELSE q.val.secret]
            /\ Answer(q, "done", None)
       ELSE Answer(q, "done", settings) /\ UNCHANGED settings
    /\ UNCHANGED <<form, editing, typedSecrets, touched, formCrossed, adminSends, events, loaded, activeTab, usersPart,
                   panelPart>>

\* Promise.all: the load is there when all of its parts are.
ServeLoad(q) ==
    /\ q.at = "sent" /\ q.op = "load"
    /\ Answer(q, "done", [people |-> people, settings |-> settings, version |-> version])
    /\ UNCHANGED <<adminSends, events, loaded, activeTab, usersPart, formPart, panelPart>>

ServeRefresh(q) ==
    /\ q.at = "sent" /\ q.op = "refresh"
    /\ Answer(q, "done", version[q.on])
    /\ UNCHANGED <<adminSends, events, loaded, activeTab, usersPart, formPart, panelPart>>

\* Elsewhere: a task runs, or another admin saves the settings.
ChangeElsewhere ==
    /\ events < MaxEvents /\ events' = events + 1
    /\ \/ /\ \E p \in Panels : version' = [version EXCEPT ![p] = @ + 1]
          /\ UNCHANGED <<settings, formCrossed>>
       \/ /\ activeTab \in {None, "settings"}
          /\ settings' = [settings EXCEPT !.site = 3]
          /\ formCrossed' = TRUE /\ UNCHANGED version
    /\ UNCHANGED <<form, editing, typedSecrets, touched, panel, refreshing, wentBack, adminReqs, adminSends, loaded, activeTab,
                   usersPart>>

-----------------------------------------------------------------------------
\* The answers.  What is typed while a save is under way goes with its answer.
FormOf(s) == [site |-> s.site, secret |-> None, set |-> s.secret # None]

LoadArrives(q) ==
    /\ q.op = "load" /\ q.at = "done"
    /\ adminReqs' = adminReqs \ {q}
    /\ loaded' = TRUE
    /\ table' = q.answer.people /\ form' = FormOf(q.answer.settings) /\ panel' = q.answer.version
    /\ UNCHANGED <<people, settings, version, editing, refreshing, adminSends, events, created, typedSecrets, touched,
                   formCrossed, tableLost, wentBack, activeTab>>

Bug_RowAfter(q, row) ==
    IF row # None /\ q.op = "role" THEN [row EXCEPT !.role = IF row.role = "admin" THEN "user" ELSE "admin"]
    ELSE After(q, row)

RowAfter(q, row) == After(q, row)

UserAnswered(q) ==
    /\ q.op \in {"role", "status", "delete", "create"} /\ q.at = "done"
    /\ adminReqs' = adminReqs \ {q}
    /\ table' = [table EXCEPT ![q.on] = IF q.op = "create" THEN NewUser ELSE RowAfter(q, @)]
    /\ UNCHANGED <<people, created, tableLost, adminSends, events, loaded, activeTab, formPart, panelPart>>

Saved(q) ==
    /\ q.op \in {"save", "fresh"} /\ q.at = "done"
    /\ adminReqs' = (adminReqs \ {q}) \cup
          (IF q.op = "save" THEN {[q EXCEPT !.op = "fresh", !.val = None, !.at = "sent"]} ELSE {})
    /\ form' = IF q.op = "fresh" THEN FormOf(q.answer) ELSE form
    /\ touched' = (touched /\ q.op # "fresh")
    /\ UNCHANGED <<settings, editing, typedSecrets, formCrossed, adminSends, events, loaded, activeTab, usersPart, panelPart>>

Refreshed(q) ==
    /\ q.op = "refresh" /\ q.at = "done"
    /\ adminReqs' = adminReqs \ {q}
    /\ panel' = [panel EXCEPT ![q.on] = q.answer]
    /\ wentBack' = (wentBack \/ q.answer < panel[q.on])
    /\ refreshing' = refreshing \ {q.on}
    /\ UNCHANGED <<version, adminSends, events, loaded, activeTab, usersPart, formPart>>

\* A failure changes the flags only: a load that failed leaves a form of defaults,
\* which can be saved.
RequestLost(q) ==
    /\ adminReqs' = adminReqs \ {q}
    /\ loaded' = (loaded \/ q.op = "load")
    /\ refreshing' = IF q.op = "refresh" THEN refreshing \ {q.on} ELSE refreshing
    /\ tableLost' = (tableLost \/ q.op = "load" \/ (q.at = "done" /\ q.op \in {"role", "status", "delete", "create"}))
    /\ formCrossed' = (formCrossed \/ q.op \in {"load", "save", "fresh"})
    /\ UNCHANGED <<people, table, created, settings, form, editing, typedSecrets, touched, version, panel, wentBack,
                   adminSends, events, activeTab>>

OpenTab(tab) ==
    /\ loaded /\ activeTab = None
    /\ activeTab' = tab
    /\ UNCHANGED <<adminReqs, adminSends, events, loaded, usersPart, formPart, panelPart>>

AdminInit ==
    /\ people = [u \in People |-> CASE u = 1 -> [role |-> "admin", status |-> "active"]
                                    [] u = 2 -> NewUser
                                    [] OTHER -> None]
    /\ settings = [site |-> 2, secret |-> "initial"] /\ version = [p \in Panels |-> 0]
    /\ adminReqs = {[n |-> 1, op |-> "load", on |-> None, val |-> None, at |-> "sent", answer |-> None]}
    /\ loaded = FALSE /\ activeTab = None /\ table = [u \in People |-> None]
    /\ form = [site |-> Default, secret |-> None, set |-> FALSE] /\ editing = FALSE
    /\ panel = [p \in Panels |-> 0] /\ refreshing = {}
    /\ adminSends = 1 /\ events = 0 /\ created = FALSE /\ typedSecrets = {}
    /\ touched = FALSE /\ formCrossed = FALSE /\ tableLost = FALSE /\ wentBack = FALSE

AdminNext ==
    \/ \E tab \in {"users", "settings", "panels"} : OpenTab(tab)
    \/ \E op \in {"role", "status", "delete"}, u \in People : AskUser(op, u)
    \/ CreateUser \/ TypeSecret \/ SaveSettings \/ ChangeElsewhere
    \/ \E v \in {1, 2} : EditSite(v)
    \/ \E b \in BOOLEAN : FocusSecret(b)
    \/ \E p \in Panels : Refresh(p)
    \/ \E q \in adminReqs :
          \/ ServeUsers(q) \/ ServeSettings(q) \/ ServeLoad(q) \/ ServeRefresh(q)
          \/ LoadArrives(q) \/ UserAnswered(q) \/ Saved(q) \/ Refreshed(q) \/ RequestLost(q)

-----------------------------------------------------------------------------
\* The table of users is the server's when all is answered, although requests
\* overlap; opposite wishes about one user that do are left out.
TableAgrees == adminReqs = {} /\ ~tableLost => table = people

\* The mask of a secret is never stored in its place.
SecretIsTyped == settings.secret \in {"initial"} \cup typedSecrets

\* A form that was not touched since its save shows what the server has, unless
\* saves overlapped or failed or another admin saved.
FormAgrees == loaded /\ ~touched /\ ~formCrossed /\ ~Saving => form = FormOf(settings)

\* A panel never goes back to what it showed before.
PanelsAdvance == ~wentBack

\* The page of the administrator and the server agree.
AdminPageAgrees ==
    TableAgrees /\ SecretIsTyped /\ FormAgrees /\ PanelsAdvance
=============================================================================
