-------------------------- MODULE SubscriptionPages --------------------------
(***************************************************************************)
(* The pages on which subscriptions are looked at and edited, in one tab:  *)
(* the dashboard, the action centre and the calendar, with the form and    *)
(* the detail drawer they share and the detail cache behind them.          *)
(*                                                                         *)
(* A handler is a run: the call it sends, the answer, the new lists it     *)
(* fetches.  What a page knows of a subscription is the number of the      *)
(* write it saw; a page that is left forgets its state, but its runs go on.*)
(* A form or a drawer is modal: nothing else of the page is used under it. *)
(***************************************************************************)
EXTENDS DetailCache, FiniteSets

CONSTANTS
    MaxRuns,       \* handlers in flight at a time
    MaxHandlers,   \* bound on the handlers started, the loads of pages among them
    MaxLoads       \* bound on the requests for details in flight

ASSUME PagesAssumption == Subs # {} /\ Created \subseteq Subs /\ MaxRuns \in Nat

Nobody == [on |-> FALSE]   \* no form, no drawer
Idle == <<>>               \* busyKey is null

VARIABLES
    page,     \* the page shown
    loaded,   \* its loading flag has fallen
    list,     \* its subscriptions: list[s] is Nothing for one it does not show
    hidden,   \* hidden[s]: the write at which the item of s was snoozed
    centre,   \* the items of the action centre
    busy,     \* busyKey: a subscription and the item or, with Nothing, the whole group
    form,     \* the form, opened for a subscription as of a write, or for a new one
    drawer,   \* the detail drawer, the requests it listens to and the detail it shows
    runs,     \* handlers in flight: "load", one of FormKinds, "delete", "command" or "snooze"
    started,  \* number of handlers started
    born,     \* subscriptions that have existed
    \* history
    known,    \* known[s]: the last write of s that was acknowledged outside the calendar
    missed,   \* the page may not know of a write: a fetch failed or crossed another handler
    blind     \* a write found another state than its user had been shown, for no such reason

pageVars == <<page, loaded, list, hidden, centre, busy, form, drawer, runs, started, born, known,
              missed, blind>>
vars == <<serverVars, cacheVars, pageVars>>

Ids == 1..MaxRuns
Pages == {"dashboard", "actions", "calendar"}
FormKinds == {"save", "renew", "create"}   \* handlers of the form

\* What the page shows is what the server has, as far as the page can tell.
Settled == loaded /\ runs = {} /\ ~missed

\* The visible items of the action centre.
Centre == [s \in Subs |-> IF data[s] = hidden[s] THEN Nothing ELSE data[s]]

\* What a page shows of subscription s and offers its handlers for, once it is loaded.
DashboardShows(s) == page = "dashboard" /\ loaded /\ list[s] # Nothing
ActionsShow(s)    == page = "actions" /\ loaded /\ centre[s] # Nothing
CalendarShows(s)  == page = "calendar" /\ loaded /\ list[s] # Nothing

-----------------------------------------------------------------------------
\* Handlers.

NewRun(kind, s, saw, at, p, ok) ==
    LET id == CHOOSE i \in Ids : \A r \in runs : r.id # i
    IN  [id |-> id, kind |-> kind, page |-> p, sub |-> s, saw |-> saw, at |-> at, list |-> Idle,
         centre |-> Idle, here |-> TRUE, alone |-> runs = {}, ok |-> ok]

\* A handler starts, with its first request; those in flight are not alone any more.
Start(kind, s, saw, at, ok) ==
    /\ Cardinality(runs) < MaxRuns
    /\ started < MaxHandlers
    /\ started' = started + 1
    /\ runs' = {[r EXCEPT !.alone = FALSE] : r \in runs} \cup {NewRun(kind, s, saw, at, page, ok)}

Replace(r, q) == runs' = (runs \ {r}) \cup {q}

\* The server carries out the write of a handler, or refuses it; its answer may be lost.
ServeWrite(r) ==
    /\ r.at = "sent"
    /\ \/ /\ data[r.sub] # Nothing \/ r.kind = "create"
          /\ CASE r.kind = "snooze" -> hidden' = [hidden EXCEPT ![r.sub] = data[r.sub]]
                                       /\ UNCHANGED serverVars
               [] r.kind = "delete" -> Remove(r.sub) /\ UNCHANGED hidden
               [] OTHER             -> Commit(r.sub) /\ UNCHANGED hidden
          /\ blind' = (blind \/ (r.ok /\ r.alone /\ r.saw # data[r.sub]))
          /\ \E how \in {"done", "lost"} : Replace(r, [r EXCEPT !.at = how, !.saw = data'[r.sub]])
       \/ /\ Replace(r, [r EXCEPT !.at = "refused"])
          /\ UNCHANGED <<serverVars, hidden, blind>>
    /\ UNCHANGED <<cacheVars, page, loaded, list, centre, busy, form, drawer, born, missed,
                   started, known>>

\* Which handlers invalidate the detail of their subscription, and which fetch
\* the lists anew: the calendar does neither after a save.
Invalidates(r) ==
    \/ r.page = "dashboard" /\ r.kind \in {"save", "renew", "delete"}
    \/ r.page = "actions" /\ r.kind \in {"save", "renew", "command"}

Bug_Refetches(r) == r.kind \in {"load", "renew", "create"}

Refetches(r) == ~(r.page = "calendar" /\ r.kind = "save")

\* The answer of a write that was done.  A handler of the form closes whatever
\* form is open; the calendar puts a saved subscription into its list.
WriteDone(r) ==
    /\ r.at = "done"
    /\ IF Invalidates(r) THEN Invalidate(r.sub) ELSE UNCHANGED cacheVars
    /\ known' = IF r.page # "calendar" /\ r.kind # "snooze"
                THEN [known EXCEPT ![r.sub] = r.saw] ELSE known
    /\ form' = IF r.here /\ r.kind \in FormKinds THEN Nobody ELSE form
    /\ IF r.here /\ Refetches(r)
       THEN /\ Replace(r, [r EXCEPT !.at = "fetching"])
            /\ UNCHANGED <<list, missed>>
       ELSE /\ runs' = runs \ {r}
            /\ list' = IF r.here /\ list[r.sub] # Nothing
                       THEN [list EXCEPT ![r.sub] = r.saw] ELSE list
            /\ missed' = (missed \/ ~r.alone)
    /\ UNCHANGED <<serverVars, page, loaded, hidden, centre, busy, drawer, born, blind,
                   started>>

\* The end of a handler: the flag of a command falls, whichever command set it.
Release(r) == busy' = IF r.here /\ r.kind \in {"command", "snooze"} THEN Idle ELSE busy

\* A write that failed, as far as the page knows; its form may be sent again.
WriteFailed(r) ==
    /\ r.at \in {"refused", "lost"}
    /\ runs' = runs \ {r}
    /\ Release(r)
    /\ form' = IF form.on /\ form.run = r.id THEN [form EXCEPT !.run = 0] ELSE form
    /\ missed' = (missed \/ r.at = "lost")
    /\ UNCHANGED <<serverVars, cacheVars, page, loaded, list, hidden, centre, drawer, born,
                   blind, started, known>>

\* fetchData: the action centre asks for its items and for the subscriptions apart.
FetchServed(r) ==
    /\ r.at = "fetching"
    /\ \/ /\ r.list = Idle
          /\ Replace(r, [r EXCEPT !.list = data])
       \/ /\ r.centre = Idle
          /\ r.page = "actions"
          /\ Replace(r, [r EXCEPT !.centre = Centre])
    /\ UNCHANGED <<serverVars, cacheVars, page, loaded, list, hidden, centre, busy, form,
                   drawer, born, missed, blind, started, known>>

\* The lists arrive; a handler of the form closes what form is open once more.
FetchArrives(r) ==
    /\ r.at = "fetching"
    /\ r.list # Idle
    /\ r.page = "actions" => r.centre # Idle
    /\ runs' = runs \ {r}
    /\ Release(r)
    /\ list' = IF r.here THEN r.list ELSE list
    /\ centre' = IF r.here /\ r.page = "actions" THEN r.centre ELSE centre
    /\ form' = IF r.here /\ r.kind \in FormKinds THEN Nobody ELSE form
    /\ loaded' = (loaded \/ r.here)
    /\ missed' = IF r.here THEN ~r.alone ELSE missed
    /\ UNCHANGED <<serverVars, cacheVars, page, hidden, drawer, born, blind, started, known>>

\* The lists do not arrive.  The dashboard swallows the error, so that its form
\* closes; elsewhere the error shows in the form, if it is still there.
FetchFails(r) ==
    /\ r.at = "fetching"
    /\ runs' = runs \ {r}
    /\ Release(r)
    /\ form' = IF r.here /\ r.page = "dashboard" /\ r.kind \in FormKinds THEN Nobody ELSE form
    /\ loaded' = (loaded \/ r.here)
    /\ missed' = TRUE
    /\ UNCHANGED <<serverVars, cacheVars, page, list, hidden, centre, drawer, born, blind,
                   started, known>>

-----------------------------------------------------------------------------
\* The detail drawer.

\* Its effect: what is in the cache, and then what the request answers that it
\* makes or joins; the request of a drawer that was closed is not listened to.
Listen(s) == drawer.heard \cup IF cache[s] = Nothing THEN {<<s, version[s]>>} ELSE {}

Drawer(s) ==
    [on |-> TRUE, sub |-> s, base |-> list[s], heard |-> Listen(s), of |-> s, got |-> cache[s],
     since |-> known[s], ok |-> Settled /\ floor[s] = data[s]]

Bug_ClosedDrawer == [on |-> FALSE, heard |-> drawer.heard]

ClosedDrawer == [on |-> FALSE, heard |-> {}]

Modal == form.on \/ drawer.on

\* handleOpenDetail, openDetail, openSubscriptionDetail: preload, then open.
\* The action centre's does not look at busyKey.
OpenDetail(s) ==
    /\ ~Modal
    /\ DashboardShows(s) \/ CalendarShows(s) \/ (ActionsShow(s) /\ list[s] # Nothing)
    /\ NeedsRequest(s) => Cardinality(loads) < MaxLoads
    /\ LoadOrJoin(s)
    /\ drawer' = Drawer(s)
    /\ UNCHANGED <<serverVars, page, loaded, list, hidden, centre, busy, form, runs, born,
                   missed, blind, started, known>>

\* The pointer enters a card of the dashboard.
Preload(s) ==
    /\ ~Modal
    /\ DashboardShows(s)
    /\ Cardinality(loads) < MaxLoads
    /\ SendLoad(s)
    /\ UNCHANGED <<serverVars, pageVars>>

DetailArrives(l) ==
    /\ LoadArrives(l)
    /\ drawer' = IF drawer.on /\ <<l.sub, l.sentIn>> \in drawer.heard
                 THEN [drawer EXCEPT !.of = l.sub, !.got = l.got] ELSE drawer
    /\ UNCHANGED <<serverVars, page, loaded, list, hidden, centre, busy, form, runs, born,
                   missed, blind, started, known>>

CloseDrawer ==
    /\ drawer.on
    /\ drawer' = ClosedDrawer
    /\ UNCHANGED <<serverVars, cacheVars, page, loaded, list, hidden, centre, busy, form, runs,
                   born, missed, blind, started, known>>

-----------------------------------------------------------------------------
\* The form.

Form(s, base, ok) == [on |-> TRUE, sub |-> s, base |-> base, run |-> 0, ok |-> ok]

\* busyKey is the key of an item of the group, which names the date, or of the group.
Enabled(s) == ~(busy # Idle /\ busy[1] = s /\ busy[2] \in {Nothing, centre[s]})

\* handleEdit of the dashboard, openEdit of the action centre.
Edit(s) ==
    /\ ~Modal
    /\ DashboardShows(s) \/ (ActionsShow(s) /\ list[s] # Nothing /\ Enabled(s))
    /\ form' = Form(s, list[s], Settled)
    /\ UNCHANGED <<serverVars, cacheVars, page, loaded, list, hidden, centre, busy, drawer,
                   runs, born, missed, blind, started, known>>

\* The drawer shows and hands over its detail or, before that, what it was opened with.
ActiveSubscription == IF drawer.got # Nothing THEN drawer.got ELSE drawer.base

EditFromDrawer ==
    /\ drawer.on
    /\ form' = Form(drawer.sub, ActiveSubscription, drawer.ok /\ Settled)
    /\ drawer' = ClosedDrawer
    /\ UNCHANGED <<serverVars, cacheVars, page, loaded, list, hidden, centre, busy, runs, born,
                   missed, blind, started, known>>

OpenNewForm ==
    /\ ~Modal
    /\ page = "dashboard"
    /\ loaded
    /\ form' = Form(Nothing, Nothing, Settled)
    /\ UNCHANGED <<serverVars, cacheVars, page, loaded, list, hidden, centre, busy, drawer,
                   runs, born, missed, blind, started, known>>

\* handleSubmit and handleMarkRenewed of the form: the buttons are disabled while it is sent.
SubmitForm ==
    /\ form.on
    /\ form.run = 0
    /\ \/ /\ form.sub # Nothing
          /\ \E kind \in {"save", "renew"} :
                Start(kind, form.sub, form.base, "sent", form.ok /\ Settled)
          /\ UNCHANGED born
       \/ /\ form.sub = Nothing
          /\ \E s \in Subs \ born :
                /\ Start("create", s, Nothing, "sent", FALSE)
                /\ born' = born \cup {s}
    /\ form' = [form EXCEPT !.run = CHOOSE i \in Ids : \A r \in runs : r.id # i]
    /\ UNCHANGED <<serverVars, cacheVars, page, loaded, list, hidden, centre, busy, drawer,
                   missed, blind, known>>

\* Cancel, which is not disabled.
CloseForm ==
    /\ form.on
    /\ form' = Nobody
    /\ UNCHANGED <<serverVars, cacheVars, page, loaded, list, hidden, centre, busy, drawer,
                   runs, born, missed, blind, started, known>>

-----------------------------------------------------------------------------
\* The rest of the pages.

\* handleDelete, once confirmed.
Delete(s) ==
    /\ ~Modal
    /\ DashboardShows(s)
    /\ Start("delete", s, list[s], "sent", Settled)
    /\ UNCHANGED <<serverVars, cacheVars, page, loaded, list, hidden, centre, busy, form,
                   drawer, born, missed, blind, known>>

\* The commands of a group of the action centre: mark renewed, cancel at the end
\* of the period, keep; and snooze, which sends the keys of all its items.
Command(s) ==
    /\ ~Modal
    /\ ActionsShow(s)
    /\ Enabled(s)
    /\ \/ /\ list[s] # Nothing
          /\ \E saw \in {list[s], centre[s]} : Start("command", s, saw, "sent", Settled)
          /\ busy' = <<s, centre[s]>>
       \/ /\ Start("snooze", s, centre[s], "sent", Settled)
          /\ busy' = <<s, Nothing>>
    /\ UNCHANGED <<serverVars, cacheVars, page, loaded, list, hidden, centre, form, drawer,
                   born, missed, blind, known>>

\* handleRefresh: disabled while it runs and before the first load has ended.
Refresh ==
    /\ ~Modal
    /\ page = "actions"
    /\ loaded
    /\ \A r \in runs : r.here => r.kind # "load"
    /\ Start("load", CHOOSE s \in Subs : TRUE, Nothing, "fetching", FALSE)
    /\ UNCHANGED <<serverVars, cacheVars, page, loaded, list, hidden, centre, busy, form,
                   drawer, born, missed, blind, known>>

\* Another page is opened: it has no state yet and loads.
Go(p) ==
    /\ p # page
    /\ Cardinality(runs) < MaxRuns
    /\ started < MaxHandlers
    /\ started' = started + 1
    /\ page' = p
    /\ runs' = {[r EXCEPT !.alone = FALSE, !.here = FALSE] : r \in runs}
               \cup {NewRun("load", CHOOSE s \in Subs : TRUE, Nothing, "fetching", p, FALSE)}
    /\ loaded' = FALSE
    /\ list' = [s \in Subs |-> Nothing]
    /\ centre' = [s \in Subs |-> Nothing]
    /\ busy' = Idle
    /\ form' = Nobody
    /\ drawer' = ClosedDrawer
    /\ missed' = TRUE
    /\ UNCHANGED <<serverVars, cacheVars, hidden, born, blind, known>>

-----------------------------------------------------------------------------
Init ==
    /\ CacheInit
    /\ page \in Pages
    /\ loaded = FALSE
    /\ list = [s \in Subs |-> Nothing]
    /\ hidden = [s \in Subs |-> Nothing]
    /\ centre = [s \in Subs |-> Nothing]
    /\ busy = Idle
    /\ form = Nobody
    /\ drawer = [on |-> FALSE, heard |-> {}]
    /\ runs = {[id |-> 1, kind |-> "load", page |-> page, sub |-> CHOOSE s \in Subs : TRUE,
                saw |-> Nothing, at |-> "fetching", list |-> Idle, centre |-> Idle, here |-> TRUE,
                alone |-> TRUE, ok |-> FALSE]}
    /\ started = 1
    /\ born = Created
    /\ known = [s \in Subs |-> 0]
    /\ missed = TRUE
    /\ blind = FALSE

Answers(r) ==
    \/ ServeWrite(r) \/ WriteDone(r) \/ WriteFailed(r)
    \/ FetchServed(r) \/ FetchArrives(r) \/ FetchFails(r)

CacheStep ==
    \/ \E l \in loads : (ServeLoad(l) \/ LoadFails(l)) /\ UNCHANGED <<serverVars, pageVars>>
    \/ \E l \in loads : DetailArrives(l)
    \/ \E s \in Subs : Lapse(s) /\ UNCHANGED <<serverVars, pageVars>>

User ==
    \/ \E s \in Subs : OpenDetail(s) \/ Preload(s) \/ Edit(s) \/ Delete(s) \/ Command(s)
    \/ CloseDrawer \/ EditFromDrawer \/ OpenNewForm \/ SubmitForm \/ CloseForm \/ Refresh
    \/ \E p \in Pages : Go(p)

\* The bound on handlers is reached: what follows is not looked at.
Spent == started = MaxHandlers /\ runs = {} /\ UNCHANGED vars

Next ==
    \/ \E r \in runs : Answers(r)
    \/ CacheStep
    \/ User
    \/ Spent

Spec == Init /\ [][Next]_vars

-----------------------------------------------------------------------------
\* A write acts on what its user was shown: when nothing of the page was under
\* way as it was chosen, and the last lists had arrived, the server still has
\* the subscription of the list, the action or the drawer it was chosen from.
ActsOnWhatIsShown == ~blind

\* Whatever handlers ran, one after the other, the page ends with the
\* server's subscriptions and items.
ListCatchesUp ==
    Settled => list = data /\ (page = "actions" => centre = Centre)

\* The drawer shows a detail of its own subscription, and one as new as the
\* last write that had been made of it on this page or another when it was opened.
DrawerShowsItsOwn ==
    drawer.on /\ drawer.got # Nothing => drawer.of = drawer.sub /\ drawer.got >= drawer.since

\* The page is at its skeleton, or a group of the action centre is disabled.
Unsettled == ~loaded \/ busy # Idle

\* What a page shows in the end is the server's, in its list and in its drawer.
PagesCatchUp ==
    ListCatchesUp /\ DrawerShowsItsOwn
=============================================================================
