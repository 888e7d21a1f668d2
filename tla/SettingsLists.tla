---------------------------- MODULE SettingsLists ----------------------------
(***************************************************************************)
(* The lists that a user manages on the settings and calendar pages:       *)
(* currencies, payment methods, categories, API keys, calendar tokens,     *)
(* notification channels and templates, passkeys and OIDC connections.     *)
(* Each page keeps a copy of its list and changes it with what the server  *)
(* answers.  Requests of one page overlap, and nothing orders their        *)
(* handling or their answers.                                              *)
(***************************************************************************)
EXTENDS Screens, Naturals, Sequences, FiniteSets

CONSTANTS
    MaxSends,     \* bound on the changes a user makes
    MaxOpenings   \* bound on the times a dialog for a new key is opened

Ordered == {"currencies", "methods", "categories"}
Secret == {"keys", "tokens"}              \* the answer holds a key that is shown once
WithForm == {"channels", "templates"}     \* added and changed in one dialog
Kinds == Ordered \cup Secret \cup WithForm \cup {"passkeys", "connections"}

\* Nothing is no list, no row and no key.
ASSUME ListsAssumption == None \notin Kinds /\ None \notin Nat

VARIABLES
    kind,        \* which of the lists
    rows,        \* the rows at the server, in the order in which they were made
    sortOf,      \* the sort order the server keeps of each
    list,        \* the list as the page shows it
    reqs,        \* requests under way
    waits,       \* the flags that disable a control, each with the row it is for
    orderChanged,
    formFor,     \* the dialog or row that is open for editing: 0 for a new one, an id, or None
    newKey,      \* the secret shown by the create dialog
    \* history
    sends, openings,
    keySeen,     \* the openings of the dialog in which each key was seen
    overtaken,   \* the page itself lets requests overtake each other here, or has not got its list
    unsure,     \* the rows of which a change was made and its answer lost
    misplaced    \* the rows that were added last on the page and not at the server

listVars == <<kind, rows, sortOf, list, reqs, waits, orderChanged, formFor, newKey, sends, openings,
              keySeen, overtaken, unsure, misplaced>>

server == <<rows, sortOf, misplaced>>

Ids(l) == {l[i].id : i \in DOMAIN l}
RowSet(l) == {l[i] : i \in DOMAIN l}
\* The rows of l at some places, in their order.
RowsAt(l, places) ==
    [k \in 1..Cardinality(places) |-> l[CHOOSE i \in places : Cardinality({j \in places : j <= i}) = k]]
Without(l, id) == RowsAt(l, {i \in DOMAIN l : l[i].id # id})
Replaced(l, x) == [i \in DOMAIN l |-> IF l[i].id = x.id THEN x ELSE l[i]]
Row(l, id) == CHOOSE x \in RowSet(l) : x.id = id

\* The server lists the rows by sort order and then by id.
Precedes(a, b) == sortOf[a] < sortOf[b] \/ (sortOf[a] = sortOf[b] /\ a < b)
Listings == {s \in [DOMAIN rows -> RowSet(rows)] :
               /\ RowSet(s) = RowSet(rows)
               /\ \A i, j \in DOMAIN s : i < j => Precedes(s[i].id, s[j].id)}

-----------------------------------------------------------------------------
\* Two requests that the page does not keep apart and whose order matters.
Clash(op, id, q) == "load" \in {op, q.op} \/ "order" \in {op, q.op} \/ id = q.id

Send(op, id, val, before) ==
    /\ sends < MaxSends
    /\ unsure' = unsure
    /\ sends' = sends + 1
    /\ reqs' = reqs \cup {[n |-> sends + 1, op |-> op, id |-> id, val |-> val, at |-> "sent",
                           before |-> before, answer |-> None]}
    /\ overtaken' = (overtaken \/ \E q \in reqs : Clash(op, id, q))

\* The flags that are not about one row; a page has one deletingId or updatingId,
\* so that the next row, and every answer, makes it forget the last.
Flags == {w \in waits : w[2] = 0}

Wait(flag) == waits' = waits \cup {flag}
QuietForm == UNCHANGED <<formFor, newKey, openings, keySeen>>

\* The list is fetched when its page or tab is first shown.
OpenList(k) ==
    /\ kind = None
    /\ kind' = k
    /\ Send("load", 0, 0, list)
    /\ UNCHANGED <<server, list, waits, orderChanged>> /\ QuietForm

\* That of the keys is fetched whenever its tab is shown.
FetchList ==
    /\ kind = "keys"
    /\ Send("load", 0, 0, list)
    /\ UNCHANGED <<kind, server, list, waits, orderChanged>> /\ QuietForm

\* Adding: the button is disabled while one is being added.
AddRow ==
    /\ <<"add", 0>> \notin waits
    /\ kind \in Secret \cup WithForm => formFor = 0
    /\ kind \in Secret => newKey = None
    /\ kind \notin {None, "connections"}
    /\ Send("add", None, 1, list)
    /\ Wait(<<"add", 0>>)
    /\ UNCHANGED <<kind, server, list, orderChanged>> /\ QuietForm

\* Deleting: keys, passkeys and connections disable the button of the one row
\* that was asked for last; a channel is taken out of the list at once.
DeleteRow(id) ==
    /\ kind \in Secret \cup {"passkeys", "connections"} => <<"del", id>> \notin waits
    /\ Send("delete", id, 0, list)
    /\ waits' = IF kind \in {"keys", "passkeys", "connections"}
                THEN Flags \cup {<<"del", id>>} ELSE waits
    /\ list' = IF kind = "channels" THEN Without(list, id) ELSE list
    /\ UNCHANGED <<kind, server, orderChanged>> /\ QuietForm

\* handleToggleChannel: shown at once, the answer or the old row comes after it.
ToggleChannel(id) ==
    /\ kind = "channels" /\ <<"upd", id>> \notin waits
    /\ LET x == Row(list, id)
       IN  /\ Send("toggle", id, 3 - x.val, list)
           /\ list' = Replaced(list, [x EXCEPT !.val = 3 - x.val])
    /\ waits' = Flags \cup {<<"upd", id>>}
    /\ UNCHANGED <<kind, server, orderChanged>> /\ QuietForm

\* A row is changed in place (currencies, methods, categories) or in the dialog.
UpdateRow(id) ==
    /\ \/ kind \in {"currencies", "methods"}
       \/ kind = "categories" /\ formFor = id /\ <<"edit", 0>> \notin waits
       \/ kind \in WithForm /\ formFor = id /\ <<"add", 0>> \notin waits
    /\ Send("update", id, 3 - Row(list, id).val, list)
    /\ waits' = waits \cup (CASE kind = "categories" -> {<<"edit", 0>>}
                              [] kind \in WithForm -> {<<"add", 0>>}
                              [] OTHER -> {})
    /\ UNCHANGED <<kind, server, list, orderChanged>> /\ QuietForm

\* handleDrop: an order saved meanwhile clears the flag of this one too.
DropRow(i, j) ==
    /\ kind \in Ordered /\ i # j
    /\ LET rest == SubSeq(list, 1, i - 1) \o SubSeq(list, i + 1, Len(list))
       IN  list' = SubSeq(rest, 1, j - 1) \o <<list[i]>> \o SubSeq(rest, j, Len(rest))
    /\ orderChanged' = TRUE
    /\ sends < MaxSends /\ sends' = sends + 1
    /\ overtaken' = (overtaken \/ reqs # {})
    /\ UNCHANGED <<kind, server, reqs, waits, unsure>> /\ QuietForm

SaveOrder ==
    /\ kind \in Ordered /\ orderChanged /\ <<"order", 0>> \notin waits
    /\ Send("order", 0, 0, list)
    /\ Wait(<<"order", 0>>)
    /\ UNCHANGED <<kind, server, list, orderChanged>> /\ QuietForm

\* The dialog for a new key.
Seen(key, opening) == IF key = None THEN keySeen ELSE keySeen \cup {<<key, opening>>}

OpenCreate ==
    /\ kind \in Secret /\ formFor = None /\ openings < MaxOpenings
    /\ formFor' = 0
    /\ openings' = openings + 1
    /\ keySeen' = Seen(newKey, openings + 1)
    /\ UNCHANGED <<kind, server, list, reqs, waits, orderChanged, newKey, sends, overtaken, unsure>>

CloseCreate ==
    /\ kind \in Secret /\ formFor = 0
    /\ formFor' = None
    /\ newKey' = None
    /\ UNCHANGED <<kind, server, list, reqs, waits, orderChanged, sends, openings, keySeen, overtaken,
                   unsure>>

\* The dialog of a channel or template, the row of a category.
EditForm(id) ==
    /\ \/ kind \in WithForm /\ formFor = None
       \/ kind = "categories" /\ id # 0 /\ formFor # id
    /\ formFor' = id
    /\ UNCHANGED <<kind, server, list, reqs, waits, orderChanged, newKey, sends, openings, keySeen,
                   overtaken, unsure>>

CloseEdit ==
    /\ formFor # None /\ kind \notin Secret
    /\ kind = "categories" => <<"edit", 0>> \notin waits
    /\ formFor' = None
    /\ UNCHANGED <<kind, server, list, reqs, waits, orderChanged, newKey, sends, openings, keySeen,
                   overtaken, unsure>>

-----------------------------------------------------------------------------
\* The server.
RowSaved(r) == [id |-> r.id, val |-> r.val]

Added(r) == [id |-> 10 + r.n, val |-> 1]

\* A row is added with the length of the page's list as its sort order, which is not the
\* greatest when rows were deleted from among the others.
SortAdded(r) == [i \in DOMAIN sortOf \cup {Added(r).id} |->
                    IF i = Added(r).id THEN Len(r.before) ELSE sortOf[i]]
ComesLast(id) == \A x \in RowSet(rows) : x.id # id => Precedes(x.id, id)

\* A saved order gives each row that it names its place, and does not ask whether it is there.
Place(l, id) == CHOOSE i \in DOMAIN l : l[i].id = id /\ \A j \in DOMAIN l : l[j].id = id => j <= i
SortSaved(r) == [i \in DOMAIN sortOf |->
                    IF i \in Ids(r.before) THEN Place(r.before, i) - 1 ELSE sortOf[i]]

\* A row that is gone is neither changed nor deleted again.
Missing(r) == r.op \in {"delete", "update", "toggle"} /\ r.id \notin Ids(rows)

ServeRequest(r) ==
    /\ r.at = "sent" /\ ~Missing(r)
    /\ rows' = CASE r.op = "add" -> Append(rows, Added(r))
                 [] r.op = "delete" -> Without(rows, r.id)
                 [] r.op \in {"update", "toggle"} -> Replaced(rows, RowSaved(r))
                 [] OTHER -> rows
    /\ sortOf' = CASE r.op = "add" -> SortAdded(r) [] r.op = "order" -> SortSaved(r) [] OTHER -> sortOf
    /\ misplaced' = CASE r.op = "add" /\ ~ComesLast(Added(r).id)' -> misplaced \cup {Added(r).id}
                      [] r.op = "order" -> misplaced \ Ids(r.before)
                      [] OTHER -> misplaced
    /\ \E l \in IF r.op = "load" THEN Listings ELSE {None} :
           reqs' = (reqs \ {r}) \cup {[r EXCEPT !.at = "served", !.answer = l]}
    /\ UNCHANGED <<kind, list, waits, orderChanged, formFor, newKey, sends, openings, keySeen, overtaken,
                   unsure>>

RefuseRequest(r) ==
    /\ r.at = "sent"
    /\ reqs' = (reqs \ {r}) \cup {[r EXCEPT !.at = "refused"]}
    /\ UNCHANGED <<kind, server, list, waits, orderChanged, formFor, newKey, sends, openings, keySeen,
                   overtaken, unsure>>

\* The answer is lost on its way, for the page a request that failed.
Changes(r) == CASE r.op = "add" -> {Added(r).id} [] r.op \in {"load", "order"} -> {} [] OTHER -> {r.id}

LoseAnswer(r) ==
    /\ r.at = "served"
    /\ reqs' = (reqs \ {r}) \cup {[r EXCEPT !.at = "refused"]}
    /\ unsure' = unsure \cup Changes(r)
    /\ UNCHANGED <<kind, server, list, waits, orderChanged, formFor, newKey, sends, openings, keySeen,
                   overtaken>>

-----------------------------------------------------------------------------
\* The handlers go on with an answer.
Unwait(r) ==
    waits' = CASE r.op = "add" -> waits \ {<<"add", 0>>}
               [] r.op = "update" -> waits \ (IF kind = "categories" THEN {<<"edit", 0>>} ELSE {<<"add", 0>>})
               [] r.op = "order" -> waits \ {<<"order", 0>>}
               [] r.op \in {"delete", "toggle"} -> Flags
               [] OTHER -> waits

\* Templates are changed in the list as it was when the handler began.
From(r) == IF kind = "templates" THEN r.before ELSE list
Forgets(r) == kind = "templates" /\ r.before # list

AddAnswered(r) ==
    /\ r.op = "add" /\ r.at = "served"
    /\ list' = IF kind \in {"keys", "passkeys"} THEN <<Added(r)>> \o list ELSE Append(From(r), Added(r))
    /\ newKey' = IF kind \in Secret THEN r.n ELSE newKey
    /\ keySeen' = IF kind \in Secret /\ formFor = 0 THEN Seen(r.n, openings) ELSE keySeen
    /\ formFor' = IF kind \in WithForm THEN None ELSE formFor
    /\ overtaken' = (overtaken \/ Forgets(r))
    /\ reqs' = reqs \ {r} /\ Unwait(r)
    /\ UNCHANGED <<kind, server, orderChanged, sends, openings, unsure>>

\* A connection is deleted and the list fetched anew.
Bug_DeleteAnswered(r) ==
    /\ r.op = "delete" /\ r.at = "served"
    /\ list' = IF kind = "channels" THEN list ELSE Without(r.before, r.id)
    /\ overtaken' = overtaken
    /\ reqs' = reqs \ {r}
    /\ Unwait(r)
    /\ unsure' = unsure \ {r.id}
    /\ UNCHANGED <<kind, server, orderChanged, formFor, newKey, sends, openings, keySeen>>

DeleteAnswered(r) ==
    /\ r.op = "delete" /\ r.at = "served"
    /\ list' = IF kind \in {"channels", "connections"} THEN list ELSE Without(From(r), r.id)
    /\ overtaken' = (overtaken \/ Forgets(r) \/ (kind = "connections" /\ reqs # {r}))
    /\ IF kind = "connections"
       THEN reqs' = (reqs \ {r}) \cup {[r EXCEPT !.op = "load", !.at = "sent"]} /\ UNCHANGED waits
       ELSE reqs' = reqs \ {r} /\ Unwait(r)
    /\ unsure' = unsure \ {r.id}
    /\ UNCHANGED <<kind, server, orderChanged, formFor, newKey, sends, openings, keySeen>>

UpdateAnswered(r) ==
    /\ r.op \in {"update", "toggle"} /\ r.at = "served"
    /\ list' = Replaced(From(r), RowSaved(r))
    /\ formFor' = IF r.op = "update" /\ kind \in WithForm \cup {"categories"} THEN None ELSE formFor
    /\ overtaken' = (overtaken \/ Forgets(r))
    /\ reqs' = reqs \ {r} /\ Unwait(r)
    /\ unsure' = unsure \ {r.id}
    /\ UNCHANGED <<kind, server, orderChanged, newKey, sends, openings, keySeen>>

OrderAnswered(r) ==
    /\ r.op = "order" /\ r.at = "served"
    /\ orderChanged' = FALSE
    /\ reqs' = reqs \ {r} /\ Unwait(r)
    /\ UNCHANGED <<kind, server, list, formFor, newKey, sends, openings, keySeen, overtaken, unsure>>

ListArrives(r) ==
    /\ r.op = "load" /\ r.at = "served"
    /\ list' = r.answer
    /\ reqs' = reqs \ {r} /\ Unwait([r EXCEPT !.op = IF kind = "connections" THEN "delete" ELSE "load"])
    /\ unsure' = {}
    /\ UNCHANGED <<kind, server, orderChanged, sends, overtaken>> /\ QuietForm

\* A failure.  A channel that was taken out comes back with the whole list as it
\* was then, a toggled one as the row it was.
RequestFails(r) ==
    /\ r.at = "refused"
    /\ list' = CASE kind = "channels" /\ r.op = "delete" -> r.before
                 [] r.op = "toggle" /\ r.id \in Ids(r.before) -> Replaced(list, Row(r.before, r.id))
                 [] OTHER -> list
    /\ overtaken' = \/ overtaken
                    \/ r.op = "load"
                    \/ kind = "channels" /\ r.op = "delete" /\ list # Without(r.before, r.id)
    /\ reqs' = reqs \ {r} /\ Unwait(r)
    /\ UNCHANGED <<kind, server, orderChanged, sends, unsure>> /\ QuietForm

\* Two rows, with places between them when others were deleted.
ListsInit ==
    /\ kind = None
    /\ rows = <<[id |-> 1, val |-> 1], [id |-> 2, val |-> 1]>>
    /\ \E gap \in {1, 3} : sortOf = <<0, gap>>
    /\ list = <<>> /\ waits = {} /\ reqs = {}
    /\ orderChanged = FALSE /\ formFor = None /\ newKey = None
    /\ sends = 0 /\ openings = 0 /\ keySeen = {} /\ overtaken = FALSE
    /\ unsure = {} /\ misplaced = {}

AnswerStep(r) ==
    \/ AddAnswered(r) \/ DeleteAnswered(r) \/ UpdateAnswered(r) \/ OrderAnswered(r)
    \/ ListArrives(r) \/ RequestFails(r)

ListsNext ==
    \/ \E k \in Kinds : OpenList(k)
    \/ FetchList \/ AddRow \/ SaveOrder \/ OpenCreate \/ CloseCreate \/ CloseEdit
    \/ \E id \in Ids(list) : DeleteRow(id) \/ ToggleChannel(id) \/ UpdateRow(id)
    \/ \E id \in Ids(list) \cup {0} : EditForm(id)
    \/ \E i, j \in DOMAIN list : DropRow(i, j)
    \/ \E r \in reqs : ServeRequest(r) \/ RefuseRequest(r) \/ LoseAnswer(r) \/ AnswerStep(r)

-----------------------------------------------------------------------------
\* When every request has ended the page shows what the server has, although the
\* requests for different rows overlapped in any order; but for the rows of which an
\* answer was lost and none was heard since.
Sure(l) == {x \in RowSet(l) : x.id \notin unsure}
RowsAgree == kind # None /\ reqs = {} /\ ~overtaken => Sure(list) = Sure(rows)

\* An order that is not the server's can be saved: the button is there until it is.
\* The exception is a row that was added behind deleted ones.
OrderOffered ==
    kind \in Ordered /\ reqs = {} /\ ~overtaken /\ ~orderChanged =>
        \A i, j \in DOMAIN list :
            i < j /\ {list[i].id, list[j].id} \subseteq Ids(rows) \ misplaced =>
                Precedes(list[i].id, list[j].id)

\* A key is seen in one opening of the dialog and never again.
KeySeenOnce == \A x, y \in keySeen : x[1] = y[1] => x = y

\* The lists of the settings and the server agree, and what is shown once is shown once.
ListsAgree ==
    RowsAgree /\ OrderOffered /\ KeySeenOnce
=============================================================================
