----------------------- MODULE SubscriptionLifecycle -----------------------
(***************************************************************************)
(* Lifecycle of subscriptions in subdux: background sweeps and requests    *)
(* read a row, advance it in memory to the day they took as today, and     *)
(* write the lifecycle columns back with an UPDATE that only names the id  *)
(* (internal/service/subscription_lifecycle.go, subscription_crud.go,      *)
(* subscription_actions.go).  Each SQL statement or transaction is a step; *)
(* between two of them other requests and sweeps run and midnight passes.  *)
(*                                                                         *)
(* Dates are numbers in calendar order; FirstDue and DueAfter stand for    *)
(* the arithmetic of BillingCalendar.                                      *)
(***************************************************************************)
EXTENDS Integers, FiniteSets

CONSTANTS
  Subs,         \* subscriptions of one user
  Sweepers,     \* what reconciles all rows: the hourly sweep, the scan, POST reconcile
  Requests,     \* requests that may be in flight at a time
  Schedules,    \* recurrence settings
  Dates,        \* dates, in the order of time
  NoDate,       \* a NULL date
  Days,         \* the dates the clock shows
  EntryDates,   \* next billing dates and end dates users enter
  FirstDue(_, _, _), \* schedule, anchor, day: first occurrence on or after the day
  DueAfter(_, _),  \* schedule, date: the occurrence after the date
  Edits,        \* inputs of Update
  Keep,         \* a field an input leaves out
  MaxRequests,  \* bound on the requests served
  MaxFailures   \* bound on requests and sweeps that break off

Mode   == {"auto_renew", "manual_renew", "cancel_at_period_end"}
Status == {"active", "ended"}

ASSUME DatesAssumption ==
  /\ Dates \subseteq Nat /\ Days \subseteq Dates /\ Days # {} /\ EntryDates \subseteq Dates
  /\ NoDate \notin Dates
  /\ MaxRequests \in Nat /\ MaxFailures \in Nat

ASSUME EditsAssumption ==
  Edits \subseteq [status : Status \cup {Keep}, mode : Mode \cup {Keep},
                   endsAt : EntryDates \cup {NoDate, Keep}, next : EntryDates \cup {Keep},
                   schedule : Schedules \cup {Keep}]

ASSUME DueAssumption ==
  \A s \in Schedules, a \in Dates, d \in Days :
    a < d => FirstDue(s, a, d) \in Dates /\ FirstDue(s, a, d) >= d

\* A row of subscriptions: enabled always equals (status = "active"); the names,
\* amounts and references a request may also write do not matter here.
Row == [status : Status, mode : Mode, next : Dates, endsAt : Dates \cup {NoDate},
        schedule : Schedules]
NoRow == [status |-> "none"]

VARIABLES
  today,    \* the system date
  row,      \* [Subs -> Row or NoRow]
  created,  \* ids already given
  sweep,    \* [Sweepers -> where the sweep is, the day it took as today, its rows]
  req,      \* [Requests -> where the request is, its subscription, input and copy]
  served,   \* requests begun
  failed,   \* requests and sweeps that broke off
  entered   \* history, [Subs -> Row or NoRow]: the row the last commit of a user left

vars == <<today, row, created, sweep, req, served, failed, entered>>

Idle   == [stage |-> "idle"]
Exists(s) == row[s] # NoRow

\* Bug: the day it is noticed becomes the day it ended.
Bug_EndedAt(r, boundary, day) == [r EXCEPT !.status = "ended", !.endsAt = day]

EndedAt(r, boundary, day) == [r EXCEPT !.status = "ended", !.endsAt = boundary]

\* cancelAtPeriodEndBoundary
Boundary(r) == IF r.endsAt # NoDate THEN r.endsAt ELSE r.next

\* advanceSubscriptionLifecycle
Advanced(r, day) ==
  CASE r.status # "active" -> r
    [] r.status = "active" /\ r.mode = "auto_renew" /\ r.next < day ->
         [r EXCEPT !.next = FirstDue(r.schedule, r.next, day), !.endsAt = NoDate]
    [] r.status = "active" /\ r.mode = "manual_renew" /\ r.next < day ->
         EndedAt(r, r.next, day)
    [] r.status = "active" /\ r.mode = "cancel_at_period_end" /\ Boundary(r) < day ->
         EndedAt(r, Boundary(r), day)
    [] OTHER -> r

\* Bug: the end date stays out of the UPDATE.
Bug_Persisted(current, copy, day) ==
  LET a == Advanced(copy, day)
  IN  IF a = copy \/ current = NoRow THEN current
      ELSE [current EXCEPT !.next = a.next, !.status = a.status]

\* persistAdvancedSubscriptionLifecycle: the lifecycle columns of the copy go
\* over the current row, whatever it has become; a deleted row stays deleted.
Persisted(current, copy, day) ==
  LET a == Advanced(copy, day)
  IN  IF a = copy \/ current = NoRow THEN current
      ELSE [current EXCEPT !.next = a.next, !.endsAt = a.endsAt, !.status = a.status]

\* normalizeLifecycleDraft, on valid input
Normalized(status, mode, endsAt, next) ==
  [status |-> status, mode |-> mode,
   endsAt |-> IF status = "ended" THEN IF endsAt = NoDate THEN next ELSE endsAt
              ELSE IF mode = "cancel_at_period_end" THEN next ELSE NoDate]

\* The row Create inserts.
NewRow(status, mode, endsAt, next, schedule) ==
  LET l == Normalized(status, mode, endsAt, next)
  IN  [status |-> l.status, mode |-> l.mode, next |-> next, endsAt |-> l.endsAt,
       schedule |-> schedule]

Given(input, value) == IF input = Keep THEN value ELSE input

TouchesLifecycle(e) == \E f \in {"status", "mode", "endsAt", "next", "schedule"} : e[f] # Keep

\* Bug: an update that says nothing of the status makes the subscription active.
Bug_EditedStatus(e, copy) == Given(e.status, "active")

EditedStatus(e, copy) == Given(e.status, copy.status)

\* What Update writes: the lifecycle columns from the copy it loaded and the
\* input, the schedule columns only if the input has one of them.
Edited(current, copy, e) ==
  LET next == Given(e.next, copy.next)
      l    == Normalized(EditedStatus(e, copy), Given(e.mode, copy.mode),
                         Given(e.endsAt, copy.endsAt), next)
      withLifecycle == [current EXCEPT !.status = l.status, !.mode = l.mode, !.endsAt = l.endsAt]
  IN  IF e.next # Keep \/ e.schedule # Keep
      THEN [withLifecycle EXCEPT !.next = next, !.schedule = Given(e.schedule, copy.schedule)]
      ELSE IF TouchesLifecycle(e) THEN withLifecycle ELSE current
-----------------------------------------------------------------------------
Init ==
  /\ today \in Days /\ \A d \in Days : today <= d
  /\ row = [s \in Subs |-> NoRow]
  /\ created = {}
  /\ sweep = [w \in Sweepers |-> Idle]
  /\ req = [q \in Requests |-> Idle]
  /\ served = 0
  /\ failed = 0
  /\ entered = [s \in Subs |-> NoRow]

ADayPasses ==
  /\ \E d \in Days : d > today /\ today' = d
  /\ UNCHANGED <<row, created, sweep, req, served, failed, entered>>

\* Create, a single transaction.
Create(s) ==
  /\ s \notin created
  /\ \E status \in Status, mode \in Mode, endsAt \in EntryDates \cup {NoDate},
        next \in EntryDates, schedule \in Schedules :
       row' = [row EXCEPT ![s] = NewRow(status, mode, endsAt, next, schedule)]
  /\ created' = created \cup {s}
  /\ entered' = [entered EXCEPT ![s] = row'[s]]
  /\ UNCHANGED <<today, sweep, req, served, failed>>

\* A sweep reads the clock once and keeps that day.
BeginSweep(w) ==
  /\ sweep[w].stage = "idle"
  /\ sweep' = [sweep EXCEPT ![w] = [stage |-> "load", day |-> today]]
  /\ UNCHANGED <<today, row, created, req, served, failed, entered>>

\* Bug: only what renews by itself is swept.
Bug_SweptSubs == {s \in Subs : Exists(s) /\ row[s].status = "active" /\ row[s].mode = "auto_renew"}

SweptSubs == {s \in Subs : Exists(s) /\ row[s].status = "active"}

LoadSweep(w) ==
  /\ sweep[w].stage = "load"
  /\ sweep' = [sweep EXCEPT ![w] =
       [stage |-> "write", day |-> sweep[w].day, rows |-> [s \in SweptSubs |-> row[s]]]]
  /\ UNCHANGED <<today, row, created, req, served, failed, entered>>

\* One row's UPDATE; the rows that need none are passed over.
SweepRow(w, s) ==
  /\ sweep[w].stage = "write" /\ s \in DOMAIN sweep[w].rows
  /\ row' = [row EXCEPT ![s] = Persisted(row[s], sweep[w].rows[s], sweep[w].day)]
  /\ sweep' = [sweep EXCEPT ![w].rows =
       [t \in DOMAIN sweep[w].rows \ {s} |-> sweep[w].rows[t]]]
  /\ UNCHANGED <<today, created, req, served, failed, entered>>

EndSweep(w) ==
  /\ sweep[w].stage = "write" /\ DOMAIN sweep[w].rows = {}
  /\ sweep' = [sweep EXCEPT ![w] = Idle]
  /\ UNCHANGED <<today, row, created, req, served, failed, entered>>

\* A statement fails: the sweep returns and leaves the other rows for next time.
SweepFails(w) ==
  /\ sweep[w].stage \in {"load", "write"}
  /\ failed < MaxFailures
  /\ failed' = failed + 1
  /\ sweep' = [sweep EXCEPT ![w] = Idle]
  /\ UNCHANGED <<today, row, created, req, served, entered>>

\* A request for a subscription: reconcileSubscriptionForWrite reads the clock
\* and the row.
BeginRequest(q, s) ==
  /\ req[q].stage = "idle" /\ served < MaxRequests /\ Exists(s)
  /\ \/ \E e \in Edits :
          req' = [req EXCEPT ![q] = [stage |-> "reconcile", op |-> "update", sub |-> s,
                                     edit |-> e, copy |-> row[s], day |-> today]]
     \/ \E op \in {"renew", "delete"} :
          req' = [req EXCEPT ![q] = [stage |-> "reconcile", op |-> op, sub |-> s,
                                     copy |-> row[s], day |-> today]]
  /\ served' = served + 1
  /\ UNCHANGED <<today, row, created, sweep, failed, entered>>

ReconcileForWrite(q) ==
  /\ req[q].stage = "reconcile"
  /\ row' = [row EXCEPT ![req[q].sub] = Persisted(@, req[q].copy, req[q].day)]
  /\ req' = [req EXCEPT ![q].stage = "load"]
  /\ UNCHANGED <<today, created, sweep, served, failed, entered>>

\* The checks of MarkManualRenewed; the other operations have none here.
Accepted(op, r) ==
  op = "renew" => /\ r.status = "active" /\ r.mode = "manual_renew"
                  /\ DueAfter(r.schedule, r.next) \in Dates

\* GetByID: the row as of today; a row that is gone or refused ends the request.
Load(q) ==
  /\ req[q].stage = "load"
  /\ LET s == req[q].sub
         loaded == Advanced(row[s], today)
     IN  req' = [req EXCEPT ![q] =
                   IF Exists(s) /\ Accepted(req[q].op, loaded)
                   THEN [req[q] EXCEPT !.stage = "commit", !.copy = loaded] ELSE Idle]
  /\ UNCHANGED <<today, row, created, sweep, served, failed, entered>>

\* The transaction of Update, MarkManualRenewed or DeleteRecord.
Written(q) ==
  LET r == row[req[q].sub] copy == req[q].copy IN
  CASE req[q].op = "update" -> Edited(r, copy, req[q].edit)
    [] req[q].op = "renew"  ->
         [r EXCEPT !.next = DueAfter(copy.schedule, copy.next), !.status = "active",
                   !.mode = "manual_renew", !.endsAt = NoDate]
    [] req[q].op = "delete" -> NoRow

Commit(q) ==
  /\ req[q].stage = "commit"
  /\ LET s == req[q].sub IN
       /\ row' = IF Exists(s) THEN [row EXCEPT ![s] = Written(q)] ELSE row
       /\ entered' = [entered EXCEPT ![s] = row'[s]]
  /\ req' = [req EXCEPT ![q] = Idle]
  /\ UNCHANGED <<today, created, sweep, served, failed>>

\* The client goes away or a statement fails.
RequestFails(q) ==
  /\ req[q].stage # "idle"
  /\ failed < MaxFailures
  /\ failed' = failed + 1
  /\ req' = [req EXCEPT ![q] = Idle]
  /\ UNCHANGED <<today, row, created, sweep, served, entered>>

SweepStep(w) ==
  \/ BeginSweep(w) \/ LoadSweep(w) \/ EndSweep(w) \/ SweepFails(w)
  \/ \E s \in Subs : SweepRow(w, s)

RequestStep(q) ==
  \/ \E s \in Subs : BeginRequest(q, s)
  \/ ReconcileForWrite(q) \/ Load(q) \/ Commit(q) \/ RequestFails(q)

Next ==
  \/ ADayPasses
  \/ \E s \in Subs : Create(s)
  \/ \E w \in Sweepers : SweepStep(w)
  \/ \E q \in Requests : RequestStep(q)

\* The sweep runs hourly as long as the server does (startSubscriptionLifecycleSweep).
Fairness == \A w \in Sweepers : WF_vars(SweepStep(w))

Spec == Init /\ [][Next]_vars
FairSpec == Spec /\ Fairness

\* Sweeps overlap with each other and statements of a request with midnights, but
\* no sweep with a request.
Apart == (\A w \in Sweepers : sweep[w] = Idle) \/ (\A q \in Requests : req[q] = Idle)
ApartSpec == Init /\ [][Next /\ Apart']_vars
-----------------------------------------------------------------------------
IsSweep(x) ==
  \/ x = Idle
  \/ x \in [stage : {"load"}, day : Days]
  \/ \E known \in SUBSET Subs : x \in [stage : {"write"}, day : Days, rows : [known -> Row]]

RequestState ==
  {Idle} \cup [stage : {"reconcile", "load", "commit"}, op : {"update"}, sub : Subs,
               edit : Edits, copy : Row, day : Days]
         \cup [stage : {"reconcile", "load", "commit"}, op : {"renew", "delete"}, sub : Subs,
               copy : Row, day : Days]

TypeOK ==
  /\ today \in Days
  /\ row \in [Subs -> Row \cup {NoRow}]
  /\ created \subseteq Subs
  /\ DOMAIN sweep = Sweepers /\ \A w \in Sweepers : IsSweep(sweep[w])
  /\ req \in [Requests -> RequestState]
  /\ served \in 0..MaxRequests /\ failed \in 0..MaxFailures
  /\ entered \in [Subs -> Row \cup {NoRow}]

\* The calendar's rolls compose on the schedules and dates in Regular, which rows do
\* not leave: to roll to one day and then to a later one is to roll to the later one.
\* A monthly schedule keeps this on days that every month has (nextRecurringBillingDateOnOrAfter).
RollsCompose(Regular) ==
  /\ Regular \subseteq Schedules \X Dates /\ Schedules \X EntryDates \subseteq Regular
  /\ \A x \in Regular : /\ \A e \in Edits : <<Given(e.schedule, x[1]), Given(e.next, x[2])>> \in Regular
                        /\ DueAfter(x[1], x[2]) \in Dates => <<x[1], DueAfter(x[1], x[2])>> \in Regular
  /\ \A x \in Regular, day, later \in Days : x[2] < day /\ day <= later =>
       LET due == FirstDue(x[1], x[2], day)
       IN  /\ <<x[1], due>> \in Regular
           /\ FirstDue(x[1], x[2], later) = IF due < later THEN FirstDue(x[1], due, later) ELSE due

\* Status, mode and end date fit together whoever wrote last: an ended
\* subscription has the date it ended, and only one that is to be cancelled or
\* has ended carries an end date (persistAdvancedSubscriptionLifecycle and the
\* updates write these columns from copies that may be out of date).
Fits(r) ==
  /\ r.status = "ended" => r.endsAt # NoDate
  /\ r.status = "active" /\ r.mode # "cancel_at_period_end" => r.endsAt = NoDate
EndDateFits == \A s \in Subs : Fits(row[s])

\* A read shows what the last commit of a user leads to by today, whichever
\* sweeps and reconciles ran since, on whatever day they took as today
\* (the comment on advanceSubscriptionLifecycle).
SameWhetherSwept == \A s \in Subs : Advanced(row[s], today) = Advanced(entered[s], today)

\* Only an update that asks for it makes an ended subscription active again
\* (the comment on reconcileSubscriptionForWrite: a mutation "does not
\* resurrect or overwrite a transition that should have happened").
Reactivates(q, s) ==
  /\ req[q].stage = "commit" /\ req'[q].stage = "idle" /\ req[q].sub = s
  /\ req[q].op = "update" /\ req[q].edit.status = "active"
EndedStaysEnded ==
  [][\A s \in Subs : row[s].status = "ended" /\ row'[s].status = "active" =>
       \E q \in Requests : Reactivates(q, s)]_vars

\* Once users and the calendar rest, the sweeps bring every row up to date for
\* good, also after stale writes and sweeps that broke off.
CatchesUp == <>[](\A s \in Subs : Advanced(row[s], today) = row[s])
=============================================================================
