--------------------- MODULE SubscriptionLifecycleProofs ---------------------
(***************************************************************************)
(* Proofs about SubscriptionLifecycle, for any number of subscriptions,    *)
(* sweeps and requests and any calendar that meets DueAssumption; of one   *)
(* client's requests and of sweeps apart from them, also what the row      *)
(* keeps of what the user left.                                            *)
(***************************************************************************)
EXTENDS SubscriptionLifecycle, TLAPS

MaybeRow == Row \cup {NoRow}

\* A stored row is never mistaken for no row.
LEMMA RowsExist == \A r \in Row : r # NoRow
  BY DEF Row, NoRow, Status

\* Advancing a row to a day yields a row, with the same mode and schedule, and
\* the date and status it writes fit each other (advanceSubscriptionLifecycle).
LEMMA AdvancedIsRow ==
  ASSUME NEW r \in Row, NEW day \in Days
  PROVE  /\ Advanced(r, day) \in Row
         /\ Fits(r) => Fits(Advanced(r, day))
         /\ Advanced(r, day) # r =>
              \/ Advanced(r, day).status = "ended" /\ Advanced(r, day).endsAt # NoDate
              \/ Advanced(r, day).status = "active" /\ Advanced(r, day).endsAt = NoDate
  <1> USE DatesAssumption
  <1>1. CASE r.status # "active"
    BY <1>1 DEF Advanced
  <1>2. CASE r.status = "active" /\ r.mode = "auto_renew" /\ r.next < day
    <2>1. Advanced(r, day) = [r EXCEPT !.next = FirstDue(r.schedule, r.next, day), !.endsAt = NoDate]
      BY <1>2 DEF Advanced
    <2>2. FirstDue(r.schedule, r.next, day) \in Dates
      BY <1>2, DueAssumption DEF Row
    <2>3. Advanced(r, day) \in Row
      BY <2>1, <2>2 DEF Row
    <2> QED
      BY <1>2, <2>1, <2>3 DEF Row, Fits
  <1>3. CASE r.status = "active" /\ r.mode = "manual_renew" /\ r.next < day
    BY <1>3 DEF Advanced, EndedAt, Row, Status, Fits
  <1>4. CASE r.status = "active" /\ r.mode = "cancel_at_period_end" /\ Boundary(r) < day
    <2>1. Boundary(r) \in Dates
      BY DEF Boundary, Row
    <2>2. Advanced(r, day) = EndedAt(r, Boundary(r), day)
      BY <1>4 DEF Advanced
    <2>3. PICK date \in Dates : date = Boundary(r)
      BY <2>1
    <2>4. Advanced(r, day) = [r EXCEPT !.status = "ended", !.endsAt = date]
      BY <2>2, <2>3 DEF EndedAt
    <2>5. Advanced(r, day) \in Row /\ Advanced(r, day).status = "ended" /\ Advanced(r, day).endsAt = date
      BY <2>4 DEF Row, Status
    <2>6. date # NoDate
      BY <2>3
    <2> QED
      BY <2>5, <2>6 DEF Fits
  <1>5. CASE /\ r.status = "active"
             /\ ~(r.mode = "auto_renew" /\ r.next < day)
             /\ ~(r.mode = "manual_renew" /\ r.next < day)
             /\ ~(r.mode = "cancel_at_period_end" /\ Boundary(r) < day)
    BY <1>5 DEF Advanced
  <1> QED
    BY <1>1, <1>2, <1>3, <1>4, <1>5

\* Writing a copy's lifecycle over whatever the row has become leaves a row that
\* fits, and never brings a deleted row back (persistAdvancedSubscriptionLifecycle).
LEMMA PersistedIsRow ==
  ASSUME NEW current \in MaybeRow, NEW copy \in Row, NEW day \in Days
  PROVE  /\ Persisted(current, copy, day) \in MaybeRow
         /\ Fits(current) => Fits(Persisted(current, copy, day))
  <1>1. CASE Advanced(copy, day) = copy \/ current = NoRow
    BY <1>1 DEF Persisted
  <1>2. CASE Advanced(copy, day) # copy /\ current # NoRow
    <2>1. current \in Row
      BY <1>2 DEF MaybeRow
    <2>2. Persisted(current, copy, day) =
            [current EXCEPT !.next = Advanced(copy, day).next,
                            !.endsAt = Advanced(copy, day).endsAt,
                            !.status = Advanced(copy, day).status]
      BY <1>2 DEF Persisted
    <2>3. Advanced(copy, day) \in Row
      BY AdvancedIsRow
    <2>4. \/ Advanced(copy, day).status = "ended" /\ Advanced(copy, day).endsAt # NoDate
          \/ Advanced(copy, day).status = "active" /\ Advanced(copy, day).endsAt = NoDate
      BY <1>2, AdvancedIsRow
    <2>5. Persisted(current, copy, day) \in Row
      BY <2>1, <2>2, <2>3 DEF Row
    <2>6. Fits(Persisted(current, copy, day))
      BY <2>1, <2>2, <2>4 DEF Fits, Row
    <2> QED
      BY <2>5, <2>6 DEF MaybeRow
  <1> QED
    BY <1>1, <1>2

\* normalizeLifecycleDraft makes the three columns fit.
LEMMA NormalizedFits ==
  ASSUME NEW status \in Status, NEW mode \in Mode, NEW endsAt \in Dates \cup {NoDate},
         NEW next \in Dates
  PROVE  LET l == Normalized(status, mode, endsAt, next) IN
           /\ l.status = status /\ l.mode = mode /\ l.endsAt \in Dates \cup {NoDate}
           /\ Fits(l)
  BY DatesAssumption DEF Normalized, Fits, Status, Mode

\* Create inserts a row that fits.
LEMMA NewRowFits ==
  ASSUME NEW status \in Status, NEW mode \in Mode, NEW endsAt \in EntryDates \cup {NoDate},
         NEW next \in EntryDates, NEW schedule \in Schedules
  PROVE  /\ NewRow(status, mode, endsAt, next, schedule) \in Row
         /\ Fits(NewRow(status, mode, endsAt, next, schedule))
  <1>1. next \in Dates /\ endsAt \in Dates \cup {NoDate}
    BY DatesAssumption
  <1> DEFINE l == Normalized(status, mode, endsAt, next)
  <1>2. l.status = status /\ l.mode = mode /\ l.endsAt \in Dates \cup {NoDate} /\ Fits(l)
    BY <1>1, NormalizedFits
  <1>3. NewRow(status, mode, endsAt, next, schedule) =
          [status |-> l.status, mode |-> l.mode, next |-> next, endsAt |-> l.endsAt,
           schedule |-> schedule]
    BY DEF NewRow
  <1> HIDE DEF l
  <1> QED
    BY <1>1, <1>2, <1>3 DEF Row, Fits

\* Update leaves a row that fits, also when its copy is out of date.
LEMMA EditedIsRow ==
  ASSUME NEW current \in Row, NEW copy \in Row, NEW e \in Edits
  PROVE  /\ Edited(current, copy, e) \in Row
         /\ Fits(current) => Fits(Edited(current, copy, e))
  <1> DEFINE next == Given(e.next, copy.next)
             l == Normalized(EditedStatus(e, copy), Given(e.mode, copy.mode), Given(e.endsAt, copy.endsAt), next)
             withLifecycle == [current EXCEPT !.status = l.status, !.mode = l.mode, !.endsAt = l.endsAt]
             withSchedule == [withLifecycle EXCEPT !.next = next, !.schedule = Given(e.schedule, copy.schedule)]
  <1>1. /\ next \in Dates
        /\ EditedStatus(e, copy) \in Status /\ Given(e.mode, copy.mode) \in Mode
        /\ Given(e.schedule, copy.schedule) \in Schedules
        /\ Given(e.endsAt, copy.endsAt) \in Dates \cup {NoDate}
    BY EditsAssumption, DatesAssumption DEF Given, EditedStatus, Row
  <1>2. /\ l.status \in Status /\ l.mode \in Mode /\ l.endsAt \in Dates \cup {NoDate} /\ Fits(l)
    BY <1>1, NormalizedFits DEF Row
  <1>3. Edited(current, copy, e) \in {withSchedule, withLifecycle, current}
    BY DEF Edited
  <1> HIDE DEF l, next
  <1>4. withLifecycle \in Row /\ Fits(withLifecycle)
    BY <1>2 DEF Row, Fits
  <1>5. withSchedule \in Row /\ Fits(withSchedule)
    <2> HIDE DEF withLifecycle
    <2> QED
      BY <1>1, <1>4 DEF Row, Fits
  <1> QED
    BY <1>3, <1>4, <1>5
-----------------------------------------------------------------------------
\* A renewal that was accepted has a date to move to; the types alone do not say
\* so, and they are not inductive without it.
RenewalReady ==
  \A q \in Requests :
    req[q].stage = "commit" /\ req[q].op = "renew" =>
      DueAfter(req[q].copy.schedule, req[q].copy.next) \in Dates

\* The transaction of an update, a renewal or a deletion leaves a row that fits
\* or none (Update, MarkManualRenewed, DeleteRecord).
LEMMA CommitWritesRow ==
  ASSUME TypeOK, RenewalReady, NEW q \in Requests, req[q].stage = "commit", Exists(req[q].sub)
  PROVE  /\ Written(q) \in Row \cup {NoRow}
         /\ Fits(row[req[q].sub]) => Fits(Written(q))
  <1>1. /\ row[req[q].sub] \in Row /\ req[q].copy \in Row
        /\ req[q].op = "update" => req[q].edit \in Edits
        /\ req[q].op \in {"update", "renew", "delete"}
    BY DEF TypeOK, RequestState, Idle, Exists
  <1>2. CASE req[q].op = "update"
    BY <1>1, <1>2, EditedIsRow DEF Written
  <1>3. CASE req[q].op = "renew"
    <2>1. DueAfter(req[q].copy.schedule, req[q].copy.next) \in Dates
      BY <1>3 DEF RenewalReady
    <2>2. Written(q) =
            [row[req[q].sub] EXCEPT
               !.next = DueAfter(req[q].copy.schedule, req[q].copy.next), !.status = "active",
               !.mode = "manual_renew", !.endsAt = NoDate]
      BY <1>3 DEF Written
    <2> QED
      BY <1>1, <2>1, <2>2 DEF Row, Status, Mode, Fits
  <1>4. CASE req[q].op = "delete"
    BY <1>4 DEF Written, NoRow, Fits
  <1> QED
    BY <1>1, <1>2, <1>3, <1>4

LEMMA TypeInit == Init => TypeOK /\ RenewalReady
  BY DatesAssumption DEF Init, TypeOK, RenewalReady, IsSweep, RequestState, Idle

\* A renewal becomes ready for its commit only when Load has accepted it.
LEMMA RenewalReadyKept ==
  ASSUME TypeOK, RenewalReady,
         \/ \E w \in Sweepers : SweepStep(w)
         \/ \E q \in Requests : RequestStep(q)
  PROVE  RenewalReady'
  <1>1. ASSUME NEW w \in Sweepers, SweepStep(w) PROVE RenewalReady'
    <2>1. req' = req
      BY <1>1 DEF SweepStep, BeginSweep, LoadSweep, EndSweep, SweepFails, SweepRow
    <2> QED
      BY <2>1 DEF RenewalReady
  <1>2. ASSUME NEW q \in Requests, RequestStep(q) PROVE RenewalReady'
    <2>1. DOMAIN req = Requests
      BY DEF TypeOK
    <2>2. ASSUME NEW p \in Requests, p # q PROVE req'[p] = req[p]
      BY <1>2, <2>1, <2>2 DEF RequestStep, BeginRequest, ReconcileForWrite, Load, Commit, RequestFails
    <2>3. SUFFICES ASSUME req'[q].stage = "commit", req'[q].op = "renew"
                   PROVE  DueAfter(req'[q].copy.schedule, req'[q].copy.next) \in Dates
      BY <2>2 DEF RenewalReady
    <2>4. ASSUME NEW s \in Subs, BeginRequest(q, s) PROVE FALSE
      BY <2>1, <2>3, <2>4 DEF BeginRequest
    <2>5. CASE ReconcileForWrite(q)
      <3>1. req[q] \in RequestState /\ req[q] # Idle
        BY <2>5 DEF ReconcileForWrite, TypeOK, Idle
      <3>2. req'[q] = [req[q] EXCEPT !.stage = "load"]
        BY <2>1, <2>5 DEF ReconcileForWrite
      <3>3. req'[q].stage = "load"
        BY <3>1, <3>2 DEF RequestState
      <3> QED
        BY <2>3, <3>3
    <2>6. CASE Load(q)
      <3> DEFINE loaded == Advanced(row[req[q].sub], today)
      <3>1. req[q] \in RequestState /\ req[q] # Idle
        BY <2>6 DEF Load, TypeOK, Idle
      <3>2. req'[q] # Idle
        BY <2>3 DEF Idle
      <3>3. /\ Accepted(req[q].op, loaded)
            /\ req'[q] = [req[q] EXCEPT !.stage = "commit", !.copy = loaded]
        BY <2>1, <2>6, <3>2 DEF Load
      <3> HIDE DEF loaded
      <3>4. req'[q].op = req[q].op /\ req'[q].copy = loaded
        BY <3>1, <3>3 DEF RequestState, Idle
      <3> QED
        BY <2>3, <3>3, <3>4 DEF Accepted
    <2>7. CASE Commit(q)
      BY <2>1, <2>3, <2>7 DEF Commit, Idle
    <2>8. CASE RequestFails(q)
      BY <2>1, <2>3, <2>8 DEF RequestFails, Idle
    <2> QED
      BY <1>2, <2>4, <2>5, <2>6, <2>7, <2>8 DEF RequestStep
  <1> QED
    BY <1>1, <1>2

LEMMA SweepStepTyped ==
  ASSUME TypeOK, NEW w \in Sweepers, SweepStep(w)
  PROVE  TypeOK'
  <1> USE DEF TypeOK
  <1>1. CASE BeginSweep(w)
    BY <1>1 DEF BeginSweep, IsSweep
  <1>2. CASE LoadSweep(w)
    <2>1. sweep[w].day \in Days
      BY <1>2 DEF LoadSweep, IsSweep, Idle
    <2>2. SweptSubs \in SUBSET Subs /\ [s \in SweptSubs |-> row[s]] \in [SweptSubs -> Row]
      BY DEF SweptSubs, Exists
    <2>3. IsSweep([stage |-> "write", day |-> sweep[w].day, rows |-> [s \in SweptSubs |-> row[s]]])
      BY <2>1, <2>2 DEF IsSweep
    <2> QED
      BY <1>2, <2>3 DEF LoadSweep
  <1>3. CASE EndSweep(w)
    BY <1>3 DEF EndSweep, IsSweep
  <1>4. CASE SweepFails(w)
    BY <1>4, DatesAssumption DEF SweepFails, IsSweep
  <1>5. ASSUME NEW s \in Subs, SweepRow(w, s) PROVE TypeOK'
    <2>1. PICK known \in SUBSET Subs :
            sweep[w] \in [stage : {"write"}, day : Days, rows : [known -> Row]]
      BY <1>5 DEF SweepRow, IsSweep, Idle
    <2>2. s \in known /\ sweep[w].rows[s] \in Row /\ sweep[w].day \in Days
      BY <1>5, <2>1 DEF SweepRow
    <2>3. Persisted(row[s], sweep[w].rows[s], sweep[w].day) \in MaybeRow
      BY <2>2, PersistedIsRow DEF MaybeRow
    <2>4. row' \in [Subs -> Row \cup {NoRow}]
      BY <1>5, <2>3 DEF SweepRow, MaybeRow
    <2> DEFINE rest == [t \in DOMAIN sweep[w].rows \ {s} |-> sweep[w].rows[t]]
    <2>5. rest \in [known \ {s} -> Row]
      BY <2>1
    <2>6. sweep' = [sweep EXCEPT ![w] = [sweep[w] EXCEPT !.rows = rest]]
      BY <1>5 DEF SweepRow
    <2>7. IsSweep([sweep[w] EXCEPT !.rows = rest])
      <3>1. [sweep[w] EXCEPT !.rows = rest] \in [stage : {"write"}, day : Days, rows : [known \ {s} -> Row]]
        BY <2>1, <2>5
      <3> QED
        BY <3>1 DEF IsSweep
    <2> HIDE DEF rest
    <2> QED
      BY <1>5, <2>4, <2>6, <2>7 DEF SweepRow
  <1> QED
    BY <1>1, <1>2, <1>3, <1>4, <1>5 DEF SweepStep

LEMMA RequestStepTyped ==
  ASSUME TypeOK, RenewalReady, NEW q \in Requests, RequestStep(q)
  PROVE  TypeOK'
  <1> USE DEF TypeOK
  <1>1. ASSUME NEW s \in Subs, BeginRequest(q, s) PROVE TypeOK'
    <2>1. row[s] \in Row
      BY <1>1 DEF BeginRequest, Exists
    <2>2. req' \in [Requests -> RequestState]
      BY <1>1, <2>1 DEF BeginRequest, RequestState
    <2> QED
      BY <1>1, <2>2, DatesAssumption DEF BeginRequest
  <1>2. CASE ReconcileForWrite(q)
    <2>1. req[q].copy \in Row /\ req[q].day \in Days /\ req[q].sub \in Subs
      BY <1>2 DEF ReconcileForWrite, RequestState, Idle
    <2>2. Persisted(row[req[q].sub], req[q].copy, req[q].day) \in MaybeRow
      BY <2>1, PersistedIsRow DEF MaybeRow
    <2>3. [req[q] EXCEPT !.stage = "load"] \in RequestState
      BY <1>2 DEF ReconcileForWrite, RequestState, Idle
    <2> QED
      BY <1>2, <2>1, <2>2, <2>3 DEF ReconcileForWrite, MaybeRow
  <1>3. CASE Load(q)
    <2>1. req[q].sub \in Subs
      BY <1>3 DEF Load, RequestState, Idle
    <2> DEFINE loaded == Advanced(row[req[q].sub], today)
    <2>2. Exists(req[q].sub) => loaded \in Row
      BY <2>1, AdvancedIsRow DEF Exists
    <2>3. Exists(req[q].sub) => [req[q] EXCEPT !.stage = "commit", !.copy = loaded] \in RequestState
      <3> HIDE DEF loaded
      <3>1. req[q] \in RequestState /\ req[q] # Idle
        BY <1>3 DEF Load, Idle
      <3>2. CASE req[q].op = "update"
        <4>1. req[q] \in [stage : {"reconcile", "load", "commit"}, op : {"update"}, sub : Subs,
                          edit : Edits, copy : Row, day : Days]
          BY <3>1, <3>2 DEF RequestState
        <4> QED
          BY <2>2, <4>1 DEF RequestState
      <3>3. CASE req[q].op # "update"
        <4>1. req[q] \in [stage : {"reconcile", "load", "commit"}, op : {"renew", "delete"},
                          sub : Subs, copy : Row, day : Days]
          BY <3>1, <3>3 DEF RequestState
        <4> QED
          BY <2>2, <4>1 DEF RequestState
      <3> QED
        BY <3>2, <3>3
    <2>4. Idle \in RequestState
      BY DEF RequestState
    <2>5. req' \in [Requests -> RequestState]
      BY <1>3, <2>3, <2>4 DEF Load
    <2> QED
      BY <1>3, <2>5 DEF Load
  <1>4. CASE Commit(q)
    <2>1. req[q].copy \in Row /\ req[q].sub \in Subs
      BY <1>4 DEF Commit, RequestState, Idle
    <2>2. Exists(req[q].sub) => Written(q) \in Row \cup {NoRow}
      BY <1>4, CommitWritesRow DEF Commit
    <2>3. row' \in [Subs -> Row \cup {NoRow}]
      BY <1>4, <2>1, <2>2 DEF Commit
    <2> QED
      BY <1>4, <2>1, <2>3 DEF Commit, RequestState
  <1>5. CASE RequestFails(q)
    BY <1>5, DatesAssumption DEF RequestFails, RequestState
  <1> QED
    BY <1>1, <1>2, <1>3, <1>4, <1>5 DEF RequestStep

\* Types and accepted renewals are inductive together.
LEMMA LifecycleStep ==
  ASSUME TypeOK, RenewalReady, [Next]_vars
  PROVE  TypeOK' /\ RenewalReady'
  <1>1. CASE ADayPasses
    BY <1>1 DEF ADayPasses, TypeOK, RenewalReady
  <1>2. ASSUME NEW s \in Subs, Create(s) PROVE TypeOK' /\ RenewalReady'
    <2>1. row'[s] \in Row /\ row' = [row EXCEPT ![s] = row'[s]]
      BY <1>2, NewRowFits DEF Create, TypeOK
    <2> QED
      BY <1>2, <2>1 DEF Create, TypeOK, RenewalReady
  <1>3. CASE UNCHANGED vars
    BY <1>3 DEF vars, TypeOK, RenewalReady
  <1> QED
    BY <1>1, <1>2, <1>3, SweepStepTyped, RequestStepTyped, RenewalReadyKept DEF Next

\* Every variable keeps its type: no interleaving of sweeps and requests leaves
\* a row without a billing date or a half-written request.
THEOREM LifecycleTypeCorrect == Spec => []TypeOK
  <1>1. TypeOK /\ RenewalReady /\ [Next]_vars => TypeOK' /\ RenewalReady'
    BY LifecycleStep
  <1> QED
    BY <1>1, TypeInit, PTL DEF Spec

\* The end date fits status and mode in every state, although sweeps and
\* requests write these columns from copies that may be out of date.
THEOREM EndDatesFit == Spec => []EndDateFits
  <1>1. Init => EndDateFits
    BY DEF Init, EndDateFits, Fits, NoRow
  <1>2. ASSUME TypeOK, RenewalReady, EndDateFits, [Next]_vars PROVE EndDateFits'
    <2>1. SUFFICES ASSUME NEW s \in Subs, row'[s] # row[s] PROVE Fits(row'[s])
      BY <1>2 DEF EndDateFits, Fits
    <2>2. row[s] \in MaybeRow /\ Fits(row[s]) /\ DOMAIN row = Subs
      BY <1>2 DEF TypeOK, EndDateFits, MaybeRow
    <2>3. ASSUME NEW t \in Subs, Create(t) PROVE Fits(row'[s])
      <3>1. PICK status \in Status, mode \in Mode, endsAt \in EntryDates \cup {NoDate},
                 next \in EntryDates, schedule \in Schedules :
              row' = [row EXCEPT ![t] = NewRow(status, mode, endsAt, next, schedule)]
        BY <2>3 DEF Create
      <3> QED
        BY <2>1, <2>2, <3>1, NewRowFits
    <2>4. ASSUME NEW w \in Sweepers, SweepStep(w) PROVE Fits(row'[s])
      <3>1. SweepRow(w, s)
        BY <2>1, <2>2, <2>4 DEF SweepStep, BeginSweep, LoadSweep, EndSweep, SweepFails, SweepRow
      <3>2. PICK known \in SUBSET Subs :
              sweep[w] \in [stage : {"write"}, day : Days, rows : [known -> Row]]
        BY <1>2, <3>1 DEF SweepRow, TypeOK, IsSweep, Idle
      <3>3. sweep[w].rows[s] \in Row /\ sweep[w].day \in Days
        BY <3>1, <3>2 DEF SweepRow
      <3> QED
        BY <2>2, <3>1, <3>3, PersistedIsRow DEF SweepRow
    <2>5. ASSUME NEW q \in Requests, RequestStep(q) PROVE Fits(row'[s])
      <3>1. CASE ReconcileForWrite(q)
        <4>1. s = req[q].sub
          BY <2>1, <2>2, <3>1 DEF ReconcileForWrite
        <4>2. req[q].copy \in Row /\ req[q].day \in Days
          BY <1>2, <3>1 DEF ReconcileForWrite, TypeOK, RequestState, Idle
        <4> QED
          BY <2>2, <3>1, <4>1, <4>2, PersistedIsRow DEF ReconcileForWrite
      <3>2. CASE Commit(q)
        <4>1. s = req[q].sub /\ Exists(s) /\ row'[s] = Written(q)
          BY <2>1, <2>2, <3>2 DEF Commit
        <4> QED
          BY <1>2, <2>2, <3>2, <4>1, CommitWritesRow DEF Commit
      <3> QED
        BY <2>1, <2>5, <3>1, <3>2 DEF RequestStep, BeginRequest, Load, RequestFails
    <2> QED
      BY <1>2, <2>1, <2>3, <2>4, <2>5 DEF Next, ADayPasses, vars
  <1>3. TypeOK /\ RenewalReady /\ [Next]_vars => TypeOK' /\ RenewalReady'
    BY LifecycleStep
  <1> QED
    BY <1>1, <1>2, <1>3, TypeInit, PTL DEF Spec
-----------------------------------------------------------------------------
(* One client, or sweeps alone.                                            *)

OneRequest == \A p, q \in Requests : p = q

\* What the lifecycle makes of the row e that a user left: the mode and the schedule
\* stay, what has ended stays so, and what renews by itself does not end.
Of(r, e) ==
  /\ r # NoRow /\ e # NoRow /\ r.mode = e.mode /\ r.schedule = e.schedule
  /\ e.status = "ended" => r.status = "ended"
  /\ e.status = "active" /\ e.mode = "auto_renew" => r.status = "active"

RowsFollow ==
  \A s \in Subs : /\ s \notin created => row[s] = NoRow
                  /\ IF row[s] = NoRow THEN entered[s] = NoRow ELSE Of(row[s], entered[s])

SweepsFollow ==
  \A w \in Sweepers : sweep[w].stage = "write" =>
    \A s \in DOMAIN sweep[w].rows : s \in created /\ Of(sweep[w].rows[s], entered[s])

\* The row of the one request is as it was when it was read, or advanced since.
RequestFollows ==
  \A q \in Requests :
    /\ req[q].stage # "idle" => Exists(req[q].sub)
    /\ req[q].stage = "reconcile" => req[q].copy = row[req[q].sub]
    /\ req[q].stage = "commit" =>
         /\ row[req[q].sub].status = "ended" => req[q].copy.status = "ended"
         /\ req[q].op = "renew" => req[q].copy.status = "active"

ApartInv == TypeOK /\ RenewalReady /\ Apart /\ RowsFollow /\ SweepsFollow /\ RequestFollows

\* What advancing does to the mode, the schedule and the status.
LEMMA AdvancedIs ==
  ASSUME NEW r \in Row, NEW day \in Days
  PROVE  /\ Advanced(r, day).mode = r.mode /\ Advanced(r, day).schedule = r.schedule
         /\ r.status = "ended" => Advanced(r, day) = r
         /\ r.mode = "auto_renew" => Advanced(r, day).status = r.status
         /\ Advanced(r, day) # r /\ r.mode # "auto_renew" => Advanced(r, day).status = "ended"
  <1>1. CASE r.status # "active"
    BY <1>1 DEF Advanced
  <1>2. CASE r.status = "active" /\ r.mode = "auto_renew" /\ r.next < day
    <2>1. Advanced(r, day) = [r EXCEPT !.next = FirstDue(r.schedule, r.next, day), !.endsAt = NoDate]
      BY <1>2 DEF Advanced
    <2> QED
      BY <1>2, <2>1 DEF Row
  <1>3. CASE r.status = "active" /\ r.mode = "manual_renew" /\ r.next < day
    BY <1>3 DEF Advanced, EndedAt, Row
  <1>4. CASE r.status = "active" /\ r.mode = "cancel_at_period_end" /\ Boundary(r) < day
    <2>1. PICK date : date = Boundary(r)
      OBVIOUS
    <2>2. Advanced(r, day) = [r EXCEPT !.status = "ended", !.endsAt = date]
      BY <1>4, <2>1 DEF Advanced, EndedAt
    <2> QED
      BY <1>4, <2>2 DEF Row
  <1>5. CASE /\ r.status = "active"
             /\ ~(r.mode = "auto_renew" /\ r.next < day)
             /\ ~(r.mode = "manual_renew" /\ r.next < day)
             /\ ~(r.mode = "cancel_at_period_end" /\ Boundary(r) < day)
    BY <1>5 DEF Advanced
  <1> QED
    BY <1>1, <1>2, <1>3, <1>4, <1>5

\* A copy whose mode and schedule are the row's leaves its advanced self.
LEMMA PersistedIs ==
  ASSUME NEW current \in Row, NEW copy \in Row, NEW day \in Days,
         current.mode = copy.mode, current.schedule = copy.schedule
  PROVE  Persisted(current, copy, day) = IF Advanced(copy, day) = copy THEN current ELSE Advanced(copy, day)
  <1>1. PICK a \in Row : a = Advanced(copy, day)
    BY AdvancedIsRow
  <1>2. a.mode = current.mode /\ a.schedule = current.schedule
    BY <1>1, AdvancedIs
  <1>3. [current EXCEPT !.next = a.next, !.endsAt = a.endsAt, !.status = a.status] = a
    BY <1>2 DEF Row
  <1> QED
    BY <1>1, <1>3, RowsExist DEF Persisted

LEMMA OfPersisted ==
  ASSUME NEW current \in Row, NEW copy \in Row, NEW e \in Row, NEW day \in Days, Of(current, e), Of(copy, e)
  PROVE  /\ Of(Persisted(current, copy, day), e)
         /\ current.status = "ended" => Persisted(current, copy, day).status = "ended"
  <1>1. current.mode = copy.mode /\ current.schedule = copy.schedule
    BY DEF Of
  <1>2. CASE Advanced(copy, day) = copy
    BY <1>1, <1>2, PersistedIs
  <1>3. CASE Advanced(copy, day) # copy
    <2>1. PICK a \in Row : a = Advanced(copy, day)
      BY AdvancedIsRow
    <2>2. /\ Persisted(current, copy, day) = a /\ a.mode = copy.mode /\ a.schedule = copy.schedule
          /\ copy.status = "active"
      BY <1>1, <1>3, <2>1, PersistedIs, AdvancedIs DEF Row, Status
    <2>3. e.status = "active"
      BY <2>2 DEF Of, Row, Status
    <2>4. CASE e.mode = "auto_renew"
      BY <2>1, <2>2, <2>3, <2>4, AdvancedIs, RowsExist DEF Of
    <2>5. CASE e.mode # "auto_renew"
      <3>1. a.status = "ended"
        BY <1>3, <2>1, <2>5, AdvancedIs DEF Of
      <3> QED
        BY <2>2, <2>3, <2>5, <3>1, RowsExist DEF Of
    <2> QED
      BY <2>4, <2>5
  <1> QED
    BY <1>2, <1>3

LEMMA KnownRows ==
  ASSUME TypeOK, RowsFollow, NEW s \in Subs
  PROVE  /\ row[s] = NoRow => entered[s] = NoRow
         /\ row[s] # NoRow => row[s] \in Row /\ entered[s] \in Row /\ s \in created /\ Of(row[s], entered[s])
  BY DEF TypeOK, RowsFollow, Of

LEMMA OfItself == \A r \in Row : Of(r, r)
  BY RowsExist DEF Of

LEMMA ApartInvInit == Init => ApartInv
  BY TypeInit DEF Init, ApartInv, Apart, RowsFollow, SweepsFollow, RequestFollows, Idle

LEMMA CreateFollows ==
  ASSUME ApartInv, NEW t \in Subs, Create(t)
  PROVE  RowsFollow' /\ SweepsFollow' /\ RequestFollows'
  <1>1. /\ row'[t] \in Row /\ row' = [row EXCEPT ![t] = row'[t]] /\ entered' = [entered EXCEPT ![t] = row'[t]]
        /\ created' = created \cup {t} /\ t \notin created /\ UNCHANGED <<sweep, req>>
    BY NewRowFits DEF Create, ApartInv, TypeOK
  <1>2. DOMAIN row = Subs /\ DOMAIN entered = Subs
    BY DEF ApartInv, TypeOK
  <1>3. RowsFollow'
    BY <1>1, <1>2, OfItself, RowsExist DEF ApartInv, RowsFollow
  <1>4. SweepsFollow'
    BY <1>1, <1>2 DEF ApartInv, SweepsFollow
  <1>5. ASSUME NEW q \in Requests, req[q].stage # "idle" PROVE row'[req[q].sub] = row[req[q].sub]
    <2>1. req[q].sub \in Subs /\ row[req[q].sub] # NoRow
      BY <1>5 DEF ApartInv, TypeOK, RequestState, Idle, RequestFollows, Exists
    <2> QED
      BY <1>1, <1>2, <2>1 DEF ApartInv, RowsFollow
  <1>6. RequestFollows'
    BY <1>1, <1>5 DEF ApartInv, RequestFollows, Exists
  <1> QED
    BY <1>3, <1>4, <1>6

\* A sweep that begins, ends or breaks off.
LEMMA SweepRests ==
  ASSUME ApartInv, NEW w \in Sweepers, BeginSweep(w) \/ EndSweep(w) \/ SweepFails(w)
  PROVE  RowsFollow' /\ SweepsFollow' /\ RequestFollows'
  <1>1. UNCHANGED <<row, created, req, entered>>
    BY DEF BeginSweep, EndSweep, SweepFails
  <1>2. \A v \in Sweepers : sweep'[v].stage = "write" => sweep'[v] = sweep[v]
    BY DEF ApartInv, TypeOK, BeginSweep, EndSweep, SweepFails, Idle
  <1> QED
    BY <1>1, <1>2 DEF ApartInv, RowsFollow, SweepsFollow, RequestFollows, Exists

LEMMA LoadSweepFollows ==
  ASSUME ApartInv, NEW w \in Sweepers, LoadSweep(w)
  PROVE  RowsFollow' /\ SweepsFollow' /\ RequestFollows'
  <1>1. UNCHANGED <<row, created, req, entered>>
    BY DEF LoadSweep
  <1>2. \A v \in Sweepers : v # w => sweep'[v] = sweep[v]
    BY DEF ApartInv, TypeOK, LoadSweep
  <1>3. sweep'[w].rows = [s \in SweptSubs |-> row[s]]
    BY DEF ApartInv, TypeOK, LoadSweep
  <1>4. \A s \in SweptSubs : s \in created /\ Of(row[s], entered[s])
    BY KnownRows DEF ApartInv, SweptSubs, Exists
  <1>5. SweepsFollow'
    BY <1>1, <1>2, <1>3, <1>4 DEF ApartInv, SweepsFollow
  <1> QED
    BY <1>1, <1>5 DEF ApartInv, RowsFollow, RequestFollows, Exists

\* What a sweep's write is about: the sweep has a copy of a row that is there.
LEMMA SweepRowIs ==
  ASSUME ApartInv, NEW w \in Sweepers, NEW s \in Subs, SweepRow(w, s)
  PROVE  /\ sweep[w].rows[s] \in Row /\ sweep[w].day \in Days /\ row[s] \in Row /\ entered[s] \in Row
         /\ Of(row[s], entered[s]) /\ Of(sweep[w].rows[s], entered[s])
         /\ row' = [row EXCEPT ![s] = Persisted(row[s], sweep[w].rows[s], sweep[w].day)]
         /\ row'[s] \in Row /\ Of(row'[s], entered[s])
         /\ UNCHANGED <<created, req, entered>> /\ \A q \in Requests : req[q] = Idle
         /\ \A v \in Sweepers : sweep'[v].stage = "write" => /\ sweep[v].stage = "write"
                                                            /\ DOMAIN sweep'[v].rows \subseteq DOMAIN sweep[v].rows
                                                            /\ \A t \in DOMAIN sweep'[v].rows : sweep'[v].rows[t] = sweep[v].rows[t]
  <1>1. PICK known \in SUBSET Subs :
          sweep[w] \in [stage : {"write"}, day : Days, rows : [known -> Row]]
    BY DEF ApartInv, SweepRow, TypeOK, IsSweep, Idle
  <1>2. s \in known /\ sweep[w].rows[s] \in Row /\ sweep[w].day \in Days
    BY <1>1 DEF SweepRow
  <1>3. Of(sweep[w].rows[s], entered[s])
    BY <1>1, <1>2 DEF ApartInv, SweepsFollow
  <1>4. row[s] \in Row /\ entered[s] \in Row /\ Of(row[s], entered[s])
    BY <1>3, KnownRows DEF ApartInv, Of
  <1>5. /\ row' = [row EXCEPT ![s] = Persisted(row[s], sweep[w].rows[s], sweep[w].day)]
        /\ row'[s] = Persisted(row[s], sweep[w].rows[s], sweep[w].day)
    BY DEF ApartInv, TypeOK, SweepRow
  <1>6. Of(row'[s], entered[s])
    BY <1>2, <1>3, <1>4, <1>5, OfPersisted
  <1>7. row'[s] \in Row
    BY <1>2, <1>4, <1>5, <1>6, PersistedIsRow DEF MaybeRow, Of
  <1>8. sweep[w] # Idle
    BY DEF SweepRow, Idle
  <1>9. \A q \in Requests : req[q] = Idle
    BY <1>8 DEF ApartInv, Apart
  <1>10. \A v \in Sweepers : v # w => sweep'[v] = sweep[v]
    BY DEF ApartInv, TypeOK, SweepRow
  <1>11. sweep'[w].rows = [t \in DOMAIN sweep[w].rows \ {s} |-> sweep[w].rows[t]] /\ sweep[w].stage = "write"
    BY <1>1 DEF ApartInv, TypeOK, SweepRow
  <1> QED
    BY <1>2, <1>3, <1>4, <1>5, <1>6, <1>7, <1>9, <1>10, <1>11 DEF SweepRow

LEMMA SweepRowFollows ==
  ASSUME ApartInv, NEW w \in Sweepers, NEW s \in Subs, SweepRow(w, s)
  PROVE  RowsFollow' /\ SweepsFollow' /\ RequestFollows'
  <1>1. DOMAIN row = Subs
    BY DEF ApartInv, TypeOK
  <1>2. RowsFollow'
    BY <1>1, SweepRowIs, RowsExist DEF ApartInv, RowsFollow
  <1>3. SweepsFollow'
    BY SweepRowIs DEF ApartInv, SweepsFollow
  <1>4. RequestFollows'
    BY SweepRowIs DEF RequestFollows, Idle
  <1> QED
    BY <1>2, <1>3, <1>4

\* A request that has begun is the only one, and no sweep is under way.
LEMMA RequestAlone ==
  ASSUME ApartInv, OneRequest, NEW q \in Requests, req[q].stage # "idle"
  PROVE  /\ req[q].sub \in Subs /\ row[req[q].sub] \in Row /\ entered[req[q].sub] \in Row
         /\ req[q].sub \in created /\ Of(row[req[q].sub], entered[req[q].sub])
         /\ req[q].copy \in Row /\ req[q].day \in Days /\ req[q].op \in {"update", "renew", "delete"}
         /\ \A w \in Sweepers : sweep[w] = Idle
         /\ \A p \in Requests : p = q
  <1>1. req[q].sub \in Subs /\ req[q].copy \in Row /\ req[q].day \in Days /\ req[q].op \in {"update", "renew", "delete"}
    BY DEF ApartInv, TypeOK, RequestState, Idle
  <1>2. row[req[q].sub] # NoRow
    BY DEF ApartInv, RequestFollows, Exists
  <1>3. req[q] # Idle
    BY DEF Idle
  <1> QED
    BY <1>1, <1>2, <1>3, KnownRows DEF ApartInv, Apart, OneRequest

LEMMA BeginFollows ==
  ASSUME ApartInv, OneRequest, NEW q \in Requests, NEW s \in Subs, BeginRequest(q, s)
  PROVE  RowsFollow' /\ SweepsFollow' /\ RequestFollows'
  <1>1. UNCHANGED <<row, created, sweep, entered>> /\ row[s] # NoRow
    BY DEF BeginRequest, Exists
  <1>2. req'[q].stage = "reconcile" /\ req'[q].sub = s /\ req'[q].copy = row[s]
    BY DEF ApartInv, TypeOK, BeginRequest
  <1>3. RequestFollows'
    BY <1>1, <1>2 DEF RequestFollows, OneRequest, Exists
  <1> QED
    BY <1>1, <1>3 DEF ApartInv, RowsFollow, SweepsFollow

LEMMA ReconcileFollows ==
  ASSUME ApartInv, OneRequest, NEW q \in Requests, ReconcileForWrite(q)
  PROVE  /\ RowsFollow' /\ SweepsFollow' /\ RequestFollows'
         /\ req[q].stage # "idle" /\ row[req[q].sub] = req[q].copy
         /\ row' = [row EXCEPT ![req[q].sub] = Persisted(req[q].copy, req[q].copy, req[q].day)]
         /\ UNCHANGED <<today, sweep, entered>> /\ req'[q].stage = "load" /\ req'[q].day = req[q].day
         /\ row[req[q].sub].status = "ended" => row'[req[q].sub].status = "ended"
  <1>1. PICK s \in Subs : s = req[q].sub
    BY RequestAlone DEF ReconcileForWrite
  <1>2. req[q].stage = "reconcile" /\ row[s] = req[q].copy /\ UNCHANGED <<today, created, sweep, entered>>
    BY <1>1 DEF ReconcileForWrite, ApartInv, RequestFollows
  <1>3. /\ row[s] \in Row /\ entered[s] \in Row /\ s \in created /\ Of(row[s], entered[s]) /\ req[q].day \in Days
        /\ \A w \in Sweepers : sweep[w] = Idle
    BY <1>1, <1>2, RequestAlone
  <1>4. /\ row' = [row EXCEPT ![s] = Persisted(row[s], row[s], req[q].day)]
        /\ row'[s] = Persisted(row[s], row[s], req[q].day)
    BY <1>1, <1>2 DEF ApartInv, TypeOK, ReconcileForWrite
  <1>5. Of(row'[s], entered[s]) /\ (row[s].status = "ended" => row'[s].status = "ended")
    BY <1>3, <1>4, OfPersisted
  <1>6. req'[q].stage = "load" /\ req'[q].sub = s /\ req'[q].day = req[q].day
    BY <1>1 DEF ApartInv, TypeOK, RequestState, Idle, ReconcileForWrite
  <1>7. RowsFollow'
    BY <1>2, <1>3, <1>4, <1>5 DEF ApartInv, TypeOK, RowsFollow, Of
  <1>8. SweepsFollow'
    BY <1>2, <1>3 DEF SweepsFollow, Idle
  <1>9. RequestFollows'
    BY <1>5, <1>6 DEF RequestFollows, OneRequest, Exists, Of
  <1> QED
    BY <1>1, <1>2, <1>4, <1>5, <1>6, <1>7, <1>8, <1>9

LEMMA LoadFollows ==
  ASSUME ApartInv, OneRequest, NEW q \in Requests, Load(q)
  PROVE  RowsFollow' /\ SweepsFollow' /\ RequestFollows'
  <1>1. PICK s \in Subs : s = req[q].sub
    BY RequestAlone DEF Load
  <1>2. PICK loaded : loaded = Advanced(row[s], today)
    OBVIOUS
  <1>3. row[s] \in Row /\ today \in Days
    BY <1>1, RequestAlone DEF Load, ApartInv, TypeOK
  <1>4. row[s].status = "ended" => loaded.status = "ended"
    BY <1>2, <1>3, AdvancedIs
  <1>5. \/ req'[q] = Idle
        \/ req'[q] = [req[q] EXCEPT !.stage = "commit", !.copy = loaded] /\ Accepted(req[q].op, loaded)
    BY <1>1, <1>2 DEF ApartInv, TypeOK, Load
  <1>6. ASSUME req'[q] # Idle
        PROVE  /\ req'[q].stage = "commit" /\ req'[q].sub = s /\ req'[q].copy = loaded
               /\ req'[q].op = "renew" => loaded.status = "active"
    <2>1. req[q] \in RequestState /\ req[q] # Idle
      BY DEF Load, ApartInv, TypeOK, Idle
    <2>2. req'[q] = [req[q] EXCEPT !.stage = "commit", !.copy = loaded] /\ Accepted(req[q].op, loaded)
      BY <1>5, <1>6
    <2>3. req'[q].stage = "commit" /\ req'[q].sub = s /\ req'[q].copy = loaded /\ req'[q].op = req[q].op
      BY <1>1, <2>1, <2>2 DEF RequestState
    <2> QED
      BY <2>2, <2>3 DEF Accepted
  <1>7. RequestFollows'
    <2>1. row' = row /\ row[s] # NoRow
      BY <1>3, RowsExist DEF Load
    <2>2. CASE req'[q] = Idle
      BY <2>2 DEF RequestFollows, OneRequest, Idle
    <2>3. CASE req'[q] # Idle
      BY <1>4, <1>6, <2>1, <2>3 DEF RequestFollows, OneRequest, Exists
    <2> QED
      BY <2>2, <2>3
  <1> QED
    BY <1>7 DEF Load, ApartInv, RowsFollow, SweepsFollow

LEMMA CommitFollows ==
  ASSUME ApartInv, OneRequest, NEW q \in Requests, Commit(q)
  PROVE  RowsFollow' /\ SweepsFollow' /\ RequestFollows'
  <1>1. PICK s \in Subs : s = req[q].sub
    BY RequestAlone DEF Commit
  <1>2. row[s] \in Row /\ s \in created /\ \A w \in Sweepers : sweep[w] = Idle
    BY <1>1, RequestAlone DEF Commit
  <1>3. Written(q) \in Row \cup {NoRow}
    BY <1>1, <1>2, RowsExist, CommitWritesRow DEF Commit, ApartInv, Exists
  <1>4. /\ row' = [row EXCEPT ![s] = Written(q)] /\ entered' = [entered EXCEPT ![s] = Written(q)]
        /\ UNCHANGED <<created, sweep>> /\ req'[q] = Idle
    BY <1>1, <1>2, RowsExist DEF Commit, ApartInv, TypeOK, Exists
  <1>5. RowsFollow'
    BY <1>2, <1>3, <1>4, OfItself DEF ApartInv, TypeOK, RowsFollow
  <1>6. SweepsFollow'
    BY <1>2, <1>4 DEF SweepsFollow, Idle
  <1>7. RequestFollows'
    BY <1>4 DEF RequestFollows, OneRequest, Idle
  <1> QED
    BY <1>5, <1>6, <1>7

LEMMA ApartStep ==
  ASSUME OneRequest, ApartInv, [Next /\ Apart']_vars
  PROVE  ApartInv'
  <1>1. TypeOK' /\ RenewalReady'
    BY LifecycleStep DEF ApartInv
  <1>2. CASE UNCHANGED vars
    BY <1>1, <1>2 DEF vars, ApartInv, Apart, RowsFollow, SweepsFollow, RequestFollows, Exists
  <1>3. CASE Next /\ Apart'
    <2>1. CASE ADayPasses
      <3>1. UNCHANGED <<row, created, sweep, req, entered>>
        BY <2>1 DEF ADayPasses
      <3> QED
        BY <1>1, <1>3, <3>1 DEF ApartInv, RowsFollow, SweepsFollow, RequestFollows, Exists
    <2>2. ASSUME NEW t \in Subs, Create(t) PROVE RowsFollow' /\ SweepsFollow' /\ RequestFollows'
      BY <2>2, CreateFollows
    <2>3. ASSUME NEW w \in Sweepers, SweepStep(w) PROVE RowsFollow' /\ SweepsFollow' /\ RequestFollows'
      BY <2>3, SweepRests, LoadSweepFollows, SweepRowFollows DEF SweepStep
    <2>4. ASSUME NEW q \in Requests, RequestStep(q) PROVE RowsFollow' /\ SweepsFollow' /\ RequestFollows'
      <3>1. CASE RequestFails(q)
        <4>1. req'[q] = Idle
          BY <3>1 DEF RequestFails, ApartInv, TypeOK
        <4> QED
          BY <3>1, <4>1 DEF RequestFails, ApartInv, RowsFollow, SweepsFollow, RequestFollows, OneRequest, Idle
      <3> QED
        BY <2>4, <3>1, BeginFollows, ReconcileFollows, LoadFollows, CommitFollows DEF RequestStep
    <2> QED
      BY <1>1, <1>3, <2>1, <2>2, <2>3, <2>4 DEF Next, ApartInv
  <1> QED
    BY <1>2, <1>3

\* An update leaves the status or writes the one of its input and its copy, and its dates
\* and schedule are those it had or those of its input and its copy.
LEMMA EditedIs ==
  ASSUME NEW current \in Row, NEW copy \in Row, NEW e \in Edits
  PROVE  /\ Edited(current, copy, e).status \in {current.status, EditedStatus(e, copy)}
         /\ \/ /\ Edited(current, copy, e).next = current.next
               /\ Edited(current, copy, e).schedule = current.schedule
            \/ /\ Edited(current, copy, e).next = Given(e.next, copy.next)
               /\ Edited(current, copy, e).schedule = Given(e.schedule, copy.schedule)
  <1> DEFINE next == Given(e.next, copy.next)
             schedule == Given(e.schedule, copy.schedule)
             l == Normalized(EditedStatus(e, copy), Given(e.mode, copy.mode), Given(e.endsAt, copy.endsAt), next)
             withLifecycle == [current EXCEPT !.status = l.status, !.mode = l.mode, !.endsAt = l.endsAt]
             withSchedule == [withLifecycle EXCEPT !.next = next, !.schedule = schedule]
  <1>1. l.status = EditedStatus(e, copy)
    BY DEF Normalized
  <1>2. Edited(current, copy, e) \in {withSchedule, withLifecycle, current}
    BY DEF Edited
  <1> HIDE DEF l, next, schedule
  <1>3. /\ withLifecycle.status = l.status /\ withLifecycle.next = current.next
        /\ withLifecycle.schedule = current.schedule
    BY DEF Row
  <1>4. withSchedule.status = l.status /\ withSchedule.next = next /\ withSchedule.schedule = schedule
    BY DEF Row
  <1> HIDE DEF withLifecycle, withSchedule
  <1> QED
    BY <1>1, <1>2, <1>3, <1>4 DEF next, schedule

LEMMA ApartInvHolds == OneRequest => (ApartSpec => []ApartInv)
  <1> SUFFICES ASSUME OneRequest PROVE ApartSpec => []ApartInv
    OBVIOUS
  <1>1. ApartInv /\ [Next /\ Apart']_vars => ApartInv'
    BY ApartStep
  <1> QED
    BY <1>1, ApartInvInit, PTL DEF ApartSpec

\* While one client writes, or sweeps alone do, only an update that asks for it makes an
\* ended subscription active again: a copy that would renew itself is of a row that does,
\* and such a row has not ended (persistAdvancedSubscriptionLifecycle).
THEOREM EndedStayApart == OneRequest => (ApartSpec => EndedStaysEnded)
  <1> SUFFICES ASSUME OneRequest PROVE ApartSpec => EndedStaysEnded
    OBVIOUS
  <1> DEFINE Stays == \A s \in Subs : row[s].status = "ended" /\ row'[s].status = "active" =>
                        \E q \in Requests : Reactivates(q, s)
  <1>1. ASSUME ApartInv, [Next /\ Apart']_vars PROVE [Stays]_vars
    <2> SUFFICES ASSUME NEW s \in Subs, row[s].status = "ended", row'[s].status = "active"
                 PROVE  \E q \in Requests : Reactivates(q, s)
      OBVIOUS
    <2>1. row[s] \in Row /\ s \in created /\ DOMAIN row = Subs
      BY <1>1, KnownRows DEF ApartInv, TypeOK, NoRow
    <2>2. ASSUME NEW t \in Subs, Create(t) PROVE FALSE
      <3>1. row'[s] = row[s]
        BY <2>1, <2>2 DEF Create
      <3> QED
        BY <3>1
    <2>3. ASSUME NEW w \in Sweepers, SweepStep(w) PROVE FALSE
      <3>1. SweepRow(w, s)
        BY <2>1, <2>3 DEF SweepStep, BeginSweep, LoadSweep, EndSweep, SweepFails, SweepRow
      <3> QED
        BY <1>1, <2>1, <3>1, SweepRowIs, OfPersisted
    <2>4. ASSUME NEW q \in Requests, RequestStep(q) PROVE Reactivates(q, s)
      <3>1. CASE ReconcileForWrite(q)
        <4>1. s = req[q].sub
          BY <2>1, <3>1 DEF ReconcileForWrite
        <4> QED
          BY <1>1, <3>1, <4>1, ReconcileFollows
      <3>2. CASE Commit(q)
        <4>1. s = req[q].sub /\ row'[s] = Written(q) /\ req[q].stage = "commit"
          BY <2>1, <3>2 DEF Commit
        <4>2. req[q].copy.status = "ended" /\ req[q].op # "renew"
          BY <1>1, <4>1 DEF ApartInv, RequestFollows
        <4>3. req[q].op = "update" /\ req[q].copy \in Row
          BY <1>1, <2>1, <4>1, <4>2, RequestAlone DEF Written, NoRow
        <4>4. row'[s] = Edited(row[s], req[q].copy, req[q].edit)
          BY <4>1, <4>3 DEF Written
        <4>5. req[q].edit.status = "active"
          <5>1. req[q].edit \in Edits
            BY <1>1, <4>1, <4>3 DEF ApartInv, TypeOK, RequestState, Idle
          <5>2. row'[s].status \in {row[s].status, EditedStatus(req[q].edit, req[q].copy)}
            BY <2>1, <4>3, <4>4, <5>1, EditedIs
          <5> QED
            BY <4>2, <5>2 DEF EditedStatus, Given
        <4>6. req'[q].stage = "idle"
          BY <1>1, <3>2 DEF Commit, ApartInv, TypeOK, Idle
        <4> QED
          BY <4>1, <4>3, <4>5, <4>6 DEF Reactivates
      <3> QED
        BY <2>1, <2>4, <3>1, <3>2 DEF RequestStep, BeginRequest, Load, RequestFails
    <2> QED
      BY <1>1, <2>1, <2>2, <2>3, <2>4 DEF Next, ADayPasses, vars
  <1> QED
    BY <1>1, ApartInvHolds, PTL DEF ApartSpec, EndedStaysEnded

-----------------------------------------------------------------------------
(* What a sweep writes cannot be seen, where the calendar's rolls compose. *)

\* A read from today on shows the same of the row, of the copies of sweeps and of what
\* the user left.
Alike(r, e) == \A t \in Days : today <= t => Advanced(r, t) = Advanced(e, t)

ShownAlike ==
  /\ \A s \in Subs : Alike(row[s], entered[s])
  /\ \A w \in Sweepers : sweep[w].stage # "idle" => sweep[w].day <= today
  /\ \A w \in Sweepers : sweep[w].stage = "write" =>
       \A s \in DOMAIN sweep[w].rows : Alike(sweep[w].rows[s], entered[s])
  /\ \A q \in Requests : req[q].stage # "idle" => req[q].day <= today

Is(Regular, r) == <<r.schedule, r.next>> \in Regular

RowsRegular(Regular) ==
  /\ \A s \in Subs : row[s] # NoRow => Is(Regular, row[s])
  /\ \A w \in Sweepers : sweep[w].stage = "write" =>
       \A s \in DOMAIN sweep[w].rows : Is(Regular, sweep[w].rows[s])
  /\ \A q \in Requests : req[q].stage = "commit" =>
       Is(Regular, req[q].copy) /\ req[q].copy.schedule = row[req[q].sub].schedule

ShownInv(Regular) == ApartInv /\ ShownAlike /\ RowsRegular(Regular)

LEMMA AdvancedRegular ==
  ASSUME NEW CONSTANT Regular, RollsCompose(Regular), NEW r \in Row, Is(Regular, r), NEW day \in Days
  PROVE  Is(Regular, Advanced(r, day))
  <1>1. CASE r.status = "active" /\ r.mode = "auto_renew" /\ r.next < day
    <2>1. PICK due : due = FirstDue(r.schedule, r.next, day)
      OBVIOUS
    <2>2. <<r.schedule, due>> \in Regular
      <3>1. day <= day
        BY DatesAssumption
      <3>2. PICK x \in Regular : x = <<r.schedule, r.next>>
        BY DEF Is
      <3>3. x[1] = r.schedule /\ x[2] = r.next
        BY <3>2
      <3>4. <<x[1], FirstDue(x[1], x[2], day)>> \in Regular
        BY <1>1, <3>1, <3>3 DEF RollsCompose
      <3> QED
        BY <2>1, <3>3, <3>4
    <2>3. Advanced(r, day) = [r EXCEPT !.next = due, !.endsAt = NoDate]
      BY <1>1, <2>1 DEF Advanced
    <2>4. Advanced(r, day).schedule = r.schedule /\ Advanced(r, day).next = due
      BY <2>3 DEF Row
    <2> QED
      BY <2>2, <2>4 DEF Is
  <1>2. CASE ~(r.status = "active" /\ r.mode = "auto_renew" /\ r.next < day)
    <2>1. PICK date : date = Boundary(r)
      OBVIOUS
    <2>2. PICK end : end = r.next
      OBVIOUS
    <2>3. Advanced(r, day) \in {r, [r EXCEPT !.status = "ended", !.endsAt = date],
                                [r EXCEPT !.status = "ended", !.endsAt = end]}
      BY <1>2, <2>1, <2>2 DEF Advanced, EndedAt
    <2> QED
      BY <2>3 DEF Is, Row
  <1> QED
    BY <1>1, <1>2

LEMMA AdvancedTwice ==
  ASSUME NEW CONSTANT Regular, RollsCompose(Regular), NEW r \in Row, Is(Regular, r),
         NEW day \in Days, NEW later \in Days, day <= later
  PROVE  Advanced(Advanced(r, day), later) = Advanced(r, later)
  <1>1. r.next \in Nat /\ day \in Nat /\ later \in Nat
    BY DatesAssumption DEF Row
  <1>2. CASE r.status = "active" /\ r.mode = "auto_renew" /\ r.next < day
    <2>1. PICK due : due = FirstDue(r.schedule, r.next, day)
      OBVIOUS
    <2>2. FirstDue(r.schedule, r.next, later) = IF due < later THEN FirstDue(r.schedule, due, later) ELSE due
      <3>1. PICK x \in Regular : x = <<r.schedule, r.next>>
        BY DEF Is
      <3>2. x[1] = r.schedule /\ x[2] = r.next
        BY <3>1
      <3>3. FirstDue(x[1], x[2], later) = IF FirstDue(x[1], x[2], day) < later
                                          THEN FirstDue(x[1], FirstDue(x[1], x[2], day), later)
                                          ELSE FirstDue(x[1], x[2], day)
        BY <1>2, <3>2 DEF RollsCompose
      <3> QED
        BY <2>1, <3>2, <3>3
    <2>3. PICK a \in Row : a = [r EXCEPT !.next = due, !.endsAt = NoDate]
      <3>1. due \in Dates
        BY <1>2, <2>1, DueAssumption DEF Row
      <3> QED
        BY <3>1 DEF Row
    <2>4. /\ Advanced(r, day) = a /\ a.status = "active" /\ a.mode = "auto_renew" /\ a.next = due
          /\ a.schedule = r.schedule /\ a.endsAt = NoDate
      BY <1>2, <2>1, <2>3 DEF Advanced, Row
    <2>5. PICK last : last = FirstDue(r.schedule, r.next, later)
      OBVIOUS
    <2>6. r.next < later
      BY <1>1, <1>2
    <2>7. Advanced(r, later) = [r EXCEPT !.next = last, !.endsAt = NoDate]
      BY <1>2, <2>5, <2>6 DEF Advanced
    <2>8. CASE due < later
      <3>1. Advanced(a, later) = [a EXCEPT !.next = last, !.endsAt = NoDate]
        BY <2>2, <2>4, <2>5, <2>8 DEF Advanced
      <3>2. [a EXCEPT !.next = last, !.endsAt = NoDate] = [r EXCEPT !.next = last, !.endsAt = NoDate]
        BY <2>3 DEF Row
      <3> QED
        BY <2>4, <2>7, <3>1, <3>2
    <2>9. CASE ~(due < later)
      <3>1. Advanced(a, later) = a /\ last = due
        BY <2>2, <2>4, <2>5, <2>9 DEF Advanced
      <3> QED
        BY <2>3, <2>4, <2>7, <3>1
    <2> QED
      BY <2>8, <2>9
  <1>3. CASE Advanced(r, day) = r
    BY <1>3
  <1>4. CASE r.mode # "auto_renew" /\ Advanced(r, day) # r
    <2>1. r.status = "active"
      BY <1>4 DEF Advanced
    <2>2. PICK date \in Dates : date = IF r.mode = "manual_renew" THEN r.next ELSE Boundary(r)
      BY DEF Boundary, Row
    <2>3. date < day /\ r.mode \in {"manual_renew", "cancel_at_period_end"}
      BY <1>4, <2>1, <2>2 DEF Advanced, Row, Mode
    <2>4. date < later
      BY <1>1, <2>3, DatesAssumption
    <2>5. PICK a \in Row : a = [r EXCEPT !.status = "ended", !.endsAt = date]
      BY DEF Row, Status
    <2>6. Advanced(r, day) = a /\ Advanced(r, later) = a
      BY <2>1, <2>2, <2>3, <2>4, <2>5 DEF Advanced, EndedAt
    <2>7. Advanced(a, later) = a
      BY <2>5 DEF Advanced, Row
    <2> QED
      BY <2>6, <2>7
  <1> QED
    BY <1>2, <1>3, <1>4 DEF Advanced

\* What a reconcile of a copy that shows the same as the row leaves shows the same too.
LEMMA PersistedAlike ==
  ASSUME NEW CONSTANT Regular, RollsCompose(Regular), today \in Days,
         NEW current \in Row, NEW copy \in Row, NEW e \in Row, NEW day \in Days, day <= today,
         Of(current, e), Of(copy, e), Alike(current, e), Alike(copy, e),
         Is(Regular, current), Is(Regular, copy)
  PROVE  Alike(Persisted(current, copy, day), e) /\ Is(Regular, Persisted(current, copy, day))
  <1>1. Persisted(current, copy, day) = IF Advanced(copy, day) = copy THEN current ELSE Advanced(copy, day)
    BY PersistedIs DEF Of
  <1>2. Is(Regular, Advanced(copy, day))
    BY AdvancedRegular
  <1>3. ASSUME NEW t \in Days, today <= t PROVE Advanced(Advanced(copy, day), t) = Advanced(e, t)
    <2>1. day <= t
      BY <1>3, DatesAssumption
    <2>2. Advanced(Advanced(copy, day), t) = Advanced(copy, t)
      BY <2>1, AdvancedTwice
    <2> QED
      BY <1>3, <2>2 DEF Alike
  <1>4. Alike(Advanced(copy, day), e)
    BY <1>3 DEF Alike
  <1> QED
    BY <1>1, <1>2, <1>4

LEMMA SweepFrame ==
  ASSUME ApartInv, NEW w \in Sweepers, NEW s \in Subs, SweepRow(w, s), NEW v \in Sweepers
  PROVE  /\ sweep'[v].stage = sweep[v].stage /\ sweep'[v].day = sweep[v].day
         /\ sweep[v].stage = "write" =>
              /\ DOMAIN sweep'[v].rows \subseteq DOMAIN sweep[v].rows
              /\ \A t \in DOMAIN sweep'[v].rows : sweep'[v].rows[t] = sweep[v].rows[t]
  <1>1. PICK known \in SUBSET Subs :
          sweep[w] \in [stage : {"write"}, day : Days, rows : [known -> Row]]
    BY DEF ApartInv, SweepRow, TypeOK, IsSweep, Idle
  <1>2. DOMAIN sweep = Sweepers
    BY DEF ApartInv, TypeOK
  <1>3. PICK rest : rest = [t \in DOMAIN sweep[w].rows \ {s} |-> sweep[w].rows[t]]
    OBVIOUS
  <1>4. sweep' = [sweep EXCEPT ![w].rows = rest]
    BY <1>3 DEF SweepRow
  <1>5. sweep'[w] = [sweep[w] EXCEPT !.rows = rest] /\ (v # w => sweep'[v] = sweep[v])
    BY <1>2, <1>4
  <1>6. sweep'[w].stage = sweep[w].stage /\ sweep'[w].day = sweep[w].day /\ sweep'[w].rows = rest
    BY <1>1, <1>5
  <1>7. DOMAIN rest \subseteq DOMAIN sweep[w].rows /\ \A t \in DOMAIN rest : rest[t] = sweep[w].rows[t]
    BY <1>3
  <1> QED
    BY <1>5, <1>6, <1>7

LEMMA ShownCreate ==
  ASSUME NEW CONSTANT Regular, RollsCompose(Regular), ShownInv(Regular), NEW t \in Subs, Create(t)
  PROVE  (ShownAlike /\ RowsRegular(Regular))'
  <1>1. /\ row' = [row EXCEPT ![t] = row'[t]] /\ entered' = [entered EXCEPT ![t] = row'[t]]
        /\ t \notin created /\ UNCHANGED <<today, sweep, req>>
        /\ DOMAIN row = Subs /\ DOMAIN entered = Subs
    BY DEF Create, ShownInv, ApartInv, TypeOK
  <1>2. Is(Regular, row'[t])
    <2>1. PICK status \in Status, mode \in Mode, endsAt \in EntryDates \cup {NoDate},
               next \in EntryDates, schedule \in Schedules :
            row'[t] = NewRow(status, mode, endsAt, next, schedule)
      BY <1>1 DEF Create
    <2>2. row'[t].next = next /\ row'[t].schedule = schedule
      BY <2>1 DEF NewRow
    <2> QED
      BY <2>2 DEF Is, RollsCompose
  <1>3. \A w \in Sweepers : sweep[w].stage = "write" => t \notin DOMAIN sweep[w].rows
    BY <1>1 DEF ShownInv, ApartInv, SweepsFollow
  <1>4. \A w \in Sweepers : sweep[w].stage = "write" => DOMAIN sweep[w].rows \subseteq Subs
    BY DEF ShownInv, ApartInv, TypeOK, IsSweep, Idle
  <1>5. \A q \in Requests : req[q].stage # "idle" => req[q].sub \in Subs /\ req[q].sub # t
    BY <1>1 DEF ShownInv, ApartInv, TypeOK, RequestState, Idle, RequestFollows, Exists, RowsFollow
  <1>6. ShownAlike'
    BY <1>1, <1>3, <1>4 DEF ShownInv, ShownAlike, Alike
  <1>7. (RowsRegular(Regular))'
    BY <1>1, <1>2, <1>5 DEF ShownInv, RowsRegular, Is
  <1> QED
    BY <1>6, <1>7

LEMMA ShownSweep ==
  ASSUME NEW CONSTANT Regular, RollsCompose(Regular), ShownInv(Regular), NEW w \in Sweepers, SweepStep(w)
  PROVE  (ShownAlike /\ RowsRegular(Regular))'
  <1>1. DOMAIN sweep = Sweepers /\ today \in Nat /\ today \in Days
    BY DatesAssumption DEF ShownInv, ApartInv, TypeOK
  <1>2. CASE BeginSweep(w) \/ EndSweep(w) \/ SweepFails(w)
    <2>1. UNCHANGED <<today, row, req, entered>>
      BY <1>2 DEF BeginSweep, EndSweep, SweepFails
    <2>2. \A v \in Sweepers : \/ sweep'[v] = sweep[v]
                              \/ sweep'[v].stage = "idle"
                              \/ sweep'[v].stage = "load" /\ sweep'[v].day = today
      BY <1>1, <1>2 DEF BeginSweep, EndSweep, SweepFails, Idle
    <2>3. ShownAlike'
      BY <1>1, <2>1, <2>2 DEF ShownInv, ShownAlike, Alike
    <2> QED
      BY <2>1, <2>2, <2>3 DEF ShownInv, RowsRegular
  <1>3. CASE LoadSweep(w)
    <2>1. UNCHANGED <<today, row, req, entered>>
      BY <1>3 DEF LoadSweep
    <2>2. \A v \in Sweepers : v # w => sweep'[v] = sweep[v]
      BY <1>1, <1>3 DEF LoadSweep
    <2>3. /\ sweep'[w].rows = [s \in SweptSubs |-> row[s]] /\ sweep'[w].day = sweep[w].day
          /\ sweep[w].stage # "idle"
      BY <1>1, <1>3 DEF LoadSweep
    <2>4. SweptSubs \subseteq Subs /\ \A s \in SweptSubs : row[s] # NoRow
      BY DEF SweptSubs, Exists
    <2>5. ShownAlike'
      BY <2>1, <2>2, <2>3, <2>4 DEF ShownInv, ShownAlike, Alike
    <2>6. (RowsRegular(Regular))'
      BY <2>1, <2>2, <2>3, <2>4 DEF ShownInv, RowsRegular
    <2> QED
      BY <2>5, <2>6
  <1>4. ASSUME NEW s \in Subs, SweepRow(w, s) PROVE (ShownAlike /\ RowsRegular(Regular))'
    <2>1. UNCHANGED <<today, req, entered>> /\ DOMAIN row = Subs
      BY <1>4 DEF SweepRow, ShownInv, ApartInv, TypeOK
    <2>2. \A v \in Sweepers : /\ sweep'[v].stage = sweep[v].stage /\ sweep'[v].day = sweep[v].day
                              /\ sweep[v].stage = "write" =>
                                   /\ DOMAIN sweep'[v].rows \subseteq DOMAIN sweep[v].rows
                                   /\ \A t \in DOMAIN sweep'[v].rows : sweep'[v].rows[t] = sweep[v].rows[t]
      BY <1>4, SweepFrame DEF ShownInv
    <2>3. /\ sweep[w].rows[s] \in Row /\ sweep[w].day \in Days /\ row[s] \in Row /\ entered[s] \in Row
          /\ Of(row[s], entered[s]) /\ Of(sweep[w].rows[s], entered[s])
          /\ row' = [row EXCEPT ![s] = Persisted(row[s], sweep[w].rows[s], sweep[w].day)]
          /\ \A q \in Requests : req[q] = Idle
      BY <1>4, SweepRowIs DEF ShownInv
    <2>4. /\ sweep[w].day <= today /\ Alike(row[s], entered[s]) /\ Alike(sweep[w].rows[s], entered[s])
          /\ Is(Regular, row[s]) /\ Is(Regular, sweep[w].rows[s])
      BY <1>4, <2>3, RowsExist DEF SweepRow, ShownInv, ShownAlike, RowsRegular
    <2>5. row'[s] = Persisted(row[s], sweep[w].rows[s], sweep[w].day)
      BY <2>1, <2>3
    <2>6. Alike(row'[s], entered[s]) /\ Is(Regular, row'[s])
      <3>1. PICK current \in Row : current = row[s]
        BY <2>3
      <3>2. PICK copy \in Row : copy = sweep[w].rows[s]
        BY <2>3
      <3>3. PICK e \in Row : e = entered[s]
        BY <2>3
      <3>4. PICK day \in Days : day = sweep[w].day
        BY <2>3
      <3>5. /\ Of(current, e) /\ Of(copy, e) /\ Alike(current, e) /\ Alike(copy, e) /\ day <= today
            /\ Is(Regular, current) /\ Is(Regular, copy)
        BY <2>3, <2>4, <3>1, <3>2, <3>3, <3>4
      <3>6. Alike(Persisted(current, copy, day), e) /\ Is(Regular, Persisted(current, copy, day))
        BY <1>1, <3>5, PersistedAlike
      <3> QED
        BY <2>5, <3>1, <3>2, <3>3, <3>4, <3>6
    <2>7. \A t \in Subs : t # s => row'[t] = row[t]
      BY <2>1, <2>3
    <2>8. ShownAlike'
      BY <2>1, <2>2, <2>6, <2>7 DEF ShownInv, ShownAlike, Alike
    <2>9. \A q \in Requests : req'[q].stage # "commit"
      BY <2>1, <2>3 DEF Idle
    <2>10. (RowsRegular(Regular))'
      BY <2>2, <2>6, <2>7, <2>9 DEF ShownInv, RowsRegular, Is
    <2> QED
      BY <2>8, <2>10
  <1> QED
    BY <1>2, <1>3, <1>4 DEF SweepStep

LEMMA ShownReconcile ==
  ASSUME NEW CONSTANT Regular, RollsCompose(Regular), OneRequest, ShownInv(Regular),
         NEW q \in Requests, ReconcileForWrite(q)
  PROVE  (ShownAlike /\ RowsRegular(Regular))'
  <1>1. /\ req[q].stage # "idle" /\ row[req[q].sub] = req[q].copy
        /\ row' = [row EXCEPT ![req[q].sub] = Persisted(req[q].copy, req[q].copy, req[q].day)]
        /\ UNCHANGED <<today, sweep, entered>> /\ req'[q].stage = "load" /\ req'[q].day = req[q].day
    BY ReconcileFollows DEF ShownInv
  <1>2. /\ req[q].sub \in Subs /\ req[q].copy \in Row /\ entered[req[q].sub] \in Row /\ req[q].day \in Days
        /\ Of(req[q].copy, entered[req[q].sub]) /\ \A w \in Sweepers : sweep[w] = Idle
        /\ \A p \in Requests : p = q
    BY <1>1, RequestAlone DEF ShownInv
  <1>3. DOMAIN row = Subs /\ today \in Days
    BY DEF ShownInv, ApartInv, TypeOK
  <1>4. PICK s \in Subs : s = req[q].sub
    BY <1>2
  <1>5. PICK copy \in Row : copy = req[q].copy
    BY <1>2
  <1>6. PICK e \in Row : e = entered[s]
    BY <1>2, <1>4
  <1>7. PICK day \in Days : day = req[q].day
    BY <1>2
  <1>8. /\ Of(copy, e) /\ day <= today /\ Alike(copy, e) /\ Is(Regular, copy)
    BY <1>1, <1>2, <1>4, <1>5, <1>6, <1>7, RowsExist DEF ShownInv, ShownAlike, RowsRegular
  <1>9. Alike(Persisted(copy, copy, day), e) /\ Is(Regular, Persisted(copy, copy, day))
    BY <1>3, <1>8, PersistedAlike
  <1>10. row' = [row EXCEPT ![s] = Persisted(copy, copy, day)] /\ day <= today
    BY <1>1, <1>4, <1>5, <1>7, <1>8
  <1>11. Alike(row'[s], entered[s]) /\ Is(Regular, row'[s]) /\ \A t \in Subs : t # s => row'[t] = row[t]
    BY <1>3, <1>6, <1>9, <1>10
  <1>12. ShownAlike'
    BY <1>1, <1>2, <1>4, <1>7, <1>10, <1>11 DEF ShownInv, ShownAlike, Alike, Idle
  <1>13. (RowsRegular(Regular))'
    BY <1>1, <1>2, <1>4, <1>11 DEF ShownInv, RowsRegular, Idle, Is
  <1> QED
    BY <1>12, <1>13

\* The row a transaction leaves has a regular date.
LEMMA WrittenRegular ==
  ASSUME NEW CONSTANT Regular, RollsCompose(Regular), OneRequest, ShownInv(Regular),
         NEW q \in Requests, req[q].stage = "commit", Written(q) # NoRow
  PROVE  Is(Regular, Written(q))
  <1>1. /\ row[req[q].sub] \in Row /\ req[q].copy \in Row /\ req[q].op \in {"update", "renew", "delete"}
    BY RequestAlone DEF ShownInv
  <1>2. PICK current \in Row : current = row[req[q].sub]
    BY <1>1
  <1>3. PICK copy \in Row : copy = req[q].copy
    BY <1>1
  <1>4. Is(Regular, current) /\ Is(Regular, copy) /\ copy.schedule = current.schedule
    BY <1>1, <1>2, <1>3, RequestAlone, RowsExist DEF ShownInv, RowsRegular
  <1>5. PICK x \in Regular : x[1] = copy.schedule /\ x[2] = copy.next
    BY <1>4 DEF Is
  <1>6. CASE req[q].op = "update"
    <2>1. PICK e \in Edits : e = req[q].edit
      BY <1>6 DEF ShownInv, ApartInv, TypeOK, RequestState, Idle
    <2>2. Written(q) = Edited(current, copy, e)
      BY <1>2, <1>3, <1>6, <2>1 DEF Written
    <2>3. <<Given(e.schedule, copy.schedule), Given(e.next, copy.next)>> \in Regular
      <3>1. <<Given(e.schedule, x[1]), Given(e.next, x[2])>> \in Regular
        BY DEF RollsCompose
      <3> QED
        BY <1>5, <3>1
    <2>4. PICK a : a = Edited(current, copy, e)
      OBVIOUS
    <2>5. \/ a.next = current.next /\ a.schedule = current.schedule
          \/ a.next = Given(e.next, copy.next) /\ a.schedule = Given(e.schedule, copy.schedule)
      BY <2>4, EditedIs
    <2>6. <<a.schedule, a.next>> \in Regular
      BY <1>4, <2>3, <2>5 DEF Is
    <2> QED
      BY <2>2, <2>4, <2>6 DEF Is
  <1>7. CASE req[q].op = "renew"
    <2>1. PICK next \in Dates : next = DueAfter(copy.schedule, copy.next)
      BY <1>3, <1>7 DEF ShownInv, ApartInv, RenewalReady
    <2>2. Written(q) = [current EXCEPT !.next = next, !.status = "active", !.mode = "manual_renew", !.endsAt = NoDate]
      BY <1>2, <1>3, <1>7, <2>1 DEF Written
    <2>3. <<x[1], DueAfter(x[1], x[2])>> \in Regular
      BY <1>5, <2>1 DEF RollsCompose
    <2>4. Written(q).next = next /\ Written(q).schedule = current.schedule
      BY <2>2 DEF Row
    <2> QED
      BY <1>4, <1>5, <2>1, <2>3, <2>4 DEF Is
  <1>8. CASE req[q].op = "delete"
    BY <1>8 DEF Written
  <1> QED
    BY <1>1, <1>6, <1>7, <1>8

LEMMA ShownRequest ==
  ASSUME NEW CONSTANT Regular, RollsCompose(Regular), OneRequest, ShownInv(Regular),
         NEW q \in Requests, RequestStep(q)
  PROVE  (ShownAlike /\ RowsRegular(Regular))'
  <1>1. DOMAIN req = Requests /\ DOMAIN row = Subs /\ DOMAIN entered = Subs /\ today \in Nat
    BY DatesAssumption DEF ShownInv, ApartInv, TypeOK
  <1>2. ASSUME NEW s \in Subs, BeginRequest(q, s) PROVE (ShownAlike /\ RowsRegular(Regular))'
    <2>1. UNCHANGED <<today, row, sweep, entered>>
      BY <1>2 DEF BeginRequest
    <2>2. req'[q].stage = "reconcile" /\ req'[q].day = today /\ \A p \in Requests : p # q => req'[p] = req[p]
      BY <1>1, <1>2 DEF BeginRequest
    <2>3. ShownAlike'
      BY <1>1, <2>1, <2>2 DEF ShownInv, ShownAlike, Alike
    <2> QED
      BY <2>1, <2>2, <2>3 DEF ShownInv, RowsRegular
  <1>3. CASE Load(q)
    <2>1. UNCHANGED <<today, row, sweep, entered>> /\ \A p \in Requests : p # q => req'[p] = req[p]
      BY <1>1, <1>3 DEF Load
    <2>2. req[q].stage # "idle" /\ req[q] \in RequestState /\ req[q] # Idle /\ today \in Days
      BY <1>3 DEF Load, ShownInv, ApartInv, TypeOK, Idle
    <2>3. PICK s \in Subs : s = req[q].sub /\ row[s] \in Row /\ Is(Regular, row[s])
      BY <2>2, RequestAlone, RowsExist DEF ShownInv, RowsRegular
    <2>4. PICK r \in Row : r = row[s]
      BY <2>3
    <2>5. PICK now \in Days : now = today
      BY <2>2
    <2>6. PICK loaded \in Row : loaded = Advanced(r, now) /\ Is(Regular, loaded) /\ loaded.schedule = r.schedule
      BY <2>3, <2>4, AdvancedIsRow, AdvancedIs, AdvancedRegular
    <2>7. \/ req'[q] = Idle
          \/ req'[q] = [req[q] EXCEPT !.stage = "commit", !.copy = loaded]
      BY <1>1, <1>3, <2>3, <2>4, <2>5, <2>6 DEF Load
    <2>8. req'[q] # Idle => /\ req'[q].stage = "commit" /\ req'[q].sub = s /\ req'[q].copy = loaded
                            /\ req'[q].day = req[q].day
      BY <2>2, <2>3, <2>7 DEF RequestState
    <2>9. ShownAlike'
      BY <2>1, <2>2, <2>8 DEF ShownInv, ShownAlike, Alike, Idle
    <2> QED
      BY <2>1, <2>4, <2>6, <2>8, <2>9 DEF ShownInv, RowsRegular, Idle
  <1>4. CASE Commit(q)
    <2>1. /\ req[q].sub \in Subs /\ row[req[q].sub] \in Row /\ req[q].stage = "commit"
          /\ \A w \in Sweepers : sweep[w] = Idle
          /\ \A p \in Requests : p = q
      BY <1>4, RequestAlone DEF Commit, ShownInv
    <2>2. PICK s \in Subs : s = req[q].sub
      BY <2>1
    <2>3. /\ row' = [row EXCEPT ![s] = Written(q)] /\ entered' = [entered EXCEPT ![s] = row'[s]]
          /\ UNCHANGED <<today, sweep>> /\ req'[q] = Idle
      BY <1>1, <1>4, <2>1, <2>2, RowsExist DEF Commit, Exists
    <2>4. row'[s] = entered'[s] /\ (row'[s] # NoRow => Is(Regular, row'[s]))
          /\ \A t \in Subs : t # s => row'[t] = row[t] /\ entered'[t] = entered[t]
      BY <1>1, <2>1, <2>3, WrittenRegular
    <2>5. /\ \A w \in Sweepers : sweep'[w].stage = "idle"
          /\ \A p \in Requests : req'[p].stage = "idle"
      BY <2>1, <2>3 DEF Idle
    <2>6. \A t \in Subs : /\ Alike(row[t], entered[t])
                          /\ row[t] # NoRow => Is(Regular, row[t])
      BY DEF ShownInv, ShownAlike, RowsRegular
    <2>7. \A t \in Subs : (Alike(row[t], entered[t]))'
      BY <2>3, <2>4, <2>6 DEF Alike
    <2>8. \A t \in Subs : row'[t] # NoRow => Is(Regular, row'[t])
      BY <2>4, <2>6
    <2> QED
      BY <2>5, <2>7, <2>8 DEF ShownAlike, RowsRegular, Is
  <1>5. CASE RequestFails(q)
    <2>1. UNCHANGED <<today, row, sweep, entered>> /\ req'[q] = Idle /\ \A p \in Requests : p # q => req'[p] = req[p]
      BY <1>1, <1>5 DEF RequestFails
    <2>2. ShownAlike'
      BY <2>1 DEF ShownInv, ShownAlike, Alike, Idle
    <2> QED
      BY <2>1, <2>2 DEF ShownInv, RowsRegular, Idle
  <1> QED
    BY <1>2, <1>3, <1>4, <1>5, ShownReconcile DEF RequestStep

LEMMA ShownStep ==
  ASSUME NEW CONSTANT Regular, RollsCompose(Regular), OneRequest, ShownInv(Regular), [Next /\ Apart']_vars
  PROVE  (ShownInv(Regular))'
  <1>1. ApartInv'
    BY ApartStep DEF ShownInv
  <1>2. CASE UNCHANGED vars
    BY <1>1, <1>2 DEF vars, ShownInv, ShownAlike, RowsRegular, Alike
  <1>3. CASE ADayPasses
    <2>1. UNCHANGED <<row, sweep, req, entered>> /\ today' \in Days /\ today' > today /\ today \in Days
      BY <1>3 DEF ADayPasses, ShownInv, ApartInv, TypeOK
    <2>2. \A t \in Days : today' <= t => today <= t
      BY <2>1, DatesAssumption
    <2>3. ASSUME NEW r, NEW e, Alike(r, e) PROVE \A t \in Days : today' <= t => Advanced(r, t) = Advanced(e, t)
      BY <2>2, <2>3 DEF Alike
    <2>4. \A w \in Sweepers : sweep[w].stage # "idle" => sweep[w].day <= today'
      <3> SUFFICES ASSUME NEW w \in Sweepers, sweep[w].stage # "idle" PROVE sweep[w].day <= today'
        OBVIOUS
      <3>1. sweep[w].day \in Days
        BY DEF ShownInv, ApartInv, TypeOK, IsSweep, Idle
      <3>2. sweep[w].day <= today
        BY DEF ShownInv, ShownAlike
      <3>3. PICK day \in Days : day = sweep[w].day
        BY <3>1
      <3>4. PICK next \in Days : next = today'
        BY <2>1
      <3>5. day \in Nat /\ next \in Nat /\ today \in Nat
        BY <2>1, DatesAssumption
      <3>6. day <= next
        BY ONLY <2>1, <3>2, <3>3, <3>4, <3>5
      <3> QED
        BY <3>3, <3>4, <3>6
    <2>5. \A q \in Requests : req[q].stage # "idle" => req[q].day <= today'
      <3> SUFFICES ASSUME NEW q \in Requests, req[q].stage # "idle" PROVE req[q].day <= today'
        OBVIOUS
      <3>1. req[q].day \in Days
        BY DEF ShownInv, ApartInv, TypeOK, RequestState, Idle
      <3>2. req[q].day <= today
        BY DEF ShownInv, ShownAlike
      <3>3. PICK day \in Days : day = req[q].day
        BY <3>1
      <3>4. PICK next \in Days : next = today'
        BY <2>1
      <3>5. day \in Nat /\ next \in Nat /\ today \in Nat
        BY <2>1, DatesAssumption
      <3>6. day <= next
        BY ONLY <2>1, <3>2, <3>3, <3>4, <3>5
      <3> QED
        BY <3>3, <3>4, <3>6
    <2>6. ShownAlike'
      BY <2>1, <2>3, <2>4, <2>5 DEF ShownInv, ShownAlike, Alike
    <2> QED
      BY <1>1, <2>1, <2>6 DEF ShownInv, RowsRegular
  <1> QED
    BY <1>1, <1>2, <1>3, ShownCreate, ShownSweep, ShownRequest DEF Next, ShownInv

\* While one client writes, or sweeps alone do, a read shows what the last commit of a
\* user leads to by today, whichever sweeps and reconciles wrote since and on whatever
\* days: on dates on which the calendar's rolls compose (advanceSubscriptionLifecycle).
THEOREM SweepsShowNothing ==
  ASSUME NEW CONSTANT Regular, RollsCompose(Regular), OneRequest
  PROVE  ApartSpec => []SameWhetherSwept
  <1>1. Init => ShownInv(Regular)
    BY ApartInvInit DEF Init, ShownInv, ShownAlike, RowsRegular, Alike, Idle
  <1>2. ShownInv(Regular) /\ [Next /\ Apart']_vars => (ShownInv(Regular))'
    BY ShownStep
  <1>3. ShownInv(Regular) => SameWhetherSwept
    <2>1. ShownInv(Regular) => today \in Days /\ today <= today
      BY DatesAssumption DEF ShownInv, ApartInv, TypeOK
    <2> QED
      BY <2>1 DEF ShownInv, ShownAlike, Alike, SameWhetherSwept
  <1> QED
    BY <1>1, <1>2, <1>3, PTL DEF ApartSpec
=============================================================================
