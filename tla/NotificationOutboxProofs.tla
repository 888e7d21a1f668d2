----------------------- MODULE NotificationOutboxProofs -----------------------
(***************************************************************************)
(* Proofs about NotificationOutbox for every number of reminders,          *)
(* processes and dispatchers and for every lease, backoff and retry limit  *)
(* that meets the assumptions of the module.                               *)
(***************************************************************************)
EXTENDS NotificationOutbox, TLAPS

-----------------------------------------------------------------------------
(* Types of the values the actions write. *)

LEMMA BackoffInNat ==
  ASSUME NEW attempt \in Nat
  PROVE  Backoff(attempt) \in Nat
<1>1. Len(BackoffSteps) \in Nat \ {0} /\ \A n \in 1..Len(BackoffSteps) : BackoffSteps[n] \in Nat
  BY NumbersAssumption
<1> QED
  BY <1>1 DEF Backoff

LEMMA ReleasedIsRow ==
  ASSUME TypeOK, NEW r \in Reminders, NEW status \in Open \cup Terminal
  PROVE  Released(r, status) \in Row
<1>1. row[r] \in Row
  BY DEF TypeOK
<1> QED
  BY <1>1 DEF Released, Row

LEMMA RetriedIsRow ==
  ASSUME TypeOK, NEW d \in Dispatchers, NEW r \in Reminders
  PROVE  Retried(d, r) \in Row
<1>1. Released(r, "pending") \in Row
  BY ReleasedIsRow DEF Open
<1>2. now \in Nat /\ job[d][r].attempt \in Nat
  BY DEF TypeOK, Job
<1>3. now + Backoff(job[d][r].attempt) \in Nat
  BY <1>2, BackoffInNat
<1> QED
  BY <1>1, <1>3 DEF Retried, Row

LEMMA TakenIsRow ==
  ASSUME TypeOK, NEW d \in Dispatchers, NEW r \in Reminders
  PROVE  Taken(d, r) \in Row
<1>1. row[r] \in Row /\ row[r].attempts + 1 \in Nat
  BY DEF TypeOK, Row
<1>2. InstanceOf[d] \in Instances /\ claimNow[d] + LeaseTTL \in Nat
  BY SetsAssumption, NumbersAssumption DEF TypeOK
<1> QED
  BY <1>1, <1>2 DEF Taken, Row, Open

LEMMA UpdateHeldType ==
  ASSUME TypeOK, NEW d \in Dispatchers, NEW r \in Reminders, NEW new \in Row,
         UpdateHeld(d, r, new)
  PROVE  row' \in [Reminders -> Row]
BY DEF TypeOK, UpdateHeld

LEMMA EndJobType ==
  ASSUME TypeOK, NEW d \in Dispatchers, NEW r \in Reminders, EndJob(d, r)
  PROVE  job' \in [Dispatchers -> [Reminders -> Job]]
<1>1. NoJob \in Job
  BY DEF NoJob, Job, Stage
<1> QED
  BY <1>1 DEF TypeOK, EndJob

LEMMA AdvanceType ==
  ASSUME TypeOK, NEW d \in Dispatchers, NEW r \in Reminders, NEW stage \in Stage,
         Advance(d, r, stage)
  PROVE  job' \in [Dispatchers -> [Reminders -> Job]]
<1>1. job[d] \in [Reminders -> Job] /\ job[d][r] \in Job
  BY DEF TypeOK
<1>2. [job[d][r] EXCEPT !.stage = stage] \in Job
  BY <1>1 DEF Job
<1> QED
  BY <1>1, <1>2 DEF TypeOK, Advance

-----------------------------------------------------------------------------
(* The type invariant. *)

LEMMA TypeInit == Init => TypeOK
BY SetsAssumption, NumbersAssumption
   DEF Init, TypeOK, NoRow, NoJob, Row, Job, Stage, Phase, Open, Terminal

LEMMA TypeStep == TypeOK /\ [Next]_vars => TypeOK'
<1> SUFFICES ASSUME TypeOK, [Next]_vars PROVE TypeOK'
  OBVIOUS
<1> USE DEF database, settings, process, scan, batch, history
<1>1. ASSUME NEW d \in Dispatchers, ScanBegin(d) PROVE TypeOK'
  BY <1>1 DEF ScanBegin, TypeOK, Phase
<1>2. ASSUME NEW d \in Dispatchers, NEW r \in Reminders, NEW c \in Channels, Enqueue(d, r, c)
      PROVE TypeOK'
  <2>1. ExpiryOf(r) \in Nat
    BY NumbersAssumption DEF ExpiryOf, TypeOK
  <2>2. [NoRow EXCEPT !.status = "pending", !.channel = c,
                      !.nextAttempt = now, !.expiresAt = ExpiryOf(r)] \in Row
    BY <2>1 DEF NoRow, Row, Open, TypeOK
  <2>3. row' \in [Reminders -> Row]
    BY <1>2, <2>2 DEF Enqueue, TypeOK
  <2>4. due' \in [Dispatchers -> SUBSET Reminders]
    BY <1>2 DEF Enqueue, TypeOK
  <2> QED
    BY <1>2, <2>3, <2>4 DEF Enqueue, TypeOK
<1>3. ASSUME NEW d \in Dispatchers, ScanFails(d) PROVE TypeOK'
  BY <1>3 DEF ScanFails, TypeOK
<1>4. ASSUME NEW d \in Dispatchers, Expire(d) PROVE TypeOK'
  <2>1. row' \in [Reminders -> Row]
    BY <1>4, ReleasedIsRow DEF Expire, TypeOK, Terminal
  <2> QED
    BY <1>4, <2>1 DEF Expire, TypeOK, Phase
<1>5. ASSUME NEW d \in Dispatchers, SelectCandidates(d) PROVE TypeOK'
  BY <1>5 DEF SelectCandidates, TypeOK, Phase
<1>6. ASSUME NEW d \in Dispatchers, NEW r \in Reminders, ClaimRow(d, r) PROVE TypeOK'
  <2>1. row' \in [Reminders -> Row]
    <3>1. CASE StillClaimable(r, claimNow[d])
      <4>1. Taken(d, r) \in Row
        BY TakenIsRow
      <4>2. row' = [row EXCEPT ![r] = Taken(d, r)]
        BY <1>6, <3>1 DEF ClaimRow
      <4> QED
        BY <4>1, <4>2 DEF TypeOK
    <3>2. CASE ~StillClaimable(r, claimNow[d])
      BY <1>6, <3>2 DEF ClaimRow, TypeOK
    <3> QED
      BY <3>1, <3>2
  <2>2. claimed' \in [Dispatchers -> SUBSET Reminders] /\ lapsed' \subseteq Reminders
    <3>1. CASE StillClaimable(r, claimNow[d])
      BY <1>6, <3>1 DEF ClaimRow, TypeOK
    <3>2. CASE ~StillClaimable(r, claimNow[d])
      BY <1>6, <3>2 DEF ClaimRow, TypeOK
    <3> QED
      BY <3>1, <3>2
  <2> QED
    BY <1>6, <2>1, <2>2 DEF ClaimRow, TypeOK
<1>7. ASSUME NEW d \in Dispatchers, LoadJobs(d) PROVE TypeOK'
  <2>1. \A r \in Reminders :
          [stage |-> "queued", attempt |-> row[r].attempts,
           channel |-> row[r].channel, expiresAt |-> row[r].expiresAt] \in Job
    BY DEF TypeOK, Row, Job, Stage
  <2>2. NoJob \in Job
    BY DEF NoJob, Job, Stage
  <2>3. job' \in [Dispatchers -> [Reminders -> Job]]
    BY <1>7, <2>1, <2>2 DEF LoadJobs, TypeOK
  <2> QED
    BY <1>7, <2>3 DEF LoadJobs, TypeOK, Phase
<1>8. ASSUME NEW d \in Dispatchers, TickFails(d) PROVE TypeOK'
  BY <1>8 DEF TickFails, TypeOK, Phase
<1>9. ASSUME NEW d \in Dispatchers, FinishBatch(d) PROVE TypeOK'
  BY <1>9 DEF FinishBatch, TypeOK, Phase
<1>10. ASSUME NEW d \in Dispatchers, NEW r \in Reminders, CheckDeliverable(d, r) PROVE TypeOK'
  <2>1. row' \in [Reminders -> Row]
    BY <1>10, ReleasedIsRow, UpdateHeldType DEF CheckDeliverable, TypeOK, Terminal
  <2>2. job' \in [Dispatchers -> [Reminders -> Job]]
    BY <1>10, EndJobType, AdvanceType DEF CheckDeliverable, Stage
  <2> QED
    BY <1>10, <2>1, <2>2 DEF CheckDeliverable, TypeOK
<1>11. ASSUME NEW d \in Dispatchers, NEW r \in Reminders, LoadChannel(d, r) PROVE TypeOK'
  <2>1. row' \in [Reminders -> Row]
    BY <1>11, ReleasedIsRow, UpdateHeldType DEF LoadChannel, TypeOK, Terminal
  <2>2. job' \in [Dispatchers -> [Reminders -> Job]]
    BY <1>11, EndJobType, AdvanceType DEF LoadChannel, Stage
  <2> QED
    BY <1>11, <2>1, <2>2 DEF LoadChannel, TypeOK
<1>12. ASSUME NEW d \in Dispatchers, NEW r \in Reminders, LookupFails(d, r) PROVE TypeOK'
  <2>1. row' \in [Reminders -> Row]
    BY <1>12, RetriedIsRow, UpdateHeldType DEF LookupFails
  <2>2. job' \in [Dispatchers -> [Reminders -> Job]]
    BY <1>12, EndJobType DEF LookupFails
  <2> QED
    BY <1>12, <2>1, <2>2 DEF LookupFails, TypeOK
<1>13. ASSUME NEW d \in Dispatchers, NEW r \in Reminders, Send(d, r) PROVE TypeOK'
  <2>1. job' \in [Dispatchers -> [Reminders -> Job]]
    BY <1>13, AdvanceType DEF Send, Stage
  <2>2. accepted' \in [Reminders -> Nat]
    <3>1. accepted \in [Reminders -> Nat] /\ accepted[r] + 1 \in Nat
      BY <1>13 DEF TypeOK
    <3>2. accepted' = [accepted EXCEPT ![r] = accepted[r] + 1] \/ accepted' = accepted
      BY <1>13 DEF Send
    <3> QED
      BY <3>1, <3>2
  <2> QED
    BY <1>13, <2>1, <2>2 DEF Send, TypeOK
<1>14. ASSUME NEW d \in Dispatchers, NEW r \in Reminders, MarkSent(d, r) PROVE TypeOK'
  <2>1. row' \in [Reminders -> Row]
    BY <1>14, ReleasedIsRow, UpdateHeldType DEF MarkSent, Terminal
  <2>2. job' \in [Dispatchers -> [Reminders -> Job]]
    BY <1>14, EndJobType DEF MarkSent
  <2>3. sentLog' \in [Reminders -> Nat]
    BY <1>14 DEF MarkSent, LogSent, TypeOK
  <2> QED
    BY <1>14, <2>1, <2>2, <2>3 DEF MarkSent, TypeOK
<1>15. ASSUME NEW d \in Dispatchers, NEW r \in Reminders, MarkFailed(d, r) PROVE TypeOK'
  <2>1. row' \in [Reminders -> Row]
    <3>1. Released(r, "failed") \in Row /\ Retried(d, r) \in Row
      BY ReleasedIsRow, RetriedIsRow DEF Terminal
    <3> QED
      BY <1>15, <3>1, UpdateHeldType DEF MarkFailed
  <2>2. job' \in [Dispatchers -> [Reminders -> Job]]
    BY <1>15, EndJobType DEF MarkFailed
  <2>3. failedLog' \in [Reminders -> Nat]
    BY <1>15 DEF MarkFailed, TypeOK
  <2> QED
    BY <1>15, <2>1, <2>2, <2>3 DEF MarkFailed, TypeOK
<1>16. ASSUME NEW d \in Dispatchers, NEW r \in Reminders, PersistFails(d, r) PROVE TypeOK'
  BY <1>16, EndJobType DEF PersistFails, TypeOK
<1>17. CASE Environment
  <2>1. CASE Tick
    BY <2>1 DEF Tick, TypeOK
  <2>2. ASSUME NEW i \in Instances, Start(i) PROVE TypeOK'
    BY <2>2 DEF Start, TypeOK
  <2>3. ASSUME NEW i \in Instances, Stop(i) PROVE TypeOK'
    <3>1. NoJob \in Job
      BY DEF NoJob, Job, Stage
    <3>2. job' \in [Dispatchers -> [Reminders -> Job]]
      BY <2>3, <3>1 DEF Stop, TypeOK
    <3> QED
      BY <2>3, <3>2 DEF Stop, TypeOK, Phase
  <2>4. ASSUME NEW r \in Reminders, ChangeSubscription(r) PROVE TypeOK'
    BY <2>4 DEF ChangeSubscription, TypeOK
  <2>5. ASSUME NEW c \in Channels, ChangeChannel(c) PROVE TypeOK'
    BY <2>5 DEF ChangeChannel, TypeOK
  <2>6. ASSUME NEW s \in Subscriptions, DeleteSubscription(s) PROVE TypeOK'
    <3>1. NoRow \in Row
      BY SetsAssumption DEF NoRow, Row
    <3> QED
      BY <2>6, <3>1 DEF DeleteSubscription, TypeOK
  <2> QED
    BY <1>17, <2>1, <2>2, <2>3, <2>4, <2>5, <2>6 DEF Environment
<1>18. CASE UNCHANGED vars
  BY <1>18 DEF vars, TypeOK
<1> QED
  BY <1>1, <1>2, <1>3, <1>4, <1>5, <1>6, <1>7, <1>8, <1>9, <1>10, <1>11, <1>12,
     <1>13, <1>14, <1>15, <1>16, <1>17, <1>18 DEF Next, Step, JobStep

\* Every variable keeps its type: no operation of the outbox writes a value the
\* columns and the workers do not expect.
THEOREM TypeCorrect == Spec => []TypeOK
BY TypeInit, TypeStep, PTL DEF Spec

-----------------------------------------------------------------------------
(* The steps that touch the tables. *)

LEMMA DatabaseSteps ==
  ASSUME [Next]_vars
  PROVE  \/ UNCHANGED <<row, sentLog, failedLog, deleted>>
         \/ \E d \in Dispatchers, r \in Reminders, c \in Channels : Enqueue(d, r, c)
         \/ \E d \in Dispatchers : Expire(d)
         \/ \E d \in Dispatchers, r \in Reminders :
              \/ ClaimRow(d, r) \/ CheckDeliverable(d, r) \/ LoadChannel(d, r)
              \/ LookupFails(d, r) \/ MarkSent(d, r) \/ MarkFailed(d, r)
         \/ \E s \in Subscriptions : DeleteSubscription(s)
<1> USE DEF database, settings, process, scan, batch, history
<1>1. CASE UNCHANGED vars
  BY <1>1 DEF vars
<1>2. CASE Environment
  BY <1>2 DEF Environment, Tick, Start, Stop, ChangeSubscription, ChangeChannel
<1>3. ASSUME NEW d \in Dispatchers,
             ScanBegin(d) \/ ScanFails(d) \/ SelectCandidates(d) \/ LoadJobs(d)
               \/ TickFails(d) \/ FinishBatch(d)
      PROVE  UNCHANGED <<row, sentLog, failedLog, deleted>>
  BY <1>3 DEF ScanBegin, ScanFails, SelectCandidates, LoadJobs, TickFails, FinishBatch
<1>4. ASSUME NEW d \in Dispatchers, NEW r \in Reminders, Send(d, r) \/ PersistFails(d, r)
      PROVE  UNCHANGED <<row, sentLog, failedLog, deleted>>
  BY <1>4 DEF Send, PersistFails
<1> QED
  BY <1>1, <1>2, <1>3, <1>4 DEF Next, Step, JobStep

\* A guarded UPDATE moves a row that was being processed and no other.
LEMMA UpdateHeldSteps ==
  ASSUME TypeOK, NEW d \in Dispatchers, NEW r \in Reminders, NEW new \in Row,
         UpdateHeld(d, r, new)
  PROVE  /\ \A q \in Reminders \ {r} : row'[q] = row[q]
         /\ ~Held(d, r) => row'[r] = row[r]
         /\ Held(d, r) => row[r].status = "processing" /\ row'[r] = new
BY DEF TypeOK, UpdateHeld, Held

LEMMA ReleasedStatus ==
  ASSUME TypeOK, NEW r \in Reminders, NEW status \in Open \cup Terminal
  PROVE  Released(r, status).status = status
<1>1. row[r] \in Row
  BY DEF TypeOK
<1> QED
  BY <1>1 DEF Released, Row

LEMMA RetriedFields ==
  ASSUME TypeOK, NEW d \in Dispatchers, NEW r \in Reminders
  PROVE  /\ Retried(d, r).status = "pending"
         /\ Retried(d, r).nextAttempt = now + Backoff(job[d][r].attempt)
<1>1. Released(r, "pending") \in Row /\ Released(r, "pending").status = "pending"
  BY ReleasedIsRow, ReleasedStatus DEF Open
<1> QED
  BY <1>1 DEF Retried, Row

LEMMA TakenFields ==
  ASSUME TypeOK, NEW d \in Dispatchers, NEW r \in Reminders
  PROVE  /\ Taken(d, r).status = "processing"
         /\ Taken(d, r).lockedUntil = claimNow[d] + LeaseTTL
<1>1. row[r] \in Row
  BY DEF TypeOK
<1> QED
  BY <1>1 DEF Taken, Row

\* What one job writes to a row it still holds: an end or a later try.
LEMMA JobWrites ==
  ASSUME TypeOK, NEW d \in Dispatchers, NEW r \in Reminders,
         CheckDeliverable(d, r) \/ LoadChannel(d, r) \/ LookupFails(d, r) \/ MarkFailed(d, r)
  PROVE  /\ \A q \in Reminders \ {r} : row'[q] = row[q]
         /\ \/ row'[r] = row[r]
            \/ /\ row[r].status = "processing"
               /\ \/ row'[r].status \in Terminal \ {"sent"}
                  \/ /\ row'[r].status = "pending"
                     /\ row'[r].nextAttempt = now + Backoff(job[d][r].attempt)
         /\ UNCHANGED <<now, sentLog, deleted, claimNow, claimed>>
<1> USE DEF settings, batch
<1>1. /\ Released(r, "expired") \in Row /\ Released(r, "expired").status = "expired"
      /\ Released(r, "cancelled") \in Row /\ Released(r, "cancelled").status = "cancelled"
      /\ Released(r, "failed") \in Row /\ Released(r, "failed").status = "failed"
      /\ Retried(d, r) \in Row
  BY ReleasedIsRow, ReleasedStatus, RetriedIsRow DEF Terminal
<1>2. CASE CheckDeliverable(d, r)
  BY <1>1, <1>2, UpdateHeldSteps DEF CheckDeliverable, Terminal
<1>3. CASE LoadChannel(d, r)
  BY <1>1, <1>3, UpdateHeldSteps DEF LoadChannel, Terminal
<1>4. CASE LookupFails(d, r)
  BY <1>1, <1>4, UpdateHeldSteps, RetriedFields DEF LookupFails
<1>5. CASE MarkFailed(d, r)
  <2>1. CASE Exhausted(d, r)
    BY <1>1, <1>5, <2>1, UpdateHeldSteps DEF MarkFailed, Terminal
  <2>2. CASE ~Exhausted(d, r)
    BY <1>1, <1>5, <2>2, UpdateHeldSteps, RetriedFields DEF MarkFailed
  <2>3. UNCHANGED <<now, sentLog, deleted, claimNow, claimed>>
    BY <1>5 DEF MarkFailed
  <2> QED
    BY <2>1, <2>2, <2>3
<1> QED
  BY <1>2, <1>3, <1>4, <1>5

-----------------------------------------------------------------------------
(* The log. *)

LEMMA SentLoggedInit == Init => SentLoggedOnce
BY DEF Init, SentLoggedOnce, NoRow

LEMMA SentLoggedStep == TypeOK /\ SentLoggedOnce /\ [Next]_vars => SentLoggedOnce'
<1> SUFFICES ASSUME TypeOK, SentLoggedOnce, [Next]_vars, NEW q \in Reminders
             PROVE  /\ sentLog'[q] <= 1
                    /\ row'[q].status = "sent" => sentLog'[q] = 1
                    /\ sentLog'[q] = 1 => row'[q].status \in {"none", "sent"}
  BY DEF SentLoggedOnce
<1>0. /\ sentLog[q] \in Nat /\ sentLog[q] <= 1
      /\ row[q].status = "sent" => sentLog[q] = 1
      /\ sentLog[q] = 1 => row[q].status \in {"none", "sent"}
  BY DEF TypeOK, SentLoggedOnce
<1>1. CASE UNCHANGED <<row, sentLog, failedLog, deleted>>
  BY <1>0, <1>1
<1>2. ASSUME NEW d \in Dispatchers, NEW r \in Reminders, NEW c \in Channels, Enqueue(d, r, c)
      PROVE  /\ sentLog'[q] = sentLog[q]
             /\ \/ row'[q] = row[q]
                \/ row'[q].status = "pending" /\ sentLog[q] = 0
  <2>1. [NoRow EXCEPT !.status = "pending", !.channel = c,
                      !.nextAttempt = now, !.expiresAt = ExpiryOf(r)].status = "pending"
    BY DEF NoRow
  <2> QED
    BY <1>0, <1>2, <2>1 DEF Enqueue, Conflicts, SentBefore, TypeOK
<1>3. ASSUME NEW d \in Dispatchers, Expire(d)
      PROVE  /\ sentLog'[q] = sentLog[q]
             /\ row'[q] = row[q] \/ (row[q].status \in Open /\ row'[q].status = "expired")
  BY <1>3, ReleasedStatus DEF Expire, Expirable, Terminal
<1>4. ASSUME NEW d \in Dispatchers, NEW r \in Reminders, ClaimRow(d, r)
      PROVE  /\ sentLog'[q] = sentLog[q]
             /\ row'[q] = row[q] \/ (row[q].status \in Open /\ row'[q].status = "processing")
  <2>1. CASE StillClaimable(r, claimNow[d])
    <3>1. row' = [row EXCEPT ![r] = Taken(d, r)] /\ row[r].status \in Open
      BY <1>4, <2>1 DEF ClaimRow, StillClaimable, Claimable
    <3> QED
      BY <1>4, <3>1, TakenFields DEF ClaimRow, TypeOK
  <2>2. CASE ~StillClaimable(r, claimNow[d])
    BY <1>4, <2>2 DEF ClaimRow
  <2> QED
    BY <2>1, <2>2
<1>5. ASSUME NEW d \in Dispatchers, NEW r \in Reminders,
             CheckDeliverable(d, r) \/ LoadChannel(d, r) \/ LookupFails(d, r) \/ MarkFailed(d, r)
      PROVE  /\ sentLog'[q] = sentLog[q]
             /\ \/ row'[q] = row[q]
                \/ /\ row[q].status = "processing"
                   /\ row'[q].status \in (Terminal \ {"sent"}) \cup {"pending"}
  BY <1>5, JobWrites
<1>6. ASSUME NEW d \in Dispatchers, NEW r \in Reminders, MarkSent(d, r)
      PROVE  \/ UNCHANGED <<row[q], sentLog[q]>>
             \/ /\ row[q].status = "processing" /\ row'[q].status = "sent"
                /\ sentLog'[q] = sentLog[q] + 1
  <2>1. Released(r, "sent") \in Row /\ Released(r, "sent").status = "sent"
    BY ReleasedIsRow, ReleasedStatus DEF Terminal
  <2>2. UpdateHeld(d, r, Released(r, "sent")) /\ LogSent(d, r)
    BY <1>6 DEF MarkSent
  <2> QED
    BY <2>1, <2>2, UpdateHeldSteps DEF LogSent, TypeOK
<1>7. ASSUME NEW s \in Subscriptions, DeleteSubscription(s)
      PROVE  \/ UNCHANGED <<row[q], sentLog[q]>>
             \/ row'[q].status = "none" /\ sentLog'[q] = 0
  BY <1>7 DEF DeleteSubscription, NoRow
<1> QED
  BY <1>0, <1>1, <1>2, <1>3, <1>4, <1>5, <1>6, <1>7, DatabaseSteps DEF Open, Terminal

\* A reminder is logged as sent at most once, and the log and the row always
\* agree: markNotificationOutboxSent writes both or neither, and no crash, lapsed
\* lease, sibling or late answer makes it write them twice.
THEOREM SentIsLoggedOnce == Spec => []SentLoggedOnce
BY TypeCorrect, SentLoggedInit, SentLoggedStep, PTL DEF Spec

-----------------------------------------------------------------------------
(* Settled rows. *)

LEMMA SettledStep ==
  TypeOK /\ [Next]_vars =>
    [\A r \in Reminders : row[r].status \in Terminal =>
       row'[r] = row[r] \/ SubscriptionOf[r] \in deleted' \ deleted]_vars
<1> SUFFICES ASSUME TypeOK, [Next]_vars, NEW q \in Reminders, row[q].status \in Terminal
             PROVE  row'[q] = row[q] \/ SubscriptionOf[q] \in deleted' \ deleted
  OBVIOUS
<1>1. ASSUME NEW d \in Dispatchers, NEW r \in Reminders, NEW c \in Channels, Enqueue(d, r, c)
      PROVE  row'[q] = row[q]
  BY <1>1 DEF Enqueue, Conflicts, Terminal, TypeOK
<1>2. ASSUME NEW d \in Dispatchers, Expire(d) PROVE row'[q] = row[q]
  BY <1>2 DEF Expire, Expirable, Open, Terminal
<1>3. ASSUME NEW d \in Dispatchers, NEW r \in Reminders, ClaimRow(d, r)
      PROVE  row'[q] = row[q]
  <2>1. CASE StillClaimable(r, claimNow[d])
    <3>1. row' = [row EXCEPT ![r] = Taken(d, r)] /\ row[r].status \in Open
      BY <1>3, <2>1 DEF ClaimRow, StillClaimable, Claimable
    <3> QED
      BY <3>1 DEF TypeOK, Open, Terminal
  <2>2. CASE ~StillClaimable(r, claimNow[d])
    BY <1>3, <2>2 DEF ClaimRow
  <2> QED
    BY <2>1, <2>2
<1>4. ASSUME NEW d \in Dispatchers, NEW r \in Reminders,
             CheckDeliverable(d, r) \/ LoadChannel(d, r) \/ LookupFails(d, r) \/ MarkFailed(d, r)
      PROVE  row'[q] = row[q]
  BY <1>4, JobWrites DEF Terminal
<1>5. ASSUME NEW d \in Dispatchers, NEW r \in Reminders, MarkSent(d, r)
      PROVE  row'[q] = row[q]
  <2>1. UpdateHeld(d, r, Released(r, "sent")) /\ Released(r, "sent") \in Row
    BY <1>5, ReleasedIsRow DEF MarkSent, Terminal
  <2> QED
    BY <2>1, UpdateHeldSteps DEF Terminal
<1>6. ASSUME NEW s \in Subscriptions, DeleteSubscription(s)
      PROVE  row'[q] = row[q] \/ SubscriptionOf[q] \in deleted' \ deleted
  BY <1>6 DEF DeleteSubscription
<1> QED
  BY <1>1, <1>2, <1>3, <1>4, <1>5, <1>6, DatabaseSteps

\* A row that was sent, failed, cancelled or expired is never written again: the
\* guard on locked_by and status stops every late outcome.
THEOREM SettledStaysSettled == Spec => SettledForGood
BY TypeCorrect, SettledStep, PTL DEF Spec, SettledForGood

-----------------------------------------------------------------------------
(* The lease. *)

LEMMA BackoffAtLeastLease ==
  ASSUME NEW attempt \in Nat
  PROVE  Backoff(attempt) >= LeaseTTL
<1>1. Len(BackoffSteps) \in Nat \ {0}
  BY NumbersAssumption
<1> QED
  BY <1>1, BackoffCoversLease DEF Backoff

LEMMA LeaseInit == Init => LeaseInv
BY DEF Init, LeaseInv, HeldInPhase, DeletedIsGone, HoldersGuarded, LeaseExclusive,
       Holds, NoJob

\* Who holds what changes only by a claim, and a holder's lease never moves.
LEMMA HoldSteps ==
  ASSUME TypeOK, HeldInPhase, [Next]_vars
  PROVE  /\ HeldInPhase'
         /\ now' >= now
         /\ \A d \in Dispatchers, r \in Reminders : Holds(d, r)' =>
              /\ claimNow'[d] = claimNow[d]
              /\ \/ Holds(d, r)
                 \/ /\ ClaimRow(d, r) /\ StillClaimable(r, claimNow[d])
<1> DEFINE Fact == /\ HeldInPhase'
                   /\ now' >= now
                   /\ \A d \in Dispatchers, r \in Reminders : Holds(d, r)' =>
                        /\ claimNow'[d] = claimNow[d]
                        /\ \/ Holds(d, r)
                           \/ /\ ClaimRow(d, r) /\ StillClaimable(r, claimNow[d])
<1> SUFFICES Fact
  OBVIOUS
<1>0. now \in Nat /\ \A d \in Dispatchers : claimNow[d] \in Nat
  BY DEF TypeOK
<1> USE DEF database, settings, process, scan, batch, history
<1>1. CASE UNCHANGED vars
  BY <1>0, <1>1 DEF vars, HeldInPhase, Holds
<1>2. CASE Environment
  <2>1. CASE Tick
    BY <1>0, <2>1 DEF Tick, HeldInPhase, Holds
  <2>2. ASSUME NEW i \in Instances, Stop(i) PROVE Fact
    BY <1>0, <2>2 DEF Stop, HeldInPhase, Holds, TypeOK, NoJob
  <2>3. ASSUME NEW i \in Instances, Start(i) PROVE Fact
    BY <1>0, <2>3 DEF Start, HeldInPhase, Holds
  <2>4. ASSUME NEW r \in Reminders, ChangeSubscription(r) PROVE Fact
    BY <1>0, <2>4 DEF ChangeSubscription, HeldInPhase, Holds
  <2>5. ASSUME NEW c \in Channels, ChangeChannel(c) PROVE Fact
    BY <1>0, <2>5 DEF ChangeChannel, HeldInPhase, Holds
  <2>6. ASSUME NEW s \in Subscriptions, DeleteSubscription(s) PROVE Fact
    BY <1>0, <2>6 DEF DeleteSubscription, HeldInPhase, Holds
  <2> QED
    BY <1>2, <2>1, <2>2, <2>3, <2>4, <2>5, <2>6 DEF Environment
<1>3. ASSUME NEW d \in Dispatchers, ScanBegin(d) PROVE Fact
  BY <1>0, <1>3 DEF ScanBegin, HeldInPhase, Holds, TypeOK
<1>4. ASSUME NEW d \in Dispatchers, NEW r \in Reminders, NEW c \in Channels, Enqueue(d, r, c)
      PROVE  Fact
  BY <1>0, <1>4 DEF Enqueue, HeldInPhase, Holds
<1>5. ASSUME NEW d \in Dispatchers, ScanFails(d) PROVE Fact
  BY <1>0, <1>5 DEF ScanFails, HeldInPhase, Holds
<1>6. ASSUME NEW d \in Dispatchers, Expire(d) PROVE Fact
  <2>1. phase[d] \notin {"claim", "run"}
    BY <1>6 DEF Expire, ReadyToDispatch
  <2> QED
    BY <1>0, <1>6, <2>1 DEF Expire, HeldInPhase, Holds, TypeOK
<1>7. ASSUME NEW d \in Dispatchers, SelectCandidates(d) PROVE Fact
  <2>1. claimed[d] = {} /\ \A r \in Reminders : job[d][r].stage = "none"
    BY <1>7 DEF SelectCandidates, HeldInPhase
  <2> QED
    BY <1>0, <1>7, <2>1 DEF SelectCandidates, HeldInPhase, Holds, TypeOK
<1>8. ASSUME NEW d \in Dispatchers, NEW r \in Reminders, ClaimRow(d, r) PROVE Fact
  <2>1. CASE StillClaimable(r, claimNow[d])
    <3>1. claimed' = [claimed EXCEPT ![d] = @ \cup {r}]
      BY <1>8, <2>1 DEF ClaimRow
    <3>2. UNCHANGED <<now, phase, claimNow, job>> /\ phase[d] = "claim"
      BY <1>8 DEF ClaimRow
    <3>3. HeldInPhase' /\ now' >= now
      BY <1>0, <3>1, <3>2 DEF HeldInPhase, TypeOK
    <3>4. ASSUME NEW e \in Dispatchers, NEW q \in Reminders, Holds(e, q)'
          PROVE  Holds(e, q) \/ (e = d /\ q = r)
      BY <3>1, <3>2, <3>4 DEF Holds, TypeOK
    <3> QED
      BY <1>8, <2>1, <3>2, <3>3, <3>4
  <2>2. CASE ~StillClaimable(r, claimNow[d])
    BY <1>0, <1>8, <2>2 DEF ClaimRow, HeldInPhase, Holds
  <2> QED
    BY <2>1, <2>2
<1>9. ASSUME NEW d \in Dispatchers, LoadJobs(d) PROVE Fact
  <2>1. \A e \in Dispatchers \ {d} : claimed'[e] = claimed[e] /\ job'[e] = job[e]
    BY <1>9 DEF LoadJobs, TypeOK
  <2>2. claimed'[d] = {} /\ phase'[d] = "run" /\ \A e \in Dispatchers \ {d} : phase'[e] = phase[e]
    BY <1>9 DEF LoadJobs, TypeOK
  <2>3. \A r \in Reminders : job'[d][r].stage # "none" => r \in claimed[d]
    BY <1>9 DEF LoadJobs, TypeOK, NoJob
  <2>4. UNCHANGED <<now, claimNow>>
    BY <1>9 DEF LoadJobs
  <2> QED
    BY <1>0, <2>1, <2>2, <2>3, <2>4 DEF HeldInPhase, Holds
<1>10. ASSUME NEW d \in Dispatchers, TickFails(d) PROVE Fact
  <2>1. \A r \in Reminders : job[d][r].stage = "none"
    BY <1>10 DEF TickFails, HeldInPhase
  <2>2. /\ phase' = [phase EXCEPT ![d] = "idle"] /\ claimed' = [claimed EXCEPT ![d] = {}]
        /\ claimNow' = [claimNow EXCEPT ![d] = 0] /\ UNCHANGED <<now, job>>
    BY <1>10 DEF TickFails
  <2>3. /\ phase'[d] = "idle" /\ claimed'[d] = {} /\ claimNow'[d] = 0
        /\ \A e \in Dispatchers \ {d} :
             phase'[e] = phase[e] /\ claimed'[e] = claimed[e] /\ claimNow'[e] = claimNow[e]
    BY <2>2 DEF TypeOK
  <2>4. HeldInPhase' /\ now' >= now
    BY <1>0, <2>1, <2>2, <2>3 DEF HeldInPhase
  <2> QED
    BY <2>1, <2>2, <2>3, <2>4 DEF Holds
<1>11. ASSUME NEW d \in Dispatchers, FinishBatch(d) PROVE Fact
  <2>1. claimed[d] = {}
    BY <1>11 DEF FinishBatch, HeldInPhase
  <2> QED
    BY <1>0, <1>11, <2>1 DEF FinishBatch, HeldInPhase, Holds, TypeOK
<1>12. ASSUME NEW d \in Dispatchers, NEW r \in Reminders, JobStep(d, r) PROVE Fact
  <2>1. UNCHANGED <<now, phase, claimNow, claimed>>
    BY <1>12 DEF JobStep, CheckDeliverable, LoadChannel, LookupFails, Send, MarkSent,
                 MarkFailed, PersistFails
  <2>2. job[d][r].stage # "none"
    BY <1>12 DEF JobStep, CheckDeliverable, LoadChannel, LookupFails, Send, MarkSent,
                 MarkFailed, PersistFails
  <2>3. EndJob(d, r) \/ \E stage \in Stage : Advance(d, r, stage)
    BY <1>12 DEF JobStep, CheckDeliverable, LoadChannel, LookupFails, Send, MarkSent,
                 MarkFailed, PersistFails, Stage
  <2>4. \A e \in Dispatchers, q \in Reminders :
          job'[e][q].stage # "none" => job[e][q].stage # "none"
    <3>1. job \in [Dispatchers -> [Reminders -> Job]]
      BY DEF TypeOK
    <3>2. CASE EndJob(d, r)
      BY <2>2, <3>1, <3>2 DEF EndJob, NoJob
    <3>3. ASSUME NEW stage \in Stage, Advance(d, r, stage)
          PROVE  \A e \in Dispatchers, q \in Reminders :
                   job'[e][q].stage # "none" => job[e][q].stage # "none"
      <4>1. \A e \in Dispatchers, q \in Reminders :
              e # d \/ q # r => job'[e][q] = job[e][q]
        BY <3>1, <3>3 DEF Advance
      <4> QED
        BY <2>2, <4>1
    <3> QED
      BY <2>3, <3>2, <3>3
  <2> QED
    BY <1>0, <2>1, <2>4 DEF HeldInPhase, Holds
<1> QED
  BY <1>1, <1>2, <1>3, <1>4, <1>5, <1>6, <1>7, <1>8, <1>9, <1>10, <1>11, <1>12
     DEF Next, Step

LEMMA GoneStep == TypeOK /\ DeletedIsGone /\ [Next]_vars => DeletedIsGone'
<1> SUFFICES ASSUME TypeOK, DeletedIsGone, [Next]_vars, NEW q \in Reminders,
                    SubscriptionOf[q] \in deleted'
             PROVE  row'[q] = NoRow
  BY DEF DeletedIsGone
<1> USE DEF settings
<1>0. SubscriptionOf[q] \in deleted => row[q] = NoRow /\ row[q].status = "none"
  BY DEF DeletedIsGone, NoRow
<1>1. CASE UNCHANGED <<row, sentLog, failedLog, deleted>>
  BY <1>0, <1>1
<1>2. ASSUME NEW d \in Dispatchers, NEW r \in Reminders, NEW c \in Channels, Enqueue(d, r, c)
      PROVE  row'[q] = NoRow
  BY <1>0, <1>2 DEF Enqueue, TypeOK
<1>3. ASSUME NEW d \in Dispatchers, Expire(d) PROVE row'[q] = NoRow
  BY <1>0, <1>3 DEF Expire, Expirable, Open
<1>4. ASSUME NEW d \in Dispatchers, NEW r \in Reminders, ClaimRow(d, r)
      PROVE  row'[q] = NoRow
  <2>1. CASE StillClaimable(r, claimNow[d])
    <3>1. row' = [row EXCEPT ![r] = Taken(d, r)] /\ row[r].status \in Open /\ UNCHANGED deleted
      BY <1>4, <2>1 DEF ClaimRow, StillClaimable, Claimable
    <3> QED
      BY <1>0, <3>1 DEF TypeOK, Open
  <2>2. CASE ~StillClaimable(r, claimNow[d])
    BY <1>0, <1>4, <2>2 DEF ClaimRow
  <2> QED
    BY <2>1, <2>2
<1>5. ASSUME NEW d \in Dispatchers, NEW r \in Reminders,
             CheckDeliverable(d, r) \/ LoadChannel(d, r) \/ LookupFails(d, r) \/ MarkFailed(d, r)
      PROVE  row'[q] = NoRow
  BY <1>0, <1>5, JobWrites
<1>6. ASSUME NEW d \in Dispatchers, NEW r \in Reminders, MarkSent(d, r)
      PROVE  row'[q] = NoRow
  <2>1. /\ UpdateHeld(d, r, Released(r, "sent")) /\ Released(r, "sent") \in Row
        /\ UNCHANGED deleted
    BY <1>6, ReleasedIsRow DEF MarkSent, Terminal
  <2> QED
    BY <1>0, <2>1, UpdateHeldSteps
<1>7. ASSUME NEW s \in Subscriptions, DeleteSubscription(s) PROVE row'[q] = NoRow
  BY <1>0, <1>7 DEF DeleteSubscription
<1> QED
  BY <1>1, <1>2, <1>3, <1>4, <1>5, <1>6, <1>7, DatabaseSteps

\* Nobody can take the row of a lease that runs: the claiming UPDATE compares the
\* lock and the next attempt with an instant that is not in the future.
LEMMA GuardedIsNotClaimable ==
  ASSUME TypeOK, HeldInPhase, DeletedIsGone,
         NEW d \in Dispatchers, NEW r \in Reminders, NEW until \in Nat,
         now < until, Guarded(r, until)
  PROVE  ~StillClaimable(r, claimNow[d])
<1>1. /\ claimNow[d] \in Nat /\ now \in Nat /\ claimNow[d] <= now
      /\ row[r].lockedUntil \in Nat /\ row[r].nextAttempt \in Nat
  BY DEF TypeOK, HeldInPhase, Row
<1>2. SubscriptionOf[r] \in deleted => row[r].status = "none"
  BY DEF DeletedIsGone, NoRow
<1> QED
  BY <1>1, <1>2 DEF Guarded, StillClaimable, Claimable, Open, Terminal

LEMMA GuardedStep ==
  ASSUME TypeOK, HeldInPhase, DeletedIsGone, [Next]_vars,
         NEW q \in Reminders, NEW until \in Nat,
         now < until, until <= now + LeaseTTL, Guarded(q, until)
  PROVE  Guarded(q, until)'
<1> USE DEF settings
<1>0. now \in Nat /\ LeaseTTL \in Nat
  BY NumbersAssumption DEF TypeOK
<1>1. CASE UNCHANGED <<row, sentLog, failedLog, deleted>>
  BY <1>1 DEF Guarded
<1>2. ASSUME NEW d \in Dispatchers, NEW r \in Reminders, NEW c \in Channels, Enqueue(d, r, c)
      PROVE  Guarded(q, until)'
  BY <1>2 DEF Enqueue, Conflicts, Guarded, Terminal, TypeOK
<1>3. ASSUME NEW d \in Dispatchers, Expire(d) PROVE Guarded(q, until)'
  <2>1. /\ UNCHANGED deleted
        /\ row'[q] = IF Expirable(q) THEN Released(q, "expired") ELSE row[q]
    BY <1>3 DEF Expire
  <2>2. Released(q, "expired").status = "expired"
    BY ReleasedStatus DEF Terminal
  <2> QED
    BY <2>1, <2>2 DEF Guarded, Terminal
<1>4. ASSUME NEW d \in Dispatchers, NEW r \in Reminders, ClaimRow(d, r)
      PROVE  Guarded(q, until)'
  <2>1. UNCHANGED deleted
    BY <1>4 DEF ClaimRow
  <2>2. row'[q] = row[q]
    <3>1. CASE r = q
      BY <1>4, <3>1, GuardedIsNotClaimable DEF ClaimRow
    <3>2. CASE r # q
      BY <1>4, <3>2 DEF ClaimRow, TypeOK
    <3> QED
      BY <3>1, <3>2
  <2> QED
    BY <2>1, <2>2 DEF Guarded
<1>5. ASSUME NEW d \in Dispatchers, NEW r \in Reminders,
             CheckDeliverable(d, r) \/ LoadChannel(d, r) \/ LookupFails(d, r) \/ MarkFailed(d, r)
      PROVE  Guarded(q, until)'
  <2>1. job[d][r].attempt \in Nat
    BY DEF TypeOK, Job
  <2>2. Backoff(job[d][r].attempt) \in Nat /\ Backoff(job[d][r].attempt) >= LeaseTTL
    BY <2>1, BackoffInNat, BackoffAtLeastLease
  <2>3. UNCHANGED deleted
    BY <1>5, JobWrites
  <2>4. \/ row'[q] = row[q]
        \/ row'[q].status \in Terminal
        \/ /\ row'[q].status = "pending"
           /\ row'[q].nextAttempt = now + Backoff(job[d][r].attempt)
    BY <1>5, JobWrites
  <2>5. now + Backoff(job[d][r].attempt) >= until
    BY <1>0, <2>2
  <2> QED
    BY <2>3, <2>4, <2>5 DEF Guarded
<1>6. ASSUME NEW d \in Dispatchers, NEW r \in Reminders, MarkSent(d, r)
      PROVE  Guarded(q, until)'
  <2>1. /\ UpdateHeld(d, r, Released(r, "sent")) /\ Released(r, "sent") \in Row
        /\ Released(r, "sent").status = "sent" /\ UNCHANGED deleted
    BY <1>6, ReleasedIsRow, ReleasedStatus DEF MarkSent, Terminal
  <2>2. row'[q] = row[q] \/ row'[q].status = "sent"
    BY <2>1, UpdateHeldSteps
  <2> QED
    BY <2>1, <2>2 DEF Guarded, Terminal
<1>7. ASSUME NEW s \in Subscriptions, DeleteSubscription(s) PROVE Guarded(q, until)'
  BY <1>7 DEF DeleteSubscription, Guarded
<1> QED
  BY <1>1, <1>2, <1>3, <1>4, <1>5, <1>6, <1>7, DatabaseSteps

LEMMA LeaseStep == TypeOK /\ LeaseInv /\ [Next]_vars => LeaseInv'
<1> SUFFICES ASSUME TypeOK, LeaseInv, [Next]_vars PROVE LeaseInv'
  OBVIOUS
<1>0. HeldInPhase /\ DeletedIsGone /\ HoldersGuarded /\ LeaseExclusive /\ TypeOK'
  BY TypeStep DEF LeaseInv
<1>1. HeldInPhase' /\ DeletedIsGone'
  BY <1>0, HoldSteps, GoneStep
<1>2. ASSUME NEW d \in Dispatchers, NEW r \in Reminders, Holds(d, r)', LeaseRuns(d)'
      PROVE  /\ LeaseRuns(d) /\ claimNow'[d] = claimNow[d]
             /\ claimNow[d] + LeaseTTL \in Nat /\ now < claimNow[d] + LeaseTTL
             /\ claimNow[d] + LeaseTTL <= now + LeaseTTL
  <2>1. claimNow'[d] = claimNow[d] /\ now' >= now
    BY <1>0, <1>2, HoldSteps
  <2>2. /\ now \in Nat /\ now' \in Nat /\ claimNow[d] \in Nat /\ claimNow[d] <= now
        /\ LeaseTTL \in Nat
    BY <1>0, NumbersAssumption DEF TypeOK, HeldInPhase
  <2> QED
    BY <1>2, <2>1, <2>2 DEF LeaseRuns
<1>3. ASSUME NEW d \in Dispatchers, NEW r \in Reminders, Holds(d, r)', LeaseRuns(d)', Holds(d, r)
      PROVE  Guarded(r, claimNow[d] + LeaseTTL) /\ Guarded(r, claimNow[d] + LeaseTTL)'
  <2>1. /\ LeaseRuns(d) /\ claimNow'[d] = claimNow[d]
        /\ claimNow[d] + LeaseTTL \in Nat /\ now < claimNow[d] + LeaseTTL
        /\ claimNow[d] + LeaseTTL <= now + LeaseTTL
    BY <1>2, <1>3
  <2>2. Guarded(r, claimNow[d] + LeaseTTL)
    BY <1>0, <1>3, <2>1 DEF HoldersGuarded
  <2> DEFINE u == claimNow[d] + LeaseTTL
  <2>3. u \in Nat /\ now < u /\ u <= now + LeaseTTL /\ Guarded(r, u)
    BY <2>1, <2>2
  <2>4. u' = u
    BY <2>1
  <2> HIDE DEF u
  <2>5. \A v \in Nat : now < v /\ v <= now + LeaseTTL /\ Guarded(r, v) => Guarded(r, v)'
    BY <1>0, GuardedStep
  <2>6. Guarded(r, u)'
    BY <2>3, <2>4, <2>5 DEF Guarded
  <2> QED
    BY <2>2, <2>6 DEF u
<1>4. HoldersGuarded'
  <2> SUFFICES ASSUME NEW d \in Dispatchers, NEW r \in Reminders, Holds(d, r)', LeaseRuns(d)'
               PROVE  Guarded(r, claimNow[d] + LeaseTTL)'
    BY DEF HoldersGuarded
  <2>1. CASE Holds(d, r)
    BY <1>3, <2>1
  <2>2. CASE ~Holds(d, r)
    <3>1. ClaimRow(d, r) /\ StillClaimable(r, claimNow[d]) /\ claimNow'[d] = claimNow[d]
      BY <1>0, <2>2, HoldSteps
    <3>2. row'[r] = Taken(d, r)
      BY <1>0, <3>1 DEF ClaimRow, TypeOK
    <3>3. row'[r].status = "processing" /\ row'[r].lockedUntil = claimNow[d] + LeaseTTL
      BY <1>0, <3>2, TakenFields
    <3>4. claimNow[d] + LeaseTTL \in Nat
      BY <1>2
    <3> QED
      BY <3>1, <3>3, <3>4 DEF Guarded
  <2> QED
    BY <2>1, <2>2
<1>5. LeaseExclusive'
  <2> SUFFICES ASSUME NEW d \in Dispatchers, NEW e \in Dispatchers, NEW r \in Reminders,
                      Holds(d, r)', Holds(e, r)', LeaseRuns(d)', LeaseRuns(e)'
               PROVE  d = e
    BY DEF LeaseExclusive
  <2>1. LeaseRuns(d) /\ LeaseRuns(e)
    BY <1>2
  <2>2. CASE Holds(d, r) /\ Holds(e, r)
    BY <1>0, <2>1, <2>2 DEF LeaseExclusive
  <2>3. ASSUME NEW a \in {d, e}, NEW b \in {d, e}, ~Holds(a, r), Holds(b, r)
        PROVE  FALSE
    <3>1. StillClaimable(r, claimNow[a])
      BY <1>0, <2>3, HoldSteps
    <3>2. /\ Guarded(r, claimNow[b] + LeaseTTL) /\ claimNow[b] + LeaseTTL \in Nat
          /\ now < claimNow[b] + LeaseTTL
      BY <1>2, <1>3, <2>3
    <3> QED
      BY <1>0, <3>1, <3>2, GuardedIsNotClaimable
  <2>4. CASE ~Holds(d, r) /\ ~Holds(e, r)
    <3>1. /\ claimed' = [claimed EXCEPT ![d] = @ \cup {r}]
          /\ claimed' = [claimed EXCEPT ![e] = @ \cup {r}]
      BY <1>0, <2>4, HoldSteps DEF ClaimRow
    <3>2. r \notin claimed[e]
      BY <2>4 DEF Holds
    <3> QED
      BY <1>0, <3>1, <3>2 DEF TypeOK
  <2> QED
    BY <2>2, <2>3, <2>4
<1> QED
  BY <1>1, <1>4, <1>5 DEF LeaseInv

\* While the lease of a claim runs, its dispatcher is alone with the row, even
\* among goroutines that share an owner id.  The proof needs the retry delays to
\* cover the lease: a late failure of an older claim frees the row, but not before
\* the younger claim's lease is over.
THEOREM LeaseIsExclusive == Spec => []LeaseExclusive
<1>1. TypeOK /\ LeaseInv /\ [Next]_vars => TypeOK' /\ LeaseInv'
  BY TypeStep, LeaseStep
<1>2. Init => TypeOK /\ LeaseInv
  BY TypeInit, LeaseInit
<1>3. LeaseInv => LeaseExclusive
  BY DEF LeaseInv
<1> QED
  BY <1>1, <1>2, <1>3, PTL DEF Spec

-----------------------------------------------------------------------------
(* The outbox implements the abstract delivery. *)

\* The database part of the refinement: what each step shows of a reminder.
LEMMA DeliveryStep ==
  TypeOK /\ DeletedIsGone /\ SentLoggedOnce /\ [Next]_vars => [Delivery!Next]_(Delivery!vars)
<1> SUFFICES ASSUME TypeOK, DeletedIsGone, SentLoggedOnce, [Next]_vars
             PROVE  Delivery!Next \/ UNCHANGED Delivery!vars
  BY DEF Delivery!vars
<1> DEFINE state == [r \in Reminders |-> Progress(r)]
<1> USE DEF settings
<1>0. \A r \in Reminders : SubscriptionOf[r] \in deleted => row[r].status = "none"
  BY DEF DeletedIsGone, NoRow
<1>1. CASE UNCHANGED <<row, sentLog, failedLog, deleted>>
  BY <1>1 DEF Delivery!vars, Progress
<1>2. ASSUME NEW d \in Dispatchers, NEW r \in Reminders, NEW c \in Channels, Enqueue(d, r, c)
      PROVE  Delivery!TakeUp(r) \/ UNCHANGED Delivery!vars
  <2>1. UNCHANGED <<sentLog, deleted>>
    BY <1>2 DEF Enqueue
  <2>2. CASE row' = row
    BY <2>1, <2>2 DEF Delivery!vars, Progress
  <2>3. CASE row' # row
    <3>1. /\ ~SentBefore(r) /\ row[r].status = "none" /\ SubscriptionOf[r] \notin deleted
          /\ row' = [row EXCEPT ![r] = [NoRow EXCEPT
                      !.status = "pending", !.channel = c,
                      !.nextAttempt = now, !.expiresAt = ExpiryOf(r)]]
      BY <1>2, <2>3 DEF Enqueue, Conflicts
    <3>2. row'[r].status = "pending" /\ \A q \in Reminders \ {r} : row'[q] = row[q]
      BY <3>1 DEF TypeOK, NoRow
    <3>3. sentLog[r] = 0
      BY <3>1 DEF SentBefore, TypeOK
    <3>4. state[r] = "absent" /\ state'[r] = "open"
      BY <2>1, <3>1, <3>2 DEF Progress, Open
    <3>5. \A q \in Reminders \ {r} : state'[q] = state[q]
      BY <2>1, <3>2 DEF Progress
    <3>6. state' = [state EXCEPT ![r] = "open"]
      BY <3>4, <3>5
    <3> QED
      BY <2>1, <3>3, <3>4, <3>6 DEF Delivery!TakeUp
  <2> QED
    BY <2>2, <2>3
<1>3. ASSUME NEW d \in Dispatchers, Expire(d)
      PROVE  \E S \in SUBSET Reminders : Delivery!Drop(S)
  <2> DEFINE S == {r \in Reminders : Expirable(r)}
  <2>1. UNCHANGED <<sentLog, deleted>>
    BY <1>3 DEF Expire
  <2>2. \A r \in Reminders :
          row'[r] = IF r \in S THEN Released(r, "expired") ELSE row[r]
    BY <1>3 DEF Expire
  <2>3. \A r \in S : state[r] = "open" /\ state'[r] = "dropped"
    BY <1>0, <2>1, <2>2, ReleasedStatus DEF Progress, Expirable, Open, Terminal
  <2>4. \A r \in Reminders \ S : state'[r] = state[r]
    BY <2>1, <2>2 DEF Progress
  <2>5. state' = [r \in Reminders |-> IF r \in S THEN "dropped" ELSE state[r]]
    BY <2>3, <2>4
  <2> QED
    BY <2>1, <2>3, <2>5 DEF Delivery!Drop
<1>4. ASSUME NEW d \in Dispatchers, NEW r \in Reminders, ClaimRow(d, r)
      PROVE  UNCHANGED Delivery!vars
  <2>1. UNCHANGED <<sentLog, deleted>>
    BY <1>4 DEF ClaimRow
  <2>2. CASE StillClaimable(r, claimNow[d])
    <3>1. row' = [row EXCEPT ![r] = Taken(d, r)] /\ row[r].status \in Open
      BY <1>4, <2>2 DEF ClaimRow, StillClaimable, Claimable
    <3>2. \A q \in Reminders : row'[q].status = row[q].status
                               \/ (row[q].status \in Open /\ row'[q].status \in Open)
      BY <3>1, TakenFields DEF TypeOK, Open
    <3> QED
      BY <2>1, <3>2 DEF Delivery!vars, Progress, Open
  <2>3. CASE ~StillClaimable(r, claimNow[d])
    BY <1>4, <2>1, <2>3 DEF ClaimRow, Delivery!vars, Progress
  <2> QED
    BY <2>2, <2>3
<1>5. ASSUME NEW d \in Dispatchers, NEW r \in Reminders,
             CheckDeliverable(d, r) \/ LoadChannel(d, r) \/ LookupFails(d, r) \/ MarkFailed(d, r)
      PROVE  (\E S \in SUBSET Reminders : Delivery!Drop(S)) \/ UNCHANGED Delivery!vars
  <2>1. /\ UNCHANGED <<sentLog, deleted>>
        /\ \A q \in Reminders \ {r} : row'[q] = row[q]
        /\ \/ row'[r] = row[r]
           \/ /\ row[r].status = "processing"
              /\ row'[r].status \in (Terminal \ {"sent"}) \cup {"pending"}
    BY <1>5, JobWrites
  <2>2. \A q \in Reminders \ {r} : state'[q] = state[q]
    BY <2>1 DEF Progress
  <2>3. CASE state'[r] = state[r]
    BY <2>1, <2>2, <2>3 DEF Delivery!vars
  <2>4. CASE state'[r] # state[r]
    <3>1. state[r] = "open" /\ state'[r] = "dropped"
      BY <1>0, <2>1, <2>4 DEF Progress, Open, Terminal
    <3>2. state' = [q \in Reminders |-> IF q \in {r} THEN "dropped" ELSE state[q]]
      BY <2>2, <3>1
    <3>3. Delivery!Drop({r})
      BY <2>1, <3>1, <3>2 DEF Delivery!Drop
    <3> QED
      BY <3>3
  <2> QED
    BY <2>3, <2>4
<1>6. ASSUME NEW d \in Dispatchers, NEW r \in Reminders, MarkSent(d, r)
      PROVE  Delivery!Deliver(r) \/ UNCHANGED Delivery!vars
  <2>1. /\ UpdateHeld(d, r, Released(r, "sent")) /\ LogSent(d, r) /\ UNCHANGED deleted
        /\ Released(r, "sent") \in Row /\ Released(r, "sent").status = "sent"
    BY <1>6, ReleasedIsRow, ReleasedStatus DEF MarkSent, Terminal
  <2>2. CASE Held(d, r)
    <3>1. /\ row[r].status = "processing" /\ row'[r].status = "sent"
          /\ \A q \in Reminders \ {r} : row'[q] = row[q]
      BY <2>1, <2>2, UpdateHeldSteps
    <3>2. sentLog[r] = 0
      <4>1. sentLog[r] \in Nat /\ sentLog[r] <= 1 /\ sentLog[r] # 1
        BY <3>1 DEF SentLoggedOnce, TypeOK
      <4> QED
        BY <4>1
    <3>3. sentLog' = [sentLog EXCEPT ![r] = 1]
      BY <2>1, <2>2, <3>2 DEF LogSent, TypeOK
    <3>4. state[r] = "open" /\ state'[r] = "delivered"
      BY <1>0, <2>1, <3>1 DEF Progress, Open
    <3>5. \A q \in Reminders \ {r} : state'[q] = state[q]
      BY <2>1, <3>1 DEF Progress
    <3>6. state' = [state EXCEPT ![r] = "delivered"]
      BY <3>4, <3>5
    <3> QED
      BY <3>2, <3>3, <3>4, <3>6 DEF Delivery!Deliver
  <2>3. CASE ~Held(d, r)
    BY <2>1, <2>3 DEF UpdateHeld, LogSent, Delivery!vars, Progress
  <2> QED
    BY <2>2, <2>3
<1>7. ASSUME NEW s \in Subscriptions, DeleteSubscription(s)
      PROVE  \E S \in SUBSET Reminders : Delivery!Vanish(S)
  <2> DEFINE S == {r \in Reminders : SubscriptionOf[r] = s}
  <2>1. /\ deleted' = deleted \cup {s}
        /\ \A r \in Reminders \ S : row'[r] = row[r]
        /\ sentLog' = [r \in Reminders |-> IF r \in S THEN 0 ELSE sentLog[r]]
    BY <1>7 DEF DeleteSubscription
  <2>2. state' = [r \in Reminders |-> IF r \in S THEN "gone" ELSE state[r]]
    BY <2>1 DEF Progress
  <2> QED
    BY <2>1, <2>2 DEF Delivery!Vanish
<1> QED
  BY <1>1, <1>2, <1>3, <1>4, <1>5, <1>6, <1>7, DatabaseSteps DEF Delivery!Next

LEMMA DeliveryInit == Init => Delivery!Init
BY DEF Init, Delivery!Init, Progress, NoRow

\* Scans, claims, crashes and retries together implement the abstract delivery:
\* every step takes up, delivers, drops or deletes reminders, or changes nothing
\* a user could see.
THEOREM OutboxDelivers == Spec => DeliveryPromise
<1>1. TypeOK /\ LeaseInv /\ SentLoggedOnce /\ [Next]_vars
        => TypeOK' /\ LeaseInv' /\ SentLoggedOnce'
  BY TypeStep, LeaseStep, SentLoggedStep
<1>2. Init => TypeOK /\ LeaseInv /\ SentLoggedOnce
  BY TypeInit, LeaseInit, SentLoggedInit
<1>3. TypeOK /\ LeaseInv /\ SentLoggedOnce /\ [Next]_vars => [Delivery!Next]_(Delivery!vars)
  BY DeliveryStep DEF LeaseInv
<1> QED
  BY <1>1, <1>2, <1>3, DeliveryInit, PTL DEF Spec, DeliveryPromise, Delivery!Spec

-----------------------------------------------------------------------------
(* Duplicates. *)

\* Nothing opens the row again.
Settled(r) == row[r].status \in Terminal \/ SubscriptionOf[r] \in deleted

\* As long as no claim on r was taken from a lapsed holder it has one holder at most, whose
\* claim is the one in the row, and what was accepted is not pending again.
OnceFor(r) ==
  /\ \A d, e \in Dispatchers : Holds(d, r) /\ Holds(e, r) => d = e
  /\ \A d \in Dispatchers : Holds(d, r) => Held(d, r) \/ Settled(r)
  /\ accepted[r] \in {0, 1}
  /\ accepted[r] = 1 =>
       /\ row[r].status = "processing" \/ Settled(r)
       /\ \A d \in Dispatchers : r \notin claimed[d] /\ job[d][r].stage \in {"none", "accepted"}

DuplicateInv == HeldInPhase /\ DeletedIsGone /\ \A r \in Reminders \ lapsed : OnceFor(r)

\* A step that neither delivers r nor gives it a holder, and that leaves its row or settles it.
LEMMA QuietFor ==
  ASSUME NEW r \in Reminders, OnceFor(r), Settled(r) => Settled(r)', row'[r] = row[r] \/ Settled(r)',
         accepted'[r] = accepted[r],
         \A d \in Dispatchers :
           /\ Holds(d, r)' => Holds(d, r)
           /\ r \in claimed'[d] => r \in claimed[d]
           /\ job'[d][r].stage \notin {"none", "accepted"} =>
                r \in claimed[d] \/ job[d][r].stage \notin {"none", "accepted"}
  PROVE  OnceFor(r)'
<1>1. Settled(r)' \/ \A d \in Dispatchers : Held(d, r)' <=> Held(d, r)
  BY DEF Held
<1>2. \A d, e \in Dispatchers : Holds(d, r)' /\ Holds(e, r)' => d = e
  BY DEF OnceFor
<1>3. \A d \in Dispatchers : Holds(d, r)' => Held(d, r)' \/ Settled(r)'
  BY <1>1 DEF OnceFor
<1>4. accepted'[r] = 1 =>
       /\ row'[r].status = "processing" \/ Settled(r)'
       /\ \A d \in Dispatchers : r \notin claimed'[d] /\ job'[d][r].stage \in {"none", "accepted"}
  BY DEF OnceFor
<1> QED
  BY <1>2, <1>3, <1>4 DEF OnceFor

\* A row that is pending or absent has no holder and was not accepted.
LEMMA NobodyHolds ==
  ASSUME DeletedIsGone, NEW r \in Reminders, OnceFor(r),
         row[r].status = "pending" \/ (row[r].status = "none" /\ SubscriptionOf[r] \notin deleted)
  PROVE  accepted[r] = 0 /\ \A d \in Dispatchers : ~Holds(d, r)
<1>1. SubscriptionOf[r] \in deleted => row[r].status = "none"
  BY DEF DeletedIsGone, NoRow
<1>2. ~Settled(r) /\ row[r].status # "processing"
  BY <1>1 DEF Settled, Terminal
<1> QED
  BY <1>2 DEF OnceFor, Held

\* Around the dispatchers, and the steps of a tick that take no row.
LEMMA OnceOtherwise ==
  ASSUME TypeOK, HeldInPhase, NEW r \in Reminders, OnceFor(r),
         \/ Environment \/ UNCHANGED vars
         \/ \E d \in Dispatchers : \/ ScanBegin(d) \/ ScanFails(d) \/ Expire(d) \/ SelectCandidates(d)
                                   \/ LoadJobs(d) \/ TickFails(d) \/ FinishBatch(d)
  PROVE  OnceFor(r)'
<1> USE DEF database, settings, process, scan, batch, history
<1>1. CASE Tick \/ (\E i \in Instances : Start(i)) \/ (\E q \in Reminders : ChangeSubscription(q))
           \/ (\E c \in Channels : ChangeChannel(c)) \/ UNCHANGED vars
  <2>1. UNCHANGED <<row, deleted, accepted, claimed, job>>
    BY <1>1 DEF Tick, Start, ChangeSubscription, ChangeChannel, vars
  <2> QED
    BY <2>1, QuietFor DEF Settled, Holds
<1>2. ASSUME NEW i \in Instances, Stop(i) PROVE OnceFor(r)'
  <2>1. UNCHANGED <<row, deleted, accepted>>
    BY <1>2 DEF Stop
  <2>2. \A d \in Dispatchers : /\ claimed'[d] = claimed[d] \/ claimed'[d] = {}
                               /\ job'[d][r] = job[d][r] \/ job'[d][r].stage = "none"
    BY <1>2 DEF Stop, NoJob
  <2> QED
    BY <2>1, <2>2, QuietFor DEF Settled, Holds
<1>3. ASSUME NEW s \in Subscriptions, DeleteSubscription(s) PROVE OnceFor(r)'
  <2>1. UNCHANGED <<accepted, claimed, job>> /\ deleted' = deleted \cup {s}
    BY <1>3 DEF DeleteSubscription
  <2>2. row'[r] = row[r] \/ Settled(r)'
    BY <1>3, <2>1 DEF DeleteSubscription, Settled
  <2>3. Settled(r) => Settled(r)'
    BY <2>1, <2>2 DEF Settled
  <2> QED
    BY <2>1, <2>2, <2>3, QuietFor DEF Holds
<1>4. ASSUME NEW d \in Dispatchers, ScanBegin(d) \/ ScanFails(d) \/ SelectCandidates(d) \/ FinishBatch(d)
      PROVE  OnceFor(r)'
  <2>1. UNCHANGED <<row, deleted, accepted, claimed, job>>
    BY <1>4 DEF ScanBegin, ScanFails, SelectCandidates, FinishBatch
  <2> QED
    BY <2>1, QuietFor DEF Settled, Holds
<1>5. ASSUME NEW d \in Dispatchers, Expire(d) PROVE OnceFor(r)'
  <2>1. UNCHANGED <<deleted, accepted, claimed, job>>
    BY <1>5 DEF Expire
  <2>2. row'[r] = IF Expirable(r) THEN Released(r, "expired") ELSE row[r]
    BY <1>5 DEF Expire
  <2>3. row'[r] = row[r] \/ row'[r].status = "expired"
    BY <2>2, ReleasedStatus DEF Terminal
  <2> QED
    BY <2>1, <2>3, QuietFor DEF Settled, Holds, Terminal
<1>6. ASSUME NEW d \in Dispatchers, LoadJobs(d) PROVE OnceFor(r)'
  <2>1. UNCHANGED <<row, deleted, accepted>>
    BY <1>6 DEF LoadJobs
  <2>2. \A e \in Dispatchers : /\ claimed'[e] = claimed[e] \/ claimed'[e] = {}
                               /\ e # d => job'[e] = job[e]
    BY <1>6 DEF LoadJobs, TypeOK
  <2>3. job'[d][r].stage = "none" \/ r \in claimed[d]
    BY <1>6 DEF LoadJobs, TypeOK, NoJob
  <2> QED
    BY <2>1, <2>2, <2>3, QuietFor DEF Settled, Holds
<1>7. ASSUME NEW d \in Dispatchers, TickFails(d) PROVE OnceFor(r)'
  <2>1. UNCHANGED <<row, deleted, accepted, job>>
    BY <1>7 DEF TickFails
  <2>2. \A e \in Dispatchers : claimed'[e] = claimed[e] \/ claimed'[e] = {}
    BY <1>7 DEF TickFails, TypeOK
  <2> QED
    BY <2>1, <2>2, QuietFor DEF Settled, Holds
<1> QED
  BY <1>1, <1>2, <1>3, <1>4, <1>5, <1>6, <1>7 DEF Environment

\* A step of a job: it delivers, gives its row back, settles it, or leaves it as it is.
LEMMA OnceJobs ==
  ASSUME TypeOK, HeldInPhase, DeletedIsGone, NEW r \in Reminders, OnceFor(r),
         NEW d \in Dispatchers, NEW q \in Reminders, JobStep(d, q)
  PROVE  OnceFor(r)'
<1> USE DEF settings, history
<1>1. UNCHANGED <<deleted, claimed>> /\ job[d][q].stage # "none"
  BY DEF JobStep, CheckDeliverable, LoadChannel, LookupFails, Send, MarkSent, MarkFailed, PersistFails, batch
<1>2. claimed[d] = {}
  BY <1>1 DEF HeldInPhase
<1>3. EndJob(d, q) \/ \E stage \in Stage \ {"none"} : Advance(d, q, stage)
  BY DEF JobStep, CheckDeliverable, LoadChannel, LookupFails, Send, MarkSent, MarkFailed, PersistFails, Stage
<1>4. \A e \in Dispatchers : e # d \/ r # q => job'[e][r] = job[e][r]
  BY <1>3 DEF EndJob, Advance, TypeOK
<1>5. EndJob(d, q) => job'[d][q].stage = "none"
  BY DEF EndJob, NoJob, TypeOK
<1>6. \A stage \in Stage : Advance(d, q, stage) => job'[d][q].stage = stage
  <2> SUFFICES ASSUME NEW stage \in Stage, Advance(d, q, stage) PROVE job'[d][q].stage = stage
    OBVIOUS
  <2>1. job[d][q] \in Job /\ job \in [Dispatchers -> [Reminders -> Job]]
    BY DEF TypeOK
  <2>2. job'[d][q] = [job[d][q] EXCEPT !.stage = stage]
    BY <2>1 DEF Advance
  <2> QED
    BY <2>1, <2>2 DEF Job
<1>7. \A e \in Dispatchers : Holds(e, r)' => Holds(e, r)
  BY <1>1, <1>4 DEF Holds
<1>8. CASE r # q
  <2>1. row'[r] = row[r]
    <3>1. CASE MarkSent(d, q)
      BY <1>8, <3>1, UpdateHeldSteps, ReleasedIsRow DEF MarkSent, Terminal
    <3>2. CASE Send(d, q) \/ PersistFails(d, q)
      BY <3>2 DEF Send, PersistFails, database
    <3> QED
      BY <1>8, <3>1, <3>2, JobWrites DEF JobStep
  <2>2. accepted'[r] = accepted[r]
    BY <1>8 DEF JobStep, CheckDeliverable, LoadChannel, LookupFails, Send, MarkSent, MarkFailed, PersistFails, TypeOK
  <2> QED
    BY <1>1, <1>4, <1>7, <1>8, <2>1, <2>2, QuietFor DEF Settled
<1>9. CASE r = q
  <2>1. Holds(d, r) /\ (\A e \in Dispatchers : Holds(e, r) => e = d) /\ \A e \in Dispatchers : r \notin claimed[e]
    BY <1>1, <1>2, <1>9 DEF OnceFor, Holds
  <2>2. CASE Send(d, r)
    <3>1. row'[r] = row[r]
      BY <2>2 DEF Send, database
    <3>2. job[d][r].stage = "loaded" /\ accepted[r] = 0
      BY <2>2 DEF Send, OnceFor
    <3>3. CASE Advance(d, r, "accepted") /\ accepted' = [accepted EXCEPT ![r] = @ + 1]
      <4>1. accepted'[r] = 1
        BY <3>2, <3>3 DEF TypeOK
      <4>2. job'[d][r].stage = "accepted"
        BY <1>6, <1>9, <3>3 DEF Stage
      <4>3. \A e \in Dispatchers : r \notin claimed'[e] /\ job'[e][r].stage \in {"none", "accepted"}
        BY <1>1, <1>4, <2>1, <4>2 DEF Holds
      <4>4. Held(d, r)' \/ Settled(r)'
        BY <1>1, <2>1, <3>1 DEF OnceFor, Held, Settled
      <4>5. \A e \in Dispatchers : Holds(e, r)' => e = d
        BY <1>7, <2>1
      <4>6. row'[r].status = "processing" \/ Settled(r)'
        BY <4>4 DEF Held
      <4> QED
        BY <4>1, <4>3, <4>4, <4>5, <4>6 DEF OnceFor
    <3>4. CASE Advance(d, r, "refused") /\ UNCHANGED accepted
      <4>1. job'[d][r].stage = "refused"
        BY <1>6, <1>9, <3>4 DEF Stage
      <4> QED
        BY <1>1, <1>4, <1>7, <3>1, <3>2, <3>4, <4>1, QuietFor DEF Settled
    <3> QED
      BY <2>2, <3>3, <3>4 DEF Send
  <2>3. CASE ~Send(d, r)
    <3>1. accepted' = accepted
      BY <1>9, <2>3 DEF JobStep, CheckDeliverable, LoadChannel, LookupFails, MarkSent, MarkFailed, PersistFails
    <3>2. \/ job'[d][r].stage = "none"
          \/ job'[d][r].stage \in {"checked", "loaded"} /\ job[d][r].stage \in {"queued", "checked"}
      BY <1>5, <1>6, <1>9, <2>3
         DEF JobStep, CheckDeliverable, LoadChannel, LookupFails, MarkSent, MarkFailed, PersistFails, Stage
    <3>3. \/ row'[r] = row[r] \/ row'[r].status \in Terminal
          \/ row'[r].status = "pending" /\ (LookupFails(d, r) \/ MarkFailed(d, r))
      <4>1. CASE MarkSent(d, r)
        BY <4>1, UpdateHeldSteps, ReleasedIsRow, ReleasedStatus DEF MarkSent, Terminal
      <4>2. CASE PersistFails(d, r)
        BY <4>2 DEF PersistFails, database
      <4>3. CASE CheckDeliverable(d, r)
        BY <4>3, UpdateHeldSteps, ReleasedIsRow, ReleasedStatus DEF CheckDeliverable, Terminal
      <4>4. CASE LoadChannel(d, r)
        BY <4>4, UpdateHeldSteps, ReleasedIsRow, ReleasedStatus DEF LoadChannel, Terminal
      <4>5. CASE LookupFails(d, r) \/ MarkFailed(d, r)
        BY <4>5, JobWrites
      <4> QED
        BY <1>9, <2>3, <4>1, <4>2, <4>3, <4>4, <4>5 DEF JobStep
    <3>4. CASE row'[r] = row[r] \/ row'[r].status \in Terminal
      BY <1>1, <1>4, <1>7, <3>1, <3>2, <3>4, QuietFor DEF Settled
    <3>5. CASE row'[r].status = "pending" /\ (LookupFails(d, r) \/ MarkFailed(d, r))
      <4>1. job'[d][r].stage = "none" /\ job[d][r].stage \in {"queued", "checked", "refused"}
        BY <1>5, <1>9, <3>5 DEF LookupFails, MarkFailed
      <4>2. accepted'[r] = 0
        BY <3>1, <4>1 DEF OnceFor
      <4>3. \A e \in Dispatchers : ~Holds(e, r)'
        BY <1>1, <1>7, <2>1, <4>1 DEF Holds
      <4> QED
        BY <4>2, <4>3 DEF OnceFor
    <3> QED
      BY <3>3, <3>4, <3>5
  <2> QED
    BY <2>2, <2>3
<1> QED
  BY <1>8, <1>9

LEMMA OnceEnqueued ==
  ASSUME TypeOK, DeletedIsGone, NEW r \in Reminders, OnceFor(r),
         NEW d \in Dispatchers, NEW q \in Reminders, NEW c \in Channels, Enqueue(d, q, c)
  PROVE  OnceFor(r)'
<1>1. UNCHANGED <<deleted, accepted, claimed, job>>
  BY DEF Enqueue, settings, history, batch
<1>2. CASE row'[r] = row[r]
  BY <1>1, <1>2, QuietFor DEF Settled, Holds
<1>3. CASE row'[r] # row[r]
  <2>1. row[r].status = "none" /\ SubscriptionOf[r] \notin deleted
    BY <1>3 DEF Enqueue, Conflicts, TypeOK
  <2>2. accepted[r] = 0 /\ \A e \in Dispatchers : ~Holds(e, r)
    BY <2>1, NobodyHolds
  <2> QED
    BY <1>1, <2>2 DEF OnceFor, Holds
<1> QED
  BY <1>2, <1>3

LEMMA OnceClaimed ==
  ASSUME TypeOK, HeldInPhase, DeletedIsGone, NEW r \in Reminders \ lapsed', OnceFor(r),
         NEW d \in Dispatchers, NEW q \in Reminders, ClaimRow(d, q)
  PROVE  OnceFor(r)'
<1>1. UNCHANGED <<deleted, accepted, job>> /\ r \in Reminders
  BY DEF ClaimRow, settings
<1>2. CASE ~StillClaimable(q, claimNow[d])
  <2>1. UNCHANGED <<row, claimed>>
    BY <1>2 DEF ClaimRow
  <2> QED
    BY <1>1, <2>1, QuietFor DEF Settled, Holds
<1>3. CASE StillClaimable(q, claimNow[d])
  <2>1. /\ row' = [row EXCEPT ![q] = Taken(d, q)] /\ claimed' = [claimed EXCEPT ![d] = @ \cup {q}]
        /\ lapsed' = IF row[q].status = "processing" /\ row[q].lockedUntil <= now THEN lapsed \cup {q} ELSE lapsed
    BY <1>3 DEF ClaimRow
  <2>2. CASE r # q
    <3>1. row'[r] = row[r] /\ \A e \in Dispatchers : r \in claimed'[e] <=> r \in claimed[e]
      BY <2>1, <2>2 DEF TypeOK
    <3> QED
      BY <1>1, <3>1, QuietFor DEF Settled, Holds
  <2>3. CASE r = q
    <3>1. row[r].lockedUntil <= now
      <4>1. row[r].lockedUntil <= claimNow[d] /\ claimNow[d] <= now
        BY <1>3, <2>3 DEF StillClaimable, Claimable, HeldInPhase
      <4>2. row[r].lockedUntil \in Nat /\ claimNow[d] \in Nat /\ now \in Nat
        BY DEF TypeOK, Row
      <4> QED
        BY <4>1, <4>2
    <3>2. row[r].status = "pending"
      BY <1>3, <2>1, <2>3, <3>1 DEF StillClaimable, Claimable, Open
    <3>3. accepted[r] = 0 /\ \A e \in Dispatchers : ~Holds(e, r)
      BY <1>1, <3>2, NobodyHolds
    <3>4. row'[r] = Taken(d, r) /\ row[r] \in Row
      BY <2>1, <2>3 DEF TypeOK
    <3>5. Held(d, r)'
      BY <3>4 DEF Taken, Held, Row
    <3>6. \A e \in Dispatchers : Holds(e, r)' => e = d
      BY <1>1, <2>1, <3>3 DEF Holds, TypeOK
    <3> QED
      BY <1>1, <3>3, <3>5, <3>6 DEF OnceFor
  <2> QED
    BY <2>2, <2>3
<1> QED
  BY <1>2, <1>3

LEMMA LapsedStay ==
  ASSUME [Next]_vars
  PROVE  lapsed \subseteq lapsed'
<1> USE DEF history
<1>1. ASSUME NEW d \in Dispatchers, NEW r \in Reminders, JobStep(d, r) PROVE lapsed \subseteq lapsed'
  BY <1>1 DEF JobStep, CheckDeliverable, LoadChannel, LookupFails, Send, MarkSent, MarkFailed, PersistFails
<1>2. ASSUME NEW d \in Dispatchers, NEW r \in Reminders, ClaimRow(d, r) PROVE lapsed \subseteq lapsed'
  BY <1>2 DEF ClaimRow
<1>3. CASE Environment \/ UNCHANGED vars
  BY <1>3 DEF Environment, Tick, Start, Stop, ChangeSubscription, ChangeChannel, DeleteSubscription, vars
<1>4. ASSUME NEW d \in Dispatchers,
             \/ ScanBegin(d) \/ ScanFails(d) \/ \E r \in Reminders, c \in Channels : Enqueue(d, r, c)
             \/ Expire(d) \/ SelectCandidates(d) \/ LoadJobs(d) \/ TickFails(d) \/ FinishBatch(d)
      PROVE  lapsed \subseteq lapsed'
  BY <1>4 DEF ScanBegin, ScanFails, Enqueue, Expire, SelectCandidates, LoadJobs, TickFails, FinishBatch
<1> QED
  BY <1>1, <1>2, <1>3, <1>4 DEF Next, Step

LEMMA DuplicateStep == TypeOK /\ DuplicateInv /\ [Next]_vars => DuplicateInv'
<1> SUFFICES ASSUME TypeOK, DuplicateInv, [Next]_vars PROVE DuplicateInv'
  OBVIOUS
<1>1. HeldInPhase /\ DeletedIsGone /\ HeldInPhase' /\ DeletedIsGone'
  BY HoldSteps, GoneStep DEF DuplicateInv
<1>2. ASSUME NEW r \in Reminders \ lapsed' PROVE OnceFor(r)'
  <2>1. r \in Reminders /\ OnceFor(r)
    BY LapsedStay DEF DuplicateInv
  <2>2. CASE Environment \/ UNCHANGED vars
    BY <1>1, <2>1, <2>2, OnceOtherwise
  <2>3. ASSUME NEW d \in Dispatchers, Step(d) PROVE OnceFor(r)'
    BY <1>1, <1>2, <2>1, <2>3, OnceOtherwise, OnceEnqueued, OnceClaimed, OnceJobs DEF Step
  <2> QED
    BY <2>2, <2>3 DEF Next
<1> QED
  BY <1>1, <1>2 DEF DuplicateInv

\* A channel receives a reminder twice only after a claim on its row lapsed, for any number of
\* processes and loops and in any order of their statements: neither the retries of
\* markNotificationOutboxFailed nor a second scan nor a crash before the delivery repeats it.
THEOREM DuplicatesNeedLapses == Spec => []DuplicateNeedsLapse
<1>1. Init => DuplicateInv
  BY DEF Init, DuplicateInv, HeldInPhase, DeletedIsGone, OnceFor, Holds, NoJob
<1>2. DuplicateInv => DuplicateNeedsLapse
  <2> SUFFICES ASSUME DuplicateInv, NEW r \in Reminders, accepted[r] > 1, r \notin lapsed PROVE FALSE
    BY DEF DuplicateNeedsLapse
  <2>1. accepted[r] = 0 \/ accepted[r] = 1
    BY DEF DuplicateInv, OnceFor
  <2> QED
    BY <2>1
<1> QED
  BY <1>1, <1>2, TypeInit, TypeStep, DuplicateStep, PTL DEF Spec
==============================================================================
