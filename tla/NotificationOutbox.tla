-------------------------- MODULE NotificationOutbox --------------------------
(***************************************************************************)
(* The reminder outbox of subdux (internal/service/notification_outbox.go):*)
(* scans enqueue one outbox row per reminder, dispatchers claim due rows   *)
(* under a lease, deliver them and record the outcome.  Several server     *)
(* processes may share the database, and inside one process two goroutines *)
(* dispatch under the same owner id (cmd/server/main.go).                  *)
(*                                                                         *)
(* Every SQL statement or transaction is one atomic step: the database     *)
(* handle has a single connection (internal/pkg/database.go).  Between two *)
(* statements of one dispatcher anything else may happen: another          *)
(* dispatcher's statement, a user's edit, the passing of time, a crash.    *)
(***************************************************************************)
EXTENDS Integers, Sequences, FiniteSets

CONSTANTS
  Reminders,      \* dedupe keys: (user, subscription, channel type, trigger, date)
  Subscriptions,  \* subscription ids
  Channels,       \* notification channel ids
  SubscriptionOf, \* [Reminders -> Subscriptions]
  ChannelsOf,     \* [Reminders -> SUBSET Channels]: the channels of the reminder's type
  ManualEnded,    \* the reminders whose trigger is manual_renew_ended
  LegacySent,     \* reminders that have a sent log from before the outbox existed
  NoChannel,      \* no channel id
  Instances,      \* lifetimes of server processes; each has one owner id
  NoOwner,        \* an empty locked_by
  Dispatchers,    \* the goroutines that dispatch
  InstanceOf,     \* [Dispatchers -> Instances]
  ScanLoops,      \* the dispatchers that scan before they dispatch
  LeaseTTL,       \* notificationOutboxLeaseTTL
  ExpiryWindow,   \* notificationOutboxExpiryWindow
  DateExpiry,     \* [Reminders -> Nat]: notify date + notificationOutboxExpiryWindow
  BackoffSteps,   \* the delays of notificationOutboxBackoff, by attempt
  MaxAttempts,    \* notificationOutboxDefaultMaxAttempts
  BatchSize,      \* maxNotificationOutboxClaimBatch
  Workers,        \* maxParallelNotificationDispatches
  Horizon         \* bound on the clock

ASSUME SetsAssumption ==
  /\ SubscriptionOf \in [Reminders -> Subscriptions]
  /\ ChannelsOf \in [Reminders -> SUBSET Channels]
  /\ ManualEnded \subseteq Reminders /\ LegacySent \subseteq Reminders
  /\ InstanceOf \in [Dispatchers -> Instances]
  /\ ScanLoops \subseteq Dispatchers
  /\ NoChannel \notin Channels /\ NoOwner \notin Instances

ASSUME NumbersAssumption ==
  /\ LeaseTTL \in Nat \ {0} /\ ExpiryWindow \in Nat \ {0}
  /\ DateExpiry \in [Reminders -> Nat]
  /\ MaxAttempts \in Nat \ {0} /\ BatchSize \in Nat \ {0} /\ Workers \in Nat \ {0}
  /\ Horizon \in Nat
  /\ BackoffSteps \in Seq(Nat) /\ BackoffSteps # << >>

\* Every retry delay is at least as long as a claim's lease: 15 minutes
\* against 5 in the code.  LeaseExclusive below rests on it.
ASSUME BackoffCoversLease ==
  \A n \in 1..Len(BackoffSteps) : BackoffSteps[n] >= LeaseTTL

Open     == {"pending", "processing"}
Terminal == {"sent", "failed", "cancelled", "expired"}

\* A row of notification_outboxes; status "none" is a row that does not exist,
\* locked_until is 0 where the column is NULL.
Row == [status : Open \cup Terminal \cup {"none"}, channel : Channels \cup {NoChannel},
        lockedBy : Instances \cup {NoOwner}, lockedUntil : Nat,
        attempts : Nat, nextAttempt : Nat, expiresAt : Nat]

NoRow == [status |-> "none", channel |-> NoChannel, lockedBy |-> NoOwner,
          lockedUntil |-> 0, attempts |-> 0, nextAttempt |-> 0, expiresAt |-> 0]

VARIABLES
  now,        \* the clock every process reads
  row,        \* [Reminders -> Row]: the outbox table, at most one row per dedupe key
  sentLog,    \* [Reminders -> Nat]: notification_logs rows with status sent
  failedLog,  \* [Reminders -> Nat]: notification_logs rows with status failed
  wanted,     \* reminders the subscription and the policy call for at this moment
  enabled,    \* channels that exist and are enabled
  deleted,    \* subscriptions that were deleted
  started,    \* process lifetimes that have begun
  up,         \* process lifetimes now running
  phase,      \* [Dispatchers -> Phase]: where the goroutine's tick is
  due,        \* [Dispatchers -> SUBSET Reminders]: rest of the running scan
  scanned,    \* [Dispatchers -> SUBSET Channels]: enabled channels the scan read
  claimNow,   \* [Dispatchers -> Nat]: the instant the claim took as now
  todo,       \* [Dispatchers -> SUBSET Reminders]: candidates still to claim
  claimed,    \* [Dispatchers -> SUBSET Reminders]: claimedIDs
  job,        \* [Dispatchers -> [Reminders -> Job]]: the batch being delivered
  accepted,   \* history, [Reminders -> Nat]: deliveries the channel accepted
  lapsed   \* history: reminders whose row was claimed from a holder whose lease ran out

database == <<row, sentLog, failedLog>>
settings == <<wanted, enabled, deleted>>
process  == <<started, up>>
scan     == <<due, scanned>>
batch    == <<claimNow, todo, claimed>>
history  == <<accepted, lapsed>>
vars == <<now, database, settings, process, phase, scan, batch, job, history>>

Phase == {"idle", "scan", "select", "claim", "run"}
Stage == {"none", "queued", "checked", "loaded", "accepted", "refused"}

\* A worker's copy of the row, taken when the batch was loaded.
Job   == [stage : Stage, attempt : Nat, channel : Channels \cup {NoChannel}, expiresAt : Nat]
NoJob == [stage |-> "none", attempt |-> 0, channel |-> NoChannel, expiresAt |-> 0]

Running(d) == InstanceOf[d] \in up

\* Bug: a failed delivery is due again at once.
Bug_NoBackoff(attempt) == 0

\* notificationOutboxBackoff: the last delay repeats.
Backoff(attempt) ==
  BackoffSteps[IF attempt \in 1..Len(BackoffSteps) THEN attempt
               ELSE IF attempt = 0 THEN 1 ELSE Len(BackoffSteps)]

\* The WHERE clause of every statement that records an outcome.
Held(d, r) == row[r].status = "processing" /\ row[r].lockedBy = InstanceOf[d]

\* The row after a status change that gives the claim up.
Released(r, status) ==
  [row[r] EXCEPT !.status = status, !.lockedBy = NoOwner, !.lockedUntil = 0]

Retried(d, r) ==
  [Released(r, "pending") EXCEPT !.nextAttempt = now + Backoff(job[d][r].attempt)]

\* Bug: UPDATE ... WHERE id.
Bug_UpdateById(d, r, new) == row' = [row EXCEPT ![r] = new]

\* UPDATE ... WHERE id AND locked_by AND status = processing.
UpdateHeld(d, r, new) == row' = IF Held(d, r) THEN [row EXCEPT ![r] = new] ELSE row

EndJob(d, r) == job' = [job EXCEPT ![d][r] = NoJob]
Advance(d, r, stage) == job' = [job EXCEPT ![d][r].stage = stage]

-----------------------------------------------------------------------------
Init ==
  /\ now = 0
  /\ row = [r \in Reminders |-> NoRow]
  /\ sentLog = [r \in Reminders |-> IF r \in LegacySent THEN 1 ELSE 0]
  /\ failedLog = [r \in Reminders |-> 0]
  /\ wanted = Reminders /\ enabled = Channels /\ deleted = {}
  /\ started = {} /\ up = {}
  /\ phase = [d \in Dispatchers |-> "idle"]
  /\ due = [d \in Dispatchers |-> {}]
  /\ scanned = [d \in Dispatchers |-> {}]
  /\ claimNow = [d \in Dispatchers |-> 0]
  /\ todo = [d \in Dispatchers |-> {}]
  /\ claimed = [d \in Dispatchers |-> {}]
  /\ job = [d \in Dispatchers |-> [r \in Reminders |-> NoJob]]
  /\ accepted = [r \in Reminders |-> 0]
  /\ lapsed = {}

-----------------------------------------------------------------------------
(* The scan: processUserNotifications and enqueueNotificationOutbox. *)

\* notificationAlreadySent
SentBefore(r) == sentLog[r] > 0

\* manualRenewEndedNotificationAlreadySent ignores the channel type.
EndNoticeSent(s) ==
  \E r \in ManualEnded : SubscriptionOf[r] = s /\ SentBefore(r)

\* The reads at the start of a scan.  What they return may be out of date by
\* the time a row is inserted.
ScanBegin(d) ==
  /\ Running(d) /\ d \in ScanLoops /\ phase[d] = "idle"
  /\ due' = [due EXCEPT ![d] =
       {r \in wanted : ChannelsOf[r] \cap enabled # {} /\ SubscriptionOf[r] \notin deleted
                       /\ (r \in ManualEnded => ~EndNoticeSent(SubscriptionOf[r]))}]
  /\ scanned' = [scanned EXCEPT ![d] = enabled]
  /\ phase' = [phase EXCEPT ![d] = "scan"]
  /\ UNCHANGED <<now, database, settings, process, batch, job, history>>

ExpiryOf(r) == IF r \in ManualEnded THEN now + ExpiryWindow ELSE DateExpiry[r]

\* The unique index on dedupe_key.
Conflicts(r) == row[r].status # "none"

\* Skips what was already sent; INSERT ... ON CONFLICT DO NOTHING otherwise.
\* A row for a deleted subscription breaks the foreign key, and the error ends
\* the scan of this user.
Enqueue(d, r, c) ==
  /\ Running(d) /\ phase[d] = "scan" /\ r \in due[d]
  /\ c \in ChannelsOf[r] \cap scanned[d]
  /\ LET rejected == ~SentBefore(r) /\ SubscriptionOf[r] \in deleted
     IN  due' = [due EXCEPT ![d] = IF rejected THEN {} ELSE @ \ {r}]
  /\ row' = IF SentBefore(r) \/ Conflicts(r) \/ SubscriptionOf[r] \in deleted
            THEN row
            ELSE [row EXCEPT ![r] = [NoRow EXCEPT
                    !.status = "pending", !.channel = c,
                    !.nextAttempt = now, !.expiresAt = ExpiryOf(r)]]
  /\ UNCHANGED <<now, sentLog, failedLog, settings, process, phase, scanned, batch, job, history>>

\* A query of the scan fails: the rest of this user's reminders waits for the
\* next scan.
ScanFails(d) ==
  /\ Running(d) /\ phase[d] = "scan" /\ due[d] # {}
  /\ due' = [due EXCEPT ![d] = {}]
  /\ UNCHANGED <<now, database, settings, process, phase, scanned, batch, job, history>>

-----------------------------------------------------------------------------
(* The dispatch tick: DispatchDueNotificationOutbox. *)

\* The scan loop dispatches after its scan, the dispatch loop on its own tick.
ReadyToDispatch(d) ==
  \/ d \in ScanLoops /\ phase[d] = "scan" /\ due[d] = {}
  \/ d \notin ScanLoops /\ phase[d] = "idle"

\* Bug: rows somebody holds are left to their holder.
Bug_ExpiresPendingOnly(r) == row[r].status = "pending" /\ row[r].expiresAt <= now

Expirable(r) == row[r].status \in Open /\ row[r].expiresAt <= now

\* expireNotificationOutbox: one UPDATE, whoever holds the rows.
Expire(d) ==
  /\ Running(d) /\ ReadyToDispatch(d)
  /\ row' = [r \in Reminders |-> IF Expirable(r) THEN Released(r, "expired") ELSE row[r]]
  /\ phase' = [phase EXCEPT ![d] = "select"]
  /\ scanned' = [scanned EXCEPT ![d] = {}]
  /\ UNCHANGED <<now, sentLog, failedLog, settings, process, due, batch, job, history>>

\* The conditions of the candidate query, at the instant t.
Claimable(r, t) ==
  /\ row[r].status \in Open /\ row[r].nextAttempt <= t
  /\ row[r].expiresAt > t /\ row[r].lockedUntil <= t

\* ORDER BY next_attempt_at LIMIT BatchSize; ties may come in any order.
Candidates(S) ==
  LET open == {r \in Reminders : Claimable(r, now)}
  IN  /\ S \subseteq open
      /\ Cardinality(S) <= BatchSize
      /\ Cardinality(S) < BatchSize => S = open
      /\ \A r \in S, q \in open \ S : row[r].nextAttempt <= row[q].nextAttempt

SelectCandidates(d) ==
  /\ Running(d) /\ phase[d] = "select"
  /\ \E S \in SUBSET Reminders :
       /\ Candidates(S)
       /\ todo' = [todo EXCEPT ![d] = S]
  /\ claimNow' = [claimNow EXCEPT ![d] = now]
  /\ phase' = [phase EXCEPT ![d] = "claim"]
  /\ UNCHANGED <<now, database, settings, process, scan, claimed, job, history>>

\* Bug: the UPDATE trusts what the query found about the lock.
Bug_ClaimByStatus(r, t) == row[r].status \in Open

\* The UPDATE repeats the conditions of the query.
StillClaimable(r, t) == Claimable(r, t)

Taken(d, r) ==
  [row[r] EXCEPT !.status = "processing", !.lockedBy = InstanceOf[d],
                 !.lockedUntil = claimNow[d] + LeaseTTL, !.attempts = @ + 1]

\* One conditional UPDATE per candidate, still with the instant of the query.
ClaimRow(d, r) ==
  /\ Running(d) /\ phase[d] = "claim" /\ r \in todo[d]
  /\ todo' = [todo EXCEPT ![d] = @ \ {r}]
  /\ IF StillClaimable(r, claimNow[d])
     THEN /\ row' = [row EXCEPT ![r] = Taken(d, r)]
          /\ claimed' = [claimed EXCEPT ![d] = @ \cup {r}]
          /\ lapsed' = IF row[r].status = "processing" /\ row[r].lockedUntil <= now
                       THEN lapsed \cup {r} ELSE lapsed
     ELSE UNCHANGED <<row, claimed, lapsed>>
  /\ UNCHANGED <<now, sentLog, failedLog, settings, process, phase, scan, claimNow, job, accepted>>

\* The final SELECT reads the claimed rows back, if this owner still holds them.
LoadJobs(d) ==
  /\ Running(d) /\ phase[d] = "claim" /\ todo[d] = {}
  /\ job' = [job EXCEPT ![d] = [r \in Reminders |->
       IF r \in claimed[d] /\ Held(d, r)
       THEN [stage |-> "queued", attempt |-> row[r].attempts,
             channel |-> row[r].channel, expiresAt |-> row[r].expiresAt]
       ELSE NoJob]]
  /\ claimed' = [claimed EXCEPT ![d] = {}]
  /\ phase' = [phase EXCEPT ![d] = "run"]
  /\ UNCHANGED <<now, database, settings, process, scan, claimNow, todo, history>>

\* A statement of the tick fails: what was claimed so far stays claimed.  (The one UPDATE that
\* expires rows leaves all as it was when it fails: a tick that ends there is a stuttering step.)
TickFails(d) ==
  /\ Running(d)
  /\ phase[d] \in {"select", "claim"}
  /\ phase' = [phase EXCEPT ![d] = "idle"]
  /\ claimNow' = [claimNow EXCEPT ![d] = 0]
  /\ todo' = [todo EXCEPT ![d] = {}]
  /\ claimed' = [claimed EXCEPT ![d] = {}]
  /\ UNCHANGED <<now, database, settings, process, scan, job, history>>

\* wg.Wait() returns when the batch is done.
FinishBatch(d) ==
  /\ Running(d) /\ phase[d] = "run"
  /\ \A r \in Reminders : job[d][r].stage = "none"
  /\ phase' = [phase EXCEPT ![d] = "idle"]
  /\ claimNow' = [claimNow EXCEPT ![d] = 0]
  /\ UNCHANGED <<now, database, settings, process, scan, todo, claimed, job, history>>

-----------------------------------------------------------------------------
(* One job of a batch: dispatchNotificationOutboxJob. *)

InProgress(d) == {r \in Reminders : job[d][r].stage \notin {"none", "queued"}}

Deliverable(r) == SubscriptionOf[r] \notin deleted /\ r \in wanted

\* cancelOutboxIfNoLongerDeliverable: the job's own expiry, then the
\* subscription and the policy as they are now.  A worker takes the job up.
CheckDeliverable(d, r) ==
  /\ Running(d) /\ job[d][r].stage = "queued"
  /\ Cardinality(InProgress(d)) < Workers
  /\ \/ /\ job[d][r].expiresAt <= now
        /\ UpdateHeld(d, r, Released(r, "expired")) /\ EndJob(d, r)
     \/ /\ job[d][r].expiresAt > now /\ ~Deliverable(r)
        /\ UpdateHeld(d, r, Released(r, "cancelled")) /\ EndJob(d, r)
     \/ /\ job[d][r].expiresAt > now /\ Deliverable(r)
        /\ Advance(d, r, "checked") /\ UNCHANGED row
  /\ UNCHANGED <<now, sentLog, failedLog, settings, process, phase, scan, batch, history>>

\* loadOutboxChannel: the channel the row names, never another of its type.
LoadChannel(d, r) ==
  /\ Running(d) /\ job[d][r].stage = "checked"
  /\ \/ /\ job[d][r].channel \notin enabled
        /\ UpdateHeld(d, r, Released(r, "cancelled")) /\ EndJob(d, r)
     \/ /\ job[d][r].channel \in enabled
        /\ Advance(d, r, "loaded") /\ UNCHANGED row
  /\ UNCHANGED <<now, sentLog, failedLog, settings, process, phase, scan, batch, history>>

\* A lookup of either step fails: releaseNotificationOutboxForRetry.
LookupFails(d, r) ==
  /\ Running(d) /\ job[d][r].stage \in {"queued", "checked"}
  /\ job[d][r].stage = "queued" => Cardinality(InProgress(d)) < Workers
  /\ UpdateHeld(d, r, Retried(d, r)) /\ EndJob(d, r)
  /\ UNCHANGED <<now, sentLog, failedLog, settings, process, phase, scan, batch, history>>

\* dispatchNotificationChannel, outside the program: the channel accepts the
\* message or an error comes back.
Send(d, r) ==
  /\ Running(d) /\ job[d][r].stage = "loaded"
  /\ \/ /\ Advance(d, r, "accepted")
        /\ accepted' = [accepted EXCEPT ![r] = @ + 1]
     \/ Advance(d, r, "refused") /\ UNCHANGED accepted
  /\ UNCHANGED <<now, database, settings, process, phase, scan, batch, lapsed>>

\* Bug: the log is written whether or not the row was still held.
Bug_LogsAnyway(d, r) == sentLog' = [sentLog EXCEPT ![r] = @ + 1]

LogSent(d, r) == sentLog' = IF Held(d, r) THEN [sentLog EXCEPT ![r] = @ + 1] ELSE sentLog

\* markNotificationOutboxSent: row and log in one transaction.
MarkSent(d, r) ==
  /\ Running(d) /\ job[d][r].stage = "accepted"
  /\ UpdateHeld(d, r, Released(r, "sent")) /\ EndJob(d, r)
  /\ LogSent(d, r)
  /\ UNCHANGED <<now, failedLog, settings, process, phase, scan, batch, history>>

Exhausted(d, r) == job[d][r].attempt >= MaxAttempts

\* markNotificationOutboxFailed: back to pending, or failed for good.
MarkFailed(d, r) ==
  /\ Running(d) /\ job[d][r].stage = "refused"
  /\ UpdateHeld(d, r, IF Exhausted(d, r)
                      THEN Released(r, "failed") ELSE Retried(d, r))
  /\ EndJob(d, r)
  /\ failedLog' = IF Held(d, r) THEN [failedLog EXCEPT ![r] = @ + 1] ELSE failedLog
  /\ UNCHANGED <<now, sentLog, settings, process, phase, scan, batch, history>>

\* Recording the outcome fails (logOutboxPersistError), or the worker finds the
\* context cancelled: the job ends, its row stays as the claim left it.
PersistFails(d, r) ==
  /\ Running(d) /\ job[d][r].stage \in {"queued", "checked", "accepted", "refused"}
  /\ EndJob(d, r)
  /\ UNCHANGED <<now, database, settings, process, phase, scan, batch, history>>

-----------------------------------------------------------------------------
(* Around the dispatchers. *)

Tick ==
  /\ now < Horizon
  /\ now' = now + 1
  /\ UNCHANGED <<database, settings, process, phase, scan, batch, job, history>>

\* A process starts: a lifetime has one owner id, a restart is a new lifetime.
Start(i) ==
  /\ i \notin started
  /\ started' = started \cup {i} /\ up' = up \cup {i}
  /\ UNCHANGED <<now, database, settings, phase, scan, batch, job, history>>

\* A process ends, cleanly or not: its goroutines and their batches are gone,
\* its claims stay in the database.
Stop(i) ==
  LET mine == {d \in Dispatchers : InstanceOf[d] = i}
      Cleared(f, v) == [d \in Dispatchers |-> IF d \in mine THEN v ELSE f[d]]
  IN
  /\ i \in up
  /\ up' = up \ {i}
  /\ phase' = Cleared(phase, "idle")
  /\ due' = Cleared(due, {}) /\ scanned' = Cleared(scanned, {})
  /\ claimNow' = Cleared(claimNow, 0) /\ todo' = Cleared(todo, {})
  /\ claimed' = Cleared(claimed, {})
  /\ job' = Cleared(job, [r \in Reminders |-> NoJob])
  /\ UNCHANGED <<now, database, settings, started, history>>

\* The user edits the subscription or the policy, or the day changes: the
\* reminder is called for or no longer is.
ChangeSubscription(r) ==
  /\ SubscriptionOf[r] \notin deleted
  /\ wanted' = IF r \in wanted THEN wanted \ {r} ELSE wanted \cup {r}
  /\ UNCHANGED <<now, database, enabled, deleted, process, phase, scan, batch, job, history>>

\* The user enables a channel, or disables or deletes it.
ChangeChannel(c) ==
  /\ enabled' = IF c \in enabled THEN enabled \ {c} ELSE enabled \cup {c}
  /\ UNCHANGED <<now, database, wanted, deleted, process, phase, scan, batch, job, history>>

\* Deleting a subscription, or its user, deletes its rows and its logs (cascade).
DeleteSubscription(s) ==
  LET gone == {r \in Reminders : SubscriptionOf[r] = s}
  IN
  /\ s \notin deleted
  /\ deleted' = deleted \cup {s} /\ wanted' = wanted \ gone
  /\ row' = [r \in Reminders |-> IF r \in gone THEN NoRow ELSE row[r]]
  /\ sentLog' = [r \in Reminders |-> IF r \in gone THEN 0 ELSE sentLog[r]]
  /\ failedLog' = [r \in Reminders |-> IF r \in gone THEN 0 ELSE failedLog[r]]
  /\ UNCHANGED <<now, enabled, process, phase, scan, batch, job, history>>

-----------------------------------------------------------------------------
JobStep(d, r) ==
  \/ CheckDeliverable(d, r) \/ LoadChannel(d, r) \/ LookupFails(d, r)
  \/ Send(d, r) \/ MarkSent(d, r) \/ MarkFailed(d, r) \/ PersistFails(d, r)

Step(d) ==
  \/ ScanBegin(d) \/ ScanFails(d) \/ \E r \in Reminders, c \in Channels : Enqueue(d, r, c)
  \/ Expire(d) \/ SelectCandidates(d) \/ LoadJobs(d) \/ TickFails(d) \/ FinishBatch(d)
  \/ \E r \in Reminders : ClaimRow(d, r) \/ JobStep(d, r)

Environment ==
  \/ Tick
  \/ \E i \in Instances : Start(i) \/ Stop(i)
  \/ \E r \in Reminders : ChangeSubscription(r)
  \/ \E c \in Channels : ChangeChannel(c)
  \/ \E s \in Subscriptions : DeleteSubscription(s)

Next == Environment \/ \E d \in Dispatchers : Step(d)

\* The ticks keep coming, a goroutine that runs keeps running, and a stopped
\* server is restarted while the model has lifetimes left.
Fairness ==
  /\ WF_vars(Tick)
  /\ \A i \in Instances : WF_vars(Start(i))
  /\ \A d \in Dispatchers : WF_vars(Step(d))

Spec == Init /\ [][Next]_vars
FairSpec == Spec /\ Fairness

-----------------------------------------------------------------------------
TypeOK ==
  /\ now \in Nat
  /\ row \in [Reminders -> Row]
  /\ sentLog \in [Reminders -> Nat] /\ failedLog \in [Reminders -> Nat]
  /\ wanted \subseteq Reminders /\ enabled \subseteq Channels
  /\ deleted \subseteq Subscriptions
  /\ started \subseteq Instances /\ up \subseteq started
  /\ phase \in [Dispatchers -> Phase]
  /\ due \in [Dispatchers -> SUBSET Reminders]
  /\ scanned \in [Dispatchers -> SUBSET Channels]
  /\ claimNow \in [Dispatchers -> Nat]
  /\ todo \in [Dispatchers -> SUBSET Reminders]
  /\ claimed \in [Dispatchers -> SUBSET Reminders]
  /\ job \in [Dispatchers -> [Reminders -> Job]]
  /\ accepted \in [Reminders -> Nat] /\ lapsed \subseteq Reminders

-----------------------------------------------------------------------------
(* Safety. *)

\* What d believes it holds: rows its claim statement took, jobs it works on.
Holds(d, r) == r \in claimed[d] \/ job[d][r].stage # "none"
LeaseRuns(d) == now < claimNow[d] + LeaseTTL

\* Rows are held only between the claim and the end of the batch.
HeldInPhase ==
  \A d \in Dispatchers :
    /\ claimNow[d] <= now
    /\ phase[d] # "claim" => claimed[d] = {}
    /\ phase[d] # "run" => \A r \in Reminders : job[d][r].stage = "none"

DeletedIsGone ==
  \A r \in Reminders : SubscriptionOf[r] \in deleted => row[r] = NoRow

\* What keeps the row of a running claim away from everybody else: its lock, a
\* retry that is not due yet, its settlement, or its deletion.
Guarded(r, until) ==
  \/ row[r].status = "processing" /\ row[r].lockedUntil >= until
  \/ row[r].status = "pending" /\ row[r].nextAttempt >= until
  \/ row[r].status \in Terminal
  \/ SubscriptionOf[r] \in deleted

HoldersGuarded ==
  \A d \in Dispatchers, r \in Reminders :
    Holds(d, r) /\ LeaseRuns(d) => Guarded(r, claimNow[d] + LeaseTTL)

\* While a claim's lease runs nobody else works on the row, although rows change
\* hands by lapse, release and retry and two dispatchers share one owner id.
\* claimDueNotificationOutbox checks in one statement and updates in another.
LeaseExclusive ==
  \A d, e \in Dispatchers, r \in Reminders :
    Holds(d, r) /\ Holds(e, r) /\ LeaseRuns(d) /\ LeaseRuns(e) => d = e

\* However many times a message goes out, the log shows a reminder sent at most
\* once, and exactly the rows marked sent are logged by the outbox.
SentLoggedOnce ==
  \A r \in Reminders :
    /\ sentLog[r] <= 1
    /\ row[r].status = "sent" => sentLog[r] = 1
    /\ sentLog[r] = 1 => row[r].status \in {"none", "sent"}

\* A channel receives a reminder twice only if a claim on its row ran out before
\* the outcome was recorded: no retry, sibling loop or second scan repeats it.
DuplicateNeedsLapse ==
  \A r \in Reminders : accepted[r] > 1 => r \in lapsed

\* The retry limit holds across crashes, lapsed leases and failing lookups: no
\* row logs more than MaxAttempts failures, and it fails for good only on a
\* claim that was at least the MaxAttempts-th.
FailuresBounded ==
  \A r \in Reminders :
    /\ failedLog[r] <= MaxAttempts
    /\ row[r].status = "failed" => row[r].attempts >= MaxAttempts /\ failedLog[r] > 0

\* A row is locked exactly while it is being processed: a pending row is never
\* stuck behind a lock, an abandoned one always has an instant that frees it.
LockedWhileProcessing ==
  \A r \in Reminders :
    (row[r].status = "processing") <=> (row[r].lockedBy # NoOwner /\ row[r].lockedUntil > 0)

\* The inductive invariant behind LeaseExclusive.
LeaseInv == HeldInPhase /\ DeletedIsGone /\ HoldersGuarded /\ LeaseExclusive

\* A settled row never changes again, except that it disappears with its
\* subscription: a late outcome never overwrites an expiry or a cancellation.
SettledForGood ==
  [][\A r \in Reminders : row[r].status \in Terminal =>
        row'[r] = row[r] \/ SubscriptionOf[r] \in deleted' \ deleted]_vars

-----------------------------------------------------------------------------
(* The promise to the user. *)

\* What a row says of its reminder.
Progress(r) ==
  IF SubscriptionOf[r] \in deleted THEN "gone"
  ELSE IF row[r].status = "none" THEN "absent"
  ELSE IF row[r].status \in Open THEN "open"
  ELSE IF row[r].status = "sent" THEN "delivered"
  ELSE "dropped"

Delivery == INSTANCE ReminderDelivery WITH
  Receipted <- LegacySent,
  state <- [r \in Reminders |-> Progress(r)],
  receipts <- sentLog

\* The table, the log and all the dispatchers together do no more than the
\* abstract delivery allows: one take-up, one receipt, no way back.
DeliveryPromise == Delivery!Spec

-----------------------------------------------------------------------------
(* Liveness. *)

\* No process lifetime is left to start and none runs: the bound of the model.
AllStopped == started = Instances /\ up = {}

\* Every row that was enqueued is settled: whoever crashed with it, however
\* often a channel refuses it, its expiry closes it at the latest.  An expiry
\* after Horizon is beyond the bound on the clock.
OpenRowsClose ==
  \A r \in Reminders :
    (row[r].status \in Open /\ row[r].expiresAt <= Horizon) ~>
      (row[r].status \notin Open \/ AllStopped)
==============================================================================
