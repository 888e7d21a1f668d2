-------------------------- MODULE ScheduledBackup --------------------------
(***************************************************************************)
(* Local backups of subdux (internal/service/backup.go): the workers of    *)
(* the instances that share a database try every minute whether the daily  *)
(* backup is due, under the lease of TaskLease, and an administrator may   *)
(* ask for one at any time, without the lease.  Both write an archive into *)
(* one directory and prune it to the newest ones.                          *)
(*                                                                         *)
(* files is the directory ordered by modification time, oldest first.      *)
(***************************************************************************)
EXTENDS Integers, FiniteSets, SequencesExt

CONSTANTS
  Workers,      \* scheduled workers, one to a process life (an owner id)
  Admins,       \* requests to POST /backup/run that may be in flight at a time
  TTL, MaxRun, MaxTime, \* as in TaskLease
  DayLength,    \* clock units in a day
  Settings,     \* settings an administrator saves: enabled, at (time of day), keep
  MaxRequests,  \* bound on the administrator's requests
  MaxFailures,  \* bound on statements and file operations that fail
  MaxStops      \* bound on processes that end

ASSUME BackupAssumption ==
  /\ TTL \in Nat /\ MaxRun \in Nat /\ MaxTime \in Nat
  /\ DayLength \in Nat \ {0} /\ MaxRequests \in Nat /\ MaxFailures \in Nat
  /\ Settings \subseteq [enabled : BOOLEAN, at : 0..(DayLength - 1), keep : Nat \ {0}]
  /\ IsFiniteSet(Workers) /\ IsFiniteSet(Admins) /\ Workers \cap Admins = {}
  /\ MaxStops < Cardinality(Workers) /\ IsFiniteSet(Settings) /\ Settings # {}

Actors == Workers \cup Admins
Never  == -1

VARIABLES
  now, lease,
  settings,  \* the saved backup settings
  lastRun,   \* the day stamped as backed up (backup_last_run_at), or Never
  status,    \* backup_last_status
  files,     \* the directory: [id, complete], oldest first
  job,       \* [Actors -> what it is doing]
  made,      \* archives begun, which numbers them
  requests, failed, stopped,
  newest,    \* history: the archive completed last, 0 for none
  overlap,   \* history: two backups have been in progress at a time
  succeeded  \* history: [days -> runs that succeeded for the day]

vars == <<now, lease, settings, lastRun, status, files, job, made, requests, failed, stopped,
          newest, overlap, succeeded>>
bounds  == <<requests, failed, stopped>>
disk    == <<files, made, newest, overlap>>
runtime == <<lastRun, status, succeeded>>

Days == 0..(MaxTime \div DayLength)
Idle == [stage |-> "idle", began |-> 0, day |-> 0, keep |-> 0, id |-> 0, stale |-> << >>]

Stage(a) == job[a].stage
To(a, stage) == job' = [job EXCEPT ![a].stage = stage]
Rest(a) == job' = [job EXCEPT ![a] = Idle]
Today == now \div DayLength

Init ==
  /\ now = 0 /\ lease = {}
  /\ settings \in Settings
  /\ lastRun = Never /\ status = "none"
  /\ files = << >> /\ made = 0
  /\ job = [a \in Actors |-> Idle]
  /\ requests = 0 /\ failed = 0 /\ stopped = 0
  /\ newest = 0 /\ overlap = FALSE /\ succeeded = [d \in Days |-> 0]

InRun(w) == Stage(w) \notin {"idle", "gone", "insert", "update"}
InCall(w) == Stage(w) \notin {"idle", "gone"}

Tick ==
  /\ now < MaxTime
  /\ \A w \in Workers : InCall(w) => now < job[w].began + MaxRun
  /\ now' = now + 1
  /\ UNCHANGED <<lease, settings, job, disk, runtime, bounds>>

\* UpdateSettings, one transaction.
UpdateSettings ==
  /\ requests < MaxRequests /\ requests' = requests + 1
  /\ settings' \in Settings \ {settings}
  /\ UNCHANGED <<now, lease, job, disk, runtime, failed, stopped>>
-----------------------------------------------------------------------------
(* The lease: withBackgroundTaskLease                                      *)

BeginCall(w) ==
  /\ Stage(w) = "idle"
  /\ job' = [job EXCEPT ![w] = [Idle EXCEPT !.stage = "insert", !.began = now]]
  /\ UNCHANGED <<now, lease, settings, disk, runtime, bounds>>

Granted(w) == [owner |-> w, until |-> job[w].began + TTL]

InsertLease(w) ==
  /\ Stage(w) = "insert"
  /\ \/ lease = {} /\ lease' = {Granted(w)} /\ To(w, "check")
     \/ lease # {} /\ lease' = lease /\ To(w, "update")
  /\ UNCHANGED <<now, settings, disk, runtime, bounds>>

\* Bug: whoever asks gets the lease.
Bug_Reclaimable(w) == lease # {}

Reclaimable(w) == \E l \in lease : l.until <= job[w].began \/ l.owner = w

UpdateLease(w) ==
  /\ Stage(w) = "update"
  /\ \/ Reclaimable(w) /\ lease' = {Granted(w)} /\ To(w, "check")
     \/ ~Reclaimable(w) /\ lease' = lease /\ Rest(w)
  /\ UNCHANGED <<now, settings, disk, runtime, bounds>>
-----------------------------------------------------------------------------
(* The scheduled run: RunScheduledBackup                                   *)

\* Bug: without a stamp there is nothing to compare with.
Bug_Due == now % DayLength >= settings.at /\ lastRun # Never /\ lastRun < Today

\* backupDue
Due == now % DayLength >= settings.at /\ (lastRun = Never \/ lastRun < Today)

\* The settings and the stamp are read in a row; a change of settings between two
\* of these reads is as one before or after all of them.
CheckDue(w) ==
  /\ Stage(w) = "check"
  /\ IF settings.enabled /\ Due
     THEN job' = [job EXCEPT ![w].stage = "configure", ![w].day = Today]
     ELSE Rest(w)
  /\ UNCHANGED <<now, lease, settings, disk, runtime, bounds>>

StampedDay(w) == job[w].day

\* recordBackupRunSuccess
RecordSuccess(w) ==
  /\ Stage(w) = "stamp"
  /\ lastRun' = StampedDay(w) /\ status' = "success"
  /\ succeeded' = [succeeded EXCEPT ![job[w].day] = @ + 1]
  /\ Rest(w)
  /\ UNCHANGED <<now, lease, settings, disk, bounds>>

\* recordBackupRunFailure: the stamp stays, so that a later tick tries again.
RecordFailure(w) ==
  /\ Stage(w) = "failed"
  /\ status' = "failed"
  /\ Rest(w)
  /\ UNCHANGED <<now, lease, settings, disk, lastRun, succeeded, bounds>>
-----------------------------------------------------------------------------
(* The backup itself: CreateLocalBackup, with and without the lease        *)

AskForBackup(m) ==
  /\ Stage(m) = "idle" /\ requests < MaxRequests
  /\ requests' = requests + 1
  /\ To(m, "configure")
  /\ UNCHANGED <<now, lease, settings, disk, runtime, failed, stopped>>

\* loadBackupRuntimeConfig, once more for a scheduled run.
Configure(a) ==
  /\ Stage(a) = "configure"
  /\ job' = [job EXCEPT ![a].stage = "dump", ![a].keep = settings.keep]
  /\ UNCHANGED <<now, lease, settings, disk, runtime, bounds>>

Busy(a) == Stage(a) \in {"write", "list", "prune"}

\* VACUUM INTO a file elsewhere, then os.Create in the directory.
CreateArchive(a) ==
  /\ Stage(a) = "dump"
  /\ made' = made + 1
  /\ files' = Append(files, [id |-> made', complete |-> FALSE])
  /\ job' = [job EXCEPT ![a].stage = "write", ![a].id = made']
  /\ overlap' = (overlap \/ \E b \in Actors : Busy(b))
  /\ UNCHANGED <<now, lease, settings, newest, runtime, bounds>>

Listed(id) == \E f \in ToSet(files) : f.id = id

\* Each archive has a name of its own.
Without(id) ==
  IF Listed(id) THEN RemoveAt(files, CHOOSE i \in DOMAIN files : files[i].id = id) ELSE files

\* A write makes the archive the newest file, unless it has been pruned meanwhile:
\* then it goes to a file without a name.
Written(id, complete) ==
  IF Listed(id) THEN Append(Without(id), [id |-> id, complete |-> complete]) ELSE files

WriteMore(a) ==
  /\ Stage(a) = "write"
  /\ files' = Written(job[a].id, FALSE)
  /\ UNCHANGED <<now, lease, settings, job, made, newest, overlap, runtime, bounds>>

FinishArchive(a) ==
  /\ Stage(a) = "write"
  /\ files' = Written(job[a].id, TRUE)
  /\ newest' = job[a].id
  /\ To(a, "list")
  /\ UNCHANGED <<now, lease, settings, made, overlap, runtime, bounds>>

\* Bug: the oldest are kept.
Bug_Stale(keep) == SubSeq(files, keep + 1, Len(files))

\* matches[keep:] of the files sorted newest first
Stale(keep) == Reverse(SubSeq(files, 1, Len(files) - keep))

\* applyLocalBackupRetention reads the directory, then removes one by one.
ListFiles(a) ==
  /\ Stage(a) = "list"
  /\ job' = [job EXCEPT ![a].stage = "prune", ![a].stale = Stale(job[a].keep)]
  /\ UNCHANGED <<now, lease, settings, disk, runtime, bounds>>

\* A file that is gone already is no error.
RemoveStale(a) ==
  /\ Stage(a) = "prune" /\ job[a].stale # << >>
  /\ files' = Without(Head(job[a].stale).id)
  /\ job' = [job EXCEPT ![a].stale = Tail(@)]
  /\ UNCHANGED <<now, lease, settings, made, newest, overlap, runtime, bounds>>

Returned(a, stage) == IF a \in Workers THEN To(a, stage) ELSE Rest(a)

EndBackup(a) ==
  /\ Stage(a) = "prune" /\ job[a].stale = << >>
  /\ Returned(a, "stamp")
  /\ UNCHANGED <<now, lease, settings, disk, runtime, bounds>>

\* An error before the archive is complete removes it; an error of the retention
\* keeps it and is reported all the same.
BackupFails(a) ==
  /\ Stage(a) \in {"configure", "dump", "write", "list", "prune"}
  /\ failed < MaxFailures /\ failed' = failed + 1
  /\ files' = IF Stage(a) = "write" THEN Without(job[a].id) ELSE files
  /\ Returned(a, "failed")
  /\ UNCHANGED <<now, lease, settings, made, newest, overlap, runtime, requests, stopped>>
-----------------------------------------------------------------------------
\* A statement around the backup fails: the call returns.
StatementFails(w) ==
  /\ Stage(w) \in {"insert", "update", "check", "stamp", "failed"}
  /\ failed < MaxFailures /\ failed' = failed + 1
  /\ Rest(w)
  /\ UNCHANGED <<now, lease, settings, disk, runtime, requests, stopped>>

\* A process ends; what it was writing stays in the directory.  The bound leaves
\* the clock room for its lease to lapse.
Stop(a) ==
  /\ stopped < MaxStops /\ stopped' = stopped + 1
  /\ now + TTL < MaxTime
  /\ Stage(a) # IF a \in Workers THEN "gone" ELSE "idle"
  /\ job' = [job EXCEPT ![a] = [Idle EXCEPT !.stage = IF a \in Workers THEN "gone" ELSE "idle"]]
  /\ UNCHANGED <<now, lease, settings, disk, runtime, requests, failed>>

BackupStep(a) ==
  \/ Configure(a) \/ CreateArchive(a) \/ FinishArchive(a) \/ ListFiles(a) \/ RemoveStale(a)
  \/ EndBackup(a)

CallStep(w) ==
  \/ BeginCall(w) \/ InsertLease(w) \/ UpdateLease(w) \/ CheckDue(w)
  \/ RecordSuccess(w) \/ RecordFailure(w)

Next ==
  \/ Tick \/ UpdateSettings
  \/ \E w \in Workers : CallStep(w) \/ StatementFails(w)
  \/ \E m \in Admins : AskForBackup(m)
  \/ \E a \in Actors : BackupStep(a) \/ WriteMore(a) \/ BackupFails(a) \/ Stop(a)

\* Time passes; a worker that lives ticks every minute and its statements and file
\* operations return (startScheduledBackupWorker).
Fairness ==
  /\ WF_vars(Tick)
  /\ \A w \in Workers : WF_vars(CallStep(w) \/ BackupStep(w))

Spec == Init /\ [][Next]_vars
FairSpec == Spec /\ Fairness
-----------------------------------------------------------------------------
Stages == {"idle", "insert", "update", "check", "configure", "dump", "write", "list", "prune",
           "stamp", "failed", "gone"}
File == [id : Nat \ {0}, complete : BOOLEAN]

TypeOK ==
  /\ now \in 0..MaxTime
  /\ lease \subseteq [owner : Workers, until : Nat]
  /\ settings \in Settings
  /\ lastRun \in Days \cup {Never} /\ status \in {"none", "success", "failed"}
  /\ files \in Seq(File) /\ \A i, j \in DOMAIN files : files[i].id = files[j].id => i = j
  /\ DOMAIN job = Actors
  /\ \A a \in Actors : Stage(a) \in Stages /\ job[a].day \in Days /\ job[a].stale \in Seq(File)
  /\ made \in Nat /\ requests \in 0..MaxRequests /\ failed \in 0..MaxFailures
  /\ newest \in 0..made /\ overlap \in BOOLEAN /\ DOMAIN succeeded = Days

\* The lease of this task is that of TaskLease, with the stages of a run folded.
Lease == INSTANCE TaskLease WITH
  Instances <- Workers,
  call <- [w \in Workers |->
             [stage |-> IF InRun(w) THEN "run" ELSE Stage(w), began |-> job[w].began]]
KeepsLease == Lease!Spec

\* One instance at a time makes the scheduled backup (withBackgroundTaskLease).
OneRuns == Lease!OneRuns

\* No day is backed up by schedule twice (backupDue: "no successful run has been
\* recorded for today yet"), whichever instances ran, failed or ended meanwhile.
OncePerDay == \A d \in Days : succeeded[d] <= 1

\* The day that is stamped has been backed up by a run that found it due, and no
\* later day has (recordBackupRunSuccess takes the time read before the backup).
StampedDayIsDone ==
  /\ lastRun # Never => succeeded[lastRun] > 0
  /\ \A d \in Days : succeeded[d] > 0 => d <= lastRun

\* The backup that was completed last is in the directory: retention only takes
\* older ones (admin.ts: "Number of most recent backups to keep. Older ones are
\* pruned automatically.").
MostRecentKept == newest # 0 => \E f \in ToSet(files) : f.id = newest /\ f.complete

\* Backups that come one after another keep the most recent one, whatever fails
\* and stops in between.
SerialBackupsKeepIt == ~overlap => MostRecentKept

\* The directory does not fill up: beside the files to keep there are those being
\* written or pruned and those a failure or a stop has left.
DirectoryBounded ==
  Len(files) <= Max({s.keep : s \in Settings})
                + Cardinality({a \in Actors : Busy(a)}) + failed + stopped

\* Once the clock rests past the time of day and the settings are enabled, the day
\* is backed up, also after failures, stops and leases of instances that ended.
DayIsBackedUp ==
  [](now = MaxTime /\ settings.enabled /\ now % DayLength >= settings.at =>
       <>(lastRun = Today \/ ~settings.enabled \/ now % DayLength < settings.at))

\* Retention, which several backups may run at once over one directory: it keeps the newest
\* archive when they come one after the other, and the directory does not grow.
RetentionKeeps ==
    SerialBackupsKeepIt /\ DirectoryBounded

\* Each day is backed up once and in the end at all, and a day that is stamped has its
\* archive, although runs fail, cross midnight and are taken over.
EachDayOnce ==
    []OncePerDay /\ []StampedDayIsDone /\ DayIsBackedUp
=============================================================================
