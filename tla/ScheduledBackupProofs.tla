----------------------- MODULE ScheduledBackupProofs -----------------------
(***************************************************************************)
(* Proof that the scheduled backup, whatever a run does and wherever it    *)
(* fails, uses the lease as TaskLease says, and that therefore one worker  *)
(* at a time backs up as long as its call is shorter than the lease; that  *)
(* a day is backed up once; and that retention keeps the newest archive of *)
(* backups that do not overlap and bounds the directory of any.            *)
(***************************************************************************)
EXTENDS ScheduledBackup, SequenceTheorems, FiniteSetTheorems, TLAPS

\* The theorems of the lease under the mapping of Lease.
Leased == INSTANCE TaskLeaseProofs WITH
  Instances <- Workers,
  call <- [w \in Workers |->
             [stage |-> IF InRun(w) THEN "run" ELSE Stage(w), began |-> job[w].began]]

\* The mapping reads two fields of a worker's job; the rest has to be there.
Shape(j) == j = [stage |-> j.stage, began |-> j.began, day |-> j.day, keep |-> j.keep,
                 id |-> j.id, stale |-> j.stale]

JobInv ==
  /\ job = [a \in Actors |-> job[a]]
  /\ \A a \in Actors : Shape(job[a]) /\ Stage(a) \in Stages

\* What the lease sees of a worker.
Seen(w) == [stage |-> IF InRun(w) THEN "run" ELSE Stage(w), began |-> job[w].began]
SeenCalls == [w \in Workers |-> Seen(w)]

\* Jobs the actions make of a job: another stage s, and at most one more field.
Onward(r, s, v) ==
  {[r EXCEPT !.stage = s], [r EXCEPT !.stage = s, !.day = v], [r EXCEPT !.stage = s, !.keep = v],
   [r EXCEPT !.stage = s, !.id = v], [r EXCEPT !.stage = s, !.stale = v]}

LEMMA Reshaped ==
  ASSUME NEW r, Shape(r), NEW s, NEW v, NEW j \in Onward(r, s, v)
  PROVE  Shape(j) /\ j.stage = s /\ j.began = r.began
  <1> DEFINE k == [r EXCEPT !.stage = s]
  <1>1. Shape(k) /\ k.stage = s /\ k.began = r.began
    BY DEF Shape
  <1>2. \/ j = k \/ j = [k EXCEPT !.day = v] \/ j = [k EXCEPT !.keep = v]
        \/ j = [k EXCEPT !.id = v] \/ j = [k EXCEPT !.stale = v]
    BY DEF Shape, Onward
  <1> HIDE DEF k
  <1> QED
    BY <1>1, <1>2 DEF Shape

\* The job of a call that begins.
LEMMA Begun ==
  LET j == [Idle EXCEPT !.stage = "insert", !.began = now]
  IN Shape(j) /\ j.stage = "insert" /\ j.began = now
  <1> DEFINE k == [Idle EXCEPT !.stage = "insert"]
             l == [k EXCEPT !.began = now]
  <1>1. Shape(k) /\ k.stage = "insert"
    BY DEF Shape, Idle
  <1>2. l = [Idle EXCEPT !.stage = "insert", !.began = now]
    BY DEF Idle
  <1> HIDE DEF k
  <1>3. Shape(l) /\ l.stage = "insert" /\ l.began = now
    BY <1>1 DEF Shape
  <1> HIDE DEF l
  <1> QED
    BY <1>2, <1>3

LEMMA InitMaps == Init => JobInv /\ Lease!Init
  <1> SUFFICES ASSUME Init PROVE JobInv /\ Lease!Init
    OBVIOUS
  <1>1. \A a \in Actors : job[a] = Idle
    BY DEF Init
  <1>2. JobInv
    BY <1>1 DEF Init, JobInv, Shape, Idle, Stage, Stages
  <1>3. \A w \in Workers : ~InRun(w) /\ Stage(w) = "idle" /\ job[w].began = 0
    BY <1>1 DEF Actors, Idle, InRun, Stage
  <1>4. SeenCalls = [w \in Workers |-> [stage |-> "idle", began |-> 0]]
    BY <1>3 DEF SeenCalls, Seen
  <1> QED
    BY <1>2, <1>4 DEF Init, Lease!Init, Lease!Idle, SeenCalls, Seen

\* A step that gives one actor another job keeps the jobs well-formed and changes
\* what the lease sees of that actor alone.
LEMMA OneJob ==
  ASSUME JobInv, NEW a \in Actors, NEW j, Shape(j), j.stage \in Stages,
         job' = [job EXCEPT ![a] = j]
  PROVE  /\ JobInv'
         /\ a \in Workers =>
              SeenCalls' = [SeenCalls EXCEPT ![a] =
                 [stage |-> IF j.stage \notin {"idle", "gone", "insert", "update"}
                            THEN "run" ELSE j.stage, began |-> j.began]]
         /\ a \notin Workers => SeenCalls' = SeenCalls
  BY DEF JobInv, Shape, Stage, SeenCalls, Seen, InRun, Actors

\* Steps that move an actor within a run are steps the lease does not see.
LEMMA WithinRun ==
  ASSUME JobInv, NEW a \in Actors, NEW j, Shape(j), j.stage \in Stages,
         j.began = job[a].began,
         a \in Workers => /\ InRun(a)
                          /\ j.stage \notin {"idle", "gone", "insert", "update"},
         job' = [job EXCEPT ![a] = j], UNCHANGED <<now, lease>>
  PROVE  JobInv' /\ UNCHANGED Lease!vars
  <1>1. JobInv'
    BY OneJob
  <1>2. CASE a \in Workers
    <2>1. SeenCalls' = [SeenCalls EXCEPT ![a] = [stage |-> "run", began |-> job[a].began]]
      BY <1>2, OneJob
    <2>2. SeenCalls[a] = [stage |-> "run", began |-> job[a].began]
      BY <1>2 DEF SeenCalls, Seen
    <2>3. SeenCalls' = SeenCalls
      BY <2>1, <2>2 DEF SeenCalls
    <2> QED
      BY <1>1, <2>3 DEF Lease!vars, SeenCalls, Seen
  <1>3. CASE a \notin Workers
    <2>1. SeenCalls' = SeenCalls
      BY <1>3, OneJob
    <2> QED
      BY <1>1, <2>1 DEF Lease!vars, SeenCalls, Seen
  <1> QED
    BY <1>2, <1>3

\* A worker whose call returns ends it for the lease.
LEMMA CallReturns ==
  ASSUME JobInv, NEW w \in Workers, InCall(w), Rest(w), UNCHANGED <<now, lease>>
  PROVE  JobInv' /\ Lease!End(w)
  <1>1. Shape(Idle) /\ Idle.stage \in Stages /\ w \in Actors
    BY DEF Shape, Idle, Stages, Actors
  <1>2. job' = [job EXCEPT ![w] = Idle] /\ Idle.stage = "idle" /\ Idle.began = 0
    BY DEF Rest, Idle
  <1>. HIDE DEF Idle
  <1>3. JobInv' /\ SeenCalls' = [SeenCalls EXCEPT ![w] = [stage |-> "idle", began |-> 0]]
    BY <1>1, <1>2, OneJob
  <1>4. SeenCalls[w].stage \in {"insert", "update", "run"}
    BY DEF SeenCalls, Seen, InRun, InCall, JobInv, Stages, Actors
  <1> QED
    BY <1>3, <1>4 DEF Lease!End, Lease!InCall, Lease!Idle, SeenCalls, Seen

\* Every step of a worker's call is one of the lease, or one within the run.
LEMMA CallSteps ==
  ASSUME JobInv, NEW w \in Workers, CallStep(w) \/ StatementFails(w)
  PROVE  JobInv' /\ (Lease!Step(w) \/ UNCHANGED Lease!vars)
  <1>0. w \in Actors /\ Shape(job[w]) /\ SeenCalls[w] = Seen(w)
    BY DEF JobInv, Actors, SeenCalls
  <1>1. CASE BeginCall(w)
    <2> DEFINE j == [Idle EXCEPT !.stage = "insert", !.began = now]
    <2>1. Shape(j) /\ j.stage = "insert" /\ j.began = now
      BY Begun
    <2>2. job' = [job EXCEPT ![w] = j]
      BY <1>1 DEF BeginCall
    <2> HIDE DEF j
    <2>3. JobInv' /\ SeenCalls' = [SeenCalls EXCEPT ![w] = [stage |-> "insert", began |-> now]]
      BY <1>0, <2>1, <2>2, OneJob DEF Stages
    <2>4. SeenCalls[w].stage = "idle"
      BY <1>0, <1>1 DEF BeginCall, Seen, InRun
    <2> QED
      BY <1>1, <2>3, <2>4 DEF BeginCall, Lease!Step, Lease!Begin, SeenCalls, Seen
  <1>2. ASSUME NEW stage \in Stages \ {"idle", "gone"}, To(w, stage)
        PROVE  JobInv' /\ SeenCalls' = [SeenCalls EXCEPT ![w].stage =
                                         IF stage \in {"insert", "update"} THEN stage ELSE "run"]
    <2> DEFINE j == [job[w] EXCEPT !.stage = stage]
    <2>1. Shape(j) /\ j.stage = stage /\ j.began = job[w].began
      BY <1>0 DEF Shape
    <2>2. job' = [job EXCEPT ![w] = j]
      BY <1>2 DEF To
    <2> HIDE DEF j
    <2>3. /\ JobInv'
          /\ SeenCalls' = [SeenCalls EXCEPT ![w] =
               [stage |-> IF j.stage \notin {"idle", "gone", "insert", "update"}
                          THEN "run" ELSE j.stage, began |-> j.began]]
      BY <1>0, <1>2, <2>1, <2>2, OneJob
    <2>4. SeenCalls' = [SeenCalls EXCEPT ![w] =
             [stage |-> IF stage \in {"insert", "update"} THEN stage ELSE "run",
              began |-> job[w].began]]
      BY <1>2, <2>1, <2>3
    <2> QED
      BY <1>0, <2>3, <2>4 DEF Seen, SeenCalls
  <1>3. CASE InsertLease(w)
    <2>1. SeenCalls[w].stage = "insert" /\ SeenCalls[w].began = job[w].began
      BY <1>0, <1>3 DEF InsertLease, Seen, InRun
    <2>2. CASE lease = {} /\ lease' = {Granted(w)} /\ To(w, "check")
      <3>1. JobInv' /\ SeenCalls' = [SeenCalls EXCEPT ![w].stage = "run"]
        BY <1>2, <2>2 DEF Stages
      <3> QED
        BY <1>3, <2>1, <2>2, <3>1
        DEF InsertLease, Granted, Lease!Step, Lease!InsertLease, Lease!Granted, SeenCalls, Seen
    <2>3. CASE lease # {} /\ lease' = lease /\ To(w, "update")
      <3>1. JobInv' /\ SeenCalls' = [SeenCalls EXCEPT ![w].stage = "update"]
        BY <1>2, <2>3 DEF Stages
      <3> QED
        BY <1>3, <2>1, <2>3, <3>1
        DEF InsertLease, Lease!Step, Lease!InsertLease, SeenCalls, Seen
    <2> QED
      BY <1>3, <2>2, <2>3 DEF InsertLease
  <1>4. CASE UpdateLease(w)
    <2>1. SeenCalls[w].stage = "update" /\ SeenCalls[w].began = job[w].began
      BY <1>0, <1>4 DEF UpdateLease, Seen, InRun
    <2>2. CASE Reclaimable(w) /\ lease' = {Granted(w)} /\ To(w, "check")
      <3>1. JobInv' /\ SeenCalls' = [SeenCalls EXCEPT ![w].stage = "run"]
        BY <1>2, <2>2 DEF Stages
      <3> QED
        BY <1>4, <2>1, <2>2, <3>1
        DEF UpdateLease, Granted, Reclaimable, Lease!Step, Lease!UpdateLease, Lease!Granted,
            Lease!Reclaimable, SeenCalls, Seen
    <2>3. CASE ~Reclaimable(w) /\ lease' = lease /\ Rest(w)
      BY <1>4, <2>3, CallReturns DEF UpdateLease, InCall, Lease!Step
    <2> QED
      BY <1>4, <2>2, <2>3 DEF UpdateLease
  <1>5. CASE CheckDue(w)
    <2>1. CASE settings.enabled /\ Due
      <3> DEFINE j == [job[w] EXCEPT !.stage = "configure", !.day = Today]
      <3>1. j \in Onward(job[w], "configure", Today)
        BY DEF Onward
      <3>2. job' = [job EXCEPT ![w] = j] /\ InRun(w)
        BY <1>5, <2>1 DEF CheckDue, InRun
      <3> HIDE DEF j
      <3>3. Shape(j) /\ j.stage = "configure" /\ j.began = job[w].began
        BY <1>0, <3>1, Reshaped
      <3> QED
        BY <1>0, <1>5, <3>2, <3>3, WithinRun DEF CheckDue, Stages
    <2>2. CASE ~(settings.enabled /\ Due)
      BY <1>5, <2>2, CallReturns DEF CheckDue, InCall, Lease!Step
    <2> QED
      BY <2>1, <2>2
  <1>6. CASE RecordSuccess(w)
    BY <1>6, CallReturns DEF RecordSuccess, InCall, Lease!Step
  <1>7. CASE RecordFailure(w)
    BY <1>7, CallReturns DEF RecordFailure, InCall, Lease!Step
  <1>8. CASE StatementFails(w)
    BY <1>8, CallReturns DEF StatementFails, InCall, Lease!Step
  <1> QED
    BY <1>1, <1>3, <1>4, <1>5, <1>6, <1>7, <1>8 DEF CallStep

\* Steps of the backup itself: within a worker's run, or of an administrator.
LEMMA BackupSteps ==
  ASSUME BackupAssumption, JobInv, NEW a \in Actors,
         BackupStep(a) \/ WriteMore(a) \/ BackupFails(a) \/ (a \in Admins /\ AskForBackup(a))
  PROVE  JobInv' /\ ((a \in Workers /\ Lease!End(a)) \/ UNCHANGED Lease!vars)
  <1> DEFINE Inner == {"configure", "dump", "write", "list", "prune", "stamp", "failed"}
  <1>0. Shape(job[a]) /\ (a \in Admins => a \notin Workers)
    BY DEF JobInv, BackupAssumption
  \* A step from a stage of the run to another.
  <1>1. ASSUME NEW s \in Inner, NEW v, NEW j \in Onward(job[a], s, v),
               job' = [job EXCEPT ![a] = j],
               a \in Workers => Stage(a) \in Inner, UNCHANGED <<now, lease>>
        PROVE  JobInv' /\ UNCHANGED Lease!vars
    <2>1. Shape(j) /\ j.stage = s /\ j.began = job[a].began
      BY <1>0, <1>1, Reshaped
    <2>2. s \in Stages /\ s \notin {"idle", "gone", "insert", "update"}
      BY DEF Stages
    <2>3. a \in Workers => InRun(a)
      BY <1>1 DEF InRun
    <2> QED
      BY <1>1, <2>1, <2>2, <2>3, WithinRun
  <1>2. ASSUME NEW s \in Inner, To(a, s), a \in Workers => Stage(a) \in Inner,
               UNCHANGED <<now, lease>>
        PROVE  JobInv' /\ UNCHANGED Lease!vars
    <2>1. /\ [job[a] EXCEPT !.stage = s] \in Onward(job[a], s, 0)
          /\ job' = [job EXCEPT ![a] = [job[a] EXCEPT !.stage = s]]
      BY <1>2 DEF To, Onward
    <2> QED
      BY <1>1, <1>2, <2>1
  <1>3. ASSUME Rest(a), a \in Admins, UNCHANGED <<now, lease>>
        PROVE  JobInv' /\ UNCHANGED Lease!vars
    <2>1. Shape(Idle) /\ Idle.stage \in Stages /\ job' = [job EXCEPT ![a] = Idle]
      BY <1>3 DEF Shape, Idle, Stages, Rest
    <2>2. JobInv' /\ SeenCalls' = SeenCalls
      BY <1>0, <1>3, <2>1, OneJob
    <2> QED
      BY <1>3, <2>2 DEF Lease!vars, SeenCalls, Seen
  <1>4. CASE Configure(a)
    <2>1. [job[a] EXCEPT !.stage = "dump", !.keep = settings.keep]
            \in Onward(job[a], "dump", settings.keep)
      BY DEF Onward
    <2>2. /\ job' = [job EXCEPT ![a] = [job[a] EXCEPT !.stage = "dump", !.keep = settings.keep]]
          /\ Stage(a) \in Inner /\ UNCHANGED <<now, lease>>
      BY <1>4 DEF Configure
    <2> QED
      BY <1>1, <2>1, <2>2
  <1>5. CASE CreateArchive(a)
    <2>1. [job[a] EXCEPT !.stage = "write", !.id = made'] \in Onward(job[a], "write", made')
      BY DEF Onward
    <2>2. /\ job' = [job EXCEPT ![a] = [job[a] EXCEPT !.stage = "write", !.id = made']]
          /\ Stage(a) \in Inner /\ UNCHANGED <<now, lease>>
      BY <1>5 DEF CreateArchive
    <2> QED
      BY <1>1, <2>1, <2>2
  <1>6. CASE WriteMore(a)
    BY <1>6 DEF WriteMore, JobInv, Stage, InRun, Lease!vars, Stages
  <1>7. CASE FinishArchive(a)
    BY <1>2, <1>7 DEF FinishArchive
  <1>8. CASE ListFiles(a)
    <2>1. [job[a] EXCEPT !.stage = "prune", !.stale = Stale(job[a].keep)]
            \in Onward(job[a], "prune", Stale(job[a].keep))
      BY DEF Onward
    <2>2. /\ job' = [job EXCEPT ![a] = [job[a] EXCEPT !.stage = "prune",
                                                       !.stale = Stale(job[a].keep)]]
          /\ Stage(a) \in Inner /\ UNCHANGED <<now, lease>>
      BY <1>8 DEF ListFiles
    <2> QED
      BY <1>1, <2>1, <2>2
  <1>9. CASE RemoveStale(a)
    <2>1. /\ [job[a] EXCEPT !.stale = Tail(@)] \in Onward(job[a], "prune", Tail(job[a].stale))
          /\ Stage(a) \in Inner
      BY <1>0, <1>9 DEF RemoveStale, Onward, Stage, Shape
    <2> QED
      BY <1>1, <1>9, <2>1 DEF RemoveStale
  <1>10. CASE EndBackup(a)
    BY <1>2, <1>3, <1>10 DEF EndBackup, Returned, Actors
  <1>11. CASE BackupFails(a)
    BY <1>2, <1>3, <1>11 DEF BackupFails, Returned, Actors
  <1>12. CASE a \in Admins /\ AskForBackup(a)
    BY <1>0, <1>2, <1>12 DEF AskForBackup
  <1> QED
    BY <1>4, <1>5, <1>6, <1>7, <1>8, <1>9, <1>10, <1>11, <1>12 DEF BackupStep

LEMMA StopStep ==
  ASSUME BackupAssumption, JobInv, NEW a \in Actors, Stop(a)
  PROVE  JobInv' /\ ((a \in Workers /\ Lease!Stop(a)) \/ UNCHANGED Lease!vars)
  <1> DEFINE s == IF a \in Workers THEN "gone" ELSE "idle"
             j == [Idle EXCEPT !.stage = s]
  <1>1. Shape(j) /\ j.stage = s /\ j.began = 0 /\ s \in Stages
    BY DEF Shape, Idle, Stages
  <1>2. job' = [job EXCEPT ![a] = j] /\ UNCHANGED <<now, lease>>
    BY DEF Stop
  <1> HIDE DEF j
  <1>3. CASE a \in Workers
    <2>1. JobInv' /\ SeenCalls' = [SeenCalls EXCEPT ![a] = [stage |-> "gone", began |-> 0]]
      BY <1>1, <1>2, <1>3, OneJob
    <2>2. SeenCalls[a].stage # "gone"
      BY <1>3 DEF SeenCalls, Seen, Stop, InRun
    <2> QED
      BY <1>2, <1>3, <2>1, <2>2 DEF Lease!Stop, SeenCalls, Seen
  <1>4. CASE a \notin Workers
    <2>1. JobInv' /\ SeenCalls' = SeenCalls
      BY <1>1, <1>2, <1>4, OneJob
    <2> QED
      BY <1>2, <2>1 DEF Lease!vars, SeenCalls, Seen
  <1> QED
    BY <1>3, <1>4

LEMMA StepMaps ==
  ASSUME BackupAssumption, JobInv, [Next]_vars
  PROVE  JobInv' /\ [Lease!Next]_Lease!vars
  <1>1. ASSUME NEW w \in Workers, CallStep(w) \/ StatementFails(w)
        PROVE  JobInv' /\ [Lease!Next]_Lease!vars
    BY <1>1, CallSteps DEF Lease!Next
  <1>2. ASSUME NEW a \in Actors,
               BackupStep(a) \/ WriteMore(a) \/ BackupFails(a) \/ (a \in Admins /\ AskForBackup(a))
        PROVE  JobInv' /\ [Lease!Next]_Lease!vars
    BY <1>2, BackupSteps DEF Lease!Next, Lease!Step
  <1>3. ASSUME NEW a \in Actors, Stop(a) PROVE JobInv' /\ [Lease!Next]_Lease!vars
    BY <1>3, StopStep DEF Lease!Next, Lease!Step
  <1>4. CASE Tick
    <2>1. JobInv' /\ SeenCalls' = SeenCalls
      BY <1>4 DEF Tick, JobInv, Stage, SeenCalls, Seen, InRun
    <2>2. \A w \in Workers : SeenCalls[w].stage \in {"insert", "update", "run"} =>
                               now < SeenCalls[w].began + MaxRun
      BY <1>4 DEF Tick, InCall, SeenCalls, Seen, InRun, Stage
    <2>3. Lease!Tick
      BY <1>4, <2>1, <2>2 DEF Tick, Lease!Tick, Lease!InCall, SeenCalls, Seen
    <2> QED
      BY <2>1, <2>3 DEF Lease!Next
  <1>5. CASE UpdateSettings \/ UNCHANGED vars
    <2>1. UNCHANGED <<now, lease, job>>
      BY <1>5 DEF UpdateSettings, vars
    <2> QED
      BY <2>1 DEF JobInv, Stage, InRun, Lease!vars
  <1>6. ASSUME NEW m \in Admins, AskForBackup(m) PROVE JobInv' /\ [Lease!Next]_Lease!vars
    BY <1>2, <1>6 DEF Actors
  <1>7. CASE \E w \in Workers : CallStep(w) \/ StatementFails(w)
    BY <1>1, <1>7
  <1>8. CASE \E m \in Admins : AskForBackup(m)
    BY <1>6, <1>8
  <1>9. CASE \E a \in Actors : BackupStep(a) \/ WriteMore(a) \/ BackupFails(a) \/ Stop(a)
    <2>1. PICK a \in Actors : BackupStep(a) \/ WriteMore(a) \/ BackupFails(a) \/ Stop(a)
      BY <1>9
    <2>2. CASE BackupStep(a) \/ WriteMore(a) \/ BackupFails(a)
      BY <1>2, <2>2
    <2>3. CASE Stop(a)
      BY <1>3, <2>3
    <2> QED
      BY <2>1, <2>2, <2>3
  <1> QED
    BY <1>4, <1>5, <1>7, <1>8, <1>9 DEF Next

\* Whatever a run does and wherever it fails or stops, the workers take, keep and
\* leave the lease as TaskLease says (withBackgroundTaskLease around
\* RunScheduledBackup).
THEOREM BackupKeepsLease == Spec => KeepsLease
  <1> USE BackupAssumption
  <1>1. Init => JobInv /\ Lease!Init
    BY InitMaps
  <1>2. JobInv /\ [Next]_vars => JobInv' /\ [Lease!Next]_Lease!vars
    BY StepMaps
  <1> QED
    BY <1>1, <1>2, PTL DEF Spec, KeepsLease, Lease!Spec

\* One worker at a time makes the scheduled backup, for any number of workers and
\* administrators, if a call ends before the lease it asked for lapses.
THEOREM OneBackupRuns == Lease!RunsFit => (Spec => []OneRuns)
  <1>1. /\ Lease!RunsFit <=> Leased!RunsFit
        /\ Lease!Init <=> Leased!Init
        /\ [Lease!Next]_Lease!vars <=> [Leased!Next]_Leased!vars
    BY DEF Lease!RunsFit, Leased!RunsFit, Lease!Init, Leased!Init, Lease!Next, Leased!Next,
           Lease!vars, Leased!vars, Lease!Idle, Leased!Idle, Lease!Tick, Leased!Tick,
           Lease!Step, Leased!Step, Lease!InCall, Leased!InCall, Lease!Begin, Leased!Begin,
           Lease!InsertLease, Leased!InsertLease, Lease!UpdateLease, Leased!UpdateLease,
           Lease!Granted, Leased!Granted, Lease!Reclaimable, Leased!Reclaimable,
           Lease!End, Leased!End, Lease!Stop, Leased!Stop
  <1>2. Leased!OneRuns <=> OneRuns
    BY DEF OneRuns, Lease!OneRuns, Leased!OneRuns, Lease!Running, Leased!Running
  <1> QED
    BY <1>1, <1>2, BackupKeepsLease, Leased!LeaseExcludes, PTL
    DEF KeepsLease, Lease!Spec, Leased!Spec

-----------------------------------------------------------------------------
(* The days. *)

\* A run that found its day due and has not recorded it.
Backing == {"configure", "dump", "write", "list", "prune", "stamp"}

\* The day a run is for lies after the day that is stamped, and the days before the stamp
\* are over.
DayInv ==
  /\ now \in Nat /\ now <= MaxTime
  /\ succeeded \in [Days -> Nat] /\ lastRun \in Days \cup {Never}
  /\ \A w \in Workers : Stage(w) \in Backing =>
        job[w].day \in Days /\ (lastRun = Never \/ lastRun < job[w].day)
  /\ OncePerDay /\ StampedDayIsDone

LEMMA TodayIsADay ==
  ASSUME BackupAssumption, now \in Nat, now <= MaxTime
  PROVE  Today \in Days
  <1>1. DayLength \in Nat /\ DayLength > 0 /\ MaxTime \in Nat
    BY DEF BackupAssumption
  <1>2. /\ now \div DayLength \in Int /\ MaxTime \div DayLength \in Int
        /\ DayLength * (now \div DayLength) <= now /\ now < DayLength * (now \div DayLength) + DayLength
        /\ DayLength * (MaxTime \div DayLength) <= MaxTime
        /\ MaxTime < DayLength * (MaxTime \div DayLength) + DayLength
    BY <1>1
  <1>3. ASSUME NEW p \in Int, NEW q \in Int, p < q
        PROVE  DayLength * p + DayLength <= DayLength * q
    BY <1>1, <1>3
  <1>4. ASSUME MaxTime \div DayLength < now \div DayLength PROVE FALSE
    <2>1. DayLength * (MaxTime \div DayLength) + DayLength <= DayLength * (now \div DayLength)
      BY <1>2, <1>3, <1>4
    <2> QED
      BY <1>1, <1>2, <2>1
  <1>5. ASSUME now \div DayLength < 0 PROVE FALSE
    <2>1. DayLength * (now \div DayLength) + DayLength <= DayLength * 0
      BY <1>2, <1>3, <1>5
    <2> QED
      BY <1>1, <1>2, <2>1
  <1> QED
    BY <1>2, <1>4, <1>5 DEF Today, Days

\* A step that leaves the stamp and the counts, and starts no run.
LEMMA DayKept ==
  ASSUME DayInv, UNCHANGED <<lastRun, succeeded>>, now' \in Nat, now' <= MaxTime,
         \A w \in Workers : Stage(w)' \in Backing => Stage(w) \in Backing /\ job'[w].day = job[w].day
  PROVE  DayInv'
  BY DEF DayInv, OncePerDay, StampedDayIsDone

\* Another stage, or another field than the day.
SameDay(r, s, v) ==
  {[r EXCEPT !.stage = s, !.keep = v], [r EXCEPT !.stage = s, !.id = v],
   [r EXCEPT !.stage = s, !.stale = v], [r EXCEPT !.stale = v]}

LEMMA KeepsDay ==
  ASSUME NEW r, Shape(r), NEW s, NEW v, NEW j \in SameDay(r, s, v)
  PROVE  j.day = r.day
  <1> DEFINE k == [r EXCEPT !.stage = s]
  <1>1. Shape(k) /\ k.day = r.day
    BY DEF Shape
  <1>2. j = [k EXCEPT !.keep = v] \/ j = [k EXCEPT !.id = v] \/ j = [k EXCEPT !.stale = v] \/ j = [r EXCEPT !.stale = v]
    BY DEF Shape, SameDay
  <1> HIDE DEF k
  <1> QED
    BY <1>1, <1>2 DEF Shape

LEMMA NewJob ==
  ASSUME JobInv, NEW a \in Actors, NEW j, job' = [job EXCEPT ![a] = j]
  PROVE  job'[a] = j /\ \A w \in Actors : w # a => job'[w] = job[w]
  BY DEF JobInv

\* A job that ends, or goes on within its day.
LEMMA DayOfJob ==
  ASSUME JobInv, DayInv, UNCHANGED <<now, lastRun, succeeded>>, NEW a \in Actors, NEW j,
         job' = [job EXCEPT ![a] = j],
         a \in Workers /\ j.stage \in Backing => Stage(a) \in Backing /\ j.day = job[a].day
  PROVE  DayInv'
  <1>1. job'[a] = j /\ \A w \in Actors : w # a => job'[w] = job[w]
    BY NewJob
  <1>2. \A w \in Workers : Stage(w)' \in Backing => Stage(w) \in Backing /\ job'[w].day = job[w].day
    BY <1>1 DEF Stage, Actors
  <1> QED
    BY <1>2, DayKept DEF DayInv

LEMMA DayOfRest ==
  ASSUME JobInv, DayInv, UNCHANGED <<now, lastRun, succeeded>>, NEW a \in Actors,
         Rest(a) \/ \E s : job' = [job EXCEPT ![a] = [Idle EXCEPT !.stage = s]] /\ s \notin Backing
  PROVE  DayInv'
  <1>1. PICK s : job' = [job EXCEPT ![a] = [Idle EXCEPT !.stage = s]] /\ s \notin Backing
    <2>1. Idle = [Idle EXCEPT !.stage = "idle"] /\ "idle" \notin Backing
      BY DEF Idle, Backing
    <2> QED
      BY <2>1 DEF Rest
  <1>2. [Idle EXCEPT !.stage = s].stage = s
    BY DEF Idle
  <1> QED
    BY <1>1, <1>2, DayOfJob

LEMMA DayOfTo ==
  ASSUME JobInv, DayInv, UNCHANGED <<now, lastRun, succeeded>>, NEW a \in Actors, NEW s, To(a, s),
         a \in Workers /\ s \in Backing => Stage(a) \in Backing
  PROVE  DayInv'
  <1>1. PICK j : j = [job[a] EXCEPT !.stage = s]
    OBVIOUS
  <1>2. job' = [job EXCEPT ![a] = j]
    BY <1>1 DEF To
  <1>3. j.day = job[a].day /\ j.stage = s
    BY <1>1 DEF JobInv, Shape
  <1> QED
    BY <1>2, <1>3, DayOfJob

LEMMA DayOfCall ==
  ASSUME BackupAssumption, JobInv, DayInv, OneRuns, NEW w \in Workers, CallStep(w) \/ StatementFails(w)
  PROVE  DayInv'
  <1>0. w \in Actors
    BY DEF Actors
  <1>1. CASE BeginCall(w)
    <2>1. PICK j : j = [Idle EXCEPT !.stage = "insert", !.began = now]
      OBVIOUS
    <2>2. job' = [job EXCEPT ![w] = j] /\ j.stage = "insert" /\ UNCHANGED <<now, lastRun, succeeded>>
      BY <1>1, <2>1, Begun DEF BeginCall, runtime
    <2> QED
      BY <1>0, <2>2, DayOfJob DEF Backing
  <1>2. CASE InsertLease(w) \/ UpdateLease(w)
    <2>1. UNCHANGED <<now, lastRun, succeeded>> /\ (Rest(w) \/ \E s \in {"check", "update"} : To(w, s))
      BY <1>2 DEF InsertLease, UpdateLease, runtime
    <2> QED
      BY <1>0, <2>1, DayOfRest, DayOfTo DEF Backing
  <1>3. CASE CheckDue(w)
    <2>0. UNCHANGED <<now, lastRun, succeeded>>
      BY <1>3 DEF CheckDue, runtime
    <2>1. CASE settings.enabled /\ Due
      <3>1. PICK j : j = [job[w] EXCEPT !.stage = "configure", !.day = Today]
        OBVIOUS
      <3>2. job' = [job EXCEPT ![w] = j]
        BY <1>3, <2>1, <3>1 DEF CheckDue
      <3>3. j.day = Today
        BY <1>0, <3>1 DEF JobInv, Shape
      <3>4. job'[w] = j /\ \A v \in Actors : v # w => job'[v] = job[v]
        BY <1>0, <3>2, NewJob
      <3>5. Today \in Days /\ (lastRun = Never \/ lastRun < Today)
        BY <2>1, TodayIsADay DEF DayInv, Due
      <3>6. \A v \in Workers : Stage(v)' \in Backing =>
               job'[v].day \in Days /\ (lastRun = Never \/ lastRun < job'[v].day)
        BY <3>3, <3>4, <3>5 DEF DayInv, Stage, Actors
      <3> QED
        BY <2>0, <3>6 DEF DayInv, OncePerDay, StampedDayIsDone
    <2>2. CASE ~(settings.enabled /\ Due)
      BY <1>0, <1>3, <2>0, <2>2, DayOfRest DEF CheckDue
    <2> QED
      BY <2>1, <2>2
  <1>4. CASE RecordSuccess(w)
    <2>1. PICK day : day = job[w].day
      OBVIOUS
    <2>2. /\ lastRun' = day /\ succeeded' = [succeeded EXCEPT ![day] = @ + 1] /\ now' = now
          /\ Stage(w) = "stamp" /\ job' = [job EXCEPT ![w] = Idle]
      BY <1>4, <2>1 DEF RecordSuccess, StampedDay, Rest
    <2>3. day \in Days /\ (lastRun = Never \/ lastRun < day)
      BY <2>1, <2>2 DEF DayInv, Backing
    <2>4. Days \subseteq Int /\ day # Never
      BY <2>3 DEF Days, Never
    <2>5. succeeded[day] = 0
      <3>1. succeeded[day] \in Nat /\ (succeeded[day] > 0 => day <= lastRun) /\ (lastRun = Never => ~(day <= lastRun))
        BY <2>3 DEF DayInv, StampedDayIsDone, Days, Never
      <3>2. lastRun \in Int /\ day \in Int
        BY <2>3, <2>4 DEF DayInv, Never
      <3> QED
        BY <2>3, <3>1, <3>2
    <2>6. /\ succeeded' \in [Days -> Nat] /\ succeeded'[day] = 1
          /\ \A d \in Days : d # day => succeeded'[d] = succeeded[d]
      BY <2>2, <2>3, <2>5 DEF DayInv
    <2>7. OncePerDay'
      BY <2>6 DEF DayInv, OncePerDay
    <2>8. StampedDayIsDone'
      <3>1. ASSUME NEW d \in Days, succeeded'[d] > 0 PROVE d <= day
        <4>1. CASE d = day
          BY <2>4, <4>1
        <4>2. CASE d # day
          <5>1. succeeded[d] > 0 /\ d <= lastRun
            BY <2>6, <3>1, <4>2 DEF DayInv, StampedDayIsDone
          <5>2. lastRun # Never
            BY <2>4, <5>1 DEF Never, Days
          <5>3. d \in Int /\ day \in Int
            BY <2>3, <2>4, <3>1
          <5>4. lastRun \in Int
            <6>1. lastRun \in Days \cup {Never}
              BY DEF DayInv
            <6> QED
              BY <2>4, <6>1 DEF Never
          <5> QED
            BY <2>3, <5>1, <5>2, <5>3, <5>4
        <4> QED
          BY <4>1, <4>2
      <3> QED
        BY <2>2, <2>3, <2>6, <3>1 DEF StampedDayIsDone
    <2>9. ASSUME NEW v \in Workers PROVE Stage(v)' \notin Backing
      <3>1. job'[w] = Idle /\ (v # w => job'[v] = job[v])
        BY <1>0, <2>2, NewJob DEF Actors
      <3>2. CASE v = w
        BY <3>1, <3>2 DEF Stage, Idle, Backing
      <3>3. CASE v # w
        <4>1. InRun(w)
          BY <2>2 DEF InRun
        <4>2. ~InRun(v)
          BY <3>3, <4>1 DEF OneRuns, Lease!OneRuns, Lease!Running
        <4>3. Stage(v)' = Stage(v)
          BY <3>1, <3>3 DEF Stage
        <4> QED
          BY <4>2, <4>3 DEF InRun, Backing
      <3> QED
        BY <3>2, <3>3
    <2> QED
      BY <2>2, <2>3, <2>6, <2>7, <2>8, <2>9 DEF DayInv
  <1>5. CASE RecordFailure(w) \/ StatementFails(w)
    <2>1. Rest(w) /\ UNCHANGED <<now, lastRun, succeeded>>
      BY <1>5 DEF RecordFailure, StatementFails, runtime
    <2> QED
      BY <1>0, <2>1, DayOfRest
  <1> QED
    BY <1>1, <1>2, <1>3, <1>4, <1>5 DEF CallStep

LEMMA DayOfBackup ==
  ASSUME BackupAssumption, JobInv, DayInv, NEW a \in Actors,
         BackupStep(a) \/ WriteMore(a) \/ BackupFails(a) \/ Stop(a) \/ (a \in Admins /\ AskForBackup(a))
  PROVE  DayInv'
  <1>0. UNCHANGED <<now, lastRun, succeeded>> /\ Shape(job[a])
    BY DEF BackupStep, Configure, CreateArchive, FinishArchive, ListFiles, RemoveStale, EndBackup, WriteMore, BackupFails,
           Stop, AskForBackup, runtime, JobInv
  <1>1. ASSUME NEW s, NEW v, NEW j \in SameDay(job[a], s, v), job' = [job EXCEPT ![a] = j], Stage(a) \in Backing
        PROVE  DayInv'
    <2>1. j.day = job[a].day
      BY <1>0, <1>1, KeepsDay
    <2> HIDE DEF Stage
    <2> QED
      BY <1>0, <1>1, <2>1, DayOfJob
  <1>2. CASE Configure(a)
    <2>1. [job[a] EXCEPT !.stage = "dump", !.keep = settings.keep] \in SameDay(job[a], "dump", settings.keep)
      BY DEF SameDay
    <2> QED
      BY <1>1, <1>2, <2>1 DEF Configure, Backing
  <1>3. CASE CreateArchive(a)
    <2>1. [job[a] EXCEPT !.stage = "write", !.id = made'] \in SameDay(job[a], "write", made')
      BY DEF SameDay
    <2> QED
      BY <1>1, <1>3, <2>1 DEF CreateArchive, Backing
  <1>4. CASE FinishArchive(a)
    BY <1>0, <1>4, DayOfTo DEF FinishArchive, Backing
  <1>5. CASE ListFiles(a)
    <2>1. [job[a] EXCEPT !.stage = "prune", !.stale = Stale(job[a].keep)]
            \in SameDay(job[a], "prune", Stale(job[a].keep))
      BY DEF SameDay
    <2> QED
      BY <1>1, <1>5, <2>1 DEF ListFiles, Backing
  <1>6. CASE RemoveStale(a)
    <2>1. PICK v : v = Tail(job[a].stale)
      OBVIOUS
    <2>2. job' = [job EXCEPT ![a] = [job[a] EXCEPT !.stale = v]]
      BY <1>0, <1>6, <2>1 DEF RemoveStale, Shape
    <2>3. [job[a] EXCEPT !.stale = v] \in SameDay(job[a], "prune", v)
      BY DEF SameDay
    <2> QED
      BY <1>1, <1>6, <2>2, <2>3 DEF RemoveStale, Backing
  <1>7. CASE EndBackup(a) \/ BackupFails(a)
    <2>1. Rest(a) \/ To(a, "failed") \/ (To(a, "stamp") /\ Stage(a) \in Backing)
      BY <1>7 DEF EndBackup, BackupFails, Returned, Backing
    <2> QED
      BY <1>0, <2>1, DayOfRest, DayOfTo DEF Backing
  <1>8. CASE WriteMore(a)
    BY <1>0, <1>8, DayKept DEF WriteMore, Stage, DayInv
  <1>9. CASE Stop(a)
    <2>1. \E s \in {"gone", "idle"} : job' = [job EXCEPT ![a] = [Idle EXCEPT !.stage = s]]
      BY <1>9 DEF Stop
    <2> QED
      BY <1>0, <2>1, DayOfRest DEF Backing
  <1>10. CASE a \in Admins /\ AskForBackup(a)
    <2>1. a \notin Workers
      BY <1>10 DEF BackupAssumption
    <2> QED
      BY <1>0, <1>10, <2>1, DayOfTo DEF AskForBackup
  <1> QED
    BY <1>2, <1>3, <1>4, <1>5, <1>6, <1>7, <1>8, <1>9, <1>10 DEF BackupStep

LEMMA DayStep ==
  ASSUME BackupAssumption, JobInv, DayInv, OneRuns, [Next]_vars
  PROVE  DayInv'
  <1>1. CASE Tick
    <2>1. now' = now + 1 /\ now < MaxTime /\ now \in Nat /\ MaxTime \in Nat /\ UNCHANGED <<job, lastRun, succeeded>>
      BY <1>1 DEF Tick, DayInv, BackupAssumption, runtime
    <2>2. now' \in Nat /\ now' <= MaxTime
      BY <2>1
    <2> QED
      BY <2>1, <2>2, DayKept DEF Stage
  <1>2. CASE UpdateSettings \/ UNCHANGED vars
    <2>1. UNCHANGED <<now, job, lastRun, succeeded>>
      BY <1>2 DEF UpdateSettings, vars, runtime
    <2> QED
      BY <2>1, DayKept DEF Stage, DayInv
  <1>3. CASE \E w \in Workers : CallStep(w) \/ StatementFails(w)
    BY <1>3, DayOfCall
  <1>4. CASE \/ \E m \in Admins : AskForBackup(m)
             \/ \E a \in Actors : BackupStep(a) \/ WriteMore(a) \/ BackupFails(a) \/ Stop(a)
    BY <1>4, DayOfBackup DEF Actors
  <1> QED
    BY <1>1, <1>2, <1>3, <1>4 DEF Next

\* No day is backed up twice by schedule and a day is stamped only by a run that was for it,
\* however many instances share the database and wherever their runs fail, stop or cross
\* midnight (backupDue, recordBackupRunSuccess), if a call ends before its lease lapses.
THEOREM OneBackupADay == Lease!RunsFit => (Spec => [](OncePerDay /\ StampedDayIsDone))
  <1> USE BackupAssumption
  <1>1. Init => JobInv /\ DayInv
    <2>1. Init => JobInv
      BY InitMaps
    <2>2. Init => DayInv
      BY DEF Init, DayInv, OncePerDay, StampedDayIsDone, Stage, Idle, Backing, Actors, Never
    <2> QED
      BY <2>1, <2>2
  <1>2. JobInv /\ DayInv /\ OneRuns /\ [Next]_vars => JobInv' /\ DayInv'
    BY StepMaps, DayStep
  <1>3. DayInv => OncePerDay /\ StampedDayIsDone
    BY DEF DayInv
  <1> QED
    BY <1>1, <1>2, <1>3, OneBackupRuns, PTL DEF Spec

-----------------------------------------------------------------------------
(* The directory. *)

\* Files whose names tell them apart.
Named(s) == s \in Seq(File) /\ \A i, j \in DOMAIN s : s[i].id = s[j].id => i = j
IdsOf(s) == {f.id : f \in ToSet(s)}

LEMMA RemovedIs ==
  ASSUME NEW s, Named(s), NEW k \in DOMAIN s
  PROVE  /\ Named(RemoveAt(s, k)) /\ ToSet(RemoveAt(s, k)) = ToSet(s) \ {s[k]}
         /\ IdsOf(RemoveAt(s, k)) = IdsOf(s) \ {s[k].id}
  <1> DEFINE p == SubSeq(s, 1, k - 1)
             q == SubSeq(s, k + 1, Len(s))
             t == p \o q
  <1>1. s \in Seq(File) /\ Len(s) \in Nat /\ DOMAIN s = 1..Len(s) /\ k \in 1..Len(s)
    BY LenProperties DEF Named
  <1>2. /\ p \in Seq(File) /\ Len(p) = k - 1 /\ \A i \in 1..(k - 1) : p[i] = s[i]
        /\ q \in Seq(File) /\ Len(q) = Len(s) - k /\ \A i \in 1..(Len(s) - k) : q[i] = s[k + i]
    <2>0. PICK n \in Nat : n = Len(s)
      BY <1>1
    <2>1. PICK l \in Int, h \in Int : l = k + 1 /\ h = k - 1
      BY <1>1
    <2>9. n \in Int /\ k \in Int /\ 1 <= k /\ k <= n
      BY <1>1, <2>0
    <2>2. (\A i \in 1..h : s[i] \in File) /\ \A i \in l..n : s[i] \in File
      BY <1>1, <2>0, <2>1
    <2>3. /\ SubSeq(s, 1, h) \in Seq(File) /\ Len(SubSeq(s, 1, h)) = IF 1 <= h THEN h - 1 + 1 ELSE 0
          /\ \A i \in 1..(h - 1 + 1) : SubSeq(s, 1, h)[i] = s[1 + i - 1]
      BY <2>2, SubSeqProperties
    <2>4. /\ SubSeq(s, l, n) \in Seq(File) /\ Len(SubSeq(s, l, n)) = IF l <= n THEN n - l + 1 ELSE 0
          /\ \A i \in 1..(n - l + 1) : SubSeq(s, l, n)[i] = s[l + i - 1]
      BY <2>2, SubSeqProperties
    <2>5. p = SubSeq(s, 1, h) /\ q = SubSeq(s, l, n)
      BY <2>0, <2>1
    <2> HIDE DEF p, q
    <2>6. Len(p) = h /\ \A i \in 1..h : p[i] = s[i]
      <3>1. h - 1 + 1 = h /\ (\A i \in 1..h : 1 + i - 1 = i) /\ (IF 1 <= h THEN h - 1 + 1 ELSE 0) = h
        BY ONLY <2>1, <2>9
      <3> QED
        BY <2>3, <2>5, <3>1
    <2>7. Len(q) = n - k /\ \A i \in 1..(n - k) : q[i] = s[k + i]
      <3>1. /\ n - l + 1 = n - k /\ (\A i \in 1..(n - k) : l + i - 1 = k + i)
            /\ (IF l <= n THEN n - l + 1 ELSE 0) = n - k
        BY ONLY <2>1, <2>9
      <3> QED
        BY <2>4, <2>5, <3>1
    <2> QED
      BY <2>0, <2>1, <2>3, <2>4, <2>5, <2>6, <2>7
  <1>3. /\ t \in Seq(File) /\ Len(t) = Len(s) - 1
        /\ \A i \in 1..(Len(s) - 1) : t[i] = IF i < k THEN s[i] ELSE s[i + 1]
    <2> HIDE DEF p, q
    <2>1. /\ t \in Seq(File) /\ Len(t) = Len(p) + Len(q)
          /\ \A i \in 1..(Len(p) + Len(q)) : t[i] = IF i <= Len(p) THEN p[i] ELSE q[i - Len(p)]
      BY <1>2, ConcatProperties
    <2> HIDE DEF t
    <2>2. ASSUME NEW i \in 1..(Len(s) - 1) PROVE t[i] = IF i < k THEN s[i] ELSE s[i + 1]
      <3>1. CASE i < k
        BY <1>1, <1>2, <2>1, <3>1
      <3>2. CASE ~(i < k)
        <4>1. i - (k - 1) \in 1..(Len(s) - k)
          BY <1>1, <3>2
        <4>2. q[i - (k - 1)] = s[k + (i - (k - 1))]
          BY <1>2, <4>1
        <4>3. t[i] = q[i - (k - 1)] /\ k + (i - (k - 1)) = i + 1
          BY <1>1, <1>2, <2>1, <3>2
        <4> QED
          BY <3>2, <4>2, <4>3
      <3> QED
        BY <3>1, <3>2
    <2> QED
      BY <1>1, <1>2, <2>1, <2>2
  <1>4. t = RemoveAt(s, k)
    BY DEF RemoveAt
  <1> HIDE DEF t
  <1>5. DOMAIN t = 1..(Len(s) - 1)
    BY <1>3, LenProperties
  <1>6. \A i \in DOMAIN t : \E j \in DOMAIN s : j # k /\ j = (IF i < k THEN i ELSE i + 1) /\ t[i] = s[j]
    BY <1>1, <1>3, <1>5
  <1>7. \A j \in DOMAIN s : j # k => \E i \in DOMAIN t : t[i] = s[j]
    <2> SUFFICES ASSUME NEW j \in DOMAIN s, j # k PROVE \E i \in DOMAIN t : t[i] = s[j]
      OBVIOUS
    <2>1. CASE j < k
      BY <1>1, <1>3, <1>5, <2>1
    <2>2. CASE j > k
      <3>1. j - 1 \in DOMAIN t /\ ~(j - 1 < k) /\ (j - 1) + 1 = j
        BY <1>1, <1>5, <2>2
      <3> QED
        BY <1>3, <1>5, <3>1
    <2> QED
      BY <1>1, <2>1, <2>2
  <1>8. Named(t)
    BY <1>1, <1>3, <1>5, <1>6 DEF Named
  <1>9. \A j \in DOMAIN s : s[j].id = s[k].id => j = k
    BY DEF Named
  <1>10. ToSet(t) = ToSet(s) \ {s[k]}
    BY <1>6, <1>7, <1>9 DEF ToSet
  <1>11. IdsOf(t) = IdsOf(s) \ {s[k].id}
    BY <1>9, <1>10 DEF IdsOf, ToSet
  <1> QED
    BY <1>4, <1>8, <1>10, <1>11

LEMMA AppendedIs ==
  ASSUME NEW s, Named(s), NEW f \in File, f.id \notin IdsOf(s)
  PROVE  /\ Named(Append(s, f)) /\ ToSet(Append(s, f)) = ToSet(s) \cup {f}
         /\ IdsOf(Append(s, f)) = IdsOf(s) \cup {f.id}
         /\ Append(s, f) # << >> /\ Last(Append(s, f)) = f
  <1> DEFINE t == Append(s, f)
  <1>1. s \in Seq(File) /\ Len(s) \in Nat /\ DOMAIN s = 1..Len(s)
    BY LenProperties DEF Named
  <1>2. /\ t \in Seq(File) /\ t # << >> /\ Len(t) = Len(s) + 1
        /\ \A i \in 1..Len(s) : t[i] = s[i]
    BY <1>1, AppendProperties
  <1>3. t[Len(s) + 1] = f
    BY <1>1, AppendProperties
  <1> HIDE DEF t
  <1>4. DOMAIN t = 1..(Len(s) + 1)
    BY <1>2, LenProperties
  <1>5. ToSet(t) = ToSet(s) \cup {f}
    BY <1>1, <1>2, <1>3, <1>4 DEF ToSet
  <1>6. IdsOf(t) = IdsOf(s) \cup {f.id}
    BY <1>5 DEF IdsOf
  <1>7. Named(t)
    <2> SUFFICES ASSUME NEW i \in DOMAIN t, NEW j \in DOMAIN t, t[i].id = t[j].id PROVE i = j
      BY <1>2 DEF Named
    <2>1. \A l \in 1..Len(s) : s[l].id # f.id
      BY <1>1 DEF IdsOf, ToSet
    <2>2. (i \in 1..Len(s) \/ i = Len(s) + 1) /\ (j \in 1..Len(s) \/ j = Len(s) + 1)
      BY <1>1, <1>4
    <2> QED
      BY <1>1, <1>2, <1>3, <2>1, <2>2 DEF Named
  <1> QED
    BY <1>2, <1>3, <1>5, <1>6, <1>7 DEF t, Last

\* There are as many names as files.
LEMMA NamesCount ==
  ASSUME NEW s, Named(s)
  PROVE  IsFiniteSet(IdsOf(s)) /\ Cardinality(IdsOf(s)) = Len(s)
  <1>1. s \in Seq(File) /\ Len(s) \in Nat /\ DOMAIN s = 1..Len(s)
    BY LenProperties DEF Named
  <1> DEFINE name == [i \in 1..Len(s) |-> s[i].id]
  <1>2. name \in Bijection(1..Len(s), IdsOf(s))
    BY <1>1 DEF Named, IdsOf, ToSet, Bijection, Injection, Surjection, IsInjective
  <1>3. ExistsBijection(1..Len(s), IdsOf(s))
    BY <1>2 DEF ExistsBijection
  <1>4. IsFiniteSet(1..Len(s)) /\ Cardinality(1..Len(s)) = Len(s)
    BY <1>1, FS_Interval
  <1> QED
    BY <1>3, <1>4, FS_Bijection

\* The files beyond the newest ones: all but as many as are kept, and not the newest.
LEMMA StaleAre ==
  ASSUME NEW keep \in Nat \ {0}, Named(files)
  PROVE  /\ Stale(keep) \in Seq(File)
         /\ Cardinality(IdsOf(files) \ IdsOf(Stale(keep))) <= keep
         /\ files # << >> => Last(files).id \notin IdsOf(Stale(keep))
  <1>1. files \in Seq(File) /\ Len(files) \in Nat /\ DOMAIN files = 1..Len(files)
    BY LenProperties DEF Named
  <1>2. PICK rest : rest = Len(files) - keep
    OBVIOUS
  <1>0. rest \in Int /\ rest < Len(files) /\ Len(files) - rest <= keep
    BY <1>1, <1>2
  <1>3. PICK old : old = SubSeq(files, 1, rest)
    OBVIOUS
  <1>4. PICK n \in Nat : n = IF 1 <= rest THEN rest ELSE 0
    BY <1>0
  <1>5. old \in Seq(File) /\ Len(old) = n /\ \A i \in 1..n : old[i] = files[i]
    <2>1. \A i \in 1..rest : files[i] \in File
      BY <1>0, <1>1
    <2>2. /\ old \in Seq(File) /\ Len(old) = (IF 1 <= rest THEN rest - 1 + 1 ELSE 0)
          /\ \A i \in 1..rest - 1 + 1 : old[i] = files[1 + i - 1]
      BY <1>0, <1>3, <2>1, SubSeqProperties
    <2> QED
      BY <1>4, <2>2
  <1>6. PICK stale : stale = [i \in 1..n |-> old[(n - i) + 1]]
    OBVIOUS
  <1>7. Stale(keep) = stale
    BY <1>2, <1>3, <1>5, <1>6 DEF Stale, Reverse
  <1>8. \A i \in 1..n : (n - i) + 1 \in 1..n
    OBVIOUS
  <1>9. stale \in [1..n -> File] /\ DOMAIN stale = 1..n
    BY <1>5, <1>6, <1>8, LenProperties
  <1>10. stale \in Seq(File)
    BY <1>9, SeqDef
  <1>11. \A i \in 1..n : stale[i] = files[(n - i) + 1]
    BY <1>5, <1>6, <1>8
  <1>12. \A j \in 1..n : \E i \in 1..n : stale[i] = files[j]
    <2> SUFFICES ASSUME NEW j \in 1..n PROVE \E i \in 1..n : stale[i] = files[j]
      OBVIOUS
    <2>1. (n - j) + 1 \in 1..n /\ (n - ((n - j) + 1)) + 1 = j
      OBVIOUS
    <2> QED
      BY <1>11, <2>1
  <1>13. \A id : id \in IdsOf(stale) <=> \E j \in 1..n : id = files[j].id
    <2>1. \A f : f \in ToSet(stale) <=> \E j \in 1..n : f = files[j]
      <3>1. ToSet(stale) = {stale[i] : i \in 1..n}
        BY <1>9 DEF ToSet
      <3>2. \A i \in 1..n : \E j \in 1..n : stale[i] = files[j]
        BY <1>8, <1>11
      <3> QED
        BY <1>12, <3>1, <3>2
    <2> QED
      BY <2>1 DEF IdsOf
  <1>14. Cardinality(IdsOf(files) \ IdsOf(stale)) <= keep
    <2> DEFINE name == [i \in (n + 1)..Len(files) |-> files[i].id]
               T == {files[i].id : i \in (n + 1)..Len(files)}
    <2>1. name \in Surjection((n + 1)..Len(files), T)
      BY DEF Surjection
    <2>2. IsFiniteSet((n + 1)..Len(files)) /\ Cardinality((n + 1)..Len(files)) <= keep
      <3>1. n + 1 \in Int /\ Len(files) \in Int /\ Len(files) - n <= keep /\ n <= Len(files)
        BY <1>0, <1>1, <1>4
      <3>2. /\ IsFiniteSet((n + 1)..Len(files))
            /\ Cardinality((n + 1)..Len(files)) = IF n + 1 > Len(files) THEN 0 ELSE Len(files) - (n + 1) + 1
        BY <3>1, FS_Interval
      <3> QED
        BY <3>1, <3>2
    <2>3. IsFiniteSet(T) /\ Cardinality(T) <= Cardinality((n + 1)..Len(files))
      BY <2>1, <2>2, FS_Surjection
    <2>4. IdsOf(files) \ IdsOf(stale) \subseteq T
      <3> SUFFICES ASSUME NEW id \in IdsOf(files), id \notin IdsOf(stale) PROVE id \in T
        OBVIOUS
      <3>1. PICK i \in 1..Len(files) : id = files[i].id
        BY <1>1 DEF IdsOf, ToSet
      <3>2. i \notin 1..n
        BY <1>13, <3>1
      <3>3. i \in (n + 1)..Len(files)
        BY <1>1, <3>2
      <3> QED
        BY <3>1, <3>3
    <2> HIDE DEF T, name
    <2>5. /\ Cardinality(IdsOf(files) \ IdsOf(stale)) <= Cardinality(T)
          /\ IsFiniteSet(IdsOf(files) \ IdsOf(stale))
      BY <2>3, <2>4, FS_Subset
    <2>6. /\ Cardinality(IdsOf(files) \ IdsOf(stale)) \in Nat /\ Cardinality(T) \in Nat
          /\ Cardinality((n + 1)..Len(files)) \in Nat
      BY <2>2, <2>3, <2>5, FS_CardinalityType
    <2> QED
      BY <2>2, <2>3, <2>5, <2>6
  <1>15. files # << >> => Last(files).id \notin IdsOf(stale)
    <2> SUFFICES ASSUME files # << >>, NEW j \in 1..n, Last(files).id = files[j].id PROVE FALSE
      BY <1>13
    <2>1. Len(files) \in DOMAIN files /\ j \in DOMAIN files
      <3>1. Len(files) # 0
        BY <1>1, EmptySeq
      <3> QED
        BY <1>0, <1>1, <1>4, <3>1
    <2>2. j = Len(files)
      BY <2>1 DEF Last, Named
    <2> QED
      BY <1>0, <1>1, <1>4, <2>2
  <1> QED
    BY <1>7, <1>10, <1>14, <1>15

LEMMA WithoutIs ==
  ASSUME NEW id, Named(files)
  PROVE  /\ Named(Without(id)) /\ ToSet(Without(id)) = {f \in ToSet(files) : f.id # id}
         /\ IdsOf(Without(id)) = IdsOf(files) \ {id}
  <1>1. Listed(id) <=> id \in IdsOf(files)
    BY DEF Listed, IdsOf
  <1>2. CASE Listed(id)
    <2>1. \E i \in DOMAIN files : files[i].id = id
      BY <1>2 DEF Listed, ToSet
    <2>2. PICK k \in DOMAIN files : k = (CHOOSE i \in DOMAIN files : files[i].id = id) /\ files[k].id = id
      BY <2>1
    <2>3. Without(id) = RemoveAt(files, k)
      BY <1>2, <2>2 DEF Without
    <2>4. \A f \in ToSet(files) : f.id = id => f = files[k]
      BY <2>2 DEF ToSet, Named
    <2> QED
      BY <2>2, <2>3, <2>4, RemovedIs
  <1>3. CASE ~Listed(id)
    BY <1>1, <1>3 DEF Without, Listed
  <1> QED
    BY <1>2, <1>3

LEMMA WrittenIs ==
  ASSUME NEW id \in Nat \ {0}, NEW complete \in BOOLEAN, Named(files)
  PROVE  /\ Named(Written(id, complete)) /\ IdsOf(Written(id, complete)) = IdsOf(files)
         /\ \A f \in ToSet(files) : f.id # id => f \in ToSet(Written(id, complete))
         /\ id \in IdsOf(files) => /\ [id |-> id, complete |-> complete] \in ToSet(Written(id, complete))
                                   /\ Written(id, complete) # << >> /\ Last(Written(id, complete)).id = id
  <1>1. Listed(id) <=> id \in IdsOf(files)
    BY DEF Listed, IdsOf
  <1>2. CASE Listed(id)
    <2>1. PICK s : s = Without(id)
      OBVIOUS
    <2>2. Named(s) /\ ToSet(s) = {f \in ToSet(files) : f.id # id} /\ IdsOf(s) = IdsOf(files) \ {id}
      BY <2>1, WithoutIs
    <2>3. PICK f : f = [id |-> id, complete |-> complete]
      OBVIOUS
    <2>0. f \in File /\ f.id = id
      BY <2>3 DEF File
    <2>4. Written(id, complete) = Append(s, f)
      BY <1>2, <2>1, <2>3 DEF Written
    <2>5. /\ Named(Append(s, f)) /\ ToSet(Append(s, f)) = ToSet(s) \cup {f} /\ IdsOf(Append(s, f)) = IdsOf(s) \cup {id}
          /\ Append(s, f) # << >> /\ Last(Append(s, f)) = f
      BY <2>0, <2>2, AppendedIs
    <2>6. \A g \in ToSet(files) : g.id # id => g \in ToSet(Append(s, f))
      BY <2>2, <2>5
    <2>7. IdsOf(Append(s, f)) = IdsOf(files)
      BY <1>1, <1>2, <2>2, <2>5
    <2>8. f \in ToSet(Append(s, f)) /\ Last(Append(s, f)).id = id
      BY <2>0, <2>5
    <2> QED
      BY <2>3, <2>4, <2>5, <2>6, <2>7, <2>8
  <1>3. CASE ~Listed(id)
    BY <1>1, <1>3 DEF Written
  <1> QED
    BY <1>2, <1>3

BusyOnes == {a \in Actors : Busy(a)}
Pruning == {a \in Actors : Stage(a) = "prune"}
StaleIds(a) == IdsOf(job[a].stale)
Keeps == {s.keep : s \in Settings}

DirInv ==
  /\ Named(files) /\ IdsOf(files) \subseteq 1..made
  /\ made \in Nat /\ newest \in 0..made /\ failed \in Nat /\ stopped \in Nat /\ settings \in Settings
  /\ \A a \in Actors : /\ Stage(a) \in {"dump", "write", "list"} => job[a].keep \in Keeps
                       /\ Stage(a) \in {"write", "list"} => job[a].id \in 1..made
                       /\ Stage(a) = "prune" => job[a].stale \in Seq(File)

\* Beside the files that some of the pruning backups will remove there are those to keep,
\* those of the other backups under way and those a failure or a stop has left.
Spare(P) == {id \in IdsOf(files) : \A a \in P : id \notin StaleIds(a)}
Room(P) == Max(Keeps) + Cardinality(BusyOnes \ P) + failed + stopped
BoundInv == \A P \in SUBSET Pruning : Cardinality(Spare(P)) <= Room(P)

\* While no two backups have been in progress at a time, the one that is writes another file
\* than the newest one, then has the newest one, and removes others.
SerialInv == ~overlap =>
  /\ \A a, b \in BusyOnes : a = b
  /\ MostRecentKept
  /\ \A a \in Actors :
       /\ Stage(a) = "write" => job[a].id # newest /\ job[a].id \in IdsOf(files)
       /\ Stage(a) = "list" => job[a].id = newest /\ files # << >> /\ Last(files).id = newest
       /\ Stage(a) = "prune" => newest \notin StaleIds(a)

LEMMA LeastIs ==
  ASSUME NEW T \in SUBSET Nat, T # {}
  PROVE  \E n \in T : \A m \in T : n <= m
  <1> DEFINE R == OpToRel(<, Nat)
  <1>1. IsWellFoundedOn(R, Nat)
    BY NatLessThanWellFounded
  <1>2. \A x, y \in Nat : <<x, y>> \in R <=> x < y
    BY DEF OpToRel
  <1> HIDE DEF R
  <1>3. PICK x \in T : \A y \in T : <<y, x>> \notin R
    BY <1>1, WFMin
  <1>4. \A y \in T : x <= y
    <2> SUFFICES ASSUME NEW y \in T PROVE x <= y
      OBVIOUS
    <2>1. x \in Nat /\ y \in Nat /\ ~(y < x)
      BY <1>2, <1>3
    <2> QED
      BY <2>1
  <1> QED
    BY <1>4

\* A finite set of numbers has a largest one: of sets without one take a smallest.
LEMMA MaxIs ==
  ASSUME NEW S \in SUBSET Nat, S # {}, IsFiniteSet(S)
  PROVE  Max(S) \in S /\ \A k \in S : k <= Max(S)
  <1> DEFINE Topped(U) == \E x \in U : \A y \in U : x >= y
             Sizes == {Cardinality(U) : U \in {V \in SUBSET S : V # {} /\ ~Topped(V)}}
  <1>1. Topped(S)
    <2> SUFFICES ASSUME ~Topped(S) PROVE FALSE
      OBVIOUS
    <2>1. \A U \in SUBSET S : IsFiniteSet(U) /\ Cardinality(U) \in Nat
      BY FS_Subset, FS_CardinalityType
    <2>2. Sizes \in SUBSET Nat /\ Sizes # {}
      BY <2>1
    <2> HIDE DEF Sizes
    <2>3. PICK n \in Sizes : \A m \in Sizes : n <= m
      BY <2>2, LeastIs
    <2>4. PICK U \in SUBSET S : U # {} /\ ~Topped(U) /\ n = Cardinality(U)
      BY <2>3 DEF Sizes
    <2>5. PICK x \in U : x \in Nat
      BY <2>4
    <2>6. Cardinality(U \ {x}) = n - 1 /\ n \in Nat /\ U \ {x} \in SUBSET S
      BY <2>1, <2>4, <2>5, FS_RemoveElement
    <2>7. n - 1 \notin Sizes
      BY <2>3, <2>6
    <2>8. U \ {x} = {} \/ Topped(U \ {x})
      BY <2>6, <2>7 DEF Sizes
    <2>9. CASE U \ {x} = {}
      <3>1. \A y \in U : x >= y
        BY <2>5, <2>9
      <3> QED
        BY <2>4, <3>1
    <2>10. CASE Topped(U \ {x})
      <3>1. PICK y \in U \ {x} : \A z \in U \ {x} : y >= z
        BY <2>10
      <3>2. x \in Nat /\ y \in Nat /\ y \in U /\ x \in U
        BY <2>5, <3>1
      <3>3. x >= y \/ y >= x
        BY <3>2
      <3>4. CASE x >= y
        <4>1. \A z \in U : x >= z
          <5> SUFFICES ASSUME NEW z \in U PROVE x >= z
            OBVIOUS
          <5>1. z \in Nat /\ (z = x \/ y >= z)
            BY <3>1
          <5> QED
            BY <3>2, <3>4, <5>1
        <4> QED
          BY <2>4, <3>2, <4>1
      <3>5. CASE y >= x
        <4>1. \A z \in U : y >= z
          BY <3>1, <3>5
        <4> QED
          BY <2>4, <3>2, <4>1
      <3> QED
        BY <3>3, <3>4, <3>5
    <2> QED
      BY <2>8, <2>9, <2>10
  <1>2. Max(S) \in S /\ \A k \in S : Max(S) >= k
    BY <1>1 DEF Max
  <1>3. PICK m \in Nat : m = Max(S)
    BY <1>2
  <1>4. \A k \in S : k \in Nat /\ m >= k
    BY <1>2, <1>3
  <1>5. \A k \in S : k <= m
    BY <1>3, <1>4
  <1> QED
    BY <1>2, <1>3, <1>5

LEMMA KeepsBounded ==
  ASSUME BackupAssumption
  PROVE  Keeps \subseteq Nat \ {0} /\ Max(Keeps) \in Nat /\ \A k \in Keeps : k <= Max(Keeps)
  <1>1. Keeps \subseteq Nat \ {0} /\ Keeps # {} /\ IsFiniteSet(Settings)
    BY DEF BackupAssumption, Keeps
  <1> DEFINE keep == [s \in Settings |-> s.keep]
  <1>2. keep \in Surjection(Settings, Keeps)
    BY DEF Keeps, Surjection
  <1>3. IsFiniteSet(Keeps)
    BY <1>1, <1>2, FS_Surjection
  <1> QED
    BY <1>1, <1>3, MaxIs

RetentionInv == DirInv /\ BoundInv /\ SerialInv

LEMMA ActorsFinite ==
  ASSUME BackupAssumption
  PROVE  \A A \in SUBSET Actors : IsFiniteSet(A) /\ Cardinality(A) \in Nat
  <1>1. IsFiniteSet(Actors)
    BY FS_Union DEF Actors, BackupAssumption
  <1> QED
    BY <1>1, FS_Subset, FS_CardinalityType

LEMMA SpareFinite ==
  ASSUME DirInv, NEW P
  PROVE  IsFiniteSet(Spare(P)) /\ Cardinality(Spare(P)) \in Nat
  <1>1. IsFiniteSet(IdsOf(files)) /\ Spare(P) \in SUBSET IdsOf(files)
    BY NamesCount DEF DirInv, Spare
  <1> QED
    BY <1>1, FS_Subset, FS_CardinalityType

LEMMA RoomIsNat ==
  ASSUME BackupAssumption, DirInv, NEW P
  PROVE  Room(P) \in Nat
  <1>1. BusyOnes \ P \in SUBSET Actors
    BY DEF BusyOnes
  <1> QED
    BY <1>1, ActorsFinite, KeepsBounded DEF DirInv, Room

\* What is spared of P is spared of Q, which had no more room.
LEMMA BoundFollows ==
  ASSUME BackupAssumption, DirInv, DirInv', BoundInv, NEW P \in SUBSET Actors, NEW Q \in SUBSET Pruning,
         (Spare(P))' \subseteq Spare(Q), Room(Q) <= (Room(P))'
  PROVE  (Cardinality(Spare(P)) <= Room(P))'
  <1>1. Cardinality(Spare(Q)) <= Room(Q) /\ Cardinality(Spare(Q)) \in Nat /\ IsFiniteSet(Spare(Q)) /\ Room(Q) \in Nat
    BY SpareFinite, RoomIsNat DEF BoundInv
  <1>2. Cardinality((Spare(P))') <= Cardinality(Spare(Q)) /\ Cardinality((Spare(P))') \in Nat
    BY <1>1, FS_Subset, FS_CardinalityType
  <1>3. (Room(P))' \in Nat
    <2>1. (BusyOnes \ P)' \in SUBSET Actors
      BY DEF BusyOnes
    <2>2. Cardinality((BusyOnes \ P)') \in Nat
      BY <2>1, ActorsFinite
    <2>3. Max(Keeps) \in Nat /\ failed' \in Nat /\ stopped' \in Nat
      BY KeepsBounded DEF DirInv
    <2> QED
      BY <2>2, <2>3 DEF Room
  <1> QED
    BY <1>1, <1>2, <1>3

\* Steps that leave the directory and what the busy ones do.
LEMMA QuietKeeps ==
  ASSUME BackupAssumption, RetentionInv, UNCHANGED disk, settings' \in Settings,
         failed' \in Nat, failed' >= failed, stopped' = stopped,
         \A a \in Actors : \/ job'[a] = job[a]
                           \/ /\ ~Busy(a) /\ Stage(a)' \notin {"write", "list", "prune"}
                              /\ Stage(a)' = "dump" => job'[a].keep \in Keeps
  PROVE  RetentionInv'
  <1>1. UNCHANGED <<files, made, newest, overlap>>
    BY DEF disk
  <1>2. \A a \in Actors : Busy(a)' = Busy(a) /\ (Busy(a) => job'[a] = job[a])
    BY DEF Busy, Stage
  <1>3. /\ \A a \in Actors : Stage(a)' \in {"write", "list", "prune"} => job'[a] = job[a]
        /\ \A a \in Actors : Stage(a)' = "dump" => job'[a].keep \in Keeps
    BY DEF RetentionInv, DirInv, Stage
  <1>4. DirInv'
    BY <1>1, <1>3 DEF RetentionInv, DirInv, Stage
  <1>5. BusyOnes' = BusyOnes /\ Pruning' = Pruning /\ \A a \in Pruning : StaleIds(a)' = StaleIds(a)
    BY <1>2, <1>3 DEF BusyOnes, Pruning, StaleIds, Stage, Busy
  <1>6. BoundInv'
    <2> SUFFICES ASSUME NEW P \in SUBSET Pruning PROVE (Cardinality(Spare(P)) <= Room(P))'
      BY <1>5 DEF BoundInv
    <2>1. (Spare(P))' = Spare(P)
      BY <1>1, <1>5 DEF Spare
    <2>2. Room(P) <= (Room(P))'
      <3>1. Cardinality(BusyOnes \ P) \in Nat /\ Max(Keeps) \in Nat /\ failed \in Nat /\ stopped \in Nat
        BY ActorsFinite, KeepsBounded DEF BusyOnes, RetentionInv, DirInv
      <3> QED
        BY <1>5, <3>1 DEF Room
    <2>3. P \in SUBSET Actors
      BY DEF Pruning
    <2> QED
      BY <1>4, <2>1, <2>2, <2>3, BoundFollows DEF RetentionInv
  <1>7. SerialInv'
    BY <1>1, <1>3, <1>5 DEF RetentionInv, SerialInv, MostRecentKept, StaleIds, Stage
  <1> QED
    BY <1>4, <1>6, <1>7 DEF RetentionInv

\* The jobs of an actor that configures, creates or lists, and their fields.
Configured(r, v) == [r EXCEPT !.stage = "dump", !.keep = v]
Created(r, v) == [r EXCEPT !.stage = "write", !.id = v]
Listing(r, v) == [r EXCEPT !.stage = "prune", !.stale = v]

LEMMA Fields ==
  ASSUME NEW r, Shape(r), NEW v
  PROVE  /\ Configured(r, v).stage = "dump" /\ Configured(r, v).keep = v
         /\ Created(r, v).stage = "write" /\ Created(r, v).keep = r.keep /\ Created(r, v).id = v
         /\ Listing(r, v).stage = "prune" /\ Listing(r, v).stale = v
  <1>1. PICK k : k = [r EXCEPT !.stage = "dump"]
    OBVIOUS
  <1>2. Shape(k) /\ k.stage = "dump" /\ Configured(r, v) = [k EXCEPT !.keep = v]
    BY <1>1 DEF Shape, Configured
  <1>3. Configured(r, v).stage = "dump" /\ Configured(r, v).keep = v
    BY <1>1, <1>2 DEF Shape
  <1>4. PICK l : l = [r EXCEPT !.stage = "write"]
    OBVIOUS
  <1>5. Shape(l) /\ l.stage = "write" /\ l.keep = r.keep /\ Created(r, v) = [l EXCEPT !.id = v]
    BY <1>4 DEF Shape, Created
  <1>6. Created(r, v).stage = "write" /\ Created(r, v).keep = r.keep /\ Created(r, v).id = v
    BY <1>4, <1>5 DEF Shape
  <1>7. PICK m : m = [r EXCEPT !.stage = "prune"]
    OBVIOUS
  <1>8. Shape(m) /\ m.stage = "prune" /\ Listing(r, v) = [m EXCEPT !.stale = v]
    BY <1>7 DEF Shape, Listing
  <1>9. Listing(r, v).stage = "prune" /\ Listing(r, v).stale = v
    BY <1>7, <1>8 DEF Shape
  <1> QED
    BY <1>3, <1>6, <1>9

LEMMA CreateKeeps ==
  ASSUME BackupAssumption, JobInv, RetentionInv, NEW a \in Actors, CreateArchive(a)
  PROVE  RetentionInv'
  <1>0. PICK id : id = made'
    OBVIOUS
  <1>1. PICK j : j = Created(job[a], id)
    OBVIOUS
  <1>2. /\ job' = [job EXCEPT ![a] = j] /\ Stage(a) = "dump" /\ made' = made + 1 /\ newest' = newest
        /\ UNCHANGED <<settings, failed, stopped>>
        /\ files' = Append(files, [id |-> made', complete |-> FALSE])
        /\ overlap' = (overlap \/ \E b \in Actors : Busy(b))
    BY <1>0, <1>1 DEF CreateArchive, Created, bounds
  <1>3. j.stage = "write" /\ j.keep = job[a].keep /\ j.id = id
    BY <1>1, Fields DEF JobInv
  <1>4. job'[a] = j /\ \A b \in Actors : b # a => job'[b] = job[b]
    BY <1>2, NewJob
  <1>5. /\ made \in Nat /\ IdsOf(files) \subseteq 1..made /\ newest \in 0..made /\ Named(files)
        /\ failed \in Nat /\ stopped \in Nat
    BY DEF RetentionInv, DirInv
  <1>6. id \in Nat /\ id = made' /\ id \notin IdsOf(files) /\ id # newest /\ id \in 1..made' /\ id # 0
    BY <1>0, <1>2, <1>5
  <1>7. PICK f \in File : f = [id |-> id, complete |-> FALSE] /\ f.id = id
    <2>1. [id |-> id, complete |-> FALSE] \in File
      BY <1>6 DEF File
    <2> QED
      BY <2>1
  <1>8. /\ Named(files') /\ ToSet(files') = ToSet(files) \cup {f} /\ IdsOf(files') = IdsOf(files) \cup {id}
    BY <1>2, <1>5, <1>6, <1>7, AppendedIs
  <1>9. DirInv'
    <2>1. IdsOf(files') \subseteq 1..made' /\ made' \in Nat /\ newest' \in 0..made'
      <3>1. \A x \in 0..made : x \in 0..made'
        BY <1>2, <1>5
      <3>2. IdsOf(files) \subseteq 1..made'
        BY <1>2, <1>5
      <3> QED
        BY <1>2, <1>5, <1>6, <1>8, <3>1, <3>2
    <2>2. \A x \in 1..made : x \in 1..made'
      BY <1>2, <1>5
    <2> QED
      BY <1>2, <1>3, <1>4, <1>6, <1>8, <2>1, <2>2 DEF RetentionInv, DirInv, Stage
  <1>10. /\ a \notin BusyOnes /\ BusyOnes' = BusyOnes \cup {a} /\ Pruning' = Pruning /\ a \notin Pruning
         /\ \A b \in Pruning : StaleIds(b)' = StaleIds(b)
    BY <1>2, <1>3, <1>4 DEF BusyOnes, Pruning, Busy, Stage, StaleIds
  <1>11. BoundInv'
    <2> SUFFICES ASSUME NEW P \in SUBSET Pruning PROVE (Cardinality(Spare(P)) <= Room(P))'
      BY <1>10 DEF BoundInv
    <2>1. (Spare(P))' \subseteq Spare(P) \cup {id}
      BY <1>8, <1>10 DEF Spare
    <2>2. IsFiniteSet(Spare(P)) /\ Cardinality(Spare(P)) \in Nat
      BY SpareFinite DEF RetentionInv
    <2>3. /\ Cardinality(Spare(P) \cup {id}) <= Cardinality(Spare(P)) + 1 /\ IsFiniteSet(Spare(P) \cup {id})
          /\ Cardinality(Spare(P) \cup {id}) \in Nat
      <3>1. PICK S : S = Spare(P)
        OBVIOUS
      <3>2. IsFiniteSet(S) /\ Cardinality(S) \in Nat
        BY <2>2, <3>1
      <3>3. /\ IsFiniteSet(S \cup {id})
            /\ Cardinality(S \cup {id}) = IF id \in S THEN Cardinality(S) ELSE Cardinality(S) + 1
        BY <3>2, FS_AddElement
      <3> QED
        BY <3>1, <3>2, <3>3
    <2>4. Cardinality((Spare(P))') <= Cardinality(Spare(P) \cup {id}) /\ Cardinality((Spare(P))') \in Nat
      BY <2>1, <2>3, FS_Subset, FS_CardinalityType
    <2>5. /\ (BusyOnes \ P)' = (BusyOnes \ P) \cup {a} /\ a \notin BusyOnes \ P
          /\ IsFiniteSet(BusyOnes \ P) /\ Cardinality(BusyOnes \ P) \in Nat
      BY <1>10, ActorsFinite DEF BusyOnes
    <2>6. Cardinality((BusyOnes \ P)') = Cardinality(BusyOnes \ P) + 1
      BY <2>5, FS_AddElement
    <2>7. (Room(P))' = Room(P) + 1 /\ Room(P) \in Nat
      <3>1. PICK K \in Nat : K = Max(Keeps)
        BY KeepsBounded
      <3>2. /\ Room(P) = K + Cardinality(BusyOnes \ P) + failed + stopped
            /\ (Room(P))' = K + Cardinality((BusyOnes \ P)') + failed + stopped
        BY <1>2, <3>1 DEF Room
      <3> QED
        BY <1>5, <2>5, <2>6, <3>2
    <2>8. Cardinality(Spare(P)) <= Room(P)
      BY DEF RetentionInv, BoundInv
    <2> QED
      BY <2>2, <2>3, <2>4, <2>7, <2>8
  <1>12. SerialInv'
    <2> SUFFICES ASSUME ~overlap' PROVE SerialInv'
      BY DEF SerialInv
    <2>1. ~overlap /\ BusyOnes = {}
      BY <1>2 DEF BusyOnes
    <2>2. MostRecentKept'
      BY <1>2, <1>8, <2>1 DEF RetentionInv, SerialInv, MostRecentKept
    <2>3. \A b \in Actors : b # a => Stage(b)' \notin {"write", "list", "prune"}
      BY <1>4, <2>1 DEF BusyOnes, Busy, Stage
    <2>4. Stage(a)' = "write" /\ job'[a].id # newest' /\ job'[a].id \in IdsOf(files')
      BY <1>2, <1>3, <1>4, <1>6, <1>8 DEF Stage
    <2>5. BusyOnes' = {a}
      BY <1>10, <2>1
    <2> QED
      BY <2>2, <2>3, <2>4, <2>5 DEF SerialInv
  <1> QED
    BY <1>9, <1>11, <1>12 DEF RetentionInv

\* A write moves the archive to the end of the directory, and completes it in the end.
LEMMA WriteKeeps ==
  ASSUME BackupAssumption, JobInv, RetentionInv, NEW a \in Actors, WriteMore(a) \/ FinishArchive(a)
  PROVE  RetentionInv'
  <1>1. PICK j : j = IF FinishArchive(a) THEN [job[a] EXCEPT !.stage = "list"] ELSE job[a]
    OBVIOUS
  <1>2. PICK complete \in BOOLEAN : complete <=> FinishArchive(a)
    <2>1. CASE FinishArchive(a)
      BY <2>1, Zenon
    <2>2. CASE ~FinishArchive(a)
      BY <2>2, Zenon
    <2> QED
      BY <2>1, <2>2
  <1>3. Stage(a) = "write" /\ job[a].id \in 1..made /\ job[a].keep \in Keeps /\ made \in Nat
    BY DEF WriteMore, FinishArchive, RetentionInv, DirInv
  <1>4. PICK id \in Nat \ {0} : id = job[a].id
    BY <1>3
  <1>5. /\ files' = Written(id, complete) /\ job' = [job EXCEPT ![a] = j]
        /\ UNCHANGED <<made, overlap, settings, failed, stopped>>
        /\ newest' = IF complete THEN id ELSE newest
    <2>1. CASE FinishArchive(a)
      BY <1>1, <1>2, <1>4, <2>1 DEF FinishArchive, To, bounds
    <2>2. CASE WriteMore(a) /\ ~FinishArchive(a)
      BY <1>1, <1>2, <1>4, <2>2 DEF WriteMore, JobInv, bounds
    <2> QED
      BY <2>1, <2>2
  <1>6. /\ j.stage = (IF complete THEN "list" ELSE "write")
        /\ j.keep = job[a].keep /\ j.id = id
    BY <1>1, <1>2, <1>3, <1>4 DEF JobInv, Shape, Stage
  <1>7. job'[a] = j /\ \A b \in Actors : b # a => job'[b] = job[b]
    BY <1>5, NewJob
  <1>8. Named(files)
    BY DEF RetentionInv, DirInv
  <1>9. /\ Named(files') /\ IdsOf(files') = IdsOf(files)
        /\ \A f \in ToSet(files) : f.id # id => f \in ToSet(files')
        /\ id \in IdsOf(files) => /\ [id |-> id, complete |-> complete] \in ToSet(files')
                                  /\ files' # << >> /\ Last(files').id = id
    BY <1>5, <1>8, WrittenIs
  <1>10. DirInv'
    <2>1. newest' \in 0..made
      BY <1>3, <1>4, <1>5 DEF RetentionInv, DirInv
    <2> QED
      BY <1>3, <1>4, <1>5, <1>6, <1>7, <1>9, <2>1 DEF RetentionInv, DirInv, Stage
  <1>11. BusyOnes' = BusyOnes /\ Pruning' = Pruning /\ a \in BusyOnes /\ a \notin Pruning
         /\ \A b \in Pruning : StaleIds(b)' = StaleIds(b)
    BY <1>3, <1>6, <1>7 DEF BusyOnes, Pruning, Busy, Stage, StaleIds
  <1>12. BoundInv'
    <2> SUFFICES ASSUME NEW P \in SUBSET Pruning PROVE (Cardinality(Spare(P)) <= Room(P))'
      BY <1>11 DEF BoundInv
    <2>1. (Spare(P))' = Spare(P)
      BY <1>9, <1>11 DEF Spare
    <2>2. (Room(P))' = Room(P) /\ Room(P) \in Nat
      BY <1>5, <1>11, RoomIsNat DEF Room, RetentionInv
    <2>3. P \in SUBSET Actors
      BY DEF Pruning
    <2> QED
      BY <1>10, <2>1, <2>2, <2>3, BoundFollows DEF RetentionInv
  <1>13. SerialInv'
    <2> SUFFICES ASSUME ~overlap' PROVE SerialInv'
      BY DEF SerialInv
    <2>1. ~overlap /\ (\A b, c \in BusyOnes : b = c) /\ id # newest /\ id \in IdsOf(files) /\ MostRecentKept
      BY <1>3, <1>4, <1>5 DEF RetentionInv, SerialInv
    <2>2. MostRecentKept'
      <3>1. CASE complete
        <4>1. PICK f : f = [id |-> id, complete |-> complete]
          OBVIOUS
        <4>2. f \in ToSet(files') /\ f.id = id /\ f.complete
          BY <1>9, <2>1, <3>1, <4>1
        <4> QED
          BY <1>5, <3>1, <4>2 DEF MostRecentKept
      <3>2. CASE ~complete
        BY <1>5, <1>9, <2>1, <3>2 DEF MostRecentKept
      <3> QED
        BY <3>1, <3>2
    <2>3. \A b \in Actors : b # a => Stage(b)' \notin {"write", "list", "prune"}
      BY <1>7, <1>11, <2>1 DEF BusyOnes, Busy, Stage
    <2>4. /\ Stage(a)' = "write" => job'[a].id # newest' /\ job'[a].id \in IdsOf(files')
          /\ Stage(a)' = "list" => job'[a].id = newest' /\ files' # << >> /\ Last(files').id = newest'
          /\ Stage(a)' # "prune"
      BY <1>5, <1>6, <1>7, <1>9, <2>1 DEF Stage
    <2> QED
      BY <1>11, <2>1, <2>2, <2>3, <2>4 DEF SerialInv
  <1> QED
    BY <1>10, <1>12, <1>13 DEF RetentionInv

LEMMA ListKeeps ==
  ASSUME BackupAssumption, JobInv, RetentionInv, NEW a \in Actors, ListFiles(a)
  PROVE  RetentionInv'
  <1>1. Stage(a) = "list" /\ job[a].keep \in Keeps /\ Named(files)
    BY DEF ListFiles, RetentionInv, DirInv
  <1>2. PICK keep \in Nat \ {0} : keep = job[a].keep
    BY <1>1, KeepsBounded
  <1>3. PICK stale : stale = Stale(keep)
    OBVIOUS
  <1>4. PICK j : j = Listing(job[a], stale)
    OBVIOUS
  <1>5. job' = [job EXCEPT ![a] = j] /\ UNCHANGED <<files, made, newest, overlap, settings, failed, stopped>>
    BY <1>2, <1>3, <1>4 DEF ListFiles, Listing, disk, bounds
  <1>6. j.stage = "prune" /\ j.stale = stale
    BY <1>4, Fields DEF JobInv
  <1>7. job'[a] = j /\ \A b \in Actors : b # a => job'[b] = job[b]
    BY <1>5, NewJob
  <1>8. /\ stale \in Seq(File) /\ Cardinality(IdsOf(files) \ IdsOf(stale)) <= keep
        /\ files # << >> => Last(files).id \notin IdsOf(stale)
    BY <1>1, <1>3, StaleAre
  <1>9. DirInv'
    BY <1>5, <1>6, <1>7, <1>8 DEF RetentionInv, DirInv, Stage
  <1>10. /\ BusyOnes' = BusyOnes /\ Pruning' = Pruning \cup {a} /\ a \in BusyOnes /\ a \notin Pruning
         /\ \A b \in Pruning : StaleIds(b)' = StaleIds(b)
         /\ StaleIds(a)' = IdsOf(stale)
    BY <1>1, <1>6, <1>7 DEF BusyOnes, Pruning, Busy, Stage, StaleIds
  <1>11. BoundInv'
    <2> SUFFICES ASSUME NEW P \in SUBSET Pruning' PROVE (Cardinality(Spare(P)) <= Room(P))'
      BY DEF BoundInv
    <2>0. P \in SUBSET Actors
      BY DEF Pruning
    <2>1. CASE a \notin P
      <3>1. P \in SUBSET Pruning
        BY <1>10, <2>1
      <3>2. (Spare(P))' = Spare(P)
        BY <1>5, <1>10, <3>1 DEF Spare
      <3>3. (Room(P))' = Room(P) /\ Room(P) \in Nat
        BY <1>5, <1>10, RoomIsNat DEF Room, RetentionInv
      <3> QED
        BY <1>9, <2>0, <3>1, <3>2, <3>3, BoundFollows DEF RetentionInv
    <2>2. CASE a \in P
      <3>1. (Spare(P))' \subseteq IdsOf(files) \ IdsOf(stale)
        BY <1>5, <1>10, <2>2 DEF Spare
      <3>2. IsFiniteSet(IdsOf(files) \ IdsOf(stale))
        BY <1>1, NamesCount, FS_Difference
      <3>3. /\ Cardinality((Spare(P))') <= Cardinality(IdsOf(files) \ IdsOf(stale))
            /\ Cardinality((Spare(P))') \in Nat /\ Cardinality(IdsOf(files) \ IdsOf(stale)) \in Nat
        BY <3>1, <3>2, FS_Subset, FS_CardinalityType
      <3>4. PICK K \in Nat : K = Max(Keeps) /\ keep <= K
        BY <1>1, <1>2, KeepsBounded
      <3>5. PICK n \in Nat : n = Cardinality((BusyOnes \ P)')
        BY <1>10, ActorsFinite DEF BusyOnes
      <3>6. (Room(P))' = K + n + failed + stopped /\ failed \in Nat /\ stopped \in Nat
        BY <1>5, <3>4, <3>5 DEF Room, RetentionInv, DirInv
      <3>7. K <= (Room(P))' /\ (Room(P))' \in Nat
        BY <3>6
      <3>8. PICK c \in Nat : c = Cardinality((Spare(P))')
        BY <3>3
      <3>9. c <= keep
        BY <1>8, <3>3, <3>8
      <3>10. c <= (Room(P))'
        BY <3>4, <3>7, <3>9
      <3> QED
        BY <3>8, <3>10
    <2> QED
      BY <2>1, <2>2
  <1>12. SerialInv'
    <2> SUFFICES ASSUME ~overlap' PROVE SerialInv'
      BY DEF SerialInv
    <2>1. /\ ~overlap /\ (\A b, c \in BusyOnes : b = c) /\ MostRecentKept
          /\ files # << >> /\ Last(files).id = newest
      BY <1>1, <1>5 DEF RetentionInv, SerialInv
    <2>2. \A b \in Actors : b # a => Stage(b)' \notin {"write", "list", "prune"}
      BY <1>7, <1>10, <2>1 DEF BusyOnes, Busy, Stage
    <2>3. Stage(a)' = "prune" /\ newest' \notin StaleIds(a)'
      BY <1>5, <1>6, <1>7, <1>8, <1>10, <2>1 DEF Stage
    <2>4. MostRecentKept'
      BY <1>5, <2>1 DEF MostRecentKept
    <2> QED
      BY <1>10, <2>1, <2>2, <2>3, <2>4 DEF SerialInv
  <1> QED
    BY <1>9, <1>11, <1>12 DEF RetentionInv

LEMMA RemoveKeeps ==
  ASSUME BackupAssumption, JobInv, RetentionInv, NEW a \in Actors, RemoveStale(a)
  PROVE  RetentionInv'
  <1>1. PICK stale : stale = job[a].stale
    OBVIOUS
  <1>2. Stage(a) = "prune" /\ stale \in Seq(File) /\ stale # << >> /\ Named(files)
    BY <1>1 DEF RemoveStale, RetentionInv, DirInv
  <1>3. PICK rest : rest = Tail(stale)
    OBVIOUS
  <1>4. PICK id : id = Head(stale).id
    OBVIOUS
  <1>5. PICK j : j = [job[a] EXCEPT !.stale = rest]
    OBVIOUS
  <1>6. /\ job' = [job EXCEPT ![a] = j] /\ files' = Without(id)
        /\ UNCHANGED <<made, newest, overlap, settings, failed, stopped>>
    BY <1>1, <1>3, <1>4, <1>5 DEF RemoveStale, JobInv, Shape, bounds
  <1>7. j.stage = "prune" /\ j.stale = rest
    BY <1>2, <1>5 DEF JobInv, Shape, Stage
  <1>8. job'[a] = j /\ \A b \in Actors : b # a => job'[b] = job[b]
    BY <1>6, NewJob
  <1>9. /\ rest \in Seq(File) /\ IdsOf(stale) = IdsOf(rest) \cup {id}
    <2>1. Len(stale) \in Nat \ {0} /\ DOMAIN stale = 1..Len(stale)
      BY <1>2, EmptySeq, LenProperties
    <2>2. /\ rest \in Seq(File) /\ Len(rest) = Len(stale) - 1 /\ \A i \in 1..Len(rest) : rest[i] = stale[i + 1]
          /\ Head(stale) = stale[1]
      BY <1>2, <1>3, HeadTailProperties
    <2>3. DOMAIN rest = 1..(Len(stale) - 1)
      BY <2>2, LenProperties
    <2>4. \A i \in 1..Len(stale) : i = 1 \/ (i - 1 \in 1..(Len(stale) - 1) /\ rest[i - 1] = stale[i])
      <3> SUFFICES ASSUME NEW i \in 1..Len(stale), i # 1
                   PROVE  i - 1 \in 1..(Len(stale) - 1) /\ rest[i - 1] = stale[i]
        OBVIOUS
      <3>1. i - 1 \in 1..(Len(stale) - 1) /\ (i - 1) + 1 = i
        BY <2>1
      <3> QED
        BY <2>2, <3>1
    <2>5. \A i \in 1..(Len(stale) - 1) : i + 1 \in 1..Len(stale) /\ rest[i] = stale[i + 1]
      BY <2>1, <2>2
    <2>6. 1 \in 1..Len(stale)
      BY <2>1
    <2>7. ToSet(stale) = ToSet(rest) \cup {Head(stale)}
      <3>1. ASSUME NEW f \in ToSet(stale) PROVE f \in ToSet(rest) \/ f = Head(stale)
        <4>1. PICK i \in 1..Len(stale) : f = stale[i]
          BY <2>1 DEF ToSet
        <4> QED
          BY <2>2, <2>3, <2>4, <4>1 DEF ToSet
      <3>2. ASSUME NEW f \in ToSet(rest) PROVE f \in ToSet(stale)
        <4>1. PICK i \in 1..(Len(stale) - 1) : f = rest[i]
          BY <2>3 DEF ToSet
        <4> QED
          BY <2>1, <2>5, <4>1 DEF ToSet
      <3>3. Head(stale) \in ToSet(stale)
        BY <2>1, <2>2, <2>6 DEF ToSet
      <3> QED
        BY <3>1, <3>2, <3>3
    <2> QED
      BY <1>4, <2>2, <2>7 DEF IdsOf
  <1>10. /\ Named(files') /\ IdsOf(files') = IdsOf(files) \ {id}
         /\ ToSet(files') = {f \in ToSet(files) : f.id # id}
    BY <1>2, <1>6, WithoutIs
  <1>11. DirInv'
    BY <1>6, <1>7, <1>8, <1>9, <1>10 DEF RetentionInv, DirInv, Stage
  <1>12. /\ BusyOnes' = BusyOnes /\ Pruning' = Pruning /\ a \in Pruning /\ a \in BusyOnes
         /\ \A b \in Pruning : b # a => StaleIds(b)' = StaleIds(b)
         /\ StaleIds(a) = StaleIds(a)' \cup {id}
    BY <1>1, <1>2, <1>7, <1>8, <1>9 DEF BusyOnes, Pruning, Busy, Stage, StaleIds
  <1>13. BoundInv'
    <2> SUFFICES ASSUME NEW P \in SUBSET Pruning PROVE (Cardinality(Spare(P)) <= Room(P))'
      BY <1>12 DEF BoundInv
    <2>1. (Spare(P))' \subseteq Spare(P)
      BY <1>10, <1>12 DEF Spare
    <2>2. (Room(P))' = Room(P) /\ Room(P) \in Nat
      BY <1>6, <1>12, RoomIsNat DEF Room, RetentionInv
    <2>3. P \in SUBSET Actors
      BY DEF Pruning
    <2> QED
      BY <1>11, <2>1, <2>2, <2>3, BoundFollows DEF RetentionInv
  <1>14. SerialInv'
    <2> SUFFICES ASSUME ~overlap' PROVE SerialInv'
      BY DEF SerialInv
    <2>1. ~overlap /\ (\A b, c \in BusyOnes : b = c) /\ MostRecentKept /\ newest \notin StaleIds(a)
      BY <1>2, <1>6 DEF RetentionInv, SerialInv
    <2>2. id # newest /\ newest' \notin StaleIds(a)'
      BY <1>6, <1>12, <2>1
    <2>3. MostRecentKept'
      BY <1>6, <1>10, <2>1, <2>2 DEF MostRecentKept
    <2>4. \A b \in Actors : b # a => Stage(b)' \notin {"write", "list", "prune"}
      BY <1>8, <1>12, <2>1 DEF BusyOnes, Busy, Stage
    <2>5. Stage(a)' = "prune"
      BY <1>7, <1>8 DEF Stage
    <2> QED
      BY <1>12, <2>1, <2>2, <2>3, <2>4, <2>5 DEF SerialInv
  <1> QED
    BY <1>11, <1>13, <1>14 DEF RetentionInv

\* A backup that is over, by an error or a stop, or with nothing left to remove.
LEMMA LeaveKeeps ==
  ASSUME BackupAssumption, JobInv, RetentionInv, NEW a \in Actors, NEW j, job' = [job EXCEPT ![a] = j],
         j.stage \notin {"dump", "write", "list", "prune"},
         UNCHANGED <<made, newest, overlap, settings>>,
         \/ files' = files
         \/ Stage(a) = "write" /\ files' = Without(job[a].id),
         failed' \in Nat, stopped' \in Nat,
         \/ failed' + stopped' = failed + stopped + 1
         \/ failed' = failed /\ stopped' = stopped /\ Stage(a) = "prune" /\ job[a].stale = << >>
  PROVE  RetentionInv'
  <1>1. job'[a] = j /\ \A b \in Actors : b # a => job'[b] = job[b]
    BY NewJob
  <1>2. Named(files) /\ failed \in Nat /\ stopped \in Nat
    BY DEF RetentionInv, DirInv
  <1>3. PICK id : id = job[a].id
    OBVIOUS
  <1>4. /\ Named(files') /\ IdsOf(files') \subseteq IdsOf(files)
        /\ files' # files => /\ Stage(a) = "write"
                             /\ ToSet(files') = {f \in ToSet(files) : f.id # id}
    BY <1>2, <1>3, WithoutIs
  <1>5. DirInv'
    BY <1>1, <1>2, <1>4 DEF RetentionInv, DirInv, Stage
  <1>6. /\ BusyOnes' = BusyOnes \ {a} /\ Pruning' = Pruning \ {a}
        /\ \A b \in Pruning' : StaleIds(b)' = StaleIds(b)
    BY <1>1 DEF BusyOnes, Pruning, Busy, Stage, StaleIds
  <1>7. BoundInv'
    <2> SUFFICES ASSUME NEW P \in SUBSET Pruning' PROVE (Cardinality(Spare(P)) <= Room(P))'
      BY DEF BoundInv
    <2>1. P \in SUBSET Pruning /\ P \in SUBSET Actors
      BY <1>6 DEF Pruning
    <2>2. (Spare(P))' \subseteq Spare(P)
      BY <1>4, <1>6 DEF Spare
    <2>3. PICK K \in Nat : K = Max(Keeps)
      BY KeepsBounded
    <2>4. /\ IsFiniteSet(BusyOnes \ P) /\ (BusyOnes \ P)' = (BusyOnes \ P) \ {a}
          /\ IsFiniteSet((BusyOnes \ P)')
      BY <1>6, ActorsFinite DEF BusyOnes
    <2>5. PICK n \in Nat : n = Cardinality(BusyOnes \ P)
      BY <2>4, FS_CardinalityType
    <2>6. PICK m \in Nat : m = Cardinality((BusyOnes \ P)')
      BY <2>4, FS_CardinalityType
    <2>7. m >= n - 1
      <3>1. PICK B : B = BusyOnes \ P
        OBVIOUS
      <3>2. Cardinality(B \ {a}) = IF a \in B THEN Cardinality(B) - 1 ELSE Cardinality(B)
        BY <2>4, <3>1, FS_RemoveElement
      <3>3. n = Cardinality(B) /\ m = Cardinality(B \ {a})
        BY <2>4, <2>5, <2>6, <3>1
      <3> QED
        BY <3>2, <3>3
    <2>8. Room(P) = K + n + failed + stopped /\ (Room(P))' = K + m + failed' + stopped'
      BY <2>3, <2>5, <2>6 DEF Room
    <2>9. CASE failed' + stopped' = failed + stopped + 1
      <3>1. Room(P) <= (Room(P))'
        <4>1. PICK f \in Nat, g \in Nat : f = failed' /\ g = stopped'
          OBVIOUS
        <4>2. PICK p \in Nat, q \in Nat : p = failed /\ q = stopped
          BY <1>2
        <4>3. f + g = p + q + 1 /\ Room(P) = K + n + p + q /\ (Room(P))' = K + m + f + g
          BY <2>8, <2>9, <4>1, <4>2
        <4>4. f \in Nat /\ g \in Nat /\ p \in Nat /\ q \in Nat /\ K \in Nat /\ m \in Nat /\ n \in Nat
          BY <2>3, <2>5, <2>6, <4>1, <4>2
        <4>5. f + g = p + q + 1
          BY <4>3
        <4>6. K + n + p + q <= K + m + f + g
          BY ONLY <2>7, <4>4, <4>5
        <4> QED
          BY <4>3, <4>6
      <3> QED
        BY <1>5, <2>1, <2>2, <3>1, BoundFollows DEF RetentionInv
    <2>10. CASE failed' = failed /\ stopped' = stopped /\ Stage(a) = "prune" /\ job[a].stale = << >>
      <3>1. PICK Q \in SUBSET Pruning : Q = P \cup {a}
        BY <2>1, <2>10 DEF Pruning
      <3>2. StaleIds(a) = {}
        BY <2>10 DEF StaleIds, IdsOf, ToSet
      <3>3. (Spare(P))' \subseteq Spare(Q)
        BY <1>4, <1>6, <3>1, <3>2 DEF Spare
      <3>4. BusyOnes \ Q = (BusyOnes \ P)'
        BY <1>6, <3>1
      <3>5. Room(Q) = K + m + failed + stopped
        BY <2>3, <2>6, <3>4 DEF Room
      <3>6. Room(Q) <= (Room(P))'
        BY <1>2, <2>8, <2>10, <3>5
      <3> QED
        BY <1>5, <2>1, <3>3, <3>6, BoundFollows DEF RetentionInv
    <2> QED
      BY <2>9, <2>10
  <1>8. SerialInv'
    <2> SUFFICES ASSUME ~overlap' PROVE SerialInv'
      BY DEF SerialInv
    <2>1. ~overlap /\ (\A b, c \in BusyOnes : b = c) /\ MostRecentKept
      BY DEF RetentionInv, SerialInv
    <2>2. MostRecentKept'
      <3>1. CASE files' = files
        BY <2>1, <3>1 DEF MostRecentKept
      <3>2. CASE files' # files
        <4>1. id # newest
          BY <1>3, <1>4, <2>1, <3>2 DEF RetentionInv, SerialInv
        <4> QED
          BY <1>4, <2>1, <3>2, <4>1 DEF MostRecentKept
      <3> QED
        BY <3>1, <3>2
    <2>3. \A b \in Actors : b # a /\ job'[b] = job[b] => Stage(b)' = Stage(b)
      BY DEF Stage
    <2>4. Stage(a)' \notin {"write", "list", "prune"}
      BY <1>1 DEF Stage
    <2>5. files' = files \/ \A b \in Actors : b # a => Stage(b)' \notin {"write", "list", "prune"}
      BY <1>1, <1>4, <2>1, <2>3 DEF BusyOnes, Busy
    <2>6. \A b \in Actors : b # a =>
            /\ Stage(b)' = "write" => job'[b].id # newest' /\ job'[b].id \in IdsOf(files')
            /\ Stage(b)' = "list" => job'[b].id = newest' /\ files' # << >> /\ Last(files').id = newest'
            /\ Stage(b)' = "prune" => newest' \notin StaleIds(b)'
      BY <1>1, <2>1, <2>3, <2>5 DEF RetentionInv, SerialInv, StaleIds
    <2> QED
      BY <1>6, <2>1, <2>2, <2>4, <2>6 DEF SerialInv
  <1> QED
    BY <1>5, <1>7, <1>8 DEF RetentionInv

LEMMA RetentionStep ==
  ASSUME BackupAssumption, JobInv, RetentionInv, [Next]_vars
  PROVE  RetentionInv'
  <1>0. failed \in Nat /\ stopped \in Nat /\ settings \in Settings
    BY DEF RetentionInv, DirInv
  <1>1. CASE Tick \/ UpdateSettings \/ UNCHANGED vars
    <2>1. UNCHANGED <<job, disk, failed, stopped>> /\ settings' \in Settings
      BY <1>0, <1>1 DEF Tick, UpdateSettings, vars, disk, bounds
    <2> QED
      BY <1>0, <2>1, QuietKeeps
  \* A step of an actor that neither was busy nor becomes it.
  <1>2. ASSUME NEW a \in Actors, NEW j, job' = [job EXCEPT ![a] = j], UNCHANGED <<disk, settings, stopped>>,
               failed' = failed \/ failed' = failed + 1, ~Busy(a),
               j.stage \notin {"write", "list", "prune"}, j.stage = "dump" => j.keep \in Keeps
        PROVE  RetentionInv'
    <2>1. job'[a] = j /\ \A b \in Actors : b # a => job'[b] = job[b]
      BY <1>2, NewJob
    <2>2. failed' \in Nat /\ failed' >= failed
      BY <1>0, <1>2
    <2> QED
      BY <1>0, <1>2, <2>1, <2>2, QuietKeeps DEF Stage
  <1>3. ASSUME NEW a \in Actors, NEW s, To(a, s), UNCHANGED <<disk, settings, stopped>>,
               failed' = failed \/ failed' = failed + 1, ~Busy(a), s \notin {"dump", "write", "list", "prune"}
        PROVE  RetentionInv'
    <2>1. PICK j : j = [job[a] EXCEPT !.stage = s]
      OBVIOUS
    <2>2. j.stage = s /\ job' = [job EXCEPT ![a] = j]
      BY <1>3, <2>1 DEF JobInv, Shape, To
    <2> QED
      BY <1>2, <1>3, <2>2
  <1>4. ASSUME NEW a \in Actors, Rest(a), UNCHANGED <<disk, settings, stopped>>,
               failed' = failed \/ failed' = failed + 1, ~Busy(a)
        PROVE  RetentionInv'
    <2>1. Idle.stage = "idle" /\ job' = [job EXCEPT ![a] = Idle]
      BY <1>4 DEF Rest, Idle
    <2> QED
      BY <1>2, <1>4, <2>1
  <1>5. ASSUME NEW w \in Workers, CallStep(w) \/ StatementFails(w) PROVE RetentionInv'
    <2>0. w \in Actors
      BY DEF Actors
    <2>1. CASE BeginCall(w)
      <3>1. PICK j : j = [Idle EXCEPT !.stage = "insert", !.began = now]
        OBVIOUS
      <3>2. j.stage = "insert" /\ job' = [job EXCEPT ![w] = j]
        BY <2>1, <3>1, Begun DEF BeginCall
      <3> QED
        BY <1>2, <2>0, <2>1, <3>2 DEF BeginCall, Busy, bounds
    <2>2. CASE CheckDue(w) /\ ~Rest(w)
      <3>1. PICK j : j = [job[w] EXCEPT !.stage = "configure", !.day = Today]
        OBVIOUS
      <3>2. job' = [job EXCEPT ![w] = j] /\ ~Busy(w) /\ UNCHANGED <<disk, settings, failed, stopped>>
        BY <2>2, <3>1 DEF CheckDue, Busy, bounds
      <3>3. j.stage = "configure"
        <4>1. [job[w] EXCEPT !.stage = "configure", !.day = Today] \in Onward(job[w], "configure", Today)
          BY DEF Onward
        <4> QED
          BY <2>0, <3>1, <4>1, Reshaped DEF JobInv
      <3> QED
        BY <1>2, <2>0, <3>2, <3>3
    <2>3. CASE ~BeginCall(w) /\ ~(CheckDue(w) /\ ~Rest(w))
      <3>1. /\ Rest(w) \/ To(w, "check") \/ To(w, "update")
            /\ UNCHANGED <<disk, settings, stopped>> /\ (failed' = failed \/ failed' = failed + 1) /\ ~Busy(w)
        BY <1>5, <2>3
        DEF CallStep, InsertLease, UpdateLease, CheckDue, RecordSuccess, RecordFailure, StatementFails, Busy, bounds
      <3> QED
        BY <1>3, <1>4, <2>0, <3>1
    <2> QED
      BY <2>1, <2>2, <2>3
  <1>6. ASSUME NEW a \in Actors, Configure(a) PROVE RetentionInv'
    <2>1. PICK keep \in Keeps : keep = settings.keep
      BY <1>0 DEF Keeps
    <2>2. PICK j : j = Configured(job[a], keep)
      OBVIOUS
    <2>3. job' = [job EXCEPT ![a] = j] /\ ~Busy(a) /\ UNCHANGED <<disk, settings, failed, stopped>>
      BY <1>6, <2>1, <2>2 DEF Configure, Configured, Busy, bounds
    <2>4. j.stage = "dump" /\ j.keep = keep
      BY <2>2, Fields DEF JobInv
    <2> QED
      BY <1>2, <2>1, <2>3, <2>4
  <1>7. ASSUME NEW a \in Actors, EndBackup(a) \/ BackupFails(a) PROVE RetentionInv'
    <2>1. PICK j : j = IF Rest(a) THEN Idle ELSE [job[a] EXCEPT !.stage = IF EndBackup(a) THEN "stamp" ELSE "failed"]
      OBVIOUS
    <2>2. job' = [job EXCEPT ![a] = j]
      BY <1>7, <2>1 DEF EndBackup, BackupFails, Returned, Rest, To
    <2>3. j.stage \notin {"dump", "write", "list", "prune"}
      BY <2>1 DEF JobInv, Shape, Idle
    <2>4. UNCHANGED <<made, newest, overlap, settings, stopped>>
      BY <1>7 DEF EndBackup, BackupFails, disk, bounds
    <2>5. /\ files' = files \/ (Stage(a) = "write" /\ files' = Without(job[a].id))
          /\ \/ failed' = failed + 1
             \/ failed' = failed /\ Stage(a) = "prune" /\ job[a].stale = << >>
      BY <1>7 DEF EndBackup, BackupFails, disk, bounds
    <2>6. /\ failed' \in Nat /\ stopped' \in Nat
          /\ \/ failed' + stopped' = failed + stopped + 1
             \/ failed' = failed /\ stopped' = stopped /\ Stage(a) = "prune" /\ job[a].stale = << >>
      BY <1>0, <2>4, <2>5
    <2> QED
      BY <2>2, <2>3, <2>4, <2>5, <2>6, LeaveKeeps
  <1>8. ASSUME NEW a \in Actors, Stop(a) PROVE RetentionInv'
    <2>1. PICK s \in {"gone", "idle"} : job' = [job EXCEPT ![a] = [Idle EXCEPT !.stage = s]]
      BY <1>8 DEF Stop
    <2>2. PICK j : j = [Idle EXCEPT !.stage = s]
      OBVIOUS
    <2>3. /\ UNCHANGED <<files, made, newest, overlap, settings, failed>> /\ stopped' = stopped + 1
      BY <1>8 DEF Stop, disk
    <2>4. failed' \in Nat /\ stopped' \in Nat /\ failed' + stopped' = failed + stopped + 1
      BY <1>0, <2>3
    <2>5. j.stage = s /\ s \notin {"dump", "write", "list", "prune"}
      BY <2>1, <2>2 DEF Idle
    <2> QED
      BY <2>1, <2>2, <2>3, <2>4, <2>5, LeaveKeeps
  <1>9. ASSUME NEW a \in Admins, AskForBackup(a) PROVE RetentionInv'
    <2>1. a \in Actors /\ To(a, "configure") /\ UNCHANGED <<disk, settings, failed, stopped>> /\ ~Busy(a)
      BY <1>9 DEF AskForBackup, Actors, Busy
    <2> QED
      BY <1>3, <2>1
  <1> QED
    BY <1>1, <1>5, <1>6, <1>7, <1>8, <1>9, CreateKeeps, WriteKeeps, ListKeeps, RemoveKeeps DEF Next, BackupStep

\* Backups that come one after another keep the newest archive, whatever fails and stops in
\* between, and the directory holds no more than the archives to keep, those under way and
\* those a failure or a stop left (applyLocalBackupRetention).
THEOREM RetentionHolds == Spec => []RetentionKeeps
  <1> USE BackupAssumption
  <1>1. Init => JobInv /\ RetentionInv
    <2> SUFFICES ASSUME Init PROVE JobInv /\ RetentionInv
      OBVIOUS
    <2>1. JobInv
      BY InitMaps
    <2>2. \A a \in Actors : Stage(a) = "idle"
      BY DEF Init, Stage, Idle
    <2>3. files = << >> /\ made = 0 /\ newest = 0 /\ failed = 0 /\ stopped = 0 /\ settings \in Settings
      BY DEF Init
    <2>4. Named(files) /\ IdsOf(files) = {}
      BY <2>3, EmptySeq DEF Named, IdsOf, ToSet
    <2>5. BusyOnes = {} /\ Pruning = {}
      BY <2>2 DEF BusyOnes, Pruning, Busy
    <2>6. DirInv
      BY <2>2, <2>3, <2>4 DEF DirInv
    <2>7. BoundInv
      <3> SUFFICES ASSUME NEW P \in SUBSET Pruning PROVE Cardinality(Spare(P)) <= Room(P)
        BY DEF BoundInv
      <3>1. Spare(P) = {} /\ Room(P) \in Nat
        BY <2>4, <2>6, RoomIsNat DEF Spare
      <3> QED
        BY <3>1, FS_EmptySet
    <2>8. SerialInv
      BY <2>2, <2>3, <2>5 DEF SerialInv, MostRecentKept
    <2> QED
      BY <2>1, <2>6, <2>7, <2>8 DEF RetentionInv
  <1>2. JobInv /\ RetentionInv /\ [Next]_vars => JobInv' /\ RetentionInv'
    BY StepMaps, RetentionStep
  <1>3. RetentionInv => RetentionKeeps
    <2> SUFFICES ASSUME RetentionInv PROVE RetentionKeeps
      OBVIOUS
    <2>1. Cardinality(Spare({})) <= Room({})
      BY DEF RetentionInv, BoundInv
    <2>2. Spare({}) = IdsOf(files) /\ BusyOnes \ {} = BusyOnes
      BY DEF Spare
    <2>3. Cardinality(IdsOf(files)) = Len(files)
      BY NamesCount DEF RetentionInv, DirInv
    <2>4. DirectoryBounded
      BY <2>1, <2>2, <2>3 DEF DirectoryBounded, Room, BusyOnes, Keeps
    <2>5. SerialBackupsKeepIt
      BY DEF RetentionInv, SerialInv, SerialBackupsKeepIt
    <2> QED
      BY <2>4, <2>5 DEF RetentionKeeps
  <1> QED
    BY <1>1, <1>2, <1>3, PTL DEF Spec
=============================================================================
