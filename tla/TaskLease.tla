----------------------------- MODULE TaskLease -----------------------------
(***************************************************************************)
(* The lease of a periodic task of subdux                                  *)
(* (internal/service/background_task_lease.go): the instances that share a *)
(* database each call withBackgroundTaskLease on a timer, and the one that *)
(* gets the row of background_task_leases runs the task.  An instance is   *)
(* one life of a process: a restart has an owner id of its own             *)
(* (NewBackgroundTaskOwnerID).  A run is a single stage here;              *)
(* ScheduledBackup refines it.                                             *)
(***************************************************************************)
EXTENDS Integers

CONSTANTS
  Instances,  \* owner ids
  TTL,        \* the ttl a task asks for
  MaxRun,     \* the longest a call lasts, from reading the clock to its end
  MaxTime     \* bound on the clock

VARIABLES
  now,    \* the clock
  lease,  \* the task's rows in background_task_leases: one or none
  call    \* [Instances -> the stage of the call and the time it read]

vars == <<now, lease, call>>

Stage == {"idle", "insert", "update", "run", "gone"}
Idle == [stage |-> "idle", began |-> 0]

InCall(i) == call[i].stage \in {"insert", "update", "run"}
Running == {i \in Instances : call[i].stage = "run"}

Init ==
  /\ now = 0
  /\ lease = {}
  /\ call = [i \in Instances |-> Idle]

\* A call that has lasted MaxRun ends before the clock moves on.
Tick ==
  /\ now < MaxTime
  /\ \A i \in Instances : InCall(i) => now < call[i].began + MaxRun
  /\ now' = now + 1
  /\ UNCHANGED <<lease, call>>

\* withBackgroundTaskLease: acquireBackgroundTaskLease reads the clock once.
Begin(i) ==
  /\ call[i].stage = "idle"
  /\ call' = [call EXCEPT ![i] = [stage |-> "insert", began |-> now]]
  /\ UNCHANGED <<now, lease>>

Granted(i) == [owner |-> i, until |-> call[i].began + TTL]

\* INSERT ... ON CONFLICT DO NOTHING.
InsertLease(i) ==
  /\ call[i].stage = "insert"
  /\ \/ /\ lease = {}
        /\ lease' = {Granted(i)}
        /\ call' = [call EXCEPT ![i].stage = "run"]
     \/ /\ lease # {}
        /\ call' = [call EXCEPT ![i].stage = "update"]
        /\ UNCHANGED lease
  /\ UNCHANGED now

\* Lapsed at the time that was read, or the caller's own.
Reclaimable(i) == \E l \in lease : l.until <= call[i].began \/ l.owner = i

\* The conditional UPDATE.
UpdateLease(i) ==
  /\ call[i].stage = "update"
  /\ \/ /\ Reclaimable(i)
        /\ lease' = {Granted(i)}
        /\ call' = [call EXCEPT ![i].stage = "run"]
     \/ /\ ~Reclaimable(i)
        /\ call' = [call EXCEPT ![i] = Idle]
        /\ UNCHANGED lease
  /\ UNCHANGED now

\* The run returns, or a statement before it fails; the lease stays as it is.
End(i) ==
  /\ InCall(i)
  /\ call' = [call EXCEPT ![i] = Idle]
  /\ UNCHANGED <<now, lease>>

\* The process ends, with or without a call in flight.
Stop(i) ==
  /\ call[i].stage # "gone"
  /\ call' = [call EXCEPT ![i] = [stage |-> "gone", began |-> 0]]
  /\ UNCHANGED <<now, lease>>

Step(i) == Begin(i) \/ InsertLease(i) \/ UpdateLease(i) \/ End(i) \/ Stop(i)

Next == Tick \/ \E i \in Instances : Step(i)

Spec == Init /\ [][Next]_vars
-----------------------------------------------------------------------------
TypeOK ==
  /\ now \in Nat
  /\ lease \subseteq [owner : Instances, until : Nat]
  /\ call \in [Instances -> [stage : Stage, began : Nat]]

\* What the exclusion rests on: a call is shorter than the lease it asks for.
RunsFit == TTL \in Nat /\ MaxRun \in Nat /\ MaxRun < TTL

\* Only one instance runs the task at a time (acquireBackgroundTaskLease: "so a
\* single instance runs a periodic task even when several share one database").
OneRuns == \A i, j \in Running : i = j

\* A run is covered by its own lease from beginning to end: nobody can take the
\* row from an instance that still runs (the lease has no heartbeat).
RunsUnderLease == \A i \in Running : \E l \in lease : l.owner = i /\ now < l.until
=============================================================================
