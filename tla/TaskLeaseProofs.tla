-------------------------- MODULE TaskLeaseProofs --------------------------
(***************************************************************************)
(* Proof that the lease excludes concurrent runs, for any number of        *)
(* instances, as long as a call ends before the lease it asked for lapses. *)
(***************************************************************************)
EXTENDS TaskLease, TLAPS

\* What is inductive: a running instance owns the row, the row says when its call
\* began, and no call is older than MaxRun.
LeaseInv ==
  /\ TypeOK
  /\ \A i \in Instances : InCall(i) => call[i].began <= now /\ now <= call[i].began + MaxRun
  /\ \A i \in Running : lease = {Granted(i)}

LEMMA LeaseInvInit == Init => LeaseInv
  BY DEF Init, LeaseInv, TypeOK, Idle, Stage, InCall, Running

LEMMA LeaseInvStep ==
  ASSUME RunsFit, LeaseInv, [Next]_vars
  PROVE  LeaseInv'
  <1> USE DEF RunsFit, LeaseInv, TypeOK, Stage, InCall, Running, Granted
  <1>1. CASE Tick
    BY <1>1 DEF Tick
  <1>2. ASSUME NEW i \in Instances, Begin(i) PROVE LeaseInv'
    BY <1>2 DEF Begin
  <1>3. ASSUME NEW i \in Instances, InsertLease(i) PROVE LeaseInv'
    <2>1. CASE lease = {}
      <3>1. Running = {}
        BY <2>1
      <3> QED
        BY <1>3, <2>1, <3>1 DEF InsertLease
    <2>2. CASE lease # {}
      BY <1>3, <2>2 DEF InsertLease
    <2> QED
      BY <2>1, <2>2
  <1>4. ASSUME NEW i \in Instances, UpdateLease(i) PROVE LeaseInv'
    <2>1. CASE Reclaimable(i)
      <3>1. ASSUME NEW j \in Running PROVE FALSE
        <4>1. /\ lease = {[owner |-> j, until |-> call[j].began + TTL]}
             /\ call[j].began \in Nat /\ j # i
          BY <1>4 DEF UpdateLease
        <4>2. call[i].began <= now /\ now <= call[j].began + MaxRun
          BY <1>4 DEF UpdateLease
        <4> QED
          BY <2>1, <4>1, <4>2 DEF Reclaimable
      <3> QED
        BY <1>4, <2>1, <3>1 DEF UpdateLease
    <2>2. CASE ~Reclaimable(i)
      BY <1>4, <2>2 DEF UpdateLease, Idle
    <2> QED
      BY <2>1, <2>2
  <1>5. ASSUME NEW i \in Instances, End(i) PROVE LeaseInv'
    BY <1>5 DEF End, Idle
  <1>6. ASSUME NEW i \in Instances, Stop(i) PROVE LeaseInv'
    BY <1>6 DEF Stop
  <1>7. CASE UNCHANGED vars
    BY <1>7 DEF vars
  <1> QED
    BY <1>1, <1>2, <1>3, <1>4, <1>5, <1>6, <1>7 DEF Next, Step

LEMMA LeaseInvImplies == RunsFit /\ LeaseInv => OneRuns /\ RunsUnderLease
  <1> SUFFICES ASSUME RunsFit, LeaseInv PROVE OneRuns /\ RunsUnderLease
    OBVIOUS
  <1>1. OneRuns
    <2> SUFFICES ASSUME NEW i \in Running, NEW j \in Running PROVE i = j
      BY DEF OneRuns
    <2>1. Granted(i) = Granted(j)
      BY DEF LeaseInv
    <2> QED
      BY <2>1 DEF Granted
  <1>2. RunsUnderLease
    <2> SUFFICES ASSUME NEW i \in Running
                 PROVE  \E l \in lease : l.owner = i /\ now < l.until
      BY DEF RunsUnderLease
    <2>1. call[i].began \in Nat /\ now \in Nat /\ now <= call[i].began + MaxRun
      BY DEF LeaseInv, TypeOK, Running, InCall
    <2>2. [owner |-> i, until |-> call[i].began + TTL] \in lease
      BY DEF LeaseInv, Granted
    <2> QED
      BY <2>1, <2>2 DEF RunsFit
  <1> QED
    BY <1>1, <1>2

\* The lease of a periodic task excludes concurrent runs, whatever crashes,
\* restarts and delays between the statements, if a call is shorter than the ttl.
THEOREM LeaseExcludes == RunsFit => (Spec => []OneRuns)
  <1> SUFFICES ASSUME RunsFit PROVE Spec => []OneRuns
    OBVIOUS
  <1>1. LeaseInv /\ [Next]_vars => LeaseInv'
    BY LeaseInvStep
  <1>2. LeaseInv => OneRuns
    BY LeaseInvImplies
  <1> QED
    BY <1>1, <1>2, LeaseInvInit, PTL DEF Spec

\* Under the same condition a run never outlives its lease, so no other instance
\* can take the row from it.
THEOREM RunsAreCovered == RunsFit => (Spec => []RunsUnderLease)
  <1> SUFFICES ASSUME RunsFit PROVE Spec => []RunsUnderLease
    OBVIOUS
  <1>1. LeaseInv /\ [Next]_vars => LeaseInv'
    BY LeaseInvStep
  <1>2. LeaseInv => RunsUnderLease
    BY LeaseInvImplies
  <1> QED
    BY <1>1, <1>2, LeaseInvInit, PTL DEF Spec
=============================================================================
