-------------------------- MODULE ServerWritesProofs --------------------------
(***************************************************************************)
(* Proofs about the parts of the server that change what they have read    *)
(* some statements before, each for every value of its bounds: the         *)
(* idempotent write tools (McpWrites), the enabled channels of a user      *)
(* (ChannelStore), the icon files of a row (IconFiles), the codes sent by  *)
(* e-mail with the pages that ask for them (EmailCodes), two-factor        *)
(* authentication with the section of its page (TwoFactor), a channel with *)
(* the form that it is edited in (ChannelForm) and the icon of a row with  *)
(* the page that it is chosen on (IconPicker).                             *)
(***************************************************************************)
EXTENDS McpWrites, ChannelStore, IconFiles, EmailCodes, TwoFactor, ChannelForm, IconPicker, FiniteSetTheorems, TLAPS

-----------------------------------------------------------------------------
(* McpWrites: a key is executed once. *)

McpSpec == McpInit /\ [][McpNext]_mcpVars

McpRecord == [key : McpKeys, tool : McpTools, response : Nat]

McpCall == [n : Nat, server : Servers, key : McpKeys, tool : McpTools,
            at : {"sent", "open", "answer", "failed", "cleanup"}, seen : Nat, response : Nat]

McpTypeOK ==
    /\ subExists \in BOOLEAN /\ iconFile \in BOOLEAN /\ iconLeft \in BOOLEAN
    /\ renewals \in Nat /\ commits \in Nat /\ callsMade \in Nat
    /\ records \subseteq McpRecord /\ IsFiniteSet(records)
    /\ mcpCalls \subseteq McpCall

RecordOf(c) == [key |-> c.key, tool |-> c.tool, response |-> c.response]

\* A key has one record, and a result under way is the recorded one.
OneRecordEach ==
    /\ \A r, s \in records : r.key = s.key => r = s
    /\ \A c \in mcpCalls : c.at \in {"answer", "cleanup"} => RecordOf(c) \in records

\* A transaction that may still commit has seen every record of its key: there is none.
SnapshotsHold ==
    \A c \in mcpCalls : c.at = "open" /\ Current(c) => Stored(c.key) = {}

SnapshotsPast == \A c \in mcpCalls : c.seen <= commits

DeletedOnce == \A c \in mcpCalls : c.at = "cleanup" => ~subExists

McpInv ==
    /\ McpTypeOK /\ OneRecordEach /\ SnapshotsHold /\ SnapshotsPast /\ DeletedOnce
    /\ RetriesAddNothing

LEMMA McpInitial ==
  ASSUME McpInit
  PROVE  McpInv
<1>1. records = {} /\ {r \in records : r.tool = "mark_subscription_renewed"} = {}
      /\ auditTrail = {[key |-> r.key, tool |-> r.tool] : r \in records}
  BY DEF McpInit
<1>2. RetriesAddNothing
  BY <1>1, FS_EmptySet DEF McpInit, RetriesAddNothing, RetriesAreSafe, IconFollowsRow
<1> QED
  BY <1>2, FS_EmptySet
  DEF McpInit, McpInv, McpTypeOK, OneRecordEach, SnapshotsHold, SnapshotsPast, DeletedOnce

\* What a step that leaves the tables alone may do to the calls under way.
LEMMA CallMoves ==
  ASSUME McpInv, UNCHANGED <<mcpStored, iconFile, callsMade, iconLeft, mcpAnswers>>,
         NEW c \in mcpCalls, NEW d \in McpCall, mcpCalls' = (mcpCalls \ {c}) \cup {d},
         c.at # "cleanup",
         d.at \in {"answer", "cleanup"} => RecordOf(d) \in records,
         d.at = "open" /\ Current(d) => Stored(d.key) = {},
         d.seen <= commits, d.at # "cleanup"
  PROVE  McpInv'
<1>1. McpTypeOK'
  BY DEF McpInv, McpTypeOK, mcpStored
<1>2. OneRecordEach' /\ SnapshotsPast' /\ DeletedOnce'
  BY DEF McpInv, OneRecordEach, SnapshotsPast, DeletedOnce, mcpStored, RecordOf
<1>3. SnapshotsHold'
  BY DEF McpInv, SnapshotsHold, Current, Stored, mcpStored
<1>4. RetriesAddNothing'
  BY DEF McpInv, RetriesAddNothing, RetriesAreSafe, IconFollowsRow, mcpStored
<1> QED
  BY <1>1, <1>2, <1>3, <1>4 DEF McpInv

LEMMA CommitAddsRecord ==
  ASSUME McpInv, NEW c \in mcpCalls, CommitWrite(c)
  PROVE  McpInv'
<1> DEFINE new == [key |-> c.key, tool |-> c.tool, response |-> renewals']
           Renewed(S) == {r \in S : r.tool = "mark_subscription_renewed"}
<1>1. c \in McpCall /\ c.at = "open" /\ Current(c) /\ subExists
  BY DEF McpInv, McpTypeOK, CommitWrite, Mutate
<1>2. Stored(c.key) = {} /\ new \notin records
  BY <1>1 DEF McpInv, SnapshotsHold, Stored
<1>3. renewals' \in Nat /\ new \in McpRecord /\ records' = records \cup {new}
      /\ commits' = commits + 1 /\ commits \in Nat
      /\ UNCHANGED <<iconFile, callsMade, iconLeft, mcpAnswers>>
  BY <1>1 DEF CommitWrite, Mutate, McpInv, McpTypeOK, McpRecord, McpCall
<1> DEFINE moved == [c EXCEPT !.at = IF c.tool = "delete_subscription" THEN "cleanup" ELSE "answer",
                              !.response = renewals']
<1>4. moved \in McpCall /\ mcpCalls' = (mcpCalls \ {c}) \cup {moved}
      /\ RecordOf(moved) = new /\ moved.seen = c.seen /\ moved.key = c.key
      /\ moved.at = (IF c.tool = "delete_subscription" THEN "cleanup" ELSE "answer")
  BY <1>1, <1>3 DEF CommitWrite, Replace, McpCall, RecordOf
<1> HIDE DEF moved
<1>5. McpTypeOK'
  <2>1. IsFiniteSet(records')
    BY <1>3, FS_AddElement DEF McpInv, McpTypeOK
  <2>2. subExists' \in BOOLEAN
    BY DEF CommitWrite, Mutate
  <2>3. records' \subseteq McpRecord /\ mcpCalls' \subseteq McpCall /\ commits' \in Nat
    BY <1>3, <1>4 DEF McpInv, McpTypeOK
  <2>4. UNCHANGED <<iconFile, callsMade, iconLeft>> /\ renewals' \in Nat
    BY <1>3
  <2> QED
    BY <2>1, <2>2, <2>3, <2>4 DEF McpInv, McpTypeOK
<1>6. OneRecordEach'
  <2>1. \A r \in records : r.key # new.key
    BY <1>2 DEF Stored
  <2>2. \A r, s \in records' : r.key = s.key => r = s
    BY <2>1, <1>3 DEF McpInv, OneRecordEach
  <2>3. \A d \in mcpCalls' : d.at \in {"answer", "cleanup"} => RecordOf(d) \in records'
    BY <1>3, <1>4 DEF McpInv, OneRecordEach
  <2> QED
    BY <2>2, <2>3 DEF OneRecordEach, RecordOf
<1>7. SnapshotsPast' /\ SnapshotsHold'
  <2>1. \A d \in mcpCalls : d.seen <= commits /\ d.seen \in Nat
    BY DEF McpInv, SnapshotsPast, McpTypeOK, McpCall
  <2>2. \A d \in mcpCalls' : d.seen < commits'
    BY <2>1, <1>3, <1>4
  <2>3. \A d \in mcpCalls' : d.seen \in Nat
    BY <2>1, <1>4
  <2> QED
    BY <2>2, <2>3, <1>3 DEF SnapshotsPast, SnapshotsHold, Current
<1>8. DeletedOnce'
  <2>1. subExists' = (c.tool # "delete_subscription") /\ \A d \in mcpCalls : d.at # "cleanup"
    BY <1>1 DEF CommitWrite, Mutate, McpInv, DeletedOnce
  <2> QED
    BY <2>1, <1>4 DEF DeletedOnce
<1>9. RetriesAreSafe'
  <2>1. IsFiniteSet(records) /\ IsFiniteSet(Renewed(records)) /\ renewals = Cardinality(Renewed(records))
    <3>1. IsFiniteSet(records) /\ Renewed(records) \subseteq records
      BY DEF McpInv, McpTypeOK
    <3> QED
      BY <3>1, FS_Subset DEF McpInv, RetriesAddNothing, RetriesAreSafe
  <2>2. renewals' = Cardinality(Renewed(records'))
    <3>1. CASE c.tool = "mark_subscription_renewed"
      <4>1. Renewed(records') = Renewed(records) \cup {new} /\ new \notin Renewed(records)
        BY <1>2, <1>3, <3>1
      <4>2. renewals' = renewals + 1
        BY <3>1 DEF CommitWrite, Mutate
      <4> QED
        BY <4>1, <4>2, <2>1, FS_AddElement
    <3>2. CASE c.tool = "delete_subscription"
      <4>1. Renewed(records') = Renewed(records)
        BY <1>3, <3>2
      <4>2. renewals' = renewals
        BY <3>2 DEF CommitWrite, Mutate
      <4> QED
        BY <4>1, <4>2, <2>1
    <3> QED
      BY <3>1, <3>2, <1>1 DEF McpCall, McpTools
  <2>3. auditTrail' = {[key |-> r.key, tool |-> r.tool] : r \in records'}
    BY <1>3 DEF CommitWrite, McpInv, RetriesAddNothing, RetriesAreSafe
  <2> QED
    BY <2>2, <2>3, <1>3 DEF McpInv, RetriesAddNothing, RetriesAreSafe
<1>10. IconFollowsRow'
  <2>1. subExists' = (c.tool # "delete_subscription")
    BY DEF CommitWrite, Mutate
  <2> QED
    BY <1>1, <1>3, <1>4, <2>1 DEF McpInv, RetriesAddNothing, IconFollowsRow
<1> QED
  BY <1>5, <1>6, <1>7, <1>8, <1>9, <1>10 DEF McpInv, RetriesAddNothing
LEMMA McpStep ==
  ASSUME McpInv, [McpNext]_mcpVars
  PROVE  McpInv'
<1>1. ASSUME NEW s \in Servers, NEW k \in McpKeys, NEW tool \in McpTools, CallTool(s, k, tool)
      PROVE  McpInv'
  <2> DEFINE new == [n |-> callsMade + 1, server |-> s, key |-> k, tool |-> tool, at |-> "sent",
                     seen |-> 0, response |-> 0]
  <2>1. new \in McpCall /\ new.at = "sent" /\ new.seen <= commits /\ callsMade + 1 \in Nat
    BY DEF McpInv, McpTypeOK, McpCall
  <2>2. mcpCalls' = mcpCalls \cup {new} /\ callsMade' = callsMade + 1
        /\ UNCHANGED <<mcpStored, iconFile, iconLeft, mcpAnswers>>
    BY <1>1 DEF CallTool
  <2> HIDE DEF new
  <2>3. McpTypeOK'
    BY <2>1, <2>2 DEF McpInv, McpTypeOK, mcpStored
  <2>4. OneRecordEach' /\ SnapshotsPast' /\ SnapshotsHold' /\ DeletedOnce'
    BY <2>1, <2>2
    DEF McpInv, OneRecordEach, SnapshotsPast, SnapshotsHold, DeletedOnce, Current, Stored, mcpStored, RecordOf
  <2>5. RetriesAddNothing'
    BY <2>2 DEF McpInv, RetriesAddNothing, RetriesAreSafe, IconFollowsRow, mcpStored
  <2> QED
    BY <2>3, <2>4, <2>5 DEF McpInv
<1>2. ASSUME NEW c \in mcpCalls, LookupKey(c)
      PROVE  McpInv'
  <2>1. c \in McpCall /\ c.at = "sent" /\ c.seen <= commits /\ commits \in Nat
    BY <1>2 DEF LookupKey, McpInv, McpTypeOK, SnapshotsPast
  <2>2. UNCHANGED <<mcpStored, iconFile, callsMade, iconLeft, mcpAnswers>>
    BY <1>2 DEF LookupKey
  <2>3. CASE \E r \in Stored(c.key) : r.tool = c.tool
    <3>1. PICK r \in Stored(c.key) : Replace(c, [c EXCEPT !.at = "answer", !.response = r.response])
      BY <1>2, <2>3 DEF LookupKey
    <3> DEFINE moved == [c EXCEPT !.at = "answer", !.response = r.response]
    <3>2. r \in records /\ r.key = c.key /\ r.tool = c.tool /\ r \in McpRecord
      BY <2>3, <3>1 DEF Stored, McpInv, OneRecordEach, McpTypeOK
    <3>3. moved \in McpCall /\ moved.at = "answer" /\ moved.seen <= commits /\ RecordOf(moved) = r
      BY <2>1, <3>2 DEF McpCall, McpRecord, RecordOf
    <3>4. mcpCalls' = (mcpCalls \ {c}) \cup {moved}
      BY <3>1 DEF Replace
    <3> HIDE DEF moved
    <3> QED
      BY <2>1, <2>2, <3>2, <3>3, <3>4, CallMoves
  <2>4. CASE Stored(c.key) # {} /\ ~\E r \in Stored(c.key) : r.tool = c.tool
    <3> DEFINE moved == [c EXCEPT !.at = "failed"]
    <3>1. moved \in McpCall /\ moved.at = "failed" /\ moved.seen <= commits
      BY <2>1 DEF McpCall
    <3>2. mcpCalls' = (mcpCalls \ {c}) \cup {moved}
      BY <1>2, <2>4 DEF Replace, LookupKey
    <3> HIDE DEF moved
    <3> QED
      BY <2>1, <2>2, <3>1, <3>2, CallMoves
  <2>5. CASE Stored(c.key) = {}
    <3> DEFINE moved == [c EXCEPT !.at = "open", !.seen = commits]
    <3>1. moved \in McpCall /\ moved.at = "open" /\ moved.seen = commits /\ moved.key = c.key
      BY <2>1 DEF McpCall
    <3>2. mcpCalls' = (mcpCalls \ {c}) \cup {moved}
      BY <1>2, <2>5 DEF Replace, LookupKey
    <3> HIDE DEF moved
    <3>3. moved.seen <= commits
      BY <3>1, <2>1
    <3> QED
      BY <2>1, <2>2, <2>5, <3>1, <3>2, <3>3, CallMoves
  <2> QED
    BY <2>3, <2>4, <2>5
<1>3. ASSUME NEW c \in mcpCalls, CommitWrite(c)
      PROVE  McpInv'
  BY <1>3, CommitAddsRecord
<1>4. ASSUME NEW c \in mcpCalls, RollBack(c)
      PROVE  McpInv'
  <2> DEFINE moved == [c EXCEPT !.at = "failed"]
  <2>1. c \in McpCall /\ c.at = "open" /\ c.seen <= commits
    BY <1>4 DEF RollBack, McpInv, McpTypeOK, SnapshotsPast
  <2>2. moved \in McpCall /\ moved.at = "failed" /\ moved.seen <= commits
    BY <2>1 DEF McpCall
  <2>3. mcpCalls' = (mcpCalls \ {c}) \cup {moved}
        /\ UNCHANGED <<mcpStored, iconFile, callsMade, iconLeft, mcpAnswers>>
    BY <1>4 DEF RollBack, Replace
  <2> HIDE DEF moved
  <2> QED
    BY <2>1, <2>2, <2>3, CallMoves
<1>5. ASSUME NEW c \in mcpCalls, CleanUp(c)
      PROVE  McpInv'
  <2> DEFINE moved == [c EXCEPT !.at = "answer"]
  <2>1. c \in McpCall /\ c.at = "cleanup" /\ c.seen <= commits /\ RecordOf(c) \in records /\ ~subExists
    BY <1>5 DEF CleanUp, McpInv, McpTypeOK, SnapshotsPast, OneRecordEach, DeletedOnce
  <2>2. moved \in McpCall /\ moved.at = "answer" /\ moved.seen <= commits /\ RecordOf(moved) = RecordOf(c)
    BY <2>1 DEF McpCall, RecordOf
  <2>3. mcpCalls' = (mcpCalls \ {c}) \cup {moved} /\ iconFile' = FALSE
        /\ UNCHANGED <<mcpStored, callsMade, iconLeft, mcpAnswers>>
    BY <1>5 DEF CleanUp, Replace
  <2> HIDE DEF moved
  <2>4. McpTypeOK'
    BY <2>2, <2>3 DEF McpInv, McpTypeOK, mcpStored
  <2>5. OneRecordEach' /\ SnapshotsPast' /\ SnapshotsHold' /\ DeletedOnce'
    BY <2>1, <2>2, <2>3
    DEF McpInv, OneRecordEach, SnapshotsPast, SnapshotsHold, DeletedOnce, Current, Stored, mcpStored, RecordOf
  <2>6. RetriesAddNothing'
    BY <2>1, <2>3 DEF McpInv, RetriesAddNothing, RetriesAreSafe, IconFollowsRow, mcpStored
  <2> QED
    BY <2>4, <2>5, <2>6 DEF McpInv
<1>6. ASSUME NEW c \in mcpCalls, AnswerCall(c)
      PROVE  McpInv'
  <2>1. mcpCalls' = mcpCalls \ {c} /\ UNCHANGED <<mcpStored, iconFile, callsMade, iconLeft>>
        /\ c.at \in {"answer", "failed"}
    BY <1>6 DEF AnswerCall
  <2>2. mcpAnswers' \subseteq mcpAnswers \cup {RecordOf(d) : d \in {e \in {c} : e.at = "answer"}}
    BY <1>6 DEF AnswerCall, RecordOf
  <2>3. mcpAnswers' \subseteq records
    BY <2>2 DEF McpInv, RetriesAddNothing, RetriesAreSafe, OneRecordEach
  <2>4. McpTypeOK' /\ OneRecordEach' /\ SnapshotsPast' /\ SnapshotsHold' /\ DeletedOnce'
    BY <2>1 DEF McpInv, McpTypeOK, OneRecordEach, SnapshotsPast, SnapshotsHold, DeletedOnce, Current, Stored,
                mcpStored, RecordOf
  <2>5. RetriesAddNothing'
    BY <2>1, <2>3 DEF McpInv, RetriesAddNothing, RetriesAreSafe, IconFollowsRow, mcpStored
  <2> QED
    BY <2>4, <2>5 DEF McpInv
<1>7. ASSUME NEW s \in Servers, StopServer(s)
      PROVE  McpInv'
  <2>1. mcpCalls' = {c \in mcpCalls : c.server # s}
        /\ UNCHANGED <<mcpStored, iconFile, callsMade, mcpAnswers>>
        /\ iconLeft' = (iconLeft \/ \E c \in mcpCalls : c.server = s /\ c.at = "cleanup")
    BY <1>7 DEF StopServer
  <2>2. McpTypeOK' /\ OneRecordEach' /\ SnapshotsPast' /\ SnapshotsHold' /\ DeletedOnce'
    BY <2>1 DEF McpInv, McpTypeOK, OneRecordEach, SnapshotsPast, SnapshotsHold, DeletedOnce, Current, Stored,
                mcpStored, RecordOf
  <2>3. RetriesAddNothing'
    BY <2>1 DEF McpInv, RetriesAddNothing, RetriesAreSafe, IconFollowsRow, mcpStored
  <2> QED
    BY <2>2, <2>3 DEF McpInv
<1>8. CASE UNCHANGED mcpVars
  BY <1>8 DEF mcpVars, McpInv, McpTypeOK, OneRecordEach, SnapshotsPast, SnapshotsHold, DeletedOnce, Current,
              Stored, RecordOf, RetriesAddNothing, RetriesAreSafe, IconFollowsRow
<1> QED
  BY <1>1, <1>2, <1>3, <1>4, <1>5, <1>6, <1>7, <1>8 DEF McpNext

THEOREM McpInvariant == McpSpec => []McpInv
BY McpInitial, McpStep, PTL DEF McpSpec

\* mcp_idempotency.go, runIdempotentWrite: for any number of processes, keys, calls and
\* stops, every period the subscription was renewed by has a record of its own, every
\* result the agent gets is the recorded one, and the icon goes with the row.
THEOREM RetryingIsSafe == McpSpec => []RetriesAddNothing
<1>1. McpInv => RetriesAddNothing
  BY DEF McpInv
<1> QED
  BY <1>1, McpInvariant, PTL

\* A key that was executed stays executed, with the result of its first execution.
KeysKeepTheirResult ==
    [][\A r \in records : {s \in records' : s.key = r.key} = {r}]_mcpVars

\* What KeysKeepTheirResult says, whatever is called afterwards.
THEOREM ResultsAreFinal == McpSpec => KeysKeepTheirResult
<1> DEFINE Final == \A r \in records : {s \in records' : s.key = r.key} = {r}
<1>1. ASSUME McpInv, [McpNext]_mcpVars
      PROVE  [Final]_mcpVars
  <2>1. OneRecordEach /\ McpInv'
    BY <1>1, McpStep DEF McpInv
  <2>2. records \subseteq records'
    BY <1>1 DEF McpNext, CallTool, LookupKey, CommitWrite, RollBack, CleanUp, AnswerCall, StopServer, mcpVars,
                mcpStored
  <2> QED
    BY <2>1, <2>2 DEF McpInv, OneRecordEach
<1> QED
  BY <1>1, McpInvariant, PTL DEF McpSpec, KeysKeepTheirResult
-----------------------------------------------------------------------------
(* ChannelStore: the limit is nearly kept and the rows stay whole. *)

StoreSpec == StoreInit /\ [][StoreNext]_storeVars

StoreRow == [id : Nat, enabled : BOOLEAN, secret : Nat \ {0}]

StoreWriter == [id : Nat, at : {"count", "write"}, enable : BOOLEAN, secret : Nat, kept : Nat,
                writes : {{"row"}, {"enabled"}, {"config"}, {"enabled", "config"}}]

StoreTypeOK ==
    /\ rowsMade \in Nat /\ typedSecrets \in Nat /\ removedIds \subseteq Nat
    /\ rows \subseteq StoreRow /\ IsFiniteSet(rows)
    /\ writers \subseteq StoreWriter /\ IsFiniteSet(writers)

WritersFew == Cardinality(writers) <= MaxWriters

RowsDistinct == \A r, s \in rows : r.id = s.id => r = s

IdsMade ==
    /\ \A r \in rows : r.id <= rowsMade
    /\ \A w \in writers : w.id <= rowsMade
    /\ \A id \in removedIds : id <= rowsMade

\* The row that a creation inserts is not there, was not deleted, and is inserted by it alone.
InsertsFresh ==
    \A w \in writers : "row" \in w.writes =>
        /\ Row(w.id) = {} /\ w.id \notin removedIds
        /\ \A v \in writers : v.id = w.id => v = w

SecretsKnown == \A w \in writers : SecretAfter(w) # 0

\* The channels that are enabled, and those that a request has leave to enable.
EnabledIds == {r.id : r \in {s \in rows : s.enabled}}

Enables(w) == w.at = "write" /\ w.enable /\ ("row" \in w.writes \/ "enabled" \in w.writes)

EnablingIds == {w.id : w \in {v \in writers : Enables(v)}}

LeavesBounded == Cardinality(EnabledIds \cup EnablingIds) <= MaxEnabled + MaxWriters - 1

StoreInv ==
    /\ StoreTypeOK /\ WritersFew /\ RowsDistinct /\ IdsMade /\ InsertsFresh /\ SecretsKnown
    /\ LeavesBounded
    /\ ChannelsWhole

LEMMA IdsCounted ==
  ASSUME NEW S, IsFiniteSet(S)
  PROVE  /\ IsFiniteSet({x.id : x \in S})
         /\ Cardinality({x.id : x \in S}) <= Cardinality(S)
         /\ (\A x, y \in S : x.id = y.id => x = y) => Cardinality({x.id : x \in S}) = Cardinality(S)
<1> DEFINE T == {x.id : x \in S}
           f == [x \in S |-> x.id]
<1>1. f \in Surjection(S, T)
  BY DEF Surjection
<1>2. (\A x, y \in S : x.id = y.id => x = y) => f \in Injection(S, T)
  BY <1>1 DEF Surjection, Injection, IsInjective
<1> HIDE DEF f, T
<1>3. IsFiniteSet(T) /\ Cardinality(T) <= Cardinality(S)
      /\ (Cardinality(T) = Cardinality(S) <=> f \in Injection(S, T))
  BY <1>1, FS_Surjection
<1> QED
  BY <1>2, <1>3 DEF T

LEMMA EnabledCounted ==
  ASSUME StoreTypeOK, RowsDistinct
  PROVE  IsFiniteSet(EnabledIds) /\ Cardinality(EnabledIds) = EnabledCount /\ EnabledCount \in Nat
<1> DEFINE S == {r \in rows : r.enabled}
<1>1. IsFiniteSet(S) /\ \A x, y \in S : x.id = y.id => x = y
  BY FS_Subset DEF StoreTypeOK, RowsDistinct
<1>2. EnabledIds = {x.id : x \in S} /\ EnabledCount = Cardinality(S)
  BY DEF EnabledIds, EnabledCount
<1> HIDE DEF S
<1> QED
  BY <1>1, <1>2, IdsCounted, FS_CardinalityType

LEMMA EnablingCounted ==
  ASSUME NEW W, IsFiniteSet(W)
  PROVE  LET I == {w.id : w \in {v \in W : Enables(v)}}
         IN  IsFiniteSet(I) /\ Cardinality(I) <= Cardinality(W) /\ Cardinality(I) \in Nat
<1> DEFINE S == {v \in W : Enables(v)}
<1>1. IsFiniteSet(S) /\ Cardinality(S) <= Cardinality(W)
  BY FS_Subset
<1>2. Cardinality(S) \in Nat /\ Cardinality(W) \in Nat
  BY <1>1, FS_CardinalityType
<1> HIDE DEF S
<1>3. IsFiniteSet({w.id : w \in S}) /\ Cardinality({w.id : w \in S}) <= Cardinality(S)
  BY <1>1, IdsCounted
<1>4. Cardinality({w.id : w \in S}) \in Nat
  BY <1>3, FS_CardinalityType
<1>5. Cardinality({w.id : w \in S}) <= Cardinality(W)
  BY <1>1, <1>2, <1>3, <1>4
<1> QED
  BY <1>3, <1>4, <1>5 DEF S

\* The channels that are or will be enabled: every step but a count can only reduce them.
LEMMA LeavesShrink ==
  ASSUME StoreInv, (EnabledIds \cup EnablingIds)' \subseteq EnabledIds \cup EnablingIds
  PROVE  LeavesBounded'
<1> DEFINE U == EnabledIds \cup EnablingIds
<1>1. IsFiniteSet(EnabledIds)
  BY EnabledCounted DEF StoreInv
<1>2. IsFiniteSet(EnablingIds)
  BY EnablingCounted DEF StoreInv, StoreTypeOK, EnablingIds
<1>3. IsFiniteSet(U)
  BY <1>1, <1>2, FS_Union
<1>4. IsFiniteSet(U') /\ Cardinality(U') <= Cardinality(U)
  BY <1>3, FS_Subset
<1>5. Cardinality(U) \in Nat /\ Cardinality(U') \in Nat
  BY <1>3, <1>4, FS_CardinalityType
<1>6. Cardinality(U) <= MaxEnabled + MaxWriters - 1
  BY DEF StoreInv, LeavesBounded
<1> HIDE DEF U
<1>7. Cardinality(U') <= MaxEnabled + MaxWriters - 1
  BY <1>4, <1>5, <1>6, StoreAssumption
<1> QED
  BY <1>7 DEF LeavesBounded, U

LEMMA StoreInitial ==
  ASSUME StoreInit
  PROVE  StoreInv
<1>1. EnabledIds = {} /\ EnablingIds = {}
  BY DEF StoreInit, EnabledIds, EnablingIds
<1>2. LeavesBounded
  BY <1>1, FS_EmptySet, StoreAssumption DEF LeavesBounded
<1> QED
  BY <1>2, FS_EmptySet, StoreAssumption
  DEF StoreInit, StoreInv, StoreTypeOK, WritersFew, RowsDistinct, IdsMade, InsertsFresh, SecretsKnown, ChannelsWhole

\* A request comes in.
LEMMA AskKeeps ==
  ASSUME StoreInv, NEW w \in StoreWriter, Asks(w), UNCHANGED <<rows, removedIds>>,
         rowsMade' \in Nat, rowsMade <= rowsMade', typedSecrets' \in Nat,
         w.id <= rowsMade', SecretAfter(w) # 0, Enables(w) => w.id \in EnabledIds,
         \A v \in writers : "row" \in v.writes => v.id # w.id,
         "row" \in w.writes => w.id > rowsMade
  PROVE  StoreInv'
<1>1. writers' = writers \cup {w} /\ Cardinality(writers) < MaxWriters
  BY DEF Asks
<1>2. IsFiniteSet(writers') /\ Cardinality(writers') <= MaxWriters
  <2>1. IsFiniteSet(writers)
    BY DEF StoreInv, StoreTypeOK
  <2>2. Cardinality(writers) \in Nat /\ IsFiniteSet(writers')
        /\ Cardinality(writers') = (IF w \in writers THEN Cardinality(writers) ELSE Cardinality(writers) + 1)
    BY <1>1, <2>1, FS_AddElement, FS_CardinalityType
  <2> QED
    BY <1>1, <2>2, StoreAssumption
<1>3. StoreTypeOK' /\ WritersFew' /\ RowsDistinct'
  BY <1>1, <1>2 DEF StoreInv, StoreTypeOK, WritersFew, RowsDistinct
<1>4. IdsMade'
  <2>1. rowsMade \in Nat /\ \A r \in rows : r.id \in Nat
    BY DEF StoreInv, StoreTypeOK, StoreRow
  <2>2. \A v \in writers : v.id \in Nat
    BY DEF StoreInv, StoreTypeOK, StoreWriter
  <2>3. \A r \in rows : r.id <= rowsMade'
    BY <2>1 DEF StoreInv, IdsMade
  <2>4. \A v \in writers' : v.id <= rowsMade'
    BY <2>1, <2>2, <1>1 DEF StoreInv, IdsMade
  <2>6. \A id \in removedIds : id <= rowsMade'
    BY <2>1 DEF StoreInv, StoreTypeOK, IdsMade
  <2> QED
    BY <2>3, <2>4, <2>6 DEF IdsMade
<1>5. InsertsFresh'
  <2>1. \A r \in rows : r.id <= rowsMade /\ r.id \in Nat
    BY DEF StoreInv, StoreTypeOK, StoreRow, IdsMade
  <2>2. \A v \in writers : v.id <= rowsMade /\ v.id \in Nat
    BY DEF StoreInv, StoreTypeOK, StoreWriter, IdsMade
  <2>3. w.id \in Nat /\ rowsMade \in Nat /\ \A id \in removedIds : id <= rowsMade /\ id \in Nat
    BY DEF StoreInv, StoreTypeOK, StoreWriter, IdsMade
  <2>4. "row" \in w.writes => Row(w.id) = {} /\ w.id \notin removedIds /\ \A v \in writers : v.id # w.id
    BY <2>1, <2>2, <2>3 DEF Row
  <2>5. \A v \in writers : "row" \in v.writes =>
           Row(v.id) = {} /\ v.id \notin removedIds /\ \A u \in writers' : u.id = v.id => u = v
    BY <1>1 DEF StoreInv, InsertsFresh
  <2> QED
    BY <1>1, <2>4, <2>5 DEF InsertsFresh, Row
<1>6. SecretsKnown'
  BY <1>1 DEF StoreInv, SecretsKnown, SecretAfter
<1>7. LeavesBounded'
  <2>1. EnabledIds' = EnabledIds /\ EnablingIds' \subseteq EnabledIds \cup EnablingIds
    BY <1>1 DEF EnabledIds, EnablingIds, Enables
  <2> QED
    BY <2>1, LeavesShrink
<1>8. ChannelsWhole'
  BY DEF StoreInv, ChannelsWhole, Row
<1> QED
  BY <1>3, <1>4, <1>5, <1>6, <1>7, <1>8 DEF StoreInv

LEMMA CountKeeps ==
  ASSUME StoreInv, NEW w \in writers, CountEnabled(w)
  PROVE  StoreInv'
<1> DEFINE moved == [w EXCEPT !.at = "write"]
<1>1. w \in StoreWriter /\ w.at = "count"
  BY DEF StoreInv, StoreTypeOK, CountEnabled
<1>2. moved \in StoreWriter /\ moved.id = w.id /\ moved.writes = w.writes /\ SecretAfter(moved) = SecretAfter(w)
  BY <1>1 DEF StoreWriter, SecretAfter
<1>3. writers' = (IF UnderLimit THEN (writers \ {w}) \cup {moved} ELSE writers \ {w})
      /\ UNCHANGED <<rows, rowsMade, typedSecrets, removedIds>>
  BY DEF CountEnabled
<1> HIDE DEF moved
<1>4. IsFiniteSet(writers') /\ Cardinality(writers') <= MaxWriters
  <2>1. IsFiniteSet(writers) /\ Cardinality(writers) \in Nat /\ Cardinality(writers) <= MaxWriters
    BY FS_CardinalityType DEF StoreInv, StoreTypeOK, WritersFew
  <2>2. IsFiniteSet(writers \ {w}) /\ Cardinality(writers \ {w}) = Cardinality(writers) - 1
    BY <2>1, FS_RemoveElement
  <2>3. IsFiniteSet((writers \ {w}) \cup {moved})
        /\ Cardinality((writers \ {w}) \cup {moved}) <= Cardinality(writers)
    <3>1. Cardinality(writers \ {w}) \in Nat
      BY <2>2, FS_CardinalityType
    <3>2. IsFiniteSet((writers \ {w}) \cup {moved})
          /\ Cardinality((writers \ {w}) \cup {moved}) =
                (IF moved \in writers \ {w} THEN Cardinality(writers \ {w}) ELSE Cardinality(writers \ {w}) + 1)
      BY <2>2, FS_AddElement
    <3> QED
      BY <2>1, <2>2, <3>1, <3>2
  <2>4. IsFiniteSet(writers') /\ Cardinality(writers') <= Cardinality(writers)
    BY <1>3, <2>1, <2>2, <2>3
  <2> QED
    BY <2>1, <2>4, FS_CardinalityType, StoreAssumption
<1>5. StoreTypeOK' /\ WritersFew' /\ RowsDistinct' /\ SecretsKnown'
  BY <1>2, <1>3, <1>4 DEF StoreInv, StoreTypeOK, WritersFew, RowsDistinct, SecretsKnown, SecretAfter
<1>6. IdsMade' /\ InsertsFresh' /\ ChannelsWhole'
  BY <1>2, <1>3 DEF StoreInv, IdsMade, InsertsFresh, ChannelsWhole, Row
<1>7. LeavesBounded'
  <2>1. CASE UnderLimit
    <3>1. IsFiniteSet(EnabledIds) /\ Cardinality(EnabledIds) <= MaxEnabled - 1 /\ Cardinality(EnabledIds) \in Nat
      BY <2>1, EnabledCounted, StoreAssumption DEF StoreInv, UnderLimit
    <3>2. EnabledIds' = EnabledIds
      BY <1>3 DEF EnabledIds
    <3>3. EnablingIds' = {v.id : v \in {u \in writers' : Enables(u)}}
      BY DEF EnablingIds, Enables
    <3>4. IsFiniteSet(EnablingIds') /\ Cardinality(EnablingIds') <= Cardinality(writers')
          /\ Cardinality(EnablingIds') \in Nat
      BY <1>4, <3>3, EnablingCounted
    <3>5. Cardinality(writers') \in Nat
      BY <1>4, FS_CardinalityType
    <3> DEFINE E == EnabledIds'
               G == EnablingIds'
    <3>6. IsFiniteSet(E) /\ IsFiniteSet(G) /\ Cardinality(E) <= MaxEnabled - 1 /\ Cardinality(E) \in Nat
          /\ Cardinality(G) <= MaxWriters /\ Cardinality(G) \in Nat
      BY <3>1, <3>2, <3>4, <3>5, <1>4, StoreAssumption
    <3> HIDE DEF E, G
    <3>7. Cardinality(E \cup G) = Cardinality(E) + Cardinality(G) - Cardinality(E \cap G)
          /\ IsFiniteSet(E \cap G)
      BY <3>6, FS_Union, FS_Intersection
    <3>8. Cardinality(E \cap G) \in Nat
      BY <3>7, FS_CardinalityType
    <3>9. Cardinality(E \cup G) <= MaxEnabled + MaxWriters - 1
      BY <3>6, <3>7, <3>8, StoreAssumption
    <3> QED
      BY <3>9 DEF E, G, LeavesBounded
  <2>2. CASE ~UnderLimit
    <3>1. EnabledIds' = EnabledIds /\ EnablingIds' \subseteq EnablingIds
      BY <2>2, <1>3 DEF EnabledIds, EnablingIds, Enables
    <3> QED
      BY <3>1, LeavesShrink
  <2> QED
    BY <2>1, <2>2
<1> QED
  BY <1>5, <1>6, <1>7 DEF StoreInv

LEMMA WriteKeeps ==
  ASSUME StoreInv, NEW w \in writers, WriteRow(w)
  PROVE  StoreInv'
<1>1. w \in StoreWriter /\ w.at = "write" /\ SecretAfter(w) # 0 /\ w.id <= rowsMade
  BY DEF StoreInv, StoreTypeOK, WriteRow, SecretsKnown, IdsMade
<1>2. SecretAfter(w) \in Nat \ {0}
  BY <1>1 DEF SecretAfter, StoreWriter
<1>3. writers' = writers \ {w} /\ rows' = RowsAfter(w) /\ UNCHANGED <<rowsMade, typedSecrets, removedIds>>
  BY DEF WriteRow
<1>4. IsFiniteSet(writers') /\ Cardinality(writers') <= MaxWriters
  <2>1. IsFiniteSet(writers) /\ Cardinality(writers) \in Nat /\ Cardinality(writers) <= MaxWriters
    BY FS_CardinalityType DEF StoreInv, StoreTypeOK, WritersFew
  <2>2. IsFiniteSet(writers') /\ Cardinality(writers') = Cardinality(writers) - 1
    BY <1>3, <2>1, FS_RemoveElement
  <2> QED
    BY <2>1, <2>2, StoreAssumption
<1>5. EnablingIds' \subseteq EnablingIds
  BY <1>3 DEF EnablingIds, Enables
<1>6. CASE "row" \in w.writes
  <2> DEFINE new == [id |-> w.id, enabled |-> w.enable, secret |-> SecretAfter(w)]
  <2>1. rows' = rows \cup {new}
    BY <1>3, <1>6 DEF RowsAfter, Insert
  <2>2. new \in StoreRow /\ new.id = w.id /\ new.enabled = w.enable /\ new.secret # 0
    BY <1>1, <1>2 DEF StoreRow, StoreWriter
  <2> HIDE DEF new
  <2>3. IsFiniteSet(rows')
    BY <2>1, FS_AddElement DEF StoreInv, StoreTypeOK
  <2>4. StoreTypeOK' /\ WritersFew'
    BY <1>3, <1>4, <2>1, <2>2, <2>3 DEF StoreInv, StoreTypeOK, WritersFew
  <2>5. Row(w.id) = {} /\ w.id \notin removedIds /\ \A v \in writers : v.id = w.id => v = w
    BY <1>6 DEF StoreInv, InsertsFresh
  <2>6. RowsDistinct' /\ IdsMade'
    BY <1>1, <1>3, <2>1, <2>2, <2>5 DEF StoreInv, RowsDistinct, IdsMade, Row
  <2>7. InsertsFresh' /\ SecretsKnown' /\ ChannelsWhole'
    BY <1>3, <2>1, <2>2, <2>5
    DEF StoreInv, InsertsFresh, SecretsKnown, SecretAfter, ChannelsWhole, Row
  <2>8. EnabledIds' \subseteq EnabledIds \cup EnablingIds
    <3>1. w.enable => w.id \in EnablingIds
      BY <1>1, <1>6 DEF EnablingIds, Enables
    <3>2. w.enable \in BOOLEAN
      BY <1>1 DEF StoreWriter
    <3> QED
      BY <2>1, <2>2, <3>1, <3>2 DEF EnabledIds
  <2>9. LeavesBounded'
    BY <1>5, <2>8, LeavesShrink
  <2> QED
    BY <2>4, <2>6, <2>7, <2>9 DEF StoreInv
<1>7. CASE "row" \notin w.writes
  <2> DEFINE new(r) == IF r.id = w.id THEN Update(w, r) ELSE r
  <2>1. rows' = {new(r) : r \in rows}
    BY <1>3, <1>7 DEF RowsAfter
  <2>2. ASSUME NEW r \in rows
        PROVE  /\ new(r) \in StoreRow /\ new(r).id = r.id
               /\ new(r).enabled => r.enabled \/ r.id \in EnablingIds
    <3>1. r \in StoreRow /\ w.enable \in BOOLEAN
      BY <1>1 DEF StoreInv, StoreTypeOK, StoreWriter
    <3>2. CASE r.id = w.id /\ "enabled" \in w.writes
      <4>1. new(r) = [r EXCEPT !.enabled = w.enable,
                               !.secret = IF "config" \in w.writes THEN SecretAfter(w) ELSE r.secret]
        BY <3>2 DEF Update
      <4>2. w.enable => w.id \in EnablingIds
        BY <1>1, <3>2 DEF EnablingIds, Enables
      <4>3. r.id = w.id
        BY <3>2
      <4> HIDE DEF new
      <4>4. new(r) \in StoreRow /\ new(r).id = r.id /\ new(r).enabled = w.enable
        BY <1>2, <3>1, <4>1 DEF StoreRow
      <4> QED
        BY <4>2, <4>3, <4>4
    <3>3. CASE r.id = w.id /\ "enabled" \notin w.writes
      <4>1. new(r) = [r EXCEPT !.enabled = r.enabled,
                               !.secret = IF "config" \in w.writes THEN SecretAfter(w) ELSE r.secret]
        BY <3>3 DEF Update
      <4> HIDE DEF new
      <4>2. new(r) \in StoreRow /\ new(r).id = r.id /\ new(r).enabled = r.enabled
        BY <1>2, <3>1, <4>1 DEF StoreRow
      <4> QED
        BY <4>2
    <3>4. CASE r.id # w.id
      BY <3>1, <3>4
    <3> QED
      BY <3>2, <3>3, <3>4
  <2> HIDE DEF new
  <2>3. IsFiniteSet(rows')
    <3> DEFINE f == [r \in rows |-> new(r)]
    <3>1. f \in Surjection(rows, rows')
      BY <2>1 DEF Surjection
    <3> HIDE DEF f
    <3> QED
      BY <3>1, FS_Surjection DEF StoreInv, StoreTypeOK
  <2>4. StoreTypeOK' /\ WritersFew'
    BY <1>3, <1>4, <2>1, <2>2, <2>3 DEF StoreInv, StoreTypeOK, WritersFew
  <2>5. RowsDistinct'
    BY <2>1, <2>2 DEF StoreInv, RowsDistinct
  <2>6. \A id : Row(id) = {} => Row(id)' = {}
    BY <2>1, <2>2 DEF Row
  <2>7. IdsMade' /\ InsertsFresh' /\ SecretsKnown'
    BY <1>3, <2>1, <2>2, <2>6 DEF StoreInv, IdsMade, InsertsFresh, SecretsKnown, SecretAfter
  <2>8. ChannelsWhole'
    BY <1>3, <2>1, <2>2, <2>6 DEF StoreInv, ChannelsWhole, StoreRow
  <2>9. EnabledIds' \subseteq EnabledIds \cup EnablingIds
    BY <2>1, <2>2 DEF EnabledIds
  <2>10. LeavesBounded'
    BY <1>5, <2>9, LeavesShrink
  <2> QED
    BY <2>4, <2>5, <2>7, <2>8, <2>10 DEF StoreInv
<1> QED
  BY <1>6, <1>7

LEMMA DeleteKeeps ==
  ASSUME StoreInv, NEW id \in Nat, DeleteRow(id)
  PROVE  StoreInv'
<1>1. rows' = rows \ Row(id) /\ removedIds' = removedIds \cup {id} /\ UNCHANGED <<rowsMade, writers, typedSecrets>>
      /\ Row(id) # {}
  BY DEF DeleteRow
<1>2. IsFiniteSet(rows')
  BY <1>1, FS_Subset DEF StoreInv, StoreTypeOK
<1>3. StoreTypeOK' /\ WritersFew' /\ RowsDistinct' /\ SecretsKnown'
  BY <1>1, <1>2 DEF StoreInv, StoreTypeOK, WritersFew, RowsDistinct, SecretsKnown, SecretAfter
<1>4. IdsMade' /\ InsertsFresh' /\ ChannelsWhole'
  BY <1>1 DEF StoreInv, IdsMade, InsertsFresh, ChannelsWhole, Row
<1>5. LeavesBounded'
  <2>1. EnabledIds' \subseteq EnabledIds /\ EnablingIds' = EnablingIds
    BY <1>1 DEF EnabledIds, EnablingIds, Enables
  <2> QED
    BY <2>1, LeavesShrink
<1> QED
  BY <1>3, <1>4, <1>5 DEF StoreInv

LEMMA StoreStep ==
  ASSUME StoreInv, [StoreNext]_storeVars
  PROVE  StoreInv'
<1>0. rowsMade \in Nat /\ typedSecrets \in Nat
  BY DEF StoreInv, StoreTypeOK
<1>1. ASSUME NEW enable \in BOOLEAN, AskCreate(enable)
      PROVE  StoreInv'
  <2> DEFINE w == [id |-> rowsMade + 1, at |-> IF enable THEN "count" ELSE "write", enable |-> enable,
                   secret |-> typedSecrets + 1, kept |-> 0, writes |-> {"row"}]
  <2>1. w \in StoreWriter /\ SecretAfter(w) # 0 /\ ~Enables(w) /\ w.id = rowsMade + 1 /\ w.writes = {"row"}
    BY <1>0 DEF StoreWriter, SecretAfter, Enables
  <2>2. Asks(w) /\ rowsMade' = rowsMade + 1 /\ typedSecrets' = typedSecrets + 1 /\ UNCHANGED <<rows, removedIds>>
    BY <1>1 DEF AskCreate
  <2> HIDE DEF w
  <2>3. \A v \in writers : v.id # w.id
    BY <1>0, <2>1 DEF StoreInv, StoreTypeOK, StoreWriter, IdsMade
  <2>4. rowsMade' \in Nat /\ typedSecrets' \in Nat /\ rowsMade <= rowsMade' /\ w.id <= rowsMade' /\ w.id > rowsMade
    BY <1>0, <2>1, <2>2
  <2> QED
    BY <2>1, <2>2, <2>3, <2>4, AskKeeps
<1>2. ASSUME NEW id \in 1..MaxRows, NEW enable \in BOOLEAN, NEW rotate \in BOOLEAN,
             NEW writes \in {{"enabled"}, {"config"}, {"enabled", "config"}},
             AskUpdate(id, writes, enable, rotate)
      PROVE  StoreInv'
  <2>1. PICK r \in Row(id) :
          Asks([id |-> id,
                at |-> IF "enabled" \in writes /\ enable /\ ~r.enabled THEN "count" ELSE "write",
                enable |-> enable, secret |-> IF rotate THEN typedSecrets + 1 ELSE 0, kept |-> r.secret,
                writes |-> writes])
    BY <1>2 DEF AskUpdate
  <2> DEFINE w == [id |-> id,
                   at |-> IF "enabled" \in writes /\ enable /\ ~r.enabled THEN "count" ELSE "write",
                   enable |-> enable, secret |-> IF rotate THEN typedSecrets + 1 ELSE 0, kept |-> r.secret,
                   writes |-> writes]
  <2>2. r \in rows /\ r.id = id /\ r.secret \in Nat \ {0} /\ id \in Nat /\ id <= rowsMade /\ r.enabled \in BOOLEAN
    BY StoreAssumption DEF Row, StoreInv, StoreTypeOK, StoreRow, IdsMade
  <2>3. "row" \notin writes
    OBVIOUS
  <2>4. w \in StoreWriter /\ w.id = id /\ w.writes = writes /\ SecretAfter(w) # 0
    BY <1>0, <2>2 DEF StoreWriter, SecretAfter
  <2>5. Enables(w) => id \in EnabledIds
    BY <2>2, <2>3 DEF Enables, EnabledIds
  <2>6. Asks(w) /\ UNCHANGED <<rows, removedIds, rowsMade>> /\ typedSecrets' \in Nat
    BY <1>0, <1>2, <2>1 DEF AskUpdate
  <2> HIDE DEF w
  <2>7. \A v \in writers : "row" \in v.writes => v.id # id
    BY <2>2 DEF StoreInv, InsertsFresh, Row
  <2>8. rowsMade' \in Nat /\ rowsMade <= rowsMade' /\ w.id <= rowsMade'
    BY <1>0, <2>2, <2>4, <2>6
  <2> QED
    BY <2>3, <2>4, <2>5, <2>6, <2>7, <2>8, AskKeeps
<1>3. ASSUME NEW w \in writers, CountEnabled(w) \/ WriteRow(w)
      PROVE  StoreInv'
  BY <1>3, CountKeeps, WriteKeeps
<1>4. ASSUME NEW id \in 1..MaxRows, DeleteRow(id)
      PROVE  StoreInv'
  BY <1>4, DeleteKeeps, StoreAssumption
<1>5. CASE UNCHANGED storeVars
  BY <1>5 DEF storeVars, StoreInv, StoreTypeOK, WritersFew, RowsDistinct, IdsMade, InsertsFresh, SecretsKnown,
              SecretAfter, LeavesBounded, EnabledIds, EnablingIds, Enables, ChannelsWhole, Row
<1> QED
  BY <1>1, <1>2, <1>3, <1>4, <1>5 DEF StoreNext

THEOREM StoreInvariant == StoreSpec => []StoreInv
BY StoreInitial, StoreStep, PTL DEF StoreSpec

\* notification_channel_ops.go: for every limit and every number of requests at once, the
\* limit on the enabled channels is passed by fewer than there are requests, and every
\* channel keeps a secret typed for it.
THEOREM ChannelsStayWhole == StoreSpec => []ChannelsHold
<1>1. ASSUME StoreInv
      PROVE  ChannelsHold
  <2>1. IsFiniteSet(EnabledIds) /\ Cardinality(EnabledIds) = EnabledCount
    BY <1>1, EnabledCounted DEF StoreInv
  <2>2. IsFiniteSet(EnablingIds)
    BY <1>1, EnablingCounted DEF StoreInv, StoreTypeOK, EnablingIds
  <2> DEFINE E == EnabledIds
             U == EnabledIds \cup EnablingIds
  <2>3. IsFiniteSet(U) /\ E \subseteq U /\ IsFiniteSet(E)
    BY <2>1, <2>2, FS_Union
  <2>4. Cardinality(U) <= MaxEnabled + MaxWriters - 1
    BY <1>1 DEF StoreInv, LeavesBounded
  <2> HIDE DEF E, U
  <2>5. Cardinality(E) <= Cardinality(U) /\ Cardinality(E) \in Nat /\ Cardinality(U) \in Nat
    BY <2>3, FS_Subset, FS_CardinalityType
  <2>6. Cardinality(E) <= MaxEnabled + MaxWriters - 1
    BY <2>4, <2>5, StoreAssumption
  <2> QED
    BY <1>1, <2>1, <2>6 DEF E, ChannelsHold, LimitNearlyKept, StoreInv
<1> QED
  BY <1>1, StoreInvariant, PTL
-----------------------------------------------------------------------------
(* IconFiles: the files go with the rows. *)

IconsSpec == IconsInit /\ [][IconsNext]_iconVars

IconCall == [n : Nat \ {0}, owner : IconOwners, op : {"upload", "delete", "rename", "edit"}, icon : Nat,
             at : {"sent", "read", "written", "cleared", "stale"}, seen : Nat]

IconsTypeOK ==
    /\ iconOwners \subseteq IconOwners
    /\ iconOf \in [IconOwners -> Nat]
    /\ assets \subseteq [owner : IconOwners, n : Nat \ {0}]
    /\ iconCalls \subseteq IconCall
    /\ iconCallsMade \in Nat
    /\ iconsBlamed \subseteq IconOwners

\* No name of a file is used before its upload was asked for.
NamesPast ==
    /\ \A o \in IconOwners : iconOf[o] <= iconCallsMade
    /\ \A c \in iconCalls : c.n <= iconCallsMade /\ c.icon <= iconCallsMade /\ c.seen <= iconCallsMade

\* Where a call stands that has its row to itself.
Undisturbed(c) ==
    /\ \A d \in iconCalls : d.owner = c.owner => d = c
    /\ c.at # "stale" => iconOf[c.owner] < c.n
    /\ c.op = "edit" /\ c.at \in {"sent", "read"} => c.icon \in {0, iconOf[c.owner]}
    /\ c.at \in {"read", "written", "cleared"} => c.owner \in iconOwners /\ c.seen = iconOf[c.owner]
    /\ c.at \in {"written", "cleared"} => c.op = "upload" /\ IconFile(c.owner, c.n) \in assets
    /\ c.at = "cleared" => IconFile(c.owner, c.seen) \notin assets
    /\ c.at = "stale" => iconOf[c.owner] # c.seen \/ c.owner \notin iconOwners

\* A row whose requests neither overlapped nor were cut short: its icon is there, and
\* each of its files is there for the row, or for a call that has just written it or will remove it.
RowCalm(o) ==
    o \notin iconsBlamed =>
        /\ \A c \in iconCalls : c.owner = o => Undisturbed(c)
        /\ o \in iconOwners =>
              \/ iconOf[o] = 0 \/ IconFile(o, iconOf[o]) \in assets
              \/ \E c \in iconCalls : c.owner = o /\ c.at = "cleared"
        /\ \A f \in assets \ iconsReplaced : f.owner = o =>
              \/ o \in iconOwners /\ iconOf[o] = f.n
              \/ \E c \in iconCalls : /\ c.owner = o
                                      /\ \/ c.at \in {"written", "cleared"} /\ f.n = c.n
                                         \/ c.at = "stale" /\ f.n = c.seen

IconsInv == IconsTypeOK /\ NamesPast /\ \A o \in IconOwners : RowCalm(o)

LEMMA IconsInitial ==
  ASSUME IconsInit
  PROVE  IconsInv
BY DEF IconsInit, IconsInv, IconsTypeOK, NamesPast, RowCalm, Undisturbed

\* A step of one call concerns its own row.
LEMMA RowsApart ==
  ASSUME IconsInv, NEW o \in IconOwners, IconsTypeOK', NamesPast',
         iconsBlamed \subseteq iconsBlamed', iconsReplaced \subseteq iconsReplaced',
         \A p \in IconOwners \ {o} : iconOf'[p] = iconOf[p] /\ (p \in iconOwners' <=> p \in iconOwners),
         \A f \in assets \cup assets' : f.owner # o => (f \in assets' <=> f \in assets),
         \A d \in iconCalls \cup iconCalls' : d.owner # o => (d \in iconCalls' <=> d \in iconCalls),
         RowCalm(o)'
  PROVE  IconsInv'
<1>1. ASSUME NEW p \in IconOwners, p # o, p \notin iconsBlamed'
      PROVE  RowCalm(p)'
  <2>1. RowCalm(p) /\ p \notin iconsBlamed
    BY <1>1 DEF IconsInv
  <2>2. \A f \in assets \cup assets' : f.owner = p => (f \in assets' <=> f \in assets)
    BY <1>1
  <2>3. \A d \in iconCalls \cup iconCalls' : d.owner = p => (d \in iconCalls' <=> d \in iconCalls)
    BY <1>1
  <2>4. iconOf'[p] = iconOf[p] /\ (p \in iconOwners' <=> p \in iconOwners)
    BY <1>1
  <2>5. \A n : IconFile(p, n).owner = p
    BY DEF IconFile
  <2>6. \A n : IconFile(p, n) \in assets => IconFile(p, n) \in assets'
    BY <2>2, <2>5
  <2>7. \A n : IconFile(p, n) \notin assets => IconFile(p, n) \notin assets'
    BY <2>2, <2>5
  <2>8. \A c \in iconCalls' : c.owner = p => Undisturbed(c)'
    BY <2>1, <2>3, <2>4, <2>6, <2>7 DEF RowCalm, Undisturbed
  <2>9. p \in iconOwners' =>
           \/ iconOf'[p] = 0 \/ IconFile(p, iconOf'[p]) \in assets'
           \/ \E c \in iconCalls' : c.owner = p /\ c.at = "cleared"
    BY <2>1, <2>3, <2>4, <2>6 DEF RowCalm
  <2>10. \A f \in assets' \ iconsReplaced' : f.owner = p =>
              \/ p \in iconOwners' /\ iconOf'[p] = f.n
              \/ \E c \in iconCalls' : /\ c.owner = p
                                       /\ \/ c.at \in {"written", "cleared"} /\ f.n = c.n
                                          \/ c.at = "stale" /\ f.n = c.seen
    BY <2>1, <2>2, <2>3, <2>4 DEF RowCalm
  <2> QED
    BY <2>8, <2>9, <2>10 DEF RowCalm, IconFile
<1>2. \A p \in IconOwners : RowCalm(p)'
  BY <1>1 DEF RowCalm
<1> QED
  BY <1>2 DEF IconsInv

\* A step of a call that ends, or moves on and may have read its row.
CallGoesOn(c, d) ==
    /\ d \in IconCall /\ d.n = c.n /\ d.owner = c.owner /\ d.op = c.op /\ d.icon = c.icon
    /\ d.seen \in {c.seen, iconOf[c.owner]}

LEMMA IconCallTypes ==
  ASSUME IconsInv, NEW c \in iconCalls,
         iconCalls' = iconCalls \ {c} \/ \E d \in IconCall : CallGoesOn(c, d) /\ iconCalls' = (iconCalls \ {c}) \cup {d},
         UNCHANGED iconCallsMade,
         iconOwners' \subseteq IconOwners, iconsBlamed' \subseteq IconOwners,
         assets' \subseteq assets \cup {IconFile(c.owner, c.n)},
         iconOf' = iconOf \/ \E i \in {c.n, c.icon, c.seen} : iconOf' = [iconOf EXCEPT ![c.owner] = i]
  PROVE  IconsTypeOK' /\ NamesPast'
<1>1. c \in IconCall /\ c.owner \in IconOwners /\ c.n \in Nat \ {0} /\ c.icon \in Nat /\ c.seen \in Nat
  BY DEF IconsInv, IconsTypeOK, IconCall
<1>2. c.n <= iconCallsMade /\ c.icon <= iconCallsMade /\ c.seen <= iconCallsMade
      /\ iconOf \in [IconOwners -> Nat] /\ \A o \in IconOwners : iconOf[o] <= iconCallsMade
  BY DEF IconsInv, IconsTypeOK, NamesPast
<1>3. IconFile(c.owner, c.n) \in [owner : IconOwners, n : Nat \ {0}]
  BY <1>1 DEF IconFile
<1>4. iconOf' \in [IconOwners -> Nat] /\ \A o \in IconOwners : iconOf'[o] <= iconCallsMade'
  BY <1>1, <1>2
<1>5. iconCalls' \subseteq IconCall
  BY DEF IconsInv, IconsTypeOK
<1>6. IconsTypeOK'
  BY <1>3, <1>4, <1>5 DEF IconsInv, IconsTypeOK
<1>7. \A d \in iconCalls' : d.n <= iconCallsMade' /\ d.icon <= iconCallsMade' /\ d.seen <= iconCallsMade'
  BY <1>1, <1>2 DEF IconsInv, NamesPast, CallGoesOn
<1> QED
  BY <1>4, <1>6, <1>7 DEF NamesPast

\* What is known of a row that a call has to itself.
LEMMA OwnRow ==
  ASSUME IconsInv, NEW c \in iconCalls, c.owner \notin iconsBlamed
  PROVE  /\ Undisturbed(c)
         /\ \A f \in assets \ iconsReplaced : f.owner = c.owner =>
               \/ c.owner \in iconOwners /\ iconOf[c.owner] = f.n
               \/ c.at \in {"written", "cleared"} /\ f.n = c.n
               \/ c.at = "stale" /\ f.n = c.seen
         /\ c.owner \in iconOwners =>
               iconOf[c.owner] = 0 \/ IconFile(c.owner, iconOf[c.owner]) \in assets \/ c.at = "cleared"
<1>1. c.owner \in IconOwners
  BY DEF IconsInv, IconsTypeOK, IconCall
<1>2. RowCalm(c.owner)
  BY <1>1 DEF IconsInv
<1>3. Undisturbed(c) /\ \A d \in iconCalls : d.owner = c.owner => d = c
  BY <1>2 DEF RowCalm, Undisturbed
<1> QED
  BY <1>2, <1>3 DEF RowCalm

LEMMA AskIconKeeps ==
  ASSUME IconsInv, NEW o \in IconOwners, NEW op \in {"upload", "delete", "rename", "edit"}, NEW icon \in Nat,
         icon = 0 \/ icon = iconOf[o], AskIcon(o, op, icon)
  PROVE  IconsInv'
<1>0. PICK new : new = [n |-> iconCallsMade + 1, owner |-> o, op |-> op, icon |-> icon, at |-> "sent", seen |-> 0]
  OBVIOUS
<1>1. iconCalls' = iconCalls \cup {new} /\ iconCallsMade' = iconCallsMade + 1
      /\ iconsBlamed' = iconsBlamed \cup {c.owner : c \in {d \in iconCalls : d.owner = o}}
      /\ UNCHANGED <<iconOwners, iconOf, assets, iconsReplaced>>
  BY <1>0 DEF AskIcon
<1>2. iconCallsMade \in Nat /\ iconOf[o] \in Nat /\ iconOf[o] <= iconCallsMade
  BY DEF IconsInv, IconsTypeOK, NamesPast
<1>3. new \in IconCall /\ new.n = iconCallsMade + 1 /\ new.owner = o /\ new.icon = icon /\ new.at = "sent"
      /\ new.seen = 0
  BY <1>0, <1>2 DEF IconCall
<1>4. IconsTypeOK'
  BY <1>1, <1>2, <1>3 DEF IconsInv, IconsTypeOK
<1>5. \A d \in iconCalls : d.n \in Nat /\ d.icon \in Nat /\ d.seen \in Nat
  BY DEF IconsInv, IconsTypeOK, IconCall
<1>6. NamesPast'
  <2>1. \A p \in IconOwners : iconOf'[p] <= iconCallsMade'
    BY <1>1, <1>2 DEF IconsInv, IconsTypeOK, NamesPast
  <2>2. \A d \in iconCalls : d.n <= iconCallsMade' /\ d.icon <= iconCallsMade' /\ d.seen <= iconCallsMade'
    BY <1>1, <1>2, <1>5 DEF IconsInv, NamesPast
  <2>3. new.n <= iconCallsMade' /\ new.icon <= iconCallsMade' /\ new.seen <= iconCallsMade'
    BY <1>1, <1>2, <1>3
  <2> QED
    BY <1>1, <2>1, <2>2, <2>3 DEF NamesPast
<1>7. RowCalm(o)'
  <2> SUFFICES ASSUME o \notin iconsBlamed'
               PROVE  RowCalm(o)'
    BY DEF RowCalm
  <2>1. o \notin iconsBlamed /\ \A d \in iconCalls : d.owner # o
    BY <1>1
  <2>2. RowCalm(o)
    BY DEF IconsInv
  <2>3. \A c \in iconCalls' : c.owner = o => c = new
    BY <1>1, <2>1
  <2>4. Undisturbed(new)'
    BY <1>1, <1>2, <1>3, <2>3 DEF Undisturbed
  <2> QED
    BY <1>1, <2>1, <2>2, <2>3, <2>4 DEF RowCalm
<1>8. \A d \in iconCalls \cup iconCalls' : d.owner # o => (d \in iconCalls' <=> d \in iconCalls)
  BY <1>1, <1>3
<1> QED
  BY <1>1, <1>4, <1>6, <1>7, <1>8, RowsApart

LEMMA ReadIconRowKeeps ==
  ASSUME IconsInv, NEW c \in iconCalls, ReadIconRow(c)
  PROVE  IconsInv'
<1> DEFINE o == c.owner
<1>0. PICK moved : moved = [c EXCEPT !.at = "read", !.seen = iconOf[o]]
  OBVIOUS
<1>1. c \in IconCall /\ o \in IconOwners /\ c.at = "sent" /\ iconOf[o] \in Nat
  BY DEF IconsInv, IconsTypeOK, IconCall, ReadIconRow
<1>2. UNCHANGED <<iconOwners, iconOf, assets, iconCallsMade, iconsBlamed, iconsReplaced>>
      /\ iconCalls' = (IF o \in iconOwners THEN (iconCalls \ {c}) \cup {moved} ELSE iconCalls \ {c})
  BY <1>0 DEF ReadIconRow, IconEnds
<1>3. CallGoesOn(c, moved) /\ moved \in IconCall /\ moved.at = "read" /\ moved.seen = iconOf[o] /\ moved.n = c.n
      /\ moved.owner = o /\ moved.op = c.op /\ moved.icon = c.icon
  BY <1>0, <1>1 DEF IconCall, CallGoesOn
<1>4. IconsTypeOK' /\ NamesPast'
  <2>1. iconCalls' = iconCalls \ {c}
        \/ \E d \in IconCall : CallGoesOn(c, d) /\ iconCalls' = (iconCalls \ {c}) \cup {d}
    BY <1>2, <1>3
  <2> QED
    BY <1>2, <2>1, IconCallTypes DEF IconsInv, IconsTypeOK
<1>5. RowCalm(o)'
  <2> SUFFICES ASSUME o \notin iconsBlamed
               PROVE  RowCalm(o)'
    BY <1>2 DEF RowCalm
  <2>1. Undisturbed(c) /\ \A d \in iconCalls : d.owner = o => d = c
    BY OwnRow DEF Undisturbed
  <2>2. \A d \in iconCalls' : d.owner = o => d = moved /\ o \in iconOwners
    BY <1>2, <2>1
  <2>3. o \in iconOwners => Undisturbed(moved)'
    BY <1>1, <1>2, <1>3, <2>1, <2>2 DEF Undisturbed
  <2>4. \A f \in assets \ iconsReplaced : f.owner = o => o \in iconOwners /\ iconOf[o] = f.n
    BY <1>1, OwnRow
  <2>5. o \in iconOwners => iconOf[o] = 0 \/ IconFile(o, iconOf[o]) \in assets
    BY <1>1, OwnRow
  <2> QED
    BY <1>2, <2>2, <2>3, <2>4, <2>5 DEF RowCalm
<1> QED
  BY <1>1, <1>2, <1>3, <1>4, <1>5, RowsApart

LEMMA FileIs ==
  ASSUME IconsInv, NEW f \in assets
  PROVE  f = IconFile(f.owner, f.n) /\ f.n # 0
BY DEF IconsInv, IconsTypeOK, IconFile

\* A call with its row to itself that goes on from c to d, or ends: the row stays calm.
LEMMA StaysCalm ==
  ASSUME IconsInv, NEW c \in iconCalls, NEW d, d.owner = c.owner, c.owner \notin iconsBlamed,
         iconCalls' = (iconCalls \ {c}) \cup {d},
         d.at # "stale" => iconOf'[d.owner] < d.n,
         d.op = "edit" /\ d.at \in {"sent", "read"} => d.icon \in {0, iconOf'[d.owner]},
         d.at \in {"read", "written", "cleared"} => d.owner \in iconOwners' /\ d.seen = iconOf'[d.owner],
         d.at \in {"written", "cleared"} => d.op = "upload" /\ IconFile(d.owner, d.n) \in assets',
         d.at = "cleared" => IconFile(d.owner, d.seen) \notin assets',
         d.at = "stale" => iconOf'[d.owner] # d.seen \/ d.owner \notin iconOwners',
         d.owner \in iconOwners' =>
            iconOf'[d.owner] = 0 \/ IconFile(d.owner, iconOf'[d.owner]) \in assets' \/ d.at = "cleared",
         \A f \in assets' \ iconsReplaced' : f.owner = d.owner =>
               \/ d.owner \in iconOwners' /\ iconOf'[d.owner] = f.n
               \/ d.at \in {"written", "cleared"} /\ f.n = d.n
               \/ d.at = "stale" /\ f.n = d.seen
  PROVE  RowCalm(c.owner)'
<1>1. Undisturbed(c) /\ \A e \in iconCalls : e.owner = c.owner => e = c
  BY OwnRow DEF Undisturbed
<1>2. d \in iconCalls' /\ \A e \in iconCalls' : e.owner = c.owner => e = d
  BY <1>1
<1>3. Undisturbed(d)'
  BY <1>1, <1>2 DEF Undisturbed
<1> QED
  BY <1>2, <1>3 DEF RowCalm

LEMMA EndsCalm ==
  ASSUME IconsInv, NEW c \in iconCalls, c.owner \notin iconsBlamed, iconCalls' = iconCalls \ {c},
         c.owner \in iconOwners' =>
            iconOf'[c.owner] = 0 \/ IconFile(c.owner, iconOf'[c.owner]) \in assets',
         \A f \in assets' \ iconsReplaced' : f.owner = c.owner =>
               c.owner \in iconOwners' /\ iconOf'[c.owner] = f.n
  PROVE  RowCalm(c.owner)'
<1>1. \A e \in iconCalls : e.owner = c.owner => e = c
  BY OwnRow DEF Undisturbed
<1> QED
  BY <1>1 DEF RowCalm

LEMMA WriteAssetKeeps ==
  ASSUME IconsInv, NEW c \in iconCalls, WriteAsset(c)
  PROVE  IconsInv'
<1>0. PICK d : d = [c EXCEPT !.at = "written"]
  OBVIOUS
<1>1. c \in IconCall /\ c.owner \in IconOwners /\ c.at = "read" /\ c.op = "upload" /\ c.n # 0
  BY DEF IconsInv, IconsTypeOK, IconCall, WriteAsset
<1>2. UNCHANGED <<iconOwners, iconOf, iconCallsMade, iconsBlamed, iconsReplaced>>
      /\ assets' = assets \cup {IconFile(c.owner, c.n)} /\ iconCalls' = (iconCalls \ {c}) \cup {d}
  BY <1>0 DEF WriteAsset, IconGoes
<1>3. CallGoesOn(c, d) /\ d \in IconCall /\ d.at = "written" /\ d.seen = c.seen
      /\ d.n = c.n /\ d.owner = c.owner /\ d.op = c.op
  BY <1>0, <1>1 DEF IconCall, CallGoesOn
<1>4. IconsTypeOK' /\ NamesPast'
  BY <1>2, <1>3, IconCallTypes DEF IconsInv, IconsTypeOK
<1>5. IconFile(c.owner, c.n).owner = c.owner /\ IconFile(c.owner, c.n).n = c.n
  BY DEF IconFile
<1>6. RowCalm(c.owner)'
  <2> SUFFICES ASSUME c.owner \notin iconsBlamed
               PROVE  RowCalm(c.owner)'
    BY <1>2 DEF RowCalm
  <2>1. iconOf[c.owner] < c.n /\ c.owner \in iconOwners /\ c.seen = iconOf[c.owner]
    BY <1>1, OwnRow DEF Undisturbed
  <2>2. \A f \in assets' \ iconsReplaced' : f.owner = c.owner => iconOf[c.owner] = f.n \/ f.n = c.n
    BY <1>1, <1>2, <1>5, OwnRow
  <2>3. iconOf[c.owner] = 0 \/ IconFile(c.owner, iconOf[c.owner]) \in assets
    BY <1>1, <2>1, OwnRow
  <2> QED
    BY <1>1, <1>2, <1>3, <2>1, <2>2, <2>3, StaysCalm
<1> QED
  BY <1>1, <1>2, <1>3, <1>4, <1>5, <1>6, RowsApart

LEMMA RemoveAssetKeeps ==
  ASSUME IconsInv, NEW c \in iconCalls, RemoveAsset(c)
  PROVE  IconsInv'
<1>0. PICK d : d = [c EXCEPT !.at = "cleared"]
  OBVIOUS
<1>1. c \in IconCall /\ c.owner \in IconOwners /\ c.n \in Nat \ {0}
  BY DEF IconsInv, IconsTypeOK, IconCall
<1>2. UNCHANGED <<iconOwners, iconOf, iconCallsMade, iconsBlamed, iconsReplaced>>
      /\ assets' = assets \ {IconFile(c.owner, c.seen)}
  BY DEF RemoveAsset
<1>3. IconFile(c.owner, c.seen).owner = c.owner /\ IconFile(c.owner, c.seen).n = c.seen
      /\ IconFile(c.owner, c.n).n = c.n
  BY DEF IconFile
<1>4. CASE c.at = "stale"
  <2>1. iconCalls' = iconCalls \ {c}
    BY <1>4 DEF RemoveAsset, IconEnds
  <2>2. IconsTypeOK' /\ NamesPast'
    BY <1>2, <2>1, IconCallTypes DEF IconsInv, IconsTypeOK
  <2>3. RowCalm(c.owner)'
    <3> SUFFICES ASSUME c.owner \notin iconsBlamed
                 PROVE  RowCalm(c.owner)'
      BY <1>2 DEF RowCalm
    <3>1. iconOf[c.owner] # c.seen \/ c.owner \notin iconOwners
      BY <1>4, OwnRow DEF Undisturbed
    <3>2. \A f \in assets' \ iconsReplaced' : f.owner = c.owner => c.owner \in iconOwners /\ iconOf[c.owner] = f.n
      BY <1>2, <1>4, OwnRow, FileIs
    <3>3. c.owner \in iconOwners => iconOf[c.owner] = 0 \/ IconFile(c.owner, iconOf[c.owner]) \in assets
      BY <1>4, OwnRow
    <3>4. c.owner \in iconOwners => iconOf[c.owner] = 0 \/ IconFile(c.owner, iconOf[c.owner]) \in assets'
      BY <1>2, <3>1, <3>3 DEF IconFile
    <3> QED
      BY <1>2, <2>1, <3>2, <3>4, EndsCalm
  <2> QED
    BY <1>1, <1>2, <1>3, <2>1, <2>2, <2>3, RowsApart
<1>5. CASE ClearsFirst(c)
  <2>1. c.at = "written" /\ iconCalls' = (iconCalls \ {c}) \cup {d}
    BY <1>0, <1>5 DEF RemoveAsset, IconGoes, ClearsFirst
  <2>2. CallGoesOn(c, d) /\ d \in IconCall /\ d.at = "cleared" /\ d.seen = c.seen
        /\ d.n = c.n /\ d.owner = c.owner /\ d.op = c.op
    BY <1>0, <1>1 DEF IconCall, CallGoesOn
  <2>3. IconsTypeOK' /\ NamesPast'
    BY <1>2, <2>1, <2>2, IconCallTypes DEF IconsInv, IconsTypeOK
  <2>4. RowCalm(c.owner)'
    <3> SUFFICES ASSUME c.owner \notin iconsBlamed
                 PROVE  RowCalm(c.owner)'
      BY <1>2 DEF RowCalm
    <3>1. iconOf[c.owner] < c.n /\ c.owner \in iconOwners /\ c.seen = iconOf[c.owner] /\ c.op = "upload"
          /\ IconFile(c.owner, c.n) \in assets /\ iconOf[c.owner] \in Nat
      BY <1>1, <2>1, OwnRow DEF Undisturbed, IconsInv, IconsTypeOK
    <3>2. IconFile(c.owner, c.n) \in assets' /\ IconFile(c.owner, c.seen) \notin assets'
      BY <1>1, <1>2, <1>3, <3>1
    <3>3. \A f \in assets' \ iconsReplaced' : f.owner = c.owner => f.n = c.n
      BY <1>2, <2>1, <3>1, OwnRow, FileIs
    <3> QED
      BY <1>1, <1>2, <2>1, <2>2, <3>1, <3>2, <3>3, StaysCalm
  <2> QED
    BY <1>1, <1>2, <1>3, <2>1, <2>2, <2>3, <2>4, RowsApart
<1> QED
  BY <1>4, <1>5 DEF RemoveAsset

LEMMA WriteIconRowKeeps ==
  ASSUME IconsInv, NEW c \in iconCalls, WriteIconRow(c)
  PROVE  IconsInv'
<1>0. PICK d : d = [c EXCEPT !.at = "stale"]
  OBVIOUS
<1>1. c \in IconCall /\ c.owner \in IconOwners /\ c.n \in Nat \ {0} /\ iconOf \in [IconOwners -> Nat]
      /\ c.icon \in Nat /\ c.seen \in Nat /\ c.op \in {"upload", "edit", "rename"}
  BY DEF IconsInv, IconsTypeOK, IconCall, WriteIconRow
<1>2. UNCHANGED <<assets, iconCallsMade, iconsBlamed>>
      /\ iconsReplaced' = iconsReplaced
            \cup {f \in assets : f = IconFile(c.owner, iconOf[c.owner]) /\ c.owner = "subscription" /\ c.op = "edit"}
      /\ iconCalls' = (IF Supersedes(c) THEN (iconCalls \ {c}) \cup {d} ELSE iconCalls \ {c})
      /\ iconOwners \subseteq iconOwners' /\ iconOwners' \subseteq iconOwners \cup {c.owner}
  BY <1>0 DEF WriteIconRow, IconGoes, IconEnds
<1>3. iconOf' = (IF c.owner \in iconOwners' THEN [iconOf EXCEPT ![c.owner] = IconAfter(c)] ELSE iconOf)
      /\ AtIconRow(c)
  BY DEF WriteIconRow
<1>4. IconAfter(c) = (CASE c.op = "upload" -> c.n [] c.op = "edit" -> c.icon [] c.op = "rename" -> c.seen)
  BY DEF IconAfter
<1>5. IconAfter(c) \in {c.n, c.icon, c.seen}
  BY <1>1, <1>4
<1>6. CallGoesOn(c, d) /\ d \in IconCall /\ d.at = "stale" /\ d.seen = c.seen
      /\ d.n = c.n /\ d.owner = c.owner /\ d.op = c.op
  BY <1>0, <1>1 DEF IconCall, CallGoesOn
<1>7. IconsTypeOK' /\ NamesPast'
  <2>1. iconOf' = iconOf \/ \E i \in {c.n, c.icon, c.seen} : iconOf' = [iconOf EXCEPT ![c.owner] = i]
    BY <1>3, <1>5
  <2>2. iconCalls' = iconCalls \ {c}
        \/ \E e \in IconCall : CallGoesOn(c, e) /\ iconCalls' = (iconCalls \ {c}) \cup {e}
    BY <1>2, <1>6
  <2>3. iconOwners' \subseteq IconOwners /\ iconsBlamed' \subseteq IconOwners
        /\ assets' \subseteq assets \cup {IconFile(c.owner, c.n)} /\ UNCHANGED iconCallsMade
    BY <1>1, <1>2 DEF IconsInv, IconsTypeOK
  <2> QED
    BY <2>1, <2>2, <2>3, IconCallTypes
<1>8. \A p \in IconOwners \ {c.owner} : iconOf'[p] = iconOf[p] /\ (p \in iconOwners' <=> p \in iconOwners)
  BY <1>1, <1>2, <1>3
<1>9. RowCalm(c.owner)'
  <2> SUFFICES ASSUME c.owner \notin iconsBlamed
               PROVE  RowCalm(c.owner)'
    BY <1>2 DEF RowCalm
  <2>1. Undisturbed(c)
    BY OwnRow
  <2>2. c.owner \in iconOwners /\ c.seen = iconOf[c.owner] /\ iconOf[c.owner] < c.n
        /\ c.at \in {"read", "written", "cleared"}
    BY <1>1, <1>3, <2>1 DEF Undisturbed, AtIconRow
  <2>3. iconOf'[c.owner] = IconAfter(c) /\ c.owner \in iconOwners'
    BY <1>1, <1>2, <1>3, <2>2
  <2>4. \A f \in assets \ iconsReplaced : f.owner = c.owner =>
           f.n = iconOf[c.owner] \/ (c.at \in {"written", "cleared"} /\ f.n = c.n)
    BY <2>2, OwnRow
  <2>5. iconOf[c.owner] = 0 \/ IconFile(c.owner, iconOf[c.owner]) \in assets \/ c.at = "cleared"
    BY <2>2, OwnRow
  <2>6. CASE c.op = "upload"
    <3>1. iconOf'[c.owner] = c.n /\ IconFile(c.owner, c.n) \in assets /\ c.at \in {"written", "cleared"}
      BY <1>3, <1>4, <2>1, <2>3, <2>6 DEF Undisturbed, AtIconRow
    <3>2. CASE c.owner = "method"
      <4>1. iconCalls' = (iconCalls \ {c}) \cup {d}
        BY <1>2, <2>6, <3>2 DEF Supersedes
      <4>2. \A f \in assets' \ iconsReplaced' : f.owner = c.owner => f.n = c.n \/ f.n = c.seen
        BY <1>2, <2>2, <2>4
      <4> QED
        BY <1>1, <1>2, <1>6, <2>2, <2>3, <3>1, <4>1, <4>2, StaysCalm
    <3>3. CASE c.owner = "subscription"
      <4>1. iconCalls' = iconCalls \ {c} /\ c.at = "cleared"
        BY <1>2, <1>3, <2>6, <3>1, <3>3 DEF Supersedes, AtIconRow, ClearsFirst
      <4>2. IconFile(c.owner, c.seen) \notin assets
        BY <2>1, <4>1 DEF Undisturbed
      <4>3. \A f \in assets' \ iconsReplaced' : f.owner = c.owner => f.n = c.n
        BY <1>2, <2>2, <2>4, <4>2, FileIs
      <4> QED
        BY <1>2, <2>3, <3>1, <4>1, <4>3, EndsCalm
    <3> QED
      BY <1>1, <3>2, <3>3 DEF IconOwners
  <2>7. CASE c.op = "edit"
    <3>1. iconOf'[c.owner] = c.icon /\ c.at = "read" /\ c.icon \in {0, iconOf[c.owner]}
      BY <1>3, <1>4, <2>1, <2>3, <2>7 DEF Undisturbed, AtIconRow
    <3>2. c.icon = 0 \/ IconFile(c.owner, c.icon) \in assets
      BY <2>5, <3>1
    <3>3. CASE Supersedes(c)
      <4>1. iconCalls' = (iconCalls \ {c}) \cup {d} /\ c.seen # c.icon
        BY <1>2, <2>7, <3>3 DEF Supersedes
      <4>2. \A f \in assets' \ iconsReplaced' : f.owner = c.owner => f.n = c.seen
        BY <1>2, <2>2, <2>4, <3>1
      <4> QED
        BY <1>2, <1>6, <2>3, <3>1, <3>2, <4>1, <4>2, StaysCalm
    <3>4. CASE ~Supersedes(c)
      <4>1. iconCalls' = iconCalls \ {c} /\ (c.owner = "subscription" \/ c.seen = 0 \/ c.seen = c.icon)
        BY <1>1, <1>2, <2>7, <3>4 DEF Supersedes, IconOwners
      <4>2. \A f \in assets' \ iconsReplaced' : f.owner = c.owner => f.n = c.icon
        BY <1>2, <2>2, <2>4, <2>7, <3>1, <4>1, FileIs
      <4> QED
        BY <1>2, <2>3, <3>1, <3>2, <4>1, <4>2, EndsCalm
    <3> QED
      BY <3>3, <3>4
  <2>8. CASE c.op = "rename"
    <3>1. iconOf'[c.owner] = iconOf[c.owner] /\ c.at = "read" /\ iconCalls' = iconCalls \ {c}
      BY <1>2, <1>3, <1>4, <2>1, <2>2, <2>3, <2>8 DEF Undisturbed, AtIconRow, Supersedes
    <3>2. \A f \in assets' \ iconsReplaced' : f.owner = c.owner => f.n = iconOf[c.owner]
      BY <1>2, <2>4, <3>1
    <3> QED
      BY <1>2, <2>3, <2>5, <3>1, <3>2, EndsCalm
  <2> QED
    BY <1>1, <2>6, <2>7, <2>8
<1>10. \A e \in iconCalls \cup iconCalls' : e.owner # c.owner => (e \in iconCalls' <=> e \in iconCalls)
  BY <1>2, <1>6
<1> QED
  BY <1>1, <1>2, <1>7, <1>8, <1>9, <1>10, RowsApart

LEMMA DeleteIconRowKeeps ==
  ASSUME IconsInv, NEW c \in iconCalls, DeleteIconRow(c)
  PROVE  IconsInv'
<1>0. PICK d : d = [c EXCEPT !.at = "stale"]
  OBVIOUS
<1>1. c \in IconCall /\ c.owner \in IconOwners /\ c.op = "delete" /\ AtIconRow(c)
  BY DEF IconsInv, IconsTypeOK, IconCall, DeleteIconRow
<1>2. UNCHANGED <<iconOf, assets, iconCallsMade, iconsBlamed, iconsReplaced>>
      /\ iconCalls' = (iconCalls \ {c}) \cup {d} /\ iconOwners' = iconOwners \ {c.owner}
  BY <1>0, <1>1 DEF DeleteIconRow, IconGoes, Supersedes
<1>3. CallGoesOn(c, d) /\ d \in IconCall /\ d.at = "stale" /\ d.seen = c.seen /\ d.owner = c.owner
  BY <1>0, <1>1 DEF IconCall, CallGoesOn
<1>4. IconsTypeOK' /\ NamesPast'
  BY <1>2, <1>3, IconCallTypes DEF IconsInv, IconsTypeOK
<1>5. RowCalm(c.owner)'
  <2> SUFFICES ASSUME c.owner \notin iconsBlamed
               PROVE  RowCalm(c.owner)'
    BY <1>2 DEF RowCalm
  <2>1. c.at = "read" /\ c.seen = iconOf[c.owner]
    BY <1>1, OwnRow DEF Undisturbed, AtIconRow
  <2>2. \A f \in assets' \ iconsReplaced' : f.owner = c.owner => f.n = c.seen
    BY <1>2, <2>1, OwnRow
  <2> QED
    BY <1>2, <1>3, <2>2, StaysCalm
<1> QED
  BY <1>1, <1>2, <1>3, <1>4, <1>5, RowsApart

LEMMA IconRowFailsKeeps ==
  ASSUME IconsInv, NEW c \in iconCalls, IconRowFails(c)
  PROVE  IconsInv'
<1>1. c \in IconCall /\ c.owner \in IconOwners /\ AtIconRow(c)
  BY DEF IconsInv, IconsTypeOK, IconCall, IconRowFails
<1>2. UNCHANGED <<iconOwners, iconOf, iconCallsMade, iconsReplaced>> /\ iconCalls' = iconCalls \ {c}
      /\ assets' = assets \ {f \in assets : c.op = "upload" /\ f = IconFile(c.owner, c.n)}
      /\ iconsBlamed' = (IF c.at = "cleared" THEN iconsBlamed \cup {c.owner} ELSE iconsBlamed)
  BY DEF IconRowFails, IconEnds
<1>3. IconsTypeOK' /\ NamesPast'
  BY <1>1, <1>2, IconCallTypes DEF IconsInv, IconsTypeOK
<1>4. RowCalm(c.owner)'
  <2> SUFFICES ASSUME c.owner \notin iconsBlamed, c.at # "cleared"
               PROVE  RowCalm(c.owner)'
    BY <1>2 DEF RowCalm
  <2>1. Undisturbed(c) /\ c.owner \in iconOwners /\ iconOf[c.owner] < c.n /\ c.at \in {"read", "written"}
    BY <1>1, OwnRow DEF Undisturbed, AtIconRow
  <2>2. IconFile(c.owner, c.n).n = c.n /\ IconFile(c.owner, iconOf[c.owner]).n = iconOf[c.owner]
        /\ iconOf[c.owner] \in Nat /\ c.n \in Nat
    BY <1>1 DEF IconFile, IconsInv, IconsTypeOK, IconCall
  <2>3. iconOf[c.owner] = 0 \/ IconFile(c.owner, iconOf[c.owner]) \in assets'
    BY <1>2, <2>1, <2>2, OwnRow
  <2>4. c.at = "written" => c.op = "upload"
    BY <2>1 DEF Undisturbed
  <2>5. \A f \in assets' \ iconsReplaced' : f.owner = c.owner => f.n = iconOf[c.owner]
    BY <1>2, <2>1, <2>4, OwnRow, FileIs
  <2> QED
    BY <1>2, <2>1, <2>3, <2>5, EndsCalm
<1>5. \A f \in assets \cup assets' : f.owner # c.owner => (f \in assets' <=> f \in assets)
  BY <1>2 DEF IconFile
<1> QED
  BY <1>1, <1>2, <1>3, <1>4, <1>5, RowsApart

LEMMA StopIconsKeeps ==
  ASSUME IconsInv, StopIconServer
  PROVE  IconsInv'
<1>1. UNCHANGED <<iconOwners, iconOf, assets, iconCallsMade, iconsReplaced>> /\ iconCalls' = {}
      /\ iconsBlamed' = iconsBlamed \cup {c.owner : c \in {d \in iconCalls : d.at \notin {"sent", "read"}}}
  BY DEF StopIconServer
<1>2. IconsTypeOK' /\ NamesPast'
  BY <1>1 DEF IconsInv, IconsTypeOK, NamesPast, IconCall
<1>3. ASSUME NEW o \in IconOwners, o \notin iconsBlamed'
      PROVE  RowCalm(o)'
  <2>1. RowCalm(o) /\ o \notin iconsBlamed /\ \A c \in iconCalls : c.owner = o => c.at \in {"sent", "read"}
    BY <1>1, <1>3 DEF IconsInv
  <2> QED
    BY <1>1, <2>1 DEF RowCalm
<1> QED
  BY <1>2, <1>3 DEF IconsInv, RowCalm

LEMMA IconsStep ==
  ASSUME IconsInv, [IconsNext]_iconVars
  PROVE  IconsInv'
<1>1. ASSUME NEW o \in IconOwners, NEW op \in {"upload", "delete", "rename"}, AskIcon(o, op, 0)
      PROVE  IconsInv'
  BY <1>1, AskIconKeeps
<1>2. ASSUME NEW o \in IconOwners, NEW icon \in {0, iconOf[o]}, AskIcon(o, "edit", icon)
      PROVE  IconsInv'
  BY <1>2, AskIconKeeps DEF IconsInv, IconsTypeOK
<1>3. ASSUME NEW c \in iconCalls,
             ReadIconRow(c) \/ WriteAsset(c) \/ RemoveAsset(c) \/ WriteIconRow(c) \/ DeleteIconRow(c)
                \/ IconRowFails(c)
      PROVE  IconsInv'
  BY <1>3, ReadIconRowKeeps, WriteAssetKeeps, RemoveAssetKeeps, WriteIconRowKeeps, DeleteIconRowKeeps,
     IconRowFailsKeeps
<1>4. CASE StopIconServer
  BY <1>4, StopIconsKeeps
<1>5. CASE UNCHANGED iconVars
  BY <1>5 DEF iconVars, IconsInv, IconsTypeOK, NamesPast, RowCalm, Undisturbed, IconFile
<1> QED
  BY <1>1, <1>2, <1>3, <1>4, <1>5 DEF IconsNext

THEOREM IconsInvariant == IconsSpec => []IconsInv
BY IconsInitial, IconsStep, PTL DEF IconsSpec

\* subscription_icon.go and payment_method.go: for any number of requests, faults and stops,
\* rows and files agree but for the rows whose requests overlapped or were cut short.
THEOREM RowsKeepTheirFiles == IconsSpec => []IconsFollowRows
<1>1. ASSUME IconsInv
      PROVE  IconsFollowRows
  <2>1. NamedIconExists
    BY <1>1 DEF IconsInv, IconsTypeOK, RowCalm, NamedIconExists
  <2>2. \A f \in assets : f.owner \in IconOwners
    BY <1>1 DEF IconsInv, IconsTypeOK
  <2>3. NoIconLeftBehind
    BY <1>1, <2>2 DEF IconsInv, RowCalm, NoIconLeftBehind
  <2> QED
    BY <2>1, <2>3 DEF IconsFollowRows
<1> QED
  BY <1>1, IconsInvariant, PTL
-----------------------------------------------------------------------------
(* EmailCodes: what a code is worth. *)

CodesSpec == CodesInit /\ [][CodesNext]_codeVars

MailedCode == [id : 1..MaxAsks, made : Nat, failed : 0..MaxFailures, used : BOOLEAN]

CodeAsk == [n : 1..MaxAsks, at : {"refused", "allowed", "created", "mailed"}, mine : BOOLEAN]

CodeGuess == [n : Nat, typed : Nat, at : {"rejected", "read", "spent", "registered", "changed"}, code : Nat,
              seen : 0..MaxFailures, mine : BOOLEAN]

CodesTypeOK ==
    /\ codeClock \in Nat /\ countdown \in Nat /\ guessed \in Nat /\ overlapped \in Nat /\ uncounted \in Nat
    /\ asked \in 0..MaxAsks
    /\ codes \subseteq MailedCode /\ asks \subseteq CodeAsk
    /\ guesses \subseteq CodeGuess /\ IsFiniteSet(guesses)
    /\ tried \in [1..MaxAsks -> Nat] /\ accepted \in [1..MaxAsks -> Nat]

\* The guesses that have read code i and are not compared with it yet.
Reads(i) == {g \in guesses : g.at = "read" /\ g.code = i}

CodesDistinct ==
    /\ \A c, d \in codes : c.id = d.id => c = d
    /\ \A a, b \in asks : a.n = b.n => a = b
    /\ \A a \in asks : a.n <= asked
    /\ \A g \in guesses : g.n <= guessed /\ (g.at = "read" => g.code \in 1..MaxAsks)

\* A code that is not inserted yet.
Unborn(i) == /\ \A c \in codes : c.id # i
             /\ Reads(i) = {} /\ tried[i] = 0 /\ accepted[i] = 0 /\ i \notin ended

UnbornUntilCreated ==
    \A i \in 1..MaxAsks : i > asked \/ (\E a \in asks : a.n = i /\ a.at = "allowed") => Unborn(i)

\* The wrong guesses that a count may miss.
slack == overlapped + uncounted

\* Wrong guesses at code i, those counted and those still to be: what a guess writes back is
\* one more than it read, so that each guess beyond the count was sent while another was under way.
GuessesAccounted(i) ==
    /\ tried[i] <= MaxFailures + slack
    /\ \A g \in Reads(i) : tried[i] + Cardinality(Reads(i)) <= g.seen + slack + 1
    /\ \A c \in codes : c.id = i =>
          tried[i] + Cardinality(Reads(i)) <= c.failed + slack + (IF Reads(i) = {} THEN 0 ELSE 1)
    /\ accepted[i] + Cardinality(Reads(i)) <= 1 + overlapped
    /\ \A c \in codes : c.id = i /\ ~c.used => accepted[i] = 0

\* The register page, when no other client asks: it has one request for a code at a time,
\* and its countdown outlasts the delay of every code but the one that it waits for.
PageCountsDown ==
    codePage = "register" /\ ~elsewhere =>
        /\ \A a \in asks : codeSending /\ a.mine /\ \A b \in asks : a = b
        /\ \A c \in codes : c.made <= codeClock
        /\ \A c \in codes :
              \/ c.made + CodeDelay <= codeClock + countdown
              \/ \E a \in asks : a.n = c.id /\ a.at \in {"created", "mailed"}

NothingBefore == purpose = None => codes = {} /\ asks = {} /\ guesses = {} /\ codePage = None

CodesInv ==
    /\ CodesTypeOK /\ CodesDistinct /\ UnbornUntilCreated
    /\ \A i \in 1..MaxAsks : GuessesAccounted(i)
    /\ ChangeEndsCodes
    /\ PageCountsDown /\ NothingBefore /\ CooldownsAgree

\* What is known of codes and guesses, and of the page.
GuessesInv ==
    /\ CodesTypeOK /\ CodesDistinct /\ UnbornUntilCreated
    /\ \A i \in 1..MaxAsks : GuessesAccounted(i)
    /\ ChangeEndsCodes

CountdownInv == PageCountsDown /\ NothingBefore /\ CooldownsAgree

LEMMA ReadsFinite ==
  ASSUME CodesTypeOK, NEW i
  PROVE  IsFiniteSet(Reads(i)) /\ Cardinality(Reads(i)) \in Nat /\ (Cardinality(Reads(i)) = 0 <=> Reads(i) = {})
<1>1. IsFiniteSet(Reads(i))
  BY FS_Subset DEF CodesTypeOK, Reads
<1> QED
  BY <1>1, FS_CardinalityType, FS_EmptySet

LEMMA CodesTyped ==
  ASSUME CodesTypeOK
  PROVE  /\ \A c \in codes : /\ c.id \in 1..MaxAsks /\ c.id \in Nat /\ c.made \in Nat
                             /\ c.failed \in 0..MaxFailures /\ c.failed \in Nat /\ c.used \in BOOLEAN
         /\ \A a \in asks : a.n \in 1..MaxAsks /\ a.n \in Nat /\ a.mine \in BOOLEAN
         /\ \A g \in guesses : g.n \in Nat /\ g.seen \in Nat /\ g.seen <= MaxFailures
         /\ \A i \in 1..MaxAsks : i \in Nat /\ tried[i] \in Nat /\ accepted[i] \in Nat
         /\ asked \in Nat /\ asked <= MaxAsks /\ MaxAsks \in Nat /\ MaxFailures \in Nat /\ CodeDelay \in Nat
<1> USE CodesAssumption DEF CodesTypeOK
<1>1. \A c \in codes : /\ c.id \in 1..MaxAsks /\ c.id \in Nat /\ c.made \in Nat
                       /\ c.failed \in 0..MaxFailures /\ c.failed \in Nat /\ c.used \in BOOLEAN
  BY DEF MailedCode
<1>2. \A a \in asks : a.n \in 1..MaxAsks /\ a.n \in Nat /\ a.mine \in BOOLEAN
  BY DEF CodeAsk
<1>3. \A g \in guesses : g.n \in Nat /\ g.seen \in Nat /\ g.seen <= MaxFailures
  BY DEF CodeGuess
<1>4. \A i \in 1..MaxAsks : i \in Nat /\ tried[i] \in Nat /\ accepted[i] \in Nat
  OBVIOUS
<1>5. asked \in Nat /\ asked <= MaxAsks /\ MaxAsks \in Nat /\ MaxFailures \in Nat /\ CodeDelay \in Nat
  OBVIOUS
<1> QED
  BY <1>1, <1>2, <1>3, <1>4, <1>5

\* A code whose counts, guesses and row stay as they are, or are removed.
LEMMA AccountKept ==
  ASSUME GuessesInv, NEW i \in 1..MaxAsks, Reads(i)' = Reads(i), UNCHANGED <<tried, accepted, uncounted>>,
         overlapped' \in Nat, overlapped <= overlapped',
         \A c \in codes' : c.id = i => \E d \in codes : d.id = i /\ d.failed = c.failed /\ (d.used => c.used)
  PROVE  GuessesAccounted(i)'
<1>1. GuessesAccounted(i) /\ CodesTypeOK
  BY DEF GuessesInv
<1>2. Cardinality(Reads(i)) \in Nat /\ overlapped \in Nat /\ slack \in Nat /\ slack' \in Nat /\ slack <= slack'
  <2>1. overlapped \in Nat /\ uncounted \in Nat /\ overlapped' \in Nat /\ uncounted' = uncounted
    BY <1>1 DEF CodesTypeOK
  <2>2. slack \in Nat /\ slack' \in Nat /\ slack <= slack'
    <3>1. slack = overlapped + uncounted /\ slack' = overlapped' + uncounted
      BY <2>1 DEF slack
    <3>2. PICK was, now, lost, before, after :
              /\ was = overlapped /\ now = overlapped' /\ lost = uncounted
              /\ before = slack /\ after = slack'
      OBVIOUS
    <3>3. was \in Nat /\ now \in Nat /\ lost \in Nat /\ was <= now /\ before = was + lost /\ after = now + lost
      BY <2>1, <3>1, <3>2
    <3>4. before \in Nat /\ after \in Nat /\ before <= after
      BY ONLY <3>3
    <3> QED
      BY <3>2, <3>4
  <2>3. Cardinality(Reads(i)) \in Nat
    BY <1>1, ReadsFinite
  <2> QED
    BY <2>1, <2>2, <2>3
<1>3. tried[i] \in Nat /\ accepted[i] \in Nat /\ MaxFailures \in Nat
  BY <1>1, CodesTyped
<1>4. \A g \in Reads(i) : g.seen \in Nat
  BY <1>1, CodesTyped DEF Reads
<1>5. \A c \in codes' : c.id = i =>
         tried[i] + Cardinality(Reads(i)) <= c.failed + slack' + (IF Reads(i) = {} THEN 0 ELSE 1)
  <2> SUFFICES ASSUME NEW c \in codes', c.id = i
               PROVE  tried[i] + Cardinality(Reads(i)) <= c.failed + slack' + (IF Reads(i) = {} THEN 0 ELSE 1)
    OBVIOUS
  <2>1. PICK d \in codes : d.id = i /\ d.failed = c.failed
    OBVIOUS
  <2>2. d.failed \in Nat
    BY <1>1, CodesTyped
  <2>3. tried[i] + Cardinality(Reads(i)) <= d.failed + slack + (IF Reads(i) = {} THEN 0 ELSE 1)
    BY <1>1, <2>1 DEF GuessesAccounted
  <2> QED
    BY <1>2, <1>3, <2>1, <2>2, <2>3
<1>6. \A g \in Reads(i) : tried[i] + Cardinality(Reads(i)) <= g.seen + slack' + 1
  BY <1>1, <1>2, <1>3, <1>4 DEF GuessesAccounted
<1>7. tried[i] <= MaxFailures + slack' /\ accepted[i] + Cardinality(Reads(i)) <= 1 + overlapped'
  BY <1>1, <1>2, <1>3 DEF GuessesAccounted
<1>8. \A c \in codes' : c.id = i /\ ~c.used => accepted[i] = 0
  BY <1>1 DEF GuessesAccounted
<1> QED
  BY <1>5, <1>6, <1>7, <1>8 DEF GuessesAccounted

\* A step that neither sends nor compares a guess and inserts no row.
LEMMA GuessesRest ==
  ASSUME GuessesInv, CodesTypeOK', CodesDistinct', UNCHANGED <<tried, accepted, overlapped, uncounted>>, asked <= asked',
         \A i : Reads(i)' = Reads(i),
         \A c \in codes' : \E d \in codes : d.id = c.id /\ d.failed = c.failed /\ (d.used => c.used),
         \A a \in asks' : a.at = "allowed" => a \in asks \/ a.n > asked,
         ended' = ended \/ (ended' = {c.id : c \in codes} /\ \A c \in codes' : c.used)
  PROVE  GuessesInv'
<1>1. \A i \in 1..MaxAsks : GuessesAccounted(i)'
  <2>1. overlapped \in Nat
    BY DEF GuessesInv, CodesTypeOK
  <2> QED
    BY <2>1, AccountKept
<1>2. UnbornUntilCreated'
  <2> SUFFICES ASSUME NEW i \in 1..MaxAsks, i > asked' \/ (\E a \in asks' : a.n = i /\ a.at = "allowed")
               PROVE  Unborn(i)'
    BY DEF UnbornUntilCreated
  <2>1. i > asked \/ (\E a \in asks : a.n = i /\ a.at = "allowed")
    <3>1. asked \in Nat /\ asked' \in Nat /\ i \in Nat
      BY DEF GuessesInv, CodesTypeOK
    <3> QED
      BY <3>1
  <2>2. Unborn(i)
    BY <2>1 DEF GuessesInv, UnbornUntilCreated
  <2> QED
    BY <2>2 DEF Unborn
<1>3. ChangeEndsCodes'
  BY DEF GuessesInv, ChangeEndsCodes
<1> QED
  BY <1>1, <1>2, <1>3 DEF GuessesInv

LEMMA AskKeepsGuesses ==
  ASSUME GuessesInv, NEW mine \in BOOLEAN, Ask(mine),
         UNCHANGED <<codeClock, countdown, codes, guesses, guessed, tried, accepted, ended, overlapped, uncounted>>
  PROVE  GuessesInv'
<1>1. asked' = asked + 1 /\ asked \in Nat /\ asked + 1 \in 1..MaxAsks /\ asked' \in 0..MaxAsks
  BY CodesTyped DEF GuessesInv, Ask
<1>2. PICK q : q = [n |-> asked + 1, at |-> IF AskRefused THEN "refused" ELSE "allowed", mine |-> mine]
  OBVIOUS
<1>3. q \in CodeAsk /\ q.n = asked + 1
  BY <1>1, <1>2 DEF CodeAsk
<1>4. asks \subseteq asks' /\ asks' \subseteq asks \cup {q}
  BY <1>2 DEF Ask
<1>5. CodesTypeOK'
  BY <1>1, <1>3, <1>4 DEF GuessesInv, CodesTypeOK
<1>6. \A a \in asks : a.n \in Nat /\ a.n <= asked
  BY CodesTyped DEF GuessesInv, CodesDistinct
<1>7. CodesDistinct'
  <2>1. \A a, b \in asks' : a.n = b.n => a = b
    BY <1>1, <1>3, <1>4, <1>6 DEF GuessesInv, CodesDistinct
  <2>2. \A a \in asks' : a.n <= asked'
    BY <1>1, <1>3, <1>4, <1>6
  <2> QED
    BY <2>1, <2>2 DEF GuessesInv, CodesDistinct
<1>8. \A a \in asks' : a \in asks \/ a.n > asked
  BY <1>1, <1>3, <1>4
<1> QED
  BY <1>1, <1>5, <1>7, <1>8, GuessesRest DEF Reads

\* What a guess brings: nothing, or itself, having read the row of an unused code.
LEMMA GuessBrings ==
  ASSUME GuessesInv, NEW typed \in Nat, NEW mine \in BOOLEAN, Guess(typed, mine)
  PROVE  \/ guesses' = guesses
         \/ \E h \in CodeGuess : /\ guesses' = guesses \cup {h} /\ h.n = guessed + 1
                                 /\ h.at \in {"rejected", "read"}
                                 /\ h.at = "read" => \E c \in codes : c.id = h.code /\ ~c.used /\ c.failed = h.seen
<1>1. PICK g : g = [n |-> guessed + 1, typed |-> typed, at |-> "rejected", code |-> 0, seen |-> 0, mine |-> mine]
  OBVIOUS
<1>2. guessed \in Nat /\ g \in CodeGuess /\ g.n = guessed + 1 /\ g.at = "rejected"
  BY <1>1, CodesTyped DEF GuessesInv, CodesTypeOK, CodeGuess
<1>3. guesses' = guesses \cup
        (IF Guessable = {} THEN {h \in {[g EXCEPT !.typed = 0]} : mine}
         ELSE {[g EXCEPT !.at = "read", !.code = c.id, !.seen = c.failed, !.typed = IF @ = c.id THEN @ ELSE 0] :
                  c \in Guessable})
  BY <1>1 DEF Guess
<1>4. CASE Guessable = {}
  <2>1. PICK h : h = [g EXCEPT !.typed = 0]
    OBVIOUS
  <2>2. h \in CodeGuess /\ h.n = guessed + 1 /\ h.at = "rejected"
    BY <1>2, <2>1 DEF CodeGuess
  <2>3. guesses' = guesses \/ guesses' = guesses \cup {h}
    BY <1>3, <1>4, <2>1
  <2> QED
    BY <2>2, <2>3
<1>5. CASE Guessable # {}
  <2>1. PICK c \in Guessable : TRUE
    BY <1>5
  <2>2. c \in codes /\ ~c.used
    BY <2>1 DEF Guessable, Latest
  <2>3. Guessable = {c}
    <3>1. ASSUME NEW d \in Guessable
          PROVE  d = c
      <4>1. d \in codes /\ d.id <= c.id /\ c.id <= d.id
        BY <2>1 DEF Guessable, Latest
      <4>2. d.id \in Nat /\ c.id \in Nat
        BY <2>2, <4>1, CodesTyped DEF GuessesInv
      <4>3. d.id = c.id
        BY <4>1, <4>2
      <4> QED
        BY <2>2, <4>1, <4>3 DEF GuessesInv, CodesDistinct
    <3> QED
      BY <2>1, <3>1
  <2>4. PICK h : h = [g EXCEPT !.at = "read", !.code = c.id, !.seen = c.failed, !.typed = IF @ = c.id THEN @ ELSE 0]
    OBVIOUS
  <2>5. c.id \in Nat /\ c.failed \in 0..MaxFailures
    BY <2>2, CodesTyped DEF GuessesInv
  <2>6. h \in CodeGuess /\ h.n = guessed + 1 /\ h.at = "read" /\ h.code = c.id /\ h.seen = c.failed
    BY <1>2, <2>4, <2>5 DEF CodeGuess
  <2>7. guesses' = guesses \cup {h}
    BY <1>3, <1>5, <2>3, <2>4
  <2> QED
    BY <2>2, <2>6, <2>7
<1> QED
  BY <1>4, <1>5

LEMMA GuessKeeps ==
  ASSUME GuessesInv, NEW typed \in Nat, NEW mine \in BOOLEAN, Guess(typed, mine),
         UNCHANGED <<codeClock, countdown, codes, asks, asked, tried, accepted, ended, uncounted>>
  PROVE  GuessesInv'
<1>1. guessed' = guessed + 1 /\ guessed \in Nat /\ overlapped \in Nat
      /\ overlapped' = (IF guesses = {} THEN overlapped ELSE overlapped + 1)
      /\ slack \in Nat /\ slack' = (IF guesses = {} THEN slack ELSE slack + 1)
  <2>1. overlapped \in Nat /\ uncounted \in Nat /\ uncounted' = uncounted
    BY DEF GuessesInv, CodesTypeOK
  <2>2. guessed' = guessed + 1 /\ overlapped' = (IF guesses = {} THEN overlapped ELSE overlapped + 1)
    BY DEF Guess
  <2>3. slack \in Nat /\ slack' = (IF guesses = {} THEN slack ELSE slack + 1)
    BY <2>1, <2>2 DEF slack
  <2> QED
    BY <2>1, <2>2, <2>3 DEF GuessesInv, CodesTypeOK
<1>2. CASE guesses' = guesses
  <2>1. CodesTypeOK' /\ CodesDistinct'
    <3>1. \A g \in guesses : g.n <= guessed'
      BY <1>1, CodesTyped DEF GuessesInv, CodesDistinct
    <3> QED
      BY <1>1, <1>2, <3>1 DEF GuessesInv, CodesTypeOK, CodesDistinct
  <2>2. \A i : Reads(i)' = Reads(i)
    BY <1>2 DEF Reads
  <2>3. \A i \in 1..MaxAsks : GuessesAccounted(i)'
    BY <1>1, <2>2, AccountKept
  <2>4. UnbornUntilCreated' /\ ChangeEndsCodes'
    BY <2>2 DEF GuessesInv, UnbornUntilCreated, Unborn, ChangeEndsCodes
  <2> QED
    BY <2>1, <2>3, <2>4 DEF GuessesInv
<1>3. ASSUME NEW h \in CodeGuess, guesses' = guesses \cup {h}, h.n = guessed + 1, h.at \in {"rejected", "read"},
             h.at = "read" => \E c \in codes : c.id = h.code /\ ~c.used /\ c.failed = h.seen
      PROVE  GuessesInv'
  <2>1. \A g \in guesses : g.n \in Nat /\ g.n <= guessed /\ g # h
    BY <1>1, <1>3, CodesTyped DEF GuessesInv, CodesDistinct
  <2>2. CodesTypeOK' /\ CodesDistinct'
    <3>1. IsFiniteSet(guesses')
      BY <1>3, FS_AddElement DEF GuessesInv, CodesTypeOK
    <3>2. h.at = "read" => h.code \in 1..MaxAsks
      BY <1>3, CodesTyped DEF GuessesInv
    <3>3. \A g \in guesses' : g.n <= guessed' /\ (g.at = "read" => g.code \in 1..MaxAsks)
      BY <1>1, <1>3, <2>1, <3>2 DEF GuessesInv, CodesDistinct
    <3> QED
      BY <1>1, <1>3, <3>1, <3>3 DEF GuessesInv, CodesTypeOK, CodesDistinct
  <2>3. \A i : ~(h.at = "read" /\ h.code = i) => Reads(i)' = Reads(i)
    BY <1>3 DEF Reads
  <2>4. ASSUME NEW i \in 1..MaxAsks, h.at = "read", h.code = i
        PROVE  GuessesAccounted(i)' /\ ~Unborn(i)
    <3>1. PICK c \in codes : c.id = i /\ ~c.used /\ c.failed = h.seen
      BY <1>3, <2>4
    <3>2. Reads(i)' = Reads(i) \cup {h} /\ h \notin Reads(i)
      BY <1>3, <2>1, <2>4 DEF Reads
    <3>3. IsFiniteSet(Reads(i)) /\ Cardinality(Reads(i)) \in Nat /\ (Cardinality(Reads(i)) = 0 <=> Reads(i) = {})
      BY ReadsFinite DEF GuessesInv
    <3>4. Cardinality(Reads(i)') = Cardinality(Reads(i)) + 1
      BY <3>2, <3>3, FS_AddElement
    <3>5. Reads(i) # {} => overlapped' = overlapped + 1 /\ slack' = slack + 1
      BY <1>1 DEF Reads
    <3>6. tried[i] \in Nat /\ accepted[i] = 0 /\ c.failed \in Nat /\ MaxFailures \in Nat
      BY <3>1, CodesTyped DEF GuessesInv, GuessesAccounted
    <3>7. tried[i] + Cardinality(Reads(i)) <= c.failed + slack + (IF Reads(i) = {} THEN 0 ELSE 1)
      BY <3>1 DEF GuessesInv, GuessesAccounted
    <3>8. tried[i] + Cardinality(Reads(i)) + 1 <= c.failed + slack' + 1
      BY <1>1, <3>3, <3>5, <3>6, <3>7
    <3>9. \A g \in Reads(i) : tried[i] + Cardinality(Reads(i)) + 1 <= g.seen + slack' + 1
      <4> SUFFICES ASSUME NEW g \in Reads(i)
                   PROVE  tried[i] + Cardinality(Reads(i)) + 1 <= g.seen + slack' + 1
        OBVIOUS
      <4>1. tried[i] + Cardinality(Reads(i)) <= g.seen + slack + 1 /\ g.seen \in Nat
        BY CodesTyped DEF GuessesInv, GuessesAccounted, Reads
      <4>2. slack' = slack + 1
        BY <3>5
      <4> QED
        BY <1>1, <3>3, <3>6, <4>1, <4>2
    <3>10. \A g \in Reads(i)' : tried[i] + Cardinality(Reads(i)') <= g.seen + slack' + 1
      BY <3>1, <3>2, <3>3, <3>4, <3>6, <3>8, <3>9
    <3>11. \A d \in codes : d.id = i => d = c
      BY <3>1 DEF GuessesInv, CodesDistinct
    <3>12. \A d \in codes : d.id = i => tried[i] + Cardinality(Reads(i)') <= d.failed + slack' + 1
      BY <3>3, <3>4, <3>6, <3>8, <3>11
    <3>13. tried[i] <= MaxFailures + slack'
      BY <1>1, <3>6 DEF GuessesInv, GuessesAccounted
    <3>14. accepted[i] + Cardinality(Reads(i)') <= 1 + overlapped'
      <4>1. accepted[i] + Cardinality(Reads(i)) <= 1 + overlapped
        BY DEF GuessesInv, GuessesAccounted
      <4> QED
        BY <1>1, <3>3, <3>4, <3>5, <3>6, <4>1
    <3>15. Reads(i)' # {}
      BY <3>2
    <3> QED
      BY <3>1, <3>6, <3>10, <3>12, <3>13, <3>14, <3>15 DEF GuessesAccounted, Unborn
  <2>5. \A i \in 1..MaxAsks : GuessesAccounted(i)'
    <3> SUFFICES ASSUME NEW i \in 1..MaxAsks, ~(h.at = "read" /\ h.code = i)
                 PROVE  GuessesAccounted(i)'
      BY <2>4
    <3>1. Reads(i)' = Reads(i)
      BY <2>3
    <3> QED
      BY <1>1, <3>1, AccountKept
  <2>6. UnbornUntilCreated' /\ ChangeEndsCodes'
    <3>1. \A i \in 1..MaxAsks : Unborn(i) => Unborn(i)'
      BY <2>3, <2>4 DEF Unborn
    <3> QED
      BY <3>1 DEF GuessesInv, UnbornUntilCreated, ChangeEndsCodes
  <2> QED
    BY <2>2, <2>5, <2>6 DEF GuessesInv
<1> QED
  BY <1>2, <1>3, GuessBrings

LEMMA CreateCodeKeeps ==
  ASSUME GuessesInv, NEW a \in asks, CreateCode(a)
  PROVE  GuessesInv'
<1>1. PICK new : new = [id |-> a.n, made |-> codeClock, failed |-> 0, used |-> FALSE]
  OBVIOUS
<1>2. PICK b : b = [a EXCEPT !.at = "created"]
  OBVIOUS
<1>3. a.at = "allowed" /\ codes' = codes \cup {new} /\ asks' = (asks \ {a}) \cup {b}
      /\ UNCHANGED <<serverOnly, guesses, tried, accepted, ended, overlapped, uncounted>>
  BY <1>1, <1>2 DEF CreateCode, AskAt
<1>4. a \in CodeAsk /\ b \in CodeAsk /\ b.n = a.n /\ b.at = "created"
  BY <1>2 DEF GuessesInv, CodesTypeOK, CodeAsk
<1>5. new \in MailedCode /\ new.id = a.n /\ new.failed = 0 /\ ~new.used
  BY <1>1, <1>4, CodesTyped DEF GuessesInv, CodesTypeOK, MailedCode, CodeAsk
<1>6. Unborn(a.n) /\ a.n \in 1..MaxAsks
  BY <1>3, <1>4 DEF GuessesInv, UnbornUntilCreated, CodeAsk
<1>7. CodesTypeOK'
  BY <1>3, <1>4, <1>5 DEF GuessesInv, CodesTypeOK, serverOnly
<1>8. CodesDistinct'
  <2>1. \A c, d \in codes' : c.id = d.id => c = d
    BY <1>3, <1>5, <1>6 DEF GuessesInv, CodesDistinct, Unborn
  <2>2. \A c, d \in asks' : c.n = d.n => c = d
    BY <1>3, <1>4 DEF GuessesInv, CodesDistinct
  <2>3. \A c \in asks' : c.n <= asked
    BY <1>3, <1>4 DEF GuessesInv, CodesDistinct
  <2> QED
    BY <1>3, <2>1, <2>2, <2>3 DEF GuessesInv, CodesDistinct, serverOnly
<1>9. \A i : Reads(i)' = Reads(i)
  BY <1>3 DEF Reads
<1>10. GuessesAccounted(a.n)'
  <2>1. Reads(a.n) = {} /\ tried[a.n] = 0 /\ accepted[a.n] = 0 /\ \A c \in codes' : c.id = a.n => c = new
    BY <1>3, <1>6 DEF Unborn
  <2>2. Cardinality(Reads(a.n)) = 0 /\ overlapped \in Nat /\ slack \in Nat /\ MaxFailures \in Nat
    BY <2>1, FS_EmptySet, CodesTyped DEF GuessesInv, CodesTypeOK, slack
  <2>3. Reads(a.n)' = {} /\ Cardinality(Reads(a.n)') = 0 /\ tried'[a.n] = 0 /\ accepted'[a.n] = 0
        /\ overlapped' = overlapped /\ slack' = slack
    BY <1>3, <1>9, <2>1, <2>2 DEF slack
  <2>4. \A c \in codes' : c.id = a.n => c.failed = 0
    BY <1>5, <2>1
  <2> QED
    BY <2>2, <2>3, <2>4 DEF GuessesAccounted
<1>11. ASSUME NEW i \in 1..MaxAsks, i # a.n
       PROVE  GuessesAccounted(i)' /\ (Unborn(i) => Unborn(i)')
  <2>1. \A c \in codes' : c.id = i => c \in codes
    BY <1>3, <1>5, <1>11
  <2>2. Unborn(i) => Unborn(i)'
    BY <1>3, <1>9, <2>1 DEF Unborn
  <2>3. overlapped \in Nat /\ UNCHANGED <<overlapped, uncounted>>
    BY <1>3 DEF GuessesInv, CodesTypeOK
  <2> QED
    BY <1>3, <1>9, <2>1, <2>2, <2>3, AccountKept
<1>12. UnbornUntilCreated'
  <2> SUFFICES ASSUME NEW i \in 1..MaxAsks, i > asked' \/ (\E c \in asks' : c.n = i /\ c.at = "allowed")
               PROVE  Unborn(i)'
    BY DEF UnbornUntilCreated
  <2>1. i # a.n
    <3>1. a.n <= asked /\ asked' = asked /\ a.n \in Nat /\ asked \in Nat
      BY <1>3, CodesTyped DEF GuessesInv, CodesDistinct, serverOnly
    <3>2. \A c \in asks' : c.n = a.n => c.at = "created"
      BY <1>3, <1>4 DEF GuessesInv, CodesDistinct
    <3> QED
      BY <3>1, <3>2
  <2>2. i > asked \/ (\E c \in asks : c.n = i /\ c.at = "allowed")
    BY <1>3, <1>4, <2>1 DEF serverOnly
  <2> QED
    BY <1>11, <2>1, <2>2 DEF GuessesInv, UnbornUntilCreated
<1>13. ChangeEndsCodes'
  BY <1>3, <1>5, <1>6 DEF GuessesInv, ChangeEndsCodes, Unborn
<1> QED
  BY <1>7, <1>8, <1>10, <1>11, <1>12, <1>13 DEF GuessesInv

LEMMA MailCodeKeeps ==
  ASSUME GuessesInv, NEW a \in asks, NEW fails \in BOOLEAN, NEW cleans \in BOOLEAN, MailCode(a, fails, cleans)
  PROVE  GuessesInv'
<1>1. PICK b : b = [a EXCEPT !.at = IF fails THEN "refused" ELSE "mailed"]
  OBVIOUS
<1>2. codes' \subseteq codes /\ asks' \subseteq (asks \ {a}) \cup {b}
      /\ UNCHANGED <<serverOnly, guesses, tried, accepted, ended, overlapped, uncounted>>
  BY <1>1 DEF MailCode, AskAt
<1>3. b \in CodeAsk /\ b.n = a.n /\ b.at # "allowed"
  BY <1>1 DEF GuessesInv, CodesTypeOK, CodeAsk
<1>4. CodesTypeOK'
  BY <1>2, <1>3 DEF GuessesInv, CodesTypeOK, serverOnly
<1>5. CodesDistinct'
  BY <1>2, <1>3 DEF GuessesInv, CodesDistinct, serverOnly
<1>6. asked' = asked /\ asked \in Nat
  BY <1>2, CodesTyped DEF GuessesInv, serverOnly
<1> QED
  BY <1>2, <1>3, <1>4, <1>5, <1>6, GuessesRest DEF Reads, serverOnly

LEMMA AskAnsweredKeeps ==
  ASSUME GuessesInv, NEW a \in asks, NEW lost \in BOOLEAN, AskAnswered(a, lost)
  PROVE  GuessesInv'
<1>1. asks' = asks \ {a} /\ countdown' \in {countdown, CodeDelay}
      /\ UNCHANGED <<codeClock, codes, guesses, asked, guessed, tried, accepted, ended, overlapped, uncounted>>
  BY DEF AskAnswered
<1>2. CodesTypeOK' /\ CodesDistinct' /\ asked \in Nat
  BY <1>1, CodesTyped DEF GuessesInv, CodesTypeOK, CodesDistinct
<1> QED
  BY <1>1, <1>2, GuessesRest DEF Reads

LEMMA GuessAtIs ==
  ASSUME NEW g \in CodeGuess, NEW at \in {"rejected", "spent", "registered", "changed"}, GuessAt(g, at)
  PROVE  \E h \in CodeGuess : /\ h.at # "read" /\ h.n = g.n
                              /\ guesses' = guesses \ {g} \/ guesses' = (guesses \ {g}) \cup {h}
<1>1. PICK h : h = [g EXCEPT !.at = at, !.typed = 0, !.code = 0, !.seen = 0]
  OBVIOUS
<1>2. h \in CodeGuess /\ h.at = at /\ h.n = g.n
  <2>1. 0 \in 0..MaxFailures
    BY CodesAssumption
  <2> QED
    BY <1>1, <2>1 DEF CodeGuess
<1>3. guesses' = guesses \ {g} \/ guesses' = (guesses \ {g}) \cup {h}
  BY <1>1 DEF GuessAt
<1> QED
  BY <1>2, <1>3

\* The rows after a guess wrote one back.
LEMMA WriteIs ==
  ASSUME CodesTypeOK, CodesDistinct, NEW i \in 1..MaxAsks, NEW failed \in 0..MaxFailures, NEW used \in BOOLEAN,
         Write(i, failed, used)
  PROVE  /\ codes' \subseteq MailedCode
         /\ \A c, d \in codes' : c.id = d.id => c = d
         /\ \A c \in codes' : c.id # i => c \in codes
         /\ \A c \in codes' : c.id = i => /\ c.failed = failed /\ (used => c.used)
                                          /\ \E d \in codes : d.id = i /\ (d.used => c.used)
<1> DEFINE after(c) == IF c.id = i THEN [c EXCEPT !.failed = failed, !.used = c.used \/ used] ELSE c
<1>1. codes' = {after(c) : c \in codes}
  BY DEF Write
<1>2. ASSUME NEW d \in codes
      PROVE  /\ after(d) \in MailedCode /\ after(d).id = d.id
             /\ d.id # i => after(d) = d
             /\ d.id = i => after(d).failed = failed /\ (used => after(d).used) /\ (d.used => after(d).used)
  <2>1. d \in MailedCode /\ d.used \in BOOLEAN
    BY DEF CodesTypeOK, MailedCode
  <2>2. CASE d.id = i
    <3>1. PICK u \in BOOLEAN : u = (d.used \/ used)
      OBVIOUS
    <3>2. after(d) = [d EXCEPT !.failed = failed, !.used = u]
      BY <2>2, <3>1
    <3> HIDE DEF after
    <3>3. after(d) \in MailedCode /\ after(d).id = d.id /\ after(d).failed = failed /\ after(d).used = u
      BY <2>1, <3>2 DEF MailedCode
    <3> QED
      BY <2>2, <3>1, <3>3
  <2>3. CASE d.id # i
    BY <2>1, <2>3
  <2> QED
    BY <2>2, <2>3
<1> HIDE DEF after
<1>3. codes' \subseteq MailedCode
  BY <1>1, <1>2
<1>4. \A c, d \in codes' : c.id = d.id => c = d
  BY <1>1, <1>2 DEF CodesDistinct
<1>5. \A c \in codes' : c.id # i => c \in codes
  BY <1>1, <1>2
<1>6. ASSUME NEW c \in codes', c.id = i
      PROVE  c.failed = failed /\ (used => c.used) /\ \E d \in codes : d.id = i /\ (d.used => c.used)
  <2>1. PICK d \in codes : c = after(d)
    BY <1>1
  <2> QED
    BY <1>2, <1>6, <2>1
<1> QED
  BY <1>3, <1>4, <1>5, <1>6

LEMMA CompareKeeps ==
  ASSUME GuessesInv, NEW g \in guesses, CompareCode(g)
  PROVE  GuessesInv'
<1> DEFINE i == g.code
           wrong == g.seen < MaxFailures /\ g.typed # g.code
           right == g.seen < MaxFailures /\ g.typed = g.code
<1>1. g.at = "read" /\ g \in CodeGuess /\ i \in 1..MaxAsks /\ g.seen \in Nat /\ g.seen <= MaxFailures
      /\ MaxFailures \in Nat /\ i \in Nat
  BY CodesTyped DEF GuessesInv, CodesTypeOK, CodesDistinct, CompareCode
<1>2. PICK failed \in 0..MaxFailures, used \in BOOLEAN, h \in CodeGuess :
        /\ failed = (IF wrong THEN g.seen + 1 ELSE g.seen)
        /\ Write(i, failed, used) /\ h.at # "read" /\ h.n = g.n
        /\ guesses' = guesses \ {g} \/ guesses' = (guesses \ {g}) \cup {h}
        /\ tried' = IF wrong THEN [tried EXCEPT ![i] = @ + 1] ELSE tried
        /\ accepted' = IF right THEN [accepted EXCEPT ![i] = @ + 1] ELSE accepted
        /\ right => used
  <2>1. CASE g.seen >= MaxFailures
    <3>1. Write(i, g.seen, TRUE) /\ GuessAt(g, "rejected") /\ UNCHANGED tried /\ UNCHANGED accepted
      BY <2>1, Zenon DEF CompareCode, Compare
    <3>2. ~wrong /\ ~right /\ g.seen \in 0..MaxFailures
      BY <1>1, <2>1
    <3> QED
      BY <1>1, <3>1, <3>2, GuessAtIs
  <2>2. CASE right
    <3>1. ~(g.seen >= MaxFailures) /\ g.typed = g.code /\ ~wrong /\ g.seen \in 0..MaxFailures
      BY <1>1, <2>2
    <3>2. Write(i, g.seen, TRUE) /\ GuessAt(g, "spent") /\ accepted' = [accepted EXCEPT ![i] = @ + 1]
          /\ UNCHANGED tried
      BY <3>1, Zenon DEF CompareCode, Compare
    <3> QED
      BY <1>1, <2>2, <3>1, <3>2, GuessAtIs
  <2>3. CASE wrong
    <3>1. ~(g.seen >= MaxFailures) /\ g.typed # g.code /\ ~right /\ g.seen + 1 \in 0..MaxFailures
          /\ (g.seen + 1 >= MaxFailures) \in BOOLEAN
      BY <1>1, <2>3
    <3>2. Write(i, g.seen + 1, g.seen + 1 >= MaxFailures) /\ GuessAt(g, "rejected")
          /\ tried' = [tried EXCEPT ![i] = @ + 1] /\ UNCHANGED accepted
      BY <3>1, Zenon DEF CompareCode, Compare
    <3> QED
      BY <1>1, <2>3, <3>1, <3>2, GuessAtIs
  <2> QED
    BY <1>1, <2>1, <2>2, <2>3
<1>3. UNCHANGED <<serverOnly, asks, ended, overlapped, uncounted>> /\ UNCHANGED slack
  BY DEF CompareCode, slack
<1>4. failed \in Nat /\ failed <= MaxFailures /\ ~(wrong /\ right)
  BY <1>1
<1>5. /\ codes' \subseteq MailedCode
      /\ \A c, d \in codes' : c.id = d.id => c = d
      /\ \A c \in codes' : c.id # i => c \in codes
      /\ \A c \in codes' : c.id = i => /\ c.failed = failed /\ (used => c.used)
                                       /\ \E d \in codes : d.id = i /\ (d.used => c.used)
  BY <1>1, <1>2, WriteIs DEF GuessesInv
<1>6. \A c \in codes' : \E d \in codes : d.id = c.id /\ (d.used => c.used)
  BY <1>5
<1>8. \A j : j # i => Reads(j)' = Reads(j)
  BY <1>2 DEF Reads
<1>9. Reads(i)' = Reads(i) \ {g} /\ g \in Reads(i)
  BY <1>1, <1>2 DEF Reads
<1>10. tried \in [1..MaxAsks -> Nat] /\ accepted \in [1..MaxAsks -> Nat] /\ overlapped \in Nat /\ slack \in Nat
  BY DEF GuessesInv, CodesTypeOK, slack
<1>11. /\ tried'[i] = (IF wrong THEN tried[i] + 1 ELSE tried[i])
       /\ accepted'[i] = (IF right THEN accepted[i] + 1 ELSE accepted[i])
       /\ \A j \in 1..MaxAsks : j # i => tried'[j] = tried[j] /\ accepted'[j] = accepted[j]
  BY <1>1, <1>2, <1>10
<1>12. tried' \in [1..MaxAsks -> Nat] /\ accepted' \in [1..MaxAsks -> Nat]
  BY <1>1, <1>2, <1>10
<1>13. CodesTypeOK'
  <2>1. guesses' \subseteq CodeGuess /\ IsFiniteSet(guesses')
    <3>1. IsFiniteSet(guesses \ {g}) /\ guesses \subseteq CodeGuess
      BY FS_Subset DEF GuessesInv, CodesTypeOK
    <3>2. IsFiniteSet((guesses \ {g}) \cup {h})
      BY <3>1, FS_AddElement
    <3> QED
      BY <1>2, <3>1, <3>2
  <2> QED
    BY <1>3, <1>5, <1>12, <2>1 DEF GuessesInv, CodesTypeOK, serverOnly
<1>14. CodesDistinct'
  BY <1>2, <1>3, <1>5 DEF GuessesInv, CodesDistinct, serverOnly
<1>15. GuessesAccounted(i)'
  <2>1. IsFiniteSet(Reads(i)) /\ Cardinality(Reads(i)) \in Nat
    BY ReadsFinite DEF GuessesInv
  <2>2. IsFiniteSet(Reads(i)') /\ Cardinality(Reads(i)') = Cardinality(Reads(i)) - 1 /\ Cardinality(Reads(i)') \in Nat
    BY <1>9, <2>1, FS_RemoveElement, FS_CardinalityType
  <2>3. tried[i] \in Nat /\ accepted[i] \in Nat
    BY <1>1, <1>10
  <2>4. tried[i] + Cardinality(Reads(i)) <= g.seen + slack + 1
    BY <1>1, <1>9 DEF GuessesInv, GuessesAccounted
  <2>5. tried'[i] + Cardinality(Reads(i)') <= failed + slack
    <3>1. failed \in Nat /\ failed = (IF wrong THEN g.seen + 1 ELSE g.seen)
      BY <1>2, <1>4
    <3>2. tried'[i] = (IF wrong THEN tried[i] + 1 ELSE tried[i])
      BY <1>11
    <3>3. PICK had, has, triedBefore, triedNow, seen :
              /\ had = Cardinality(Reads(i)) /\ has = Cardinality(Reads(i)')
              /\ triedBefore = tried[i] /\ triedNow = tried'[i] /\ seen = g.seen
      OBVIOUS
    <3>4. had \in Nat /\ has = had - 1 /\ triedBefore \in Nat /\ triedBefore + had <= seen + slack + 1
          /\ seen \in Nat /\ slack \in Nat
      BY <1>1, <1>10, <2>1, <2>2, <2>3, <2>4, <3>3
    <3>5. \/ triedNow = triedBefore + 1 /\ failed = seen + 1
          \/ triedNow = triedBefore /\ failed = seen
      BY <3>1, <3>2, <3>3
    <3>6. triedNow + has <= failed + slack
      BY <3>1, <3>4, <3>5
    <3> QED
      BY <3>3, <3>6
  <2>6. tried'[i] <= MaxFailures + slack
    BY <1>1, <1>4, <1>10, <1>11, <2>2, <2>3, <2>5
  <2>7. \A k \in Reads(i)' : tried'[i] + Cardinality(Reads(i)') <= k.seen + slack + 1
    <3> SUFFICES ASSUME NEW k \in Reads(i)
                 PROVE  tried'[i] + Cardinality(Reads(i)') <= k.seen + slack + 1
      BY <1>9
    <3>1. tried[i] + Cardinality(Reads(i)) <= k.seen + slack + 1 /\ k.seen \in Nat
      BY <1>1, CodesTyped DEF GuessesInv, GuessesAccounted, Reads
    <3> QED
      <4>1. tried'[i] <= tried[i] + 1
        BY <1>11, <2>3
      <4>2. tried[i] \in Nat /\ tried'[i] \in Nat /\ slack \in Nat
        BY <1>10, <1>11, <2>3
      <4> QED
        BY <2>1, <2>2, <3>1, <4>1, <4>2
  <2>8. \A c \in codes' : c.id = i => tried'[i] + Cardinality(Reads(i)') <= c.failed + slack
    BY <1>5, <2>5
  <2>9. \A c \in codes' : c.id = i =>
           tried'[i] + Cardinality(Reads(i)') <= c.failed + slack + (IF Reads(i)' = {} THEN 0 ELSE 1)
    <3>1. \A c \in codes' : c.failed \in Nat
      BY <1>5, CodesAssumption DEF MailedCode
    <3>2. tried'[i] \in Nat
      BY <1>1, <1>12
    <3> QED
      BY <1>10, <2>2, <2>8, <3>1, <3>2
  <2>10. accepted'[i] + Cardinality(Reads(i)') <= 1 + overlapped
    <3>1. accepted[i] + Cardinality(Reads(i)) <= 1 + overlapped
      BY <1>1 DEF GuessesInv, GuessesAccounted
    <3> QED
      BY <1>10, <1>11, <2>1, <2>2, <2>3, <3>1
  <2>11. \A c \in codes' : c.id = i /\ ~c.used => accepted'[i] = 0
    BY <1>1, <1>2, <1>5, <1>11 DEF GuessesInv, GuessesAccounted
  <2> QED
    BY <1>3, <2>6, <2>7, <2>9, <2>10, <2>11 DEF GuessesAccounted
<1>16. ASSUME NEW j \in 1..MaxAsks, j # i
       PROVE  GuessesAccounted(j)'
  <2>1. GuessesAccounted(j) /\ Reads(j)' = Reads(j) /\ tried'[j] = tried[j] /\ accepted'[j] = accepted[j]
    BY <1>8, <1>11, <1>16 DEF GuessesInv
  <2>2. \A c \in codes' : c.id = j => c \in codes
    BY <1>5, <1>16
  <2> QED
    BY <1>3, <2>1, <2>2 DEF GuessesAccounted
<1>17. UnbornUntilCreated'
  <2>1. ~Unborn(i)
    BY <1>9 DEF Unborn
  <2>2. ASSUME NEW j \in 1..MaxAsks, Unborn(j)
        PROVE  Unborn(j)'
    <3>1. j # i
      BY <2>1, <2>2
    <3> QED
      BY <1>3, <1>6, <1>8, <1>11, <2>2, <3>1 DEF Unborn
  <2> QED
    BY <1>3, <2>2 DEF GuessesInv, UnbornUntilCreated, serverOnly
<1>18. ChangeEndsCodes'
  BY <1>3, <1>6 DEF GuessesInv, ChangeEndsCodes
<1> QED
  BY <1>13, <1>14, <1>15, <1>16, <1>17, <1>18 DEF GuessesInv

\* A wrong guess whose count is not written leaves the row behind by one more.
LEMMA CompareFailsKeeps ==
  ASSUME GuessesInv, NEW g \in guesses, CompareFails(g)
  PROVE  GuessesInv'
<1> DEFINE i == g.code
           wrong == g.seen < MaxFailures /\ g.typed # g.code
<1>1. g.at = "read" /\ g \in CodeGuess /\ i \in 1..MaxAsks /\ MaxFailures \in Nat /\ g \in Reads(i)
      /\ g.seen \in Nat /\ g.seen <= MaxFailures
  BY CodesTyped DEF GuessesInv, CodesTypeOK, CodesDistinct, CompareFails, Reads
<1>2. PICK h \in CodeGuess : /\ h.at # "read" /\ h.n = g.n
                             /\ guesses' = guesses \ {g} \/ guesses' = (guesses \ {g}) \cup {h}
  BY <1>1, GuessAtIs DEF CompareFails
<1>3. UNCHANGED <<serverOnly, codes, asks, accepted, ended, overlapped>>
      /\ tried' = (IF wrong THEN [tried EXCEPT ![i] = @ + 1] ELSE tried)
      /\ uncounted' = (IF wrong THEN uncounted + 1 ELSE uncounted)
  BY DEF CompareFails
<1>4. tried \in [1..MaxAsks -> Nat] /\ accepted \in [1..MaxAsks -> Nat] /\ overlapped \in Nat /\ uncounted \in Nat
      /\ slack \in Nat /\ slack' = (IF wrong THEN slack + 1 ELSE slack)
  BY <1>3 DEF GuessesInv, CodesTypeOK, slack
<1>5. /\ tried' \in [1..MaxAsks -> Nat]
      /\ tried'[i] = (IF wrong THEN tried[i] + 1 ELSE tried[i])
      /\ \A j \in 1..MaxAsks : j # i => tried'[j] = tried[j]
  BY <1>1, <1>3, <1>4
<1>6. slack' \in Nat /\ slack <= slack' /\ uncounted' \in Nat
  BY <1>3, <1>4
<1>7. Reads(i)' = Reads(i) \ {g} /\ \A j : j # i => Reads(j)' = Reads(j)
  BY <1>1, <1>2 DEF Reads
<1>8. CodesTypeOK' /\ CodesDistinct'
  <2>1. guesses' \subseteq CodeGuess /\ IsFiniteSet(guesses')
    <3>1. IsFiniteSet(guesses \ {g}) /\ guesses \subseteq CodeGuess
      BY FS_Subset DEF GuessesInv, CodesTypeOK
    <3>2. IsFiniteSet((guesses \ {g}) \cup {h})
      BY <3>1, FS_AddElement
    <3> QED
      BY <1>2, <3>1, <3>2
  <2>2. CodesTypeOK'
    BY <1>3, <1>5, <1>6, <2>1 DEF GuessesInv, CodesTypeOK, serverOnly
  <2>3. CodesDistinct'
    BY <1>2, <1>3 DEF GuessesInv, CodesDistinct, serverOnly
  <2> QED
    BY <2>2, <2>3
<1>9. GuessesAccounted(i)'
  <2>1. PICK had, has : had = Cardinality(Reads(i)) /\ has = Cardinality(Reads(i)')
    OBVIOUS
  <2>2. had \in Nat /\ has \in Nat /\ has = had - 1
    BY <1>1, <1>7, <2>1, ReadsFinite, FS_RemoveElement, FS_CardinalityType DEF GuessesInv
  <2>3. PICK before, now, lag, lagNow : before = tried[i] /\ now = tried'[i] /\ lag = slack /\ lagNow = slack'
    OBVIOUS
  <2>4. /\ before \in Nat /\ now \in Nat /\ lag \in Nat /\ lagNow \in Nat
        /\ (now = before + 1 /\ lagNow = lag + 1) \/ (now = before /\ lagNow = lag)
    BY <1>1, <1>4, <1>5, <1>6, <2>3
  <2>5. before <= MaxFailures + lag
        /\ (\A k \in Reads(i) : before + had <= k.seen + lag + 1)
        /\ (\A c \in codes : c.id = i => before + had <= c.failed + lag + (IF Reads(i) = {} THEN 0 ELSE 1))
        /\ accepted[i] + had <= 1 + overlapped
        /\ \A c \in codes : c.id = i /\ ~c.used => accepted[i] = 0
    BY <1>1, <2>1, <2>3 DEF GuessesInv, GuessesAccounted
  <2>6. now <= MaxFailures + lagNow
    BY <1>1, <2>4, <2>5
  <2>7. ASSUME NEW k \in Reads(i)
        PROVE  now + has <= k.seen + lagNow + 1
    <3>1. before + had <= k.seen + lag + 1 /\ k.seen \in Nat
      BY <2>5, <2>7, CodesTyped DEF GuessesInv, Reads
    <3> QED
      BY <2>2, <2>4, <3>1
  <2>8. ASSUME NEW c \in codes, c.id = i
        PROVE  now + has <= c.failed + lagNow
    <3>1. before + had <= c.failed + lag + 1 /\ c.failed \in Nat
      BY <1>1, <2>5, <2>8, CodesTyped DEF GuessesInv
    <3> QED
      BY <2>2, <2>4, <3>1
  <2>9. ASSUME NEW c \in codes, c.id = i
        PROVE  now + has <= c.failed + lagNow + (IF Reads(i)' = {} THEN 0 ELSE 1)
    <3>1. c.failed \in Nat
      BY <2>9, CodesTyped DEF GuessesInv
    <3> QED
      BY <2>2, <2>4, <2>8, <2>9, <3>1
  <2>10. accepted[i] + has <= 1 + overlapped
    BY <1>1, <1>4, <2>2, <2>5
  <2> QED
    BY <1>3, <1>7, <2>1, <2>3, <2>5, <2>6, <2>7, <2>9, <2>10 DEF GuessesAccounted
<1>10. ASSUME NEW j \in 1..MaxAsks, j # i
       PROVE  GuessesAccounted(j)'
  <2>1. PICK had, before : had = Cardinality(Reads(j)) /\ before = tried[j]
    OBVIOUS
  <2>2. had \in Nat /\ before \in Nat /\ MaxFailures \in Nat
    BY <1>1, <1>4, <2>1, ReadsFinite DEF GuessesInv
  <2>3. before <= MaxFailures + slack
        /\ (\A k \in Reads(j) : before + had <= k.seen + slack + 1)
        /\ (\A c \in codes : c.id = j => before + had <= c.failed + slack + (IF Reads(j) = {} THEN 0 ELSE 1))
        /\ accepted[j] + had <= 1 + overlapped
        /\ \A c \in codes : c.id = j /\ ~c.used => accepted[j] = 0
    BY <1>10, <2>1 DEF GuessesInv, GuessesAccounted
  <2>4. \A k \in Reads(j) : before + had <= k.seen + slack' + 1
    <3> SUFFICES ASSUME NEW k \in Reads(j)
                 PROVE  before + had <= k.seen + slack' + 1
      OBVIOUS
    <3>1. PICK seen, lag, lagNow : seen = k.seen /\ lag = slack /\ lagNow = slack'
      OBVIOUS
    <3>2. seen \in Nat /\ before + had <= seen + lag + 1
      BY <2>3, <3>1, CodesTyped DEF GuessesInv, Reads
    <3>3. lag \in Nat /\ lagNow \in Nat /\ lag <= lagNow
      BY <1>4, <1>6, <3>1
    <3>4. before + had <= seen + lagNow + 1
      BY ONLY <2>2, <3>2, <3>3
    <3> QED
      BY <3>1, <3>4
  <2>5. \A c \in codes : c.id = j => before + had <= c.failed + slack' + (IF Reads(j) = {} THEN 0 ELSE 1)
    <3> SUFFICES ASSUME NEW c \in codes, c.id = j
                 PROVE  before + had <= c.failed + slack' + (IF Reads(j) = {} THEN 0 ELSE 1)
      OBVIOUS
    <3>1. PICK failed, more, lag, lagNow : /\ failed = c.failed /\ more = (IF Reads(j) = {} THEN 0 ELSE 1)
                                           /\ lag = slack /\ lagNow = slack'
      OBVIOUS
    <3>2. failed \in Nat /\ more \in Nat /\ before + had <= failed + lag + more
      BY <2>3, <3>1, CodesTyped DEF GuessesInv
    <3>3. lag \in Nat /\ lagNow \in Nat /\ lag <= lagNow
      BY <1>4, <1>6, <3>1
    <3>4. before + had <= failed + lagNow + more
      BY ONLY <2>2, <3>2, <3>3
    <3> QED
      BY <3>1, <3>4
  <2>6. before <= MaxFailures + slack'
    BY <1>4, <1>6, <2>2, <2>3
  <2> QED
    BY <1>3, <1>5, <1>7, <1>10, <2>1, <2>3, <2>4, <2>5, <2>6 DEF GuessesAccounted
<1>11. UnbornUntilCreated'
  <2>1. ~Unborn(i)
    BY <1>1 DEF Unborn
  <2>2. ASSUME NEW j \in 1..MaxAsks, Unborn(j)
        PROVE  Unborn(j)'
    BY <1>3, <1>5, <1>7, <2>1, <2>2 DEF Unborn
  <2> QED
    BY <1>3, <2>2 DEF GuessesInv, UnbornUntilCreated, serverOnly
<1>12. ChangeEndsCodes'
  BY <1>3 DEF GuessesInv, ChangeEndsCodes
<1> QED
  BY <1>8, <1>9, <1>10, <1>11, <1>12 DEF GuessesInv

\* The other steps of a guess: it is not one that has read and not compared.
LEMMA GuessMoves ==
  ASSUME GuessesInv, NEW g \in guesses, g.at # "read", NEW h \in CodeGuess, h.n = g.n, h.at # "read",
         guesses' = guesses \ {g} \/ guesses' = (guesses \ {g}) \cup {h},
         UNCHANGED <<codeClock, countdown, asks, asked, guessed, tried, accepted, overlapped, uncounted>>,
         \/ UNCHANGED <<codes, ended>>
         \/ codes' = {[c EXCEPT !.used = TRUE] : c \in codes} /\ ended' = {c.id : c \in codes}
  PROVE  GuessesInv'
<1>1. guesses' \subseteq CodeGuess /\ IsFiniteSet(guesses')
  <2>1. IsFiniteSet(guesses \ {g}) /\ guesses \subseteq CodeGuess
    BY FS_Subset DEF GuessesInv, CodesTypeOK
  <2>2. IsFiniteSet((guesses \ {g}) \cup {h})
    BY <2>1, FS_AddElement
  <2> QED
    BY <2>1, <2>2
<1>2. /\ codes' \subseteq MailedCode
      /\ \A c \in codes' : \E d \in codes : d.id = c.id /\ d.failed = c.failed /\ (d.used => c.used)
      /\ \A c, d \in codes' : c.id = d.id => c = d
  <2>1. CASE UNCHANGED codes
    BY <2>1 DEF GuessesInv, CodesTypeOK, CodesDistinct
  <2>2. CASE codes' = {[c EXCEPT !.used = TRUE] : c \in codes}
    <3> DEFINE after(d) == [d EXCEPT !.used = TRUE]
    <3>1. \A d \in codes : after(d) \in MailedCode /\ after(d).id = d.id /\ after(d).failed = d.failed /\ after(d).used
      BY DEF GuessesInv, CodesTypeOK, MailedCode
    <3>2. codes' = {after(d) : d \in codes}
      BY <2>2
    <3> HIDE DEF after
    <3> QED
      BY <3>1, <3>2 DEF GuessesInv, CodesDistinct
  <2> QED
    BY <2>1, <2>2
<1>3. ended' = ended \/ (ended' = {c.id : c \in codes} /\ \A c \in codes' : c.used)
  BY DEF GuessesInv, CodesTypeOK, MailedCode
<1>4. CodesTypeOK'
  BY <1>1, <1>2 DEF GuessesInv, CodesTypeOK
<1>5. CodesDistinct'
  <2>2. \A k \in guesses' : k.n <= guessed /\ (k.at = "read" => k.code \in 1..MaxAsks)
    BY DEF GuessesInv, CodesDistinct
  <2> QED
    BY <1>2, <2>2 DEF GuessesInv, CodesDistinct
<1>6. \A i : Reads(i)' = Reads(i)
  BY DEF Reads
<1>7. asked \in Nat /\ asked' = asked
  BY CodesTyped DEF GuessesInv
<1> QED
  BY <1>2, <1>3, <1>4, <1>5, <1>6, <1>7, GuessesRest

\* The steps other than those of the page and of a request for a code: they insert no row.
LEMMA CountdownKept ==
  ASSUME CountdownInv, CodesTypeOK, UNCHANGED <<purpose, codeClock, asks, countdown, codeSending, elsewhere, tooFrequent>>,
         codePage' = codePage \/ codePage' # "register", purpose # None \/ UNCHANGED <<codePage, guesses>>,
         codes = {} => codes' = {},
         \A c \in codes' : \E d \in codes : d.id = c.id /\ d.made = c.made
  PROVE  CountdownInv'
<1>1. PageCountsDown'
  <2> SUFFICES ASSUME codePage = "register", ~elsewhere, codePage' = codePage
               PROVE  PageCountsDown'
    BY DEF PageCountsDown
  <2> QED
    BY DEF CountdownInv, PageCountsDown
<1> QED
  BY <1>1 DEF CountdownInv, NothingBefore, CooldownsAgree

LEMMA SendCodeCounts ==
  ASSUME CodesInv, SendCode
  PROVE  CountdownInv'
<1>1. codePage \in {"register", "forgot"} /\ purpose # None
  BY PageAssumption DEF SendCode, CodesInv, NothingBefore
<1>2. PICK q : /\ q = [n |-> asked + 1, at |-> IF AskRefused THEN "refused" ELSE "allowed", mine |-> TRUE]
               /\ asks' = asks \cup {q}
  BY DEF SendCode, Ask
<1>3. q.mine
  BY <1>2
<1>4. UNCHANGED <<purpose, codeClock, codes, codePage, countdown, elsewhere>>
  BY DEF SendCode
<1>5. CASE codePage = "register" /\ ~elsewhere
  <2>1. countdown = 0 /\ ~codeSending /\ codeSending' = TRUE
    BY <1>5 DEF SendCode
  <2>2. asks = {} /\ \A c \in codes : c.made <= codeClock /\ c.made + CodeDelay <= codeClock
    <3>1. asks = {}
      BY <1>5, <2>1 DEF CodesInv, PageCountsDown
    <3>2. \A c \in codes : c.made <= codeClock /\ c.made + CodeDelay <= codeClock + 0
      BY <1>5, <2>1, <3>1 DEF CodesInv, PageCountsDown
    <3>3. codeClock \in Nat
      BY DEF CodesInv, CodesTypeOK
    <3> QED
      BY <3>1, <3>2, <3>3
  <2>3. ~TooSoon
    <3> SUFFICES ASSUME NEW c \in codes, c.made + CodeDelay > codeClock
                 PROVE  FALSE
      BY DEF TooSoon, Latest
    <3>1. c.made \in Nat /\ CodeDelay \in Nat /\ codeClock \in Nat
      BY CodesTyped DEF CodesInv, CodesTypeOK
    <3> QED
      BY <2>2, <3>1
  <2>4. CooldownsAgree'
    BY <2>3 DEF SendCode, Ask, CodesInv, CooldownsAgree
  <2>5. PageCountsDown'
    BY <1>2, <1>3, <1>4, <2>1, <2>2 DEF CodesInv, PageCountsDown
  <2> QED
    BY <1>1, <1>4, <2>4, <2>5 DEF CountdownInv, NothingBefore
<1>6. CASE ~(codePage = "register" /\ ~elsewhere)
  <2>1. CooldownsAgree'
    BY <1>6 DEF SendCode, Ask, CodesInv, CooldownsAgree
  <2> QED
    BY <1>1, <1>4, <1>6, <2>1 DEF CountdownInv, NothingBefore, PageCountsDown
<1> QED
  BY <1>5, <1>6

LEMMA CreateCodeCounts ==
  ASSUME CodesInv, NEW a \in asks, CreateCode(a)
  PROVE  CountdownInv'
<1>1. PICK new : new = [id |-> a.n, made |-> codeClock, failed |-> 0, used |-> FALSE]
  OBVIOUS
<1>2. PICK b : b = [a EXCEPT !.at = "created"]
  OBVIOUS
<1>3. a.at = "allowed" /\ codes' = codes \cup {new} /\ asks' = (asks \ {a}) \cup {b}
      /\ UNCHANGED <<purpose, codeClock, codePage, countdown, codeSending, elsewhere, tooFrequent>>
  BY <1>1, <1>2 DEF CreateCode, AskAt, serverOnly
<1>4. b.n = a.n /\ b.at = "created" /\ b.mine = a.mine /\ new.id = a.n /\ new.made = codeClock /\ codeClock \in Nat
  BY <1>1, <1>2 DEF CodesInv, CodesTypeOK, CodeAsk
<1>5. PageCountsDown'
  <2> SUFFICES ASSUME codePage = "register", ~elsewhere
               PROVE  PageCountsDown'
    BY <1>3 DEF PageCountsDown
  <2>1. asks = {a} /\ a.mine /\ codeSending
    BY DEF CodesInv, PageCountsDown
  <2>2. asks' = {b}
    BY <1>3, <2>1
  <2>3. \A c \in codes : c.made <= codeClock /\ c.made + CodeDelay <= codeClock + countdown
    BY <1>3, <2>1 DEF CodesInv, PageCountsDown
  <2>4. \A c \in codes' : c.made <= codeClock
    BY <1>3, <1>4, <2>3
  <2>5. \A c \in codes' : c.made + CodeDelay <= codeClock + countdown \/ b.n = c.id
    BY <1>3, <1>4, <2>3
  <2> QED
    BY <1>3, <1>4, <2>1, <2>2, <2>4, <2>5 DEF PageCountsDown
<1>6. purpose # None
  BY DEF CodesInv, NothingBefore
<1> QED
  BY <1>3, <1>5, <1>6 DEF CodesInv, CountdownInv, NothingBefore, CooldownsAgree

LEMMA MailCodeCounts ==
  ASSUME CodesInv, NEW a \in asks, NEW fails \in BOOLEAN, NEW cleans \in BOOLEAN, MailCode(a, fails, cleans)
  PROVE  CountdownInv'
<1>1. PICK b : b = [a EXCEPT !.at = IF fails THEN "refused" ELSE "mailed"]
  OBVIOUS
<1>2. asks' = (asks \ {a}) \cup {q \in {b} : a.mine}
      /\ UNCHANGED <<purpose, codeClock, codePage, countdown, codeSending, tooFrequent>>
      /\ elsewhere' = (elsewhere \/ (fails /\ ~cleans))
      /\ codes' \subseteq codes /\ (fails /\ cleans => \A c \in codes' : c.id # a.n)
  <2>1. asks' = (asks \ {a}) \cup {q \in {b} : a.mine}
    BY <1>1 DEF MailCode, AskAt
  <2> QED
    BY <2>1 DEF MailCode, serverOnly
<1>3. b.n = a.n /\ b.mine = a.mine /\ b.at = IF fails THEN "refused" ELSE "mailed"
  BY <1>1 DEF CodesInv, CodesTypeOK, CodeAsk
<1>4. PageCountsDown'
  <2> SUFFICES ASSUME codePage = "register", ~elsewhere, fails => cleans
               PROVE  PageCountsDown'
    BY <1>2 DEF PageCountsDown
  <2>1. asks = {a} /\ a.mine /\ codeSending
    BY DEF CodesInv, PageCountsDown
  <2>2. asks' = {b}
    BY <1>2, <2>1
  <2>3. \A c \in codes : c.made <= codeClock /\ (c.made + CodeDelay <= codeClock + countdown \/ c.id = a.n)
    BY <2>1 DEF CodesInv, PageCountsDown
  <2>4. \A c \in codes' : c.made <= codeClock
                          /\ (c.made + CodeDelay <= codeClock + countdown \/ (b.n = c.id /\ b.at = "mailed"))
    BY <1>2, <1>3, <2>3
  <2> QED
    BY <1>2, <1>3, <2>1, <2>2, <2>4 DEF PageCountsDown
<1>5. purpose # None
  BY DEF CodesInv, NothingBefore
<1> QED
  BY <1>2, <1>4, <1>5 DEF CodesInv, CountdownInv, NothingBefore, CooldownsAgree

LEMMA AskAnsweredCounts ==
  ASSUME CodesInv, NEW a \in asks, NEW lost \in BOOLEAN, AskAnswered(a, lost)
  PROVE  CountdownInv'
<1>1. a.at \in {"refused", "mailed"} /\ asks' = asks \ {a}
      /\ UNCHANGED <<purpose, codeClock, codes, tooFrequent>>
      /\ elsewhere' = (elsewhere \/ (lost /\ a.at = "mailed"))
  BY DEF AskAnswered
<1>2. purpose # None
  BY DEF CodesInv, NothingBefore
<1>3. codePage' = "register" => codePage = "register"
  BY DEF AskAnswered
<1>4. PageCountsDown'
  <2> SUFFICES ASSUME codePage = "register", ~elsewhere, ~(lost /\ a.at = "mailed")
               PROVE  PageCountsDown'
    BY <1>1, <1>3 DEF PageCountsDown
  <2>1. asks = {a}
    BY DEF CodesInv, PageCountsDown
  <2>2. \A c \in codes : c.made <= codeClock
                         /\ (c.made + CodeDelay <= codeClock + countdown \/ (a.n = c.id /\ a.at = "mailed"))
    BY <1>1, <2>1 DEF CodesInv, PageCountsDown
  <2>3. asks' = {}
    BY <1>1, <2>1
  <2>4. CASE a.at = "mailed"
    <3>1. countdown' = CodeDelay
      BY <2>4 DEF AskAnswered
    <3>2. \A c \in codes : c.made \in Nat
      BY CodesTyped DEF CodesInv
    <3>3. CodeDelay \in Nat /\ codeClock \in Nat
      BY CodesTyped DEF CodesInv, CodesTypeOK
    <3>4. \A c \in codes : c.made + CodeDelay <= codeClock + countdown'
      BY <2>2, <3>1, <3>2, <3>3
    <3> QED
      BY <1>1, <2>2, <2>3, <3>4 DEF PageCountsDown
  <2>5. CASE a.at = "refused"
    <3>1. countdown' = countdown
      BY <2>5 DEF AskAnswered
    <3> QED
      BY <1>1, <2>2, <2>3, <2>5, <3>1 DEF PageCountsDown
  <2> QED
    BY <1>1, <2>4, <2>5
<1> QED
  BY <1>1, <1>2, <1>4 DEF CodesInv, CountdownInv, NothingBefore, CooldownsAgree

LEMMA CodeTickCounts ==
  ASSUME CodesInv, CodeTick
  PROVE  CountdownInv'
<1>1. codeClock' = codeClock + 1 /\ countdown' = (IF countdown > 0 THEN countdown - 1 ELSE 0)
      /\ purpose # None /\ UNCHANGED <<purpose, codes, asks, codePage, codeSending, elsewhere, tooFrequent>>
  BY DEF CodeTick
<1>2. codeClock \in Nat /\ countdown \in Nat
  BY DEF CodesInv, CodesTypeOK
<1>3. codeClock <= codeClock' /\ codeClock' \in Nat
  BY <1>1, <1>2
<1>4. \A c \in codes : c.made \in Nat /\ CodeDelay \in Nat
  BY CodesTyped DEF CodesInv
<1>5. PageCountsDown'
  <2> SUFFICES ASSUME codePage = "register", ~elsewhere
               PROVE  PageCountsDown'
    BY <1>1 DEF PageCountsDown
  <2>1. \A c \in codes : c.made <= codeClock'
    BY <1>2, <1>3, <1>4 DEF CodesInv, PageCountsDown
  <2>2. ASSUME NEW c \in codes
        PROVE  \/ c.made + CodeDelay <= codeClock' + countdown'
               \/ \E a \in asks : a.n = c.id /\ a.at \in {"created", "mailed"}
    <3>1. c.made \in Nat /\ CodeDelay \in Nat
      BY <1>4, <2>2
    <3>2. c.made + CodeDelay <= codeClock + countdown => c.made + CodeDelay <= codeClock' + countdown'
      <4>1. CASE countdown > 0
        BY <1>1, <1>2, <3>1, <4>1
      <4>2. CASE countdown = 0
        BY <1>1, <1>2, <3>1, <4>2
      <4> QED
        BY <1>2, <4>1, <4>2
    <3> QED
      BY <2>2, <3>2 DEF CodesInv, PageCountsDown
  <2> QED
    BY <1>1, <2>1, <2>2 DEF CodesInv, PageCountsDown
<1> QED
  BY <1>1, <1>5 DEF CodesInv, CountdownInv, NothingBefore, CooldownsAgree

\* The other steps of a guess: they move no code in time.
LEMMA GuessCounts ==
  ASSUME CodesInv, NEW g \in guesses,
         \/ CompareCode(g) \/ CompareFails(g)
         \/ GuessAnswered(g)
         \/ \E fails \in BOOLEAN : ResetPassword(g, fails) \/ CreateUser(g, fails) \/ ConsumeRest(g, fails)
  PROVE  CountdownInv'
<1>1. CodesTypeOK /\ CountdownInv
  BY DEF CodesInv, CountdownInv
<1>5. purpose # None
  BY DEF CodesInv, NothingBefore
<1>2. ASSUME CompareCode(g)
      PROVE  CountdownInv'
  <2>1. UNCHANGED <<purpose, codeClock, asks, codePage, countdown, codeSending, elsewhere, tooFrequent>>
    BY <1>2 DEF CompareCode, serverOnly
  <2>2. PICK failed, used : Write(g.code, failed, used)
    BY <1>2, Zenon DEF CompareCode, Compare
  <2> DEFINE after(c) == IF c.id = g.code THEN [c EXCEPT !.failed = failed, !.used = c.used \/ used] ELSE c
  <2>3. codes' = {after(c) : c \in codes}
    BY <2>2 DEF Write
  <2>4. \A c \in codes : after(c).id = c.id /\ after(c).made = c.made
    BY <1>1 DEF CodesTypeOK, MailedCode
  <2> HIDE DEF after
  <2> QED
    BY <1>1, <1>5, <2>1, <2>3, <2>4, CountdownKept
<1>3. ASSUME GuessAnswered(g)
      PROVE  CountdownInv'
  <2>1. UNCHANGED <<purpose, codeClock, codes, asks, countdown, codeSending, elsewhere, tooFrequent>>
        /\ (codePage' = codePage \/ codePage' = "left")
    BY <1>3 DEF GuessAnswered
  <2> QED
    BY <1>1, <1>5, <2>1, CountdownKept
<1>4. ASSUME NEW fails \in BOOLEAN,
             CompareFails(g) \/ ResetPassword(g, fails) \/ CreateUser(g, fails) \/ ConsumeRest(g, fails)
      PROVE  CountdownInv'
  <2>1. UNCHANGED <<purpose, codeClock, asks, codePage, countdown, codeSending, elsewhere, tooFrequent>>
    BY <1>4 DEF CompareFails, ResetPassword, CreateUser, ConsumeRest, serverOnly
  <2> DEFINE after(c) == [c EXCEPT !.used = TRUE]
  <2>2. codes' = codes \/ codes' = {after(c) : c \in codes}
    BY <1>4 DEF CompareFails, ResetPassword, CreateUser, ConsumeRest, ConsumeAll
  <2>3. \A c \in codes : after(c).id = c.id /\ after(c).made = c.made
    BY <1>1 DEF CodesTypeOK, MailedCode
  <2> HIDE DEF after
  <2> QED
    BY <1>1, <1>5, <2>1, <2>2, <2>3, CountdownKept
<1> QED
  BY <1>2, <1>3, <1>4

LEMMA CodesInitial ==
  ASSUME CodesInit
  PROVE  CodesInv
<1>1. codes = {} /\ asks = {} /\ guesses = {} /\ asked = 0 /\ overlapped = 0 /\ uncounted = 0
      /\ codePage = None
      /\ codeClock = 0 /\ countdown = 0 /\ guessed = 0 /\ ~tooFrequent /\ ended = {}
      /\ tried = [i \in 1..MaxAsks |-> 0] /\ accepted = [i \in 1..MaxAsks |-> 0]
  BY DEF CodesInit
<1>2. MaxAsks \in Nat /\ MaxFailures \in Nat
  BY CodesAssumption
<1>3. \A i : Reads(i) = {} /\ Cardinality(Reads(i)) = 0
  BY <1>1, FS_EmptySet DEF Reads
<1>4. CodesTypeOK /\ CodesDistinct
  BY <1>1, <1>2, FS_EmptySet DEF CodesTypeOK, CodesDistinct
<1>5. \A i \in 1..MaxAsks : GuessesAccounted(i) /\ Unborn(i)
  BY <1>1, <1>2, <1>3 DEF GuessesAccounted, Unborn, slack
<1>6. PageCountsDown
  BY <1>1 DEF PageCountsDown
<1> QED
  BY <1>1, <1>4, <1>5, <1>6 DEF CodesInv, UnbornUntilCreated, ChangeEndsCodes, NothingBefore, CooldownsAgree

LEMMA CodesStep ==
  ASSUME CodesInv, [CodesNext]_codeVars
  PROVE  CodesInv'
<1>1. GuessesInv /\ CountdownInv /\ CodesTypeOK
  BY DEF CodesInv, GuessesInv, CountdownInv
<1>2. asked \in Nat
  BY <1>1 DEF CodesTypeOK
<1> SUFFICES GuessesInv' /\ CountdownInv'
  BY DEF CodesInv, GuessesInv, CountdownInv
<1>3. ASSUME NEW use \in {"register", "reset"}, OpenCodes(use)
      PROVE  GuessesInv' /\ CountdownInv'
  <2>1. purpose = None /\ purpose' = use /\ codes = {} /\ asks = {}
        /\ UNCHANGED <<codeClock, codes, asks, guesses, countdown, codeSending, asked, guessed, tried, accepted,
                       ended, overlapped, uncounted, elsewhere, tooFrequent>>
    BY <1>3 DEF OpenCodes, CodesInv, NothingBefore
  <2>2. CodesTypeOK' /\ CodesDistinct'
    BY <1>1, <2>1 DEF GuessesInv, CodesTypeOK, CodesDistinct
  <2>3. GuessesInv'
    BY <1>1, <1>2, <2>1, <2>2, GuessesRest DEF Reads
  <2>4. codes' = {} /\ asks' = {} /\ purpose' # None
    BY <2>1, PageAssumption
  <2>5. CountdownInv'
    BY <1>1, <2>1, <2>4 DEF CountdownInv, PageCountsDown, NothingBefore, CooldownsAgree
  <2> QED
    BY <2>3, <2>5
<1>4. ASSUME SendCode
      PROVE  GuessesInv' /\ CountdownInv'
  <2>1. Ask(TRUE) /\ UNCHANGED <<codeClock, countdown, codes, guesses, guessed, tried, accepted, ended, overlapped, uncounted>>
    BY <1>4 DEF SendCode
  <2> QED
    BY <1>1, <1>4, <2>1, AskKeepsGuesses, SendCodeCounts
<1>5. ASSUME AskElsewhere
      PROVE  GuessesInv' /\ CountdownInv'
  <2>1. Ask(FALSE) /\ UNCHANGED <<codeClock, countdown, codes, guesses, guessed, tried, accepted, ended, overlapped, uncounted>>
    BY <1>5 DEF AskElsewhere
  <2>2. elsewhere' /\ purpose' # None /\ ~tooFrequent'
    BY <1>1, <1>5, Zenon DEF AskElsewhere, Ask, CountdownInv, CooldownsAgree
  <2>3. CountdownInv'
    BY <1>1, <2>2 DEF CountdownInv, PageCountsDown, NothingBefore, CooldownsAgree
  <2> QED
    BY <1>1, <2>1, <2>3, AskKeepsGuesses
<1>6. ASSUME NEW code \in 0..asked, SubmitCode(code) \/ GuessElsewhere(code)
      PROVE  GuessesInv' /\ CountdownInv'
  <2>1. PICK mine \in BOOLEAN : Guess(code, mine)
    BY <1>6 DEF SubmitCode, GuessElsewhere
  <2>2. code \in Nat
    BY <1>2
  <2>3. UNCHANGED <<purpose, codeClock, codes, asks, codePage, countdown, codeSending, asked, tried, accepted,
                    ended, uncounted, elsewhere, tooFrequent>>
    BY <1>6 DEF SubmitCode, GuessElsewhere
  <2>4. GuessesInv'
    BY <1>1, <2>1, <2>2, <2>3, GuessKeeps
  <2>5. purpose # None
    BY <1>1, <1>6, PageAssumption DEF SubmitCode, GuessElsewhere, CountdownInv, NothingBefore
  <2>6. CountdownInv'
    BY <1>1, <2>3, <2>5, CountdownKept
  <2> QED
    BY <2>4, <2>6
<1>7. ASSUME CodeTick
      PROVE  GuessesInv' /\ CountdownInv'
  <2>1. UNCHANGED <<codes, asks, guesses, asked, guessed, tried, accepted, ended, overlapped, uncounted>>
        /\ codeClock' = codeClock + 1 /\ countdown' = (IF countdown > 0 THEN countdown - 1 ELSE 0)
    BY <1>7 DEF CodeTick
  <2>2. codeClock' \in Nat /\ countdown' \in Nat
    BY <1>1, <2>1 DEF CodesTypeOK
  <2>3. CodesTypeOK' /\ CodesDistinct'
    BY <1>1, <2>1, <2>2 DEF GuessesInv, CodesTypeOK, CodesDistinct
  <2> QED
    BY <1>1, <1>2, <1>7, <2>1, <2>3, GuessesRest, CodeTickCounts DEF Reads
<1>8. ASSUME NEW a \in asks,
             CreateCode(a) \/ \E b \in BOOLEAN : AskAnswered(a, b) \/ \E cleans \in BOOLEAN : MailCode(a, b, cleans)
      PROVE  GuessesInv' /\ CountdownInv'
  BY <1>1, <1>8, CreateCodeKeeps, CreateCodeCounts, MailCodeKeeps, MailCodeCounts, AskAnsweredKeeps, AskAnsweredCounts
<1>9. ASSUME NEW g \in guesses, CompareCode(g) \/ CompareFails(g)
      PROVE  GuessesInv' /\ CountdownInv'
  BY <1>1, <1>9, CompareKeeps, CompareFailsKeeps, GuessCounts
<1>10. ASSUME NEW g \in guesses, GuessAnswered(g)
       PROVE  GuessesInv' /\ CountdownInv'
  <2>1. g.at # "read" /\ g \in CodeGuess /\ guesses' = guesses \ {g}
        /\ UNCHANGED <<codeClock, codes, asks, countdown, asked, guessed, tried, accepted, ended, overlapped, uncounted>>
    BY <1>1, <1>10 DEF GuessAnswered, CodesTypeOK
  <2>2. GuessesInv'
    BY <1>1, <2>1, GuessMoves
  <2> QED
    BY <1>10, <2>2, GuessCounts
<1>11. ASSUME NEW g \in guesses, NEW b \in BOOLEAN,
             ResetPassword(g, b) \/ CreateUser(g, b) \/ ConsumeRest(g, b)
       PROVE  GuessesInv' /\ CountdownInv'
  <2>1. PICK at \in {"rejected", "spent", "registered", "changed"} : GuessAt(g, at)
    BY <1>11 DEF ResetPassword, CreateUser, ConsumeRest
  <2>2. g.at # "read" /\ g \in CodeGuess
        /\ UNCHANGED <<codeClock, countdown, asks, asked, guessed, tried, accepted, overlapped, uncounted>>
        /\ (UNCHANGED <<codes, ended>> \/ ConsumeAll)
    BY <1>1, <1>11 DEF ResetPassword, CreateUser, ConsumeRest, CodesTypeOK, serverOnly
  <2>3. PICK h \in CodeGuess : /\ h.at # "read" /\ h.n = g.n
                               /\ guesses' = guesses \ {g} \/ guesses' = (guesses \ {g}) \cup {h}
    BY <2>1, <2>2, GuessAtIs
  <2>4. GuessesInv'
    BY <1>1, <2>2, <2>3, GuessMoves DEF ConsumeAll
  <2> QED
    BY <1>11, <2>4, GuessCounts
<1>12. ASSUME UNCHANGED codeVars
       PROVE  GuessesInv' /\ CountdownInv'
  <2>1. UNCHANGED <<purpose, codeClock, codes, asks, guesses, codePage, countdown, codeSending, asked, guessed,
                    tried, accepted, ended, overlapped, uncounted, elsewhere, tooFrequent>>
    BY <1>12 DEF codeVars
  <2>2. CodesTypeOK' /\ CodesDistinct'
    BY <1>1, <2>1 DEF GuessesInv, CodesTypeOK, CodesDistinct
  <2> QED
    BY <1>1, <1>2, <2>1, <2>2, GuessesRest, CountdownKept DEF Reads
<1> QED
  BY <1>3, <1>4, <1>5, <1>6, <1>7, <1>8, <1>9, <1>10, <1>11, <1>12 DEF CodesNext

THEOREM CodesInvariant == CodesSpec => []CodesInv
<1>1. CodesInit => CodesInv
  BY CodesInitial
<1>2. CodesInv /\ [CodesNext]_codeVars => CodesInv'
  BY CodesStep
<1> QED
  BY <1>1, <1>2, PTL DEF CodesSpec

\* However many guesses overlap and whichever statement fails, a code takes at most MaxFailures
\* wrong guesses, one more for each overlap and for each guess whose count could not be written,
\* and one right one, one more for each overlap; a statement that ends the codes at an account
\* change ends every code before it; and a request that the register page sends when its
\* countdown has run out is not refused as too frequent.
THEOREM CodesKeepTheirWorth == CodesSpec => []CodesHold
<1>1. CodesInv => CodesHold
  <2> SUFFICES ASSUME CodesInv
               PROVE  CodesHold
    OBVIOUS
  <2>1. ASSUME NEW i \in 1..MaxAsks
        PROVE  tried[i] <= MaxFailures + overlapped + uncounted /\ accepted[i] <= 1 + overlapped
    <3>1. Cardinality(Reads(i)) \in Nat
      BY ReadsFinite DEF CodesInv
    <3>2. accepted[i] \in Nat /\ overlapped \in Nat /\ uncounted \in Nat /\ MaxFailures \in Nat
      BY <2>1, CodesTyped DEF CodesInv, CodesTypeOK
    <3>3. tried[i] <= MaxFailures + (overlapped + uncounted) /\ accepted[i] + Cardinality(Reads(i)) <= 1 + overlapped
      BY <2>1 DEF CodesInv, GuessesAccounted, slack
    <3> QED
      BY <3>1, <3>2, <3>3
  <2> QED
    BY <2>1 DEF CodesInv, CodesHold, GuessesBounded
<1> QED
  BY <1>1, CodesInvariant, PTL
-----------------------------------------------------------------------------
(* TwoFactor: the secret in force, its codes, and what the section shows. *)

TotpSpec == TotpInit /\ [][TotpNext]_totpVars

Worth == {None} \cup (Nat \X Int)    \* a secret, a backup code or nothing

TotpAsk == [n : Nat, op : {"setup", "me"} \cup Changes, what : Worth,
            at : {"sent", "refused", "set", "done", "found"} \cup Working, left : Int, answer : Worth]

TotpTypeOK ==
    /\ secret \in Worth /\ pendingSecret \in Worth /\ qrSecret \in Worth
    /\ codesHeld \subseteq Nat \X Int /\ totpReqs \subseteq TotpAsk
    /\ totpOpen \in BOOLEAN /\ verifying \in BOOLEAN /\ disabling \in BOOLEAN /\ totpShown \in BOOLEAN
    /\ totpStep \in {"qr", "backup"}
    /\ totpSends \in Nat /\ faults \in Nat /\ secretsMade \in Nat
    /\ faults <= MaxFaults
    /\ totpAway \in BOOLEAN /\ replaced \in BOOLEAN /\ totpCrossed \in BOOLEAN

\* The request that changes the second factor is alone, unless some crossed.
ChangesAlone == ~totpCrossed => \A p, q \in totpReqs : p.op \in Changes /\ q.op \in Changes => p = q

\* Where each kind of request gets to.
StagesOfAsks ==
    \A q \in totpReqs :
       /\ q.at \in {"set", "clear", "insert"} => q.op = "confirm" /\ q.what \in (Nat \X Int) \ {None}
       /\ q.at \in {"off", "forget"} => q.op = "disable"
       /\ q.at = "found" => q.op = "use"
       /\ q.op = "me" => q.at \in {"sent", "done"}

\* The codes between the statements of an enabling or a disabling.
CodesBetween ==
    ~totpCrossed /\ ~(replaced /\ faults > 0) =>
        /\ secret # None => \/ \A c \in codesHeld : c[1] = secret[1]
                            \/ \E q \in totpReqs : q.at = "clear"
        /\ secret = None => codesHeld = {} \/ faults > 0 \/ \E q \in totpReqs : q.at = "forget"
        /\ \A q \in totpReqs : q.at \in {"clear", "insert"} => secret = q.what
        /\ \A q \in totpReqs : q.at = "clear" /\ faults = 0 /\ ~replaced => codesHeld = {}

\* A set-up under way is the dialog's; until the user is fetched after a change, the section
\* need not show it, and one that does show it is not about to be told otherwise.
ChangeUnderWay ==
    \/ \E q \in totpReqs : q.op = "confirm" /\ q.at \in {"clear", "insert", "done"}
    \/ totpOpen /\ totpStep = "backup"
    \/ \E q \in totpReqs : q.op = "disable" /\ q.at \in {"forget", "done"}
    \/ \E q \in totpReqs : q.op = "me" /\ q.at = "sent"

Told(q) == q.op = "me" /\ q.at = "done"

SectionFollows ==
    ~totpAway /\ ~totpCrossed =>
        /\ \A q \in totpReqs : q.op = "confirm" => totpOpen /\ verifying /\ totpStep = "qr"
        /\ \A p, q \in totpReqs : p.op = "me" /\ q.op = "me" => p = q
        /\ \/ ChangeUnderWay
           \/ /\ \A q \in totpReqs : Told(q) => ((q.answer # None) <=> (secret # None))
              /\ totpShown = (secret # None) \/ \E q \in totpReqs : Told(q)

TotpInv == TotpTypeOK /\ StagesOfAsks /\ ChangesAlone /\ CodesBetween /\ SectionFollows

LEMMA TotpInitial ==
  ASSUME TotpInit
  PROVE  TotpInv
<1>1. TotpTypeOK
  <2>1. 0 \in Nat /\ 0 <= MaxFaults
    BY TotpAssumption
  <2> QED
    BY <2>1 DEF TotpInit, TotpTypeOK, Worth
<1>2. StagesOfAsks /\ ChangesAlone
  BY DEF TotpInit, StagesOfAsks, ChangesAlone
<1>3. CodesBetween
  BY DEF TotpInit, CodesBetween
<1>4. SectionFollows
  BY DEF TotpInit, SectionFollows, Told
<1> QED
  BY <1>1, <1>2, <1>3, <1>4 DEF TotpInv

\* While none crossed, a request that changes the second factor leaves the others to be of other kinds.
LEMMA OnlyChange ==
  ASSUME TotpInv, ~totpCrossed, NEW q \in totpReqs, q.op \in Changes
  PROVE  \A p \in totpReqs \ {q} : /\ p.op \notin Changes
                                   /\ p.at \notin {"set", "clear", "insert", "off", "forget", "found"}
BY DEF TotpInv, ChangesAlone, StagesOfAsks, Changes

\* A request of the page or of a sign-in is added to those under way.
LEMMA AskAdds ==
  ASSUME TotpInv, NEW op \in {"setup", "me"} \cup Changes, NEW what \in Worth, Ask2FA(op, what)
  PROVE  \E r \in TotpAsk :
            /\ r.op = op /\ r.what = what /\ r.at = "sent"
            /\ totpReqs' = totpReqs \cup {r} /\ totpReqs' \subseteq TotpAsk
            /\ totpSends' \in Nat /\ totpCrossed' \in BOOLEAN
            /\ totpCrossed' = (totpCrossed \/ (op \in Changes /\ \E q \in totpReqs : q.op \in Changes))
            /\ StagesOfAsks' /\ ChangesAlone'
<1> DEFINE r == [n |-> totpSends + 1, op |-> op, what |-> what, at |-> "sent", left |-> 0, answer |-> None]
<1>1. r \in TotpAsk
  BY DEF TotpInv, TotpTypeOK, TotpAsk, Worth
<1>2. r.op = op /\ r.what = what /\ r.at = "sent"
  OBVIOUS
<1>3. /\ totpReqs' = totpReqs \cup {r} /\ totpSends' = totpSends + 1
      /\ totpCrossed' = (totpCrossed \/ (op \in Changes /\ \E q \in totpReqs : q.op \in Changes))
  BY DEF Ask2FA
<1> HIDE DEF r
<1>4. totpReqs' \subseteq TotpAsk /\ totpSends' \in Nat
  BY <1>1, <1>3 DEF TotpInv, TotpTypeOK
<1>5. totpCrossed' \in BOOLEAN
  BY <1>3
<1>6. StagesOfAsks'
  BY <1>2, <1>3 DEF TotpInv, StagesOfAsks
<1>7. ChangesAlone'
  BY <1>2, <1>3 DEF TotpInv, ChangesAlone
<1> QED
  BY <1>1, <1>2, <1>3, <1>4, <1>5, <1>6, <1>7

\* What the server does with a request moves it to its next stage.
LEMMA StageMoves ==
  ASSUME TotpInv, NEW q \in totpReqs, NEW r \in TotpAsk, r.op = q.op,
         totpReqs' = (totpReqs \ {q}) \cup {r}, totpCrossed' = totpCrossed,
         r.at \in {"set", "clear", "insert"} => r.op = "confirm" /\ r.what \in (Nat \X Int) \ {None},
         r.at \in {"off", "forget"} => r.op = "disable",
         r.at = "found" => r.op = "use",
         r.op = "me" => r.at \in {"sent", "done"}
  PROVE  totpReqs' \subseteq TotpAsk /\ StagesOfAsks' /\ ChangesAlone'
<1>1. totpReqs' \subseteq TotpAsk
  BY DEF TotpInv, TotpTypeOK
<1>2. StagesOfAsks'
  BY DEF TotpInv, StagesOfAsks
<1>3. ChangesAlone'
  BY DEF TotpInv, ChangesAlone
<1> QED
  BY <1>1, <1>2, <1>3

\* A stage that neither changes what the section follows nor ends a change.
LEMMA SectionKept ==
  ASSUME TotpInv, NEW q \in totpReqs, NEW r, r.op = q.op,
         totpReqs' = (totpReqs \ {q}) \cup {r},
         UNCHANGED <<secret, totpOpen, totpStep, verifying, totpShown, totpAway, totpCrossed>>,
         q.op = "me" => r = q,
         q.op = "confirm" /\ q.at \in {"clear", "insert", "done"} => r.at \in {"clear", "insert", "done"},
         q.op = "disable" /\ q.at \in {"forget", "done"} => r.at \in {"forget", "done"}
  PROVE  SectionFollows'
<1> SUFFICES ASSUME ~totpAway, ~totpCrossed
             PROVE  SectionFollows'
  BY DEF SectionFollows
<1>1. /\ \A p \in totpReqs' : p.op = "confirm" => totpOpen' /\ verifying' /\ totpStep' = "qr"
      /\ \A p, s \in totpReqs' : p.op = "me" /\ s.op = "me" => p = s
  BY DEF TotpInv, SectionFollows
<1>2. ChangeUnderWay => ChangeUnderWay'
  BY DEF ChangeUnderWay
<1>3. \A p \in totpReqs' : Told(p)' => p \in totpReqs /\ Told(p)
  BY DEF Told
<1>4. \A p \in totpReqs : Told(p) => p \in totpReqs' /\ Told(p)'
  BY DEF Told
<1> QED
  BY <1>1, <1>2, <1>3, <1>4 DEF TotpInv, SectionFollows

\* A stage that leaves secret and codes alone, and is none of those between which they disagree.
LEMMA CodesKept ==
  ASSUME TotpInv, NEW q \in totpReqs, NEW r,
         totpReqs' = (totpReqs \ {q}) \cup {r},
         UNCHANGED <<secret, faults, replaced, totpCrossed>>,
         codesHeld' \subseteq codesHeld,
         q.at \notin {"clear", "forget"}, r.at \notin {"clear", "insert"}
  PROVE  CodesBetween'
BY DEF TotpInv, CodesBetween

\* The page and the sign-in elsewhere: requests are added, and what is shown is put away.
LEMMA AskKeepsTotp ==
  ASSUME TotpInv, NEW op \in {"setup", "me"} \cup Changes, NEW what \in Worth, Ask2FA(op, what),
         UNCHANGED <<totpServer, faults, replaced, secretsMade, qrSecret, totpShown>>,
         totpOpen' \in BOOLEAN, verifying' \in BOOLEAN, disabling' \in BOOLEAN,
         totpStep' \in {"qr", "backup"}, totpAway' \in BOOLEAN
  PROVE  TotpTypeOK' /\ StagesOfAsks' /\ ChangesAlone' /\ CodesBetween'
<1>1. PICK r \in TotpAsk :
            /\ r.op = op /\ r.what = what /\ r.at = "sent"
            /\ totpReqs' = totpReqs \cup {r} /\ totpReqs' \subseteq TotpAsk
            /\ totpSends' \in Nat /\ totpCrossed' \in BOOLEAN
            /\ totpCrossed' = (totpCrossed \/ (op \in Changes /\ \E q \in totpReqs : q.op \in Changes))
            /\ StagesOfAsks' /\ ChangesAlone'
  BY AskAdds
<1>2. TotpTypeOK'
  BY <1>1 DEF TotpInv, TotpTypeOK, totpServer
<1>3. totpCrossed => totpCrossed'
  BY <1>1
<1>4. CodesBetween'
  BY <1>1, <1>3 DEF TotpInv, CodesBetween, totpServer
<1> QED
  BY <1>1, <1>2, <1>4

LEMMA PageSteps ==
  ASSUME TotpInv,
         OpenTotpSetup \/ CloseTotpSetup \/ VerifySetup \/ FinishSetup \/ ReopenSettings \/ SendDisable
         \/ SignInWithCode
  PROVE  TotpInv'
<1> USE DEF totpServer, totpPage
<1>0. /\ None \in Worth /\ qrSecret \in Worth /\ secret \in Worth /\ \A c \in codesHeld : c \in Worth
      /\ totpAway \in BOOLEAN
  BY DEF TotpInv, TotpTypeOK, Worth
<1>1. CASE OpenTotpSetup
  <2>1. /\ ~totpOpen /\ totpOpen' = TRUE /\ totpStep' = "qr" /\ Ask2FA("setup", None)
        /\ UNCHANGED <<totpServer, verifying, disabling, totpShown, faults, secretsMade, totpAway, replaced>>
        /\ qrSecret' \in Worth
    BY <1>0, <1>1 DEF OpenTotpSetup
  <2>2. PICK r \in TotpAsk :
            /\ r.op = "setup" /\ r.at = "sent"
            /\ totpReqs' = totpReqs \cup {r} /\ totpReqs' \subseteq TotpAsk
            /\ totpSends' \in Nat
            /\ totpCrossed' = (totpCrossed \/ ("setup" \in Changes /\ \E q \in totpReqs : q.op \in Changes))
            /\ StagesOfAsks' /\ ChangesAlone'
    BY <1>0, <2>1, AskAdds
  <2>3. totpCrossed' = totpCrossed
    BY <2>2 DEF Changes, TotpInv, TotpTypeOK
  <2>4. TotpTypeOK'
    BY <2>1, <2>2, <2>3 DEF TotpInv, TotpTypeOK
  <2>5. CodesBetween'
    BY <2>1, <2>2, <2>3 DEF TotpInv, CodesBetween
  <2>6. SectionFollows'
    <3>1. SectionFollows
      BY DEF TotpInv
    <3>2. ChangeUnderWay => ChangeUnderWay'
      BY <2>1, <2>2 DEF ChangeUnderWay
    <3>3. \A p \in totpReqs' : Told(p)' => p \in totpReqs /\ Told(p)
      BY <2>2 DEF Told
    <3>4. \A p \in totpReqs : Told(p) => p \in totpReqs' /\ Told(p)'
      BY <2>2 DEF Told
    <3>5. \A p \in totpReqs' : p.op \in {"confirm", "me"} => p \in totpReqs
      BY <2>2
    <3> QED
      BY <2>1, <2>3, <3>1, <3>2, <3>3, <3>4, <3>5 DEF SectionFollows
  <2> QED
    BY <2>2, <2>4, <2>5, <2>6 DEF TotpInv
<1>2. CASE CloseTotpSetup
  <2>1. TotpTypeOK' /\ StagesOfAsks' /\ ChangesAlone' /\ CodesBetween'
    BY <1>2 DEF CloseTotpSetup, TotpInv, TotpTypeOK, StagesOfAsks, ChangesAlone, CodesBetween
  <2>2. SectionFollows'
    BY <1>0, <1>2 DEF CloseTotpSetup, TotpInv, SectionFollows, ChangeUnderWay, Told
  <2> QED
    BY <2>1, <2>2 DEF TotpInv
<1>3. CASE VerifySetup
  <2>1. /\ totpOpen /\ totpStep = "qr" /\ verifying' = TRUE /\ Ask2FA("confirm", qrSecret)
        /\ UNCHANGED <<totpServer, totpOpen, totpStep, qrSecret, disabling, totpShown, faults, secretsMade,
                       totpAway, replaced>>
    BY <1>3 DEF VerifySetup
  <2>2. "confirm" \in {"setup", "me"} \cup Changes
    BY DEF Changes
  <2>3. PICK r \in TotpAsk :
            /\ r.op = "confirm" /\ r.at = "sent"
            /\ totpReqs' = totpReqs \cup {r}
            /\ totpCrossed' = (totpCrossed \/ ("confirm" \in Changes /\ \E q \in totpReqs : q.op \in Changes))
    BY <1>0, <2>1, <2>2, AskAdds
  <2>4. TotpTypeOK' /\ StagesOfAsks' /\ ChangesAlone' /\ CodesBetween'
    BY <1>0, <2>1, <2>2, AskKeepsTotp DEF TotpInv, TotpTypeOK
  <2>5. SectionFollows'
    <3> SUFFICES ASSUME ~totpAway, ~totpCrossed
                 PROVE  SectionFollows'
      BY <2>1, <2>3 DEF SectionFollows
    <3>1. ChangeUnderWay => ChangeUnderWay'
      BY <2>1, <2>3 DEF ChangeUnderWay
    <3>2. \A p \in totpReqs' : Told(p)' => p \in totpReqs /\ Told(p)
      BY <2>3 DEF Told
    <3>3. \A p \in totpReqs : Told(p) => p \in totpReqs' /\ Told(p)'
      BY <2>3 DEF Told
    <3>4. \A p, s \in totpReqs' : p.op = "me" /\ s.op = "me" => p = s
      BY <2>3 DEF TotpInv, SectionFollows
    <3>5. totpOpen' /\ verifying' /\ totpStep' = "qr"
      BY <2>1
    <3> QED
      BY <2>1, <3>1, <3>2, <3>3, <3>4, <3>5 DEF TotpInv, SectionFollows
  <2> QED
    BY <2>4, <2>5 DEF TotpInv
<1>4. CASE FinishSetup
  <2>1. /\ totpOpen /\ totpStep = "backup" /\ totpOpen' = FALSE /\ Ask2FA("me", None)
        /\ totpAway' = (totpAway \/ FetchingUser)
        /\ UNCHANGED <<totpServer, totpStep, qrSecret, verifying, disabling, totpShown, faults, secretsMade,
                       replaced>>
    BY <1>4 DEF FinishSetup
  <2>2. PICK r \in TotpAsk :
            /\ r.op = "me" /\ r.at = "sent"
            /\ totpReqs' = totpReqs \cup {r}
            /\ totpCrossed' = (totpCrossed \/ ("me" \in Changes /\ \E q \in totpReqs : q.op \in Changes))
    BY <1>0, <2>1, AskAdds
  <2>3. totpAway' \in BOOLEAN
    BY <2>1
  <2>4. TotpTypeOK' /\ StagesOfAsks' /\ ChangesAlone' /\ CodesBetween'
    BY <1>0, <2>1, <2>3, AskKeepsTotp DEF TotpInv, TotpTypeOK
  <2>5. SectionFollows'
    <3> SUFFICES ASSUME ~totpAway, ~totpCrossed, ~FetchingUser
                 PROVE  SectionFollows'
      BY <2>1, <2>2 DEF SectionFollows
    <3>1. \A q \in totpReqs : q.op # "confirm"
      BY <2>1 DEF TotpInv, SectionFollows
    <3>2. ChangeUnderWay'
      BY <2>2 DEF ChangeUnderWay
    <3> QED
      BY <2>2, <3>1, <3>2 DEF SectionFollows, FetchingUser
  <2> QED
    BY <2>4, <2>5 DEF TotpInv
<1>5. CASE ReopenSettings
  <2>1. TotpTypeOK' /\ StagesOfAsks' /\ ChangesAlone' /\ CodesBetween'
    BY <1>5 DEF ReopenSettings, TotpInv, TotpTypeOK, StagesOfAsks, ChangesAlone, CodesBetween
  <2>2. SectionFollows'
    BY <1>5 DEF ReopenSettings, SectionFollows
  <2> QED
    BY <2>1, <2>2 DEF TotpInv
<1>6. CASE SendDisable \/ SignInWithCode
  <2>1. PICK op \in {"disable", "use"}, what \in codesHeld \cup {secret} : Ask2FA(op, what)
    BY <1>6 DEF SendDisable, SignInWithCode
  <2>2. /\ UNCHANGED <<totpServer, totpOpen, totpStep, qrSecret, verifying, totpShown, faults, secretsMade,
                       totpAway, replaced>>
        /\ disabling' \in BOOLEAN
    BY <1>6 DEF SendDisable, SignInWithCode, TotpInv, TotpTypeOK
  <2>3. op \in {"setup", "me"} \cup Changes /\ what \in Worth
    BY <1>0 DEF Changes
  <2>4. PICK r \in TotpAsk :
            /\ r.op = op /\ r.at = "sent"
            /\ totpReqs' = totpReqs \cup {r}
            /\ totpCrossed' = (totpCrossed \/ (op \in Changes /\ \E q \in totpReqs : q.op \in Changes))
    BY <2>1, <2>3, AskAdds
  <2>5. TotpTypeOK' /\ StagesOfAsks' /\ ChangesAlone' /\ CodesBetween'
    BY <1>0, <2>1, <2>2, <2>3, AskKeepsTotp DEF TotpInv, TotpTypeOK
  <2>6. SectionFollows'
    <3> SUFFICES ASSUME ~totpAway, ~totpCrossed
                 PROVE  SectionFollows'
      BY <2>2, <2>4 DEF SectionFollows
    <3>1. ChangeUnderWay => ChangeUnderWay'
      BY <2>2, <2>4 DEF ChangeUnderWay
    <3>2. \A p \in totpReqs' : Told(p)' => p \in totpReqs /\ Told(p)
      BY <2>4 DEF Told
    <3>3. \A p \in totpReqs : Told(p) => p \in totpReqs' /\ Told(p)'
      BY <2>4 DEF Told
    <3>4. \A p \in totpReqs' : p.op \in {"confirm", "me"} => p \in totpReqs
      BY <2>1, <2>4
    <3> QED
      BY <2>2, <3>1, <3>2, <3>3, <3>4 DEF TotpInv, SectionFollows
  <2> QED
    BY <2>5, <2>6 DEF TotpInv
<1> QED
  BY <1>1, <1>2, <1>3, <1>4, <1>5, <1>6

\* The fields of a request.
LEMMA AskTyped ==
  ASSUME TotpInv, NEW q \in totpReqs
  PROVE  /\ q \in TotpAsk /\ q.n \in Nat /\ q.op \in {"setup", "me"} \cup Changes /\ q.what \in Worth
         /\ q.at \in {"sent", "refused", "set", "done", "found"} \cup Working /\ q.left \in Int
         /\ q.answer \in Worth
         /\ \A at \in {"sent", "refused", "set", "done", "found"} \cup Working : [q EXCEPT !.at = at] \in TotpAsk
BY DEF TotpInv, TotpTypeOK, TotpAsk

LEMMA ServerSetsUp ==
  ASSUME TotpInv, NEW q \in totpReqs, GenerateSetup(q) \/ ReadSetup(q)
  PROVE  TotpInv'
<1> USE DEF totpServer, totpPage
<1>0. /\ q \in TotpAsk /\ pendingSecret \in Worth
      /\ \A at \in {"set", "refused"} : [q EXCEPT !.at = at] \in TotpAsk
  BY AskTyped DEF TotpInv, TotpTypeOK
<1>1. CASE GenerateSetup(q)
  <2> DEFINE new == Secret2FA(secretsMade + 1)
             r == [q EXCEPT !.at = "done", !.answer = new]
  <2>1. new \in Worth /\ secretsMade + 1 \in Nat
    BY DEF Secret2FA, Worth, TotpInv, TotpTypeOK
  <2>2. /\ q.op = "setup" /\ q.at = "sent" /\ totpReqs' = (totpReqs \ {q}) \cup {r}
        /\ pendingSecret' = new /\ secretsMade' = secretsMade + 1
        /\ UNCHANGED <<secret, codesHeld, totpPage, totpSends, faults, totpAway, replaced, totpCrossed>>
    BY <1>1 DEF GenerateSetup
  <2> HIDE DEF new
  <2>3. r \in TotpAsk /\ r.op = q.op /\ r.at = "done" /\ r.op = "setup"
    BY <1>0, <2>1, <2>2 DEF TotpAsk
  <2> HIDE DEF r
  <2>4. totpReqs' \subseteq TotpAsk /\ StagesOfAsks' /\ ChangesAlone'
    BY <2>2, <2>3, StageMoves
  <2>5. TotpTypeOK'
    BY <2>1, <2>2, <2>4 DEF TotpInv, TotpTypeOK
  <2>6. CodesBetween'
    BY <2>2, <2>3, CodesKept
  <2>7. SectionFollows'
    BY <2>2, <2>3, SectionKept
  <2> QED
    BY <2>4, <2>5, <2>6, <2>7 DEF TotpInv
<1>2. CASE ReadSetup(q)
  <2>1. PICK at \in {"set", "refused"} : TotpAt(q, at) /\ (at = "set" => q.what = pendingSecret /\ pendingSecret # None)
    BY <1>2 DEF ReadSetup
  <2> DEFINE r == [q EXCEPT !.at = at]
  <2>2. /\ q.op = "confirm" /\ q.at = "sent" /\ totpReqs' = (totpReqs \ {q}) \cup {r}
        /\ UNCHANGED <<totpServer, totpPage, totpSends, faults, secretsMade, totpAway, replaced, totpCrossed>>
    BY <1>2, <2>1 DEF ReadSetup, TotpAt
  <2>3. r \in TotpAsk /\ r.op = q.op /\ r.what = q.what /\ r.at = at
    BY <1>0, <2>1 DEF TotpAsk
  <2>4. at = "set" => q.what \in (Nat \X Int) \ {None}
    BY <1>0, <2>1 DEF Worth
  <2> HIDE DEF r
  <2>5. totpReqs' \subseteq TotpAsk /\ StagesOfAsks' /\ ChangesAlone'
    BY <2>1, <2>2, <2>3, <2>4, StageMoves
  <2>6. TotpTypeOK'
    BY <2>2, <2>5 DEF TotpInv, TotpTypeOK
  <2>7. CodesBetween'
    BY <2>1, <2>2, <2>3, CodesKept
  <2>8. SectionFollows'
    BY <2>2, <2>3, SectionKept
  <2> QED
    BY <2>5, <2>6, <2>7, <2>8 DEF TotpInv
<1> QED
  BY <1>1, <1>2

\* The statements of an enabling.
LEMMA ServerEnables ==
  ASSUME TotpInv, NEW q \in totpReqs, EnableSecret(q) \/ ClearCodes(q) \/ InsertCode(q)
  PROVE  TotpInv'
<1> USE DEF totpServer, totpPage
<1>0. /\ q \in TotpAsk /\ q.op = "confirm" /\ q.what \in (Nat \X Int) \ {None} /\ q.left \in Int
      /\ [q EXCEPT !.at = "clear"] \in TotpAsk /\ q.op \in Changes
      /\ (~totpCrossed => \A p \in totpReqs \ {q} : /\ p.op \notin Changes
                                   /\ p.at \notin {"set", "clear", "insert", "off", "forget", "found"})
  <2>1. q.op = "confirm" /\ q.what \in (Nat \X Int) \ {None}
    BY DEF TotpInv, StagesOfAsks, EnableSecret, ClearCodes, InsertCode
  <2>2. q.op \in Changes
    BY <2>1 DEF Changes
  <2>3. "clear" \in {"sent", "refused", "set", "done", "found"} \cup Working
    BY DEF Working
  <2> QED
    BY <2>1, <2>2, <2>3, AskTyped, OnlyChange
<1>a. ASSUME NEW r, r.op = "confirm", r.at \in {"clear", "insert", "done"},
             totpReqs' = (totpReqs \ {q}) \cup {r},
             UNCHANGED <<totpPage, totpAway, totpCrossed>>
      PROVE  SectionFollows'
  <2>1. ChangeUnderWay'
    BY <1>a DEF ChangeUnderWay
  <2> QED
    BY <1>0, <1>a, <2>1 DEF TotpInv, SectionFollows
<1>1. CASE EnableSecret(q)
  <2> DEFINE r == [q EXCEPT !.at = "clear"]
  <2>1. /\ q.at = "set" /\ totpReqs' = (totpReqs \ {q}) \cup {r}
        /\ secret' = q.what /\ pendingSecret' = None /\ replaced' = (replaced \/ secret # None)
        /\ UNCHANGED <<codesHeld, totpPage, totpSends, faults, secretsMade, totpAway, totpCrossed>>
    BY <1>1 DEF EnableSecret, TotpAt
  <2>2. r \in TotpAsk /\ r.op = q.op /\ r.what = q.what /\ r.at = "clear"
    BY <1>0 DEF TotpAsk
  <2> HIDE DEF r
  <2>3. totpReqs' \subseteq TotpAsk /\ StagesOfAsks' /\ ChangesAlone'
    BY <1>0, <2>1, <2>2, StageMoves
  <2>4. TotpTypeOK'
    BY <1>0, <2>1, <2>3 DEF TotpInv, TotpTypeOK, Worth
  <2>5. CodesBetween'
    <3> SUFFICES ASSUME ~totpCrossed, ~(replaced' /\ faults > 0)
                 PROVE  CodesBetween'
      BY <2>1 DEF CodesBetween
    <3>1. \A p \in totpReqs' : p.at \in {"clear", "insert"} => p = r
      BY <1>0, <2>1
    <3>2. r \in totpReqs' /\ secret' = r.what
      BY <2>1, <2>2
    <3>3. secret' # None => \E p \in totpReqs' : p.at = "clear"
      BY <2>2, <3>2
    <3>4. secret' # None
      BY <1>0, <2>1
    <3>5. faults = 0 /\ ~replaced' => codesHeld' = {}
      <4>1. ~replaced' => secret = None /\ ~replaced
        BY <2>1
      <4>2. \A p \in totpReqs : p.at # "forget"
        BY <1>0, <2>1
      <4> QED
        BY <2>1, <4>1, <4>2 DEF TotpInv, CodesBetween
    <3> QED
      BY <2>1, <3>1, <3>2, <3>3, <3>4, <3>5 DEF CodesBetween
  <2>6. SectionFollows'
    BY <1>0, <1>a, <2>1, <2>2
  <2> QED
    BY <2>3, <2>4, <2>5, <2>6 DEF TotpInv
<1>2. CASE ClearCodes(q)
  <2> DEFINE r == [q EXCEPT !.at = "insert", !.left = BackupCodes]
  <2>1. /\ q.at = "clear" /\ totpReqs' = (totpReqs \ {q}) \cup {r} /\ codesHeld' = {}
        /\ UNCHANGED <<secret, pendingSecret, totpPage, totpSends, faults, secretsMade, totpAway, replaced, totpCrossed>>
    BY <1>2 DEF ClearCodes
  <2>2. r \in TotpAsk /\ r.op = q.op /\ r.what = q.what /\ r.at = "insert"
    <3>1. BackupCodes \in Int
      BY TotpAssumption
    <3> QED
      BY <1>0, <3>1 DEF TotpAsk, Working
  <2> HIDE DEF r
  <2>3. totpReqs' \subseteq TotpAsk /\ StagesOfAsks' /\ ChangesAlone'
    BY <1>0, <2>1, <2>2, StageMoves
  <2>4. TotpTypeOK'
    BY <2>1, <2>3 DEF TotpInv, TotpTypeOK
  <2>5. CodesBetween'
    BY <1>0, <2>1, <2>2 DEF TotpInv, CodesBetween
  <2>6. SectionFollows'
    BY <1>0, <1>a, <2>1, <2>2
  <2> QED
    BY <2>3, <2>4, <2>5, <2>6 DEF TotpInv
<1>3. CASE InsertCode(q)
  <2>1. PICK at \in {"done", "insert"} :
           totpReqs' = (totpReqs \ {q}) \cup {[q EXCEPT !.left = @ - 1, !.at = at]}
    BY <1>3 DEF InsertCode
  <2> DEFINE r == [q EXCEPT !.left = @ - 1, !.at = at]
             code == <<q.what[1], q.left>>
  <2>2. /\ q.at = "insert" /\ totpReqs' = (totpReqs \ {q}) \cup {r} /\ codesHeld' = codesHeld \cup {code}
        /\ UNCHANGED <<secret, pendingSecret, totpPage, totpSends, faults, secretsMade, totpAway, replaced, totpCrossed>>
    BY <1>3, <2>1 DEF InsertCode
  <2>3. r \in TotpAsk /\ r.op = q.op /\ r.what = q.what /\ r.at = at
    <3>1. q.left - 1 \in Int /\ at \in {"done"} \cup Working
      BY <1>0 DEF Working
    <3> QED
      BY <1>0, <3>1 DEF TotpAsk
  <2>4. code \in Nat \X Int /\ code[1] = q.what[1]
    BY <1>0
  <2> HIDE DEF r, code
  <2>5. totpReqs' \subseteq TotpAsk /\ StagesOfAsks' /\ ChangesAlone'
    BY <1>0, <2>1, <2>2, <2>3, StageMoves
  <2>6. TotpTypeOK'
    BY <2>2, <2>4, <2>5 DEF TotpInv, TotpTypeOK
  <2>7. CodesBetween'
    <3> SUFFICES ASSUME ~totpCrossed, ~(replaced /\ faults > 0)
                 PROVE  CodesBetween'
      BY <2>2 DEF CodesBetween
    <3>1. secret = q.what
      BY <2>2 DEF TotpInv, CodesBetween
    <3>2. \A p \in totpReqs : p.at # "clear" /\ p.at # "forget"
      BY <1>0, <2>2
    <3>3. \A p \in totpReqs' : p.at # "clear" /\ (p.at = "insert" => p.what = q.what)
      BY <1>0, <2>1, <2>2, <2>3, <3>2
    <3>4. secret # None => \A c \in codesHeld' : c[1] = secret[1]
      BY <2>2, <2>4, <3>1, <3>2 DEF TotpInv, CodesBetween
    <3>5. secret # None
      BY <1>0, <3>1
    <3> QED
      BY <2>2, <3>1, <3>3, <3>4, <3>5 DEF CodesBetween
  <2>8. SectionFollows'
    BY <1>0, <1>a, <2>1, <2>2, <2>3
  <2> QED
    BY <2>5, <2>6, <2>7, <2>8 DEF TotpInv
<1> QED
  BY <1>1, <1>2, <1>3

\* The statements of a disabling.
LEMMA ServerDisables ==
  ASSUME TotpInv, NEW q \in totpReqs, VerifyDisable(q) \/ TurnOff(q) \/ ForgetCodes(q)
  PROVE  TotpInv'
<1> USE DEF totpServer, totpPage
<1>0. /\ q.op = "disable" /\ q.op \in Changes
      /\ (~totpCrossed => \A p \in totpReqs \ {q} : /\ p.op \notin Changes
                                   /\ p.at \notin {"set", "clear", "insert", "off", "forget", "found"})
  <2>1. q.op = "disable"
    BY DEF TotpInv, StagesOfAsks, VerifyDisable, TurnOff, ForgetCodes
  <2>2. q.op \in Changes
    BY <2>1 DEF Changes
  <2> QED
    BY <2>1, <2>2, OnlyChange
<1>1. PICK at \in {"off", "refused", "forget", "done"} :
         /\ TotpAt(q, at)
         /\ q.at = "off" => at = "forget"
         /\ q.at = "forget" => at = "done"
         /\ q.at \in {"sent", "off", "forget"}
         /\ q.at = "sent" => at \in {"off", "refused"}
  BY DEF VerifyDisable, TurnOff, ForgetCodes
<1> DEFINE r == [q EXCEPT !.at = at]
<1>2. /\ totpReqs' = (totpReqs \ {q}) \cup {r}
      /\ r \in TotpAsk /\ r.op = q.op /\ r.what = q.what /\ r.at = at
  <2>1. at \in {"sent", "refused", "set", "done", "found"} \cup Working
    BY DEF Working
  <2> QED
    BY <1>1, <2>1, AskTyped DEF TotpAt, TotpAsk
<1>3. /\ UNCHANGED <<totpPage, totpSends, faults, secretsMade, totpAway, replaced, totpCrossed>>
      /\ codesHeld' \subseteq codesHeld
      /\ secret' \in {None, secret} /\ pendingSecret' \in {None, pendingSecret}
      /\ q.at = "off" => secret' = None
      /\ q.at # "off" => secret' = secret
      /\ q.at = "forget" => codesHeld' = {}
  BY <1>0 DEF VerifyDisable, TurnOff, ForgetCodes
<1> HIDE DEF r
<1>4. totpReqs' \subseteq TotpAsk /\ StagesOfAsks' /\ ChangesAlone'
  BY <1>0, <1>2, <1>3, StageMoves
<1>5. TotpTypeOK'
  BY <1>3, <1>4 DEF TotpInv, TotpTypeOK, Worth
<1>6. CodesBetween'
  <2> SUFFICES ASSUME ~totpCrossed, ~(replaced /\ faults > 0)
               PROVE  CodesBetween'
    BY <1>3 DEF CodesBetween
  <2>1. \A p \in totpReqs' : p.at \notin {"clear", "insert"}
    BY <1>0, <1>2
  <2>2. \A p \in totpReqs : p.at # "clear"
    BY <1>0, <1>1
  <2>3. \A p \in totpReqs : p.at = "forget" => p = q
    BY <1>0
  <2>4. secret' # None => \A c \in codesHeld' : c[1] = secret'[1]
    BY <1>3, <2>2 DEF TotpInv, CodesBetween
  <2>5. secret' = None => codesHeld' = {} \/ faults > 0 \/ \E p \in totpReqs' : p.at = "forget"
    <3>1. CASE q.at = "off"
      BY <1>1, <1>2, <3>1
    <3>2. CASE q.at = "forget"
      BY <1>3, <3>2
    <3>3. CASE q.at = "sent"
      BY <1>3, <2>3, <3>3 DEF TotpInv, CodesBetween
    <3> QED
      BY <1>1, <3>1, <3>2, <3>3
  <2> QED
    BY <1>3, <2>1, <2>4, <2>5 DEF CodesBetween
<1>7. SectionFollows'
  <2>1. CASE at \in {"forget", "done"}
    <3>1. ChangeUnderWay'
      BY <1>0, <1>2, <2>1 DEF ChangeUnderWay
    <3> QED
      BY <1>0, <1>2, <1>3, <3>1 DEF TotpInv, SectionFollows
  <2>2. CASE at \in {"off", "refused"}
    BY <1>0, <1>1, <1>2, <1>3, <2>2, SectionKept
  <2> QED
    BY <2>1, <2>2
<1> QED
  BY <1>4, <1>5, <1>6, <1>7 DEF TotpInv

\* A sign-in with a backup code, and a statement that fails.
LEMMA ServerSpends ==
  ASSUME TotpInv, NEW q \in totpReqs, FindCode(q) \/ SpendCode(q)
  PROVE  TotpInv'
<1> USE DEF totpServer, totpPage
<1>0. q.op = "use" /\ q.at \in {"sent", "found"}
  BY DEF TotpInv, StagesOfAsks, FindCode, SpendCode
<1>1. PICK at \in {"found", "refused", "done"} : TotpAt(q, at)
  BY DEF FindCode, SpendCode
<1> DEFINE r == [q EXCEPT !.at = at]
<1>2. /\ totpReqs' = (totpReqs \ {q}) \cup {r}
      /\ r \in TotpAsk /\ r.op = q.op /\ r.what = q.what /\ r.at = at
  BY <1>1, AskTyped DEF TotpAt, TotpAsk
<1>3. /\ UNCHANGED <<secret, pendingSecret, totpPage, totpSends, faults, secretsMade, totpAway, replaced, totpCrossed>>
      /\ codesHeld' \subseteq codesHeld
  BY DEF FindCode, SpendCode
<1> HIDE DEF r
<1>4. totpReqs' \subseteq TotpAsk /\ StagesOfAsks' /\ ChangesAlone'
  BY <1>0, <1>2, <1>3, StageMoves
<1>5. TotpTypeOK'
  BY <1>3, <1>4 DEF TotpInv, TotpTypeOK
<1>6. CodesBetween'
  BY <1>0, <1>2, <1>3, CodesKept
<1>7. SectionFollows'
  BY <1>0, <1>2, <1>3, SectionKept
<1> QED
  BY <1>4, <1>5, <1>6, <1>7 DEF TotpInv

LEMMA OneStatementFails ==
  ASSUME TotpInv, OneFault, NEW q \in totpReqs, StatementFails(q)
  PROVE  TotpInv'
<1> USE DEF totpServer, totpPage
<1>0. q.at \in Working /\ q.op \in Changes /\ q.op # "me"
  <2>1. q.at \in {"set", "clear", "insert", "off", "forget"}
    BY DEF StatementFails, Working
  <2> QED
    BY <2>1 DEF TotpInv, StagesOfAsks, StatementFails, Changes
<1> DEFINE r == [q EXCEPT !.at = "refused"]
<1>1. /\ totpReqs' = (totpReqs \ {q}) \cup {r}
      /\ r \in TotpAsk /\ r.op = q.op /\ r.what = q.what /\ r.at = "refused"
  BY AskTyped DEF StatementFails, TotpAt, TotpAsk
<1>2. /\ UNCHANGED <<totpServer, totpPage, totpSends, secretsMade, replaced, totpCrossed>>
      /\ totpAway' = TRUE
  BY DEF StatementFails
<1>3. faults = 0 /\ faults' = 1 /\ faults' <= MaxFaults /\ faults' > 0
  BY TotpAssumption DEF StatementFails, OneFault, TotpInv, TotpTypeOK
<1> HIDE DEF r
<1>4. totpReqs' \subseteq TotpAsk /\ StagesOfAsks' /\ ChangesAlone'
  BY <1>0, <1>1, <1>2, StageMoves
<1>5. TotpTypeOK'
  BY <1>2, <1>3, <1>4 DEF TotpInv, TotpTypeOK
<1>6. CodesBetween'
  <2> SUFFICES ASSUME ~totpCrossed, ~replaced
               PROVE  CodesBetween'
    BY <1>2, <1>3 DEF CodesBetween
  <2>1. CodesBetween /\ ~(replaced /\ faults > 0) /\ faults = 0
    BY <1>3 DEF TotpInv
  <2>2. secret # None => \A c \in codesHeld : c[1] = secret[1]
    BY <2>1 DEF CodesBetween
  <2>3. \A p \in totpReqs' : p.at \in {"clear", "insert"} => secret = p.what
    BY <1>1, <2>1 DEF CodesBetween
  <2> QED
    BY <1>2, <1>3, <2>2, <2>3 DEF CodesBetween
<1>7. SectionFollows'
  BY <1>2 DEF SectionFollows
<1> QED
  BY <1>4, <1>5, <1>6, <1>7 DEF TotpInv

\* A delete that fails and is passed over.
LEMMA OneDeleteIgnored ==
  ASSUME TotpInv, OneFault, NEW q \in totpReqs, DeleteIgnored(q)
  PROVE  TotpInv'
<1> USE DEF totpServer, totpPage
<1>0. /\ q.op \in Changes /\ q.op # "me" /\ q.at \in {"clear", "forget", "found", "sent"}
      /\ q.at = "clear" => q.op = "confirm" /\ q.what \in (Nat \X Int) \ {None}
      /\ q.at \in {"forget", "sent"} => q.op = "disable"
      /\ q.at = "found" => q.op = "use"
  BY DEF TotpInv, StagesOfAsks, DeleteIgnored, Changes
<1>1. PICK r \in TotpAsk :
         /\ totpReqs' = (totpReqs \ {q}) \cup {r} /\ r.op = q.op /\ r.what = q.what
         /\ r.at = CASE q.at = "clear" -> "insert" [] q.at = "sent" -> "off" [] OTHER -> "done"
  <2>1. BackupCodes \in Int /\ {"insert", "off", "done"} \subseteq {"sent", "refused", "set", "done", "found"} \cup Working
    BY TotpAssumption DEF Working
  <2>2. CASE q.at = "clear"
    <3>1. totpReqs' = (totpReqs \ {q}) \cup {[q EXCEPT !.at = "insert", !.left = BackupCodes]}
      BY <2>2 DEF DeleteIgnored
    <3>2. PICK r : r = [q EXCEPT !.at = "insert", !.left = BackupCodes]
      OBVIOUS
    <3>3. r \in TotpAsk /\ r.op = q.op /\ r.what = q.what /\ r.at = "insert"
      BY <2>1, <3>2, AskTyped DEF TotpAsk
    <3> QED
      BY <2>2, <3>1, <3>2, <3>3
  <2>3. CASE q.at # "clear"
    <3>1. PICK at \in {"off", "done"} : TotpAt(q, at) /\ at = (IF q.at = "sent" THEN "off" ELSE "done")
      BY <2>3 DEF DeleteIgnored
    <3>2. PICK r : r = [q EXCEPT !.at = at]
      OBVIOUS
    <3>3. r \in TotpAsk /\ r.op = q.op /\ r.what = q.what /\ r.at = at
      BY <2>1, <3>1, <3>2, AskTyped DEF TotpAsk
    <3> QED
      BY <2>3, <3>1, <3>2, <3>3 DEF TotpAt
  <2> QED
    BY <2>2, <2>3
<1>2. UNCHANGED <<totpServer, totpPage, totpSends, secretsMade, totpAway, replaced, totpCrossed>>
  BY DEF DeleteIgnored
<1>3. faults = 0 /\ faults' = 1 /\ faults' <= MaxFaults /\ faults' > 0
  BY TotpAssumption DEF DeleteIgnored, OneFault, TotpInv, TotpTypeOK
<1>4. totpReqs' \subseteq TotpAsk /\ StagesOfAsks' /\ ChangesAlone'
  BY <1>0, <1>1, <1>2, StageMoves
<1>5. TotpTypeOK'
  BY <1>2, <1>3, <1>4 DEF TotpInv, TotpTypeOK
<1>6. CodesBetween'
  <2> SUFFICES ASSUME ~totpCrossed, ~replaced
               PROVE  CodesBetween'
    BY <1>2, <1>3 DEF CodesBetween
  <2>1. CodesBetween /\ ~(replaced /\ faults > 0) /\ faults = 0
    BY <1>3 DEF TotpInv
  <2>2. secret # None => \A c \in codesHeld : c[1] = secret[1]
    BY <2>1 DEF CodesBetween
  <2>3. \A p \in totpReqs' : p.at \in {"clear", "insert"} => secret = p.what
    BY <1>0, <1>1, <2>1 DEF CodesBetween
  <2> QED
    BY <1>2, <1>3, <2>2, <2>3 DEF CodesBetween
<1>7. SectionFollows'
  <2>1. CASE q.at \in {"clear", "forget"}
    <3>1. ChangeUnderWay'
      BY <1>0, <1>1, <2>1 DEF ChangeUnderWay
    <3> QED
      BY <1>0, <1>1, <1>2, <3>1 DEF TotpInv, SectionFollows
  <2>2. CASE q.at \in {"found", "sent"}
    BY <1>0, <1>1, <1>2, <2>2, SectionKept
  <2> QED
    BY <1>0, <2>1, <2>2
<1> QED
  BY <1>4, <1>5, <1>6, <1>7 DEF TotpInv

LEMMA ServerReadsUser ==
  ASSUME TotpInv, NEW q \in totpReqs, ReadUser(q)
  PROVE  TotpInv'
<1> USE DEF totpServer, totpPage
<1>1. /\ q.op = "me" /\ q.at = "sent"
      /\ totpReqs' = (totpReqs \ {q}) \cup {[q EXCEPT !.at = "done", !.answer = secret]}
      /\ UNCHANGED <<totpServer, totpPage, totpSends, faults, secretsMade, totpAway, replaced, totpCrossed>>
  BY DEF ReadUser
<1>2. PICK r \in TotpAsk : /\ r.op = "me" /\ r.at = "done" /\ r.answer = secret
                          /\ totpReqs' = (totpReqs \ {q}) \cup {r}
  BY <1>1, AskTyped DEF TotpInv, TotpTypeOK, TotpAsk
<1>3. totpReqs' \subseteq TotpAsk /\ StagesOfAsks' /\ ChangesAlone'
  BY <1>1, <1>2, StageMoves
<1>4. TotpTypeOK'
  BY <1>1, <1>3 DEF TotpInv, TotpTypeOK
<1>5. CodesBetween'
  BY <1>1, <1>2, CodesKept
<1>6. SectionFollows'
  <2> SUFFICES ASSUME ~totpAway, ~totpCrossed
               PROVE  SectionFollows'
    BY <1>1 DEF SectionFollows
  <2>1. \A p \in totpReqs' : p.op = "me" => p = r
    BY <1>1, <1>2 DEF TotpInv, SectionFollows
  <2>2. \A p \in totpReqs' : Told(p)' => ((p.answer # None) <=> (secret' # None))
    BY <1>1, <1>2, <2>1 DEF Told
  <2>3. r \in totpReqs' /\ Told(r)'
    BY <1>1, <1>2 DEF Told
  <2>4. \A p \in totpReqs' : p.op = "confirm" => totpOpen' /\ verifying' /\ totpStep' = "qr"
    BY <1>1, <1>2 DEF TotpInv, SectionFollows
  <2> QED
    BY <2>1, <2>2, <2>3, <2>4 DEF SectionFollows
<1> QED
  BY <1>3, <1>4, <1>5, <1>6 DEF TotpInv

\* The answers at the page, and requests that do not reach the server.
LEMMA PageIsAnswered ==
  ASSUME TotpInv, NEW q \in totpReqs, TotpAnswered(q)
  PROVE  TotpInv'
<1> USE DEF totpServer, totpPage
<1> DEFINE fetch == q.op = "disable" /\ q.at = "done"
           r == [q EXCEPT !.op = "me", !.at = "sent"]
<1>1. /\ q.at \in {"done", "refused"}
      /\ qrSecret' \in {q.answer, qrSecret} /\ totpStep' \in {"backup", totpStep}
      /\ totpReqs' = (totpReqs \ {q}) \cup {p \in {r} : fetch}
      /\ totpAway' = (totpAway \/ (fetch /\ FetchingUser))
      /\ UNCHANGED <<totpServer, totpOpen, totpSends, faults, secretsMade, replaced, totpCrossed>>
  BY DEF TotpAnswered
<1>2. r \in TotpAsk /\ r.op = "me" /\ r.at = "sent"
  BY AskTyped DEF TotpAsk
<1> HIDE DEF r
<1>3. totpReqs' = IF fetch THEN (totpReqs \ {q}) \cup {r} ELSE totpReqs \ {q}
  BY <1>1
<1>4. totpReqs' \subseteq TotpAsk /\ StagesOfAsks' /\ ChangesAlone'
  <2>1. totpReqs' \subseteq (totpReqs \ {q}) \cup {r} /\ r.op \notin Changes
    BY <1>2, <1>3 DEF Changes
  <2> QED
    BY <1>1, <1>2, <2>1 DEF TotpInv, TotpTypeOK, StagesOfAsks, ChangesAlone
<1>5. TotpTypeOK'
  <2>1. q.answer \in Worth /\ totpAway' \in BOOLEAN
    BY <1>1, AskTyped
  <2>2. verifying' \in BOOLEAN /\ disabling' \in BOOLEAN /\ totpShown' \in BOOLEAN
    BY DEF TotpAnswered, TotpInv, TotpTypeOK
  <2> QED
    BY <1>1, <1>4, <2>1, <2>2 DEF TotpInv, TotpTypeOK
<1>6. CodesBetween'
  <2>1. \A p \in totpReqs' : p.at \in {"clear", "insert"} => p \in totpReqs
    BY <1>2, <1>3
  <2>2. \A p \in totpReqs : p.at \in {"clear", "forget"} => p \in totpReqs'
    BY <1>1, <1>3
  <2> QED
    BY <1>1, <2>1, <2>2 DEF TotpInv, CodesBetween
<1>7. SectionFollows'
  <2> SUFFICES ASSUME ~totpAway, ~totpCrossed, ~(fetch /\ FetchingUser)
               PROVE  SectionFollows'
    BY <1>1 DEF SectionFollows
  <2>0. /\ SectionFollows /\ StagesOfAsks
        /\ q.op \in Changes => \A p \in totpReqs \ {q} : p.op \notin Changes
    BY OnlyChange DEF TotpInv
  <2>1. \A p, s \in totpReqs' : p.op = "me" /\ s.op = "me" => p = s
    <3>1. CASE fetch
      BY <1>2, <1>3, <3>1 DEF FetchingUser
    <3>2. CASE ~fetch
      BY <1>3, <2>0, <3>2 DEF SectionFollows
    <3> QED
      BY <3>1, <3>2
  <2>2. CASE q.op = "confirm"
    <3>1. /\ totpReqs' = totpReqs \ {q} /\ totpShown' = totpShown
          /\ totpStep' = IF q.at = "done" THEN "backup" ELSE totpStep
      BY <1>3, <2>2 DEF TotpAnswered
    <3>2. \A p \in totpReqs' : p.op # "confirm"
      BY <2>0, <2>2, <3>1 DEF Changes
    <3>3. CASE q.at = "done"
      <4>1. ChangeUnderWay'
        BY <1>1, <2>0, <2>2, <3>1, <3>3 DEF ChangeUnderWay, SectionFollows
      <4> QED
        BY <2>1, <3>2, <4>1 DEF SectionFollows
    <3>4. CASE q.at = "refused"
      <4>1. ChangeUnderWay => ChangeUnderWay'
        BY <1>1, <2>2, <3>1, <3>4 DEF ChangeUnderWay
      <4>2. \A p : p \in totpReqs' /\ Told(p)' <=> p \in totpReqs /\ Told(p)
        BY <2>2, <3>1 DEF Told
      <4> QED
        BY <1>1, <2>0, <2>1, <3>1, <3>2, <4>1, <4>2 DEF SectionFollows
    <3> QED
      BY <1>1, <3>3, <3>4
  <2>3. CASE q.op # "confirm"
    <3>1. verifying' = verifying /\ totpStep' = totpStep
      BY <2>3 DEF TotpAnswered
    <3>2. \A p \in totpReqs' : p.op = "confirm" => totpOpen' /\ verifying' /\ totpStep' = "qr"
      BY <1>1, <1>2, <1>3, <2>0, <3>1 DEF SectionFollows
    <3>3. CASE fetch
      <4>1. ChangeUnderWay'
        BY <1>2, <1>3, <3>3 DEF ChangeUnderWay
      <4> QED
        BY <2>1, <3>2, <4>1 DEF SectionFollows
    <3>4. CASE ~fetch
      <4>1. totpReqs' = totpReqs \ {q}
        BY <1>3, <3>4
      <4>2. ChangeUnderWay => ChangeUnderWay'
        BY <1>1, <2>3, <3>1, <3>4, <4>1 DEF ChangeUnderWay
      <4>3. \A p \in totpReqs' : Told(p)' => p \in totpReqs /\ Told(p)
        BY <4>1 DEF Told
      <4>4. CASE q.op = "me"
        <5>1. q.at = "done" /\ totpShown' = (q.answer # None)
          BY <1>1, <2>0, <4>4 DEF StagesOfAsks, TotpAnswered
        <5>2. Told(q)
          BY <4>4, <5>1 DEF Told
        <5> QED
          BY <1>1, <2>0, <2>1, <3>2, <4>2, <4>3, <5>1, <5>2 DEF SectionFollows
      <4>5. CASE q.op # "me"
        <5>1. totpShown' = totpShown
          BY <4>5 DEF TotpAnswered
        <5>2. \A p \in totpReqs : Told(p) => p \in totpReqs' /\ Told(p)'
          BY <4>1, <4>5 DEF Told
        <5> QED
          BY <1>1, <2>0, <2>1, <3>2, <4>2, <4>3, <5>1, <5>2 DEF SectionFollows
      <4> QED
        BY <4>4, <4>5
    <3> QED
      BY <3>3, <3>4
  <2> QED
    BY <2>2, <2>3
<1> QED
  BY <1>4, <1>5, <1>6, <1>7 DEF TotpInv

LEMMA RequestIsLost ==
  ASSUME TotpInv, NEW q \in totpReqs, TotpLost(q)
  PROVE  TotpInv'
<1> USE DEF totpServer, totpPage
<1>0. /\ q.at = "sent"
      /\ UNCHANGED <<totpServer, totpStep, qrSecret, verifying, disabling, totpShown, totpSends, faults, secretsMade,
                     replaced, totpCrossed>>
      /\ totpAway' = (totpAway \/ q.op = "me" \/ (q.op = "setup" /\ (totpStep = "backup" \/ verifying)))
      /\ totpOpen' \in BOOLEAN /\ totpAway' \in BOOLEAN
  BY DEF TotpLost, TotpInv, TotpTypeOK
<1>1. CASE q.op \in {"setup", "me"}
  <2>1. totpReqs' = totpReqs \ {q} /\ (q.op = "setup" => totpOpen' = FALSE)
    BY <1>1 DEF TotpLost
  <2>2. TotpTypeOK' /\ StagesOfAsks' /\ ChangesAlone'
    BY <1>0, <2>1 DEF TotpInv, TotpTypeOK, StagesOfAsks, ChangesAlone
  <2>3. CodesBetween'
    BY <1>0, <2>1 DEF TotpInv, CodesBetween
  <2>4. SectionFollows'
    <3> SUFFICES ASSUME ~totpAway, ~totpCrossed, q.op = "setup", totpStep # "backup", ~verifying
                 PROVE  SectionFollows'
      BY <1>0, <1>1 DEF SectionFollows
    <3>1. \A p \in totpReqs' : p.op # "confirm"
      BY <2>1 DEF TotpInv, SectionFollows
    <3>2. ChangeUnderWay => ChangeUnderWay'
      BY <1>0, <2>1 DEF ChangeUnderWay
    <3>3. \A p : p \in totpReqs' /\ Told(p)' <=> p \in totpReqs /\ Told(p)
      BY <2>1 DEF Told
    <3> QED
      BY <1>0, <2>1, <3>1, <3>2, <3>3 DEF TotpInv, SectionFollows
  <2> QED
    BY <2>2, <2>3, <2>4 DEF TotpInv
<1>2. CASE q.op \notin {"setup", "me"}
  <2> DEFINE r == [q EXCEPT !.at = "refused"]
  <2>1. totpReqs' = (totpReqs \ {q}) \cup {r} /\ totpOpen' = totpOpen /\ totpAway' = totpAway
    BY <1>0, <1>2 DEF TotpLost, TotpAt, TotpInv, TotpTypeOK
  <2>2. r \in TotpAsk /\ r.op = q.op /\ r.at = "refused"
    BY AskTyped DEF TotpAsk
  <2> HIDE DEF r
  <2>3. totpReqs' \subseteq TotpAsk /\ StagesOfAsks' /\ ChangesAlone'
    BY <1>0, <1>2, <2>1, <2>2, StageMoves
  <2>4. TotpTypeOK'
    BY <1>0, <2>1, <2>3 DEF TotpInv, TotpTypeOK
  <2>5. CodesBetween'
    BY <1>0, <2>1, <2>2, CodesKept
  <2>6. SectionFollows'
    BY <1>0, <1>2, <2>1, <2>2, SectionKept
  <2> QED
    BY <2>3, <2>4, <2>5, <2>6 DEF TotpInv
<1> QED
  BY <1>1, <1>2

LEMMA TotpStep ==
  ASSUME OneFault
  PROVE  TotpInv /\ [TotpNext]_totpVars => TotpInv'
<1> SUFFICES ASSUME TotpInv, [TotpNext]_totpVars
             PROVE  TotpInv'
  OBVIOUS
<1>1. CASE UNCHANGED totpVars
  BY <1>1 DEF totpVars, TotpInv, TotpTypeOK, StagesOfAsks, ChangesAlone, CodesBetween, SectionFollows,
              ChangeUnderWay, Told
<1>2. CASE OpenTotpSetup \/ CloseTotpSetup \/ VerifySetup \/ FinishSetup \/ ReopenSettings \/ SendDisable
           \/ SignInWithCode
  BY <1>2, PageSteps
<1>3. CASE \E q \in totpReqs : TotpStepOf(q)
  <2> PICK q \in totpReqs : TotpStepOf(q)
    BY <1>3
  <2> QED
    BY ServerSetsUp, ServerEnables, ServerDisables, ServerSpends, OneStatementFails, OneDeleteIgnored,
       ServerReadsUser, PageIsAnswered, RequestIsLost DEF TotpStepOf
<1> QED
  BY <1>1, <1>2, <1>3 DEF TotpNext

\* TotpInv holds of every behaviour in which at most one statement fails.
THEOREM TotpInvariant == OneFault => (TotpSpec => []TotpInv)
<1> SUFFICES ASSUME OneFault
             PROVE  TotpSpec => []TotpInv
  OBVIOUS
<1>1. TotpInit => TotpInv
  BY TotpInitial
<1>2. TotpInv /\ [TotpNext]_totpVars => TotpInv'
  BY TotpStep
<1> QED
  BY <1>1, <1>2, PTL DEF TotpSpec

\* With at most one statement that fails, whichever it is: while requests do not cross, a backup
\* code that opens the account is one of the enabling in force (but after a set-up over a second
\* factor in force that failed), and the section of the settings page shows, once all is answered
\* and nothing failed, whether a second factor is in force.
THEOREM SecondFactorIsWhole == OneFault => (TotpSpec => []SecondFactorHolds)
<1>1. TotpInv => SecondFactorHolds
  <2> SUFFICES ASSUME TotpInv
               PROVE  SecondFactorHolds
    OBVIOUS
  <2>1. CodesOfThisSecret
    BY DEF TotpInv, CodesBetween, CodesOfThisSecret, TotpQuiet, Working
  <2>2. SectionAgrees
    BY DEF TotpInv, SectionFollows, SectionAgrees, ChangeUnderWay
  <2> QED
    BY <2>1, <2>2 DEF SecondFactorHolds
<1> QED
  BY <1>1, TotpInvariant, PTL

-----------------------------------------------------------------------------
(* ChannelForm: a channel has what its form showed, and keeps its secrets. *)

ChannelSpec == ChannelInit /\ [][ChannelNext]_channelVars

\* Rows, list, form and request are of the types of their channel.
ChannelTypeOK ==
    /\ stored # None => stored.type \in ChannelTypes /\ stored \in ChannelRows(stored.type)
    /\ listed # None => listed.type \in ChannelTypes /\ listed \in ListedRows(listed.type)
    /\ formSaving # None => formSaving.type \in ChannelTypes /\ formSaving \in ChannelSaves(formSaving.type)
    /\ dialog \in {None, "new", "old"}
    /\ dialog # None =>
          /\ chType \in ChannelTypes /\ chValues \in [FormFields(chType) -> FieldTexts]
          /\ configured \subseteq SecretFields(chType)
          /\ chHeaders # None => chHeaders \in Maps(Headers)

\* The request that is not yet carried out is for the channel that there is.
OneChannel ==
    /\ dialog = "new" => listed = None
    /\ dialog = "old" => listed # None /\ chType = listed.type
    /\ listed # None => stored # None /\ listed.type = stored.type
    /\ stored # None /\ listed = None => formSaving # None /\ formSaving.answer = "saved"
    /\ formSaving # None /\ formSaving.answer = "saved" => stored # None
    /\ formSaving # None /\ formSaving.answer # "saved" /\ stored # None => formSaving.type = stored.type
    /\ formSaving # None => (formSaving.new <=> listed = None)

Unmasked(map) == \A f \in DOMAIN map : map[f] # Masked

\* The mask is in fields of secrets and in the text of the headers only.
MasksStay ==
    /\ MaskNotStored
    /\ listed # None => Unmasked(listed.config)
    /\ dialog # None => \A f \in FormFields(chType) : chValues[f] = Masked => Layout(chType)[f].secret
    /\ formSaving # None =>
          Unmasked(formSaving.config) /\ (formSaving.headers # None => Unmasked(formSaving.headers))

\* The row that a save has read is of its type, and has no masks either.
ReadTrue(q) ==
    q.row # None => /\ q.row.type = q.type /\ q.row \in ChannelRows(q.type) /\ Unmasked(q.row.config)
                    /\ (q.row.headers # None => Unmasked(q.row.headers))

\* What is sent are the texts that were shown, the defaults of numbers, and blanks.
SentAsShown(q) ==
    /\ DOMAIN q.config \subseteq DOMAIN q.seen /\ DOMAIN q.seen \subseteq FormFields(q.type)
    /\ \A f \in DOMAIN q.seen : q.seen[f] \in Texts => f \in DOMAIN q.config /\ q.config[f] = q.seen[f]
    /\ \A f \in DOMAIN q.config \cap SecretFields(q.type) : q.config[f] # Blank => q.seen[f] \in Texts
    /\ \A f \in DOMAIN q.seen \ SecretFields(q.type) :
          q.seen[f] = Blank => IF f \in DOMAIN q.config /\ q.config[f] # Blank
                               THEN q.config[f] = Layout(q.type)[f].default ELSE Layout(q.type)[f].default = Blank
    /\ q.text # None => /\ q.headers # None /\ DOMAIN q.headers = DOMAIN q.text
                        /\ \A h \in DOMAIN q.text : q.headers[h] = IF q.text[h] \in Texts THEN q.text[h] ELSE Blank

ChannelInv ==
    /\ ChannelTypeOK /\ OneChannel /\ MasksStay
    /\ formSaving # None => SentAsShown(formSaving) /\ ReadTrue(formSaving)

-----------------------------------------------------------------------------
LEMMA TextsDiffer == Blank \notin Texts /\ Masked \notin Texts /\ Blank # Masked /\ Texts \subseteq FieldTexts
                     /\ Blank \in FieldTexts /\ Masked \in FieldTexts
BY DEF Blank, Masked, Texts, FieldTexts

LEMMA MapsAre ==
  ASSUME NEW names, NEW map
  PROVE  map \in Maps(names) <=> DOMAIN map \subseteq names /\ map \in [DOMAIN map -> FieldTexts]
BY DEF Maps

\* The layout of a type: defaults are blank or the first choice, and secrets are those marked.
LEMMA LayoutsAre ==
  ASSUME NEW t \in ChannelTypes
  PROVE  /\ \A f \in FormFields(t) : Layout(t)[f].default \in Texts \cup {Blank}
         /\ \A f \in FormFields(t) : Layout(t)[f].default # Blank => Layout(t)[f].sent /\ ~Layout(t)[f].secret
         /\ \A f \in FormFields(t) : f \in SecretFields(t) <=> Layout(t)[f].secret
         /\ SecretFields(t) \subseteq FormFields(t) \cup ServerOnly(t)
<1> DEFINE FieldKinds == {Needed, Free, Optional, Chosen, Number, NeededSecret, FreeSecret, OptionalSecret}
<1>1. \A f \in FormFields(t) : Layout(t)[f] \in FieldKinds
  <2>1. CASE t = "smtp"
    <3>1. Layout(t) = Smtp
      BY <2>1 DEF Layout
    <3> QED
      BY <3>1 DEF FormFields, Smtp
  <2>2. CASE t = "resend"
    <3>1. Layout(t) = Resend
      BY <2>2 DEF Layout
    <3> QED
      BY <3>1 DEF FormFields, Resend
  <2>3. CASE t = "telegram"
    <3>1. Layout(t) = Telegram
      BY <2>3 DEF Layout
    <3> QED
      BY <3>1 DEF FormFields, Telegram
  <2>4. CASE t = "webhook"
    <3>1. Layout(t) = Webhook
      BY <2>4 DEF Layout
    <3> QED
      BY <3>1 DEF FormFields, Webhook
  <2>5. CASE t = "napcat"
    <3>1. Layout(t) = Napcat
      BY <2>5 DEF Layout
    <3> QED
      BY <3>1 DEF FormFields, Napcat
  <2>6. CASE t = "pushdeer"
    <3>1. Layout(t) = Pushdeer
      BY <2>6 DEF Layout
    <3> QED
      BY <3>1 DEF FormFields, Pushdeer
  <2>7. CASE t = "pushplus"
    <3>1. Layout(t) = Pushplus
      BY <2>7 DEF Layout
    <3> QED
      BY <3>1 DEF FormFields, Pushplus
  <2>8. CASE t = "pushover"
    <3>1. Layout(t) = Pushover
      BY <2>8 DEF Layout
    <3> QED
      BY <3>1 DEF FormFields, Pushover
  <2>9. CASE t = "gotify"
    <3>1. Layout(t) = Gotify
      BY <2>9 DEF Layout
    <3> QED
      BY <3>1 DEF FormFields, Gotify
  <2>10. CASE t = "ntfy"
    <3>1. Layout(t) = Ntfy
      BY <2>10 DEF Layout
    <3> QED
      BY <3>1 DEF FormFields, Ntfy
  <2>11. CASE t = "bark"
    <3>1. Layout(t) = Bark
      BY <2>11 DEF Layout
    <3> QED
      BY <3>1 DEF FormFields, Bark
  <2>12. CASE t = "serverchan"
    <3>1. Layout(t) = ServerChan
      BY <2>12 DEF Layout
    <3> QED
      BY <3>1 DEF FormFields, ServerChan
  <2>13. CASE t = "feishu"
    <3>1. Layout(t) = Feishu
      BY <2>13 DEF Layout
    <3> QED
      BY <3>1 DEF FormFields, Feishu
  <2>14. CASE t = "wecom"
    <3>1. Layout(t) = Wecom
      BY <2>14 DEF Layout
    <3> QED
      BY <3>1 DEF FormFields, Wecom
  <2>15. CASE t = "dingtalk"
    <3>1. Layout(t) = Dingtalk
      BY <2>15 DEF Layout
    <3> QED
      BY <3>1 DEF FormFields, Dingtalk
  <2> QED
    BY <2>1, <2>2, <2>3, <2>4, <2>5, <2>6, <2>7, <2>8,
       <2>9, <2>10, <2>11, <2>12, <2>13, <2>14, <2>15, ChannelAssumption
<1>2. \A k \in FieldKinds : k.default \in Texts \cup {Blank} /\ (k.default # Blank => k.sent /\ ~k.secret)
  <2>1. /\ Needed.default = Blank /\ Free.default = Blank /\ Optional.default = Blank
        /\ Chosen.default = "a" /\ Chosen.sent /\ ~Chosen.secret /\ Number.default = "a" /\ Number.sent /\ ~Number.secret
        /\ NeededSecret.default = Blank /\ FreeSecret.default = Blank /\ OptionalSecret.default = Blank
    BY DEF Needed, Free, Optional, Chosen, Number, NeededSecret, FreeSecret, OptionalSecret, Kind
  <2> QED
    BY <2>1 DEF Texts
<1>3. "password" \notin FormFields("ntfy")
  BY DEF Layout, FormFields, Ntfy
<1>4. \A f \in FormFields(t) : f \in SecretFields(t) <=> Layout(t)[f].secret
  BY <1>3 DEF SecretFields
<1>5. SecretFields(t) \subseteq FormFields(t) \cup ServerOnly(t)
  BY DEF SecretFields, ServerOnly
<1> QED
  BY <1>1, <1>2, <1>4, <1>5

LEMMA ValuesAre ==
  ASSUME NEW t \in ChannelTypes, NEW config,
         \A f \in DOMAIN config \cap FormFields(t) : config[f] \in FieldTexts
  PROVE  /\ ValuesOf(t, config) \in [FormFields(t) -> FieldTexts]
         /\ Unmasked(config) => \A f \in FormFields(t) : ValuesOf(t, config)[f] # Masked
BY LayoutsAre, TextsDiffer DEF ValuesOf, Unmasked

\* The list has of a channel what the server answers: secrets blank, names for the rest.
LEMMA SanitizedIsListed ==
  ASSUME NEW t \in ChannelTypes, NEW channel \in ChannelRows(t)
  PROVE  /\ Sanitized(channel) \in ListedRows(t) /\ Sanitized(channel).type = t
         /\ Unmasked(channel.config) => Unmasked(Sanitized(channel).config)
<1> DEFINE c == [f \in DOMAIN channel.config |->
                   IF f \in SecretFields(channel.type) THEN Blank ELSE channel.config[f]]
<1>1. /\ channel.type = t /\ channel.config \in Maps(FormFields(t) \cup ServerOnly(t))
      /\ channel.headers \in Maps(Headers) \cup {None}
  BY DEF ChannelRows, HeaderMaps
<1>2. DOMAIN channel.config \subseteq FormFields(t) \cup ServerOnly(t)
      /\ channel.config \in [DOMAIN channel.config -> FieldTexts]
  BY <1>1, MapsAre
<1>3. c \in Maps(FormFields(t) \cup ServerOnly(t))
  <2>1. DOMAIN c = DOMAIN channel.config /\ c \in [DOMAIN c -> FieldTexts]
    BY <1>2, TextsDiffer
  <2> HIDE DEF c
  <2> QED
    BY <1>2, <2>1, MapsAre
<1>4. MaskHeaders(channel.headers) \in Maps(Headers) \cup {None}
  <2>1. CASE channel.headers = None
    BY <2>1 DEF MaskHeaders
  <2>2. CASE channel.headers \in Maps(Headers)
    <3> DEFINE m == [h \in DOMAIN channel.headers |-> Blank]
    <3>1. DOMAIN channel.headers \subseteq Headers
      BY <2>2, MapsAre
    <3>2. m \in [DOMAIN m -> FieldTexts] /\ DOMAIN m \subseteq Headers
      BY <3>1, TextsDiffer
    <3> HIDE DEF m
    <3>3. m \in Maps(Headers)
      BY <3>2, MapsAre
    <3> QED
      BY <3>3 DEF MaskHeaders, m
  <2> QED
    BY <1>1, <2>1, <2>2
<1>5. NonBlank(channel.headers) \subseteq Headers
  BY <1>1, MapsAre DEF NonBlank
<1>6. Sanitized(channel) = [type |-> t, config |-> c, headers |-> MaskHeaders(channel.headers),
                            secrets |-> NonBlank(channel.config) \cap SecretFields(t),
                            names |-> NonBlank(channel.headers)]
  BY <1>1 DEF Sanitized
<1>7. Unmasked(channel.config) => Unmasked(c)
  BY TextsDiffer DEF Unmasked
<1> HIDE DEF c
<1> QED
  BY <1>3, <1>4, <1>5, <1>6, <1>7 DEF ListedRows, HeaderMaps

\* What the form sends.
LEMMA SendsAsShown ==
  ASSUME ChannelInv, dialog # None
  PROVE  LET q == [type |-> chType, config |-> BuildConfig, headers |-> BuildHeaders, new |-> dialog = "new",
                   seen |-> [f \in Visible(chType, chValues) |-> Shows(f)], text |-> chHeaders, row |-> None,
                   answer |-> None]
         IN  /\ q \in ChannelSaves(chType) /\ SentAsShown(q)
             /\ Unmasked(q.config) /\ (q.headers # None => Unmasked(q.headers)) /\ ReadTrue(q)
<1> DEFINE visible == Visible(chType, chValues)
           seen == [f \in visible |-> Shows(f)]
           sent == {g \in visible : Layout(chType)[g].sent \/ Outgoing(g) # Blank}
<1>1. /\ chType \in ChannelTypes /\ chValues \in [FormFields(chType) -> FieldTexts]
      /\ chHeaders # None => chHeaders \in Maps(Headers)
      /\ \A f \in FormFields(chType) : chValues[f] = Masked => Layout(chType)[f].secret
  BY DEF ChannelInv, ChannelTypeOK, MasksStay
<1>2. visible \subseteq FormFields(chType) /\ sent \subseteq visible
  BY DEF Visible
<1>3. ASSUME NEW f \in FormFields(chType)
      PROVE  /\ Outgoing(f) = (IF chValues[f] \in Texts THEN chValues[f] ELSE Layout(chType)[f].default)
             /\ Outgoing(f) \in Texts \cup {Blank}
             /\ Layout(chType)[f].default # Blank => Layout(chType)[f].sent
             /\ f \in SecretFields(chType) => Layout(chType)[f].default = Blank
  <2>1. chValues[f] \in Texts \cup {Blank, Masked} /\ (chValues[f] = Masked => Layout(chType)[f].secret)
    BY <1>1 DEF FieldTexts
  <2>2. /\ Layout(chType)[f].default \in Texts \cup {Blank} /\ (f \in SecretFields(chType) <=> Layout(chType)[f].secret)
        /\ Layout(chType)[f].default # Blank => Layout(chType)[f].sent /\ ~Layout(chType)[f].secret
    BY <1>1, LayoutsAre
  <2> QED
    BY <2>1, <2>2, TextsDiffer DEF Outgoing, Sanitize
<1>4. \A f \in FormFields(chType) : /\ Shows(f) \in FieldTexts
                                    /\ Shows(f) \in Texts => chValues[f] = Shows(f)
                                    /\ chValues[f] \in Texts => Shows(f) = chValues[f]
  BY <1>1, TextsDiffer DEF Shows
<1>5. BuildConfig = [f \in sent |-> Outgoing(f)]
  BY DEF BuildConfig
<1>6. BuildConfig \in Maps(FormFields(chType)) /\ DOMAIN BuildConfig = sent
  <2>1. [f \in sent |-> Outgoing(f)] \in [sent -> FieldTexts]
    BY <1>2, <1>3, TextsDiffer
  <2> QED
    BY <1>2, <1>5, <2>1, MapsAre
<1>7. seen \in Maps(FormFields(chType)) /\ DOMAIN seen = visible
  <2>1. seen \in [visible -> FieldTexts]
    BY <1>2, <1>4
  <2> QED
    BY <1>2, <2>1, MapsAre
<1>8. BuildHeaders \in HeaderMaps /\ chHeaders \in HeaderMaps
      /\ (BuildHeaders # None => Unmasked(BuildHeaders))
      /\ (chHeaders # None => /\ BuildHeaders # None /\ DOMAIN BuildHeaders = DOMAIN chHeaders
                              /\ \A h \in DOMAIN chHeaders :
                                    BuildHeaders[h] = IF chHeaders[h] \in Texts THEN chHeaders[h] ELSE Blank)
  <2>1. CASE chHeaders = None
    BY <2>1 DEF BuildHeaders, HeaderMaps
  <2>2. CASE chHeaders # None
    <3>1. DOMAIN chHeaders \subseteq Headers /\ chHeaders \in [DOMAIN chHeaders -> FieldTexts]
      BY <1>1, <2>2, MapsAre
    <3>2. BuildHeaders = [h \in DOMAIN chHeaders |-> IF chHeaders[h] = Masked THEN Blank ELSE chHeaders[h]]
      BY <2>2 DEF BuildHeaders, HeadersInput, Sanitize
    <3>3. DOMAIN BuildHeaders = DOMAIN chHeaders /\ BuildHeaders \in [DOMAIN BuildHeaders -> FieldTexts]
          /\ Unmasked(BuildHeaders)
      BY <3>1, <3>2, TextsDiffer DEF Unmasked
    <3>4. BuildHeaders \in Maps(Headers)
      BY <3>1, <3>3, MapsAre
    <3>5. \A h \in DOMAIN chHeaders : BuildHeaders[h] = IF chHeaders[h] \in Texts THEN chHeaders[h] ELSE Blank
      BY <3>1, <3>2, TextsDiffer DEF FieldTexts
    <3> QED
      BY <1>1, <2>2, <3>3, <3>4, <3>5, ChannelAssumption DEF HeaderMaps
  <2> QED
    BY <2>1, <2>2
<1>9. Unmasked(BuildConfig)
  BY <1>2, <1>3, <1>5, TextsDiffer DEF Unmasked
<1>10. \A f \in visible : seen[f] \in Texts => f \in sent /\ BuildConfig[f] = seen[f]
  <2> SUFFICES ASSUME NEW f \in visible, Shows(f) \in Texts
               PROVE  f \in sent /\ BuildConfig[f] = Shows(f)
    OBVIOUS
  <2>1. Outgoing(f) = Shows(f)
    BY <1>2, <1>3, <1>4, TextsDiffer
  <2>2. f \in sent
    BY <2>1, TextsDiffer
  <2> QED
    BY <1>5, <2>1, <2>2
<1>11. \A f \in sent \cap SecretFields(chType) : BuildConfig[f] # Blank => seen[f] \in Texts
  <2> SUFFICES ASSUME NEW f \in sent \cap SecretFields(chType), Outgoing(f) # Blank
               PROVE  Shows(f) \in Texts
    BY <1>2, <1>5
  <2> QED
    BY <1>2, <1>3, <1>4
<1>14. \A f \in visible \ SecretFields(chType) :
          seen[f] = Blank => IF f \in sent /\ BuildConfig[f] # Blank
                             THEN BuildConfig[f] = Layout(chType)[f].default ELSE Layout(chType)[f].default = Blank
  <2> SUFFICES ASSUME NEW f \in visible, Shows(f) = Blank
               PROVE  IF f \in sent /\ Outgoing(f) # Blank
                      THEN Outgoing(f) = Layout(chType)[f].default ELSE Layout(chType)[f].default = Blank
    BY <1>5
  <2>1. chValues[f] \notin Texts
    BY <1>2, <1>4, TextsDiffer
  <2> QED
    BY <1>2, <1>3, <2>1
<1> DEFINE q == [type |-> chType, config |-> BuildConfig, headers |-> BuildHeaders, new |-> dialog = "new",
                 seen |-> seen, text |-> chHeaders, row |-> None, answer |-> None]
<1>12. q \in ChannelSaves(chType)
  <2>1. (dialog = "new") \in BOOLEAN
    OBVIOUS
  <2> HIDE DEF seen
  <2> QED
    BY <1>6, <1>7, <1>8, <2>1 DEF ChannelSaves
<1>13. SentAsShown(q)
  <2> HIDE DEF seen, sent, visible
  <2> QED
    BY <1>2, <1>6, <1>7, <1>8, <1>10, <1>11, <1>14 DEF SentAsShown
<1>15. ReadTrue(q)
  BY DEF ReadTrue
<1> QED
  BY <1>8, <1>9, <1>12, <1>13, <1>15

-----------------------------------------------------------------------------
(* The server's merge. *)
LEMMA SecretsMerge ==
  ASSUME NEW t \in ChannelTypes, NEW kept \in Maps(FormFields(t) \cup ServerOnly(t)), NEW sent \in Maps(FormFields(t))
  PROVE  LET m == MergeSecrets(t, kept, sent)
         IN  /\ m \in Maps(FormFields(t) \cup ServerOnly(t))
             /\ Unmasked(kept) /\ Unmasked(sent) => Unmasked(m)
             /\ DOMAIN m = DOMAIN sent \cup (SecretFields(t) \cap DOMAIN kept)
             /\ \A f \in DOMAIN m :
                   m[f] = (IF f \in SecretFields(t) /\ f \in DOMAIN kept /\ (f \notin DOMAIN sent \/ sent[f] = Blank)
                           THEN kept[f] ELSE sent[f])
<1> DEFINE m == MergeSecrets(t, kept, sent)
<1>1. /\ DOMAIN m = DOMAIN sent \cup (SecretFields(t) \cap DOMAIN kept)
      /\ \A f \in DOMAIN m :
            m[f] = (IF f \in SecretFields(t) /\ f \in DOMAIN kept /\ (f \notin DOMAIN sent \/ sent[f] = Blank)
                    THEN kept[f] ELSE sent[f])
      /\ m = [f \in DOMAIN m |-> m[f]]
  BY DEF MergeSecrets
<1>2. /\ DOMAIN kept \subseteq FormFields(t) \cup ServerOnly(t) /\ kept \in [DOMAIN kept -> FieldTexts]
      /\ DOMAIN sent \subseteq FormFields(t) /\ sent \in [DOMAIN sent -> FieldTexts]
  BY MapsAre
<1> HIDE DEF m
<1>3. m \in [DOMAIN m -> FieldTexts] /\ DOMAIN m \subseteq FormFields(t) \cup ServerOnly(t)
  BY <1>1, <1>2
<1>4. m \in Maps(FormFields(t) \cup ServerOnly(t))
  BY <1>3, MapsAre
<1>5. Unmasked(kept) /\ Unmasked(sent) => Unmasked(m)
  BY <1>1 DEF Unmasked
<1> QED
  BY <1>1, <1>4, <1>5 DEF m

LEMMA HeadersMerge ==
  ASSUME NEW kept \in HeaderMaps, NEW sent \in HeaderMaps
  PROVE  LET m == MergeHeaders(kept, sent)
         IN  /\ m \in HeaderMaps
             /\ /\ kept # None => Unmasked(kept)
                /\ sent # None => Unmasked(sent)
                => (m # None => Unmasked(m))
             /\ sent # None =>
                   /\ m # None /\ DOMAIN m = DOMAIN sent
                   /\ \A h \in DOMAIN sent :
                         m[h] = (IF kept # None /\ sent[h] = Blank /\ h \in DOMAIN kept THEN kept[h] ELSE sent[h])
<1> DEFINE m == MergeHeaders(kept, sent)
<1>1. CASE kept = None \/ sent = None
  BY <1>1 DEF MergeHeaders
<1>2. CASE kept # None /\ sent # None
  <2>1. /\ DOMAIN m = DOMAIN sent
        /\ \A h \in DOMAIN sent : m[h] = (IF sent[h] = Blank /\ h \in DOMAIN kept THEN kept[h] ELSE sent[h])
        /\ m = [h \in DOMAIN m |-> m[h]]
    BY <1>2 DEF MergeHeaders
  <2>2. /\ DOMAIN kept \subseteq Headers /\ kept \in [DOMAIN kept -> FieldTexts]
        /\ DOMAIN sent \subseteq Headers /\ sent \in [DOMAIN sent -> FieldTexts]
    BY <1>2, MapsAre DEF HeaderMaps
  <2> HIDE DEF m
  <2>3. m \in [DOMAIN m -> FieldTexts] /\ DOMAIN m \subseteq Headers
    BY <2>1, <2>2
  <2>4. m \in Maps(Headers) /\ m # None
    BY <2>3, MapsAre, ChannelAssumption
  <2>5. Unmasked(kept) /\ Unmasked(sent) => Unmasked(m)
    BY <2>1 DEF Unmasked
  <2> QED
    BY <1>2, <2>1, <2>4, <2>5 DEF HeaderMaps, m
<1> QED
  BY <1>1, <1>2

\* The row that a save would leave: whole, without masks, and with the secrets that it does not show.
LEMMA MergeKeeps ==
  ASSUME NEW q, q.type \in ChannelTypes, q \in ChannelSaves(q.type), SentAsShown(q), ReadTrue(q),
         Unmasked(q.config), q.headers # None => Unmasked(q.headers)
  PROVE  LET m == Merged(q)
         IN  /\ m \in ChannelRows(q.type) /\ m.type = q.type /\ m # None
             /\ Unmasked(m.config) /\ (m.headers # None => Unmasked(m.headers))
             /\ q.row # None =>
                   \A f \in SecretFields(q.type) \cap DOMAIN q.row.config :
                      \/ f \in DOMAIN m.config /\ m.config[f] = q.row.config[f]
                      \/ f \in DOMAIN q.seen /\ q.seen[f] \in Texts
             /\ \A f \in DOMAIN q.seen : q.seen[f] \in Texts => Has(m.config, f) /\ m.config[f] = q.seen[f]
             /\ \A f \in DOMAIN q.seen \ SecretFields(q.type) :
                   q.seen[f] = Blank => IF Has(m.config, f) THEN m.config[f] = Layout(q.type)[f].default
                                        ELSE Layout(q.type)[f].default = Blank
             /\ q.text # None =>
                   /\ DOMAIN m.headers = DOMAIN q.text
                   /\ \A h \in DOMAIN q.text :
                         m.headers[h] = IF q.text[h] \in Texts THEN q.text[h]
                                        ELSE IF q.row # None /\ q.row.headers # None /\ h \in DOMAIN q.row.headers
                                        THEN q.row.headers[h] ELSE Blank
<1>2. PICK m : m = Merged(q)
  OBVIOUS
<1>1. PICK row : row = q.row
  OBVIOUS
<1>3. row # None => /\ row.type = q.type /\ row \in ChannelRows(q.type) /\ Unmasked(row.config)
                    /\ (row.headers # None => Unmasked(row.headers))
  BY <1>1 DEF ReadTrue
<1>4. /\ q.config \in Maps(FormFields(q.type)) /\ q.headers \in HeaderMaps
      /\ row # None => /\ row.config \in Maps(FormFields(q.type) \cup ServerOnly(q.type))
                          /\ row.headers \in HeaderMaps
  BY <1>3 DEF ChannelSaves, ChannelRows
<1>5. /\ row = None => m.type = q.type /\ m.config = q.config /\ m.headers = q.headers
      /\ row # None => /\ m.type = q.type
                          /\ m.config = MergeSecrets(q.type, row.config, q.config)
                          /\ m.headers = MergeHeaders(row.headers, q.headers)
      /\ m = [type |-> m.type, config |-> m.config, headers |-> m.headers]
  BY <1>1, <1>2, <1>3 DEF Merged
<1>6. ASSUME row # None
      PROVE  /\ m.config \in Maps(FormFields(q.type) \cup ServerOnly(q.type)) /\ Unmasked(m.config)
             /\ DOMAIN m.config = DOMAIN q.config \cup (SecretFields(q.type) \cap DOMAIN row.config)
             /\ \A f \in DOMAIN m.config :
                   m.config[f] = (IF /\ f \in SecretFields(q.type) /\ f \in DOMAIN row.config
                                     /\ f \notin DOMAIN q.config \/ q.config[f] = Blank
                                  THEN row.config[f] ELSE q.config[f])
  <2>1. PICK kept, sent, t : kept = row.config /\ sent = q.config /\ t = q.type
    OBVIOUS
  <2>2. /\ t \in ChannelTypes /\ kept \in Maps(FormFields(t) \cup ServerOnly(t)) /\ sent \in Maps(FormFields(t))
        /\ Unmasked(kept) /\ Unmasked(sent) /\ m.config = MergeSecrets(t, kept, sent)
    BY <1>3, <1>4, <1>5, <1>6, <2>1
  <2>3. PICK merged : merged = MergeSecrets(t, kept, sent)
    OBVIOUS
  <2>4. /\ merged \in Maps(FormFields(t) \cup ServerOnly(t)) /\ Unmasked(merged)
        /\ DOMAIN merged = DOMAIN sent \cup (SecretFields(t) \cap DOMAIN kept)
        /\ \A f \in DOMAIN merged :
              merged[f] = (IF f \in SecretFields(t) /\ f \in DOMAIN kept /\ (f \notin DOMAIN sent \/ sent[f] = Blank)
                           THEN kept[f] ELSE sent[f])
    BY <2>2, <2>3, SecretsMerge
  <2> QED
    BY <2>1, <2>2, <2>3, <2>4
<1>7. ASSUME row # None
      PROVE  m.headers \in HeaderMaps /\ (m.headers # None => Unmasked(m.headers))
  <2>1. PICK kept, sent : kept = row.headers /\ sent = q.headers
    OBVIOUS
  <2> QED
    BY <1>3, <1>4, <1>5, <1>7, <2>1, HeadersMerge
<1>8. m.config \in Maps(FormFields(q.type) \cup ServerOnly(q.type)) /\ m.headers \in HeaderMaps
  <2>1. CASE row = None
    <3>1. q.config \in Maps(FormFields(q.type) \cup ServerOnly(q.type))
      BY <1>4, MapsAre
    <3> QED
      BY <1>4, <1>5, <2>1, <3>1
  <2>2. CASE row # None
    BY <1>6, <1>7, <2>2
  <2> QED
    BY <2>1, <2>2
<1>9. m \in ChannelRows(q.type) /\ m # None /\ m.type = q.type
  BY <1>3, <1>5, <1>8, ChannelAssumption DEF ChannelRows
<1>10. Unmasked(m.config) /\ (m.headers # None => Unmasked(m.headers))
  BY <1>3, <1>5, <1>6, <1>7
<1>11. \A f :
          /\ f \in DOMAIN q.config /\ q.config[f] # Blank => f \in DOMAIN m.config /\ m.config[f] = q.config[f]
          /\ f \notin SecretFields(q.type) /\ f \in DOMAIN m.config =>
                f \in DOMAIN q.config /\ m.config[f] = q.config[f]
          /\ (/\ row # None /\ f \in SecretFields(q.type) \cap DOMAIN row.config
              /\ f \notin DOMAIN q.config \/ q.config[f] = Blank)
             => f \in DOMAIN m.config /\ m.config[f] = row.config[f]
  <2>1. CASE row = None
    BY <1>5, <2>1
  <2>2. CASE row # None
    BY <1>6, <2>2
  <2> QED
    BY <2>1, <2>2
<1>12. ASSUME row # None, NEW f \in SecretFields(q.type) \cap DOMAIN row.config
       PROVE  \/ f \in DOMAIN m.config /\ m.config[f] = row.config[f]
              \/ f \in DOMAIN q.seen /\ q.seen[f] \in Texts
  BY <1>11, <1>12 DEF SentAsShown
<1>13. \A f \in DOMAIN q.seen : q.seen[f] \in Texts => Has(m.config, f) /\ m.config[f] = q.seen[f]
  BY <1>11, TextsDiffer DEF SentAsShown, Has
<1>14. ASSUME NEW f \in DOMAIN q.seen \ SecretFields(q.type), q.seen[f] = Blank
       PROVE  IF Has(m.config, f) THEN m.config[f] = Layout(q.type)[f].default ELSE Layout(q.type)[f].default = Blank
  <2>1. f \in DOMAIN m.config => f \in DOMAIN q.config /\ m.config[f] = q.config[f]
    BY <1>11, <1>14
  <2>2. f \in DOMAIN q.config /\ q.config[f] # Blank => f \in DOMAIN m.config
    BY <1>11
  <2>3. IF f \in DOMAIN q.config /\ q.config[f] # Blank
        THEN q.config[f] = Layout(q.type)[f].default ELSE Layout(q.type)[f].default = Blank
    BY <1>14 DEF SentAsShown
  <2> QED
    BY <2>1, <2>2, <2>3 DEF Has
<1>15. ASSUME q.text # None
       PROVE  /\ DOMAIN m.headers = DOMAIN q.text
              /\ \A h \in DOMAIN q.text :
                    m.headers[h] = IF q.text[h] \in Texts THEN q.text[h]
                                   ELSE IF row # None /\ row.headers # None /\ h \in DOMAIN row.headers
                                   THEN row.headers[h] ELSE Blank
  <2>1. /\ q.headers # None /\ DOMAIN q.headers = DOMAIN q.text
        /\ \A h \in DOMAIN q.text : q.headers[h] = IF q.text[h] \in Texts THEN q.text[h] ELSE Blank
    BY <1>15 DEF SentAsShown
  <2>2. CASE row = None
    BY <1>5, <2>1, <2>2
  <2>3. CASE row # None
    <3>1. /\ DOMAIN m.headers = DOMAIN q.headers
          /\ \A h \in DOMAIN q.headers :
                m.headers[h] = (IF row.headers # None /\ q.headers[h] = Blank /\ h \in DOMAIN row.headers
                                THEN row.headers[h] ELSE q.headers[h])
      BY <1>4, <1>5, <2>1, <2>3, HeadersMerge
    <3> QED
      BY <2>1, <2>3, <3>1, TextsDiffer
  <2> QED
    BY <2>2, <2>3
<1> QED
  BY <1>1, <1>2, <1>9, <1>10, <1>12, <1>13, <1>14, <1>15

-----------------------------------------------------------------------------
(* The steps. *)
KeepsSecrets ==
    Serves /\ formSaving.row # None =>
        \A f \in SecretFields(formSaving.type) \cap DOMAIN formSaving.row.config :
            \/ f \in DOMAIN stored'.config /\ stored'.config[f] = formSaving.row.config[f]
            \/ f \in DOMAIN formSaving.seen /\ formSaving.seen[f] \in Texts

StoresShown ==
    Serves =>
        /\ \A f \in DOMAIN formSaving.seen :
              formSaving.seen[f] \in Texts => Has(stored'.config, f) /\ stored'.config[f] = formSaving.seen[f]
        /\ \A f \in DOMAIN formSaving.seen \ SecretFields(formSaving.type) :
              formSaving.seen[f] = Blank =>
                  IF Has(stored'.config, f) THEN stored'.config[f] = Layout(formSaving.type)[f].default
                  ELSE Layout(formSaving.type)[f].default = Blank
        /\ formSaving.text # None =>
              /\ DOMAIN stored'.headers = DOMAIN formSaving.text
              /\ \A h \in DOMAIN formSaving.text :
                    stored'.headers[h] =
                        IF formSaving.text[h] \in Texts THEN formSaving.text[h]
                        ELSE IF formSaving.row # None /\ formSaving.row.headers # None /\ h \in DOMAIN formSaving.row.headers
                        THEN formSaving.row.headers[h] ELSE Blank

\* Only the server's handling of a save is bound by them.
LEMMA OnlyServesBind ==
  ASSUME formSaving' = formSaving \/ formSaving' = None \/ formSaving = None \/ formSaving.answer # "read"
  PROVE  KeepsSecrets /\ StoresShown
BY ChannelAssumption DEF KeepsSecrets, StoresShown, Serves

\* A form that is opened has the fields of its type, and no masks in them.
LEMMA ChannelOpens ==
  ASSUME ChannelInv, AddChannel \/ EditChannel
  PROVE  ChannelInv'
<1>0. ChannelTypeOK /\ OneChannel /\ MasksStay /\ UNCHANGED <<stored, listed, formSaving>>
  BY DEF ChannelInv, AddChannel, EditChannel
<1>1. ASSUME AddChannel
      PROVE  /\ dialog' = "new" /\ listed = None /\ chType' \in ChannelTypes /\ chHeaders' = None /\ configured' = {}
             /\ chValues' \in [FormFields(chType') -> FieldTexts]
             /\ \A f \in FormFields(chType') : chValues'[f] # Masked
  <2>1. PICK t \in ChannelTypes : FormHolds(t, ValuesOf(t, <<>>), None, {})
    BY <1>1 DEF AddChannel
  <2>2. PICK empty : empty = <<>>
    OBVIOUS
  <2>3. DOMAIN empty = {}
    BY <2>2
  <2>4. ValuesOf(t, empty) \in [FormFields(t) -> FieldTexts] /\ \A f \in FormFields(t) : ValuesOf(t, empty)[f] # Masked
    BY <2>3, ValuesAre DEF Unmasked
  <2> QED
    BY <1>1, <2>1, <2>2, <2>4 DEF AddChannel, FormHolds
<1>2. ASSUME EditChannel
      PROVE  /\ dialog' = "old" /\ listed # None /\ chType' \in ChannelTypes /\ chType' = listed.type
             /\ configured' \subseteq SecretFields(chType')
             /\ chHeaders' # None => chHeaders' \in Maps(Headers)
             /\ chValues' \in [FormFields(chType') -> FieldTexts]
             /\ \A f \in FormFields(chType') : chValues'[f] # Masked
  <2>1. PICK row, t : row = listed /\ t = listed.type
    OBVIOUS
  <2>2. /\ t \in ChannelTypes /\ row \in ListedRows(t) /\ Unmasked(row.config)
        /\ dialog' = "old" /\ listed # None
        /\ chType' = t /\ chValues' = ValuesOf(t, row.config) /\ chHeaders' = HeadersDisplay(row)
        /\ configured' = row.secrets \cap FormFields(t)
    BY <1>0, <1>2, <2>1 DEF ChannelTypeOK, MasksStay, EditChannel, FormHolds
  <2>3. row.config \in Maps(FormFields(t) \cup ServerOnly(t)) /\ row.secrets \subseteq SecretFields(t)
        /\ row.names \subseteq Headers
    BY <2>2 DEF ListedRows
  <2>4. \A f \in DOMAIN row.config \cap FormFields(t) : row.config[f] \in FieldTexts
    BY <2>3, MapsAre
  <2>5. /\ ValuesOf(t, row.config) \in [FormFields(t) -> FieldTexts]
        /\ \A f \in FormFields(t) : ValuesOf(t, row.config)[f] # Masked
    BY <2>2, <2>4, ValuesAre
  <2>6. HeadersDisplay(row) # None =>
           HeadersDisplay(row) \in Maps(Headers)
    <3>1. PICK masks : masks = [h \in row.names |-> Masked]
      OBVIOUS
    <3>2. DOMAIN masks = row.names /\ masks \in [DOMAIN masks -> FieldTexts]
      BY <3>1, TextsDiffer
    <3>3. masks \in Maps(Headers)
      BY <2>3, <3>2, MapsAre
    <3> QED
      BY <3>1, <3>2, <3>3 DEF HeadersDisplay
  <2> QED
    BY <2>1, <2>2, <2>3, <2>5, <2>6
<1>3. dialog' # None /\ dialog' \in {"new", "old"}
  BY <1>1, <1>2, ChannelAssumption
<1>4. ChannelTypeOK'
  <2>1. chHeaders' # None => chHeaders' \in Maps(Headers)
    BY <1>1, <1>2
  <2>2. chType' \in ChannelTypes /\ chValues' \in [FormFields(chType') -> FieldTexts]
        /\ configured' \subseteq SecretFields(chType')
    BY <1>1, <1>2
  <2> QED
    BY <1>0, <1>3, <2>1, <2>2 DEF ChannelTypeOK
<1>5. OneChannel'
  BY <1>0, <1>1, <1>2 DEF OneChannel
<1>6. MasksStay'
  BY <1>0, <1>1, <1>2 DEF MasksStay, MaskNotStored
<1> QED
  BY <1>0, <1>4, <1>5, <1>6 DEF ChannelInv, SentAsShown, ReadTrue

\* A form that is closed has nothing to be right about.
LEMMA ChannelCloses ==
  ASSUME ChannelInv, dialog' = None, UNCHANGED <<stored, listed, formSaving>>
  PROVE  ChannelInv'
<1>1. ChannelTypeOK'
  BY DEF ChannelInv, ChannelTypeOK
<1>2. OneChannel'
  BY ChannelAssumption DEF ChannelInv, OneChannel
<1>3. MasksStay'
  BY DEF ChannelInv, MasksStay, MaskNotStored
<1> QED
  BY <1>1, <1>2, <1>3 DEF ChannelInv, SentAsShown, ReadTrue

\* What is typed is a text, or a mask in the field of a secret.
LEMMA TypingKeeps ==
  ASSUME ChannelInv,
         \/ dialog # None /\ \E f \in FormFields(chType), v \in FieldTexts : TypeField(f, v)
         \/ \E names \in SUBSET Headers, h \in Headers, v \in FieldTexts : TypeHeaders(names, h, v)
         \/ EraseHeaders
  PROVE  ChannelInv' /\ UNCHANGED formSaving
<1>0. ChannelTypeOK /\ OneChannel /\ MasksStay
      /\ UNCHANGED <<stored, listed, dialog, chType, configured, formSaving>> /\ dialog # None
  BY DEF ChannelInv, TypeField, TypeHeaders, EraseHeaders, Touches
<1>1. /\ chValues' \in [FormFields(chType) -> FieldTexts]
      /\ \A f \in FormFields(chType) : chValues'[f] = Masked => Layout(chType)[f].secret
  <2>0. /\ chValues \in [FormFields(chType) -> FieldTexts]
        /\ \A f \in FormFields(chType) : chValues[f] = Masked => Layout(chType)[f].secret
    BY <1>0 DEF ChannelTypeOK, MasksStay
  <2>1. ASSUME NEW f \in FormFields(chType), NEW v \in FieldTexts, TypeField(f, v)
        PROVE  /\ chValues' \in [FormFields(chType) -> FieldTexts]
               /\ \A g \in FormFields(chType) : chValues'[g] = Masked => Layout(chType)[g].secret
    <3>1. chValues' = [chValues EXCEPT ![f] = v] /\ (v = Masked => Layout(chType)[f].secret) /\ v \in FieldTexts
      BY <2>1, TextsDiffer DEF TypeField
    <3> QED
      BY <2>0, <2>1, <3>1
  <2> QED
    BY <2>0, <2>1 DEF TypeHeaders, EraseHeaders
<1>2. chHeaders' # None => chHeaders' \in Maps(Headers)
  <2>0. chHeaders # None => chHeaders \in Maps(Headers)
    BY <1>0 DEF ChannelTypeOK
  <2>1. ASSUME NEW names \in SUBSET Headers, NEW h \in Headers, NEW v \in FieldTexts, TypeHeaders(names, h, v)
        PROVE  chHeaders' \in Maps(Headers)
    <3>1. PICK text :
             text = [n \in names |-> IF n # h /\ chHeaders # None /\ n \in DOMAIN chHeaders THEN chHeaders[n] ELSE v]
      OBVIOUS
    <3>2. v \in FieldTexts
      OBVIOUS
    <3>3. chHeaders # None => chHeaders \in [DOMAIN chHeaders -> FieldTexts]
      BY <2>0, MapsAre
    <3>4. DOMAIN text = names /\ text \in [DOMAIN text -> FieldTexts]
      BY <2>0, <3>1, <3>2, <3>3
    <3>5. text \in Maps(Headers)
      BY <2>1, <3>4, MapsAre
    <3>6. chHeaders' = text
      BY <2>1, <3>1 DEF TypeHeaders
    <3> QED
      BY <3>4, <3>5, <3>6
  <2>2. (\E f \in FormFields(chType), v \in FieldTexts : TypeField(f, v)) => chHeaders' = chHeaders
    BY DEF TypeField
  <2>3. EraseHeaders => chHeaders' = None
    BY DEF EraseHeaders
  <2> QED
    BY <2>0, <2>1, <2>2, <2>3
<1>3. ChannelTypeOK'
  BY <1>0, <1>1, <1>2 DEF ChannelTypeOK
<1>4. OneChannel'
  BY <1>0 DEF OneChannel
<1>5. MasksStay'
  BY <1>0, <1>1 DEF MasksStay, MaskNotStored
<1> QED
  BY <1>0, <1>3, <1>4, <1>5 DEF ChannelInv, SentAsShown, ReadTrue

\* A save that is sent is for the channel that there is, and has what was shown.
LEMMA SavingKeeps ==
  ASSUME ChannelInv, SaveChannel
  PROVE  ChannelInv'
<1>1. PICK q : q = [type |-> chType, config |-> BuildConfig, headers |-> BuildHeaders, new |-> dialog = "new",
                    seen |-> [f \in Visible(chType, chValues) |-> Shows(f)], text |-> chHeaders, row |-> None,
                    answer |-> None]
  OBVIOUS
<1>2. /\ formSaving' = q /\ formSaving = None /\ dialog # None
      /\ UNCHANGED <<stored, listed, dialog, chType, chValues, chHeaders, configured>>
  BY <1>1 DEF SaveChannel, fields
<1>3. /\ q \in ChannelSaves(chType) /\ SentAsShown(q) /\ ReadTrue(q)
      /\ Unmasked(q.config) /\ (q.headers # None => Unmasked(q.headers))
  <2>1. /\ q.config = BuildConfig /\ q.headers = BuildHeaders
    BY <1>1
  <2> QED
    BY <1>1, <1>2, <2>1, SendsAsShown
<1>4. q.type = chType /\ q.answer = None /\ chType \in ChannelTypes /\ q # None
  BY <1>1, <1>2, <1>3, ChannelAssumption DEF ChannelInv, ChannelTypeOK
<1>5. ChannelTypeOK'
  BY <1>2, <1>3, <1>4 DEF ChannelInv, ChannelTypeOK
<1>6. OneChannel'
  <2>1. stored # None => dialog = "old" /\ chType = listed.type /\ listed.type = stored.type
    BY <1>2 DEF ChannelInv, ChannelTypeOK, OneChannel
  <2>2. stored # None => listed # None
    BY <1>2 DEF ChannelInv, OneChannel
  <2>3. q.answer # "saved"
    BY <1>4, ChannelAssumption
  <2>4. q.new <=> listed = None
    <3>1. q.new <=> dialog = "new"
      BY <1>1
    <3>2. dialog \in {"new", "old"}
      BY <1>2 DEF ChannelInv, ChannelTypeOK
    <3> QED
      BY <3>1, <3>2 DEF ChannelInv, OneChannel
  <2> QED
    BY <1>2, <1>4, <2>1, <2>2, <2>3, <2>4 DEF ChannelInv, OneChannel
<1>7. MasksStay'
  BY <1>2, <1>3 DEF ChannelInv, MasksStay, MaskNotStored
<1>8. (SentAsShown(formSaving) /\ ReadTrue(formSaving))'
  BY <1>2, <1>3 DEF SentAsShown, ReadTrue
<1> QED
  BY <1>5, <1>6, <1>7, <1>8 DEF ChannelInv

\* The server reads the row, and refuses a bad configuration.
LEMMA ReadingKeeps ==
  ASSUME ChannelInv, ReadChannel
  PROVE  ChannelInv' /\ formSaving.answer # "read"
<1>1. PICK q : q = formSaving
  OBVIOUS
<1>2. PICK p : p = formSaving'
  OBVIOUS
<1>3. /\ q.type \in ChannelTypes /\ q \in ChannelSaves(q.type) /\ SentAsShown(q) /\ q # None /\ q.answer = None
      /\ Unmasked(q.config) /\ (q.headers # None => Unmasked(q.headers))
      /\ UNCHANGED <<stored, listed, dialog, chType, chValues, chHeaders, configured>>
  BY <1>1 DEF ChannelInv, ChannelTypeOK, MasksStay, ReadChannel, fields
<1>4. q.answer # "saved" /\ q.answer # "read" /\ q.answer # "failed"
  BY <1>3, ChannelAssumption
<1>5. stored # None => /\ stored.type = q.type /\ stored \in ChannelRows(q.type) /\ Unmasked(stored.config)
                       /\ (stored.headers # None => Unmasked(stored.headers))
  <2>1. stored # None => stored.type = q.type
    BY <1>1, <1>3, <1>4 DEF ChannelInv, OneChannel
  <2> QED
    BY <2>1 DEF ChannelInv, ChannelTypeOK, MasksStay, MaskNotStored, Unmasked
<1>6. PICK answer \in {"read", "failed"} : p = [[q EXCEPT !.row = stored] EXCEPT !.answer = answer]
  BY <1>1, <1>2 DEF ReadChannel
<1>7. /\ p \in ChannelSaves(q.type) /\ p.type = q.type /\ p.config = q.config /\ p.headers = q.headers /\ p.new = q.new
      /\ p.seen = q.seen /\ p.text = q.text /\ p.row = stored /\ p.answer = answer
  BY <1>3, <1>5, <1>6 DEF ChannelSaves
<1>8. p # None /\ SentAsShown(p) /\ ReadTrue(p) /\ p.answer # "saved"
  <2>1. p # None
    BY <1>3, <1>7, ChannelAssumption
  <2>2. SentAsShown(p)
    BY <1>3, <1>7 DEF SentAsShown
  <2>3. ReadTrue(p)
    BY <1>5, <1>7 DEF ReadTrue
  <2> QED
    BY <1>7, <2>1, <2>2, <2>3
<1>9. ChannelTypeOK'
  BY <1>2, <1>3, <1>7, <1>8 DEF ChannelInv, ChannelTypeOK
<1>10. OneChannel'
  <2>1. q.new <=> listed = None
    BY <1>1, <1>3 DEF ChannelInv, OneChannel
  <2>2. stored # None => listed # None
    BY <1>1, <1>4 DEF ChannelInv, OneChannel
  <2> QED
    BY <1>2, <1>3, <1>5, <1>7, <1>8, <2>1, <2>2 DEF ChannelInv, OneChannel
<1>11. MasksStay'
  BY <1>2, <1>3, <1>7 DEF ChannelInv, MasksStay, MaskNotStored
<1>12. (SentAsShown(formSaving) /\ ReadTrue(formSaving))'
  BY <1>2, <1>8 DEF SentAsShown, ReadTrue
<1> QED
  BY <1>1, <1>4, <1>9, <1>10, <1>11, <1>12 DEF ChannelInv

\* The server writes: the row has what was shown, and its other secrets as they were read.
LEMMA WritingKeeps ==
  ASSUME ChannelInv, WriteChannel
  PROVE  ChannelInv' /\ KeepsSecrets /\ StoresShown
<1>1. PICK q, m : q = formSaving /\ m = Merged(formSaving)
  OBVIOUS
<1>2. PICK p : p = formSaving'
  OBVIOUS
<1>3. /\ q.type \in ChannelTypes /\ q \in ChannelSaves(q.type) /\ SentAsShown(q) /\ ReadTrue(q)
      /\ q # None /\ q.answer = "read" /\ stored' = m
      /\ Unmasked(q.config) /\ (q.headers # None => Unmasked(q.headers))
      /\ UNCHANGED <<listed, dialog, chType, chValues, chHeaders, configured>>
  BY <1>1 DEF ChannelInv, ChannelTypeOK, MasksStay, WriteChannel, fields
<1>4. p = [q EXCEPT !.answer = "saved"]
  BY <1>1, <1>2 DEF WriteChannel
<1>5. /\ p \in ChannelSaves(q.type) /\ p.type = q.type /\ p.config = q.config /\ p.headers = q.headers /\ p.new = q.new
      /\ p.seen = q.seen /\ p.text = q.text /\ p.row = q.row /\ p.answer = "saved"
  BY <1>3, <1>4 DEF ChannelSaves
<1>6. p # None /\ SentAsShown(p) /\ ReadTrue(p)
  <2>1. p # None
    BY <1>3, <1>5, ChannelAssumption
  <2>2. SentAsShown(p)
    BY <1>3, <1>5 DEF SentAsShown
  <2>3. ReadTrue(p)
    BY <1>3, <1>5 DEF ReadTrue
  <2> QED
    BY <2>1, <2>2, <2>3
<1>7. /\ m \in ChannelRows(q.type) /\ m.type = q.type /\ m # None
      /\ Unmasked(m.config) /\ (m.headers # None => Unmasked(m.headers))
  BY <1>1, <1>3, MergeKeeps
<1>8. ChannelTypeOK'
  <2>1. stored' # None => (stored.type)' \in ChannelTypes /\ stored' \in ChannelRows((stored.type)')
    BY <1>3, <1>7
  <2>2. formSaving' # None => (formSaving.type)' \in ChannelTypes /\ formSaving' \in ChannelSaves((formSaving.type)')
    BY <1>2, <1>3, <1>5
  <2> QED
    BY <1>3, <2>1, <2>2 DEF ChannelInv, ChannelTypeOK
<1>9. OneChannel'
  <2>1. listed # None => listed.type = q.type
    BY <1>1, <1>3 DEF ChannelInv, OneChannel
  <2>2. q.new <=> listed = None
    BY <1>1, <1>3 DEF ChannelInv, OneChannel
  <2> QED
    BY <1>2, <1>3, <1>5, <1>6, <1>7, <2>1, <2>2 DEF ChannelInv, OneChannel
<1>10. MasksStay'
  <2>1. MaskNotStored'
    BY <1>3, <1>7 DEF MaskNotStored, Unmasked
  <2> QED
    BY <1>2, <1>3, <1>5, <2>1 DEF ChannelInv, MasksStay
<1>11. ChannelInv'
  <2>1. (SentAsShown(formSaving) /\ ReadTrue(formSaving))'
    BY <1>2, <1>6 DEF SentAsShown, ReadTrue
  <2> QED
    BY <1>8, <1>9, <1>10, <2>1 DEF ChannelInv
<1>12. KeepsSecrets
  BY <1>1, <1>3, MergeKeeps DEF KeepsSecrets
<1>13. StoresShown
  BY <1>1, <1>3, MergeKeeps DEF StoresShown
<1> QED
  BY <1>11, <1>12, <1>13

\* The list is given what the server has.
LEMMA ListingKeeps ==
  ASSUME ChannelInv, stored' # None, (stored.type)' \in ChannelTypes, stored' \in ChannelRows((stored.type)'),
         MaskNotStored', listed' = Sanitized(stored'), dialog' = None, formSaving' = None
  PROVE  ChannelInv'
<1>1. PICK row, t : row = stored' /\ t = row.type
  OBVIOUS
<1>2. /\ t \in ChannelTypes /\ row \in ChannelRows(t) /\ Unmasked(row.config) /\ row # None
      /\ listed' = Sanitized(row)
  BY <1>1 DEF MaskNotStored, Unmasked
<1>3. /\ listed' \in ListedRows(t) /\ (listed').type = t /\ Unmasked((listed').config) /\ listed' # None
  BY <1>2, SanitizedIsListed, ChannelAssumption
<1>4. ChannelTypeOK'
  BY <1>1, <1>2, <1>3 DEF ChannelTypeOK
<1>5. OneChannel'
  BY <1>1, <1>2, <1>3, ChannelAssumption DEF OneChannel
<1>6. MasksStay'
  BY <1>3 DEF MasksStay
<1> QED
  BY <1>4, <1>5, <1>6 DEF ChannelInv

LEMMA AnsweringKeeps ==
  ASSUME ChannelInv, SaveAnswered
  PROVE  ChannelInv' /\ formSaving' = None
<1>1. /\ stored # None /\ stored' = stored /\ listed' = Sanitized(stored) /\ dialog' = None /\ formSaving' = None
      /\ stored.type \in ChannelTypes /\ stored \in ChannelRows(stored.type) /\ MaskNotStored
  BY DEF ChannelInv, OneChannel, ChannelTypeOK, MasksStay, SaveAnswered
<1>2. MaskNotStored'
  BY <1>1 DEF MaskNotStored
<1> QED
  BY <1>1, <1>2, ListingKeeps

LEMMA FailingKeeps ==
  ASSUME ChannelInv, SaveFails
  PROVE  ChannelInv' /\ formSaving' = None
<1>1. /\ formSaving' = None /\ formSaving # None
      /\ UNCHANGED <<listed, dialog, chType, chValues, chHeaders, configured>>
      /\ \/ stored' = stored /\ ~(formSaving.answer = "saved" /\ formSaving.new)
         \/ stored' = None /\ formSaving.new
  BY DEF SaveFails, fields
<1>2. formSaving.new <=> listed = None
  BY <1>1 DEF ChannelInv, OneChannel
<1>3. ChannelTypeOK'
  BY <1>1 DEF ChannelInv, ChannelTypeOK
<1>4. OneChannel'
  BY <1>1, <1>2 DEF ChannelInv, OneChannel
<1>5. MasksStay'
  BY <1>1 DEF ChannelInv, MasksStay, MaskNotStored
<1> QED
  BY <1>1, <1>3, <1>4, <1>5 DEF ChannelInv

LEMMA CreatingElsewhereKeeps ==
  ASSUME ChannelInv, NEW t \in ChannelTypes, CreateElsewhere(t)
  PROVE  ChannelInv' /\ formSaving' = None
<1>1. PICK config : config = [f \in FormFields(t) \cup ServerOnly(t) |-> "a"]
  OBVIOUS
<1>2. PICK headers : headers = IF t = "webhook" THEN [h \in Headers |-> "a"] ELSE None
  OBVIOUS
<1>3. /\ stored' = [type |-> t, config |-> config, headers |-> headers] /\ listed' = Sanitized(stored')
      /\ dialog' = None /\ formSaving' = None
  BY <1>1, <1>2 DEF CreateElsewhere
<1>4. "a" \in FieldTexts /\ "a" # Masked
  BY DEF FieldTexts, Texts, Masked
<1>5. config \in Maps(FormFields(t) \cup ServerOnly(t)) /\ Unmasked(config)
  <2>1. DOMAIN config = FormFields(t) \cup ServerOnly(t) /\ config \in [DOMAIN config -> FieldTexts]
        /\ \A f \in DOMAIN config : config[f] = "a"
    BY <1>1, <1>4
  <2> QED
    BY <1>4, <2>1, MapsAre DEF Unmasked
<1>6. headers \in HeaderMaps /\ (headers # None => Unmasked(headers))
  <2>1. PICK full : full = [h \in Headers |-> "a"]
    OBVIOUS
  <2>2. DOMAIN full = Headers /\ full \in [DOMAIN full -> FieldTexts] /\ \A h \in DOMAIN full : full[h] = "a"
    BY <1>4, <2>1
  <2>3. full \in Maps(Headers) /\ Unmasked(full)
    BY <1>4, <2>2, MapsAre DEF Unmasked
  <2> QED
    BY <1>2, <2>1, <2>3 DEF HeaderMaps
<1>7. PICK row : row = stored'
  OBVIOUS
<1>8. row \in ChannelRows(t) /\ row.type = t /\ row # None /\ Unmasked(row.config)
      /\ (row.headers # None => Unmasked(row.headers))
  <2>1. row = [type |-> t, config |-> config, headers |-> headers]
    BY <1>3, <1>7
  <2>2. row \in ChannelRows(t) /\ row.type = t /\ row.config = config /\ row.headers = headers
    BY <1>5, <1>6, <2>1 DEF ChannelRows
  <2> QED
    BY <1>5, <1>6, <2>2, ChannelAssumption
<1>9. MaskNotStored'
  BY <1>7, <1>8 DEF MaskNotStored, Unmasked
<1> QED
  BY <1>3, <1>7, <1>8, <1>9, ListingKeeps

LEMMA RotatingKeeps ==
  ASSUME ChannelInv, stored # None, NEW f \in SecretFields(stored.type), Rotate(f)
  PROVE  ChannelInv' /\ UNCHANGED formSaving
<1>1. PICK row, t, config : row = stored /\ t = stored.type /\ config = [stored.config EXCEPT ![f] = "b"]
  OBVIOUS
<1>2. /\ stored' = [row EXCEPT !.config = config] /\ f \in DOMAIN row.config
      /\ UNCHANGED <<listed, dialog, chType, chValues, chHeaders, configured, formSaving>>
  BY <1>1 DEF Rotate, fields
<1>3. /\ t \in ChannelTypes /\ row \in ChannelRows(t) /\ row.type = t /\ Unmasked(row.config)
      /\ (row.headers # None => Unmasked(row.headers))
  BY <1>1 DEF ChannelInv, ChannelTypeOK, MasksStay, MaskNotStored, Unmasked
<1>4. config \in Maps(FormFields(t) \cup ServerOnly(t)) /\ Unmasked(config)
  <2>1. "b" \in FieldTexts /\ "b" # Masked
    BY DEF FieldTexts, Texts, Masked
  <2>2. row.config \in Maps(FormFields(t) \cup ServerOnly(t))
    BY <1>3 DEF ChannelRows
  <2>3. DOMAIN row.config \subseteq FormFields(t) \cup ServerOnly(t) /\ row.config \in [DOMAIN row.config -> FieldTexts]
    BY <2>2, MapsAre
  <2>4. /\ DOMAIN config = DOMAIN row.config
        /\ \A g \in DOMAIN config : config[g] = (IF g = f THEN "b" ELSE row.config[g])
        /\ config \in [DOMAIN config -> FieldTexts]
    BY <1>1, <1>2, <2>1, <2>3
  <2> QED
    BY <1>3, <2>1, <2>3, <2>4, MapsAre DEF Unmasked
<1>5. PICK now : now = stored'
  OBVIOUS
<1>6. /\ now \in ChannelRows(t) /\ now.type = t /\ now.config = config /\ now.headers = row.headers
  BY <1>2, <1>3, <1>4, <1>5 DEF ChannelRows
<1>7. now # None
  BY <1>3, <1>6, ChannelAssumption
<1>8. ChannelTypeOK'
  BY <1>2, <1>3, <1>5, <1>6 DEF ChannelInv, ChannelTypeOK
<1>9. OneChannel'
  BY <1>1, <1>2, <1>5, <1>6, <1>7 DEF ChannelInv, OneChannel
<1>10. MasksStay'
  <2>1. MaskNotStored'
    BY <1>3, <1>4, <1>5, <1>6 DEF MaskNotStored, Unmasked
  <2> QED
    BY <1>2, <2>1 DEF ChannelInv, MasksStay
<1> QED
  BY <1>2, <1>8, <1>9, <1>10 DEF ChannelInv, SentAsShown, ReadTrue

-----------------------------------------------------------------------------
LEMMA ChannelStarts == ChannelInit => ChannelInv
BY ChannelAssumption DEF ChannelInit, ChannelInv, ChannelTypeOK, OneChannel, MasksStay, MaskNotStored

LEMMA ChannelStays ==
  ASSUME ChannelInv, [ChannelNext]_channelVars
  PROVE  ChannelInv' /\ [KeepsSecrets]_channelVars /\ [StoresShown]_channelVars
<1>1. CASE AddChannel \/ EditChannel
  <2>1. formSaving' = formSaving
    BY <1>1 DEF AddChannel, EditChannel
  <2> QED
    BY <1>1, <2>1, ChannelOpens, OnlyServesBind
<1>2. CASE CloseForm
  BY <1>2, ChannelCloses, OnlyServesBind DEF CloseForm
<1>3. CASE SaveChannel
  <2>1. formSaving = None
    BY <1>3 DEF SaveChannel
  <2> QED
    BY <1>3, <2>1, SavingKeeps, OnlyServesBind
<1>4. CASE ReadChannel
  BY <1>4, ReadingKeeps, OnlyServesBind
<1>11. CASE WriteChannel
  BY <1>11, WritingKeeps
<1>5. CASE SaveAnswered
  BY <1>5, AnsweringKeeps, OnlyServesBind
<1>6. CASE SaveFails
  BY <1>6, FailingKeeps, OnlyServesBind
<1>7. CASE \/ dialog # None /\ \E f \in FormFields(chType), v \in FieldTexts : TypeField(f, v)
           \/ \E names \in SUBSET Headers, h \in Headers, v \in FieldTexts : TypeHeaders(names, h, v)
           \/ EraseHeaders
  BY <1>7, TypingKeeps, OnlyServesBind
<1>8. CASE \E t \in ChannelTypes : CreateElsewhere(t)
  BY <1>8, CreatingElsewhereKeeps, OnlyServesBind
<1>9. CASE stored # None /\ \E f \in SecretFields(stored.type) : Rotate(f)
  BY <1>9, RotatingKeeps, OnlyServesBind
<1>10. CASE UNCHANGED channelVars
  <2>1. UNCHANGED <<stored, listed, dialog, chType, chValues, chHeaders, configured, formSaving>>
    BY <1>10 DEF channelVars
  <2>2. ChannelInv'
    BY <2>1 DEF ChannelInv, ChannelTypeOK, OneChannel, MasksStay, MaskNotStored, SentAsShown, ReadTrue
  <2> QED
    BY <1>10, <2>2
<1> QED
  BY <1>1, <1>2, <1>3, <1>4, <1>5, <1>6, <1>7, <1>8, <1>9, <1>10, <1>11 DEF ChannelNext

\* The inductive invariant holds in every state (notification-channel-form,
\* notification_channel_security.go).
THEOREM ChannelInvariant == ChannelSpec => []ChannelInv
<1> QED
  BY ChannelStarts, ChannelStays, PTL DEF ChannelSpec

\* The mask is never stored; a save changes a secret of the row that it read only if the form
\* showed another text for it; what the form showed is what the channel has afterwards
\* (buildConfig, UpdateChannel, mergeNotificationConfigWithExistingSecrets,
\* mergeWebhookHeadersWithExisting).
THEOREM ChannelsStayAsShown == ChannelSpec => ChannelKept
<1>1. ChannelInv => MaskNotStored
  BY DEF ChannelInv, MasksStay
<1>2. ChannelInv /\ [ChannelNext]_channelVars => [KeepsSecrets]_channelVars /\ [StoresShown]_channelVars
  BY ChannelStays
<1> QED
  BY <1>1, <1>2, ChannelInvariant, PTL
     DEF ChannelSpec, ChannelKept, SecretsSurvive, SavedAsShown, KeepsSecrets, StoresShown

-----------------------------------------------------------------------------
(* IconPicker: the choice that a save leaves in its row. *)

PickerSpec == PickerInit /\ [][PickerNext]_pickerVars

IconFiles == Icons \ {"", "glyph", "url"}

IconSave == [n : Nat, form : 1..MaxForms, row : IconRows \cup {"new"}, file : IconFiles \cup {""}, value : Icons,
             at : {"upload", "write", "refetch", "late"}, want : Icons \cup {None}]

PickerTypeOK ==
    /\ pickFor \in IconRows \cup {"new", None} /\ iconValue \in Icons /\ pickedFile \in IconFiles \cup {""}
    /\ formBusy \in BOOLEAN /\ closings \in Nat /\ filePreview \in IconFiles \cup {""}
    /\ checking \subseteq IconFiles
    /\ iconSaves \subseteq IconSave
    /\ storedIcon \in [IconRows -> Icons \cup {None}] /\ listedIcon \in [IconRows -> Icons \cup {None}]
    /\ settled \in [IconRows -> Icons \cup {None}]
    /\ formNo \in 0..MaxForms /\ pickCount \in 0..MaxPicks /\ submits \in Nat
    /\ chosen \in Icons /\ muddled \in BOOLEAN
    /\ madeBy \in [1..MaxForms -> Nat] /\ unheard \in [1..MaxForms -> Nat]

\* What the form shows is what was chosen last, and a form that is closed holds nothing.
FormShowsChoice ==
    /\ pickFor # None /\ ~muddled => chosen = ToSave
    /\ pickFor = None => pickedFile = "" /\ filePreview = "" /\ checking = {} /\ ~formBusy

\* The form is of a row that is stored, as every row of the list is.
FormIsOpen ==
    /\ pickFor # None => formNo > 0 /\ (pickFor # "new" => storedIcon[pickFor] # None)
    /\ \A r \in IconRows : listedIcon[r] # None => storedIcon[r] # None

\* What a save leaves in its row.
Leaves(s) == IF s.file # "" THEN s.file ELSE s.value

\* A save on its way: the file of an edited subscription is uploaded before its PUT, and the
\* one of a new subscription after the POST; what is wanted is what it will leave.
OnItsWay(s) ==
    /\ s.row # "new" => storedIcon[s.row] # None
    /\ s.at \in {"upload", "late"} => s.row # "new" /\ s.file # ""
    /\ s.at = "write" /\ s.row # "new" => s.file = ""
    /\ s.at = "refetch" => s.row # "new"
    /\ s.want # None => s.want = Leaves(s)

\* A save whose row is not written yet is of the form's own row while that form is open, and
\* the form is closed by then.
OfItsForm(s) ==
    /\ s.form <= formNo
    /\ s.form = formNo /\ pickFor # None => s.row = pickFor /\ s.at \in {"upload", "write"}

SavesOnTheirWay == \A s \in iconSaves : OnItsWay(s) /\ OfItsForm(s)

\* A row that is settled has no write to come.
SettledRest ==
    \A r \in IconRows :
       settled[r] # None => storedIcon[r] = settled[r] /\ \A s \in iconSaves : s.row = r => ~Writes(s)

\* The POSTs of an opening of the form that may still come.
Posts(n) == {s \in iconSaves : s.form = n /\ s.row = "new"}

\* An opening that has heard of its row is closed, and one whose POST is under way is busy
\* while it is open.
RowOnce(n) ==
    /\ \A s, t \in Posts(n) : s = t
    /\ madeBy[n] = unheard[n] \/ (madeBy[n] = unheard[n] + 1 /\ Posts(n) = {})
    /\ n = formNo /\ pickFor # None => madeBy[n] = unheard[n] /\ (Posts(n) # {} => formBusy)

OneRowEach == \A n \in 1..MaxForms : RowOnce(n) /\ (n > formNo => madeBy[n] = unheard[n])

PickerInv ==
    PickerTypeOK /\ FormShowsChoice /\ FormIsOpen /\ SavesOnTheirWay /\ SettledRest /\ OneRowEach /\ TriggerAgrees

LEMMA FilesChosen == \A i \in 1..Len(Pictures) : Pictures[i] \in IconFiles
<1>1. Len(Pictures) = 2 /\ Pictures[1] = "f1" /\ Pictures[2] = "f2"
  BY DEF Pictures
<1>2. \A i \in 1..2 : i = 1 \/ i = 2
  OBVIOUS
<1>3. {"f1", "f2"} \subseteq Icons
  BY <1>1 DEF Icons
<1> QED
  BY <1>1, <1>2, <1>3 DEF IconFiles

LEMMA IconsApart ==
  /\ {"", "glyph", "url"} \cup IconFiles \subseteq Icons /\ Icons \subseteq {"", "glyph", "url"} \cup IconFiles
  /\ "" \notin IconFiles /\ None \notin Icons /\ None \notin IconRows /\ None # "new" /\ "new" \notin IconRows
  /\ MaxForms \in Nat /\ MaxPicks \in Nat /\ MaxPicks <= Len(Pictures) /\ Len(Pictures) \in Nat
<1>1. MaxForms \in Nat /\ MaxPicks \in 0..Len(Pictures) /\ None \notin Icons \cup IconRows \cup {"new"}
  BY PickerAssumption
<1>2. Len(Pictures) = 2
  BY DEF Pictures
<1>3. MaxPicks \in Nat /\ MaxPicks <= Len(Pictures) /\ Len(Pictures) \in Nat
  BY <1>1, <1>2
<1>4. {"", "glyph", "url"} \subseteq Icons
  BY DEF Icons
<1>5. "" \notin IconFiles /\ IconFiles \subseteq Icons /\ Icons \subseteq {"", "glyph", "url"} \cup IconFiles
  BY DEF IconFiles
<1>6. "new" \notin IconRows
  BY DEF IconRows
<1> QED
  BY <1>1, <1>3, <1>4, <1>5, <1>6

LEMMA PickerInitial ==
  ASSUME PickerInit
  PROVE  PickerInv
<1>0. MaxForms \in Nat /\ MaxPicks \in Nat
  BY IconsApart
<1>1. "url" \in Icons /\ "" \in Icons
  BY IconsApart
<1>2. 0 \in 0..MaxForms /\ 0 \in 0..MaxPicks
  BY <1>0
<1>3. /\ pickFor = None /\ iconSaves = {} /\ checking = {} /\ formNo = 0 /\ pickCount = 0
      /\ madeBy = [n \in 1..MaxForms |-> 0] /\ unheard = [n \in 1..MaxForms |-> 0]
      /\ settled = [r \in IconRows |-> None] /\ listedIcon = storedIcon
  BY DEF PickerInit
<1>4. storedIcon \in [IconRows -> Icons \cup {None}]
  BY <1>1 DEF PickerInit
<1>5. madeBy \in [1..MaxForms -> Nat] /\ unheard \in [1..MaxForms -> Nat] /\ settled \in [IconRows -> Icons \cup {None}]
  BY <1>3
<1>6. /\ pickFor \in IconRows \cup {"new", None} /\ iconValue \in Icons /\ pickedFile = ""
      /\ formBusy = FALSE /\ closings \in Nat /\ filePreview = ""
      /\ submits \in Nat /\ chosen \in Icons /\ muddled \in BOOLEAN
  BY <1>1 DEF PickerInit
<1>7. PickerTypeOK
  BY <1>2, <1>3, <1>4, <1>5, <1>6 DEF PickerTypeOK
<1>8. FormShowsChoice /\ TriggerAgrees /\ SavesOnTheirWay /\ SettledRest /\ FormIsOpen
  BY <1>3, <1>6 DEF FormShowsChoice, TriggerAgrees, SavesOnTheirWay, SettledRest, FormIsOpen
<1>9. \A n \in 1..MaxForms : madeBy[n] = unheard[n] /\ Posts(n) = {}
  BY <1>3 DEF Posts
<1>10. OneRowEach
  BY <1>9 DEF OneRowEach, RowOnce
<1> QED
  BY <1>7, <1>8, <1>10 DEF PickerInv

LEMMA SaveTyped ==
  ASSUME PickerInv, NEW s \in iconSaves
  PROVE  /\ s \in IconSave /\ s.form \in 1..MaxForms /\ s.row \in IconRows \cup {"new"} /\ s.file \in IconFiles \cup {""}
         /\ s.value \in Icons /\ s.want \in Icons \cup {None} /\ Leaves(s) \in Icons
         /\ s.at \in {"upload", "write", "refetch", "late"}
         /\ OnItsWay(s) /\ OfItsForm(s)
<1>1. /\ s \in IconSave /\ s.form \in 1..MaxForms /\ s.row \in IconRows \cup {"new"} /\ s.file \in IconFiles \cup {""}
      /\ s.value \in Icons /\ s.want \in Icons \cup {None} /\ s.at \in {"upload", "write", "refetch", "late"}
  BY DEF PickerInv, PickerTypeOK, IconSave
<1>2. OnItsWay(s) /\ OfItsForm(s)
  BY DEF PickerInv, SavesOnTheirWay
<1> QED
  BY <1>1, <1>2, IconsApart DEF Leaves

LEMMA FormsNumbered ==
  ASSUME PickerInv
  PROVE  /\ formNo \in Nat /\ formNo <= formNo /\ (pickFor # None => formNo \in 1..MaxForms)
         /\ \A s \in iconSaves : s.form \in Nat
<1>1. MaxForms \in Nat
  BY IconsApart
<1>2. formNo \in 0..MaxForms /\ \A s \in iconSaves : s.form \in 1..MaxForms
  BY SaveTyped DEF PickerInv, PickerTypeOK
<1>3. pickFor # None => formNo > 0
  BY DEF PickerInv, FormIsOpen
<1> QED
  BY <1>1, <1>2, <1>3

-----------------------------------------------------------------------------
\* The steps that leave saves, rows and what they are to leave alone.
RowsRest == UNCHANGED <<iconSaves, storedIcon, listedIcon, settled, madeBy, unheard>>

\* What the picker is used for while the form stays as it is, and its closing.
LEMMA FormStays ==
  ASSUME PickerInv, RowsRest, formNo' = formNo, pickFor' = None \/ (pickFor' = pickFor /\ formBusy' = formBusy)
  PROVE  SavesOnTheirWay' /\ SettledRest' /\ OneRowEach' /\ FormIsOpen'
<1>1. \A n : Posts(n)' = Posts(n)
  BY DEF RowsRest, Posts
<1>2. SavesOnTheirWay'
  BY DEF PickerInv, RowsRest, SavesOnTheirWay, OnItsWay, OfItsForm, Leaves
<1>3. SettledRest' /\ FormIsOpen'
  BY DEF PickerInv, RowsRest, SettledRest, Writes, FormIsOpen
<1>4. OneRowEach'
  BY <1>1 DEF PickerInv, OneRowEach, RowOnce, RowsRest
<1> QED
  BY <1>2, <1>3, <1>4

LEMMA FormOpens ==
  ASSUME PickerInv, NEW r \in {"new"} \cup {row \in IconRows : listedIcon[row] # None}, OpenIconForm(r)
  PROVE  PickerInv'
<1>1. /\ pickFor = None /\ formNo < MaxForms /\ formNo' = formNo + 1 /\ pickFor' = r
      /\ iconValue' = (IF r = "new" THEN "" ELSE listedIcon[r])
      /\ chosen' = iconValue' /\ muddled' = FALSE
      /\ RowsRest /\ UNCHANGED <<pickedFile, formBusy, filePreview, checking, closings, pickCount, submits>>
  BY DEF OpenIconForm, RowsRest, iconLists
<1>2. iconValue' \in Icons /\ formNo' \in 0..MaxForms /\ formNo \in Nat /\ formNo < formNo' /\ formNo' > 0
  <2>1. iconValue' \in Icons
    BY <1>1, IconsApart DEF PickerInv, PickerTypeOK
  <2>2. formNo \in 0..MaxForms /\ MaxForms \in Nat
    BY IconsApart DEF PickerInv, PickerTypeOK
  <2>3. formNo \in Nat /\ formNo + 1 \in 0..MaxForms /\ formNo < formNo + 1 /\ formNo + 1 > 0
    <3>1. formNo < MaxForms
      BY <1>1
    <3> QED
      BY <2>2, <3>1
  <2> QED
    BY <1>1, <2>1, <2>3
<1>3. PickerTypeOK'
  BY <1>1, <1>2 DEF PickerInv, PickerTypeOK, RowsRest
<1>4. pickedFile' = "" /\ filePreview' = "" /\ checking' = {} /\ ~formBusy'
  BY <1>1 DEF PickerInv, FormShowsChoice
<1>5. FormShowsChoice' /\ TriggerAgrees'
  BY <1>1, <1>4 DEF FormShowsChoice, TriggerAgrees, Trigger, ToSave
<1>6. \A s \in iconSaves : s.form <= formNo' /\ s.form # formNo'
  <2>1. \A s \in iconSaves : s.form \in Nat /\ s.form <= formNo
    BY FormsNumbered, SaveTyped DEF OfItsForm
  <2> QED
    BY <1>2, <2>1
<1>7. SavesOnTheirWay'
  BY <1>1, <1>6 DEF PickerInv, RowsRest, SavesOnTheirWay, OnItsWay, OfItsForm, Leaves
<1>8. SettledRest' /\ FormIsOpen'
  BY <1>1, <1>2 DEF PickerInv, RowsRest, SettledRest, Writes, FormIsOpen
<1>9. OneRowEach'
  <2>1. \A n : Posts(n)' = Posts(n)
    BY <1>1 DEF RowsRest, Posts
  <2>2. Posts(formNo') = {}
    BY <1>6 DEF Posts
  <2>3. formNo' > formNo /\ \A n \in 1..MaxForms : n > formNo' => n > formNo
    BY <1>2
  <2> QED
    BY <1>1, <2>1, <2>2, <2>3 DEF PickerInv, OneRowEach, RowOnce, RowsRest
<1> QED
  BY <1>3, <1>5, <1>7, <1>8, <1>9 DEF PickerInv

LEMMA FormIsClosed ==
  ASSUME PickerInv, Closed
  PROVE  /\ FormShowsChoice' /\ TriggerAgrees'
         /\ pickFor' \in IconRows \cup {"new", None} /\ iconValue' \in Icons /\ pickedFile' \in IconFiles \cup {""}
         /\ formBusy' \in BOOLEAN /\ filePreview' \in IconFiles \cup {""} /\ checking' \subseteq IconFiles
BY IconsApart DEF Closed, FormShowsChoice, TriggerAgrees

LEMMA FormCloses ==
  ASSUME PickerInv, CloseIconForm \/ TimerCloses
  PROVE  PickerInv'
<1>1. /\ Closed /\ pickFor' = None /\ closings' \in Nat
      /\ RowsRest /\ UNCHANGED <<formNo, pickCount, submits, chosen, muddled>>
  <2>1. closings \in Nat
    BY DEF PickerInv, PickerTypeOK
  <2>2. CASE CloseIconForm
    BY <2>1, <2>2 DEF CloseIconForm, Closed, RowsRest, iconHistory, iconLists
  <2>3. CASE TimerCloses
    <3>1. closings > 0 /\ closings' = closings - 1
      BY <2>3 DEF TimerCloses
    <3>2. closings' \in Nat
      BY <2>1, <3>1
    <3> QED
      BY <2>3, <3>2 DEF TimerCloses, Closed, RowsRest, iconHistory, iconLists
  <2> QED
    BY <2>2, <2>3
<1>2. PickerTypeOK'
  BY <1>1, FormIsClosed DEF PickerInv, PickerTypeOK, RowsRest
<1> QED
  BY <1>1, <1>2, FormIsClosed, FormStays DEF PickerInv

LEMMA IconIsChosen ==
  ASSUME PickerInv, PickGlyph \/ ClearEmoji \/ ApplyImageUrl \/ RemoveFile
  PROVE  PickerInv'
<1>1. PICK value \in {"glyph", "url", ""} :
         /\ ChangeIcon(value) /\ Rest /\ filePreview' \in {"", filePreview}
         /\ filePreview' # "" => value \in {"glyph", ""}
         /\ pickFor # None
  BY DEF PickGlyph, ClearEmoji, ApplyImageUrl, RemoveFile
<1>2. /\ RowsRest /\ UNCHANGED <<pickFor, formBusy, closings, checking, formNo, pickCount, submits>>
      /\ iconValue' = value /\ pickedFile' = "" /\ chosen' = value /\ muddled' \in BOOLEAN
  BY <1>1 DEF ChangeIcon, Rest, RowsRest, iconHistory, iconLists
<1>3. PickerTypeOK'
  <2>1. value \in Icons
    BY IconsApart
  <2> QED
    BY <1>1, <1>2, <2>1 DEF PickerInv, PickerTypeOK, RowsRest
<1>4. FormShowsChoice' /\ TriggerAgrees'
  BY <1>1, <1>2 DEF FormShowsChoice, TriggerAgrees, Trigger, ToSave
<1> QED
  BY <1>2, <1>3, <1>4, FormStays DEF PickerInv

LEMMA FileIsRead ==
  ASSUME PickerInv, PickFile \/ \E k \in checking : FileRefused(k) \/ FileSelected(k)
  PROVE  PickerInv'
<1>1. CASE PickFile
  <2>1. /\ pickCount < MaxPicks /\ pickCount' = pickCount + 1
        /\ checking' = checking \cup {Pictures[pickCount + 1]}
        /\ muddled' = (muddled \/ checking # {}) /\ pickFor # None
        /\ RowsRest /\ UNCHANGED <<formState, formBusy, closings, filePreview, formNo, submits, chosen>>
    BY <1>1 DEF PickFile, RowsRest, iconLists
  <2>2. Pictures[pickCount + 1] \in IconFiles /\ pickCount' \in 0..MaxPicks
    <3>1. pickCount \in 0..MaxPicks /\ MaxPicks \in Nat /\ MaxPicks <= Len(Pictures) /\ Len(Pictures) \in Nat
      BY IconsApart DEF PickerInv, PickerTypeOK
    <3>2. pickCount + 1 \in 1..Len(Pictures)
      BY <2>1, <3>1
    <3> QED
      BY <2>1, <3>1, <3>2, FilesChosen
  <2>3. PickerTypeOK'
    <3>1. muddled' \in BOOLEAN
      BY <2>1
    <3> QED
      BY <2>1, <2>2, <3>1 DEF PickerInv, PickerTypeOK, RowsRest, formState
  <2>4. FormShowsChoice' /\ TriggerAgrees'
    BY <2>1 DEF PickerInv, FormShowsChoice, TriggerAgrees, Trigger, ToSave, formState
  <2> QED
    BY <2>1, <2>3, <2>4, FormStays DEF PickerInv, formState
<1>2. ASSUME NEW k \in checking, FileRefused(k)
      PROVE  PickerInv'
  <2>1. /\ checking' \subseteq checking
        /\ RowsRest /\ UNCHANGED <<formState, formBusy, closings, filePreview, formNo, pickCount, submits, chosen, muddled>>
    BY <1>2 DEF FileRefused, RowsRest, iconHistory, iconLists
  <2>2. PickerTypeOK'
    BY <2>1 DEF PickerInv, PickerTypeOK, RowsRest, formState
  <2>3. FormShowsChoice' /\ TriggerAgrees'
    BY <2>1 DEF PickerInv, FormShowsChoice, TriggerAgrees, Trigger, ToSave, formState
  <2> QED
    BY <2>1, <2>2, <2>3, FormStays DEF PickerInv, formState
<1>3. ASSUME NEW k \in checking, FileSelected(k)
      PROVE  PickerInv'
  <2>1. /\ checking' \subseteq checking /\ pickedFile' = k /\ iconValue' = "" /\ chosen' = k /\ filePreview' = k
        /\ RowsRest /\ UNCHANGED <<pickFor, formBusy, closings, formNo, pickCount, submits, muddled>>
    BY <1>3 DEF FileSelected, RowsRest, iconHistory, iconLists
  <2>2. k \in IconFiles /\ k # "" /\ k \in Icons /\ "" \in Icons /\ pickFor # None
    BY <1>3, IconsApart DEF PickerInv, PickerTypeOK, FormShowsChoice
  <2>3. PickerTypeOK'
    BY <2>1, <2>2 DEF PickerInv, PickerTypeOK, RowsRest
  <2>4. FormShowsChoice' /\ TriggerAgrees'
    BY <2>1, <2>2 DEF FormShowsChoice, TriggerAgrees, Trigger, ToSave
  <2> QED
    BY <2>1, <2>3, <2>4, FormStays DEF PickerInv
<1> QED
  BY <1>1, <1>2, <1>3

\* The form's fields go out as a save.
LEMMA FormSubmits ==
  ASSUME PickerInv, Submit
  PROVE  PickerInv'
<1>1. /\ pickFor # None /\ ~formBusy /\ submits' = submits + 1 /\ formBusy' = TRUE
      /\ settled' = [r \in IconRows |-> IF r = pickFor THEN None ELSE settled[r]]
      /\ UNCHANGED <<formState, filePreview, checking, closings, storedIcon, listedIcon, formNo, pickCount,
                     madeBy, unheard, chosen, muddled>>
  BY DEF Submit, MaySubmit, iconLists
<1>2. /\ formNo \in 1..MaxForms /\ formNo <= formNo /\ pickFor \in IconRows \cup {"new"} /\ submits + 1 \in Nat
      /\ (pickFor # "new" => storedIcon[pickFor] # None)
  <2>1. formNo \in 1..MaxForms /\ formNo <= formNo
    BY <1>1, FormsNumbered
  <2>2. pickFor \in IconRows \cup {"new"} /\ (pickFor # "new" => storedIcon[pickFor] # None)
    BY <1>1 DEF PickerInv, PickerTypeOK, FormIsOpen
  <2>3. submits \in Nat
    BY DEF PickerInv, PickerTypeOK
  <2>4. submits + 1 \in Nat
    BY <2>3
  <2> QED
    BY <2>1, <2>2, <2>4
<1>3. PICK t : /\ iconSaves' = iconSaves \cup {t} /\ t \in IconSave
               /\ t.form = formNo /\ t.row = pickFor /\ t.file = pickedFile /\ t.value = iconValue
               /\ t.at = (IF pickedFile # "" /\ pickFor # "new" THEN "upload" ELSE "write")
               /\ (t.want # None => t.want = chosen /\ ~muddled)
  <2> DEFINE t == [n |-> submits + 1, form |-> formNo, row |-> pickFor, file |-> pickedFile, value |-> iconValue,
                   at |-> IF pickedFile # "" /\ pickFor # "new" THEN "upload" ELSE "write",
                   want |-> IF muddled \/ \E s \in iconSaves : s.row = pickFor /\ Writes(s) THEN None ELSE chosen]
  <2>1. iconSaves' = iconSaves \cup {t}
    BY DEF Submit
  <2>2. t \in IconSave
    BY <1>2 DEF PickerInv, PickerTypeOK, IconSave
  <2>3. t.want # None => t.want = chosen /\ ~muddled
    OBVIOUS
  <2> QED
    BY <2>1, <2>2, <2>3
<1>4. PickerTypeOK'
  <2>1. settled' \in [IconRows -> Icons \cup {None}]
    BY <1>1 DEF PickerInv, PickerTypeOK
  <2> QED
    BY <1>1, <1>2, <1>3, <2>1 DEF PickerInv, PickerTypeOK, formState
<1>5. FormShowsChoice' /\ TriggerAgrees' /\ FormIsOpen'
  BY <1>1 DEF PickerInv, FormShowsChoice, TriggerAgrees, Trigger, ToSave, FormIsOpen, formState
<1>6. SavesOnTheirWay'
  <2>1. t.want # None => t.want = Leaves(t)
    BY <1>1, <1>3 DEF PickerInv, FormShowsChoice, ToSave, Leaves
  <2>2. OnItsWay(t)' /\ OfItsForm(t)'
    BY <1>1, <1>2, <1>3, <2>1 DEF OnItsWay, OfItsForm, Leaves, formState
  <2>3. \A s \in iconSaves : OnItsWay(s)' /\ OfItsForm(s)'
    BY <1>1 DEF PickerInv, SavesOnTheirWay, OnItsWay, OfItsForm, Leaves, formState
  <2> QED
    BY <1>3, <2>2, <2>3 DEF SavesOnTheirWay
<1>7. SettledRest'
  BY <1>1, <1>3 DEF PickerInv, SettledRest, Writes
<1>8. OneRowEach'
  <2> SUFFICES ASSUME NEW n \in 1..MaxForms
               PROVE  RowOnce(n)'
    BY <1>1 DEF PickerInv, OneRowEach
  <2>1. RowOnce(n)
    BY DEF PickerInv, OneRowEach
  <2>2. CASE n # formNo
    <3>1. Posts(n)' = Posts(n)
      BY <1>3, <2>2 DEF Posts
    <3> QED
      BY <1>1, <2>1, <2>2, <3>1 DEF RowOnce
  <2>3. CASE n = formNo
    <3>1. Posts(n) = {} /\ madeBy[n] = unheard[n]
      BY <1>1, <2>1, <2>3 DEF RowOnce
    <3>2. Posts(n)' \subseteq {t}
      BY <1>3, <3>1 DEF Posts
    <3> QED
      BY <1>1, <3>1, <3>2 DEF RowOnce
  <2> QED
    BY <2>2, <2>3
<1> QED
  BY <1>4, <1>5, <1>6, <1>7, <1>8 DEF PickerInv

-----------------------------------------------------------------------------
\* A request writes one row, which no settled save is about.
LEMMA RowIsServed ==
  ASSUME PickerInv, NEW s \in iconSaves, NEW r, Served(s, r), r \in IconRows, Writes(s)
  PROVE  /\ storedIcon' \in [IconRows -> Icons \cup {None}] /\ storedIcon'[r] = IconOf(s) /\ storedIcon'[r] # None
         /\ \A q \in IconRows : /\ q # r => storedIcon'[q] = storedIcon[q]
                                /\ storedIcon[q] # None => storedIcon'[q] # None
         /\ settled[r] = None /\ (s.row # "new" => r = s.row)
<1>1. IconOf(s) \in Icons
  BY SaveTyped, IconsApart DEF IconOf, OnItsWay, Writes
<1>2. storedIcon' = [storedIcon EXCEPT ![r] = IconOf(s)] /\ RowOf(s, r)
  BY DEF Served
<1>3. settled[r] = None
  <2>1. settled[r] # None => storedIcon[r] = settled[r] /\ s.row # r
    BY DEF PickerInv, SettledRest
  <2> QED
    BY <1>2, <2>1 DEF RowOf
<1> QED
  BY <1>1, <1>2, <1>3, IconsApart DEF PickerInv, PickerTypeOK, RowOf

\* A step of one save leaves the others on their way.
LEMMA OthersGoOn ==
  ASSUME PickerInv, NEW s \in iconSaves, formNo' = formNo, pickFor' = None \/ pickFor' = pickFor,
         \A q \in IconRows : storedIcon[q] # None => storedIcon'[q] # None,
         \A u \in iconSaves' : u \in iconSaves \/ (OnItsWay(u)' /\ OfItsForm(u)')
  PROVE  SavesOnTheirWay'
<1> SUFFICES ASSUME NEW u \in iconSaves
             PROVE  OnItsWay(u)' /\ OfItsForm(u)'
  BY DEF SavesOnTheirWay
<1>1. OnItsWay(u) /\ OfItsForm(u) /\ u.row \in IconRows \cup {"new"}
  BY SaveTyped
<1> QED
  BY <1>1 DEF OnItsWay, OfItsForm, Leaves

\* A step that sends no POST and hears of none.
LEMMA PostsRest ==
  ASSUME PickerInv, formNo' = formNo, madeBy' = madeBy, unheard' = unheard, \A n : Posts(n)' = Posts(n),
         pickFor' = None \/ (pickFor' = pickFor /\ formBusy' = formBusy)
  PROVE  OneRowEach'
BY DEF PickerInv, OneRowEach, RowOnce

LEMMA FileIsUploadedFirst ==
  ASSUME PickerInv, NEW s \in iconSaves, UploadFirst(s)
  PROVE  PickerInv'
<1>1. /\ s.at = "upload" /\ Served(s, s.row)
      /\ UNCHANGED <<formState, formBusy, filePreview, checking, closings, listedIcon, iconHistory, chosen, muddled>>
  BY DEF UploadFirst
<1>2. s.row \in IconRows /\ s.file \in IconFiles /\ s.file # "" /\ s.row # "new" /\ Writes(s) /\ IconOf(s) = s.file
  BY <1>1, SaveTyped DEF OnItsWay, Writes, IconOf
<1>3. PICK t \in IconSave :
         /\ iconSaves' = (iconSaves \ {s}) \cup {t}
         /\ t.form = s.form /\ t.row = s.row /\ t.file = "" /\ t.value = s.file /\ t.at = "write"
         /\ t.want = s.want
  <2> DEFINE t == [s EXCEPT !.at = "write", !.value = s.file, !.file = ""]
  <2>1. t \in IconSave /\ t.form = s.form /\ t.row = s.row /\ t.file = "" /\ t.value = s.file
        /\ t.at = "write" /\ t.want = s.want
    BY <1>2, SaveTyped, IconsApart DEF IconSave
  <2> QED
    BY <2>1 DEF UploadFirst, SaveGoes
<1>4. /\ storedIcon' \in [IconRows -> Icons \cup {None}] /\ storedIcon'[s.row] # None
      /\ \A q \in IconRows : /\ q # s.row => storedIcon'[q] = storedIcon[q]
                             /\ storedIcon[q] # None => storedIcon'[q] # None
      /\ settled[s.row] = None
  BY <1>1, <1>2, RowIsServed
<1>5. PickerTypeOK'
  BY <1>1, <1>3, <1>4 DEF PickerInv, PickerTypeOK, formState, iconHistory
<1>6. FormShowsChoice' /\ TriggerAgrees'
  BY <1>1 DEF PickerInv, FormShowsChoice, TriggerAgrees, Trigger, ToSave, formState
<1>7. SavesOnTheirWay'
  <2>1. OnItsWay(t)'
    BY <1>2, <1>3, <1>4, SaveTyped DEF OnItsWay, Leaves
  <2>2. OfItsForm(t)'
    BY <1>1, <1>3, SaveTyped DEF OfItsForm, formState, iconHistory
  <2> QED
    BY <1>1, <1>3, <1>4, <2>1, <2>2, OthersGoOn DEF formState, iconHistory
<1>8. SettledRest'
  <2>1. SettledRest /\ settled' = settled
    BY <1>1 DEF PickerInv, iconHistory
  <2>2. \A u : Writes(u)' = Writes(u)
    BY DEF Writes
  <2> QED
    BY <1>3, <1>4, <2>1, <2>2 DEF SettledRest
<1>9. OneRowEach'
  <2>1. \A n : Posts(n)' = Posts(n)
    BY <1>2, <1>3 DEF Posts
  <2> QED
    BY <1>1, <2>1, PostsRest DEF formState, iconHistory
<1>10. FormIsOpen'
  <2>1. pickFor # None => pickFor \in IconRows \cup {"new"}
    BY DEF PickerInv, PickerTypeOK
  <2> QED
    BY <1>1, <1>4, <2>1 DEF PickerInv, FormIsOpen, formState, iconHistory
<1> QED
  BY <1>5, <1>6, <1>7, <1>8, <1>9, <1>10 DEF PickerInv

\* What the last write of a save settles.
LEMMA SaveSettles ==
  ASSUME PickerInv, NEW s \in iconSaves, NEW r \in IconRows, Settles(s, r), Served(s, r), Writes(s),
         IconOf(s) = Leaves(s), \A u \in iconSaves' : Writes(u) => u \in iconSaves \ {s}
  PROVE  settled' \in [IconRows -> Icons \cup {None}] /\ SettledRest'
<1>1. PICK w \in Icons \cup {None} :
         /\ settled' = [settled EXCEPT ![r] = w]
         /\ w # None => w = Leaves(s) /\ \A u \in iconSaves \ {s} : u.row = r => ~Writes(u)
  <2>1. s.want \in Icons \cup {None} /\ (s.want # None => s.want = Leaves(s))
    BY SaveTyped DEF OnItsWay
  <2> QED
    BY <2>1 DEF Settles
<1>2. /\ settled' \in [IconRows -> Icons \cup {None}] /\ settled'[r] = w
      /\ \A q \in IconRows : q # r => settled'[q] = settled[q]
  BY <1>1 DEF PickerInv, PickerTypeOK
<1>3. storedIcon'[r] = Leaves(s) /\ \A q \in IconRows : q # r => storedIcon'[q] = storedIcon[q]
  BY RowIsServed
<1>4. \A u : Writes(u)' = Writes(u)
  BY DEF Writes
<1> QED
  BY <1>1, <1>2, <1>3, <1>4 DEF PickerInv, SettledRest

\* The PUT or the POST is answered.
LEMMA RowIsSaved ==
  ASSUME PickerInv, NEW s \in iconSaves, RowIsMade(s)
  PROVE  PickerInv'
<1>1. PICK r \in IconRows :
         /\ Served(s, r)
         /\ SaveGoes(s, [s EXCEPT !.at = "refetch", !.row = r])
         /\ IF s.file = "" THEN Settles(s, r) ELSE UNCHANGED settled
  BY DEF RowIsMade
<1>2. /\ s.at = "write" /\ Closed /\ pickFor' = None
      /\ madeBy' = (IF s.row = "new" THEN [madeBy EXCEPT ![s.form] = @ + 1] ELSE madeBy)
      /\ UNCHANGED <<closings, listedIcon, formNo, pickCount, submits, unheard, chosen, muddled>>
  BY DEF RowIsMade, Closed
<1>3. Writes(s) /\ (s.file = "" => IconOf(s) = Leaves(s)) /\ (s.row # "new" => s.file = "")
  BY <1>2, SaveTyped DEF Writes, IconOf, Leaves, OnItsWay
<1>4. /\ storedIcon' \in [IconRows -> Icons \cup {None}] /\ storedIcon'[r] # None
      /\ \A q \in IconRows : /\ q # r => storedIcon'[q] = storedIcon[q]
                             /\ storedIcon[q] # None => storedIcon'[q] # None
      /\ settled[r] = None /\ (s.row # "new" => r = s.row)
  BY <1>1, <1>3, RowIsServed
<1>5. r # "new"
  BY IconsApart
<1>6. PICK t \in IconSave :
         /\ iconSaves' = (iconSaves \ {s}) \cup {t}
         /\ t.form = s.form /\ t.row = r /\ t.file = s.file /\ t.value = s.value /\ t.at = "refetch"
         /\ t.want = s.want
  <2> DEFINE t == [s EXCEPT !.at = "refetch", !.row = r]
  <2>1. t \in IconSave /\ t.form = s.form /\ t.row = r /\ t.file = s.file /\ t.value = s.value
        /\ t.at = "refetch" /\ t.want = s.want
    BY SaveTyped DEF IconSave
  <2> QED
    BY <1>1, <2>1 DEF SaveGoes
<1>7. settled' \in [IconRows -> Icons \cup {None}] /\ SettledRest'
  <2>1. CASE s.file = ""
    <3>1. ~Writes(t)
      BY <1>6, <2>1 DEF Writes
    <3>2. \A u \in iconSaves' : Writes(u) => u \in iconSaves \ {s}
      BY <1>6, <3>1
    <3> QED
      BY <1>1, <1>3, <2>1, <3>2, SaveSettles
  <2>2. CASE s.file # ""
    <3>1. settled' = settled
      BY <1>1, <2>2
    <3>2. \A u : Writes(u)' = Writes(u)
      BY DEF Writes
    <3> QED
      BY <1>4, <1>6, <3>1, <3>2 DEF PickerInv, PickerTypeOK, SettledRest
  <2> QED
    BY <2>1, <2>2
<1>8. /\ madeBy' \in [1..MaxForms -> Nat]
      /\ \A n \in 1..MaxForms : madeBy'[n] = IF n = s.form /\ s.row = "new" THEN madeBy[n] + 1 ELSE madeBy[n]
  <2>1. s.form \in 1..MaxForms /\ madeBy \in [1..MaxForms -> Nat]
    BY SaveTyped DEF PickerInv, PickerTypeOK
  <2>2. madeBy[s.form] + 1 \in Nat
    BY <2>1
  <2> QED
    BY <1>2, <2>1, <2>2
<1>9. PickerTypeOK'
  BY <1>2, <1>4, <1>6, <1>7, <1>8, FormIsClosed DEF PickerInv, PickerTypeOK
<1>10. SavesOnTheirWay'
  <2>1. OnItsWay(t)'
    BY <1>2, <1>3, <1>4, <1>5, <1>6, SaveTyped DEF OnItsWay, Leaves
  <2>2. OfItsForm(t)'
    BY <1>2, <1>6, SaveTyped DEF OfItsForm
  <2> QED
    BY <1>2, <1>4, <1>6, <2>1, <2>2, OthersGoOn
<1>11. OneRowEach'
  <2> SUFFICES ASSUME NEW n \in 1..MaxForms
               PROVE  RowOnce(n)' /\ (n > formNo' => madeBy'[n] = unheard'[n])
    BY DEF OneRowEach
  <2>1. RowOnce(n) /\ (n > formNo => madeBy[n] = unheard[n])
    BY DEF PickerInv, OneRowEach
  <2>2. Posts(n)' = Posts(n) \ {s}
    BY <1>5, <1>6 DEF Posts
  <2>3. CASE n = s.form /\ s.row = "new"
    <3>1. s \in Posts(n)
      BY <2>3 DEF Posts
    <3>2. madeBy[n] = unheard[n] /\ Posts(n)' = {}
      BY <2>1, <2>2, <3>1 DEF RowOnce
    <3>3. ~(n > formNo)
      <4>1. s.form \in Nat /\ formNo \in Nat /\ s.form <= formNo
        BY FormsNumbered, SaveTyped DEF OfItsForm
      <4> QED
        BY <2>3, <4>1
    <3> QED
      BY <1>2, <1>8, <2>3, <3>2, <3>3 DEF RowOnce
  <2>4. CASE ~(n = s.form /\ s.row = "new")
    <3>1. madeBy'[n] = madeBy[n] /\ Posts(n)' = Posts(n)
      BY <1>8, <2>2, <2>4 DEF Posts
    <3> QED
      BY <1>2, <2>1, <3>1 DEF RowOnce
  <2> QED
    BY <2>3, <2>4
<1>12. FormIsOpen'
  BY <1>2, <1>4 DEF PickerInv, FormIsOpen
<1> QED
  BY <1>2, <1>7, <1>9, <1>10, <1>11, <1>12, FormIsClosed DEF PickerInv

\* The list is fetched again, and a new subscription's file goes on.
LEMMA ListIsRefetched ==
  ASSUME PickerInv, NEW s \in iconSaves, ListRefetched(s)
  PROVE  PickerInv'
<1>1. /\ s.at = "refetch" /\ listedIcon' \in {listedIcon, storedIcon}
      /\ UNCHANGED <<closings, storedIcon, iconHistory, chosen, muddled>>
  BY DEF ListRefetched
<1>2. listedIcon' \in [IconRows -> Icons \cup {None}] /\ \A q \in IconRows : listedIcon'[q] # None => storedIcon'[q] # None
  BY <1>1 DEF PickerInv, PickerTypeOK, FormIsOpen
<1>3. s.row # "new"
  BY <1>1, SaveTyped DEF OnItsWay
<1>4. CASE s.file # "" /\ SaveGoes(s, [s EXCEPT !.at = "late"]) /\ UNCHANGED <<formState, formBusy, filePreview, checking>>
  <2>1. PICK t \in IconSave :
           /\ iconSaves' = (iconSaves \ {s}) \cup {t}
           /\ t.form = s.form /\ t.row = s.row /\ t.file = s.file /\ t.value = s.value /\ t.at = "late"
           /\ t.want = s.want
    <3> DEFINE t == [s EXCEPT !.at = "late"]
    <3>1. t \in IconSave /\ t.form = s.form /\ t.row = s.row /\ t.file = s.file /\ t.value = s.value
          /\ t.at = "late" /\ t.want = s.want
      BY SaveTyped DEF IconSave
    <3> QED
      BY <1>4, <3>1 DEF SaveGoes
  <2>2. PickerTypeOK'
    BY <1>1, <1>2, <1>4, <2>1 DEF PickerInv, PickerTypeOK, formState, iconHistory
  <2>3. FormShowsChoice' /\ TriggerAgrees' /\ FormIsOpen'
    BY <1>1, <1>2, <1>4
    DEF PickerInv, FormShowsChoice, TriggerAgrees, Trigger, ToSave, FormIsOpen, formState, iconHistory
  <2>4. SavesOnTheirWay'
    <3>1. OnItsWay(t)'
      BY <1>1, <1>3, <1>4, <2>1, SaveTyped DEF OnItsWay, Leaves
    <3>2. OfItsForm(s) /\ ~(s.form = formNo /\ pickFor # None)
      BY <1>1, SaveTyped DEF OfItsForm
    <3>3. OfItsForm(t)'
      BY <1>1, <1>4, <2>1, <3>2 DEF OfItsForm, formState, iconHistory
    <3> QED
      BY <1>1, <1>4, <2>1, <3>1, <3>3, OthersGoOn DEF formState, iconHistory
  <2>5. SettledRest'
    <3>1. Writes(s)
      BY <1>4 DEF Writes
    <3>2. \A u : Writes(u)' = Writes(u)
      BY DEF Writes
    <3> QED
      BY <1>1, <2>1, <3>1, <3>2 DEF PickerInv, SettledRest, iconHistory
  <2>6. OneRowEach'
    <3>1. \A n : Posts(n)' = Posts(n)
      BY <1>3, <2>1 DEF Posts
    <3> QED
      BY <1>1, <1>4, <3>1, PostsRest DEF formState, iconHistory
  <2> QED
    BY <2>2, <2>3, <2>4, <2>5, <2>6 DEF PickerInv
<1>5. CASE s.file = "" /\ iconSaves' = iconSaves \ {s} /\ Closed
  <2>1. pickFor' = None
    BY <1>5 DEF Closed
  <2>2. PickerTypeOK'
    BY <1>1, <1>2, <1>5, FormIsClosed DEF PickerInv, PickerTypeOK, iconHistory
  <2>3. FormIsOpen'
    BY <1>2, <2>1 DEF FormIsOpen
  <2>4. SavesOnTheirWay'
    BY <1>1, <1>5, <2>1, OthersGoOn DEF iconHistory
  <2>5. SettledRest'
    BY <1>1, <1>5 DEF PickerInv, SettledRest, Writes, iconHistory
  <2>6. OneRowEach'
    <3>1. \A n : Posts(n)' = Posts(n)
      BY <1>3, <1>5 DEF Posts
    <3> QED
      BY <1>1, <2>1, <3>1, PostsRest DEF iconHistory
  <2> QED
    BY <1>5, <2>2, <2>3, <2>4, <2>5, <2>6, FormIsClosed DEF PickerInv
<1> QED
  BY <1>4, <1>5 DEF ListRefetched

LEMMA FileIsUploadedLate ==
  ASSUME PickerInv, NEW s \in iconSaves, LateUpload(s)
  PROVE  PickerInv'
<1>1. /\ s.at = "late" /\ Served(s, s.row) /\ Settles(s, s.row) /\ iconSaves' = iconSaves \ {s}
      /\ Closed /\ pickFor' = None
      /\ UNCHANGED <<closings, listedIcon, formNo, pickCount, submits, madeBy, unheard, chosen, muddled>>
  BY DEF LateUpload, Closed
<1>2. s.row \in IconRows /\ s.row # "new" /\ Writes(s) /\ IconOf(s) = Leaves(s)
  BY <1>1, SaveTyped DEF OnItsWay, Writes, IconOf, Leaves
<1>3. /\ storedIcon' \in [IconRows -> Icons \cup {None}]
      /\ \A q \in IconRows : storedIcon[q] # None => storedIcon'[q] # None
  BY <1>1, <1>2, RowIsServed
<1>4. settled' \in [IconRows -> Icons \cup {None}] /\ SettledRest'
  BY <1>1, <1>2, SaveSettles
<1>5. PickerTypeOK'
  BY <1>1, <1>3, <1>4, FormIsClosed DEF PickerInv, PickerTypeOK
<1>6. SavesOnTheirWay'
  BY <1>1, <1>3, OthersGoOn
<1>7. OneRowEach'
  <2>1. \A n : Posts(n)' = Posts(n)
    BY <1>1, <1>2 DEF Posts
  <2> QED
    BY <1>1, <2>1, PostsRest
<1>8. FormIsOpen'
  BY <1>1, <1>3 DEF PickerInv, FormIsOpen
<1> QED
  BY <1>1, <1>4, <1>5, <1>6, <1>7, <1>8, FormIsClosed DEF PickerInv

\* A request fails, served or not: its own form can be submitted again.
LEMMA IconSaveKeeps ==
  ASSUME PickerInv, NEW s \in iconSaves, IconSaveFails(s)
  PROVE  PickerInv'
<1>1. /\ s.at # "refetch" /\ iconSaves' = iconSaves \ {s} /\ formBusy' = (formBusy /\ s.form # formNo)
      /\ closings' = (IF s.at = "late" THEN closings + 1 ELSE closings)
      /\ UNCHANGED <<formState, filePreview, checking, listedIcon, formNo, pickCount, submits, settled,
                     chosen, muddled>>
  BY DEF IconSaveFails
<1>2. /\ storedIcon' \in [IconRows -> Icons \cup {None}]
      /\ \A q \in IconRows : /\ storedIcon[q] # None => storedIcon'[q] # None
                             /\ settled[q] # None => storedIcon'[q] = storedIcon[q]
  <2>1. CASE storedIcon' = storedIcon
    BY <2>1 DEF PickerInv, PickerTypeOK
  <2>2. ASSUME NEW r \in IconRows, Served(s, r)
        PROVE  /\ storedIcon' \in [IconRows -> Icons \cup {None}]
               /\ \A q \in IconRows : /\ storedIcon[q] # None => storedIcon'[q] # None
                                      /\ settled[q] # None => storedIcon'[q] = storedIcon[q]
    <3>1. Writes(s)
      BY <1>1 DEF Writes
    <3> QED
      BY <2>2, <3>1, RowIsServed
  <2> QED
    BY <2>1, <2>2 DEF IconSaveFails
<1>3. /\ madeBy' \in [1..MaxForms -> Nat] /\ unheard' \in [1..MaxForms -> Nat]
      /\ \A n \in 1..MaxForms : \/ madeBy'[n] = madeBy[n] /\ unheard'[n] = unheard[n]
                               \/ /\ n = s.form /\ s.row = "new"
                                  /\ madeBy'[n] = madeBy[n] + 1 /\ unheard'[n] = unheard[n] + 1
  <2>1. s.form \in 1..MaxForms /\ madeBy \in [1..MaxForms -> Nat] /\ unheard \in [1..MaxForms -> Nat]
    BY SaveTyped DEF PickerInv, PickerTypeOK
  <2>2. madeBy[s.form] + 1 \in Nat /\ unheard[s.form] + 1 \in Nat
    BY <2>1
  <2>3. CASE madeBy' = madeBy /\ unheard' = unheard
    BY <2>1, <2>3
  <2>4. CASE s.row = "new" /\ madeBy' = [madeBy EXCEPT ![s.form] = @ + 1] /\ unheard' = [unheard EXCEPT ![s.form] = @ + 1]
    BY <2>1, <2>2, <2>4
  <2> QED
    BY <2>3, <2>4 DEF IconSaveFails
<1>4. closings' \in Nat /\ formBusy' \in BOOLEAN
  <2>1. closings \in Nat
    BY DEF PickerInv, PickerTypeOK
  <2>2. closings + 1 \in Nat
    BY <2>1
  <2> QED
    BY <1>1, <2>1, <2>2
<1>5. PickerTypeOK'
  BY <1>1, <1>2, <1>3, <1>4 DEF PickerInv, PickerTypeOK, formState
<1>6. FormShowsChoice' /\ TriggerAgrees'
  BY <1>1 DEF PickerInv, FormShowsChoice, TriggerAgrees, Trigger, ToSave, formState
<1>7. FormIsOpen'
  <2>1. pickFor # None => pickFor \in IconRows \cup {"new"}
    BY DEF PickerInv, PickerTypeOK
  <2> QED
    BY <1>1, <1>2, <2>1 DEF PickerInv, FormIsOpen, formState
<1>8. SavesOnTheirWay'
  BY <1>1, <1>2, OthersGoOn DEF formState
<1>9. SettledRest'
  <2>1. \A u : Writes(u)' = Writes(u)
    BY DEF Writes
  <2> QED
    BY <1>1, <1>2, <2>1 DEF PickerInv, SettledRest
<1>10. OneRowEach'
  <2> SUFFICES ASSUME NEW n \in 1..MaxForms
               PROVE  RowOnce(n)' /\ (n > formNo' => madeBy'[n] = unheard'[n])
    BY DEF OneRowEach
  <2>1. RowOnce(n) /\ (n > formNo => madeBy[n] = unheard[n]) /\ madeBy[n] \in Nat /\ unheard[n] \in Nat
    BY DEF PickerInv, OneRowEach, PickerTypeOK
  <2>2. Posts(n)' = Posts(n) \ {s}
    BY <1>1 DEF Posts
  <2>3. n = formNo /\ pickFor # None /\ Posts(n)' # {} => formBusy'
    <3> SUFFICES ASSUME n = formNo, pickFor # None, NEW p \in Posts(n), p # s
                 PROVE  formBusy'
      BY <2>2
    <3>1. p \in iconSaves /\ p.row = "new" /\ p.form = n /\ pickFor = "new"
      BY SaveTyped DEF Posts, OfItsForm
    <3>2. s.form # formNo
      <4>1. s.form = formNo => s \in Posts(n)
        BY <3>1, SaveTyped DEF Posts, OfItsForm
      <4> QED
        BY <2>1, <4>1 DEF RowOnce
    <3>3. formBusy
      BY <2>1 DEF RowOnce
    <3> QED
      BY <1>1, <3>2, <3>3
  <2>4. CASE madeBy'[n] = madeBy[n] /\ unheard'[n] = unheard[n]
    BY <1>1, <2>1, <2>2, <2>3, <2>4 DEF RowOnce, formState
  <2>5. CASE n = s.form /\ s.row = "new" /\ madeBy'[n] = madeBy[n] + 1 /\ unheard'[n] = unheard[n] + 1
    <3>1. s \in Posts(n)
      BY <2>5 DEF Posts
    <3>2. madeBy[n] = unheard[n] /\ Posts(n)' = {}
      BY <2>1, <2>2, <3>1 DEF RowOnce
    <3>3. madeBy'[n] = unheard'[n]
      BY <2>5, <3>2
    <3> QED
      BY <1>1, <3>2, <3>3 DEF RowOnce, formState
  <2> QED
    BY <1>3, <2>4, <2>5
<1> QED
  BY <1>5, <1>6, <1>7, <1>8, <1>9, <1>10 DEF PickerInv

LEMMA PickerStep == PickerInv /\ [PickerNext]_pickerVars => PickerInv'
<1> SUFFICES ASSUME PickerInv, [PickerNext]_pickerVars
             PROVE  PickerInv'
  OBVIOUS
<1>1. CASE UNCHANGED pickerVars
  <2>1. /\ RowsRest
        /\ UNCHANGED <<pickFor, iconValue, pickedFile, formBusy, filePreview, checking, closings, formNo, pickCount,
                       submits, chosen, muddled>>
    BY <1>1 DEF pickerVars, formState, iconHistory, iconLists, RowsRest
  <2>2. PickerTypeOK' /\ FormShowsChoice' /\ TriggerAgrees'
    BY <2>1 DEF PickerInv, PickerTypeOK, FormShowsChoice, TriggerAgrees, Trigger, ToSave, RowsRest
  <2> QED
    BY <2>1, <2>2, FormStays DEF PickerInv
<1>2. ASSUME NEW r \in {"new"} \cup {row \in IconRows : listedIcon[row] # None}, OpenIconForm(r)
      PROVE  PickerInv'
  BY <1>2, FormOpens
<1>3. CASE CloseIconForm \/ TimerCloses
  BY <1>3, FormCloses
<1>4. CASE PickGlyph \/ ClearEmoji \/ ApplyImageUrl \/ RemoveFile
  BY <1>4, IconIsChosen
<1>5. CASE PickFile \/ \E k \in checking : FileRefused(k) \/ FileSelected(k)
  BY <1>5, FileIsRead
<1>6. CASE Submit
  BY <1>6, FormSubmits
<1>7. ASSUME NEW s \in iconSaves, UploadFirst(s) \/ RowIsMade(s) \/ ListRefetched(s) \/ LateUpload(s) \/ IconSaveFails(s)
      PROVE  PickerInv'
  BY <1>7, FileIsUploadedFirst, RowIsSaved, ListIsRefetched, FileIsUploadedLate, IconSaveKeeps
<1> QED
  BY <1>1, <1>2, <1>3, <1>4, <1>5, <1>6, <1>7 DEF PickerNext

\* PickerInv holds of every behaviour of the picker, its form and its saves.
THEOREM PickerInvariant == PickerSpec => []PickerInv
<1>1. PickerInit => PickerInv
  BY PickerInitial
<1>2. PickerInv /\ [PickerNext]_pickerVars => PickerInv'
  BY PickerStep
<1> QED
  BY <1>1, <1>2, PTL DEF PickerSpec

\* icon-picker.tsx, use-subscription-form-state.ts:198-206,282-371, dashboard-page.tsx:459-485:
\* for any number of openings, files, submissions and requests that fail, served or not, a
\* subscription gets the icon that was chosen last through the requests of a save that was
\* answered, the picker's button shows it meanwhile, and one opening of the form adds one
\* subscription, and one for each POST whose answer was lost.
THEOREM LastChoiceIsSaved == PickerSpec => []ChosenIconIsSaved
<1>1. PickerInv => ChosenIconIsSaved
  <2> SUFFICES ASSUME PickerInv
               PROVE  ChosenIconIsSaved
    OBVIOUS
  <2>1. SavesTheLastChoice
    BY DEF PickerInv, SettledRest, SavesTheLastChoice
  <2>2. OneRowPerForm
    <3> SUFFICES ASSUME NEW n \in 1..MaxForms
                 PROVE  madeBy[n] <= 1 + unheard[n]
      BY DEF OneRowPerForm
    <3>1. unheard[n] \in Nat /\ (madeBy[n] = unheard[n] \/ madeBy[n] = unheard[n] + 1)
      BY DEF PickerInv, PickerTypeOK, OneRowEach, RowOnce
    <3> QED
      BY <3>1
  <2> QED
    BY <2>1, <2>2 DEF PickerInv, ChosenIconIsSaved
<1> QED
  BY <1>1, PickerInvariant, PTL
=============================================================================
