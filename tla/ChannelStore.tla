------------------------------ MODULE ChannelStore ------------------------------
(***************************************************************************)
(* The notification channels of a user at the server                       *)
(* (service/notification_channel_ops.go): requests that add, change and    *)
(* delete a channel overlap, and each statement of one is a step: the row  *)
(* is read, the enabled channels are counted, and then it is written.      *)
(***************************************************************************)
EXTENDS Naturals, FiniteSets

CONSTANTS
    MaxEnabled,     \* maxEnabledNotificationChannels: three in the code
    MaxRows,        \* bound on the channels ever made
    MaxWriters,     \* bound on the requests under way at once
    MaxRotations    \* bound on the secrets typed

ASSUME StoreAssumption == MaxEnabled \in Nat \ {0} /\ {MaxRows, MaxWriters, MaxRotations} \subseteq Nat

VARIABLES
    rows,        \* notification_channels: id, enabled, secret
    rowsMade,
    writers,     \* requests under way
    typedSecrets,
    removedIds   \* history: the channels deleted

storeVars == <<rows, rowsMade, writers, typedSecrets, removedIds>>

StoreInit == rows = {} /\ rowsMade = 0 /\ writers = {} /\ typedSecrets = 0 /\ removedIds = {}

Row(id) == {r \in rows : r.id = id}

EnabledCount == Cardinality({r \in rows : r.enabled})

\* ensureEnabledChannelLimit
Bug_UnderLimit == EnabledCount <= MaxEnabled

UnderLimit == EnabledCount < MaxEnabled

\* A request comes in: w.secret is the secret typed, zero for one that is left blank;
\* w.writes says which columns it writes.
Asks(w) ==
    /\ Cardinality(writers) < MaxWriters
    /\ writers' = writers \cup {w}

AskCreate(enable) ==
    /\ rowsMade < MaxRows /\ typedSecrets < MaxRotations
    /\ rowsMade' = rowsMade + 1 /\ typedSecrets' = typedSecrets + 1
    /\ Asks([id |-> rowsMade + 1, at |-> IF enable THEN "count" ELSE "write", enable |-> enable,
             secret |-> typedSecrets + 1, kept |-> 0, writes |-> {"row"}])
    /\ UNCHANGED <<rows, removedIds>>

\* UpdateChannel reads the row as soon as it has the request, and counts the enabled
\* channels only if it enables one that was not.
AskUpdate(id, writes, enable, rotate) ==
    /\ rotate => typedSecrets < MaxRotations
    /\ typedSecrets' = IF rotate THEN typedSecrets + 1 ELSE typedSecrets
    /\ \E r \in Row(id) :
          Asks([id |-> id,
                at |-> IF "enabled" \in writes /\ enable /\ ~r.enabled THEN "count" ELSE "write",
                enable |-> enable, secret |-> IF rotate THEN typedSecrets + 1 ELSE 0, kept |-> r.secret,
                writes |-> writes])
    /\ UNCHANGED <<rows, rowsMade, removedIds>>

CountEnabled(w) ==
    /\ w.at = "count"
    /\ writers' = (writers \ {w}) \cup (IF UnderLimit THEN {[w EXCEPT !.at = "write"]} ELSE {})
    /\ UNCHANGED <<rows, rowsMade, typedSecrets, removedIds>>

\* mergeNotificationConfigWithExistingSecrets: a secret left blank keeps the one read.
SecretAfter(w) == IF w.secret # 0 THEN w.secret ELSE w.kept

\* Create inserts; Updates is an UPDATE statement, and writes no row that is gone.
Insert(w) == rows \cup {[id |-> w.id, enabled |-> w.enable, secret |-> SecretAfter(w)]}

Update(w, r) == [r EXCEPT !.enabled = IF "enabled" \in w.writes THEN w.enable ELSE r.enabled,
                          !.secret = IF "config" \in w.writes THEN SecretAfter(w) ELSE r.secret]

RowsAfter(w) ==
    IF "row" \in w.writes THEN Insert(w)
    ELSE {IF r.id = w.id THEN Update(w, r) ELSE r : r \in rows}

WriteRow(w) ==
    /\ w.at = "write"
    /\ rows' = RowsAfter(w)
    /\ writers' = writers \ {w}
    /\ UNCHANGED <<rowsMade, typedSecrets, removedIds>>

DeleteRow(id) ==
    /\ Row(id) # {}
    /\ rows' = rows \ Row(id)
    /\ removedIds' = removedIds \cup {id}
    /\ UNCHANGED <<rowsMade, writers, typedSecrets>>

StoreNext ==
    \/ \E enable \in BOOLEAN : AskCreate(enable)
    \/ \E id \in 1..MaxRows, enable \in BOOLEAN :
          \/ AskUpdate(id, {"enabled"}, enable, FALSE)
          \/ \E rotate \in BOOLEAN, writes \in {{"config"}, {"enabled", "config"}} :
                AskUpdate(id, writes, enable, rotate)
    \/ \E w \in writers : CountEnabled(w) \/ WriteRow(w)
    \/ \E id \in 1..MaxRows : DeleteRow(id)

-----------------------------------------------------------------------------
\* ensureEnabledChannelLimit counts in one statement and the row is written in a later
\* one: requests that overlap may pass the limit together, yet by no more than their
\* number less one, and no sequence of them adds up to more.
LimitNearlyKept == EnabledCount <= MaxEnabled + MaxWriters - 1

\* Every channel keeps a secret its user typed for it, though requests that leave it
\* blank cross one that deletes the channel or rotates the secret; and a channel that
\* was deleted is not written again by the request that had read it.
ChannelsWhole ==
    /\ \A r \in rows : r.secret # 0
    /\ \A id \in removedIds : Row(id) = {}

\* What overlapping requests about the channels of a user leave of the limit and of the rows.
ChannelsHold ==
    LimitNearlyKept /\ ChannelsWhole
=============================================================================
