----------------------------- MODULE DetailCache -----------------------------
(***************************************************************************)
(* The cache of subscription details that the pages of the web client      *)
(* share (features/subscriptions/subscription-detail-cache.ts): at most    *)
(* one request per subscription and version, an answer kept for two        *)
(* minutes, and an invalidation after every write of the page.             *)
(*                                                                         *)
(* What the server knows of a subscription is the number of the write that *)
(* made it; writes are numbered in the order of their commits.             *)
(***************************************************************************)
EXTENDS Naturals

CONSTANTS
    Subs,              \* subscriptions
    Created,           \* those of them that exist at the start
    MaxWrites,         \* bound on the writes of all clients
    MaxInvalidations   \* bound on the invalidations of one subscription

ASSUME CacheBounds == MaxWrites \in Nat /\ MaxInvalidations \in Nat

Nothing == MaxWrites + 1   \* no entry, no answer yet, or no such subscription
Writes == 0..MaxWrites

VARIABLES
    writes,    \* number of writes committed so far
    data,      \* data[s]: the last write of s at the server, Nothing when s is deleted
    cache,     \* detailCache, without the time
    pending,   \* pending[s]: detailRequests has an entry for s
    version,   \* detailVersions
    loads,     \* requests in flight: of whom, sent in which version, and what was answered
    floor      \* history: data[s] when s was last invalidated

serverVars == <<writes, data>>
cacheVars == <<cache, pending, version, loads, floor>>

CacheTypeOK ==
    /\ writes \in Writes
    /\ data \in [Subs -> Writes \cup {Nothing}]
    /\ cache \in [Subs -> Writes \cup {Nothing}]
    /\ pending \in [Subs -> BOOLEAN]
    /\ version \in [Subs -> 0..MaxInvalidations]
    /\ loads \subseteq [sub : Subs, sentIn : 0..MaxInvalidations, got : Writes \cup {Nothing}]
    /\ floor \in [Subs -> Writes \cup {Nothing}]

\* A write of subscription s: an update, or its deletion.
Commit(s) ==
    /\ writes < MaxWrites
    /\ writes' = writes + 1
    /\ data' = [data EXCEPT ![s] = writes + 1]

Remove(s) ==
    /\ data' = [data EXCEPT ![s] = Nothing]
    /\ UNCHANGED writes

\* loadSubscriptionDetail when neither the cache nor a request in flight has an answer.
NeedsRequest(s) == cache[s] = Nothing /\ ~pending[s]

SendLoad(s) ==
    /\ NeedsRequest(s)
    /\ loads' = loads \cup {[sub |-> s, sentIn |-> version[s], got |-> Nothing]}
    /\ pending' = [pending EXCEPT ![s] = TRUE]
    /\ UNCHANGED <<cache, version, floor>>

LoadOrJoin(s) == IF NeedsRequest(s) THEN SendLoad(s) ELSE UNCHANGED cacheVars

ServeLoad(l) ==
    /\ l.got = Nothing
    /\ data[l.sub] # Nothing
    /\ loads' = (loads \ {l}) \cup {[l EXCEPT !.got = data[l.sub]]}
    /\ UNCHANGED <<cache, pending, version, floor>>

\* An answer is kept, and the request forgotten, unless the subscription was
\* invalidated since the request was sent.
Bug_Keep(l) ==
    /\ cache' = [cache EXCEPT ![l.sub] = l.got]
    /\ pending' = [pending EXCEPT ![l.sub] = FALSE]

Keep(l) ==
    IF version[l.sub] = l.sentIn
    THEN /\ cache' = [cache EXCEPT ![l.sub] = l.got]
         /\ pending' = [pending EXCEPT ![l.sub] = FALSE]
    ELSE UNCHANGED <<cache, pending>>

LoadArrives(l) ==
    /\ l.got # Nothing
    /\ loads' = loads \ {l}
    /\ Keep(l)
    /\ UNCHANGED <<version, floor>>

LoadFails(l) ==
    /\ loads' = loads \ {l}
    /\ pending' = [pending EXCEPT ![l.sub] = IF version[l.sub] = l.sentIn THEN FALSE ELSE @]
    /\ UNCHANGED <<cache, version, floor>>

\* Two minutes pass.
Lapse(s) ==
    /\ cache[s] # Nothing
    /\ cache' = [cache EXCEPT ![s] = Nothing]
    /\ UNCHANGED <<pending, version, loads, floor>>

Invalidate(s) ==
    /\ version[s] < MaxInvalidations
    /\ version' = [version EXCEPT ![s] = @ + 1]
    /\ cache' = [cache EXCEPT ![s] = Nothing]
    /\ pending' = [pending EXCEPT ![s] = FALSE]
    /\ floor' = [floor EXCEPT ![s] = data[s]]
    /\ UNCHANGED loads

CacheInit ==
    /\ writes = 0
    /\ data = [s \in Subs |-> IF s \in Created THEN 0 ELSE Nothing]
    /\ cache = [s \in Subs |-> Nothing]
    /\ pending = [s \in Subs |-> FALSE]
    /\ version = [s \in Subs |-> 0]
    /\ loads = {}
    /\ floor = [s \in Subs |-> 0]

\* The cache by itself, whatever the pages do with it.
CacheNext ==
    \/ \E s \in Subs :
        \/ data[s] # Nothing /\ (Commit(s) \/ Remove(s)) /\ UNCHANGED cacheVars
        \/ (SendLoad(s) \/ Lapse(s) \/ Invalidate(s)) /\ UNCHANGED serverVars
    \/ \E l \in loads : (ServeLoad(l) \/ LoadArrives(l) \/ LoadFails(l)) /\ UNCHANGED serverVars

CacheSpec == CacheInit /\ [][CacheNext]_<<serverVars, cacheVars>>

-----------------------------------------------------------------------------
\* A detail in the cache is at least as new as the last invalidation: an answer
\* that was under way when the page wrote never comes back into the cache
\* (subscription-detail-cache.ts:50).
CachedSinceInvalidation ==
    \A s \in Subs : cache[s] # Nothing => cache[s] >= floor[s]

\* At most one request of a version is in flight, and one that nobody knows of
\* any more belongs to an earlier version: two openings of a drawer ask once.
OneRequestPerVersion ==
    /\ \A k, l \in loads : k.sub = l.sub /\ k.sentIn = l.sentIn => k = l
    /\ \A s \in Subs : pending[s] <=> \E l \in loads : l.sub = s /\ l.sentIn = version[s]

\* What the cache promises its pages: nothing from before an invalidation, and one request
\* for all who ask at the same time.
CacheAgrees ==
    CachedSinceInvalidation /\ OneRequestPerVersion
=============================================================================
