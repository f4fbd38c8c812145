--------------------------- MODULE CompositeCache ---------------------------
(***************************************************************************)
(* The Redis cache of the resolved context of one composite model          *)
(* (internal/semantic/composite_cache.go, composite_publish.go): queries   *)
(* fill it from the newest snapshot, a publish or rollback deletes the key *)
(* after its transaction, edits and component publishes leave it alone.    *)
(***************************************************************************)
EXTENDS Naturals

CONSTANTS
    Readers,       \* queries that load the published context
    Rollouts,      \* publishes and rollbacks
    MaxLatest      \* bound on the versions

ASSUME CompositeAssumption == MaxLatest \in Nat

VARIABLES
    latest,        \* version of the newest snapshot
    rollout,       \* publishes that wrote it and have not invalidated yet
    cached,        \* key: {} or {[version, an invalidation missed it]}
    reading        \* reader -> what it read and will cache, as in cached

compVars == <<latest, rollout, cached, reading>>

CompInit ==
    /\ latest = 0
    /\ rollout = {}
    /\ cached = {}
    /\ reading = [r \in Readers |-> {}]

\* writeCompositeVersionTx commits (see SemanticPublish).
RollOut(u) ==
    /\ u \notin rollout
    /\ latest < MaxLatest
    /\ latest' = latest + 1
    /\ rollout' = rollout \cup {u}
    /\ UNCHANGED <<cached, reading>>

Missed(entries) == {[x EXCEPT !.missed = TRUE] : x \in entries}

\* Mutant: the key is left alone.
InvalidateNothing(u) ==
    /\ u \in rollout
    /\ rollout' = rollout \ {u}
    /\ UNCHANGED <<latest, cached, reading>>

\* The reload of the composite, then cache.Invalidate: DEL.
InvalidateComposite(u) ==
    /\ u \in rollout
    /\ cached' = {}
    /\ reading' = [r \in Readers |-> Missed(reading[r])]
    /\ rollout' = rollout \ {u}
    /\ UNCHANGED latest

\* The reload fails and returns before the DEL, or the DEL fails and is logged.
InvalidationFails(u) ==
    /\ u \in rollout
    /\ cached' = Missed(cached)
    /\ reading' = [r \in Readers |-> Missed(reading[r])]
    /\ rollout' = rollout \ {u}
    /\ UNCHANGED latest

\* GetPublishedResolvedComposite: on a miss the newest snapshot is read ...
ReadLatest(r) ==
    /\ reading[r] = {}
    /\ cached = {}
    /\ latest > 0
    /\ reading' = [reading EXCEPT ![r] = {[at |-> latest, missed |-> FALSE]}]
    /\ UNCHANGED <<latest, rollout, cached>>

\* ... and put in the cache, whatever happened meanwhile; the SET may fail.
FillCache(r) ==
    /\ reading[r] # {}
    /\ cached' \in {reading[r], cached}
    /\ reading' = [reading EXCEPT ![r] = {}]
    /\ UNCHANGED <<latest, rollout>>

\* Mutant: the key is set without a time to live.
CacheKept == FALSE

\* The key's time to live is over.
CacheExpires ==
    /\ cached # {}
    /\ cached' = {}
    /\ UNCHANGED <<latest, rollout, reading>>

CompNext ==
    \/ \E u \in Rollouts : RollOut(u) \/ InvalidateComposite(u) \/ InvalidationFails(u)
    \/ \E r \in Readers : ReadLatest(r) \/ FillCache(r)
    \/ CacheExpires

\* Redis expires keys, and a publish that committed goes on.
CompFairness ==
    /\ WF_compVars(CacheExpires)
    /\ \A u \in Rollouts : WF_compVars(InvalidateComposite(u) \/ InvalidationFails(u))
    /\ \A r \in Readers : WF_compVars(FillCache(r))

CompSpec == CompInit /\ [][CompNext]_compVars /\ CompFairness

----------------------------------------------------------------------------
CompTypeOK ==
    /\ latest \in 0..MaxLatest
    /\ rollout \in SUBSET Rollouts
    /\ cached \in SUBSET [at : 1..MaxLatest, missed : BOOLEAN]
    /\ reading \in [Readers -> SUBSET [at : 1..MaxLatest, missed : BOOLEAN]]

\* The cache holds an old version only between a publish and its invalidation,
\* or because that invalidation failed or passed a reader by that had read the
\* old version and had not cached it yet.
StaleOnlyByOverlap ==
    \A x \in cached : x.at < latest => x.missed \/ rollout # {}

\* An old version does not stay in the cache for ever, even when the
\* invalidation was lost: the key expires and the next query reads the newest.
StaleEnds ==
    \A v \in 1..MaxLatest :
        (latest > v /\ \E x \in cached : x.at = v) ~> \A x \in cached : x.at # v

\* The cache is well formed and stale only for a reason the code names.
CompositeSound == CompTypeOK /\ StaleOnlyByOverlap
=============================================================================
