----------------------------- MODULE PoolCache -----------------------------
(***************************************************************************)
(* The cache of connection pools (internal/datasource/pool_cache.go): a    *)
(* map guarded by a read-write mutex, one generation counter per           *)
(* datasource, and a singleflight group that lets one caller per key open  *)
(* a pool while the others wait for its outcome.                           *)
(*                                                                         *)
(* One action is one critical section of p.mu, or one step of the          *)
(* singleflight group.  A key is <<datasource, DSN>>: poolKey keeps the    *)
(* datasource in clear and hashes the DSN, and the hash is taken to be     *)
(* injective.                                                              *)
(***************************************************************************)
EXTENDS Integers

CONSTANTS
    Callers,      \* goroutines that call Get
    Datasources,  \* datasource IDs
    DSNs,         \* resolved connection strings
    Handles,      \* the *sql.DB values the driver may return; bounds the opens
    None,         \* no handle, no leader
    MaxGen        \* bound on the invalidations of one datasource

ASSUME NoneAssumption == None \notin Handles \cup Callers \cup (Datasources \X DSNs)
ASSUME MaxGenAssumption == MaxGen \in Nat

VARIABLES
    pools,        \* p.pools: key -> handle or None
    gens,         \* p.generations: datasource -> number of invalidations
    flight,       \* p.sf: key -> the caller whose function runs, or None
    pc,           \* caller -> where it is in Get
    want,         \* caller -> key of the call, None outside Get
    gen,          \* caller -> generation it read when it missed
    got,          \* caller -> handle it opened or was given
    status,       \* handle -> "unused", "open" or "closed"
    born,         \* handle -> <<key, generation>> of the request that opened it,
                  \* None before the open
    draining      \* handles Close has taken out of the map and not yet closed

cacheVars == <<pools, gens, flight, pc, want, gen, got, status, born, draining>>

poolKey(d, dsn) == <<d, dsn>>

Keys == {poolKey(d, dsn) : d \in Datasources, dsn \in DSNs}

PCs == {"idle", "called", "missed", "opening", "opened", "landing", "waiting", "serving"}

NewPoolCache ==
    /\ pools = [k \in Keys |-> None]
    /\ gens = [d \in Datasources |-> 0]
    /\ flight = [k \in Keys |-> None]
    /\ draining = {}

CacheInit ==
    /\ NewPoolCache
    /\ pc = [c \in Callers |-> "idle"]
    /\ want = [c \in Callers |-> None]
    /\ gen = [c \in Callers |-> 0]
    /\ got = [c \in Callers |-> None]
    /\ status = [h \in Handles |-> "unused"]
    /\ born = [h \in Handles |-> None]

----------------------------------------------------------------------------
\* A goroutine enters Get for key k.
Call(c, k) ==
    /\ pc[c] = "idle"
    /\ pc' = [pc EXCEPT ![c] = "called"]
    /\ want' = [want EXCEPT ![c] = k]
    /\ UNCHANGED <<pools, gens, flight, gen, got, status, born, draining>>

\* The read lock: a cached pool is returned at once.
Hit(c) ==
    /\ pc[c] = "called"
    /\ pools[want[c]] # None
    /\ got' = [got EXCEPT ![c] = pools[want[c]]]
    /\ pc' = [pc EXCEPT ![c] = "serving"]
    /\ UNCHANGED <<pools, gens, flight, want, gen, status, born, draining>>

\* The read lock: no pool, so the caller remembers the generation it saw.
Miss(c) ==
    /\ pc[c] = "called"
    /\ pools[want[c]] = None
    /\ gen' = [gen EXCEPT ![c] = gens[want[c][1]]]
    /\ pc' = [pc EXCEPT ![c] = "missed"]
    /\ UNCHANGED <<pools, gens, flight, want, got, status, born, draining>>

\* sf.Do finds no call under way for the key: this caller runs the function.
Lead(c) ==
    /\ pc[c] = "missed"
    /\ flight[want[c]] = None
    /\ flight' = [flight EXCEPT ![want[c]] = c]
    /\ pc' = [pc EXCEPT ![c] = "opening"]
    /\ UNCHANGED <<pools, gens, want, gen, got, status, born, draining>>

\* sf.Do finds a call under way for the key: this caller waits for it.
Join(c) ==
    /\ pc[c] = "missed"
    /\ flight[want[c]] # None
    /\ pc' = [pc EXCEPT ![c] = "waiting"]
    /\ UNCHANGED <<pools, gens, flight, want, gen, got, status, born, draining>>

\* Mutant: the driver hands out a pool that it opened before.
OpenShared(c, h) ==
    /\ pc[c] = "opening"
    /\ status[h] # "closed"
    /\ status' = [status EXCEPT ![h] = "open"]
    /\ born' = [born EXCEPT ![h] = <<want[c], gen[c]>>]
    /\ got' = [got EXCEPT ![c] = h]
    /\ pc' = [pc EXCEPT ![c] = "opened"]
    /\ UNCHANGED <<pools, gens, flight, want, gen, draining>>

\* driver.Open succeeds with a new pool.
Open(c, h) ==
    /\ pc[c] = "opening"
    /\ status[h] = "unused"
    /\ status' = [status EXCEPT ![h] = "open"]
    /\ born' = [born EXCEPT ![h] = <<want[c], gen[c]>>]
    /\ got' = [got EXCEPT ![c] = h]
    /\ pc' = [pc EXCEPT ![c] = "opened"]
    /\ UNCHANGED <<pools, gens, flight, want, gen, draining>>

\* driver.Open fails.
OpenFails(c) ==
    /\ pc[c] = "opening"
    /\ got' = [got EXCEPT ![c] = None]
    /\ pc' = [pc EXCEPT ![c] = "landing"]
    /\ UNCHANGED <<pools, gens, flight, want, gen, status, born, draining>>

\* Mutant: the generation is not compared.
StoreUnguarded(c) == TRUE

\* The write lock after the open: an invalidation since the miss makes the
\* caller close its pool and fail; otherwise the pool becomes the cached one,
\* whatever the map held under the key.
StoreGuard(c) == gens[want[c][1]] = gen[c]

Store(c) ==
    /\ pc[c] = "opened"
    /\ pc' = [pc EXCEPT ![c] = "landing"]
    /\ \/ /\ StoreGuard(c)
          /\ pools' = [pools EXCEPT ![want[c]] = got[c]]
          /\ UNCHANGED <<status, got>>
       \/ /\ ~StoreGuard(c)
          /\ status' = [status EXCEPT ![got[c]] = "closed"]
          /\ got' = [got EXCEPT ![c] = None]
          /\ UNCHANGED pools
    /\ UNCHANGED <<gens, flight, want, gen, born, draining>>

\* Mutants: the flight is shared by all keys, and its outcome by nobody.
WaitingAny(k) == {w \in Callers : pc[w] = "waiting"}
WaitingNobody(k) == {}

\* The function has returned: singleflight forgets the key and hands the
\* outcome to the leader and to everyone who waits for it.
Waiting(k) == {w \in Callers : pc[w] = "waiting" /\ want[w] = k}

Land(c) ==
    /\ pc[c] = "landing"
    /\ LET outcome == IF got[c] = None THEN "idle" ELSE "serving"
           told == {c} \cup Waiting(want[c])
       IN  /\ pc' = [w \in Callers |-> IF w \in told THEN outcome ELSE pc[w]]
           /\ got' = [w \in Callers |-> IF w \in told THEN got[c] ELSE got[w]]
           /\ gen' = [w \in Callers |-> IF w \in told THEN 0 ELSE gen[w]]
           /\ want' = [w \in Callers |->
                         IF w \in told /\ got[c] = None THEN None ELSE want[w]]
    /\ flight' = [flight EXCEPT ![want[c]] = None]
    /\ UNCHANGED <<pools, gens, status, born, draining>>

\* The caller is done with the pool.  It never closes it.
Release(c) ==
    /\ pc[c] = "serving"
    /\ pc' = [pc EXCEPT ![c] = "idle"]
    /\ got' = [got EXCEPT ![c] = None]
    /\ want' = [want EXCEPT ![c] = None]
    /\ UNCHANGED <<pools, gens, flight, gen, status, born, draining>>

----------------------------------------------------------------------------
KeysOf(d) == {k \in Keys : k[1] = d}

\* Mutant: the generation is not advanced.
InvalidateSameGen(d) ==
    /\ gens[d] < MaxGen
    /\ pools' = [k \in Keys |-> IF k \in KeysOf(d) THEN None ELSE pools[k]]
    /\ status' = [h \in Handles |->
                    IF \E k \in KeysOf(d) : pools[k] = h THEN "closed" ELSE status[h]]
    /\ UNCHANGED <<gens, flight, pc, want, gen, got, born, draining>>

\* Mutant: the pools are removed and left open.
InvalidateLeaks(d) ==
    /\ gens[d] < MaxGen
    /\ gens' = [gens EXCEPT ![d] = @ + 1]
    /\ pools' = [k \in Keys |-> IF k \in KeysOf(d) THEN None ELSE pools[k]]
    /\ UNCHANGED <<status, flight, pc, want, gen, got, born, draining>>

\* Invalidate: one critical section that advances the generation, and removes
\* and closes every pool of the datasource.
Invalidate(d) ==
    /\ gens[d] < MaxGen
    /\ gens' = [gens EXCEPT ![d] = @ + 1]
    /\ pools' = [k \in Keys |-> IF k \in KeysOf(d) THEN None ELSE pools[k]]
    /\ status' = [h \in Handles |->
                    IF \E k \in KeysOf(d) : pools[k] = h THEN "closed" ELSE status[h]]
    /\ UNCHANGED <<flight, pc, want, gen, got, born, draining>>

\* Close, first part: the map is swapped for an empty one.  The generations
\* stay as they are.
Close ==
    /\ draining' = draining \cup {h \in Handles : \E k \in Keys : pools[k] = h}
    /\ pools' = [k \in Keys |-> None]
    /\ UNCHANGED <<gens, flight, pc, want, gen, got, status, born>>

\* Close, second part, without the lock: one pool is closed.
Drain(h) ==
    /\ h \in draining
    /\ draining' = draining \ {h}
    /\ status' = [status EXCEPT ![h] = "closed"]
    /\ UNCHANGED <<pools, gens, flight, pc, want, gen, got, born>>

GetStep(c) ==
    \/ Hit(c)
    \/ Miss(c)
    \/ Lead(c)
    \/ Join(c)
    \/ \E h \in Handles : Open(c, h)
    \/ OpenFails(c)
    \/ Store(c)
    \/ Land(c)

CacheNext ==
    \/ \E c \in Callers, k \in Keys : Call(c, k)
    \/ \E c \in Callers : GetStep(c)
    \/ \E c \in Callers : Release(c)
    \/ \E d \in Datasources : Invalidate(d)
    \/ Close
    \/ \E h \in Handles : Drain(h)

\* Every goroutine inside Get is scheduled, and driver.Open returns: it pings
\* under the caller's context.
CacheFairness == \A c \in Callers : WF_cacheVars(GetStep(c))

CacheSpec == CacheInit /\ [][CacheNext]_cacheVars
CacheFairSpec == CacheSpec /\ CacheFairness

----------------------------------------------------------------------------
CacheTypeOK ==
    /\ pools \in [Keys -> Handles \cup {None}]
    /\ gens \in [Datasources -> Nat]
    /\ flight \in [Keys -> Callers \cup {None}]
    /\ pc \in [Callers -> PCs]
    /\ want \in [Callers -> Keys \cup {None}]
    /\ \A c \in Callers : pc[c] # "idle" => want[c] \in Keys
    /\ gen \in [Callers -> Nat]
    /\ got \in [Callers -> Handles \cup {None}]
    /\ status \in [Handles -> {"unused", "open", "closed"}]
    /\ born \in [Handles -> (Keys \X Nat) \cup {None}]
    /\ draining \in SUBSET Handles

\* A pool in the map is open, was opened with the DSN of its key, and was asked
\* for after the last Invalidate of its datasource: an open that raced an
\* invalidation is never cached (the generation check of Get).
CachedFresh ==
    \A k \in Keys : pools[k] # None =>
        /\ status[pools[k]] = "open"
        /\ born[pools[k]] = <<k, gens[k[1]]>>

\* Whoever Get serves holds a pool that was opened with the DSN it asked for,
\* so a rotated credential is never served the pool of the old one, and the
\* pool was opened (it may have been closed since by Invalidate or Close).
ServedMatches ==
    \A c \in Callers : pc[c] = "serving" =>
        /\ got[c] # None
        /\ status[got[c]] # "unused"
        /\ born[got[c]][1] = want[c]

\* A pool is handed out or cached by at most one opener: no pool is in the map
\* under two keys, and none is in the map while its opener may still close it.
OneOwner ==
    /\ \A j, k \in Keys : pools[j] # None /\ pools[j] = pools[k] => j = k
    /\ \A c \in Callers, k \in Keys : pc[c] = "opened" => pools[k] # got[c]

\* The promise of Get, whatever opens, fails and is invalidated beside it: a
\* cached pool is fresh and has one owner, and a caller gets the pool of the
\* settings it asked with.
PoolsSound == CachedFresh /\ ServedMatches /\ OneOwner

\* The cache owns the life of a pool and closes it: an open pool is in the map,
\* in the hands of the caller that is opening it, or about to be closed by
\* Close.  The exception is a pool displaced by another one that was opened for
\* the same key in the same generation: Get stores over what the map holds.
OrphanOnlyByDoubleOpen ==
    \A h \in Handles : status[h] = "open" =>
        \/ \E k \in Keys : pools[k] = h
        \/ \E c \in Callers : pc[c] = "opened" /\ got[c] = h
        \/ h \in draining
        \/ \E g \in Handles \ {h} : born[g] = born[h]

\* Every call of Get returns, with a pool or with an error, whatever is
\* invalidated meanwhile: nobody waits on a flight that never lands.
GetReturns == \A c \in Callers : pc[c] = "called" ~> pc[c] \in {"idle", "serving"}

\* The cache implements the registry: a caller is admitted from its miss until
\* it stores or fails, for as long as the generation it read is the current one.
admittedNow ==
    {<<c, want[c]>> : c \in {x \in Callers :
        /\ pc[x] \in {"missed", "opening", "opened"}
        /\ gen[x] = gens[want[x][1]]}}

Registry == INSTANCE PoolRegistry WITH
    current <- pools,
    admitted <- admittedNow,
    DSOf <- [k \in Keys |-> k[1]]

ImplementsRegistry == Registry!RegSpec
=============================================================================
