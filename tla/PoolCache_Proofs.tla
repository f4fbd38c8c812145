-------------------------- MODULE PoolCache_Proofs --------------------------
(***************************************************************************)
(* The pool cache never keeps a pool that an invalidation should have      *)
(* dropped, serves every caller a pool opened for its own key, and         *)
(* implements the registry, for any number of callers, datasources and     *)
(* opens.  The last sections are about the queries and the administrators  *)
(* that share it.                                                          *)
(***************************************************************************)
EXTENDS QueryPools, TLAPS

\* A caller inside Get before the store.
Pending(c) == pc[c] \in {"missed", "opening", "opened"}

\* No caller has read a generation that lies ahead.
GenBound == \A c \in Callers : Pending(c) => gen[c] <= gens[want[c][1]]

\* A caller that has opened a pool and not stored it holds it alone, open, and
\* with the birth mark of its own request.
OpenedOwn ==
    \A c \in Callers : pc[c] = "opened" =>
        /\ got[c] # None
        /\ status[got[c]] = "open"
        /\ born[got[c]] = <<want[c], gen[c]>>
        /\ got[c] \notin draining
        /\ \A k \in Keys : pools[k] # got[c]
        /\ \A b \in Callers : pc[b] = "opened" /\ got[b] = got[c] => b = c

\* A pool that Close has taken out is in nobody's hands but Close's.
DrainedOut ==
    \A h \in draining :
        /\ status[h] # "unused"
        /\ \A k \in Keys : pools[k] # h

\* The map holds a pool under one key.
OneKey == \A j, k \in Keys : pools[j] # None /\ pools[j] = pools[k] => j = k

\* What a landing leader hands out was opened for its key.
LandingMatches ==
    \A c \in Callers : pc[c] = "landing" /\ got[c] # None =>
        /\ status[got[c]] # "unused"
        /\ born[got[c]][1] = want[c]

ServedOpened ==
    \A c \in Callers : pc[c] = "serving" =>
        /\ got[c] # None
        /\ status[got[c]] # "unused"
        /\ born[got[c]][1] = want[c]

CacheInv ==
    /\ CacheTypeOK
    /\ GenBound
    /\ CachedFresh
    /\ OpenedOwn
    /\ DrainedOut
    /\ OneKey
    /\ LandingMatches
    /\ ServedOpened

-----------------------------------------------------------------------------
\* A key is a pair of a datasource and a DSN, and is not None.
LEMMA KeyFacts ==
    /\ Keys = Datasources \X DSNs
    /\ None \notin Keys
    /\ None \notin Handles
    /\ None \notin Callers
    /\ \A k \in Keys : k[1] \in Datasources
BY NoneAssumption DEF Keys, poolKey

\* Call preserves the invariant.
LEMMA CallInv ==
    ASSUME NEW c \in Callers, NEW k \in Keys, CacheInv, Call(c, k)
    PROVE  CacheInv'
<1>1. CacheTypeOK'
    BY KeyFacts DEF Call, CacheInv, CacheTypeOK, PCs
<1>2. GenBound'
    BY KeyFacts DEF Call, CacheInv, CacheTypeOK, GenBound, Pending
<1>3. CachedFresh'
    BY KeyFacts DEF Call, CacheInv, CacheTypeOK, CachedFresh, OpenedOwn, OneKey, DrainedOut
<1>4. OpenedOwn'
    BY KeyFacts DEF Call, CacheInv, CacheTypeOK, OpenedOwn, CachedFresh, DrainedOut, OneKey
<1>5. DrainedOut'
    BY KeyFacts DEF Call, CacheInv, CacheTypeOK, DrainedOut, CachedFresh, OpenedOwn, OneKey
<1>6. OneKey'
    BY KeyFacts DEF Call, CacheInv, CacheTypeOK, OneKey, OpenedOwn
<1>7. LandingMatches'
    BY KeyFacts DEF Call, CacheInv, CacheTypeOK, LandingMatches, OpenedOwn, CachedFresh
<1>8. ServedOpened'
    BY KeyFacts DEF Call, CacheInv, CacheTypeOK, ServedOpened, LandingMatches, CachedFresh
<1> QED
    BY <1>1, <1>2, <1>3, <1>4, <1>5, <1>6, <1>7, <1>8 DEF CacheInv

\* Hit preserves the invariant.
LEMMA HitInv ==
    ASSUME NEW c \in Callers, CacheInv, Hit(c)
    PROVE  CacheInv'
<1>1. CacheTypeOK'
    BY KeyFacts DEF Hit, CacheInv, CacheTypeOK, PCs
<1>2. GenBound'
    BY KeyFacts DEF Hit, CacheInv, CacheTypeOK, GenBound, Pending
<1>3. CachedFresh'
    BY KeyFacts DEF Hit, CacheInv, CacheTypeOK, CachedFresh, OpenedOwn, OneKey, DrainedOut
<1>4. OpenedOwn'
    BY KeyFacts DEF Hit, CacheInv, CacheTypeOK, OpenedOwn, CachedFresh, DrainedOut, OneKey
<1>5. DrainedOut'
    BY KeyFacts DEF Hit, CacheInv, CacheTypeOK, DrainedOut, CachedFresh, OpenedOwn, OneKey
<1>6. OneKey'
    BY KeyFacts DEF Hit, CacheInv, CacheTypeOK, OneKey, OpenedOwn
<1>7. LandingMatches'
    BY KeyFacts DEF Hit, CacheInv, CacheTypeOK, LandingMatches, OpenedOwn, CachedFresh
<1>8. ServedOpened'
    BY KeyFacts DEF Hit, CacheInv, CacheTypeOK, ServedOpened, LandingMatches, CachedFresh
<1> QED
    BY <1>1, <1>2, <1>3, <1>4, <1>5, <1>6, <1>7, <1>8 DEF CacheInv

\* Miss preserves the invariant.
LEMMA MissInv ==
    ASSUME NEW c \in Callers, CacheInv, Miss(c)
    PROVE  CacheInv'
<1>1. CacheTypeOK'
    BY KeyFacts DEF Miss, CacheInv, CacheTypeOK, PCs
<1>2. GenBound'
    BY KeyFacts DEF Miss, CacheInv, CacheTypeOK, GenBound, Pending
<1>3. CachedFresh'
    BY KeyFacts DEF Miss, CacheInv, CacheTypeOK, CachedFresh, OpenedOwn, OneKey, DrainedOut
<1>4. OpenedOwn'
    BY KeyFacts DEF Miss, CacheInv, CacheTypeOK, OpenedOwn, CachedFresh, DrainedOut, OneKey
<1>5. DrainedOut'
    BY KeyFacts DEF Miss, CacheInv, CacheTypeOK, DrainedOut, CachedFresh, OpenedOwn, OneKey
<1>6. OneKey'
    BY KeyFacts DEF Miss, CacheInv, CacheTypeOK, OneKey, OpenedOwn
<1>7. LandingMatches'
    BY KeyFacts DEF Miss, CacheInv, CacheTypeOK, LandingMatches, OpenedOwn, CachedFresh
<1>8. ServedOpened'
    BY KeyFacts DEF Miss, CacheInv, CacheTypeOK, ServedOpened, LandingMatches, CachedFresh
<1> QED
    BY <1>1, <1>2, <1>3, <1>4, <1>5, <1>6, <1>7, <1>8 DEF CacheInv

\* Lead preserves the invariant.
LEMMA LeadInv ==
    ASSUME NEW c \in Callers, CacheInv, Lead(c)
    PROVE  CacheInv'
<1>1. CacheTypeOK'
    BY KeyFacts DEF Lead, CacheInv, CacheTypeOK, PCs
<1>2. GenBound'
    BY KeyFacts DEF Lead, CacheInv, CacheTypeOK, GenBound, Pending
<1>3. CachedFresh'
    BY KeyFacts DEF Lead, CacheInv, CacheTypeOK, CachedFresh, OpenedOwn, OneKey, DrainedOut
<1>4. OpenedOwn'
    BY KeyFacts DEF Lead, CacheInv, CacheTypeOK, OpenedOwn, CachedFresh, DrainedOut, OneKey
<1>5. DrainedOut'
    BY KeyFacts DEF Lead, CacheInv, CacheTypeOK, DrainedOut, CachedFresh, OpenedOwn, OneKey
<1>6. OneKey'
    BY KeyFacts DEF Lead, CacheInv, CacheTypeOK, OneKey, OpenedOwn
<1>7. LandingMatches'
    BY KeyFacts DEF Lead, CacheInv, CacheTypeOK, LandingMatches, OpenedOwn, CachedFresh
<1>8. ServedOpened'
    BY KeyFacts DEF Lead, CacheInv, CacheTypeOK, ServedOpened, LandingMatches, CachedFresh
<1> QED
    BY <1>1, <1>2, <1>3, <1>4, <1>5, <1>6, <1>7, <1>8 DEF CacheInv

\* Join preserves the invariant.
LEMMA JoinInv ==
    ASSUME NEW c \in Callers, CacheInv, Join(c)
    PROVE  CacheInv'
<1>1. CacheTypeOK'
    BY KeyFacts DEF Join, CacheInv, CacheTypeOK, PCs
<1>2. GenBound'
    BY KeyFacts DEF Join, CacheInv, CacheTypeOK, GenBound, Pending
<1>3. CachedFresh'
    BY KeyFacts DEF Join, CacheInv, CacheTypeOK, CachedFresh, OpenedOwn, OneKey, DrainedOut
<1>4. OpenedOwn'
    BY KeyFacts DEF Join, CacheInv, CacheTypeOK, OpenedOwn, CachedFresh, DrainedOut, OneKey
<1>5. DrainedOut'
    BY KeyFacts DEF Join, CacheInv, CacheTypeOK, DrainedOut, CachedFresh, OpenedOwn, OneKey
<1>6. OneKey'
    BY KeyFacts DEF Join, CacheInv, CacheTypeOK, OneKey, OpenedOwn
<1>7. LandingMatches'
    BY KeyFacts DEF Join, CacheInv, CacheTypeOK, LandingMatches, OpenedOwn, CachedFresh
<1>8. ServedOpened'
    BY KeyFacts DEF Join, CacheInv, CacheTypeOK, ServedOpened, LandingMatches, CachedFresh
<1> QED
    BY <1>1, <1>2, <1>3, <1>4, <1>5, <1>6, <1>7, <1>8 DEF CacheInv

\* Open preserves the invariant.
LEMMA OpenInv ==
    ASSUME NEW c \in Callers, NEW h \in Handles, CacheInv, Open(c, h)
    PROVE  CacheInv'
<1>1. CacheTypeOK'
    BY KeyFacts DEF Open, CacheInv, CacheTypeOK, PCs
<1>2. GenBound'
    BY KeyFacts DEF Open, CacheInv, CacheTypeOK, GenBound, Pending
<1>3. CachedFresh'
    BY KeyFacts DEF Open, CacheInv, CacheTypeOK, CachedFresh, OpenedOwn, OneKey, DrainedOut
<1>4. OpenedOwn'
    BY KeyFacts DEF Open, CacheInv, CacheTypeOK, OpenedOwn, CachedFresh, DrainedOut, OneKey
<1>5. DrainedOut'
    BY KeyFacts DEF Open, CacheInv, CacheTypeOK, DrainedOut, CachedFresh, OpenedOwn, OneKey
<1>6. OneKey'
    BY KeyFacts DEF Open, CacheInv, CacheTypeOK, OneKey, OpenedOwn
<1>7. LandingMatches'
    BY KeyFacts DEF Open, CacheInv, CacheTypeOK, LandingMatches, OpenedOwn, CachedFresh
<1>8. ServedOpened'
    BY KeyFacts DEF Open, CacheInv, CacheTypeOK, ServedOpened, LandingMatches, CachedFresh
<1> QED
    BY <1>1, <1>2, <1>3, <1>4, <1>5, <1>6, <1>7, <1>8 DEF CacheInv

\* OpenFails preserves the invariant.
LEMMA OpenFailsInv ==
    ASSUME NEW c \in Callers, CacheInv, OpenFails(c)
    PROVE  CacheInv'
<1>1. CacheTypeOK'
    BY KeyFacts DEF OpenFails, CacheInv, CacheTypeOK, PCs
<1>2. GenBound'
    BY KeyFacts DEF OpenFails, CacheInv, CacheTypeOK, GenBound, Pending
<1>3. CachedFresh'
    BY KeyFacts DEF OpenFails, CacheInv, CacheTypeOK, CachedFresh, OpenedOwn, OneKey, DrainedOut
<1>4. OpenedOwn'
    BY KeyFacts DEF OpenFails, CacheInv, CacheTypeOK, OpenedOwn, CachedFresh, DrainedOut, OneKey
<1>5. DrainedOut'
    BY KeyFacts DEF OpenFails, CacheInv, CacheTypeOK, DrainedOut, CachedFresh, OpenedOwn, OneKey
<1>6. OneKey'
    BY KeyFacts DEF OpenFails, CacheInv, CacheTypeOK, OneKey, OpenedOwn
<1>7. LandingMatches'
    BY KeyFacts DEF OpenFails, CacheInv, CacheTypeOK, LandingMatches, OpenedOwn, CachedFresh
<1>8. ServedOpened'
    BY KeyFacts DEF OpenFails, CacheInv, CacheTypeOK, ServedOpened, LandingMatches, CachedFresh
<1> QED
    BY <1>1, <1>2, <1>3, <1>4, <1>5, <1>6, <1>7, <1>8 DEF CacheInv

\* Store preserves the invariant.
LEMMA StoreInv ==
    ASSUME NEW c \in Callers, CacheInv, Store(c)
    PROVE  CacheInv'
<1>1. CacheTypeOK'
    BY KeyFacts DEF Store, StoreGuard, CacheInv, CacheTypeOK, PCs
<1>2. GenBound'
    BY KeyFacts DEF Store, StoreGuard, CacheInv, CacheTypeOK, GenBound, Pending
<1>3. CachedFresh'
    BY KeyFacts DEF Store, StoreGuard, CacheInv, CacheTypeOK, CachedFresh, OpenedOwn, OneKey, DrainedOut
<1>4. OpenedOwn'
    BY KeyFacts DEF Store, StoreGuard, CacheInv, CacheTypeOK, OpenedOwn, CachedFresh, DrainedOut, OneKey
<1>5. DrainedOut'
    BY KeyFacts DEF Store, StoreGuard, CacheInv, CacheTypeOK, DrainedOut, CachedFresh, OpenedOwn, OneKey
<1>6. OneKey'
    BY KeyFacts DEF Store, StoreGuard, CacheInv, CacheTypeOK, OneKey, OpenedOwn
<1>7. LandingMatches'
    BY KeyFacts DEF Store, StoreGuard, CacheInv, CacheTypeOK, LandingMatches, OpenedOwn, CachedFresh
<1>8. ServedOpened'
    BY KeyFacts DEF Store, StoreGuard, CacheInv, CacheTypeOK, ServedOpened, LandingMatches, CachedFresh
<1> QED
    BY <1>1, <1>2, <1>3, <1>4, <1>5, <1>6, <1>7, <1>8 DEF CacheInv

\* Land preserves the invariant.
LEMMA LandInv ==
    ASSUME NEW c \in Callers, CacheInv, Land(c)
    PROVE  CacheInv'
<1>1. CacheTypeOK'
    BY KeyFacts DEF Land, Waiting, CacheInv, CacheTypeOK, PCs
<1>2. GenBound'
    BY KeyFacts DEF Land, Waiting, CacheInv, CacheTypeOK, GenBound, Pending
<1>3. CachedFresh'
    BY KeyFacts DEF Land, Waiting, CacheInv, CacheTypeOK, CachedFresh, OpenedOwn, OneKey, DrainedOut
<1>4. OpenedOwn'
    BY KeyFacts DEF Land, Waiting, CacheInv, CacheTypeOK, OpenedOwn, CachedFresh, DrainedOut, OneKey
<1>5. DrainedOut'
    BY KeyFacts DEF Land, Waiting, CacheInv, CacheTypeOK, DrainedOut, CachedFresh, OpenedOwn, OneKey
<1>6. OneKey'
    BY KeyFacts DEF Land, Waiting, CacheInv, CacheTypeOK, OneKey, OpenedOwn
<1>7. LandingMatches'
    BY KeyFacts DEF Land, Waiting, CacheInv, CacheTypeOK, LandingMatches, OpenedOwn, CachedFresh
<1>8. ServedOpened'
    BY KeyFacts DEF Land, Waiting, CacheInv, CacheTypeOK, ServedOpened, LandingMatches, CachedFresh
<1> QED
    BY <1>1, <1>2, <1>3, <1>4, <1>5, <1>6, <1>7, <1>8 DEF CacheInv

\* Release preserves the invariant.
LEMMA ReleaseInv ==
    ASSUME NEW c \in Callers, CacheInv, Release(c)
    PROVE  CacheInv'
<1>1. CacheTypeOK'
    BY KeyFacts DEF Release, CacheInv, CacheTypeOK, PCs
<1>2. GenBound'
    BY KeyFacts DEF Release, CacheInv, CacheTypeOK, GenBound, Pending
<1>3. CachedFresh'
    BY KeyFacts DEF Release, CacheInv, CacheTypeOK, CachedFresh, OpenedOwn, OneKey, DrainedOut
<1>4. OpenedOwn'
    BY KeyFacts DEF Release, CacheInv, CacheTypeOK, OpenedOwn, CachedFresh, DrainedOut, OneKey
<1>5. DrainedOut'
    BY KeyFacts DEF Release, CacheInv, CacheTypeOK, DrainedOut, CachedFresh, OpenedOwn, OneKey
<1>6. OneKey'
    BY KeyFacts DEF Release, CacheInv, CacheTypeOK, OneKey, OpenedOwn
<1>7. LandingMatches'
    BY KeyFacts DEF Release, CacheInv, CacheTypeOK, LandingMatches, OpenedOwn, CachedFresh
<1>8. ServedOpened'
    BY KeyFacts DEF Release, CacheInv, CacheTypeOK, ServedOpened, LandingMatches, CachedFresh
<1> QED
    BY <1>1, <1>2, <1>3, <1>4, <1>5, <1>6, <1>7, <1>8 DEF CacheInv

\* Invalidate preserves the invariant.
LEMMA InvalidateInv ==
    ASSUME NEW d \in Datasources, CacheInv, Invalidate(d)
    PROVE  CacheInv'
<1>1. CacheTypeOK'
    BY KeyFacts DEF Invalidate, KeysOf, CacheInv, CacheTypeOK, PCs
<1>2. GenBound'
    BY KeyFacts DEF Invalidate, KeysOf, CacheInv, CacheTypeOK, GenBound, Pending
<1>3. CachedFresh'
    BY KeyFacts DEF Invalidate, KeysOf, CacheInv, CacheTypeOK, CachedFresh, OpenedOwn, OneKey, DrainedOut
<1>4. OpenedOwn'
    BY KeyFacts DEF Invalidate, KeysOf, CacheInv, CacheTypeOK, OpenedOwn, CachedFresh, DrainedOut, OneKey
<1>5. DrainedOut'
    BY KeyFacts DEF Invalidate, KeysOf, CacheInv, CacheTypeOK, DrainedOut, CachedFresh, OpenedOwn, OneKey
<1>6. OneKey'
    BY KeyFacts DEF Invalidate, KeysOf, CacheInv, CacheTypeOK, OneKey, OpenedOwn
<1>7. LandingMatches'
    BY KeyFacts DEF Invalidate, KeysOf, CacheInv, CacheTypeOK, LandingMatches, OpenedOwn, CachedFresh
<1>8. ServedOpened'
    BY KeyFacts DEF Invalidate, KeysOf, CacheInv, CacheTypeOK, ServedOpened, LandingMatches, CachedFresh
<1> QED
    BY <1>1, <1>2, <1>3, <1>4, <1>5, <1>6, <1>7, <1>8 DEF CacheInv

\* Close preserves the invariant.
LEMMA CloseInv ==
    ASSUME CacheInv, Close
    PROVE  CacheInv'
<1>1. CacheTypeOK'
    BY KeyFacts DEF Close, CacheInv, CacheTypeOK, PCs
<1>2. GenBound'
    BY KeyFacts DEF Close, CacheInv, CacheTypeOK, GenBound, Pending
<1>3. CachedFresh'
    BY KeyFacts DEF Close, CacheInv, CacheTypeOK, CachedFresh, OpenedOwn, OneKey, DrainedOut
<1>4. OpenedOwn'
    BY KeyFacts DEF Close, CacheInv, CacheTypeOK, OpenedOwn, CachedFresh, DrainedOut, OneKey
<1>5. DrainedOut'
    BY KeyFacts DEF Close, CacheInv, CacheTypeOK, DrainedOut, CachedFresh, OpenedOwn, OneKey
<1>6. OneKey'
    BY KeyFacts DEF Close, CacheInv, CacheTypeOK, OneKey, OpenedOwn
<1>7. LandingMatches'
    BY KeyFacts DEF Close, CacheInv, CacheTypeOK, LandingMatches, OpenedOwn, CachedFresh
<1>8. ServedOpened'
    BY KeyFacts DEF Close, CacheInv, CacheTypeOK, ServedOpened, LandingMatches, CachedFresh
<1> QED
    BY <1>1, <1>2, <1>3, <1>4, <1>5, <1>6, <1>7, <1>8 DEF CacheInv

\* Drain preserves the invariant.
LEMMA DrainInv ==
    ASSUME NEW h \in Handles, CacheInv, Drain(h)
    PROVE  CacheInv'
<1>1. CacheTypeOK'
    BY KeyFacts DEF Drain, CacheInv, CacheTypeOK, PCs
<1>2. GenBound'
    BY KeyFacts DEF Drain, CacheInv, CacheTypeOK, GenBound, Pending
<1>3. CachedFresh'
    BY KeyFacts DEF Drain, CacheInv, CacheTypeOK, CachedFresh, OpenedOwn, OneKey, DrainedOut
<1>4. OpenedOwn'
    BY KeyFacts DEF Drain, CacheInv, CacheTypeOK, OpenedOwn, CachedFresh, DrainedOut, OneKey
<1>5. DrainedOut'
    BY KeyFacts DEF Drain, CacheInv, CacheTypeOK, DrainedOut, CachedFresh, OpenedOwn, OneKey
<1>6. OneKey'
    BY KeyFacts DEF Drain, CacheInv, CacheTypeOK, OneKey, OpenedOwn
<1>7. LandingMatches'
    BY KeyFacts DEF Drain, CacheInv, CacheTypeOK, LandingMatches, OpenedOwn, CachedFresh
<1>8. ServedOpened'
    BY KeyFacts DEF Drain, CacheInv, CacheTypeOK, ServedOpened, LandingMatches, CachedFresh
<1> QED
    BY <1>1, <1>2, <1>3, <1>4, <1>5, <1>6, <1>7, <1>8 DEF CacheInv

\* An empty PoolCache satisfies the invariant.
LEMMA InitInv == CacheInit => CacheInv
BY KeyFacts
DEF CacheInit, NewPoolCache, CacheInv, CacheTypeOK, PCs, GenBound, Pending, CachedFresh,
    OpenedOwn, DrainedOut, OneKey, LandingMatches, ServedOpened

\* The invariant reads no variable but the cache's own.
LEMMA StutterInv == CacheInv /\ UNCHANGED cacheVars => CacheInv'
BY DEF cacheVars, CacheInv, CacheTypeOK, GenBound, Pending, CachedFresh, OpenedOwn,
       DrainedOut, OneKey, LandingMatches, ServedOpened

\* Every step of Get, Invalidate, Close and Drain keeps the invariant.
LEMMA NextInv == CacheInv /\ [CacheNext]_cacheVars => CacheInv'
<1> SUFFICES ASSUME CacheInv, [CacheNext]_cacheVars
             PROVE  CacheInv'
    OBVIOUS
<1>1. ASSUME NEW c \in Callers, GetStep(c)
      PROVE  CacheInv'
    BY <1>1, HitInv, MissInv, LeadInv, JoinInv, OpenInv, OpenFailsInv, StoreInv, LandInv
    DEF GetStep
<1>2. CASE UNCHANGED cacheVars
    BY <1>2, StutterInv
<1> QED
    BY <1>1, <1>2, CallInv, ReleaseInv, InvalidateInv, CloseInv, DrainInv DEF CacheNext

\* The inductive invariant holds of every behaviour of the PoolCache; the theorems below follow from it.
THEOREM InductiveInvariant == CacheSpec => []CacheInv
BY InitInv, NextInv, PTL DEF CacheSpec

\* The invariants the runs check follow from the inductive one.
LEMMA InvConsequences == CacheInv => CachedFresh /\ ServedMatches /\ OneOwner
BY DEF CacheInv, ServedMatches, ServedOpened, OneOwner, OneKey, OpenedOwn

\* Every variable of the cache keeps its type.
THEOREM CacheTypeCorrect == CacheSpec => []CacheTypeOK
BY InductiveInvariant, PTL DEF CacheInv

\* No pool that was asked for before an Invalidate is in the map after it: the
\* generation check of Get closes the race between an open and an invalidation.
THEOREM CachedFreshCorrect == CacheSpec => []CachedFresh
BY InductiveInvariant, InvConsequences, PTL

\* Every caller Get serves holds a pool opened with the DSN it asked for,
\* whether it found the pool, opened it, or shared the flight of another.
THEOREM ServedMatchesCorrect == CacheSpec => []ServedMatches
BY InductiveInvariant, InvConsequences, PTL

\* A pool is in the map under one key, and not while its opener may close it.
THEOREM OneOwnerCorrect == CacheSpec => []OneOwner
BY InductiveInvariant, InvConsequences, PTL

\* The promise of Get holds for any callers, datasources and settings.
THEOREM PoolsSoundCorrect == CacheSpec => []PoolsSound
BY CachedFreshCorrect, ServedMatchesCorrect, OneOwnerCorrect, PTL DEF PoolsSound

-----------------------------------------------------------------------------
(***************************************************************************)
(* The refinement.  A step of the cache is a step of the registry or       *)
(* leaves it unchanged; the generation counters implement the revocation.  *)
(***************************************************************************)
DSOfKey == [k \in Keys |-> k[1]]

\* An empty PoolCache is an empty registry.
LEMMA InitRefines == CacheInit => Registry!RegInit
BY DEF CacheInit, NewPoolCache, Registry!RegInit, admittedNow

\* The steps that change neither the map nor who is admitted.
LEMMA SilentSteps ==
    ASSUME CacheInv,
           \/ \E c \in Callers, k \in Keys : Call(c, k)
           \/ \E c \in Callers : Hit(c) \/ Lead(c) \/ Land(c) \/ Release(c)
           \/ \E c \in Callers, h \in Handles : Open(c, h)
           \/ \E h \in Handles : Drain(h)
    PROVE  pools' = pools /\ admittedNow' = admittedNow
<1>1. pools' = pools /\ gens' = gens
    BY DEF Call, Hit, Lead, Open, Land, Release, Drain
<1>2. ASSUME NEW x \in Callers
      PROVE  /\ Pending(x)' <=> Pending(x)
             /\ Pending(x) => want'[x] = want[x] /\ gen'[x] = gen[x]
    BY <1>2 DEF CacheInv, CacheTypeOK, Call, Hit, Lead, Open, Land, Waiting, Release, Drain, Pending
<1> QED
    BY <1>1, <1>2 DEF admittedNow, Pending

\* A miss reads the datasource's generation: the request is admitted.
LEMMA MissRefines ==
    ASSUME CacheInv, NEW c \in Callers, Miss(c)
    PROVE  Registry!Admit(c, want[c])
<1>1. want[c] \in Keys /\ want[c][1] \in Datasources
    BY KeyFacts DEF CacheInv, CacheTypeOK, Miss
<1>2. admittedNow' = admittedNow \cup {<<c, want[c]>>}
    BY <1>1 DEF CacheInv, CacheTypeOK, Miss, admittedNow
<1> QED
    BY <1>1, <1>2 DEF Miss, Registry!Admit

\* A caller that joins another's flight, or whose open fails, withdraws its request.
LEMMA WithdrawRefines ==
    ASSUME CacheInv, NEW c \in Callers, Join(c) \/ OpenFails(c)
    PROVE  Registry!Withdraw(c)
<1>1. admittedNow' = {r \in admittedNow : r[1] # c}
    BY DEF CacheInv, CacheTypeOK, Join, OpenFails, admittedNow
<1> QED
    BY <1>1 DEF Join, OpenFails, Registry!Withdraw

\* The store installs the pool exactly when the generation is still the one read:
\* otherwise the registry does not change.
LEMMA StoreRefines ==
    ASSUME CacheInv, NEW c \in Callers, Store(c)
    PROVE  \/ \E h \in Handles : Registry!Install(c, want[c], h)
           \/ pools' = pools /\ admittedNow' = admittedNow
<1>1. want[c] \in Keys /\ got[c] \in Handles
    BY DEF CacheInv, CacheTypeOK, OpenedOwn, Store
<1>2. CASE StoreGuard(c)
    <2>1. <<c, want[c]>> \in admittedNow
        BY <1>1, <1>2 DEF Store, StoreGuard, admittedNow
    <2>2. admittedNow' = admittedNow \ {<<c, want[c]>>}
        BY <1>1, <1>2 DEF CacheInv, CacheTypeOK, Store, StoreGuard, admittedNow
    <2>3. Registry!Install(c, want[c], got[c])
        BY <1>2, <2>1, <2>2 DEF Store, Registry!Install
    <2> QED
        BY <1>1, <2>3
<1>3. CASE ~StoreGuard(c)
    <2>1. admittedNow' = admittedNow
        BY <1>1, <1>3 DEF CacheInv, CacheTypeOK, Store, StoreGuard, admittedNow
    <2> QED
        BY <1>3, <2>1 DEF Store
<1> QED
    BY <1>2, <1>3

\* An invalidation revokes exactly the requests of its datasource: the others
\* keep the generation they read, and none had read the new one already.
LEMMA InvalidateRefines ==
    ASSUME CacheInv, NEW d \in Datasources, Invalidate(d)
    PROVE  Registry!Revoke(d)
<1>1. \A x \in Callers : Pending(x) => want[x] \in Keys /\ want[x][1] \in Datasources
    BY KeyFacts DEF CacheInv, CacheTypeOK, Pending
<1>2. \A x \in Callers : Pending(x) =>
        (gen[x] = gens'[want[x][1]] <=> gen[x] = gens[want[x][1]] /\ want[x][1] # d)
    BY <1>1 DEF CacheInv, CacheTypeOK, GenBound, Invalidate
<1>3. admittedNow' = {r \in admittedNow : DSOfKey[r[2]] # d}
    BY <1>1, <1>2 DEF Invalidate, admittedNow, Pending, DSOfKey
<1>4. pools' = [k \in Keys |-> IF DSOfKey[k] = d THEN None ELSE pools[k]]
    BY DEF Invalidate, KeysOf, DSOfKey
<1> QED
    BY <1>3, <1>4 DEF Registry!Revoke, DSOfKey

\* Close empties the map and revokes no request: it leaves the generations alone.
LEMMA CloseRefines ==
    ASSUME CacheInv, Close
    PROVE  Registry!Empty
BY DEF Close, Registry!Empty, admittedNow

\* Every step of the PoolCache is a step of the registry or leaves it unchanged.
LEMMA NextRefines ==
    ASSUME CacheInv, [CacheNext]_cacheVars
    PROVE  [Registry!RegNext]_(Registry!regVars)
<1>1. ASSUME NEW c \in Callers, GetStep(c)
      PROVE  [Registry!RegNext]_(Registry!regVars)
    <2>1. want[c] \in Keys
        BY <1>1 DEF CacheInv, CacheTypeOK, GetStep, Hit, Miss, Lead, Join, Open, OpenFails, Store, Land
    <2>2. CASE Miss(c)
        BY <2>1, <2>2, MissRefines DEF Registry!RegNext
    <2>3. CASE Join(c) \/ OpenFails(c)
        BY <2>3, WithdrawRefines DEF Registry!RegNext
    <2>4. CASE Store(c)
        BY <2>1, <2>4, StoreRefines DEF Registry!RegNext, Registry!regVars
    <2>5. CASE Hit(c) \/ Lead(c) \/ Land(c) \/ \E h \in Handles : Open(c, h)
        BY <2>5, SilentSteps DEF Registry!regVars
    <2> QED
        BY <1>1, <2>2, <2>3, <2>4, <2>5 DEF GetStep
<1>2. ASSUME \/ \E c \in Callers, k \in Keys : Call(c, k)
             \/ \E c \in Callers : Release(c)
             \/ \E h \in Handles : Drain(h)
      PROVE  [Registry!RegNext]_(Registry!regVars)
    BY <1>2, SilentSteps DEF Registry!regVars
<1>3. ASSUME NEW d \in Datasources, Invalidate(d)
      PROVE  [Registry!RegNext]_(Registry!regVars)
    BY <1>3, InvalidateRefines DEF Registry!RegNext
<1>4. CASE Close
    BY <1>4, CloseRefines DEF Registry!RegNext
<1>5. CASE UNCHANGED cacheVars
    BY <1>5 DEF cacheVars, Registry!regVars, admittedNow
<1> QED
    BY <1>1, <1>2, <1>3, <1>4, <1>5 DEF CacheNext

\* The cache with its lock, generations and flights implements the registry:
\* only a request that no invalidation has overtaken installs its pool.
THEOREM CacheImplementsRegistry == CacheSpec => ImplementsRegistry
<1>1. CacheInv /\ [CacheNext]_cacheVars => [Registry!RegNext]_(Registry!regVars)
    BY NextRefines
<1> QED
    BY <1>1, InitRefines, InductiveInvariant, PTL
    DEF CacheSpec, ImplementsRegistry, Registry!RegSpec

-----------------------------------------------------------------------------
-----------------------------------------------------------------------------
(***************************************************************************)
(* Open pools that nobody owns.                                            *)
(***************************************************************************)
\* The pool that displaced h is one that was opened before, so no later open
\* can take its birth mark away.
OwnedOrDisplaced(h) ==
    \/ \E k \in Keys : pools[k] = h
    \/ \E c \in Callers : pc[c] = "opened" /\ got[c] = h
    \/ h \in draining
    \/ \E g \in Handles \ {h} : status[g] # "unused" /\ born[g] = born[h]

OrphanInv == \A h \in Handles : status[h] = "open" => OwnedOrDisplaced(h)

\* The steps of Get outside the open and the store change neither the pools
\* nor who is about to store one.
LEMMA QuietSteps ==
    ASSUME CacheInv, OrphanInv, NEW c \in Callers,
           \/ \E k \in Keys : Call(c, k)
           \/ Hit(c) \/ Miss(c) \/ Lead(c) \/ Join(c) \/ OpenFails(c) \/ Land(c) \/ Release(c)
    PROVE  OrphanInv'
<1>1. pc \in [Callers -> PCs] /\ got \in [Callers -> Handles \cup {None}]
    BY DEF CacheInv, CacheTypeOK
<1>2. UNCHANGED <<pools, status, born, draining>>
    BY DEF Call, Hit, Miss, Lead, Join, OpenFails, Land, Release
<1>3. ASSUME NEW x \in Callers, pc[x] = "opened"
      PROVE  pc'[x] = "opened" /\ got'[x] = got[x]
    BY <1>1, <1>3 DEF Call, Hit, Miss, Lead, Join, OpenFails, Land, Waiting, Release
<1> QED
    BY <1>2, <1>3 DEF OrphanInv, OwnedOrDisplaced

\* A fresh pool is in its opener's hands.
LEMMA OpenOrphans ==
    ASSUME CacheInv, OrphanInv, NEW c \in Callers, NEW h \in Handles, Open(c, h)
    PROVE  OrphanInv'
<1>1. /\ pc \in [Callers -> PCs] /\ got \in [Callers -> Handles \cup {None}]
      /\ status \in [Handles -> {"unused", "open", "closed"}]
      /\ born \in [Handles -> (Keys \X Nat) \cup {None}]
    BY DEF CacheInv, CacheTypeOK
<1>2. /\ pc[c] = "opening" /\ status[h] = "unused"
      /\ status' = [status EXCEPT ![h] = "open"]
      /\ born' = [born EXCEPT ![h] = <<want[c], gen[c]>>]
      /\ got' = [got EXCEPT ![c] = h] /\ pc' = [pc EXCEPT ![c] = "opened"]
      /\ UNCHANGED <<pools, draining>>
    BY DEF Open
<1>3. SUFFICES ASSUME NEW x \in Handles, status'[x] = "open" PROVE OwnedOrDisplaced(x)'
    BY DEF OrphanInv
<1>4. CASE x = h
    BY <1>1, <1>2, <1>4 DEF OwnedOrDisplaced
<1>5. CASE x # h
    <2>1. status[x] = "open" /\ born'[x] = born[x]
        BY <1>1, <1>2, <1>3, <1>5
    <2>2. CASE \E k \in Keys : pools[k] = x
        BY <1>2, <2>2 DEF OwnedOrDisplaced
    <2>3. CASE x \in draining
        BY <1>2, <2>3 DEF OwnedOrDisplaced
    <2>4. ASSUME NEW b \in Callers, pc[b] = "opened", got[b] = x PROVE OwnedOrDisplaced(x)'
        <3>1. pc'[b] = "opened" /\ got'[b] = x
            BY <1>1, <1>2, <2>4
        <3> QED
            BY <3>1 DEF OwnedOrDisplaced
    <2>5. ASSUME NEW g \in Handles \ {x}, status[g] # "unused", born[g] = born[x]
          PROVE  OwnedOrDisplaced(x)'
        <3>1. status'[g] # "unused" /\ born'[g] = born'[x]
            BY <1>1, <1>2, <2>1, <2>5
        <3> QED
            BY <3>1 DEF OwnedOrDisplaced
    <2> QED
        BY <2>1, <2>2, <2>3, <2>4, <2>5 DEF OrphanInv, OwnedOrDisplaced
<1> QED
    BY <1>4, <1>5

\* A store that displaces a pool was made for the key and the generation of
\* that pool: the generation check leaves no other case.
LEMMA StoreOrphans ==
    ASSUME CacheInv, OrphanInv, NEW c \in Callers, Store(c)
    PROVE  OrphanInv'
<1>1. /\ pc \in [Callers -> PCs] /\ got \in [Callers -> Handles \cup {None}]
      /\ status \in [Handles -> {"unused", "open", "closed"}]
      /\ pools \in [Keys -> Handles \cup {None}]
    BY DEF CacheInv, CacheTypeOK
<1>2. /\ pc[c] = "opened" /\ pc' = [pc EXCEPT ![c] = "landing"]
      /\ UNCHANGED <<born, draining>>
    BY DEF Store
<1>3. /\ want[c] \in Keys /\ got[c] \in Handles /\ status[got[c]] = "open"
      /\ born[got[c]] = <<want[c], gen[c]>> /\ \A k \in Keys : pools[k] # got[c]
    BY <1>1, <1>2 DEF CacheInv, CacheTypeOK, OpenedOwn
<1>4. SUFFICES ASSUME NEW x \in Handles, status'[x] = "open" PROVE OwnedOrDisplaced(x)'
    BY DEF OrphanInv
<1>5. CASE StoreGuard(c)
    <2>1. pools' = [pools EXCEPT ![want[c]] = got[c]] /\ UNCHANGED <<status, got>>
        BY <1>5 DEF Store
    <2>2. OwnedOrDisplaced(x)
        BY <1>4, <2>1 DEF OrphanInv
    <2>3. ASSUME NEW k \in Keys, pools[k] = x PROVE OwnedOrDisplaced(x)'
        <3>1. CASE k # want[c]
            <4>1. pools'[k] = x
                BY <1>1, <2>1, <2>3, <3>1
            <4> QED
                BY <4>1 DEF OwnedOrDisplaced
        <3>2. CASE k = want[c]
            <4>1. born[x] = <<k, gens[k[1]]>>
                BY <2>3, KeyFacts DEF CacheInv, CachedFresh
            <4>2. born[x] = born[got[c]]
                BY <1>3, <1>5, <3>2, <4>1 DEF StoreGuard
            <4>3. got[c] \in Handles \ {x}
                BY <1>3, <2>3
            <4>4. status'[got[c]] # "unused" /\ born'[got[c]] = born'[x]
                BY <1>2, <1>3, <2>1, <4>2
            <4> QED
                BY <4>3, <4>4 DEF OwnedOrDisplaced
        <3> QED
            BY <3>1, <3>2
    <2>4. ASSUME NEW b \in Callers, pc[b] = "opened", got[b] = x PROVE OwnedOrDisplaced(x)'
        <3>1. CASE b = c
            <4>1. pools'[want[c]] = x
                BY <1>1, <1>3, <2>1, <2>4, <3>1
            <4> QED
                BY <1>3, <4>1 DEF OwnedOrDisplaced
        <3>2. CASE b # c
            <4>1. pc'[b] = "opened" /\ got'[b] = x
                BY <1>1, <1>2, <2>1, <2>4, <3>2
            <4> QED
                BY <4>1 DEF OwnedOrDisplaced
        <3> QED
            BY <3>1, <3>2
    <2>5. ASSUME x \in draining \/ \E g \in Handles \ {x} : status[g] # "unused" /\ born[g] = born[x]
          PROVE  OwnedOrDisplaced(x)'
        BY <1>2, <2>1, <2>5 DEF OwnedOrDisplaced
    <2> QED
        BY <2>2, <2>3, <2>4, <2>5 DEF OwnedOrDisplaced
<1>6. CASE ~StoreGuard(c)
    <2>1. /\ pools' = pools /\ status' = [status EXCEPT ![got[c]] = "closed"]
          /\ got' = [got EXCEPT ![c] = None]
        BY <1>6 DEF Store
    <2>2. x # got[c] /\ status[x] = "open"
        BY <1>1, <1>3, <1>4, <2>1
    <2>3. OwnedOrDisplaced(x)
        BY <2>2 DEF OrphanInv
    <2>4. ASSUME NEW b \in Callers, pc[b] = "opened", got[b] = x PROVE OwnedOrDisplaced(x)'
        <3>1. b # c
            BY <2>2, <2>4
        <3>2. pc'[b] = "opened" /\ got'[b] = x
            BY <1>1, <1>2, <2>1, <2>4, <3>1
        <3> QED
            BY <3>2 DEF OwnedOrDisplaced
    <2>5. ASSUME NEW g \in Handles \ {x}, status[g] # "unused", born[g] = born[x]
          PROVE  OwnedOrDisplaced(x)'
        <3>1. status'[g] # "unused" /\ born'[g] = born'[x]
            BY <1>1, <1>2, <2>1, <2>5
        <3> QED
            BY <3>1 DEF OwnedOrDisplaced
    <2>6. ASSUME x \in draining \/ \E k \in Keys : pools[k] = x PROVE OwnedOrDisplaced(x)'
        BY <1>2, <2>1, <2>6 DEF OwnedOrDisplaced
    <2> QED
        BY <2>3, <2>4, <2>5, <2>6 DEF OwnedOrDisplaced
<1> QED
    BY <1>5, <1>6

\* Invalidate closes what it removes, Close takes what it removes into its own
\* hands, and a drained pool is closed.
LEMMA RemovalOrphans ==
    ASSUME CacheInv, OrphanInv,
           (\E d \in Datasources : Invalidate(d)) \/ Close \/ \E h \in Handles : Drain(h)
    PROVE  OrphanInv'
<1>1. /\ status \in [Handles -> {"unused", "open", "closed"}]
      /\ pools \in [Keys -> Handles \cup {None}] /\ draining \in SUBSET Handles
    BY DEF CacheInv, CacheTypeOK
<1>2. UNCHANGED <<pc, got, born>>
    BY DEF Invalidate, Close, Drain
<1>3. SUFFICES ASSUME NEW x \in Handles, status'[x] = "open" PROVE OwnedOrDisplaced(x)'
    BY DEF OrphanInv
<1>4. \A g \in Handles : status'[g] = status[g] \/ status'[g] = "closed"
    BY <1>1 DEF Invalidate, Close, Drain
<1>5. OwnedOrDisplaced(x)
    BY <1>3, <1>4 DEF OrphanInv
<1>6. ASSUME \/ \E b \in Callers : pc[b] = "opened" /\ got[b] = x
             \/ \E g \in Handles \ {x} : status[g] # "unused" /\ born[g] = born[x]
      PROVE  OwnedOrDisplaced(x)'
    BY <1>2, <1>4, <1>6 DEF OwnedOrDisplaced
<1>7. ASSUME x \in draining PROVE OwnedOrDisplaced(x)'
    <2>1. x \in draining'
        BY <1>1, <1>3, <1>7 DEF Invalidate, Close, Drain
    <2> QED
        BY <2>1 DEF OwnedOrDisplaced
<1>8. ASSUME NEW k \in Keys, pools[k] = x PROVE OwnedOrDisplaced(x)'
    <2>1. ASSUME NEW d \in Datasources, Invalidate(d) PROVE pools'[k] = x
        <3>1. k \notin KeysOf(d)
            BY <1>3, <1>8, <2>1 DEF Invalidate
        <3> QED
            BY <1>8, <2>1, <3>1 DEF Invalidate
    <2>2. ASSUME Close PROVE x \in draining'
        BY <1>8, <2>2 DEF Close
    <2>3. ASSUME NEW h \in Handles, Drain(h) PROVE pools'[k] = x
        BY <1>8, <2>3 DEF Drain
    <2> QED
        BY <2>1, <2>2, <2>3 DEF OwnedOrDisplaced
<1> QED
    BY <1>5, <1>6, <1>7, <1>8 DEF OwnedOrDisplaced

\* Every step of the cache keeps the open pools accounted for.
LEMMA OrphanStep == CacheInv /\ OrphanInv /\ [CacheNext]_cacheVars => OrphanInv'
<1> SUFFICES ASSUME CacheInv, OrphanInv, [CacheNext]_cacheVars PROVE OrphanInv'
    OBVIOUS
<1>1. CASE UNCHANGED cacheVars
    BY <1>1 DEF cacheVars, OrphanInv, OwnedOrDisplaced
<1>2. CASE CacheNext
    BY <1>2, QuietSteps, OpenOrphans, StoreOrphans, RemovalOrphans DEF CacheNext, GetStep
<1> QED
    BY <1>1, <1>2

-----------------------------------------------------------------------------
(***************************************************************************)
(* Queries, administrators and the cache.                                  *)
(***************************************************************************)
\* The rows and the requests keep their types; an edit that will write has
\* read a row.
CatTypeOK ==
    /\ row \in [Sources -> Row \cup {NoRow}]
    /\ edit \in [Editors -> Requests \cup {NoEdit}]
    /\ \A e \in Editors : edit[e] # NoEdit /\ edit[e].what # "delete" => edit[e].existing \in Row

\* The deletion of d is not over.
Deleting(d) ==
    \E e \in Editors : edit[e] # NoEdit /\ edit[e].what = "delete" /\ edit[e].id = d

\* Why there may be a pool of d.
Explained(d) == row[d] # NoRow \/ Deleting(d) \/ d \in raced

\* Every query that can still store a pool of its datasource has a reason to:
\* one that has not looked in the cache yet, or one that no invalidation has
\* overtaken since it looked.
QueriesExplained ==
    \A c \in Callers :
        pc[c] = "called" \/ (Pending(c) /\ gen[c] = gens[want[c][1]]) => Explained(want[c][1])

PoolsExplained == \A k \in Keys : pools[k] # None => Explained(k[1])

QueryInv == CacheInv /\ OrphanInv /\ CatTypeOK /\ QueriesExplained /\ PoolsExplained

\* An edit of the catalog keeps its types.
LEMMA CatTypeStep ==
    ASSUME CatTypeOK, NEW e \in Editors, EditorStep(e) \/ DropPools(e)
    PROVE  CatTypeOK'
<1>1. ASSUME NEW d \in Sources, NEW s \in Settings, Create(e, d, s) PROVE CatTypeOK'
    <2>1. [dsn |-> s, blocklist |-> NoBlocklist] \in Row
        BY CatalogAssumption DEF Row
    <2> QED
        BY <1>1, <2>1 DEF Create, CatTypeOK
<1>2. ASSUME NEW r \in Requests, edit' = [edit EXCEPT ![e] = r],
             r.what # "delete" => r.existing \in Row, row' \in [Sources -> Row \cup {NoRow}]
      PROVE  CatTypeOK'
    BY <1>2 DEF CatTypeOK
<1>3. ASSUME edit' = [edit EXCEPT ![e] = NoEdit], row' \in [Sources -> Row \cup {NoRow}]
      PROVE  CatTypeOK'
    BY <1>3 DEF CatTypeOK
<1>4. ASSUME NEW d \in Sources, NEW what \in {"settings", "blocklist"}, Read(e, d, what)
      PROVE  CatTypeOK'
    <2> DEFINE r == [what |-> what, id |-> d, existing |-> row[d]]
    <2>1. row[d] \in Row
        BY <1>4 DEF Read, CatTypeOK
    <2>2. r \in Requests /\ r.existing \in Row
        BY <2>1 DEF Requests
    <2>3. edit' = [edit EXCEPT ![e] = r] /\ row' \in [Sources -> Row \cup {NoRow}]
        BY <1>4 DEF Read, CatTypeOK
    <2> HIDE DEF r
    <2> QED
        BY <1>2, <2>2, <2>3
<1>5. ASSUME NEW d \in Sources, DeleteDatasource(e, d) PROVE CatTypeOK'
    <2> DEFINE r == [what |-> "delete", id |-> d, existing |-> row[d]]
    <2>1. row[d] \in Row \cup {NoRow}
        BY DEF CatTypeOK
    <2>2. r \in Requests /\ r.what = "delete"
        BY <2>1 DEF Requests
    <2>3. edit' = [edit EXCEPT ![e] = r] /\ row' \in [Sources -> Row \cup {NoRow}]
        BY <1>5 DEF DeleteDatasource, CatTypeOK
    <2> HIDE DEF r
    <2> QED
        BY <1>2, <2>2, <2>3
<1>6. ASSUME NEW new \in Row, NEW d \in Sources, UpdateDatasource(d, new)
      PROVE  row' \in [Sources -> Row \cup {NoRow}]
    BY <1>6 DEF UpdateDatasource, CatTypeOK
<1>7. ASSUME NEW s \in Settings, WriteSettings(e, s) PROVE CatTypeOK'
    <2> DEFINE new == PreserveFunctionBlocklist(edit[e].existing, s)
    <2>1. edit[e] \in Requests /\ edit[e].existing \in Row
        BY <1>7 DEF WriteSettings, CatTypeOK
    <2>2. new \in Row /\ edit[e].id \in Sources
        BY <2>1 DEF PreserveFunctionBlocklist, Row, Requests
    <2>3. UpdateDatasource(edit[e].id, new) /\ edit' = [edit EXCEPT ![e] = NoEdit]
        BY <1>7 DEF WriteSettings
    <2> HIDE DEF new
    <2> QED
        BY <1>3, <1>6, <2>2, <2>3
<1>8. ASSUME NEW b \in Blocklists, WriteBlocklist(e, b) PROVE CatTypeOK'
    <2> DEFINE new == [edit[e].existing EXCEPT !.blocklist = b]
    <2>1. edit[e] \in Requests /\ edit[e].existing \in Row
        BY <1>8 DEF WriteBlocklist, CatTypeOK
    <2>2. new \in Row /\ edit[e].id \in Sources
        BY <2>1 DEF Row, Requests
    <2>3. UpdateDatasource(edit[e].id, new) /\ edit' = [edit EXCEPT ![e] = NoEdit]
        BY <1>8 DEF WriteBlocklist
    <2> HIDE DEF new
    <2> QED
        BY <1>3, <1>6, <2>2, <2>3
<1>9. ASSUME DropPools(e) PROVE CatTypeOK'
    BY <1>3, <1>9 DEF DropPools, CatTypeOK
<1> QED
    BY <1>1, <1>4, <1>5, <1>7, <1>8, <1>9 DEF EditorStep

\* An edit takes no reason away: a row goes only when its deletion begins.
LEMMA EditorExplains ==
    ASSUME CatTypeOK, NEW e \in Editors, EditorStep(e), UNCHANGED raced,
           NEW d \in Sources, Explained(d)
    PROVE  Explained(d)'
<1>1. CASE d \in raced
    BY <1>1 DEF Explained
<1>2. ASSUME Deleting(d) PROVE Deleting(d)'
    <2>1. PICK x \in Editors : edit[x] # NoEdit /\ edit[x].what = "delete" /\ edit[x].id = d
        BY <1>2 DEF Deleting
    <2>2. x # e \/ edit' = edit
        BY <2>1 DEF EditorStep, Create, Read, WriteSettings, WriteBlocklist, DeleteDatasource
    <2>3. edit'[x] = edit[x]
        BY <2>2 DEF CatTypeOK, EditorStep, Create, Read, WriteSettings, WriteBlocklist,
           DeleteDatasource
    <2> QED
        BY <2>1, <2>3 DEF Deleting
<1>3. ASSUME row[d] # NoRow PROVE row'[d] # NoRow \/ Deleting(d)'
    <2>1. ASSUME NEW y \in Sources, NEW s \in Settings, Create(e, y, s) PROVE row'[d] # NoRow
        <3>1. [dsn |-> s, blocklist |-> NoBlocklist] # NoRow
            BY CatalogAssumption DEF Row
        <3> QED
            BY <1>3, <2>1, <3>1 DEF Create, CatTypeOK
    <2>2. ASSUME NEW y \in Sources, DeleteDatasource(e, y) PROVE row'[d] # NoRow \/ Deleting(d)'
        <3> DEFINE r == [what |-> "delete", id |-> y, existing |-> row[y]]
        <3>1. r \in Requests /\ r.what = "delete" /\ r.id = y
            BY DEF Requests, CatTypeOK
        <3>2. r # NoEdit
            BY <3>1, CatalogAssumption
        <3>3. edit' = [edit EXCEPT ![e] = r] /\ row' = [row EXCEPT ![y] = NoRow]
            BY <2>2 DEF DeleteDatasource
        <3> HIDE DEF r
        <3>4. edit'[e] = r
            BY <3>3 DEF CatTypeOK
        <3>5. CASE d = y
            BY <3>1, <3>2, <3>4, <3>5 DEF Deleting
        <3>6. CASE d # y
            BY <1>3, <3>3, <3>6 DEF CatTypeOK
        <3> QED
            BY <3>5, <3>6
    <2>3. ASSUME NEW y \in Sources, NEW new \in Row, UpdateDatasource(y, new)
          PROVE  row'[d] # NoRow
        BY <1>3, <2>3, CatalogAssumption DEF UpdateDatasource, CatTypeOK
    <2>4. ASSUME NEW s \in Settings, WriteSettings(e, s) PROVE row'[d] # NoRow
        <3> DEFINE new == PreserveFunctionBlocklist(edit[e].existing, s)
        <3>1. edit[e] \in Requests /\ edit[e].existing \in Row
            BY <2>4 DEF WriteSettings, CatTypeOK
        <3>2. new \in Row /\ edit[e].id \in Sources
            BY <3>1 DEF PreserveFunctionBlocklist, Row, Requests
        <3>3. UpdateDatasource(edit[e].id, new)
            BY <2>4 DEF WriteSettings
        <3> HIDE DEF new
        <3> QED
            BY <2>3, <3>2, <3>3
    <2>5. ASSUME NEW b \in Blocklists, WriteBlocklist(e, b) PROVE row'[d] # NoRow
        <3> DEFINE new == [edit[e].existing EXCEPT !.blocklist = b]
        <3>1. edit[e] \in Requests /\ edit[e].existing \in Row
            BY <2>5 DEF WriteBlocklist, CatTypeOK
        <3>2. new \in Row /\ edit[e].id \in Sources
            BY <3>1 DEF Row, Requests
        <3>3. UpdateDatasource(edit[e].id, new)
            BY <2>5 DEF WriteBlocklist
        <3> HIDE DEF new
        <3> QED
            BY <2>3, <3>2, <3>3
    <2>6. CASE UNCHANGED row
        BY <1>3, <2>6
    <2> QED
        BY <2>1, <2>2, <2>4, <2>5, <2>6 DEF EditorStep, Read
<1> QED
    BY <1>1, <1>2, <1>3 DEF Explained

\* Administrators who touch only the catalog leave every reason in place.
LEMMA EditorStepInv ==
    ASSUME QueryInv, NEW e \in Editors, EditorStep(e), UNCHANGED <<cacheVars, raced>>
    PROVE  CatTypeOK' /\ QueriesExplained' /\ PoolsExplained'
<1>1. CatTypeOK' /\ CatTypeOK
    BY CatTypeStep DEF QueryInv
<1>2. \A d \in Sources : Explained(d) => Explained(d)'
    BY <1>1, EditorExplains
<1>3. \A k \in Keys : k[1] \in Sources
    BY KeyFacts, SameIds
<1>4. PoolsExplained'
    BY <1>2, <1>3 DEF QueryInv, PoolsExplained, cacheVars
<1>5. \A c \in Callers : pc[c] # "idle" => want[c] \in Keys
    BY DEF QueryInv, CacheInv, CacheTypeOK
<1>6. UNCHANGED <<pc, gen, gens, want>>
    BY DEF cacheVars
<1>7. QueriesExplained'
    BY <1>2, <1>3, <1>5, <1>6 DEF QueryInv, QueriesExplained, Pending
<1> QED
    BY <1>1, <1>4, <1>7

\* A step of the cache that the catalog does not take part in: a pool is
\* stored, and a generation read, only by queries that have a reason.
LEMMA CacheStepInv ==
    ASSUME QueryInv, UNCHANGED <<catVars, raced>>,
           \/ \E c \in Callers : GetStep(c)
           \/ \E c \in Callers : Release(c)
           \/ Close
           \/ \E h \in Handles : Drain(h)
    PROVE  CatTypeOK' /\ QueriesExplained' /\ PoolsExplained'
<1>1. CatTypeOK' /\ \A d : Explained(d)' <=> Explained(d)
    BY DEF QueryInv, CatTypeOK, Explained, Deleting, catVars
<1>t. /\ pools \in [Keys -> Handles \cup {None}] /\ pc \in [Callers -> PCs]
      /\ want \in [Callers -> Keys \cup {None}] /\ gen \in [Callers -> Nat]
      /\ \A c \in Callers : pc[c] # "idle" => want[c] \in Keys
    BY DEF QueryInv, CacheInv, CacheTypeOK
<1>2. gens' = gens
    BY DEF GetStep, Hit, Miss, Lead, Join, Open, OpenFails, Store, Land, Release, Close, Drain
<1>3. ASSUME NEW x \in Callers, pc'[x] = "called" \/ Pending(x)'
      PROVE  /\ want'[x] = want[x]
             /\ pc'[x] = "called" => pc[x] = "called"
             /\ Pending(x)' => \/ Pending(x) /\ gen'[x] = gen[x]
                               \/ pc[x] = "called"
    BY <1>3, <1>t DEF GetStep, Hit, Miss, Lead, Join, Open, OpenFails, Store, Land, Waiting,
       Release, Close, Drain, Pending
<1>4. QueriesExplained'
    BY <1>1, <1>2, <1>3 DEF QueryInv, QueriesExplained
<1>5. ASSUME NEW k \in Keys, pools'[k] # None PROVE Explained(k[1])
    <2>1. CASE pools[k] # None
        BY <2>1 DEF QueryInv, PoolsExplained
    <2>2. CASE pools[k] = None
        <3>1. PICK c \in Callers : Store(c) /\ StoreGuard(c) /\ k = want[c]
            BY <1>5, <1>t, <2>2 DEF GetStep, Hit, Miss, Lead, Join, Open, OpenFails, Store, Land,
               Release, Close, Drain
        <3> QED
            BY <3>1 DEF QueryInv, QueriesExplained, Store, StoreGuard, Pending
    <2> QED
        BY <2>1, <2>2
<1> QED
    BY <1>1, <1>4, <1>5 DEF PoolsExplained

\* A query begins with a row.
LEMMA RunQueryInv ==
    ASSUME QueryInv, NEW c \in Callers, NEW d \in Datasources, RunQuery(c, d)
    PROVE  /\ poolKey(d, row[d].dsn) \in Keys
           /\ CatTypeOK' /\ QueriesExplained' /\ PoolsExplained'
<1>1. row[d] \in Row /\ d \in Sources
    BY SameIds DEF QueryInv, CatTypeOK, RunQuery
<1>2. poolKey(d, row[d].dsn) \in Keys
    BY <1>1, SameIds DEF Row, Keys
<1>3. CatTypeOK' /\ \A y : Explained(y)' <=> Explained(y)
    BY DEF QueryInv, CatTypeOK, Explained, Deleting, catVars, RunQuery
<1>t. pc \in [Callers -> PCs] /\ want \in [Callers -> Keys \cup {None}]
    BY DEF QueryInv, CacheInv, CacheTypeOK
<1> DEFINE k == poolKey(d, row[d].dsn)
<1>4. /\ pc' = [pc EXCEPT ![c] = "called"] /\ want' = [want EXCEPT ![c] = k]
      /\ UNCHANGED <<pools, gens, gen>> /\ row[d] # NoRow
    BY DEF RunQuery, Call
<1>5. k[1] = d /\ Explained(d)
    BY <1>4 DEF poolKey, Explained
<1> HIDE DEF k
<1>6. PoolsExplained'
    BY <1>3, <1>4 DEF QueryInv, PoolsExplained
<1>7. ASSUME NEW x \in Callers,
             pc'[x] = "called" \/ (Pending(x)' /\ gen'[x] = gens'[want'[x][1]])
      PROVE  Explained(want'[x][1])
    <2>1. CASE x = c
        BY <1>4, <1>5, <1>t, <2>1
    <2>2. CASE x # c
        BY <1>4, <1>7, <1>t, <2>2 DEF QueryInv, QueriesExplained, Pending
    <2> QED
        BY <2>1, <2>2
<1>8. QueriesExplained'
    BY <1>3, <1>7 DEF QueriesExplained
<1> QED
    BY <1>2, <1>3, <1>6, <1>8

\* The end of a deletion: the pools of the datasource are gone, the queries
\* that looked before are overtaken, and the others are marked as raced.
LEMMA DeleteInvalidatesInv ==
    ASSUME QueryInv, NEW e \in Editors, DeleteInvalidates(e)
    PROVE  /\ edit[e].id \in Datasources
           /\ CatTypeOK' /\ QueriesExplained' /\ PoolsExplained'
<1>1. edit[e] \in Requests /\ edit[e].id \in Datasources
    BY SameIds DEF QueryInv, CatTypeOK, DeleteInvalidates, DropPools, Requests
<1> DEFINE d == edit[e].id
<1>2. CatTypeOK'
    BY CatTypeStep DEF QueryInv, DeleteInvalidates
<1>3. /\ gens' = [gens EXCEPT ![d] = @ + 1]
      /\ pools' = [k \in Keys |-> IF k \in KeysOf(d) THEN None ELSE pools[k]]
      /\ UNCHANGED <<pc, want, gen>>
    BY DEF DeleteInvalidates, Invalidate
<1>4. raced' = raced \cup ({d} \cap {want[c][1] : c \in {x \in Callers : pc[x] = "called"}})
    BY DEF DeleteInvalidates
<1>5. row' = row /\ edit' = [edit EXCEPT ![e] = NoEdit]
    BY DEF DeleteInvalidates, DropPools
<1>6. ASSUME NEW y \in Sources, y # d, Explained(y) PROVE Explained(y)'
    <2>1. ASSUME NEW x \in Editors, edit[x].id = y PROVE edit'[x] = edit[x]
        BY <1>5, <1>6, <2>1 DEF QueryInv, CatTypeOK
    <2>2. Deleting(y) => Deleting(y)'
        BY <2>1 DEF Deleting
    <2> QED
        BY <1>4, <1>5, <1>6, <2>2 DEF Explained
<1>7. \A k \in Keys : k[1] \in Sources
    BY KeyFacts, SameIds
<1> HIDE DEF d
<1>8. PoolsExplained'
    <2> SUFFICES ASSUME NEW k \in Keys, pools'[k] # None PROVE Explained(k[1])'
        BY DEF PoolsExplained
    <2>1. pools[k] # None /\ k[1] # d
        BY <1>3 DEF KeysOf
    <2>2. Explained(k[1])
        BY <2>1 DEF QueryInv, PoolsExplained
    <2> QED
        BY <1>6, <1>7, <2>1, <2>2
<1>9. ASSUME NEW x \in Callers, pc[x] = "called" \/ (Pending(x) /\ gen[x] = gens'[want[x][1]])
      PROVE  Explained(want[x][1])'
    <2>1. want[x] \in Keys /\ want[x][1] \in Sources /\ want[x][1] \in Datasources
        BY <1>7, <1>9, KeyFacts DEF QueryInv, CacheInv, CacheTypeOK, Pending
    <2>2. CASE want[x][1] # d
        <3>1. gens'[want[x][1]] = gens[want[x][1]]
            BY <1>3, <2>1, <2>2 DEF QueryInv, CacheInv, CacheTypeOK
        <3>2. Explained(want[x][1])
            BY <1>9, <3>1 DEF QueryInv, QueriesExplained
        <3>3. PICK y \in Sources : y = want[x][1]
            BY <2>1
        <3>4. Explained(y)'
            BY <1>6, <2>2, <3>2, <3>3
        <3> QED
            BY <1>3, <3>3, <3>4
    <2>3. CASE want[x][1] = d /\ pc[x] = "called"
        <3>1. d \in raced'
            BY <1>4, <2>3
        <3> QED
            BY <1>3, <2>3, <3>1 DEF Explained
    <2>4. CASE want[x][1] = d /\ Pending(x) /\ gen[x] = gens'[want[x][1]]
        <3>1. gens \in [Datasources -> Nat] /\ d \in Datasources
            BY <2>1, <2>4 DEF QueryInv, CacheInv, CacheTypeOK
        <3>2. gens'[d] = gens[d] + 1 /\ gens[d] \in Nat
            BY <1>3, <3>1
        <3>3. gen[x] <= gens[d] /\ gen[x] \in Nat
            BY <2>4 DEF QueryInv, CacheInv, CacheTypeOK, GenBound
        <3> QED
            BY <2>4, <3>2, <3>3
    <2> QED
        BY <1>9, <2>2, <2>3, <2>4
<1>10. QueriesExplained'
    BY <1>3, <1>9 DEF QueriesExplained, Pending
<1> QED
    BY <1>1, <1>2, <1>8, <1>10

\* The key is of settings that its datasource has, or had before an edit, and
\* the datasource was created.
Known(k) ==
    /\ k[1] \in used
    /\ row[k[1]] = NoRow \/ row[k[1]].dsn = k[2] \/ k \in replaced

\* Queries ask for known keys only, and only those have pools.
SettingsInv ==
    /\ \A c \in Callers : pc[c] # "idle" => Known(want[c])
    /\ \A k \in Keys : pools[k] # None => Known(k)
    /\ \A d \in Sources : row[d] # NoRow => d \in used

\* An edit keeps a key known: one whose settings it replaces is recorded, and
\* an ID is not handed out twice.
LEMMA EditKnown ==
    ASSUME QueryInv, SettingsInv, NEW e \in Editors, Edit(e), NEW k \in Keys, Known(k)
    PROVE  Known(k)'
<1> DEFINE d == k[1]
<1>1. k = poolKey(d, k[2]) /\ d \in Sources
    BY SameIds DEF Keys, poolKey
<1>2. row \in [Sources -> Row \cup {NoRow}]
    BY DEF QueryInv, CatTypeOK
<1>3. used \subseteq used' /\ replaced \subseteq replaced' /\ d \in used
    BY DEF Edit, EditorStep, Create, Read, WriteSettings, WriteBlocklist, DeleteDatasource, Known
<1>4. row[d] = NoRow => row'[d] = NoRow
    BY <1>1, <1>2, <1>3 DEF Edit, EditorStep, Create, Read, WriteSettings, WriteBlocklist,
       DeleteDatasource, UpdateDatasource
<1>5. row[d] # NoRow /\ row'[d] # NoRow /\ row'[d].dsn # row[d].dsn
        => poolKey(d, row[d].dsn) \in replaced'
    BY <1>1 DEF Edit
<1> HIDE DEF d
<1>6. d \in used' /\ (row'[d] = NoRow \/ row'[d].dsn = k[2] \/ k \in replaced')
    BY <1>1, <1>3, <1>4, <1>5 DEF Known, d
<1> QED
    BY <1>6 DEF Known, d

\* An edit keeps the created datasources on record.
LEMMA EditUsed ==
    ASSUME QueryInv, SettingsInv, NEW e \in Editors, Edit(e)
    PROVE  \A d \in Sources : row'[d] # NoRow => d \in used'
<1>1. row \in [Sources -> Row \cup {NoRow}]
    BY DEF QueryInv, CatTypeOK
<1> SUFFICES ASSUME NEW d \in Sources, row'[d] # NoRow PROVE d \in used'
    OBVIOUS
<1>2. row[d] # NoRow => d \in used
    BY DEF SettingsInv
<1>3. CASE \E y \in Sources, s \in Settings : Create(e, y, s)
    BY <1>1, <1>2, <1>3 DEF Create
<1>4. CASE ~ \E y \in Sources, s \in Settings : Create(e, y, s)
    <2>1. used' = used /\ (row[d] = NoRow => row'[d] = NoRow)
        BY <1>1, <1>4 DEF Edit, EditorStep, Read, WriteSettings, WriteBlocklist,
           DeleteDatasource, UpdateDatasource
    <2> QED
        BY <1>2, <2>1
<1> QED
    BY <1>3, <1>4

\* The queries keep to the settings of the rows they read.
LEMMA SettingsStep == QueryInv /\ SettingsInv /\ [Next]_vars => SettingsInv'
<1> SUFFICES ASSUME QueryInv, SettingsInv, [Next]_vars PROVE SettingsInv'
    OBVIOUS
<1>t. /\ pools \in [Keys -> Handles \cup {None}] /\ pc \in [Callers -> PCs]
      /\ want \in [Callers -> Keys \cup {None}]
      /\ \A c \in Callers : pc[c] # "idle" => want[c] \in Keys
    BY DEF QueryInv, CacheInv, CacheTypeOK
<1>1. ASSUME NEW e \in Editors, Edit(e) PROVE SettingsInv'
    <2>1. UNCHANGED <<pools, pc, want>>
        BY <1>1 DEF Edit, cacheVars
    <2>2. \A k \in Keys : Known(k) => Known(k)'
        BY <1>1, EditKnown
    <2>3. \A d \in Sources : row'[d] # NoRow => d \in used'
        BY <1>1, EditUsed
    <2>4. \A c \in Callers : pc'[c] # "idle" => Known(want[c])'
        BY <1>t, <2>1, <2>2 DEF SettingsInv
    <2> QED
        BY <2>1, <2>2, <2>3, <2>4 DEF SettingsInv
<1>2. ASSUME UNCHANGED <<row, used, replaced>>,
             \A c \in Callers : pc'[c] # "idle" => Known(want'[c]),
             \A k \in Keys : pools'[k] # None => Known(k)
      PROVE  SettingsInv'
    <2>1. \A k : Known(k)' <=> Known(k)
        BY <1>2 DEF Known
    <2> QED
        BY <1>2, <2>1 DEF SettingsInv
<1>3. ASSUME NEW c \in Callers, NEW d \in Datasources, RunQuery(c, d) PROVE SettingsInv'
    <2>1. Known(poolKey(d, row[d].dsn))
        BY <1>3, SameIds DEF RunQuery, Known, poolKey, SettingsInv
    <2>2. \A x \in Callers : pc'[x] # "idle" => Known(want'[x])
        BY <1>3, <1>t, <2>1 DEF RunQuery, Call, SettingsInv
    <2> QED
        BY <1>2, <1>3, <2>2 DEF RunQuery, Call, SettingsInv, catVars
<1>4. ASSUME NEW e \in Editors, DeleteInvalidates(e) PROVE SettingsInv'
    <2>1. UNCHANGED <<row, used, replaced, pc, want>>
        BY <1>4 DEF DeleteInvalidates, DropPools, Invalidate
    <2>2. \A k \in Keys : pools'[k] # None => pools[k] # None
        BY <1>4 DEF DeleteInvalidates, Invalidate
    <2> QED
        BY <1>2, <2>1, <2>2 DEF SettingsInv
<1>5. ASSUME UNCHANGED <<catVars, raced, replaced>>,
             \/ \E c \in Callers : GetStep(c) \/ Release(c)
             \/ Close
             \/ \E h \in Handles : Drain(h)
      PROVE  SettingsInv'
    <2>1. \A x \in Callers : pc'[x] # "idle" => pc[x] # "idle" /\ want'[x] = want[x]
        BY <1>5, <1>t DEF GetStep, Hit, Miss, Lead, Join, Open, OpenFails, Store, Land, Waiting,
           Release, Close, Drain
    <2>2. \A k \in Keys : pools'[k] # None =>
            pools[k] # None \/ \E c \in Callers : pc[c] # "idle" /\ k = want[c]
        BY <1>5, <1>t DEF GetStep, Hit, Miss, Lead, Join, Open, OpenFails, Store, Land,
           Release, Close, Drain
    <2> QED
        BY <1>2, <1>5, <2>1, <2>2 DEF SettingsInv, catVars
<1>6. CASE UNCHANGED vars
    BY <1>2, <1>6 DEF vars, catVars, cacheVars, SettingsInv
<1> QED
    BY <1>1, <1>3, <1>4, <1>5, <1>6 DEF Next

\* The queries and the administrators use the cache only through its own
\* operations.
LEMMA NextUsesCache == QueryInv /\ [Next]_vars => [CacheNext]_cacheVars
<1> SUFFICES ASSUME QueryInv, [Next]_vars PROVE [CacheNext]_cacheVars
    OBVIOUS
<1>1. ASSUME NEW c \in Callers, NEW d \in Datasources, RunQuery(c, d) PROVE CacheNext
    BY <1>1, RunQueryInv DEF RunQuery, CacheNext
<1>2. ASSUME NEW e \in Editors, DeleteInvalidates(e) PROVE CacheNext
    BY <1>2, DeleteInvalidatesInv DEF DeleteInvalidates, CacheNext
<1>3. CASE UNCHANGED vars
    BY <1>3 DEF vars, cacheVars
<1> QED
    BY <1>1, <1>2, <1>3 DEF Next, Edit, CacheNext

\* The inductive invariant of the composition.
LEMMA QueryStep == QueryInv /\ [Next]_vars => QueryInv'
<1> SUFFICES ASSUME QueryInv, [Next]_vars PROVE QueryInv'
    OBVIOUS
<1>1. CacheInv /\ OrphanInv /\ [CacheNext]_cacheVars
    BY NextUsesCache DEF QueryInv
<1>2. CacheInv' /\ OrphanInv'
    BY <1>1, NextInv, OrphanStep
<1>3. CatTypeOK' /\ QueriesExplained' /\ PoolsExplained'
    <2>1. ASSUME NEW e \in Editors, Edit(e)
          PROVE  CatTypeOK' /\ QueriesExplained' /\ PoolsExplained'
        BY <2>1, EditorStepInv DEF Edit
    <2>2. CASE UNCHANGED vars
        BY <2>2 DEF QueryInv, CatTypeOK, QueriesExplained, PoolsExplained, Explained, Deleting,
           Pending, vars, catVars, cacheVars
    <2> QED
        BY <2>1, <2>2, RunQueryInv, CacheStepInv, DeleteInvalidatesInv DEF Next
<1> QED
    BY <1>2, <1>3 DEF QueryInv

\* At first there is no pool, no row and no query.
LEMMA QueryInit == Init => QueryInv
<1> SUFFICES ASSUME Init PROVE QueryInv
    OBVIOUS
<1>1. CacheInv
    BY InitInv DEF Init
<1>2. OrphanInv
    BY DEF Init, CacheInit, OrphanInv
<1>3. CatTypeOK
    BY DEF Init, CatInit, CatTypeOK
<1>4. QueriesExplained /\ PoolsExplained
    BY DEF Init, CacheInit, NewPoolCache, QueriesExplained, PoolsExplained, Pending
<1> QED
    BY <1>1, <1>2, <1>3, <1>4 DEF QueryInv

\* A pool that stays open or cached longer than it should is one of three known
\* cases, for any number of queries, administrators and datasources: it was
\* displaced by a second open of its key in the same generation, or a query
\* that had read the row of a deleted datasource, and had not looked in the
\* cache when the deletion cleared it, opened the pool again, or an edit
\* replaced the settings it was opened with, which invalidates nothing.
THEOREM LeftPoolsCorrect == Spec => []LeftPoolsExplained
<1>1. QueryInv /\ SettingsInv => LeftPoolsExplained
    <2> SUFFICES ASSUME QueryInv, SettingsInv PROVE LeftPoolsExplained
        OBVIOUS
    <2>1. OrphanOnlyByDoubleOpen
        BY DEF QueryInv, OrphanInv, OwnedOrDisplaced, OrphanOnlyByDoubleOpen
    <2>2. DeletedUncached
        BY DEF QueryInv, PoolsExplained, Explained, Deleting, DeletedUncached
    <2>3. StaleOnlyByEdit
        BY DEF SettingsInv, Known, StaleOnlyByEdit
    <2> QED
        BY <2>1, <2>2, <2>3 DEF LeftPoolsExplained
<1>2. Init => SettingsInv
    BY DEF Init, CacheInit, NewPoolCache, CatInit, SettingsInv
<1> QED
    BY <1>1, <1>2, QueryInit, QueryStep, SettingsStep, PTL DEF Spec

\* What the cache promises on its own it also promises to the queries and the
\* administrators that share it: they call it as its specification allows.
THEOREM QueriesUseCache == Spec => CacheSpec
<1>1. Init => CacheInit
    BY DEF Init
<1> QED
    BY <1>1, QueryInit, QueryStep, NextUsesCache, PTL DEF Spec, CacheSpec

\* The pools stay sound under the queries and the administrators: a cached pool
\* is open, fresh and has one owner, and a query is handed one of its own key.
THEOREM QueriesPoolsSound == Spec => []PoolsSound
BY QueriesUseCache, PoolsSoundCorrect

\* The composition implements the registry.
THEOREM QueriesImplementRegistry == Spec => ImplementsRegistry
BY QueriesUseCache, CacheImplementsRegistry
=============================================================================
