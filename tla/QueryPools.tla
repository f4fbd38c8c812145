----------------------------- MODULE QueryPools -----------------------------
(***************************************************************************)
(* Queries, the datasource catalog and the pool cache together             *)
(* (internal/core/query_service.go): a query loads the row of its          *)
(* datasource, resolves the DSN from it, takes a pool from the cache and   *)
(* executes on it, while administrators rotate settings and delete         *)
(* datasources.                                                            *)
(***************************************************************************)
EXTENDS PoolCache, DatasourceCatalog

ASSUME SameIds == Sources = Datasources /\ Settings = DSNs

VARIABLES
    raced,        \* history: datasources deleted while a query had their row and
                  \* was about to look in the cache
    replaced      \* history: keys of settings that an edit has replaced

vars == <<cacheVars, catVars, raced, replaced>>

Init == CacheInit /\ CatInit /\ raced = {} /\ replaced = {}

\* RunWithModel, DryRunWithModel: loadContext reads the row, RuntimeDSN
\* resolves the DSN from it, openPool asks the cache for that pair.
RunQuery(c, d) ==
    /\ row[d] # NoRow
    /\ Call(c, poolKey(d, row[d].dsn))
    /\ UNCHANGED <<catVars, raced, replaced>>

\* The Delete handler's last step.
DeleteInvalidates(e) ==
    /\ DropPools(e)
    /\ Invalidate(edit[e].id)
    /\ raced' = raced \cup
         ({edit[e].id} \cap {want[c][1] : c \in {x \in Callers : pc[x] = "called"}})
    /\ UNCHANGED replaced

EditorStep(e) ==
    \/ \E d \in Sources, s \in Settings : Create(e, d, s)
    \/ \E d \in Sources : Read(e, d, "settings") \/ Read(e, d, "blocklist")
    \/ \E s \in Settings : WriteSettings(e, s)
    \/ \E b \in Blocklists : WriteBlocklist(e, b)
    \/ \E d \in Sources : DeleteDatasource(e, d)

\* Update and ReplaceFunctionBlocklist end with the UPDATE of the row: neither
\* calls Invalidate, so the cache keeps what it holds for the old settings.
Edit(e) ==
    /\ EditorStep(e)
    /\ replaced' = replaced \cup
         {poolKey(d, row[d].dsn) : d \in {x \in Sources :
             row[x] # NoRow /\ row'[x] # NoRow /\ row'[x].dsn # row[x].dsn}}
    /\ UNCHANGED <<cacheVars, raced>>

Next ==
    \/ \E c \in Callers, d \in Datasources : RunQuery(c, d)
    \/ \E c \in Callers : GetStep(c) /\ UNCHANGED <<catVars, raced, replaced>>
    \/ \E c \in Callers : Release(c) /\ UNCHANGED <<catVars, raced, replaced>>
    \/ \E e \in Editors : Edit(e)
    \/ \E e \in Editors : DeleteInvalidates(e)
    \/ Close /\ UNCHANGED <<catVars, raced, replaced>>
    \/ \E h \in Handles : Drain(h) /\ UNCHANGED <<catVars, raced, replaced>>

Spec == Init /\ [][Next]_vars /\ CacheFairness

----------------------------------------------------------------------------
\* A datasource that was deleted has no pool in the cache, although queries
\* that read its row before may still be opening one, while the deletion is
\* not over or unless such a query had not yet looked in the cache when the
\* deletion cleared it.
DeletedUncached ==
    \A k \in Keys : pools[k] # None =>
        \/ row[k[1]] # NoRow
        \/ \E e \in Editors : edit[e] # NoEdit /\ edit[e].what = "delete" /\ edit[e].id = k[1]
        \/ k[1] \in raced

\* A cached pool is one of the settings its datasource has, unless an edit
\* replaced the settings: Invalidate says that it is for such an edit too, but
\* Update does not call it, and the pool of the old settings stays.
StaleOnlyByEdit ==
    \A k \in Keys : pools[k] # None /\ row[k[1]] # NoRow =>
        row[k[1]].dsn = k[2] \/ k \in replaced

\* A pool that is open or cached longer than the cache and the catalog mean it
\* to be is one of the three cases the code lets happen: displaced by a second
\* open of its key, opened by a query that a deletion overtook, or of settings
\* that an edit replaced without invalidating the cache.
LeftPoolsExplained == OrphanOnlyByDoubleOpen /\ DeletedUncached /\ StaleOnlyByEdit
=============================================================================
