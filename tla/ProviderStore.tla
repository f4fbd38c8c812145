--------------------------- MODULE ProviderStore ---------------------------
(***************************************************************************)
(* The default model of one purpose on its way from the ai_models table to *)
(* a call (internal/ai/provider_store.go, purpose_provider.go,             *)
(* internal/http/handlers/ai_providers.go): an administrator's change is   *)
(* followed by a refresh of the resolved configurations in memory and of   *)
(* their version, and a call uses the provider that was built last unless  *)
(* the version has moved on.                                               *)
(*                                                                         *)
(* A configuration is the part that userConfigCacheKey looks at and the    *)
(* API key, which it leaves out.                                           *)
(***************************************************************************)
EXTENDS Naturals

CONSTANTS
    ProviderAdmins,  \* administrators' requests
    ProviderCalls,   \* calls of Generate
    LLMs,            \* provider, model and parameters
    APIKeys,
    MaxChanges       \* bound on the administrators' changes

ASSUME ProviderAssumption == MaxChanges \in Nat

Configs == [llm : LLMs, key : APIKeys]

VARIABLES
    byUser,          \* a ConfigResolver is attached
    inDB,            \* the default and active model: {} or {its configuration}
    resolved,        \* the store's map, for the purpose
    cacheVersion,    \* the store's version
    refresh,         \* request -> where it is, what it read, what it replaced
    llmCall,         \* call -> where it is and what it has read
    built,           \* the provider built last: {} or {[cfg, version, userKey]}
    changes,
    excuse,          \* the last refresh failed or was overtaken by a later one
    mistagged        \* a call read its configuration before a refresh and the
                     \* version after it

provVars == <<byUser, inDB, resolved, cacheVersion, refresh, llmCall, built,
              changes, excuse, mistagged>>

NotRefreshing == [pc |-> "idle", next |-> {}, old |-> {}, late |-> FALSE]
NotCalling == [pc |-> "idle", cfg |-> {}, version |-> 0, during |-> {}, got |-> {}]

ProvInit ==
    /\ byUser \in BOOLEAN
    /\ \E c \in Configs : inDB = {c}
    /\ resolved = inDB
    /\ cacheVersion = 1
    /\ refresh = [a \in ProviderAdmins |-> NotRefreshing]
    /\ llmCall = [c \in ProviderCalls |-> NotCalling]
    /\ built = {}
    /\ changes = 0
    /\ excuse = FALSE
    /\ mistagged = FALSE

-----------------------------------------------------------------------------
(* An administrator's request *)

\* The requests, with the ones that have read the table and not stored it
\* marked: another one ends before they store.
Overtaken ==
    [b \in ProviderAdmins |->
        [refresh[b] EXCEPT !.late = @ \/ refresh[b].pc = "store"]]

\* Another provider; a mutation of any other row that is not behind the default
\* model has the same effect.
CreateProvider == UNCHANGED inDB

\* The provider of the default model: its address, its key, or whether it is
\* active; made active again it brings the model back.
UpdateProvider == inDB' = {} \/ \E c \in Configs : inDB' = {c}

\* With its models.
DeleteProvider == inDB' = {}

\* A model created as the default takes its place in the same transaction, also
\* when it is not active.
CreateModel == inDB' = {} \/ \E c \in Configs : inDB' = {c}

\* The default model: its parameters, its purpose, or whether it is active; one
\* made active again, or moved here from another purpose, is back.
UpdateModel ==
    \/ inDB' = {}
    \/ \E old \in inDB, l \in LLMs : inDB' = {[old EXCEPT !.llm = l]}
    \/ inDB = {} /\ \E c \in Configs : inDB' = {c}

DeleteModel == inDB' = {}

\* Another model becomes the default and active.
SetDefaultModel == \E c \in Configs : inDB' = {c}

Mutation ==
    \/ CreateProvider \/ UpdateProvider \/ DeleteProvider
    \/ CreateModel \/ UpdateModel \/ DeleteModel \/ SetDefaultModel

\* Mutant: the cache is left to the next change.
ChangeUnrefreshed(a) ==
    /\ refresh[a] = NotRefreshing
    /\ changes < MaxChanges
    /\ changes' = changes + 1
    /\ Mutation
    /\ UNCHANGED <<byUser, resolved, cacheVersion, refresh, llmCall, built, excuse, mistagged>>

\* The handlers: the statement or transaction of a mutation commits, and the
\* refresh is next.
ChangeDefault(a) ==
    /\ refresh[a] = NotRefreshing
    /\ changes < MaxChanges
    /\ changes' = changes + 1
    /\ Mutation
    /\ refresh' = [refresh EXCEPT ![a].pc = "read"]
    /\ UNCHANGED <<byUser, resolved, cacheVersion, llmCall, built, excuse, mistagged>>

\* RefreshCache: the query.
ReadDefaults(a) ==
    /\ refresh[a].pc = "read"
    /\ refresh' = [refresh EXCEPT ![a].pc = "store", ![a].next = inDB]
    /\ UNCHANGED <<byUser, inDB, resolved, cacheVersion, llmCall, built, changes, excuse, mistagged>>

\* It fails, and the request succeeds with a warning in the log.
RefreshFails(a) ==
    /\ refresh[a].pc = "read"
    /\ refresh' = [Overtaken EXCEPT ![a] = NotRefreshing]
    /\ excuse' = TRUE
    /\ UNCHANGED <<byUser, inDB, resolved, cacheVersion, llmCall, built, changes, mistagged>>

\* The map is replaced under the lock.
StoreResolved(a) ==
    /\ refresh[a].pc = "store"
    /\ resolved' = refresh[a].next
    /\ refresh' = [Overtaken EXCEPT ![a] = [refresh[a] EXCEPT !.pc = "bump", !.old = resolved]]
    /\ excuse' = refresh[a].late
    /\ llmCall' = [c \in ProviderCalls |->
         IF llmCall[c].pc = "idle" THEN NotCalling
         ELSE [llmCall[c] EXCEPT !.during = @ \cup {refresh[a].next}]]
    /\ UNCHANGED <<byUser, inDB, cacheVersion, built, changes, mistagged>>

\* Mutant: the providers are not told.
BumpNothing(a) ==
    /\ refresh[a].pc = "bump"
    /\ refresh' = [refresh EXCEPT ![a] = NotRefreshing]
    /\ UNCHANGED <<byUser, inDB, resolved, cacheVersion, llmCall, built, changes, excuse, mistagged>>

\* version.Add, after the lock is released.
BumpVersion(a) ==
    /\ refresh[a].pc = "bump"
    /\ cacheVersion' = cacheVersion + 1
    /\ refresh' = [refresh EXCEPT ![a] = NotRefreshing]
    /\ UNCHANGED <<byUser, inDB, resolved, llmCall, built, changes, excuse, mistagged>>

-----------------------------------------------------------------------------
(* PurposeProvider.current *)

UserKey(cfg) == IF byUser THEN cfg.llm ELSE "none"

Matches(c) ==
    \E b \in built, cfg \in llmCall[c].cfg :
        b.version = llmCall[c].version /\ b.userKey = UserKey(cfg)

Serve(c, got) == llmCall' = [llmCall EXCEPT ![c].pc = "served", ![c].got = got]

\* ChatConfigForPurpose.  A configuration counts as current until the refresh
\* that replaces it has moved the version on.
ReadConfig(c) ==
    /\ llmCall[c].pc = "idle"
    /\ llmCall' = [llmCall EXCEPT ![c] =
         [pc |-> IF resolved = {} THEN "served" ELSE "config",
          cfg |-> resolved, version |-> cacheVersion, got |-> {},
          during |-> {resolved} \cup {refresh[a].old : a \in {b \in ProviderAdmins : refresh[b].pc = "bump"}}]]
    /\ UNCHANGED <<byUser, inDB, resolved, cacheVersion, refresh, built, changes, excuse, mistagged>>

\* CacheVersion, a separate read.
ReadVersion(c) ==
    /\ llmCall[c].pc = "config"
    /\ mistagged' = (mistagged \/ (llmCall[c].version # cacheVersion /\ llmCall[c].cfg # resolved))
    /\ llmCall' = [llmCall EXCEPT ![c].pc = "match", ![c].version = cacheVersion]
    /\ UNCHANGED <<byUser, inDB, resolved, cacheVersion, refresh, built, changes, excuse>>

\* The first look at what is built.
LookBuilt(c) ==
    /\ llmCall[c].pc = "match"
    /\ \/ Matches(c) /\ \E b \in built : Serve(c, {b.cfg})
       \/ ~Matches(c) /\ llmCall' = [llmCall EXCEPT ![c].pc = "build"]
    /\ UNCHANGED <<byUser, inDB, resolved, cacheVersion, refresh, built, changes, excuse, mistagged>>

\* NewProvider fails: the fallback answers.
BuildFails(c) ==
    /\ llmCall[c].pc = "build"
    /\ built' = {}
    /\ Serve(c, {})
    /\ UNCHANGED <<byUser, inDB, resolved, cacheVersion, refresh, changes, excuse, mistagged>>

\* It is built: kept, unless another call kept one meanwhile.
KeepBuilt(c) ==
    /\ llmCall[c].pc = "build"
    /\ \/ /\ Matches(c)
          /\ \E b \in built : Serve(c, {b.cfg})
          /\ UNCHANGED built
       \/ /\ ~Matches(c)
          /\ built' = {[cfg |-> cfg, version |-> llmCall[c].version, userKey |-> UserKey(cfg)]
                          : cfg \in llmCall[c].cfg}
          /\ Serve(c, llmCall[c].cfg)
    /\ UNCHANGED <<byUser, inDB, resolved, cacheVersion, refresh, changes, excuse, mistagged>>

CallEnds(c) ==
    /\ llmCall[c].pc = "served"
    /\ llmCall' = [llmCall EXCEPT ![c] = NotCalling]
    /\ UNCHANGED <<byUser, inDB, resolved, cacheVersion, refresh, built, changes, excuse, mistagged>>

ProvNext ==
    \/ \E a \in ProviderAdmins :
         ChangeDefault(a) \/ ReadDefaults(a) \/ RefreshFails(a) \/ StoreResolved(a) \/ BumpVersion(a)
    \/ \E c \in ProviderCalls :
         \/ ReadConfig(c) \/ ReadVersion(c) \/ LookBuilt(c)
         \/ BuildFails(c) \/ KeepBuilt(c) \/ CallEnds(c)

ProvSpec == ProvInit /\ [][ProvNext]_provVars

-----------------------------------------------------------------------------
Defaults == {{}} \cup {{c} : c \in Configs}

ProvTypeOK ==
    /\ byUser \in BOOLEAN
    /\ inDB \in Defaults /\ resolved \in Defaults
    /\ cacheVersion \in 1..(MaxChanges + 1)
    /\ refresh \in [ProviderAdmins -> [pc : {"idle", "read", "store", "bump"},
                                       next : Defaults, old : Defaults, late : BOOLEAN]]
    /\ \A c \in ProviderCalls :
         /\ llmCall[c].pc \in {"idle", "config", "match", "build", "served"}
         /\ llmCall[c].cfg \in Defaults /\ llmCall[c].got \in Defaults
         /\ llmCall[c].version \in 0..cacheVersion
    /\ \A b \in built : b.cfg \in Configs /\ b.version \in 1..cacheVersion

\* "mutations refresh the in-memory provider cache so model changes take effect
\* without a restart": once no request is under way the store's map is the
\* table's, unless the last refresh failed or stored what it had read before
\* another one stored.
ResolvedCurrent ==
    (\A a \in ProviderAdmins : refresh[a] = NotRefreshing) => resolved = inDB \/ excuse

\* A call is answered with a configuration that was current at some moment of
\* the call, whatever refreshes and other calls do between its two reads and
\* its two looks at the provider built last; the exception is a provider that
\* was built from an old configuration under a new version.
ServedWasCurrent ==
    \A c \in ProviderCalls :
        (llmCall[c].pc = "served" /\ llmCall[c].got # {})
            => llmCall[c].got \in llmCall[c].during \/ mistagged

\* The model of a purpose is the one the table names, in the store at rest and
\* in every call, but for the overtaken refresh and the mistagged provider.
ProviderCurrent == ProvTypeOK /\ ResolvedCurrent /\ ServedWasCurrent
=============================================================================
