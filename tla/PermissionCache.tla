-------------------------- MODULE PermissionCache --------------------------
(***************************************************************************)
(* A permission check on its way through two caches: the API service asks  *)
(* the auth service (internal/http/middleware/permission.go) and keeps the *)
(* answer, the auth service reads its tables (internal/auth/rbac/rbac.go)  *)
(* and keeps the answer too.  Administrators change roles, the permissions *)
(* of a role and workspace membership meanwhile.                           *)
(*                                                                         *)
(* One cache key is followed: one user, one permission, one workspace.     *)
(* Keys do not interact.  A request whose access token claims super_admin  *)
(* asks neither cache; the claim is what the roles were when the token was *)
(* signed.  Time is a clock that ticks; a call is given up after           *)
(* HTTPTimeout ticks.  Personal access tokens read the roles anew on every *)
(* request, and the operator's API keys belong to no user: neither is      *)
(* followed.                                                               *)
(***************************************************************************)
EXTENDS Integers

CONSTANTS
    Checks,       \* API requests that need the permission
    RoleAdmins,   \* administrators' requests
    AuthTTL,      \* checkTTL of the auth service
    APITTL,       \* cacheTTL of the API service
    HTTPTimeout,  \* timeout of the API service's HTTP client
    AccessTTL,    \* JWTAccessTTL: the life of an access token
    WriteTimeout, \* of the auth service's server: a later response is lost
    PermHorizon   \* bound on the clock

ASSUME PermAssumption ==
    /\ AuthTTL \in Nat \ {0} /\ APITTL \in Nat \ {0} /\ HTTPTimeout \in Nat
    /\ AccessTTL \in Nat /\ WriteTimeout \in Nat
    /\ PermHorizon \in Nat

VARIABLES
    super,        \* the user holds super_admin
    holds,        \* the user holds the role
    gives,        \* the role gives the permission
    member,       \* the user's workspace role gives the permission
    authCache,    \* checkCache: set with the entry of the key, or empty
    apiCache,     \* permCache: set with the entry of the key, or empty
    rolesRead,    \* logins and refreshes: the last tick at which one found super_admin
    token,        \* set with the tick the last token claiming super_admin was signed
    check,        \* request -> where it is, when it started, what it has read
    roleAdmin,    \* administrator -> "idle", or "written": the table is changed
    clock,
    lastHeld      \* the last tick at which the user had the permission

tables == <<super, holds, gives, member>>
claims == <<rolesRead, token>>
permVars == <<super, holds, gives, member, authCache, apiCache, rolesRead, token, check,
              roleAdmin, clock, lastHeld>>

\* What Check computes when nothing changes under it.
Held == super \/ (holds /\ gives) \/ member

Entry == [allowed : BOOLEAN, at : 0..PermHorizon]
NoCheck == [pc |-> "idle", since |-> 0, allowed |-> FALSE]

PermInit ==
    /\ super \in BOOLEAN /\ holds \in BOOLEAN /\ gives \in BOOLEAN /\ member \in BOOLEAN
    /\ authCache = {}
    /\ apiCache = {}
    /\ rolesRead = {}
    /\ token = {}
    /\ check = [r \in Checks |-> NoCheck]
    /\ roleAdmin = [a \in RoleAdmins |-> "idle"]
    /\ clock = 0
    /\ lastHeld = IF Held THEN 0 ELSE -1

\* Mutant: the age of an entry is not looked at.
FreshAlways(cache, ttl) == cache

\* An entry is used while it is younger than the time to live.
FreshEntries(cache, ttl) == {e \in cache : clock - e.at < ttl}

CheckAt(r, pc, allowed) ==
    check' = [check EXCEPT ![r] = [pc |-> pc, since |-> check[r].since, allowed |-> allowed]]
Decide(r, allowed) ==
    check' = [check EXCEPT ![r] =
        [pc |-> IF allowed THEN "granted" ELSE "denied", since |-> 0, allowed |-> allowed]]

----------------------------------------------------------------------------
\* issueSession, Refresh and their like: GetUserRoles finds super_admin.  A login
\* that read earlier can sign nothing that the last one cannot.
ReadRoles ==
    /\ super
    /\ rolesRead' = {clock}
    /\ UNCHANGED <<tables, authCache, apiCache, token, check, roleAdmin, clock, lastHeld>>

\* GenerateTokenWithParams, after the workspace was read: the token claims what
\* the roles were then and lives from now.  It reaches the client if the server
\* can still write the response.  An older token expires before it.
SignToken ==
    /\ \E m \in rolesRead : clock - m <= WriteTimeout
    /\ token' = {clock}
    /\ UNCHANGED <<tables, authCache, apiCache, rolesRead, check, roleAdmin, clock, lastHeld>>

\* Mutant: a token's expiry is not looked at.
ClaimsForEver == token # {}

\* verifyJWTClaims, HasRole: the user has an unexpired token that claims super_admin.
ClaimsSuper == \E t \in token : clock - t < AccessTTL

----------------------------------------------------------------------------
\* RequirePermission: a token that claims super_admin is let through as it is.
SuperAdminBypass(r) ==
    /\ check[r].pc = "idle"
    /\ ClaimsSuper
    /\ Decide(r, TRUE)
    /\ UNCHANGED <<tables, claims, authCache, apiCache, roleAdmin, clock, lastHeld>>

\* RequirePermission, CheckPermission, for a token that does not: the API
\* service's cache answers, or the auth service is called.
APILookup(r) ==
    /\ check[r].pc = "idle"
    /\ \/ \E e \in FreshEntries(apiCache, APITTL) : Decide(r, e.allowed)
       \/ /\ FreshEntries(apiCache, APITTL) = {}
          /\ check' = [check EXCEPT ![r] = [pc |-> "called", since |-> clock, allowed |-> FALSE]]
    /\ UNCHANGED <<tables, claims, authCache, apiCache, roleAdmin, clock, lastHeld>>

\* handleInternalCheckPermission, Check: the auth service's cache answers, or
\* the tables are read one after the other.
AuthLookup(r) ==
    /\ check[r].pc = "called"
    /\ \/ \E e \in FreshEntries(authCache, AuthTTL) :
             CheckAt(r, "answered", e.allowed)
       \/ /\ FreshEntries(authCache, AuthTTL) = {}
          /\ CheckAt(r, "super", FALSE)
    /\ UNCHANGED <<tables, claims, authCache, apiCache, roleAdmin, clock, lastHeld>>

Found(r, yes, next) == CheckAt(r, IF yes THEN "store" ELSE next, yes)

\* IsSuperAdmin.
ReadSuper(r) ==
    /\ check[r].pc = "super"
    /\ Found(r, super, "global")
    /\ UNCHANGED <<tables, claims, authCache, apiCache, roleAdmin, clock, lastHeld>>

\* GetUserPermissions: the roles the user holds and what they give.
ReadGlobal(r) ==
    /\ check[r].pc = "global"
    /\ Found(r, holds /\ gives, "workspace")
    /\ UNCHANGED <<tables, claims, authCache, apiCache, roleAdmin, clock, lastHeld>>

\* GetUserScopedPermissions, GetUserWorkspacePermissions.
ReadWorkspace(r) ==
    /\ check[r].pc = "workspace"
    /\ Found(r, member, "store")
    /\ UNCHANGED <<tables, claims, authCache, apiCache, roleAdmin, clock, lastHeld>>

\* storeCheckResult: the entry is stamped with the time of the store, and
\* replaces whatever the cache holds.
StoreCheckResult(r) ==
    /\ check[r].pc = "store"
    /\ authCache' = {[allowed |-> check[r].allowed, at |-> clock]}
    /\ CheckAt(r, "answered", check[r].allowed)
    /\ UNCHANGED <<tables, claims, apiCache, roleAdmin, clock, lastHeld>>

\* The answer arrives at the API service, which keeps and obeys it.
Answer(r) ==
    /\ check[r].pc = "answered"
    /\ apiCache' = {[allowed |-> check[r].allowed, at |-> clock]}
    /\ Decide(r, check[r].allowed)
    /\ UNCHANGED <<tables, claims, authCache, roleAdmin, clock, lastHeld>>

InCall(r) == check[r].pc \in {"called", "super", "global", "workspace", "store", "answered"}

\* The call fails or times out: 503, nothing is cached.
CallFails(r) ==
    /\ InCall(r)
    /\ check' = [check EXCEPT ![r] = NoCheck]
    /\ UNCHANGED <<tables, claims, authCache, apiCache, roleAdmin, clock, lastHeld>>

\* The request is over.
Finish(r) ==
    /\ check[r].pc \in {"granted", "denied"}
    /\ check' = [check EXCEPT ![r] = NoCheck]
    /\ UNCHANGED <<tables, claims, authCache, apiCache, roleAdmin, clock, lastHeld>>

\* evictExpiredPermLocked: a full cache loses entries in no order; a restart of
\* the API service loses all of them.
Evict ==
    /\ apiCache # {}
    /\ apiCache' = {}
    /\ UNCHANGED <<tables, claims, authCache, check, roleAdmin, clock, lastHeld>>

----------------------------------------------------------------------------
Remember == lastHeld' = IF Held' THEN clock ELSE lastHeld

\* handleAdminAssignRole, handleAdminRemoveRole, handleAdminSetRolePermissions:
\* the table is written first ...
WriteRole(a) ==
    /\ roleAdmin[a] = "idle"
    /\ \/ holds' = ~holds /\ UNCHANGED <<super, gives>>
       \/ super' = ~super /\ UNCHANGED <<holds, gives>>
       \/ gives' = ~gives /\ UNCHANGED <<super, holds>>
    /\ roleAdmin' = [roleAdmin EXCEPT ![a] = "written"]
    /\ UNCHANGED <<member, claims, authCache, apiCache, check, clock>>
    /\ Remember

\* ... and then InvalidateUserCache or InvalidateAllCache clears the entry.
InvalidateCheck(a) ==
    /\ roleAdmin[a] = "written"
    /\ authCache' = {}
    /\ roleAdmin' = [roleAdmin EXCEPT ![a] = "idle"]
    /\ UNCHANGED <<tables, claims, apiCache, check, clock, lastHeld>>

\* AddMember, UpdateMemberRole, RemoveMember: no permission cache is cleared.
ChangeMembership ==
    /\ member' = ~member
    /\ UNCHANGED <<super, holds, gives, claims, authCache, apiCache, check, roleAdmin, clock>>
    /\ Remember

\* A tick.  No call outlives the client's timeout.
Tick ==
    /\ clock < PermHorizon
    /\ \A r \in Checks : InCall(r) => clock - check[r].since < HTTPTimeout
    /\ clock' = clock + 1
    /\ lastHeld' = IF Held THEN clock + 1 ELSE lastHeld
    /\ UNCHANGED <<tables, claims, authCache, apiCache, check, roleAdmin>>

CheckStep(r) ==
    \/ SuperAdminBypass(r)
    \/ APILookup(r)
    \/ AuthLookup(r)
    \/ ReadSuper(r)
    \/ ReadGlobal(r)
    \/ ReadWorkspace(r)
    \/ StoreCheckResult(r)
    \/ Answer(r)
    \/ CallFails(r)
    \/ Finish(r)

PermNext ==
    \/ \E r \in Checks : CheckStep(r)
    \/ \E a \in RoleAdmins : WriteRole(a) \/ InvalidateCheck(a)
    \/ ChangeMembership
    \/ ReadRoles
    \/ SignToken
    \/ Evict
    \/ Tick

PermSpec == PermInit /\ [][PermNext]_permVars

----------------------------------------------------------------------------
ClaimTypeOK ==
    /\ rolesRead \in SUBSET (0..PermHorizon)
    /\ token \in SUBSET (0..PermHorizon)

CheckTypeOK ==
    /\ super \in BOOLEAN /\ holds \in BOOLEAN /\ gives \in BOOLEAN /\ member \in BOOLEAN
    /\ authCache \in SUBSET Entry
    /\ apiCache \in SUBSET Entry
    /\ check \in [Checks ->
         [pc : {"idle", "called", "super", "global", "workspace", "store", "answered",
                "granted", "denied"},
          since : 0..PermHorizon, allowed : BOOLEAN]]
    /\ roleAdmin \in [RoleAdmins -> {"idle", "written"}]
    /\ clock \in 0..PermHorizon
    /\ lastHeld \in -1..PermHorizon

PermTypeOK == CheckTypeOK /\ ClaimTypeOK

\* The longest time a withdrawn permission can still be obeyed through the caches:
\* both times to live and the length of the two calls that filled them.
StalenessBound == AuthTTL + APITTL + 2 * HTTPTimeout

\* The longest time a withdrawn super_admin can still be claimed: the life of a
\* token and the length of the login that signed it.
ClaimBound == AccessTTL + WriteTimeout

\* A request is let through only if the user had the permission less than
\* StalenessBound ago, or less than ClaimBound ago with a token that claims
\* super_admin still unexpired, whatever the order in which checks, stores,
\* invalidations and logins happen: an old answer is never refreshed by being
\* read, and a removed role is not signed into tokens for ever.
GrantIsRecent ==
    [][\A r \in Checks :
          (check[r].pc # "granted" /\ check'[r].pc = "granted") =>
              /\ lastHeld >= 0
              /\ \/ clock - lastHeld < StalenessBound
                 \/ ClaimsSuper /\ clock - lastHeld < ClaimBound]_permVars
=============================================================================
