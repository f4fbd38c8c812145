------------------------------ MODULE Sessions ------------------------------
(***************************************************************************)
(* The sessions of one account (internal/auth/session.go, service.go,      *)
(* service_sessions.go, service_account_lifecycle.go): logins insert a row *)
(* of the sessions table, a refresh reads a row, revokes it and inserts    *)
(* its successor, and freezing, deleting, changing the password and a      *)
(* forced logout revoke every row.  No two statements share a transaction, *)
(* so every statement is a step.                                           *)
(*                                                                         *)
(* A session descends from the login that made the first row of its chain  *)
(* of rotations; the login is named by that row.                           *)
(***************************************************************************)
EXTENDS Naturals, FiniteSets

CONSTANTS
    Requests,     \* logins and refreshes under way at the same time
    Admins,       \* account operations under way at the same time
    SessionIds,   \* rows of the sessions table
    RefreshTTL,   \* JWTRefreshTTL
    AbsoluteTTL,  \* absoluteTTL
    IdleTTL,      \* idleTTL
    MaxActive,    \* MaxActiveSessions
    Horizon       \* bound on the clock

ASSUME SessionAssumption ==
    /\ RefreshTTL \in Nat /\ AbsoluteTTL \in Nat /\ IdleTTL \in Nat
    /\ MaxActive \in Nat \ {0}
    /\ Horizon \in Nat

VARIABLES
    session,      \* session ID -> its row; state "none" while there is none
    account,      \* is_active, frozen_at and deleted_at of the users row
    req,          \* request -> where it is and what it has read
    admin,        \* account operation -> "idle", or "sweep": revocation is next
    known,        \* sessions whose refresh token was handed to a client
    now,
    forked,       \* logins of which one token was being refreshed twice at once
    cut           \* logins all of whose sessions were revoked with no refresh under way

sessVars == <<session, account, req, admin, known, now, forked, cut>>

Idle == [pc |-> "idle", sid |-> {}, since |-> 0, blocked |-> {}]
NoSession == [state |-> "none", exp |-> 0, abs |-> 0, made |-> 0, login |-> {}]

\* Why the account may not be used: is_active is read with the users row, the
\* other two by GetAccountState.
Blocks(acc) ==
    (IF acc.active THEN {} ELSE {"inactive"})
        \cup (IF acc.frozen \/ acc.deleted THEN {"suspended"} ELSE {})

SessInit ==
    /\ session = [s \in SessionIds |-> NoSession]
    /\ account = [active |-> TRUE, frozen |-> FALSE, deleted |-> FALSE]
    /\ req = [r \in Requests |-> Idle]
    /\ admin = [a \in Admins |-> "idle"]
    /\ known = {}
    /\ now = 0
    /\ forked = {}
    /\ cut = {}

Live(s) == session[s].state = "live"
Goto(r, pc) == req' = [req EXCEPT ![r].pc = pc]
Over(r) == req' = [req EXCEPT ![r] = Idle]

\* A refresh that has read its row and has not yet inserted the successor.
Rotating(r, s) == req[r].pc \in {"rotating", "revoked"} /\ req[r].sid = {s}

RevokedIn(rows) ==
    session' = [s \in SessionIds |->
        IF s \in rows /\ Live(s) THEN [session[s] EXCEPT !.state = "revoked"] ELSE session[s]]

\* RevokeAllUserSessions.
RevokeAllUserSessions ==
    /\ RevokedIn(SessionIds)
    /\ cut' = cut \cup {l \in SessionIds :
         /\ session[l].state # "none" /\ session[l].login = {l}
         /\ \A s \in SessionIds, r \in Requests :
                Rotating(r, s) => session[s].login # {l}}

----------------------------------------------------------------------------
\* authenticateLogin, rejectInvalidLogin, and Consume of a magic link: the
\* credentials are good and the users row says is_active.
Authenticate(r) ==
    /\ req[r].pc = "idle"
    /\ account.active
    /\ req' = [req EXCEPT ![r] = [pc |-> "authenticated", sid |-> {}, since |-> 0,
                                  blocked |-> Blocks(account)]]
    /\ UNCHANGED <<session, account, admin, known, now, forked, cut>>

\* CompleteMFALogin, LoginOrRegisterOAuth, passkey login, ClaimInvitation: the
\* account state is not read.
AuthenticateOther(r) ==
    /\ req[r].pc = "idle"
    /\ account.active
    /\ req' = [req EXCEPT ![r] = [Idle EXCEPT !.pc = "cleared"]]
    /\ UNCHANGED <<session, account, admin, known, now, forked, cut>>

\* validateLoginAccountState.
ValidateLogin(r) ==
    /\ req[r].pc = "authenticated"
    /\ IF account.deleted \/ account.frozen THEN Over(r) ELSE Goto(r, "cleared")
    /\ UNCHANGED <<session, account, admin, known, now, forked, cut>>

\* createSession.
CreateSession(r, s, exp, abs, login, pc) ==
    /\ session[s].state = "none"
    /\ session' = [session EXCEPT ![s] =
         [state |-> "live", exp |-> exp, abs |-> abs, made |-> now, login |-> login]]
    /\ req' = [req EXCEPT ![r] = [pc |-> pc, sid |-> {s}, since |-> req[r].since,
                                  blocked |-> req[r].blocked]]

\* issueSession, CreateTokenResponseForUser: CreateSessionWithFingerprint.
IssueSession(r, s) ==
    /\ req[r].pc = "cleared"
    /\ CreateSession(r, s, now + RefreshTTL, now + AbsoluteTTL, {s}, "issued")
    /\ UNCHANGED <<account, admin, known, now, forked, cut>>

\* EnforceMaxSessions: the newest MaxActive unexpired rows stay.  Rows made in
\* the same tick are ordered either way.
EnforceMaxSessions ==
    LET active == {s \in SessionIds : Live(s) /\ session[s].exp > now} IN
    IF Cardinality(active) <= MaxActive THEN UNCHANGED session
    ELSE \E keep \in SUBSET active :
           /\ Cardinality(keep) = MaxActive
           /\ \A s \in keep, t \in active \ keep : session[s].made >= session[t].made
           /\ RevokedIn(active \ keep)

\* The rest of issueSession: a failed eviction is logged, the token handed out.
DeliverLogin(r) ==
    /\ req[r].pc = "issued"
    /\ EnforceMaxSessions \/ UNCHANGED session
    /\ known' = known \cup req[r].sid
    /\ Over(r)
    /\ UNCHANGED <<account, admin, now, forked, cut>>

----------------------------------------------------------------------------
\* Mutants: a revoked row is taken for a live one; the limits on the age of a
\* session and of its last use are not looked at.
ReadKindRevocable(s) ==
    IF session[s].state = "live" /\ now > session[s].exp THEN "expired" ELSE "rotating"
ReadKindNoLimits(s) ==
    CASE session[s].state = "revoked" -> "burning"
      [] session[s].state = "live" /\ now > session[s].exp -> "expired"
      [] OTHER -> "rotating"

\* RotateSession, its SELECT and the checks on what it read.  A missing or an
\* expired row ends the request and changes nothing.
ReadKind(s) ==
    CASE session[s].state = "revoked" -> "burning"
      [] session[s].state = "live" /\ now > session[s].exp -> "expired"
      [] session[s].state = "live" /\ now <= session[s].exp
           /\ (now > session[s].abs \/ now - session[s].made > IdleTTL) -> "expiring"
      [] OTHER -> "rotating"

ReadSession(r, s) ==
    /\ req[r].pc = "idle"
    /\ s \in known
    /\ ReadKind(s) # "expired"
    /\ req' = [req EXCEPT ![r] = [pc |-> ReadKind(s), sid |-> {s},
                                  since |-> now, blocked |-> Blocks(account)]]
    /\ forked' = IF ReadKind(s) = "rotating" /\ \E q \in Requests : Rotating(q, s)
                 THEN forked \cup session[s].login ELSE forked
    /\ UNCHANGED <<session, account, admin, known, now, cut>>

\* A revoked token was used: every session of the account is revoked.  A
\* failure is ignored; the request ends either way.
BurnFamily(r) ==
    /\ req[r].pc = "burning"
    /\ RevokeAllUserSessions
    /\ Over(r)
    /\ UNCHANGED <<account, admin, known, now, forked>>

\* RevokeSession of a row past its absolute or its idle limit.
RevokeExpired(r) ==
    /\ req[r].pc = "expiring"
    /\ RevokedIn(req[r].sid)
    /\ Over(r)
    /\ UNCHANGED <<account, admin, known, now, forked, cut>>

\* Mutant: the old row is not revoked.
RevokeOldSkipped(r) ==
    /\ req[r].pc = "rotating"
    /\ Goto(r, "revoked")
    /\ UNCHANGED <<session, account, admin, known, now, forked, cut>>

\* RotateSession: UPDATE ... WHERE id, whatever became of the row meanwhile.
RevokeOld(r) ==
    /\ req[r].pc = "rotating"
    /\ RevokedIn(req[r].sid)
    /\ Goto(r, "revoked")
    /\ UNCHANGED <<account, admin, known, now, forked, cut>>

Least(a, b) == IF a <= b THEN a ELSE b

\* RotateSession: the successor carries the absolute expiry over.
InsertRotated(r, old, s) ==
    /\ req[r].pc = "revoked"
    /\ req[r].sid = {old}
    /\ CreateSession(r, s, Least(req[r].since + RefreshTTL, session[old].abs),
                     session[old].abs, session[old].login, "rotated")
    /\ UNCHANGED <<account, admin, known, now, forked, cut>>

\* Refresh: GetUserByID.
FetchUser(r) ==
    /\ req[r].pc = "rotated"
    /\ IF account.active THEN Goto(r, "fetched") ELSE Over(r)
    /\ UNCHANGED <<session, account, admin, known, now, forked, cut>>

\* Mutant: the account state is not validated again.
DeliverUnchecked(r) ==
    /\ req[r].pc = "fetched"
    /\ known' = known \cup req[r].sid
    /\ Over(r)
    /\ UNCHANGED <<session, account, admin, now, forked, cut>>

\* Refresh: validateLoginAccountState, then the new token is handed out.  A
\* refused request leaves the new row behind, with a token nobody has.
DeliverRefresh(r) ==
    /\ req[r].pc = "fetched"
    /\ known' = IF account.deleted \/ account.frozen THEN known ELSE known \cup req[r].sid
    /\ Over(r)
    /\ UNCHANGED <<session, account, admin, now, forked, cut>>

\* A statement fails, the client goes away or the process stops.
RequestFails(r) ==
    /\ req[r].pc # "idle"
    /\ Over(r)
    /\ UNCHANGED <<session, account, admin, known, now, forked, cut>>

----------------------------------------------------------------------------
\* Logout, RevokeSessionByID.
RevokeOne(s) ==
    /\ Live(s)
    /\ RevokedIn({s})
    /\ UNCHANGED <<account, req, admin, known, now, forked, cut>>

\* What blocked the account when a request was begun is remembered while it
\* lasts.
SetAccount(acc) ==
    /\ account' = acc
    /\ req' = [r \in Requests |-> [req[r] EXCEPT !.blocked = @ \cap Blocks(acc)]]

\* FreezeAccount: the UPDATE; RevokeAllUserSessions follows.
FreezeAccount(a) ==
    /\ admin[a] = "idle"
    /\ ~account.frozen /\ ~account.deleted
    /\ SetAccount([account EXCEPT !.frozen = TRUE])
    /\ admin' = [admin EXCEPT ![a] = "sweep"]
    /\ UNCHANGED <<session, known, now, forked, cut>>

Deleted(acc) == [active |-> FALSE, frozen |-> acc.frozen, deleted |-> TRUE]
Restored(acc) == [active |-> TRUE, frozen |-> acc.frozen, deleted |-> FALSE]

\* DeleteAccount: SoftDeleteAccount leaves a deleted row alone, and the
\* sessions are revoked in any case.
DeleteAccount(a) ==
    /\ admin[a] = "idle"
    /\ SetAccount(IF account.deleted THEN account ELSE Deleted(account))
    /\ admin' = [admin EXCEPT ![a] = "sweep"]
    /\ UNCHANGED <<session, known, now, forked, cut>>

\* ChangePassword, ResetPassword after the password is written;
\* AdminForceLogout.
RevocationDue(a) ==
    /\ admin[a] = "idle"
    /\ admin' = [admin EXCEPT ![a] = "sweep"]
    /\ UNCHANGED <<session, account, req, known, now, forked, cut>>

Sweep(a) ==
    /\ admin[a] = "sweep"
    /\ RevokeAllUserSessions
    /\ admin' = [admin EXCEPT ![a] = "idle"]
    /\ UNCHANGED <<account, req, known, now, forked>>

\* The revocation fails; the account stays as the operation left it.
SweepFails(a) ==
    /\ admin[a] = "sweep"
    /\ admin' = [admin EXCEPT ![a] = "idle"]
    /\ UNCHANGED <<session, account, req, known, now, forked, cut>>

\* UnfreezeAccount.
UnfreezeAccount ==
    /\ account.frozen
    /\ SetAccount([account EXCEPT !.frozen = FALSE])
    /\ UNCHANGED <<session, admin, known, now, forked, cut>>

\* RestoreAccount.
RestoreAccount ==
    /\ account.deleted
    /\ SetAccount(Restored(account))
    /\ UNCHANGED <<session, admin, known, now, forked, cut>>

\* handleAdminUpdateUser: is_active alone, no session is touched.
UpdateUserActiveStatus(b) ==
    /\ account.active # b
    /\ SetAccount([account EXCEPT !.active = b])
    /\ UNCHANGED <<session, admin, known, now, forked, cut>>

SessTick ==
    /\ now < Horizon
    /\ now' = now + 1
    /\ UNCHANGED <<session, account, req, admin, known, forked, cut>>

RequestStep(r) ==
    \/ Authenticate(r)
    \/ AuthenticateOther(r)
    \/ ValidateLogin(r)
    \/ \E s \in SessionIds : IssueSession(r, s)
    \/ DeliverLogin(r)
    \/ \E s \in SessionIds : ReadSession(r, s)
    \/ BurnFamily(r)
    \/ RevokeExpired(r)
    \/ RevokeOld(r)
    \/ \E old \in SessionIds, s \in SessionIds : InsertRotated(r, old, s)
    \/ FetchUser(r)
    \/ DeliverRefresh(r)
    \/ RequestFails(r)

AccountStep(a) ==
    \/ FreezeAccount(a)
    \/ DeleteAccount(a)
    \/ RevocationDue(a)
    \/ Sweep(a)
    \/ SweepFails(a)

SessNext ==
    \/ \E r \in Requests : RequestStep(r)
    \/ \E a \in Admins : AccountStep(a)
    \/ \E s \in SessionIds : RevokeOne(s)
    \/ UnfreezeAccount
    \/ RestoreAccount
    \/ \E b \in BOOLEAN : UpdateUserActiveStatus(b)
    \/ SessTick

SessSpec == SessInit /\ [][SessNext]_sessVars

----------------------------------------------------------------------------
SessTypeOK ==
    /\ session \in [SessionIds ->
         [state : {"none", "live", "revoked"}, exp : Nat, abs : Nat, made : Nat,
          login : SUBSET SessionIds]]
    /\ account \in [active : BOOLEAN, frozen : BOOLEAN, deleted : BOOLEAN]
    /\ req \in [Requests ->
         [pc : {"idle", "authenticated", "cleared", "issued", "burning", "expiring",
                "rotating", "revoked", "rotated", "fetched"},
          sid : SUBSET SessionIds, since : Nat, blocked : SUBSET {"inactive", "suspended"}]]
    /\ admin \in [Admins -> {"idle", "sweep"}]
    /\ known \in SUBSET SessionIds
    /\ now \in Nat
    /\ forked \in SUBSET SessionIds
    /\ cut \in SUBSET SessionIds

\* A login has at most one live session however often it is refreshed, unless
\* two refreshes of one token overlapped (RotateSession revokes the row
\* without looking whether it still is unrevoked).
OneSessionPerLogin ==
    \A s, t \in SessionIds :
        (Live(s) /\ Live(t) /\ session[s].login = session[t].login
            /\ session[s].login \cap forked = {}) => s = t

\* Once every session of a login was revoked while none of its tokens was
\* being refreshed, the login never has a live session again: an old token
\* only revokes more (RotateSession's revoked branch).
RevokedForGood ==
    \A s \in SessionIds : Live(s) => session[s].login \cap cut = {}

\* "refresh rotation must not extend an authentication" (RotateSession): no
\* refresh begun later than AbsoluteTTL after the login hands out a token.
AuthenticationExpires ==
    [][\A r \in Requests : \A l \in SessionIds, s \in known' \ known :
          (req[r].pc = "fetched" /\ req[r].sid = {s} /\ session[s].login = {l}) =>
              req[r].since <= session[l].made + AbsoluteTTL]_sessVars

\* A password login, a magic link or a refresh that was begun while the
\* account was inactive, or while it was frozen or deleted, and it stayed so,
\* hands out no token, at whatever step it meets the account's state.  (Logins
\* by OAuth, passkey or second factor are not followed here.)
BlockedNoDelivery ==
    [][\A r \in Requests :
          (req[r].blocked # {} /\ req'[r] = Idle) => known' = known]_sessVars
=============================================================================
