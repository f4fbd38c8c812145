-------------------------- MODULE Sessions_Proofs --------------------------
(***************************************************************************)
(* Proofs about Sessions for any number of requests, account operations    *)
(* and sessions and any times to live.  What carries them: every row       *)
(* descends from a login and keeps its absolute expiry; a login that was   *)
(* never refreshed twice at once has one live row or one refresh under     *)
(* way; and a login that was cut has neither.                              *)
(***************************************************************************)
EXTENDS Sessions, TLAPS

Rows == [state : {"none", "live", "revoked"}, exp : Nat, abs : Nat, made : Nat,
         login : SUBSET SessionIds]
Steps == {"idle", "authenticated", "cleared", "issued", "burning", "expiring",
          "rotating", "revoked", "rotated", "fetched"}
Recs == [pc : Steps, sid : SUBSET SessionIds, since : Nat,
         blocked : SUBSET {"inactive", "suspended"}]

\* A request at one of these steps holds a row.
WithRow == {"issued", "burning", "expiring", "rotating", "revoked", "rotated", "fetched"}

Made(s) == session[s].state # "none"

\* Row s descends from login l.
Of(s, l) == session[s].login = {l}

\* Every row descends from a login, and expires with it.
RowInv ==
  /\ \A s \in SessionIds : Made(s) =>
       \E l \in SessionIds :
         /\ Of(s, l) /\ Made(l) /\ Of(l, l)
         /\ session[s].abs = session[l].made + AbsoluteTTL
  /\ \A s \in SessionIds : ~Made(s) => session[s].login = {}
  /\ \A s \in known : Made(s)
  /\ \A l \in cut : Made(l)

\* A request and what it has read.
ReqOK(r) ==
  /\ req[r].pc \in WithRow =>
       \E s \in SessionIds :
         /\ req[r].sid = {s} /\ Made(s)
         /\ req[r].pc \in {"rotating", "revoked", "rotated", "fetched"} =>
              req[r].since <= session[s].abs
         /\ req[r].pc = "revoked" => ~Live(s)
  /\ req[r].blocked \subseteq Blocks(account)
  /\ req[r].pc \in {"idle", "cleared", "issued"} => req[r].blocked = {}
  /\ req[r].pc \in {"authenticated", "fetched"} => "inactive" \notin req[r].blocked

ReqInv == \A r \in Requests : ReqOK(r)

\* A login no token of which was refreshed twice at once.
ForkInv ==
  \A l \in SessionIds \ forked :
    /\ \A s, t \in SessionIds : Live(s) /\ Live(t) /\ Of(s, l) /\ Of(t, l) => s = t
    /\ \A r \in Requests, s, t \in SessionIds :
         Rotating(r, s) /\ Of(s, l) /\ Live(t) /\ Of(t, l) => t = s
    /\ \A r, q \in Requests, s, t \in SessionIds :
         Rotating(r, s) /\ Of(s, l) /\ Rotating(q, t) /\ Of(t, l) => r = q

\* A login that was cut.
CutInv ==
  \A l \in cut, s \in SessionIds : Of(s, l) =>
    ~Live(s) /\ \A r \in Requests : ~Rotating(r, s)

SessInv == SessTypeOK /\ RowInv /\ ReqInv /\ ForkInv /\ CutInv

\* The type invariant, with the types named.
LEMMA Types ==
  SessTypeOK <=>
    /\ session \in [SessionIds -> Rows]
    /\ account \in [active : BOOLEAN, frozen : BOOLEAN, deleted : BOOLEAN]
    /\ req \in [Requests -> Recs]
    /\ admin \in [Admins -> {"idle", "sweep"}]
    /\ known \in SUBSET SessionIds
    /\ now \in Nat
    /\ forked \in SUBSET SessionIds
    /\ cut \in SUBSET SessionIds
BY DEF SessTypeOK, Rows, Recs, Steps

\* The idle request.
LEMMA IdleFacts ==
  Idle \in Recs /\ Idle.pc = "idle" /\ Idle.blocked = {} /\ Idle.sid = {}
BY DEF Idle, Recs, Steps

\* There are no rows at first.
LEMMA SessInitInv == SessInit => SessInv
<1> SUFFICES ASSUME SessInit PROVE SessInv
  OBVIOUS
<1>1. NoSession \in Rows /\ NoSession.state = "none" /\ NoSession.login = {}
  BY DEF NoSession, Rows
<1>2. \A s \in SessionIds : session[s] = NoSession
  BY DEF SessInit
<1>3. \A r \in Requests : req[r] = Idle
  BY DEF SessInit
<1>4. SessTypeOK
  BY <1>1, IdleFacts, Types DEF SessInit
<1>5. RowInv
  BY <1>1, <1>2 DEF RowInv, Made, SessInit
<1>6. ReqInv
  BY <1>3, IdleFacts DEF ReqInv, ReqOK, WithRow
<1>7. ForkInv /\ CutInv
  BY <1>1, <1>2, <1>3, IdleFacts DEF ForkInv, CutInv, Live, Rotating, SessInit
<1> QED
  BY <1>4, <1>5, <1>6, <1>7 DEF SessInv

-----------------------------------------------------------------------------
(* Steps that at most revoke rows *)

\* Rows are left alone or revoked.
Shrinks ==
  /\ session' \in [SessionIds -> Rows]
  /\ \A s \in SessionIds :
       /\ session'[s].exp = session[s].exp /\ session'[s].abs = session[s].abs
       /\ session'[s].made = session[s].made /\ session'[s].login = session[s].login
       /\ \/ session'[s].state = session[s].state
          \/ Live(s) /\ session'[s].state = "revoked"

\* Nothing happens to the rows.
LEMMA ShrinksWhenSame ==
  ASSUME SessInv, UNCHANGED session
  PROVE  Shrinks
BY Types DEF SessInv, Shrinks

\* Some rows are revoked.
LEMMA ShrinksWhenRevoked ==
  ASSUME SessInv, NEW rows, RevokedIn(rows)
  PROVE  /\ Shrinks
         /\ \A s \in SessionIds : s \in rows => session'[s].state # "live"
<1>1. session \in [SessionIds -> Rows]
  BY Types DEF SessInv
<1>2. \A s \in SessionIds :
        session'[s] = IF s \in rows /\ Live(s) THEN [session[s] EXCEPT !.state = "revoked"]
                      ELSE session[s]
  BY DEF RevokedIn
<1>3. ASSUME NEW s \in SessionIds
      PROVE  /\ session'[s] \in Rows
             /\ session'[s].exp = session[s].exp /\ session'[s].abs = session[s].abs
             /\ session'[s].made = session[s].made /\ session'[s].login = session[s].login
             /\ \/ session'[s].state = session[s].state
                \/ Live(s) /\ session'[s].state = "revoked"
             /\ s \in rows => session'[s].state # "live"
  <2>1. session[s] \in Rows
    BY <1>1
  <2>2. CASE s \in rows /\ Live(s)
    BY <1>2, <2>1, <2>2 DEF Rows
  <2>3. CASE ~(s \in rows /\ Live(s))
    BY <1>2, <2>1, <2>3 DEF Live
  <2> QED
    BY <2>2, <2>3
<1>4. session' \in [SessionIds -> Rows]
  BY <1>3 DEF RevokedIn
<1> QED
  BY <1>3, <1>4 DEF Shrinks

\* Such a step keeps the invariant if it starts no refresh, hands out no row
\* that does not exist and keeps the requests' records true.
LEMMA SoftStep ==
  ASSUME SessInv, SessTypeOK', Shrinks, ReqInv', forked \subseteq forked',
         \A s \in known' : s \in known \/ Made(s),
         \A r \in Requests, s \in SessionIds : Rotating(r, s)' => Rotating(r, s),
         \A l \in cut' : \/ l \in cut
                         \/ /\ Made(l) /\ l \in SessionIds
                            /\ \A s \in SessionIds : session'[s].state # "live"
                            /\ \A s \in SessionIds, r \in Requests : Rotating(r, s) => ~Of(s, l)
  PROVE  SessInv'
<1>1. \A s \in SessionIds : Made(s)' <=> Made(s)
  BY DEF Shrinks, Made, Live
<1>2. \A s \in SessionIds : Live(s)' => Live(s)
  BY DEF Shrinks, Live
<1>3. \A s, l \in SessionIds : Of(s, l)' <=> Of(s, l)
  BY DEF Shrinks, Of
<1>4. RowInv'
  <2>1. ASSUME NEW s \in SessionIds, Made(s)'
        PROVE  \E l \in SessionIds :
                 /\ Of(s, l)' /\ Made(l)' /\ Of(l, l)'
                 /\ session'[s].abs = session'[l].made + AbsoluteTTL
    BY <1>1, <1>3, <2>1 DEF SessInv, RowInv, Shrinks
  <2>2. \A s \in SessionIds : ~Made(s)' => session'[s].login = {}
    BY <1>1 DEF SessInv, RowInv, Shrinks
  <2>3. \A s \in known' : Made(s)'
    BY <1>1 DEF SessInv, RowInv, SessTypeOK
  <2>4. \A l \in cut' : Made(l)'
    BY <1>1 DEF SessInv, RowInv, SessTypeOK
  <2> QED
    BY <2>1, <2>2, <2>3, <2>4 DEF RowInv
<1>5. ForkInv'
  BY <1>2, <1>3 DEF SessInv, ForkInv
<1>6. CutInv'
  <2> SUFFICES ASSUME NEW l \in cut', NEW s \in SessionIds, Of(s, l)'
               PROVE  ~Live(s)' /\ \A r \in Requests : ~Rotating(r, s)'
    BY DEF CutInv
  <2>1. l \in SessionIds /\ Of(s, l)
    BY <1>3 DEF SessTypeOK
  <2>2. CASE l \in cut
    BY <1>2, <2>1, <2>2 DEF SessInv, CutInv
  <2>3. CASE l \notin cut
    BY <2>1, <2>3 DEF Live
  <2> QED
    BY <2>2, <2>3
<1> QED
  BY <1>4, <1>5, <1>6 DEF SessInv

\* A request whose record does not change.
LEMMA ReqKept ==
  ASSUME SessInv, Shrinks, NEW r \in Requests, req'[r] = req[r], account' = account
  PROVE  ReqOK(r)'
<1>1. \A s \in SessionIds : (Made(s)' <=> Made(s)) /\ (~Live(s) => ~Live(s)')
                            /\ session'[s].abs = session[s].abs
  BY DEF Shrinks, Made, Live
<1>2. ReqOK(r)
  BY DEF SessInv, ReqInv
<1> QED
  BY <1>1, <1>2 DEF ReqOK

\* One request moves to a record that is true; rows may be revoked.
LEMMA RequestMoves ==
  ASSUME SessInv, Shrinks, NEW r \in Requests, NEW rec \in Recs,
         req' = [req EXCEPT ![r] = rec], ReqOK(r)',
         rec.pc \in {"rotating", "revoked"} =>
           req[r].pc \in {"rotating", "revoked"} /\ req[r].sid = rec.sid,
         \A s \in known' : s \in known \/ (Made(s) /\ s \in SessionIds),
         UNCHANGED <<account, admin, now, forked, cut>>
  PROVE  SessInv'
<1>1. req \in [Requests -> Recs]
  BY Types DEF SessInv
<1>2. ReqInv'
  BY <1>1, ReqKept DEF ReqInv
<1>3. \A q \in Requests, s \in SessionIds : Rotating(q, s)' => Rotating(q, s)
  BY <1>1 DEF Rotating
<1>4. SessTypeOK'
  <2>1. known' \in SUBSET SessionIds
    BY Types DEF SessInv
  <2> QED
    BY <1>1, <2>1, Types DEF SessInv, Shrinks, SessTypeOK, Rows, Recs, Steps
<1> QED
  BY <1>2, <1>3, <1>4, SoftStep

\* A request ends.
LEMMA RequestEnds ==
  ASSUME SessInv, Shrinks, NEW r \in Requests, Over(r),
         \A s \in known' : s \in known \/ (Made(s) /\ s \in SessionIds),
         UNCHANGED <<account, admin, now, forked, cut>>
  PROVE  SessInv'
<1>1. req' = [req EXCEPT ![r] = Idle] /\ req'[r] = Idle
  BY Types DEF Over, SessInv
<1>2. ReqOK(r)'
  BY <1>1, IdleFacts DEF ReqOK, WithRow
<1> QED
  BY <1>1, <1>2, IdleFacts, RequestMoves

-----------------------------------------------------------------------------
(* Logins *)

\* Credentials are accepted.
LEMMA AuthenticateInv ==
  ASSUME SessInv, NEW r \in Requests, Authenticate(r) \/ AuthenticateOther(r)
  PROVE  SessInv'
<1>0. UNCHANGED <<session, account, admin, known, now, forked, cut>> /\ account.active
      /\ req \in [Requests -> Recs]
  BY Types DEF Authenticate, AuthenticateOther, SessInv
<1>1. CASE Authenticate(r)
  <2> DEFINE rec == [pc |-> "authenticated", sid |-> {}, since |-> 0, blocked |-> Blocks(account)]
  <2>1. rec \in Recs
    BY DEF Recs, Steps, Blocks
  <2>2. req' = [req EXCEPT ![r] = rec] /\ req'[r] = rec
    BY <1>0, <1>1 DEF Authenticate
  <2>3. "inactive" \notin Blocks(account)
    BY <1>0 DEF Blocks
  <2>4. ReqOK(r)'
    BY <1>0, <2>2, <2>3 DEF ReqOK, WithRow
  <2>5. rec.pc = "authenticated"
    OBVIOUS
  <2> HIDE DEF rec
  <2> QED
    BY <1>0, <2>1, <2>2, <2>4, <2>5, ShrinksWhenSame, RequestMoves
<1>2. CASE AuthenticateOther(r)
  <2> DEFINE rec == [Idle EXCEPT !.pc = "cleared"]
  <2>1. rec \in Recs /\ rec.pc = "cleared" /\ rec.blocked = {}
    BY IdleFacts DEF Recs, Steps
  <2>2. req' = [req EXCEPT ![r] = rec] /\ req'[r] = rec
    BY <1>0, <1>2 DEF AuthenticateOther
  <2> HIDE DEF rec
  <2>3. ReqOK(r)'
    BY <2>1, <2>2 DEF ReqOK, WithRow
  <2> QED
    BY <1>0, <2>1, <2>2, <2>3, ShrinksWhenSame, RequestMoves
<1> QED
  BY <1>1, <1>2

\* A request goes on to pc without changing the rest of its record.
LEMMA GotoFacts ==
  ASSUME SessInv, NEW r \in Requests, NEW pc \in Steps, Goto(r, pc)
  PROVE  /\ [req[r] EXCEPT !.pc = pc] \in Recs
         /\ req' = [req EXCEPT ![r] = [req[r] EXCEPT !.pc = pc]]
         /\ req'[r].pc = pc /\ req'[r].sid = req[r].sid
         /\ req'[r].since = req[r].since /\ req'[r].blocked = req[r].blocked
         /\ [req[r] EXCEPT !.pc = pc].pc = pc /\ [req[r] EXCEPT !.pc = pc].sid = req[r].sid
<1>1. req \in [Requests -> Recs] /\ req[r] \in Recs
  BY Types DEF SessInv
<1>2. req' = [req EXCEPT ![r] = [req[r] EXCEPT !.pc = pc]]
  BY DEF Goto
<1>3. req'[r] = [req[r] EXCEPT !.pc = pc]
  BY <1>1, <1>2
<1> QED
  BY <1>1, <1>2, <1>3 DEF Recs

\* What Blocks says of a usable account.
LEMMA UsableBlocks ==
  /\ ~account.deleted /\ ~account.frozen => "suspended" \notin Blocks(account)
  /\ account.active => "inactive" \notin Blocks(account)
BY DEF Blocks

\* The account's state is looked at.
LEMMA ValidateLoginInv ==
  ASSUME SessInv, NEW r \in Requests, ValidateLogin(r)
  PROVE  SessInv'
<1>0. UNCHANGED <<session, account, admin, known, now, forked, cut>>
  BY DEF ValidateLogin
<1>1. CASE Over(r)
  BY <1>0, <1>1, ShrinksWhenSame, RequestEnds
<1>2. CASE Goto(r, "cleared") /\ ~account.deleted /\ ~account.frozen
  <2>1. req[r].blocked = {}
    <3>1. req[r].blocked \subseteq Blocks(account) /\ "inactive" \notin req[r].blocked
      BY DEF ValidateLogin, SessInv, ReqInv, ReqOK
    <3>2. req[r].blocked \subseteq {"inactive", "suspended"}
      BY Types DEF SessInv, Recs
    <3> QED
      BY <1>2, <3>1, <3>2, UsableBlocks
  <2>2. "cleared" \in Steps
    BY DEF Steps
  <2> DEFINE rec == [req[r] EXCEPT !.pc = "cleared"]
  <2>3. /\ rec \in Recs /\ req' = [req EXCEPT ![r] = rec] /\ rec.pc = "cleared"
        /\ req'[r].pc = "cleared" /\ req'[r].blocked = {}
    BY <1>2, <2>1, <2>2, GotoFacts
  <2>4. ReqOK(r)'
    BY <2>3 DEF ReqOK, WithRow
  <2> HIDE DEF rec
  <2> QED
    BY <1>0, <2>3, <2>4, ShrinksWhenSame, RequestMoves
<1> QED
  BY <1>1, <1>2 DEF ValidateLogin

\* Old sessions are evicted and the token is handed out.
LEMMA DeliverLoginInv ==
  ASSUME SessInv, NEW r \in Requests, DeliverLogin(r)
  PROVE  SessInv'
<1>1. Shrinks
  BY ShrinksWhenSame, ShrinksWhenRevoked DEF DeliverLogin, EnforceMaxSessions
<1>2. \A s \in known' : s \in known \/ (Made(s) /\ s \in SessionIds)
  BY DEF DeliverLogin, SessInv, ReqInv, ReqOK, WithRow
<1> QED
  BY <1>1, <1>2, RequestEnds DEF DeliverLogin

-----------------------------------------------------------------------------
(* Refreshes *)

\* What the SELECT of a row that exists decides.
LEMMA ReadKinds ==
  ASSUME SessInv, NEW s \in SessionIds, Made(s)
  PROVE  /\ ReadKind(s) \in {"burning", "expired", "expiring", "rotating"}
         /\ ReadKind(s) = "rotating" => Live(s) /\ now <= session[s].abs
<1>1. session[s] \in Rows /\ now \in Nat
  BY Types DEF SessInv
<1>2. session[s].state \in {"live", "revoked"} /\ session[s].exp \in Nat /\ session[s].abs \in Nat
  BY <1>1 DEF Made, Rows
<1>3. CASE session[s].state = "revoked"
  BY <1>3 DEF ReadKind
<1>4. CASE session[s].state = "live"
  BY <1>1, <1>2, <1>4 DEF ReadKind, Live
<1> QED
  BY <1>2, <1>3, <1>4

\* The record a refresh begins with.
LEMMA ReadRecord ==
  ASSUME SessInv, NEW r \in Requests, NEW s \in SessionIds, ReadSession(r, s)
  PROVE  /\ Made(s) /\ ReadKind(s) \in {"burning", "expiring", "rotating"}
         /\ [pc |-> ReadKind(s), sid |-> {s}, since |-> now, blocked |-> Blocks(account)] \in Recs
         /\ req'[r] = [pc |-> ReadKind(s), sid |-> {s}, since |-> now, blocked |-> Blocks(account)]
         /\ ReqOK(r)'
<1>1. Made(s)
  BY DEF ReadSession, SessInv, RowInv
<1>2. ReadKind(s) \in {"burning", "expiring", "rotating"}
  BY <1>1, ReadKinds DEF ReadSession
<1>3. [pc |-> ReadKind(s), sid |-> {s}, since |-> now, blocked |-> Blocks(account)] \in Recs
  BY <1>2, Types DEF Recs, Steps, Blocks, SessInv
<1>4. req'[r] = [pc |-> ReadKind(s), sid |-> {s}, since |-> now, blocked |-> Blocks(account)]
  BY Types DEF ReadSession, SessInv
<1>5. UNCHANGED <<session, account>>
  BY DEF ReadSession
<1>6. ReqOK(r)'
  BY <1>1, <1>2, <1>4, <1>5, ReadKinds DEF ReqOK, WithRow, Made, Live
<1> QED
  BY <1>1, <1>2, <1>3, <1>4, <1>6

\* A refresh begins on a row that is live and young: the only row of its login
\* that is live, and if another refresh holds a row of the login, it holds this
\* one, and the login is forked.
LEMMA ReadRotatingInv ==
  ASSUME SessInv, NEW r \in Requests, NEW s \in SessionIds, ReadSession(r, s),
         ReadKind(s) = "rotating"
  PROVE  SessInv'
<1>0. /\ UNCHANGED <<session, account, admin, known, now, cut>>
      /\ req \in [Requests -> Recs] /\ session \in [SessionIds -> Rows]
      /\ req[r].pc = "idle"
  BY Types DEF ReadSession, SessInv
<1>1. Live(s) /\ Made(s)
  BY ReadRecord, ReadKinds
<1>2. \A q \in Requests : q # r => req'[q] = req[q]
  BY <1>0 DEF ReadSession
<1>3. req'[r].pc = "rotating" /\ req'[r].sid = {s}
  <2>1. req'[r] = [pc |-> ReadKind(s), sid |-> {s}, since |-> now, blocked |-> Blocks(account)]
    BY ReadRecord
  <2> QED
    BY <2>1
<1>4. req' \in [Requests -> Recs]
  BY <1>0, ReadRecord DEF ReadSession
<1>5. forked' = IF \E q \in Requests : Rotating(q, s) THEN forked \cup session[s].login ELSE forked
  BY DEF ReadSession
<1>6. SessTypeOK'
  <2>1. forked' \in SUBSET SessionIds
    BY <1>0, <1>5, Types DEF SessInv, Rows
  <2> QED
    BY <1>0, <1>4, <2>1, Types DEF SessInv, SessTypeOK, Recs, Steps
<1>7. RowInv'
  BY <1>0 DEF SessInv, RowInv, Made, Of
<1>8. ReqInv'
  <2>1. \A q \in Requests : q # r => ReqOK(q)'
    BY <1>0, <1>2, ReqKept, ShrinksWhenSame
  <2> QED
    BY <2>1, ReadRecord DEF ReqInv
<1>9. \A q \in Requests, t \in SessionIds :
        Rotating(q, t)' => Rotating(q, t) \/ (q = r /\ t = s)
  BY <1>2, <1>3 DEF Rotating
<1>10. ~\E t \in SessionIds : Rotating(r, t)
  BY <1>0 DEF Rotating
<1>11. ForkInv'
  <2> SUFFICES ASSUME NEW l \in SessionIds, l \notin forked'
               PROVE  /\ \A t, u \in SessionIds : Live(t) /\ Live(u) /\ Of(t, l) /\ Of(u, l) => t = u
                      /\ \A q \in Requests, t, u \in SessionIds :
                           Rotating(q, t)' /\ Of(t, l) /\ Live(u) /\ Of(u, l) => u = t
                      /\ \A q, p \in Requests, t, u \in SessionIds :
                           Rotating(q, t)' /\ Of(t, l) /\ Rotating(p, u)' /\ Of(u, l) => q = p
    BY <1>0 DEF ForkInv, Live, Of
  <2>1. l \notin forked
    BY <1>5
  <2>2. Of(s, l) => ~\E q \in Requests : Rotating(q, s)
    BY <1>5 DEF Of
  <2>3. Of(s, l) => \A q \in Requests, t \in SessionIds : Rotating(q, t) /\ Of(t, l) => FALSE
    BY <1>1, <2>1, <2>2 DEF SessInv, ForkInv
  <2>4. \A t, u \in SessionIds : Live(t) /\ Live(u) /\ Of(t, l) /\ Of(u, l) => t = u
    BY <2>1 DEF SessInv, ForkInv
  <2>5. ASSUME NEW q \in Requests, NEW t \in SessionIds, NEW u \in SessionIds,
               Rotating(q, t)', Of(t, l), Live(u), Of(u, l)
        PROVE  u = t
    <3>1. CASE Rotating(q, t)
      BY <2>1, <2>5, <3>1 DEF SessInv, ForkInv
    <3>2. CASE t = s
      BY <1>1, <2>4, <2>5, <3>2
    <3> QED
      BY <1>9, <2>5, <3>1, <3>2
  <2>6. ASSUME NEW q \in Requests, NEW p \in Requests, NEW t \in SessionIds, NEW u \in SessionIds,
               Rotating(q, t)', Of(t, l), Rotating(p, u)', Of(u, l)
        PROVE  q = p
    <3>1. CASE Rotating(q, t) /\ Rotating(p, u)
      BY <2>1, <2>6, <3>1 DEF SessInv, ForkInv
    <3>2. CASE q = r /\ t = s
      BY <1>9, <2>3, <2>6, <3>2
    <3>3. CASE p = r /\ u = s
      BY <1>9, <2>3, <2>6, <3>3
    <3> QED
      BY <1>9, <2>6, <3>1, <3>2, <3>3
  <2> QED
    BY <2>4, <2>5, <2>6
<1>12. CutInv'
  <2> SUFFICES ASSUME NEW l \in cut, NEW t \in SessionIds, Of(t, l)
               PROVE  ~Live(t) /\ \A q \in Requests : ~Rotating(q, t)'
    BY <1>0 DEF CutInv, Live, Of
  <2> QED
    BY <1>1, <1>9 DEF SessInv, CutInv
<1> QED
  BY <1>6, <1>7, <1>8, <1>11, <1>12 DEF SessInv

\* The other outcomes of the SELECT.
LEMMA ReadSessionInv ==
  ASSUME SessInv, NEW r \in Requests, NEW s \in SessionIds, ReadSession(r, s)
  PROVE  SessInv'
<1>1. CASE ReadKind(s) = "rotating"
  BY <1>1, ReadRotatingInv
<1>2. CASE ReadKind(s) # "rotating"
  <2> DEFINE rec == [pc |-> ReadKind(s), sid |-> {s}, since |-> now, blocked |-> Blocks(account)]
  <2>1. /\ rec \in Recs /\ ReqOK(r)' /\ rec.pc \notin {"rotating", "revoked"}
        /\ req' = [req EXCEPT ![r] = rec]
    BY <1>2, ReadRecord DEF ReadSession
  <2> HIDE DEF rec
  <2>2. UNCHANGED <<session, account, admin, known, now, forked, cut>>
    BY <1>2 DEF ReadSession
  <2> QED
    BY <2>1, <2>2, ShrinksWhenSame, RequestMoves
<1> QED
  BY <1>1, <1>2

\* A row past a limit is revoked.
LEMMA RevokeExpiredInv ==
  ASSUME SessInv, NEW r \in Requests, RevokeExpired(r)
  PROVE  SessInv'
<1>1. Shrinks
  BY ShrinksWhenRevoked DEF RevokeExpired
<1> QED
  BY <1>1, RequestEnds DEF RevokeExpired

\* A refresh revokes its row.
LEMMA RevokeOldInv ==
  ASSUME SessInv, NEW r \in Requests, RevokeOld(r)
  PROVE  SessInv'
<1>1. /\ Shrinks /\ \A s \in SessionIds : s \in req[r].sid => ~Live(s)'
      /\ UNCHANGED <<account, admin, known, now, forked, cut>> /\ Goto(r, "revoked")
      /\ req[r].pc = "rotating"
  BY ShrinksWhenRevoked DEF RevokeOld, Live
<1>2. "revoked" \in Steps
  BY DEF Steps
<1> DEFINE rec == [req[r] EXCEPT !.pc = "revoked"]
<1>3. /\ rec \in Recs /\ req' = [req EXCEPT ![r] = rec]
      /\ rec.pc = "revoked" /\ rec.sid = req[r].sid
      /\ req'[r].pc = "revoked" /\ req'[r].sid = req[r].sid
      /\ req'[r].since = req[r].since /\ req'[r].blocked = req[r].blocked
  BY <1>1, <1>2, GotoFacts
<1>4. ReqOK(r)'
  <2>1. PICK s \in SessionIds : /\ req[r].sid = {s} /\ Made(s)
                                /\ req[r].since <= session[s].abs
    BY <1>1 DEF SessInv, ReqInv, ReqOK, WithRow
  <2>2. ~Live(s)' /\ Made(s)' /\ session'[s].abs = session[s].abs
    BY <1>1, <2>1 DEF Shrinks, Made, Live
  <2>3. req'[r].blocked \subseteq Blocks(account')
    BY <1>1, <1>3 DEF SessInv, ReqInv, ReqOK
  <2> QED
    BY <1>1, <1>3, <2>1, <2>2, <2>3 DEF ReqOK
<1> HIDE DEF rec
<1> QED
  BY <1>1, <1>3, <1>4, RequestMoves

\* A refresh reads the users row.
LEMMA FetchUserInv ==
  ASSUME SessInv, NEW r \in Requests, FetchUser(r)
  PROVE  SessInv'
<1>0. UNCHANGED <<session, account, admin, known, now, forked, cut>> /\ req[r].pc = "rotated"
  BY DEF FetchUser
<1>1. CASE Over(r)
  BY <1>0, <1>1, ShrinksWhenSame, RequestEnds
<1>2. CASE Goto(r, "fetched") /\ account.active
  <2>1. "fetched" \in Steps
    BY DEF Steps
  <2> DEFINE rec == [req[r] EXCEPT !.pc = "fetched"]
  <2>2. /\ rec \in Recs /\ req' = [req EXCEPT ![r] = rec] /\ rec.pc = "fetched"
        /\ req'[r].pc = "fetched" /\ req'[r].sid = req[r].sid
        /\ req'[r].since = req[r].since /\ req'[r].blocked = req[r].blocked
    BY <1>2, <2>1, GotoFacts
  <2>3. ReqOK(r)'
    <3>1. ReqOK(r)
      BY DEF SessInv, ReqInv
    <3>2. "inactive" \notin req[r].blocked
      BY <1>2, <3>1, UsableBlocks DEF ReqOK
    <3>3. Blocks(account)' = Blocks(account)
      BY <1>0 DEF Blocks
    <3> QED
      BY <1>0, <2>2, <3>1, <3>2, <3>3 DEF ReqOK, WithRow, Made, Live
  <2> HIDE DEF rec
  <2> QED
    BY <1>0, <2>2, <2>3, ShrinksWhenSame, RequestMoves
<1> QED
  BY <1>1, <1>2 DEF FetchUser

\* A refresh hands out its token, or is refused.
LEMMA DeliverRefreshInv ==
  ASSUME SessInv, NEW r \in Requests, DeliverRefresh(r)
  PROVE  SessInv'
<1>1. \A s \in known' : s \in known \/ (Made(s) /\ s \in SessionIds)
  BY DEF DeliverRefresh, SessInv, ReqInv, ReqOK, WithRow
<1> QED
  BY <1>1, ShrinksWhenSame, RequestEnds DEF DeliverRefresh

\* A request fails.
LEMMA RequestFailsInv ==
  ASSUME SessInv, NEW r \in Requests, RequestFails(r)
  PROVE  SessInv'
BY ShrinksWhenSame, RequestEnds DEF RequestFails

-----------------------------------------------------------------------------
(* New rows *)

\* A row of login l is inserted: a first row (l is the row itself), or a
\* successor, when no other row and no other request has the login's turn.
LEMMA CreateInv ==
  ASSUME SessInv, NEW r \in Requests, NEW s \in SessionIds, NEW l \in SessionIds,
         NEW exp \in Nat, NEW abs \in Nat, NEW pc \in {"issued", "rotated"},
         CreateSession(r, s, exp, abs, {l}, pc),
         IF l = s THEN abs = now + AbsoluteTTL
         ELSE Made(l) /\ Of(l, l) /\ abs = session[l].made + AbsoluteTTL,
         l \notin cut,
         \A t \in SessionIds : Of(t, l) /\ l \notin forked =>
           ~Live(t) /\ \A q \in Requests \ {r} : ~Rotating(q, t),
         pc = "issued" => req[r].blocked = {},
         pc = "rotated" => req[r].since <= abs,
         UNCHANGED <<account, admin, known, now, forked, cut>>
  PROVE  SessInv'
<1> DEFINE row == [state |-> "live", exp |-> exp, abs |-> abs, made |-> now, login |-> {l}]
           rec == [pc |-> pc, sid |-> {s}, since |-> req[r].since, blocked |-> req[r].blocked]
<1>0. /\ session \in [SessionIds -> Rows] /\ req \in [Requests -> Recs] /\ now \in Nat
      /\ ~Made(s) /\ session' = [session EXCEPT ![s] = row] /\ req' = [req EXCEPT ![r] = rec]
  BY Types DEF SessInv, CreateSession, Made
<1>1. row \in Rows
  BY <1>0 DEF Rows
<1>2. rec \in Recs
  BY <1>0 DEF Recs, Steps
<1>3. session'[s] = row /\ \A t \in SessionIds : t # s => session'[t] = session[t]
  BY <1>0
<1>4. req'[r] = rec /\ \A q \in Requests : q # r => req'[q] = req[q]
  BY <1>0
<1>5. Made(s)' /\ Live(s)' /\ session'[s].abs = abs /\ session'[s].made = now
      /\ session'[s].login = {l}
  BY <1>3 DEF Made, Live
<1>6. req'[r].pc = pc /\ req'[r].sid = {s} /\ req'[r].since = req[r].since
      /\ req'[r].blocked = req[r].blocked
  BY <1>4
<1> HIDE DEF row, rec
<1>7. \A t \in SessionIds : t # s =>
        /\ Made(t)' <=> Made(t)
        /\ Live(t)' <=> Live(t)
        /\ \A m \in SessionIds : Of(t, m)' <=> Of(t, m)
        /\ session'[t].abs = session[t].abs /\ session'[t].made = session[t].made
        /\ session'[t].login = session[t].login
  BY <1>3 DEF Made, Live, Of
<1>8. \A m \in SessionIds : Of(s, m)' <=> m = l
  BY <1>5 DEF Of
<1>9. \A q \in Requests, t \in SessionIds : Rotating(q, t)' => q # r /\ Rotating(q, t)
  BY <1>4, <1>6 DEF Rotating
<1>10. \A q \in Requests : req[q].pc \in WithRow => req[q].sid # {s}
  BY <1>0 DEF SessInv, ReqInv, ReqOK
<1>11. \A q \in Requests : ~Rotating(q, s)
  BY <1>10 DEF Rotating, WithRow
<1>12. SessTypeOK'
  <2>1. session' \in [SessionIds -> Rows] /\ req' \in [Requests -> Recs]
    BY <1>0, <1>1, <1>2
  <2> QED
    BY <2>1, Types DEF SessInv, SessTypeOK, Rows, Recs, Steps
<1>13. RowInv'
  <2>1. ASSUME NEW t \in SessionIds, Made(t)'
        PROVE  \E m \in SessionIds :
                 /\ Of(t, m)' /\ Made(m)' /\ Of(m, m)'
                 /\ session'[t].abs = session'[m].made + AbsoluteTTL
    <3>1. CASE t = s /\ l = s
      BY <1>5, <1>8, <3>1
    <3>2. CASE t = s /\ l # s
      BY <1>5, <1>7, <1>8, <3>2
    <3>3. CASE t # s
      <4>1. PICK m \in SessionIds : /\ Of(t, m) /\ Made(m) /\ Of(m, m)
                                    /\ session[t].abs = session[m].made + AbsoluteTTL
        BY <1>7, <2>1, <3>3 DEF SessInv, RowInv
      <4>2. m # s
        BY <1>0, <4>1
      <4> QED
        BY <1>7, <3>3, <4>1, <4>2
    <3> QED
      BY <3>1, <3>2, <3>3
  <2>2. \A t \in SessionIds : ~Made(t)' => session'[t].login = {}
    BY <1>5, <1>7 DEF SessInv, RowInv
  <2>3. (\A t \in known' : Made(t)') /\ (\A m \in cut' : Made(m)')
    BY <1>0, <1>7, Types DEF SessInv, RowInv
  <2> QED
    BY <2>1, <2>2, <2>3 DEF RowInv
<1>14. ReqInv'
  <2>1. Blocks(account)' = Blocks(account)
    BY DEF Blocks
  <2>2. ASSUME NEW q \in Requests, q # r PROVE ReqOK(q)'
    <3>1. ReqOK(q) /\ req'[q] = req[q]
      BY <1>4, <2>2 DEF SessInv, ReqInv
    <3> QED
      BY <1>7, <1>10, <2>1, <3>1 DEF ReqOK
  <2>3. ReqOK(r)'
    <3>1. req'[r].blocked \subseteq Blocks(account)'
      BY <1>6, <2>1 DEF SessInv, ReqInv, ReqOK
    <3> QED
      BY <1>5, <1>6, <3>1 DEF ReqOK
  <2> QED
    BY <2>2, <2>3 DEF ReqInv
<1>15. ForkInv'
  <2> SUFFICES ASSUME NEW m \in SessionIds, m \notin forked
               PROVE  /\ \A t, u \in SessionIds :
                           Live(t)' /\ Live(u)' /\ Of(t, m)' /\ Of(u, m)' => t = u
                      /\ \A q \in Requests, t, u \in SessionIds :
                           Rotating(q, t)' /\ Of(t, m)' /\ Live(u)' /\ Of(u, m)' => u = t
                      /\ \A q, p \in Requests, t, u \in SessionIds :
                           Rotating(q, t)' /\ Of(t, m)' /\ Rotating(p, u)' /\ Of(u, m)' => q = p
    BY DEF ForkInv
  <2>1. CASE m = l
    <3>1. \A t \in SessionIds : t # s /\ Of(t, m)' => ~Live(t)'
      BY <1>7, <2>1
    <3>2. \A t \in SessionIds, q \in Requests : Of(t, m)' => ~Rotating(q, t)'
      BY <1>7, <1>9, <1>11, <2>1
    <3> QED
      BY <3>1, <3>2
  <2>2. CASE m # l
    <3>1. \A t \in SessionIds : Of(t, m)' => t # s /\ Of(t, m) /\ (Live(t)' => Live(t))
      BY <1>7, <1>8, <2>2
    <3> QED
      BY <1>9, <3>1 DEF SessInv, ForkInv
  <2> QED
    BY <2>1, <2>2
<1>16. CutInv'
  <2> SUFFICES ASSUME NEW m \in cut, NEW t \in SessionIds, Of(t, m)'
               PROVE  ~Live(t)' /\ \A q \in Requests : ~Rotating(q, t)'
    BY DEF CutInv
  <2>1. m \in SessionIds /\ m # l
    BY Types DEF SessInv
  <2>2. t # s /\ Of(t, m)
    BY <1>7, <1>8, <2>1
  <2> QED
    BY <1>7, <1>9, <2>2 DEF SessInv, CutInv
<1> QED
  BY <1>12, <1>13, <1>14, <1>15, <1>16 DEF SessInv

\* A login inserts its first row.
LEMMA IssueSessionInv ==
  ASSUME SessInv, NEW r \in Requests, NEW s \in SessionIds, IssueSession(r, s)
  PROVE  SessInv'
<1>1. now + RefreshTTL \in Nat /\ now + AbsoluteTTL \in Nat
  BY SessionAssumption, Types DEF SessInv
<1>2. ~Made(s)
  BY DEF IssueSession, CreateSession, Made
<1>3. s \notin cut
  BY <1>2 DEF SessInv, RowInv
<1>4. \A t \in SessionIds : ~Of(t, s)
  <2> SUFFICES ASSUME NEW t \in SessionIds, Of(t, s) PROVE FALSE
    OBVIOUS
  <2>1. CASE Made(t)
    <3>1. PICK m \in SessionIds : Of(t, m) /\ Made(m)
      BY <2>1 DEF SessInv, RowInv
    <3>2. m = s
      BY <3>1 DEF Of
    <3> QED
      BY <1>2, <3>1, <3>2
  <2>2. CASE ~Made(t)
    BY <2>2 DEF SessInv, RowInv, Of
  <2> QED
    BY <2>1, <2>2
<1>5. req[r].blocked = {}
  BY DEF IssueSession, SessInv, ReqInv, ReqOK
<1>6. CreateSession(r, s, now + RefreshTTL, now + AbsoluteTTL, {s}, "issued")
      /\ UNCHANGED <<account, admin, known, now, forked, cut>>
  BY DEF IssueSession
<1> QED
  BY <1>1, <1>3, <1>4, <1>5, <1>6, CreateInv

\* A refresh inserts the successor.
LEMMA InsertRotatedInv ==
  ASSUME SessInv, NEW r \in Requests, NEW old \in SessionIds, NEW s \in SessionIds,
         InsertRotated(r, old, s)
  PROVE  SessInv'
<1>0. /\ req[r].pc = "revoked" /\ req[r].sid = {old}
      /\ UNCHANGED <<account, admin, known, now, forked, cut>>
  BY DEF InsertRotated
<1>1. Made(old) /\ ~Live(old) /\ req[r].since <= session[old].abs
  BY <1>0 DEF SessInv, ReqInv, ReqOK, WithRow
<1>2. PICK l \in SessionIds : /\ Of(old, l) /\ Made(l) /\ Of(l, l)
                              /\ session[old].abs = session[l].made + AbsoluteTTL
  BY <1>1 DEF SessInv, RowInv
<1>3. session[old].abs \in Nat /\ req[r].since \in Nat
  BY Types DEF SessInv, Rows, Recs
<1> DEFINE exp == Least(req[r].since + RefreshTTL, session[old].abs)
<1>4. exp \in Nat
  BY <1>3, SessionAssumption DEF Least
<1>5. CreateSession(r, s, exp, session[old].abs, {l}, "rotated")
  BY <1>2 DEF InsertRotated, Of
<1>6. s # l
  BY <1>2 DEF InsertRotated, CreateSession, Made
<1>7. Rotating(r, old)
  BY <1>0 DEF Rotating
<1>8. l \notin cut
  BY <1>2, <1>7 DEF SessInv, CutInv
<1>9. ASSUME NEW t \in SessionIds, Of(t, l), l \notin forked
      PROVE  ~Live(t) /\ \A q \in Requests \ {r} : ~Rotating(q, t)
  BY <1>1, <1>2, <1>7, <1>9 DEF SessInv, ForkInv
<1> HIDE DEF exp
<1> QED
  BY <1>0, <1>1, <1>2, <1>3, <1>4, <1>5, <1>6, <1>8, <1>9, CreateInv

-----------------------------------------------------------------------------
(* Revocations and the account *)

\* Every row of the account is revoked.
LEMMA RevokeAllFacts ==
  ASSUME SessInv, RevokeAllUserSessions
  PROVE  /\ Shrinks
         /\ \A s \in SessionIds : session'[s].state # "live"
         /\ cut' \in SUBSET SessionIds
         /\ \A l \in cut' :
              \/ l \in cut
              \/ /\ Made(l) /\ l \in SessionIds
                 /\ \A s \in SessionIds, r \in Requests : Rotating(r, s) => ~Of(s, l)
<1>1. Shrinks /\ \A s \in SessionIds : session'[s].state # "live"
  BY ShrinksWhenRevoked DEF RevokeAllUserSessions
<1>2. cut' = cut \cup {l \in SessionIds :
         /\ session[l].state # "none" /\ session[l].login = {l}
         /\ \A s \in SessionIds, r \in Requests : Rotating(r, s) => session[s].login # {l}}
  BY DEF RevokeAllUserSessions
<1>3. cut \in SUBSET SessionIds
  BY Types DEF SessInv
<1> QED
  BY <1>1, <1>2, <1>3 DEF Made, Of

\* A revoked token was used.
LEMMA BurnFamilyInv ==
  ASSUME SessInv, NEW r \in Requests, BurnFamily(r)
  PROVE  SessInv'
<1>1. UNCHANGED <<account, admin, known, now, forked>> /\ Shrinks
  BY RevokeAllFacts DEF BurnFamily
<1>2. req \in [Requests -> Recs] /\ req' = [req EXCEPT ![r] = Idle]
  BY Types DEF SessInv, BurnFamily, Over
<1>3. ReqInv'
  <2>1. \A q \in Requests : q # r => ReqOK(q)'
    BY <1>1, <1>2, ReqKept
  <2>2. ReqOK(r)'
    BY <1>2, IdleFacts DEF ReqOK, WithRow
  <2> QED
    BY <2>1, <2>2 DEF ReqInv
<1>4. SessTypeOK'
  BY <1>1, <1>2, IdleFacts, RevokeAllFacts, Types
     DEF SessInv, SessTypeOK, Shrinks, Rows, Recs, Steps, BurnFamily
<1>5. \A q \in Requests, s \in SessionIds : Rotating(q, s)' => Rotating(q, s)
  BY <1>2, IdleFacts DEF Rotating
<1> QED
  BY <1>1, <1>3, <1>4, <1>5, RevokeAllFacts, SoftStep DEF BurnFamily

\* A step that leaves the requests alone.
LEMMA QuietStep ==
  ASSUME SessInv, Shrinks, UNCHANGED <<account, req, known, forked>>,
         admin' \in [Admins -> {"idle", "sweep"}], now' \in Nat,
         cut' \in SUBSET SessionIds,
         \A l \in cut' : \/ l \in cut
                         \/ /\ Made(l) /\ l \in SessionIds
                            /\ \A s \in SessionIds : session'[s].state # "live"
                            /\ \A s \in SessionIds, r \in Requests : Rotating(r, s) => ~Of(s, l)
  PROVE  SessInv'
<1>1. ReqInv'
  BY ReqKept DEF ReqInv
<1>2. SessTypeOK'
  BY Types DEF SessInv, SessTypeOK, Shrinks, Rows, Recs, Steps
<1>3. \A r \in Requests, s \in SessionIds : Rotating(r, s)' => Rotating(r, s)
  BY DEF Rotating
<1> QED
  BY <1>1, <1>2, <1>3, SoftStep

\* The account changes: what blocked a request and no longer does is forgotten.
LEMMA AccountInv ==
  ASSUME SessInv, NEW acc \in [active : BOOLEAN, frozen : BOOLEAN, deleted : BOOLEAN],
         SetAccount(acc), admin' \in [Admins -> {"idle", "sweep"}],
         UNCHANGED <<session, known, now, forked, cut>>
  PROVE  SessInv'
<1>0. req \in [Requests -> Recs] /\ account' = acc
  BY Types DEF SessInv, SetAccount
<1>1. \A r \in Requests : req'[r] = [req[r] EXCEPT !.blocked = @ \cap Blocks(acc)]
  BY DEF SetAccount
<1>2. ASSUME NEW r \in Requests
      PROVE  /\ req'[r] \in Recs
             /\ req'[r].pc = req[r].pc /\ req'[r].sid = req[r].sid
             /\ req'[r].since = req[r].since
             /\ req'[r].blocked = req[r].blocked \cap Blocks(acc)
  <2> DEFINE b == req[r].blocked \cap Blocks(acc)
  <2>1. req[r] \in Recs
    BY <1>0
  <2>2. b \in SUBSET {"inactive", "suspended"}
    BY <2>1 DEF Recs
  <2>3. req'[r] = [req[r] EXCEPT !.blocked = b]
    BY <1>1
  <2> HIDE DEF b
  <2>4. [req[r] EXCEPT !.blocked = b] \in Recs
    BY <2>1, <2>2 DEF Recs
  <2>5. /\ req'[r].pc = req[r].pc /\ req'[r].sid = req[r].sid
        /\ req'[r].since = req[r].since /\ req'[r].blocked = b
    BY <2>1, <2>3 DEF Recs
  <2> QED
    BY <2>3, <2>4, <2>5 DEF b
<1>3. req' \in [Requests -> Recs]
  BY <1>2 DEF SetAccount
<1>4. ReqInv'
  <2> SUFFICES ASSUME NEW r \in Requests PROVE ReqOK(r)'
    BY DEF ReqInv
  <2>1. ReqOK(r)
    BY DEF SessInv, ReqInv
  <2>2. Blocks(account)' = Blocks(acc)
    BY <1>0 DEF Blocks
  <2> QED
    BY <1>2, <2>1, <2>2 DEF ReqOK, Made, Live
<1>5. SessTypeOK'
  BY <1>0, <1>3, Types DEF SessInv, SessTypeOK, Rows, Recs, Steps
<1>6. \A r \in Requests, s \in SessionIds : Rotating(r, s)' => Rotating(r, s)
  BY <1>2 DEF Rotating
<1>7. \A s \in known' : s \in known
  OBVIOUS
<1> QED
  BY <1>4, <1>5, <1>6, <1>7, ShrinksWhenSame, SoftStep

\* The operations on the account.
LEMMA AccountStepInv ==
  ASSUME SessInv, NEW a \in Admins, AccountStep(a)
  PROVE  SessInv'
<1>0. /\ account \in [active : BOOLEAN, frozen : BOOLEAN, deleted : BOOLEAN]
      /\ admin \in [Admins -> {"idle", "sweep"}] /\ cut \in SUBSET SessionIds /\ now \in Nat
  BY Types DEF SessInv
<1>1. admin' \in [Admins -> {"idle", "sweep"}]
  BY <1>0 DEF AccountStep, FreezeAccount, DeleteAccount, RevocationDue, Sweep, SweepFails
<1>2. CASE FreezeAccount(a)
  <2> DEFINE acc == [account EXCEPT !.frozen = TRUE]
  <2>1. acc \in [active : BOOLEAN, frozen : BOOLEAN, deleted : BOOLEAN]
    BY <1>0
  <2>2. SetAccount(acc) /\ UNCHANGED <<session, known, now, forked, cut>>
    BY <1>2 DEF FreezeAccount
  <2> HIDE DEF acc
  <2> QED
    BY <1>1, <2>1, <2>2, AccountInv
<1>3. CASE DeleteAccount(a)
  <2> DEFINE acc == IF account.deleted THEN account ELSE Deleted(account)
  <2>1. acc \in [active : BOOLEAN, frozen : BOOLEAN, deleted : BOOLEAN]
    BY <1>0 DEF Deleted
  <2>2. SetAccount(acc) /\ UNCHANGED <<session, known, now, forked, cut>>
    BY <1>3 DEF DeleteAccount
  <2> HIDE DEF acc
  <2> QED
    BY <1>1, <2>1, <2>2, AccountInv
<1>4. CASE RevocationDue(a) \/ SweepFails(a)
  <2>1. UNCHANGED <<session, account, req, known, now, forked, cut>>
    BY <1>4 DEF RevocationDue, SweepFails
  <2> QED
    BY <1>0, <1>1, <2>1, ShrinksWhenSame, QuietStep
<1>5. CASE Sweep(a)
  <2>1. UNCHANGED <<account, req, known, now, forked>> /\ RevokeAllUserSessions
    BY <1>5 DEF Sweep
  <2> QED
    BY <1>0, <1>1, <2>1, RevokeAllFacts, QuietStep
<1> QED
  BY <1>2, <1>3, <1>4, <1>5 DEF AccountStep

\* The steps that belong to nobody.
LEMMA OtherStepInv ==
  ASSUME SessInv,
         \/ \E s \in SessionIds : RevokeOne(s)
         \/ UnfreezeAccount \/ RestoreAccount \/ SessTick
         \/ \E b \in BOOLEAN : UpdateUserActiveStatus(b)
  PROVE  SessInv'
<1>0. /\ account \in [active : BOOLEAN, frozen : BOOLEAN, deleted : BOOLEAN]
      /\ admin \in [Admins -> {"idle", "sweep"}] /\ cut \in SUBSET SessionIds /\ now \in Nat
  BY Types DEF SessInv
<1>1. ASSUME NEW s \in SessionIds, RevokeOne(s) PROVE SessInv'
  <2>1. Shrinks /\ UNCHANGED <<account, req, admin, known, now, forked, cut>>
    BY <1>1, ShrinksWhenRevoked DEF RevokeOne
  <2> QED
    BY <1>0, <2>1, QuietStep
<1>2. CASE UnfreezeAccount
  <2> DEFINE acc == [account EXCEPT !.frozen = FALSE]
  <2>1. acc \in [active : BOOLEAN, frozen : BOOLEAN, deleted : BOOLEAN]
    BY <1>0
  <2>2. SetAccount(acc) /\ UNCHANGED <<session, admin, known, now, forked, cut>>
    BY <1>2 DEF UnfreezeAccount
  <2> HIDE DEF acc
  <2> QED
    BY <1>0, <2>1, <2>2, AccountInv
<1>3. CASE RestoreAccount
  <2> DEFINE acc == Restored(account)
  <2>1. acc \in [active : BOOLEAN, frozen : BOOLEAN, deleted : BOOLEAN]
    BY <1>0 DEF Restored
  <2>2. SetAccount(acc) /\ UNCHANGED <<session, admin, known, now, forked, cut>>
    BY <1>3 DEF RestoreAccount
  <2> HIDE DEF acc
  <2> QED
    BY <1>0, <2>1, <2>2, AccountInv
<1>4. ASSUME NEW b \in BOOLEAN, UpdateUserActiveStatus(b) PROVE SessInv'
  <2> DEFINE acc == [account EXCEPT !.active = b]
  <2>1. acc \in [active : BOOLEAN, frozen : BOOLEAN, deleted : BOOLEAN]
    BY <1>0
  <2>2. SetAccount(acc) /\ UNCHANGED <<session, admin, known, now, forked, cut>>
    BY <1>4 DEF UpdateUserActiveStatus
  <2> HIDE DEF acc
  <2> QED
    BY <1>0, <2>1, <2>2, AccountInv
<1>5. CASE SessTick
  <2>1. UNCHANGED <<session, account, req, admin, known, forked, cut>> /\ now' \in Nat
    BY <1>0, <1>5 DEF SessTick
  <2> QED
    BY <1>0, <2>1, ShrinksWhenSame, QuietStep
<1> QED
  BY <1>1, <1>2, <1>3, <1>4, <1>5

\* Every step keeps the invariant.
LEMMA SessNextInv == SessInv /\ [SessNext]_sessVars => SessInv'
<1> SUFFICES ASSUME SessInv, [SessNext]_sessVars PROVE SessInv'
  OBVIOUS
<1>1. CASE UNCHANGED sessVars
  <2>1. /\ UNCHANGED <<session, account, req, admin, known, now, forked, cut>>
        /\ admin \in [Admins -> {"idle", "sweep"}] /\ cut \in SUBSET SessionIds /\ now \in Nat
    BY <1>1, Types DEF sessVars, SessInv
  <2> QED
    BY <2>1, ShrinksWhenSame, QuietStep
<1>2. ASSUME NEW r \in Requests, RequestStep(r) PROVE SessInv'
  BY <1>2, AuthenticateInv, ValidateLoginInv, IssueSessionInv, DeliverLoginInv, ReadSessionInv,
     BurnFamilyInv, RevokeExpiredInv, RevokeOldInv, InsertRotatedInv, FetchUserInv,
     DeliverRefreshInv, RequestFailsInv DEF RequestStep
<1> QED
  BY <1>1, <1>2, AccountStepInv, OtherStepInv DEF SessNext

\* The invariant holds of every reachable state.
LEMMA SessInductive == SessSpec => []SessInv
BY SessInitInv, SessNextInv, PTL DEF SessSpec

-----------------------------------------------------------------------------
\* Type correctness.
THEOREM SessTypeCorrect == SessSpec => []SessTypeOK
<1>1. SessInv => SessTypeOK
  BY DEF SessInv
<1> QED
  BY <1>1, SessInductive, PTL

\* A login none of whose tokens was refreshed twice at once has one live
\* session at most, for any number of refreshes.
THEOREM OneSessionCorrect == SessSpec => []OneSessionPerLogin
<1>1. SessInv => OneSessionPerLogin
  <2> SUFFICES ASSUME SessInv, NEW s \in SessionIds, NEW t \in SessionIds, Live(s), Live(t),
                      session[s].login = session[t].login, session[s].login \cap forked = {}
               PROVE  s = t
    BY DEF OneSessionPerLogin
  <2>1. PICK l \in SessionIds : Of(s, l)
    BY DEF SessInv, RowInv, Made, Live
  <2>2. Of(t, l) /\ l \notin forked
    BY <2>1 DEF Of
  <2> QED
    BY <2>1, <2>2 DEF SessInv, ForkInv
<1> QED
  BY <1>1, SessInductive, PTL

\* A login that was cut off while none of its tokens was being refreshed stays
\* cut off.
THEOREM RevokedForGoodCorrect == SessSpec => []RevokedForGood
<1>1. SessInv => RevokedForGood
  <2> SUFFICES ASSUME SessInv, NEW s \in SessionIds, Live(s), NEW l \in session[s].login, l \in cut
               PROVE  FALSE
    BY DEF RevokedForGood
  <2>1. PICK m \in SessionIds : Of(s, m)
    BY DEF SessInv, RowInv, Made, Live
  <2>2. Of(s, l)
    BY <2>1 DEF Of
  <2> QED
    BY <2>2 DEF SessInv, CutInv
<1> QED
  BY <1>1, SessInductive, PTL

\* No refresh begun later than AbsoluteTTL after the login hands out a token.
THEOREM ExpiryCorrect == SessSpec => AuthenticationExpires
<1>1. ASSUME SessInv, NEW r \in Requests, NEW l \in SessionIds, NEW s \in SessionIds,
             req[r].pc = "fetched", req[r].sid = {s}, session[s].login = {l}
      PROVE  req[r].since <= session[l].made + AbsoluteTTL
  <2>1. Made(s) /\ req[r].since <= session[s].abs
    BY <1>1 DEF SessInv, ReqInv, ReqOK, WithRow
  <2>2. PICK m \in SessionIds : Of(s, m) /\ session[s].abs = session[m].made + AbsoluteTTL
    BY <1>1, <2>1 DEF SessInv, RowInv
  <2>3. m = l
    BY <1>1, <2>2 DEF Of
  <2> QED
    BY <2>1, <2>2, <2>3
<1>2. SessInv /\ SessInv' =>
        [\A r \in Requests : \A l \in SessionIds, s \in known' \ known :
            (req[r].pc = "fetched" /\ req[r].sid = {s} /\ session[s].login = {l}) =>
                req[r].since <= session[l].made + AbsoluteTTL]_sessVars
  <2>1. SessInv' => known' \in SUBSET SessionIds
    BY DEF SessInv, SessTypeOK
  <2> QED
    BY <1>1, <2>1
<1> QED
  BY <1>2, SessInductive, PTL DEF SessSpec, AuthenticationExpires

\* A request begun while the account was blocked, which it stayed, hands out no
\* token.
THEOREM BlockedCorrect == SessSpec => BlockedNoDelivery
<1>1. ASSUME SessInv, [SessNext]_sessVars, NEW r \in Requests,
             req[r].blocked # {}, req'[r] = Idle
      PROVE  known' = known
  <2>0. req \in [Requests -> Recs]
    BY <1>1, Types DEF SessInv
  <2>1. ASSUME NEW q \in Requests, DeliverLogin(q) \/ DeliverRefresh(q) PROVE known' = known
    <3>1. req' = [req EXCEPT ![q] = Idle]
      BY <2>1 DEF DeliverLogin, DeliverRefresh, Over
    <3>2. q = r
      BY <1>1, <2>0, <3>1, IdleFacts
    <3>3. ReqOK(r)
      BY <1>1 DEF SessInv, ReqInv
    <3>4. CASE DeliverLogin(q)
      BY <1>1, <3>2, <3>3, <3>4 DEF DeliverLogin, ReqOK
    <3>5. CASE DeliverRefresh(q)
      <4>1. "inactive" \notin req[r].blocked /\ req[r].blocked \subseteq Blocks(account)
        BY <3>2, <3>3, <3>5 DEF DeliverRefresh, ReqOK
      <4>2. req[r].blocked \subseteq {"inactive", "suspended"}
        BY <2>0 DEF Recs
      <4>3. account.deleted \/ account.frozen
        BY <1>1, <4>1, <4>2, UsableBlocks
      <4> QED
        BY <3>5, <4>3 DEF DeliverRefresh
    <3> QED
      BY <2>1, <3>4, <3>5
  <2>2. ASSUME NEW q \in Requests, RequestStep(q) PROVE known' = known
    <3>1. CASE \E s \in SessionIds : IssueSession(q, s) \/ ReadSession(q, s)
      BY <3>1 DEF IssueSession, ReadSession
    <3>2. CASE \E old \in SessionIds, s \in SessionIds : InsertRotated(q, old, s)
      BY <3>2 DEF InsertRotated
    <3>3. CASE Authenticate(q) \/ AuthenticateOther(q) \/ ValidateLogin(q) \/ RequestFails(q)
      BY <3>3 DEF Authenticate, AuthenticateOther, ValidateLogin, RequestFails
    <3>4. CASE BurnFamily(q) \/ RevokeExpired(q) \/ RevokeOld(q) \/ FetchUser(q)
      BY <3>4 DEF BurnFamily, RevokeExpired, RevokeOld, FetchUser
    <3> QED
      BY <2>1, <2>2, <3>1, <3>2, <3>3, <3>4 DEF RequestStep
  <2>3. ASSUME NEW a \in Admins, AccountStep(a) PROVE known' = known
    BY <2>3 DEF AccountStep, FreezeAccount, DeleteAccount, RevocationDue, Sweep, SweepFails
  <2>4. ASSUME NEW s \in SessionIds, RevokeOne(s) PROVE known' = known
    BY <2>4 DEF RevokeOne
  <2>5. CASE UnfreezeAccount \/ RestoreAccount \/ SessTick
             \/ \E b \in BOOLEAN : UpdateUserActiveStatus(b)
    BY <2>5 DEF UnfreezeAccount, RestoreAccount, SessTick, UpdateUserActiveStatus
  <2>6. CASE UNCHANGED sessVars
    BY <2>6 DEF sessVars
  <2> QED
    BY <1>1, <2>2, <2>3, <2>4, <2>5, <2>6 DEF SessNext
<1>2. SessInv /\ [SessNext]_sessVars =>
        [\A r \in Requests :
           (req[r].blocked # {} /\ req'[r] = Idle) => known' = known]_sessVars
  BY <1>1
<1> QED
  BY <1>2, SessInductive, PTL DEF SessSpec, BlockedNoDelivery
=============================================================================
