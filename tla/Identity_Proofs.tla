-------------------------- MODULE Identity_Proofs ---------------------------
(***************************************************************************)
(* Proofs about one-time credentials, permission caches and public links,  *)
(* for any number of clients, checks, administrators, users, visitors,     *)
(* secrets and tokens and any times.                                       *)
(***************************************************************************)
EXTENDS Credentials, PermissionCache, PublicShare, TLAPS

-----------------------------------------------------------------------------
(* One-time credentials: a secret that can still be spent has not been
   accepted, an accepted time step stays recorded, and no account exists
   before an invitation is accepted *)

GuardedKinds == OneStatement \cup GuardedSpend

\* What a secret's state says of the clients that had it accepted.
GrantInv ==
  /\ kind \in GuardedKinds =>
       \A s \in Secrets : secret[s] \in {"unmade", "open"} => granted[s] = {}
  /\ kind = "totp" =>
       \A s \in Secrets : granted[s] # {} => secret[s] = "spent"
  /\ kind = "invitation" /\ signedUp = {} =>
       \A s \in Secrets : granted[s] = {}
  /\ \A c \in Clients : holder[c].pc = "taken" => kind = "callback"

CredInv == CredTypeOK /\ GrantInv /\ RedeemedOnce

\* The client that is away has its type.
LEMMA AwayType ==
  Away \in [pc : {"away", "looked", "taken"}, sec : Nat] /\ Away.pc = "away"
BY DEF Away

\* Nothing is accepted in the initial state.
LEMMA CredInitInv == CredInit => CredInv
<1> SUFFICES ASSUME CredInit PROVE CredInv
  OBVIOUS
<1>1. CredTypeOK
  BY AwayType DEF CredInit, CredTypeOK
<1>2. GrantInv
  BY AwayType DEF CredInit, GrantInv
<1>3. RedeemedOnce
  BY DEF CredInit, RedeemedOnce
<1> QED
  BY <1>1, <1>2, <1>3 DEF CredInv

\* A secret is made, withdrawn, or leaves its grace period: nothing is accepted
\* and no accepted secret becomes spendable.
LEMMA SecretStepInv ==
  ASSUME CredInv, NEW s \in Secrets, Issue(s) \/ Withdraw(s) \/ GraceEnds(s)
  PROVE  CredInv'
<1>1. CASE Issue(s)
  <2>1. secret' = Made(s) /\ UNCHANGED <<kind, grace, signedUp, holder, granted>>
        /\ secret[s] = "unmade"
    BY <1>1 DEF Issue
  <2>2. \A t \in Secrets :
          /\ secret'[t] \in {"unmade", "open", "spent", "void"}
          /\ secret'[t] \in {"unmade", "open"} => secret[t] \in {"unmade", "open"}
          /\ kind = "totp" /\ secret[t] = "spent" => secret'[t] = "spent"
    BY <2>1 DEF Made, Replaces, CredInv, CredTypeOK
  <2>3. CredTypeOK'
    BY <2>1, <2>2 DEF Made, CredInv, CredTypeOK
  <2>4. GrantInv'
    BY <2>1, <2>2 DEF CredInv, GrantInv
  <2>5. RedeemedOnce'
    BY <2>1 DEF CredInv, RedeemedOnce
  <2> QED
    BY <2>3, <2>4, <2>5 DEF CredInv
<1>2. CASE Withdraw(s)
  <2>1. secret' = [secret EXCEPT ![s] = "void"] /\ secret[s] = "open"
        /\ UNCHANGED <<kind, grace, signedUp, holder, granted>>
    BY <1>2 DEF Withdraw
  <2>2. CredTypeOK'
    BY <2>1 DEF CredInv, CredTypeOK
  <2>3. GrantInv'
    BY <2>1 DEF CredInv, CredTypeOK, GrantInv
  <2>4. RedeemedOnce'
    BY <2>1 DEF CredInv, RedeemedOnce
  <2> QED
    BY <2>2, <2>3, <2>4 DEF CredInv
<1>3. CASE GraceEnds(s)
  BY <1>3 DEF GraceEnds, CredInv, CredTypeOK, GrantInv, RedeemedOnce
<1> QED
  BY <1>1, <1>2, <1>3

\* A client moves without a grant.
LEMMA HolderStepInv ==
  ASSUME CredInv, NEW c \in Clients,
         NEW h \in [pc : {"away", "looked", "taken"}, sec : Nat],
         holder' = [holder EXCEPT ![c] = h],
         h.pc = "taken" => kind = "callback",
         UNCHANGED <<kind, grace, signedUp, granted>>,
         \/ UNCHANGED secret
         \/ kind = "callback" /\ \E s \in Secrets : secret' = [secret EXCEPT ![s] = "spent"]
  PROVE  CredInv'
<1>1. CredTypeOK'
  BY DEF CredInv, CredTypeOK
<1>2. GrantInv'
  BY DEF CredInv, CredTypeOK, GrantInv, GuardedKinds, OneStatement, GuardedSpend
<1>3. RedeemedOnce'
  BY DEF CredInv, RedeemedOnce
<1> QED
  BY <1>1, <1>2, <1>3 DEF CredInv

\* A client that looks, takes a callback code, or gives up.
LEMMA LookStepInv ==
  ASSUME CredInv, NEW c \in Clients, NEW s \in Secrets,
         Look(c, s) \/ TakeCode(c, s) \/ GiveUp(c)
  PROVE  CredInv'
<1>0. s \in Nat
  BY SecretsAssumption
<1>1. CASE Look(c, s)
  <2> DEFINE h == [pc |-> "looked", sec |-> s]
  <2>1. h \in [pc : {"away", "looked", "taken"}, sec : Nat] /\ h.pc = "looked"
    BY <1>0
  <2>2. holder' = [holder EXCEPT ![c] = h] /\ UNCHANGED <<kind, secret, grace, signedUp, granted>>
    BY <1>1 DEF Look
  <2> HIDE DEF h
  <2> QED
    BY <2>1, <2>2, HolderStepInv
<1>2. CASE TakeCode(c, s)
  <2> DEFINE h == [pc |-> "taken", sec |-> s]
  <2>1. h \in [pc : {"away", "looked", "taken"}, sec : Nat] /\ h.pc = "taken"
    BY <1>0
  <2>2. holder' = [holder EXCEPT ![c] = h] /\ UNCHANGED <<kind, grace, signedUp, granted>>
        /\ kind = "callback" /\ secret' = [secret EXCEPT ![s] = "spent"]
    BY <1>2 DEF TakeCode, Spent
  <2> HIDE DEF h
  <2> QED
    BY <2>1, <2>2, HolderStepInv
<1>3. CASE GiveUp(c)
  <2>1. holder' = [holder EXCEPT ![c] = Away] /\ UNCHANGED <<kind, secret, grace, signedUp, granted>>
    BY <1>3 DEF GiveUp
  <2> QED
    BY <2>1, AwayType, HolderStepInv
<1> QED
  BY <1>1, <1>2, <1>3

\* What spending does to the states.
LEMMA SpentStates ==
  ASSUME CredTypeOK, NEW s \in Secrets, secret' = Spent(s)
  PROVE  /\ secret' \in [Secrets -> {"unmade", "open", "spent", "void"}]
         /\ \A t \in Secrets : t # s => secret'[t] = secret[t]
         /\ secret'[s] \in {"spent", "void"}
         /\ kind = "totp" => secret'[s] = "spent"
BY DEF CredTypeOK, Spent

\* What a grant does to the clients.
LEMMA Granted ==
  ASSUME CredTypeOK, NEW c \in Clients, NEW s \in Secrets, Grant(c, s)
  PROVE  /\ granted' \in [Secrets -> SUBSET Clients]
         /\ granted'[s] = granted[s] \cup {c}
         /\ \A t \in Secrets : t # s => granted'[t] = granted[t]
         /\ holder' \in [Clients -> [pc : {"away", "looked", "taken"}, sec : Nat]]
         /\ \A d \in Clients : holder'[d].pc = "taken" => holder[d].pc = "taken"
BY AwayType DEF CredTypeOK, Grant

\* A secret of a guarded kind is accepted only while nobody has it.
LEMMA SpendableUngranted ==
  ASSUME CredInv, NEW s \in Secrets, kind \in GuardedKinds,
         secret[s] = "open" \/ (kind \in GuardedSpend /\ SpendGuard(s))
  PROVE  granted[s] = {}
<1>1. CASE secret[s] = "open"
  BY <1>1 DEF CredInv, GrantInv
<1>2. CASE kind = "totp" /\ SpendGuard(s)
  <2>1. \A t \in Secrets : secret[t] = "spent" => t < s
    BY <1>2 DEF SpendGuard, NewStep
  <2>2. secret[s] # "spent"
    BY <2>1, SecretsAssumption
  <2> QED
    BY <1>2, <2>2 DEF CredInv, GrantInv
<1> QED
  BY <1>1, <1>2 DEF SpendGuard

\* A guarded acceptance.
LEMMA GuardedGrantInv ==
  ASSUME CredInv, NEW c \in Clients, NEW s \in Secrets, kind \in GuardedKinds,
         granted[s] = {}, secret' = Spent(s), Grant(c, s), UNCHANGED <<kind, grace, signedUp>>
  PROVE  CredInv'
<1>0. kind # "invitation" /\ kind # "callback"
  BY DEF GuardedKinds, OneStatement, GuardedSpend
<1>1. CredTypeOK'
  BY SpentStates, Granted DEF CredInv, CredTypeOK
<1>2. GrantInv'
  BY <1>0, SpentStates, Granted DEF CredInv, GrantInv
<1>3. RedeemedOnce'
  <2>1. ASSUME NEW t \in Secrets, NEW d \in Clients, NEW e \in Clients, {d, e} \subseteq granted'[t]
        PROVE  d = e
    <3>1. CASE t = s
      BY <3>1, <2>1, Granted DEF CredInv
    <3>2. CASE t # s
      BY <3>2, <2>1, Granted DEF CredInv, RedeemedOnce, GuardedKinds
    <3> QED
      BY <3>1, <3>2
  <2> QED
    BY <1>0, <2>1 DEF RedeemedOnce
<1> QED
  BY <1>1, <1>2, <1>3 DEF CredInv

\* An acceptance of an unguarded kind that is not an invitation.
LEMMA BareGrantInv ==
  ASSUME CredInv, NEW c \in Clients, NEW s \in Secrets,
         kind \in {"verify", "webauthn", "callback"},
         secret' \in [Secrets -> {"unmade", "open", "spent", "void"}],
         grace' \in SUBSET Secrets, Grant(c, s), UNCHANGED <<kind, signedUp>>
  PROVE  CredInv'
<1>0. kind \notin GuardedKinds /\ kind # "invitation" /\ kind # "totp"
  BY DEF GuardedKinds, OneStatement, GuardedSpend
<1>1. CredTypeOK'
  BY Granted DEF CredInv, CredTypeOK
<1>2. GrantInv'
  BY <1>0, Granted DEF CredInv, GrantInv
<1>3. RedeemedOnce'
  BY <1>0 DEF RedeemedOnce, GuardedKinds
<1> QED
  BY <1>1, <1>2, <1>3 DEF CredInv

\* An invitation is claimed.
LEMMA ClaimInv ==
  ASSUME CredInv, NEW c \in Clients, NEW s \in Secrets, ClaimInvitation(c, s)
  PROVE  CredInv'
<1>0. /\ kind = "invitation" /\ kind' = "invitation" /\ signedUp = {} /\ signedUp' = {"user"}
      /\ secret' = Spent(s) /\ Grant(c, s) /\ grace' = grace
  BY DEF ClaimInvitation
<1>1. kind' \notin GuardedKinds /\ kind' # "totp"
  BY <1>0 DEF GuardedKinds, OneStatement, GuardedSpend
<1>2. \A t \in Secrets : granted[t] = {}
  BY <1>0 DEF CredInv, GrantInv
<1>3. CredTypeOK'
  BY <1>0, SpentStates, Granted DEF CredInv, CredTypeOK
<1>4. GrantInv'
  BY <1>0, <1>1, Granted DEF CredInv, GrantInv
<1>5. RedeemedOnce'
  BY <1>0, <1>1, <1>2, Granted DEF CredInv, RedeemedOnce, GuardedKinds
<1> QED
  BY <1>3, <1>4, <1>5 DEF CredInv

\* The grace key of a callback code.
LEMMA GraceStepInv ==
  ASSUME CredInv, NEW c \in Clients, NEW s \in Secrets, KeepGrace(c, s) \/ TakeGrace(c, s)
  PROVE  CredInv'
<1>1. kind = "callback"
  BY DEF KeepGrace, TakeGrace, CredInv, GrantInv
<1>2. secret' \in [Secrets -> {"unmade", "open", "spent", "void"}]
  BY DEF KeepGrace, TakeGrace, CredInv, CredTypeOK
<1>3. grace' \in SUBSET Secrets
  BY DEF KeepGrace, TakeGrace, CredInv, CredTypeOK
<1>4. Grant(c, s) /\ UNCHANGED <<kind, signedUp>>
  BY DEF KeepGrace, TakeGrace
<1> QED
  BY <1>1, <1>2, <1>3, <1>4, BareGrantInv

\* Every step of a redemption keeps the invariant.
LEMMA RedeemInv ==
  ASSUME CredInv, NEW c \in Clients, NEW s \in Secrets, Redeem(c, s)
  PROVE  CredInv'
<1>1. CASE ConsumeAtOnce(c, s)
  <2>1. kind \in GuardedKinds /\ secret[s] = "open" /\ secret' = Spent(s) /\ Grant(c, s)
        /\ UNCHANGED <<kind, grace, signedUp>>
    BY <1>1 DEF ConsumeAtOnce, GuardedKinds
  <2> QED
    BY <2>1, SpendableUngranted, GuardedGrantInv
<1>2. CASE SpendGuarded(c, s)
  <2>1. kind \in GuardedKinds /\ kind \in GuardedSpend /\ SpendGuard(s) /\ secret' = Spent(s)
        /\ Grant(c, s) /\ UNCHANGED <<kind, grace, signedUp>>
    BY <1>2 DEF SpendGuarded, GuardedKinds
  <2> QED
    BY <2>1, SpendableUngranted, GuardedGrantInv
<1>3. CASE SpendBare(c, s)
  <2>1. kind \in {"verify", "webauthn", "callback"} /\ secret' = Spent(s) /\ Grant(c, s)
        /\ UNCHANGED <<kind, grace, signedUp>> /\ grace' \in SUBSET Secrets
    BY <1>3 DEF SpendBare, CredInv, CredTypeOK
  <2>2. secret' \in [Secrets -> {"unmade", "open", "spent", "void"}]
    BY <2>1, SpentStates DEF CredInv
  <2> QED
    BY <2>1, <2>2, BareGrantInv
<1> QED
  BY <1>1, <1>2, <1>3, LookStepInv, ClaimInv, GraceStepInv DEF Redeem

\* Every step keeps the invariant.
LEMMA CredNextInv == CredInv /\ [CredNext]_credVars => CredInv'
<1> SUFFICES ASSUME CredInv, [CredNext]_credVars PROVE CredInv'
  OBVIOUS
<1>1. CASE UNCHANGED credVars
  BY <1>1 DEF credVars, CredInv, CredTypeOK, GrantInv, RedeemedOnce
<1>2. ASSUME NEW c \in Clients, GiveUp(c) PROVE CredInv'
  <2>1. holder' = [holder EXCEPT ![c] = Away] /\ UNCHANGED <<kind, secret, grace, signedUp, granted>>
    BY <1>2 DEF GiveUp
  <2> QED
    BY <2>1, AwayType, HolderStepInv
<1> QED
  BY <1>1, <1>2, SecretStepInv, RedeemInv DEF CredNext

\* The invariant holds of every reachable state.
LEMMA CredInductive == CredSpec => []CredInv
BY CredInitInv, CredNextInv, PTL DEF CredSpec

-----------------------------------------------------------------------------
\* Type correctness.
THEOREM CredTypeCorrect == CredSpec => []CredTypeOK
<1>1. CredInv => CredTypeOK
  BY DEF CredInv
<1> QED
  BY <1>1, CredInductive, PTL

\* No secret of a guarded kind is accepted twice and no invitation makes two
\* accounts, for any number of clients that redeem at once.
THEOREM RedeemedOnceCorrect == CredSpec => []RedeemedOnce
<1>1. CredInv => RedeemedOnce
  BY DEF CredInv
<1> QED
  BY <1>1, CredInductive, PTL

\* Which step accepts a secret of a guarded kind, and what it found.
LEMMA AcceptedBy ==
  ASSUME CredInv, [CredNext]_credVars, kind \in GuardedKinds, NEW s \in Secrets,
         granted'[s] # granted[s]
  PROVE  \/ kind \in OneStatement /\ secret[s] = "open"
         \/ kind \in GuardedSpend /\ SpendGuard(s)
<1>1. kind \notin {"verify", "webauthn", "callback", "invitation"}
  BY DEF GuardedKinds, OneStatement, GuardedSpend
<1>2. \A c \in Clients : holder[c].pc # "taken"
  BY <1>1 DEF CredInv, GrantInv
<1>3. PICK c \in Clients, t \in Secrets : Redeem(c, t) /\ granted' # granted
  BY DEF CredNext, credVars, Issue, Withdraw, GraceEnds, GiveUp
<1>4. ConsumeAtOnce(c, t) \/ SpendGuarded(c, t)
  BY <1>1, <1>2, <1>3 DEF Redeem, Look, SpendBare, ClaimInvitation, TakeCode, KeepGrace, TakeGrace
<1>5. Grant(c, t)
  BY <1>4 DEF ConsumeAtOnce, SpendGuarded
<1>6. t = s
  BY <1>5, Granted DEF CredInv
<1> QED
  BY <1>4, <1>6 DEF ConsumeAtOnce, SpendGuarded

\* A replaced or withdrawn secret of a guarded kind is never accepted.
THEOREM VoidRefusedCorrect == CredSpec => VoidIsRefused
<1>1. ASSUME CredInv, [CredNext]_credVars, NEW s \in Secrets,
             kind \in (OneStatement \cup GuardedSpend) \ {"totp"}, secret[s] = "void"
      PROVE  granted'[s] = granted[s]
  BY <1>1, AcceptedBy DEF GuardedKinds, SpendGuard
<1>2. CredInv /\ [CredNext]_credVars =>
        [\A s \in Secrets :
           (kind \in (OneStatement \cup GuardedSpend) \ {"totp"} /\ secret[s] = "void")
               => granted'[s] = granted[s]]_credVars
  BY <1>1
<1> QED
  BY <1>2, CredInductive, PTL DEF CredSpec, VoidIsRefused

\* The accepted time steps only go up.
THEOREM TotpMonotoneCorrect == CredSpec => TotpMonotone
<1>1. ASSUME CredInv, [CredNext]_credVars, NEW s \in Secrets, NEW t \in Secrets,
             kind = "totp", granted'[s] # granted[s], granted[t] # {}
      PROVE  t < s
  <2>1. kind \in GuardedKinds /\ kind \notin OneStatement
    BY <1>1 DEF GuardedKinds, OneStatement, GuardedSpend
  <2>2. secret[t] = "spent"
    BY <1>1 DEF CredInv, GrantInv
  <2>3. SpendGuard(s)
    BY <1>1, <2>1, AcceptedBy
  <2> QED
    BY <1>1, <2>2, <2>3 DEF SpendGuard, NewStep
<1>2. CredInv /\ [CredNext]_credVars =>
        [\A s, t \in Secrets :
           (kind = "totp" /\ granted'[s] # granted[s] /\ granted[t] # {}) => t < s]_credVars
  BY <1>1
<1> QED
  BY <1>2, CredInductive, PTL DEF CredSpec, TotpMonotone

\* A secret of a guarded kind that was refused once stays refused, for any
\* secrets and clients.
THEOREM RefusedForGoodCorrect == CredSpec => RefusedForGood
BY VoidRefusedCorrect, TotpMonotoneCorrect DEF RefusedForGood

-----------------------------------------------------------------------------
(* Permissions: an answer that allows was true at a moment whose distance from
   every stamp the answer carries on its way (the start of the call, the entry
   of the auth service, the entry of the API service) is bounded, and nothing
   stamps it anew but another call *)

Records ==
  [pc : {"idle", "called", "super", "global", "workspace", "store", "answered",
         "granted", "denied"},
   since : 0..PermHorizon, allowed : BOOLEAN]

\* Where a call to the auth service is.
Calls == {"called", "super", "global", "workspace", "store", "answered"}

\* The permission is held now, or was last held then.
TimeInv == lastHeld <= clock /\ (Held => lastHeld = clock)

\* An entry of the auth service that allows was true at most one call before
\* its stamp.
AuthOK(e) == e.allowed = TRUE => 0 <= lastHeld /\ e.at <= lastHeld + HTTPTimeout

\* An entry of the API service: two calls and the auth service's time to live.
APIOK(e) == e.allowed = TRUE => 0 <= lastHeld /\ e.at < lastHeld + AuthTTL + 2 * HTTPTimeout

\* A call and what it has read.
CheckOK(c) ==
  /\ c.pc \in Calls => c.since <= clock /\ clock <= c.since + HTTPTimeout
  /\ c.pc = "store" /\ c.allowed = TRUE => c.since <= lastHeld
  /\ c.pc = "answered" /\ c.allowed = TRUE =>
       0 <= lastHeld /\ c.since < lastHeld + AuthTTL + HTTPTimeout

PermInv ==
  /\ CheckTypeOK
  /\ TimeInv
  /\ \A e \in authCache : AuthOK(e)
  /\ \A e \in apiCache : APIOK(e)
  /\ \A r \in Checks : CheckOK(check[r])

\* The times are numbers.
LEMMA TimeTypes ==
  ASSUME CheckTypeOK
  PROVE  /\ clock \in Nat /\ lastHeld \in Int /\ PermHorizon \in Nat
         /\ AuthTTL \in Nat \ {0} /\ APITTL \in Nat \ {0} /\ HTTPTimeout \in Nat
         /\ \A r \in Checks : check[r] \in Records /\ check[r].since \in Nat
         /\ \A e \in authCache : e \in Entry /\ e.at \in Nat
         /\ \A e \in apiCache : e \in Entry /\ e.at \in Nat
<1>1. clock \in Nat /\ lastHeld \in Int /\ PermHorizon \in Nat
      /\ AuthTTL \in Nat \ {0} /\ APITTL \in Nat \ {0} /\ HTTPTimeout \in Nat
  BY PermAssumption DEF CheckTypeOK
<1>2. \A r \in Checks : check[r] \in Records
  BY DEF CheckTypeOK, Records
<1>3. \A c \in Records : c.since \in Nat
  BY <1>1 DEF Records
<1>4. \A e \in Entry : e.at \in Nat
  BY <1>1 DEF Entry
<1> QED
  BY <1>1, <1>2, <1>3, <1>4 DEF CheckTypeOK

\* An idle check has its type and owes nothing.
LEMMA NoCheckFacts == NoCheck \in Records /\ CheckOK(NoCheck)
BY PermAssumption DEF NoCheck, Records, CheckOK, Calls

\* Nothing is cached at first.
LEMMA PermInitInv == PermInit => PermInv
<1> SUFFICES ASSUME PermInit PROVE PermInv
  OBVIOUS
<1>1. check = [r \in Checks |-> NoCheck] /\ authCache = {} /\ apiCache = {} /\ clock = 0
  BY DEF PermInit
<1>2. lastHeld = IF Held THEN 0 ELSE -1
  BY DEF PermInit
<1>3. lastHeld \in -1..PermHorizon /\ clock \in 0..PermHorizon
  BY <1>1, <1>2, PermAssumption
<1>4. super \in BOOLEAN /\ holds \in BOOLEAN /\ gives \in BOOLEAN /\ member \in BOOLEAN
      /\ roleAdmin \in [RoleAdmins -> {"idle", "written"}]
  BY DEF PermInit
<1>5. CheckTypeOK
  BY <1>1, <1>3, <1>4, NoCheckFacts DEF CheckTypeOK, Records
<1>6. TimeInv
  BY <1>1, <1>2 DEF TimeInv
<1> QED
  BY <1>1, <1>5, <1>6, NoCheckFacts DEF PermInv

\* A step of a check that leaves the tables and the clock alone.
LEMMA CheckMoves ==
  ASSUME PermInv, NEW r \in Checks, NEW c \in Records, CheckOK(c),
         check' = [check EXCEPT ![r] = c],
         authCache' \in SUBSET Entry, \A e \in authCache' : AuthOK(e),
         apiCache' \in SUBSET Entry, \A e \in apiCache' : APIOK(e),
         UNCHANGED <<tables, roleAdmin, clock, lastHeld>>
  PROVE  PermInv'
<1>1. CheckTypeOK'
  BY DEF PermInv, CheckTypeOK, Records, tables
<1>2. TimeInv'
  BY DEF PermInv, TimeInv, Held, tables
<1>3. \A q \in Checks : CheckOK(check'[q])
  BY DEF PermInv, CheckTypeOK
<1>4. (\A q \in Checks : CheckOK(check[q]))'
  BY <1>3 DEF CheckOK, tables
<1>5. (\A e \in authCache : AuthOK(e))' /\ (\A e \in apiCache : APIOK(e))'
  BY DEF AuthOK, APIOK
<1> QED
  BY <1>1, <1>2, <1>4, <1>5 DEF PermInv

\* A fresh entry of the API service that allows.
LEMMA FreshAPI ==
  ASSUME PermInv, NEW e \in FreshEntries(apiCache, APITTL)
  PROVE  /\ e \in apiCache /\ e.allowed \in BOOLEAN
         /\ e.allowed = TRUE =>
              0 <= lastHeld /\ clock < lastHeld + AuthTTL + APITTL + 2 * HTTPTimeout
<1>1. e \in apiCache /\ clock - e.at < APITTL
  BY DEF FreshEntries
<1>2. APIOK(e) /\ e \in Entry
  BY <1>1, TimeTypes DEF PermInv
<1>3. e.allowed \in BOOLEAN
  BY <1>2 DEF Entry
<1> QED
  BY <1>1, <1>2, <1>3, TimeTypes DEF APIOK, PermInv

\* A decided check owes nothing.
LEMMA DecidedFacts ==
  ASSUME NEW b \in BOOLEAN
  PROVE  LET c == [pc |-> IF b THEN "granted" ELSE "denied", since |-> 0, allowed |-> b] IN
         c \in Records /\ CheckOK(c)
BY PermAssumption DEF Records, CheckOK, Calls

\* The API service looks into its cache.
LEMMA APILookupInv ==
  ASSUME PermInv, NEW r \in Checks, APILookup(r)
  PROVE  PermInv'
<1>0. UNCHANGED <<tables, authCache, apiCache, roleAdmin, clock, lastHeld>>
      /\ authCache \in SUBSET Entry /\ apiCache \in SUBSET Entry
      /\ (\A e \in authCache : AuthOK(e)) /\ (\A e \in apiCache : APIOK(e))
  BY DEF APILookup, PermInv, CheckTypeOK
<1>1. ASSUME NEW e \in FreshEntries(apiCache, APITTL), Decide(r, e.allowed) PROVE PermInv'
  <2> DEFINE b == e.allowed
             c == [pc |-> IF b THEN "granted" ELSE "denied", since |-> 0, allowed |-> b]
  <2>1. b \in BOOLEAN
    BY FreshAPI
  <2>2. check' = [check EXCEPT ![r] = c]
    BY <1>1 DEF Decide
  <2> HIDE DEF b
  <2>3. c \in Records /\ CheckOK(c)
    BY <2>1, DecidedFacts
  <2> HIDE DEF c
  <2> QED
    BY <1>0, <2>2, <2>3, CheckMoves
<1>2. CASE check' = [check EXCEPT ![r] = [pc |-> "called", since |-> clock, allowed |-> FALSE]]
  <2> DEFINE c == [pc |-> "called", since |-> clock, allowed |-> FALSE]
  <2>1. c \in Records
    BY DEF Records, PermInv, CheckTypeOK
  <2>2. CheckOK(c)
    BY TimeTypes DEF CheckOK, PermInv
  <2>3. check' = [check EXCEPT ![r] = c]
    BY <1>2
  <2> HIDE DEF c
  <2> QED
    BY <1>0, <2>1, <2>2, <2>3, CheckMoves
<1> QED
  BY <1>1, <1>2 DEF APILookup

\* A token that claims super_admin is let through.
LEMMA BypassInv ==
  ASSUME PermInv, NEW r \in Checks, SuperAdminBypass(r)
  PROVE  PermInv'
<1> DEFINE c == [pc |-> "granted", since |-> 0, allowed |-> TRUE]
<1>1. check' = [check EXCEPT ![r] = c]
      /\ UNCHANGED <<tables, authCache, apiCache, roleAdmin, clock, lastHeld>>
  BY DEF SuperAdminBypass, Decide
<1>2. c \in Records /\ CheckOK(c)
  BY DecidedFacts
<1>3. authCache' \in SUBSET Entry /\ (\A e \in authCache' : AuthOK(e))
      /\ apiCache' \in SUBSET Entry /\ (\A e \in apiCache' : APIOK(e))
  BY <1>1 DEF PermInv, CheckTypeOK
<1> HIDE DEF c
<1> QED
  BY <1>1, <1>2, <1>3, CheckMoves

\* A call goes on to pc with what it has read.
LEMMA CallMoves ==
  ASSUME PermInv, NEW r \in Checks, check[r].pc \in Calls,
         NEW pc \in Calls, NEW b \in BOOLEAN, CheckAt(r, pc, b),
         pc = "store" /\ b = TRUE => check[r].since <= lastHeld,
         pc = "answered" /\ b = TRUE =>
           0 <= lastHeld /\ check[r].since < lastHeld + AuthTTL + HTTPTimeout,
         authCache' \in SUBSET Entry, \A e \in authCache' : AuthOK(e),
         UNCHANGED <<tables, apiCache, roleAdmin, clock, lastHeld>>
  PROVE  PermInv'
<1> DEFINE c == [pc |-> pc, since |-> check[r].since, allowed |-> b]
<1>1. check' = [check EXCEPT ![r] = c]
  BY DEF CheckAt
<1>2. c \in Records
  BY DEF Calls, Records, PermInv, CheckTypeOK
<1>3. check[r].since <= clock /\ clock <= check[r].since + HTTPTimeout
  BY DEF PermInv, CheckOK
<1>4. CheckOK(c)
  BY <1>3 DEF CheckOK
<1>5. apiCache' \in SUBSET Entry /\ \A e \in apiCache' : APIOK(e)
  BY DEF PermInv, CheckTypeOK
<1> HIDE DEF c
<1> QED
  BY <1>1, <1>2, <1>4, <1>5, CheckMoves

\* The auth service looks into its cache.
LEMMA AuthLookupInv ==
  ASSUME PermInv, NEW r \in Checks, AuthLookup(r)
  PROVE  PermInv'
<1>0. check[r].pc \in Calls /\ UNCHANGED <<tables, authCache, apiCache, roleAdmin, clock, lastHeld>>
      /\ authCache' \in SUBSET Entry /\ \A e \in authCache' : AuthOK(e)
  BY DEF AuthLookup, PermInv, CheckTypeOK, Calls
<1>1. ASSUME NEW e \in FreshEntries(authCache, AuthTTL), CheckAt(r, "answered", e.allowed)
      PROVE  PermInv'
  <2>1. e \in authCache /\ clock - e.at < AuthTTL
    BY DEF FreshEntries
  <2>2. AuthOK(e) /\ e \in Entry
    BY <2>1, TimeTypes DEF PermInv
  <2>3. e.allowed \in BOOLEAN
    BY <2>2 DEF Entry
  <2>4. check[r].since <= clock
    BY <1>0 DEF PermInv, CheckOK
  <2>5. e.allowed = TRUE => 0 <= lastHeld /\ check[r].since < lastHeld + AuthTTL + HTTPTimeout
    BY <2>1, <2>2, <2>4, TimeTypes DEF AuthOK, PermInv
  <2> QED
    BY <1>0, <1>1, <2>3, <2>5, CallMoves DEF Calls
<1>2. CASE CheckAt(r, "super", FALSE)
  BY <1>0, <1>2, CallMoves DEF Calls
<1> QED
  BY <1>1, <1>2 DEF AuthLookup

\* A table is read.  A read that finds the permission finds it held.
LEMMA FoundInv ==
  ASSUME PermInv, NEW r \in Checks, check[r].pc \in Calls,
         NEW yes \in BOOLEAN, yes = TRUE => Held,
         NEW next \in {"global", "workspace", "store"}, Found(r, yes, next),
         UNCHANGED <<tables, authCache, apiCache, roleAdmin, clock, lastHeld>>
  PROVE  PermInv'
<1>1. yes = TRUE => check[r].since <= lastHeld
  BY TimeTypes DEF PermInv, TimeInv, CheckOK
<1>2. authCache' \in SUBSET Entry /\ \A e \in authCache' : AuthOK(e)
  BY DEF PermInv, CheckTypeOK
<1>3. CASE yes = TRUE
  BY <1>1, <1>2, <1>3, CallMoves DEF Found, Calls
<1>4. CASE yes = FALSE
  BY <1>2, <1>4, CallMoves DEF Found, Calls
<1> QED
  BY <1>3, <1>4

\* The three reads.
LEMMA ReadInv ==
  ASSUME PermInv, NEW r \in Checks, ReadSuper(r) \/ ReadGlobal(r) \/ ReadWorkspace(r)
  PROVE  PermInv'
<1>0. super \in BOOLEAN /\ (holds /\ gives) \in BOOLEAN /\ member \in BOOLEAN
  BY DEF PermInv, CheckTypeOK
<1>1. CASE ReadSuper(r)
  <2>1. check[r].pc \in Calls /\ Found(r, super, "global")
        /\ UNCHANGED <<tables, authCache, apiCache, roleAdmin, clock, lastHeld>>
    BY <1>1 DEF ReadSuper, Calls
  <2>2. super = TRUE => Held
    BY DEF Held
  <2> QED
    BY <1>0, <2>1, <2>2, FoundInv
<1>2. CASE ReadGlobal(r)
  <2>1. check[r].pc \in Calls /\ Found(r, holds /\ gives, "workspace")
        /\ UNCHANGED <<tables, authCache, apiCache, roleAdmin, clock, lastHeld>>
    BY <1>2 DEF ReadGlobal, Calls
  <2>2. (holds /\ gives) = TRUE => Held
    BY DEF Held
  <2> DEFINE yes == holds /\ gives
  <2>3. yes \in BOOLEAN /\ (yes = TRUE => Held) /\ Found(r, yes, "workspace")
    BY <1>0, <2>1, <2>2
  <2> HIDE DEF yes
  <2> QED
    BY <2>1, <2>3, FoundInv
<1>3. CASE ReadWorkspace(r)
  <2>1. check[r].pc \in Calls /\ Found(r, member, "store")
        /\ UNCHANGED <<tables, authCache, apiCache, roleAdmin, clock, lastHeld>>
    BY <1>3 DEF ReadWorkspace, Calls
  <2>2. member = TRUE => Held
    BY DEF Held
  <2> QED
    BY <1>0, <2>1, <2>2, FoundInv
<1> QED
  BY <1>1, <1>2, <1>3

\* The auth service keeps what it read.
LEMMA StoreInv ==
  ASSUME PermInv, NEW r \in Checks, StoreCheckResult(r)
  PROVE  PermInv'
<1> DEFINE b == check[r].allowed
           e == [allowed |-> b, at |-> clock]
<1>1. check[r].pc = "store" /\ authCache' = {e} /\ CheckAt(r, "answered", b)
      /\ UNCHANGED <<tables, apiCache, roleAdmin, clock, lastHeld>>
  BY DEF StoreCheckResult
<1>2. b \in BOOLEAN
  BY DEF PermInv, CheckTypeOK
<1>3. e \in Entry
  BY <1>2 DEF Entry, PermInv, CheckTypeOK
<1>4. b = TRUE => check[r].since <= lastHeld
  BY <1>1 DEF PermInv, CheckOK
<1>5. check[r].since <= clock /\ clock <= check[r].since + HTTPTimeout
  BY <1>1 DEF PermInv, CheckOK, Calls
<1>6. AuthOK(e)
  BY <1>4, <1>5, TimeTypes DEF AuthOK, PermInv
<1>7. b = TRUE => 0 <= lastHeld /\ check[r].since < lastHeld + AuthTTL + HTTPTimeout
  BY <1>4, TimeTypes DEF PermInv
<1>8. check[r].pc \in Calls /\ "answered" \in Calls
  BY <1>1 DEF Calls
<1>9. authCache' \in SUBSET Entry /\ \A x \in authCache' : AuthOK(x)
  BY <1>1, <1>3, <1>6
<1> HIDE DEF b, e
<1> QED
  BY <1>1, <1>2, <1>7, <1>8, <1>9, CallMoves

\* An answer that allows, when it arrives.
LEMMA AnswerFacts ==
  ASSUME PermInv, NEW r \in Checks, check[r].pc = "answered"
  PROVE  /\ check[r].allowed \in BOOLEAN
         /\ check[r].allowed = TRUE =>
              0 <= lastHeld /\ clock < lastHeld + AuthTTL + 2 * HTTPTimeout
<1>1. check[r].allowed \in BOOLEAN
  BY DEF PermInv, CheckTypeOK
<1>2. clock <= check[r].since + HTTPTimeout
  BY DEF PermInv, CheckOK, Calls
<1>3. check[r].allowed = TRUE => 0 <= lastHeld /\ check[r].since < lastHeld + AuthTTL + HTTPTimeout
  BY DEF PermInv, CheckOK
<1> QED
  BY <1>1, <1>2, <1>3, TimeTypes DEF PermInv

\* The answer arrives at the API service.
LEMMA AnswerInv ==
  ASSUME PermInv, NEW r \in Checks, Answer(r)
  PROVE  PermInv'
<1> DEFINE b == check[r].allowed
           e == [allowed |-> b, at |-> clock]
           c == [pc |-> IF b THEN "granted" ELSE "denied", since |-> 0, allowed |-> b]
<1>1. check[r].pc = "answered" /\ apiCache' = {e} /\ check' = [check EXCEPT ![r] = c]
      /\ UNCHANGED <<tables, authCache, roleAdmin, clock, lastHeld>>
  BY DEF Answer, Decide
<1>2. b \in BOOLEAN /\ (b = TRUE => 0 <= lastHeld /\ clock < lastHeld + AuthTTL + 2 * HTTPTimeout)
  BY <1>1, AnswerFacts
<1> HIDE DEF b
<1>3. e \in Entry /\ APIOK(e)
  BY <1>2 DEF Entry, APIOK, PermInv, CheckTypeOK
<1>4. c \in Records /\ CheckOK(c)
  BY <1>2, DecidedFacts
<1>5. authCache' \in SUBSET Entry /\ \A x \in authCache' : AuthOK(x)
  BY <1>1 DEF PermInv, CheckTypeOK
<1>6. apiCache' \in SUBSET Entry /\ \A x \in apiCache' : APIOK(x)
  BY <1>1, <1>3
<1> HIDE DEF c, e
<1> QED
  BY <1>1, <1>4, <1>5, <1>6, CheckMoves

\* The call fails, or the request is over.
LEMMA EndInv ==
  ASSUME PermInv, NEW r \in Checks, CallFails(r) \/ Finish(r)
  PROVE  PermInv'
<1>1. check' = [check EXCEPT ![r] = NoCheck]
      /\ UNCHANGED <<tables, authCache, apiCache, roleAdmin, clock, lastHeld>>
  BY DEF CallFails, Finish
<1>2. authCache' \in SUBSET Entry /\ (\A e \in authCache' : AuthOK(e))
      /\ apiCache' \in SUBSET Entry /\ (\A e \in apiCache' : APIOK(e))
  BY <1>1 DEF PermInv, CheckTypeOK
<1> QED
  BY <1>1, <1>2, NoCheckFacts, CheckMoves

\* Time or the tables move: what was last held moves forward only.
LEMMA TimeMoves ==
  ASSUME PermInv, lastHeld' \in -1..PermHorizon, clock' \in 0..PermHorizon,
         lastHeld <= lastHeld', TimeInv', clock <= clock',
         \A r \in Checks : check[r].pc \in Calls => clock' <= check[r].since + HTTPTimeout,
         super' \in BOOLEAN, holds' \in BOOLEAN, gives' \in BOOLEAN, member' \in BOOLEAN,
         roleAdmin' \in [RoleAdmins -> {"idle", "written"}],
         UNCHANGED check, authCache' \in SUBSET authCache, apiCache' \in SUBSET apiCache
  PROVE  PermInv'
<1>0. lastHeld' \in Int /\ clock' \in Int
  BY PermAssumption
<1>1. CheckTypeOK'
  BY DEF PermInv, CheckTypeOK
<1>2. \A e \in authCache' : e \in authCache /\ AuthOK(e) /\ e.at \in Nat
  BY TimeTypes DEF PermInv
<1>3. (\A e \in authCache : AuthOK(e))'
  BY <1>0, <1>2, TimeTypes DEF AuthOK, PermInv
<1>4. (\A e \in apiCache : APIOK(e))'
  <2>1. \A e \in apiCache' : e \in apiCache /\ APIOK(e) /\ e.at \in Nat
    BY TimeTypes DEF PermInv
  <2> QED
    BY <1>0, <2>1, TimeTypes DEF APIOK, PermInv
<1>5. (\A r \in Checks : CheckOK(check[r]))'
  BY <1>0, TimeTypes DEF CheckOK, PermInv
<1> QED
  BY <1>1, <1>3, <1>4, <1>5 DEF PermInv

\* A call under way is within the timeout.
LEMMA CallsTimely ==
  ASSUME PermInv
  PROVE  \A r \in Checks : check[r].pc \in Calls => clock <= check[r].since + HTTPTimeout
BY DEF PermInv, CheckOK

\* An administrator writes the tables.
LEMMA TableWriteInv ==
  ASSUME PermInv, Remember, UNCHANGED <<authCache, apiCache, check, clock>>,
         super' \in BOOLEAN, holds' \in BOOLEAN, gives' \in BOOLEAN, member' \in BOOLEAN,
         roleAdmin' \in [RoleAdmins -> {"idle", "written"}]
  PROVE  PermInv'
<1>1. lastHeld <= clock /\ lastHeld \in Int /\ clock \in Nat
  BY TimeTypes DEF PermInv, TimeInv
<1>2. /\ lastHeld' \in -1..PermHorizon /\ clock' \in 0..PermHorizon
      /\ lastHeld <= lastHeld' /\ lastHeld' <= clock' /\ clock <= clock'
  BY <1>1, PermAssumption DEF Remember, PermInv, CheckTypeOK
<1>3. TimeInv'
  BY <1>2 DEF TimeInv, Remember
<1> QED
  BY <1>2, <1>3, CallsTimely, TimeMoves

\* Roles, memberships, the invalidation and the clock.
LEMMA OtherInv ==
  ASSUME PermInv,
         (\E a \in RoleAdmins : WriteRole(a) \/ InvalidateCheck(a)) \/ ChangeMembership \/ Evict
           \/ Tick
  PROVE  PermInv'
<1>0. super \in BOOLEAN /\ holds \in BOOLEAN /\ gives \in BOOLEAN /\ member \in BOOLEAN
      /\ roleAdmin \in [RoleAdmins -> {"idle", "written"}]
  BY DEF PermInv, CheckTypeOK
<1>1. ASSUME NEW a \in RoleAdmins, WriteRole(a) PROVE PermInv'
  <2>1. super' \in BOOLEAN /\ holds' \in BOOLEAN /\ gives' \in BOOLEAN /\ member' \in BOOLEAN
    BY <1>0, <1>1 DEF WriteRole
  <2>2. roleAdmin' \in [RoleAdmins -> {"idle", "written"}]
    BY <1>0, <1>1 DEF WriteRole
  <2>3. Remember /\ UNCHANGED <<authCache, apiCache, check, clock>>
    BY <1>1 DEF WriteRole
  <2> QED
    BY <2>1, <2>2, <2>3, TableWriteInv
<1>2. CASE ChangeMembership
  <2>1. super' \in BOOLEAN /\ holds' \in BOOLEAN /\ gives' \in BOOLEAN /\ member' \in BOOLEAN
    BY <1>0, <1>2 DEF ChangeMembership
  <2>2. Remember /\ UNCHANGED <<authCache, apiCache, check, clock, roleAdmin>>
    BY <1>2 DEF ChangeMembership
  <2> QED
    BY <1>0, <2>1, <2>2, TableWriteInv
<1>3. ASSUME NEW a \in RoleAdmins, InvalidateCheck(a) PROVE PermInv'
  <2>1. roleAdmin' \in [RoleAdmins -> {"idle", "written"}]
    BY <1>0, <1>3 DEF InvalidateCheck
  <2>2. UNCHANGED <<tables, apiCache, check, clock, lastHeld>> /\ authCache' = {}
    BY <1>3 DEF InvalidateCheck
  <2>3. lastHeld' \in -1..PermHorizon /\ clock' \in 0..PermHorizon
        /\ lastHeld <= lastHeld' /\ clock <= clock'
    BY <2>2, TimeTypes DEF PermInv, CheckTypeOK
  <2>4. TimeInv'
    BY <2>2 DEF PermInv, TimeInv, Held, tables
  <2>5. super' \in BOOLEAN /\ holds' \in BOOLEAN /\ gives' \in BOOLEAN /\ member' \in BOOLEAN
    BY <1>0, <2>2 DEF tables
  <2> QED
    BY <2>1, <2>2, <2>3, <2>4, <2>5, CallsTimely, TimeMoves
<1>4. CASE Tick
  <2>1. UNCHANGED <<tables, authCache, apiCache, check, roleAdmin>> /\ clock' = clock + 1
        /\ clock < PermHorizon /\ lastHeld' = IF Held THEN clock + 1 ELSE lastHeld
    BY <1>4 DEF Tick
  <2>2. lastHeld' \in -1..PermHorizon /\ clock' \in 0..PermHorizon
        /\ lastHeld <= lastHeld' /\ clock <= clock' /\ lastHeld' <= clock'
    BY <2>1, TimeTypes DEF PermInv, CheckTypeOK, TimeInv
  <2>3. TimeInv'
    BY <2>1, <2>2 DEF TimeInv, Held, tables
  <2>4. \A r \in Checks : check[r].pc \in Calls => clock' <= check[r].since + HTTPTimeout
    BY <1>4, <2>1, TimeTypes DEF Tick, InCall, Calls, PermInv
  <2>5. super' \in BOOLEAN /\ holds' \in BOOLEAN /\ gives' \in BOOLEAN /\ member' \in BOOLEAN
        /\ roleAdmin' \in [RoleAdmins -> {"idle", "written"}]
    BY <1>0, <2>1 DEF tables
  <2>6. UNCHANGED check /\ authCache' \in SUBSET authCache /\ apiCache' \in SUBSET apiCache
    BY <2>1
  <2> QED
    BY <2>2, <2>3, <2>4, <2>5, <2>6, TimeMoves
<1>5. CASE Evict
  <2>1. UNCHANGED <<tables, authCache, check, roleAdmin, clock, lastHeld>> /\ apiCache' = {}
    BY <1>5 DEF Evict
  <2>2. lastHeld' \in -1..PermHorizon /\ clock' \in 0..PermHorizon
        /\ lastHeld <= lastHeld' /\ clock <= clock'
    BY <2>1, TimeTypes DEF PermInv, CheckTypeOK
  <2>3. TimeInv'
    BY <2>1 DEF PermInv, TimeInv, Held, tables
  <2>4. super' \in BOOLEAN /\ holds' \in BOOLEAN /\ gives' \in BOOLEAN /\ member' \in BOOLEAN
        /\ roleAdmin' \in [RoleAdmins -> {"idle", "written"}]
    BY <1>0, <2>1 DEF tables
  <2> QED
    BY <2>1, <2>2, <2>3, <2>4, CallsTimely, TimeMoves
<1> QED
  BY <1>1, <1>2, <1>3, <1>4, <1>5

\* Every step keeps the invariant.
LEMMA PermNextInv == PermInv /\ [PermNext]_permVars => PermInv'
<1> SUFFICES ASSUME PermInv, [PermNext]_permVars PROVE PermInv'
  OBVIOUS
<1>1. ASSUME UNCHANGED <<super, holds, gives, member, authCache, apiCache, check, roleAdmin,
                         clock, lastHeld>>
      PROVE  PermInv'
  BY <1>1 DEF PermInv, CheckTypeOK, TimeInv, Held, AuthOK, APIOK, CheckOK
<1>2. ASSUME NEW r \in Checks, CheckStep(r) PROVE PermInv'
  BY <1>2, BypassInv, APILookupInv, AuthLookupInv, ReadInv, StoreInv, AnswerInv, EndInv
  DEF CheckStep
<1>3. CASE ReadRoles \/ SignToken
  BY <1>1, <1>3 DEF ReadRoles, SignToken, tables
<1>4. CASE UNCHANGED permVars
  BY <1>1, <1>4 DEF permVars
<1> QED
  BY <1>2, <1>3, <1>4, OtherInv DEF PermNext

\* A token in the client's hands was signed from roles that held super_admin at
\* most the server's write timeout before.
SuperClaimInv ==
  /\ ClaimTypeOK
  /\ \A m \in rolesRead : m <= lastHeld
  /\ \A t \in token : 0 <= lastHeld /\ t <= lastHeld + WriteTimeout

\* The last tick at which the permission was held only moves forward.
LEMMA LastHeldGrows ==
  ASSUME PermInv, [PermNext]_permVars
  PROVE  lastHeld' \in Int /\ lastHeld <= lastHeld'
<1>1. lastHeld \in Int /\ clock \in Nat /\ lastHeld <= clock
  BY TimeTypes DEF PermInv, TimeInv
<1>2. lastHeld' = lastHeld \/ lastHeld' = clock \/ lastHeld' = clock + 1
  BY DEF PermNext, permVars, CheckStep, SuperAdminBypass, APILookup, AuthLookup, ReadSuper,
         ReadGlobal, ReadWorkspace, StoreCheckResult, Answer, CallFails, Finish, WriteRole,
         Remember, InvalidateCheck, ChangeMembership, ReadRoles, SignToken, Evict, Tick
<1> QED
  BY <1>1, <1>2

\* Every step keeps what is known of the tokens.
LEMMA SuperClaimNextInv == PermInv /\ SuperClaimInv /\ [PermNext]_permVars => SuperClaimInv'
<1> SUFFICES ASSUME PermInv, SuperClaimInv, [PermNext]_permVars PROVE SuperClaimInv'
  OBVIOUS
<1>1. /\ lastHeld' \in Int /\ lastHeld <= lastHeld' /\ lastHeld \in Int
      /\ clock \in Nat /\ clock \in 0..PermHorizon /\ WriteTimeout \in Nat
      /\ PermHorizon \in Nat
  BY LastHeldGrows, TimeTypes, PermAssumption DEF PermInv, CheckTypeOK
<1>2. CASE UNCHANGED claims
  <2>1. rolesRead' = rolesRead /\ token' = token
    BY <1>2 DEF claims
  <2>2. \A m \in rolesRead : m \in Int /\ m <= lastHeld
    BY <1>1 DEF SuperClaimInv, ClaimTypeOK
  <2>3. \A t \in token : t \in Int /\ 0 <= lastHeld /\ t <= lastHeld + WriteTimeout
    BY <1>1 DEF SuperClaimInv, ClaimTypeOK
  <2>4. \A m \in rolesRead' : m <= lastHeld'
    BY <1>1, <2>1, <2>2
  <2>5. \A t \in token' : 0 <= lastHeld' /\ t <= lastHeld' + WriteTimeout
    BY <1>1, <2>1, <2>3
  <2> QED
    BY <2>1, <2>4, <2>5 DEF SuperClaimInv, ClaimTypeOK
<1>3. CASE ReadRoles
  <2>1. lastHeld = clock
    BY <1>3 DEF ReadRoles, PermInv, TimeInv, Held
  <2> QED
    BY <1>1, <1>3, <2>1 DEF ReadRoles, SuperClaimInv, ClaimTypeOK
<1>4. CASE SignToken
  <2>1. PICK m \in rolesRead : clock - m <= WriteTimeout
    BY <1>4 DEF SignToken
  <2>2. m \in Nat /\ m <= lastHeld
    BY <1>1, <2>1 DEF SuperClaimInv, ClaimTypeOK
  <2>3. 0 <= lastHeld /\ clock <= lastHeld + WriteTimeout
    BY <1>1, <2>1, <2>2
  <2> QED
    BY <1>1, <1>4, <2>3 DEF SignToken, SuperClaimInv, ClaimTypeOK
<1> QED
  BY <1>2, <1>3, <1>4
  DEF PermNext, permVars, claims, CheckStep, SuperAdminBypass, APILookup, AuthLookup, ReadSuper,
      ReadGlobal, ReadWorkspace, StoreCheckResult, Answer, CallFails, Finish, WriteRole,
      InvalidateCheck, ChangeMembership, Evict, Tick

\* The invariant holds of every reachable state.
LEMMA PermInductive == PermSpec => [](PermInv /\ SuperClaimInv)
<1>1. PermInit => SuperClaimInv
  BY DEF PermInit, SuperClaimInv, ClaimTypeOK
<1> QED
  BY <1>1, PermInitInv, PermNextInv, SuperClaimNextInv, PTL DEF PermSpec

-----
\* Type correctness.
THEOREM PermTypeCorrect == PermSpec => []PermTypeOK
<1>1. PermInv /\ SuperClaimInv => PermTypeOK
  BY DEF PermInv, SuperClaimInv, PermTypeOK
<1> QED
  BY <1>1, PermInductive, PTL

\* Which step grants.
LEMMA GrantedBy ==
  ASSUME PermInv, [PermNext]_permVars, NEW r \in Checks,
         check[r].pc # "granted", check'[r].pc = "granted"
  PROVE  \/ ClaimsSuper
         \/ \E e \in FreshEntries(apiCache, APITTL) : e.allowed = TRUE
         \/ check[r].pc = "answered" /\ check[r].allowed = TRUE
<1>1. PICK q \in Checks : CheckStep(q) /\ check' # check
  BY DEF PermNext, permVars, WriteRole, InvalidateCheck, ChangeMembership, ReadRoles, SignToken, Evict, Tick
<1>2. check \in [Checks -> Records]
  BY DEF PermInv, CheckTypeOK, Records
<1>3. ASSUME NEW pc \in Calls, NEW b, CheckAt(q, pc, b) PROVE FALSE
  BY <1>2, <1>3 DEF CheckAt, Calls
<1>4. ASSUME check' = [check EXCEPT ![q] = NoCheck] PROVE FALSE
  BY <1>2, <1>4 DEF NoCheck
<1>5. CASE APILookup(q)
  <2>1. CASE check' = [check EXCEPT ![q] = [pc |-> "called", since |-> clock, allowed |-> FALSE]]
    BY <1>2, <2>1
  <2>2. ASSUME NEW e \in FreshEntries(apiCache, APITTL), Decide(q, e.allowed)
        PROVE  e.allowed = TRUE
    <3>1. e.allowed \in BOOLEAN
      BY FreshAPI
    <3>2. CASE e.allowed = FALSE
      BY <1>2, <2>2, <3>2 DEF Decide
    <3> QED
      BY <3>1, <3>2
  <2> QED
    BY <1>5, <2>1, <2>2 DEF APILookup
<1>6. CASE Answer(q)
  <2>1. check[q].pc = "answered" /\ Decide(q, check[q].allowed) /\ check[q].allowed \in BOOLEAN
    BY <1>6, AnswerFacts DEF Answer
  <2>2. CASE check[q].allowed = FALSE
    BY <1>2, <2>1, <2>2 DEF Decide
  <2>3. q = r
    BY <1>2, <2>1 DEF Decide
  <2> QED
    BY <2>1, <2>2, <2>3
<1>7. CASE CallFails(q) \/ Finish(q)
  BY <1>4, <1>7 DEF CallFails, Finish
<1>8. CASE AuthLookup(q)
  BY <1>3, <1>8 DEF AuthLookup, Calls
<1>9. ASSUME NEW yes, NEW next \in Calls, Found(q, yes, next) PROVE FALSE
  <2>1. (IF yes THEN "store" ELSE next) \in Calls
    BY DEF Calls
  <2> QED
    BY <1>3, <1>9, <2>1 DEF Found
<1>10. CASE ReadSuper(q) \/ ReadGlobal(q) \/ ReadWorkspace(q)
  BY <1>9, <1>10 DEF ReadSuper, ReadGlobal, ReadWorkspace, Calls
<1>11. CASE StoreCheckResult(q)
  BY <1>3, <1>11 DEF StoreCheckResult, Calls
<1>12. CASE SuperAdminBypass(q)
  BY <1>12 DEF SuperAdminBypass
<1> QED
  BY <1>1, <1>5, <1>6, <1>7, <1>8, <1>10, <1>11, <1>12 DEF CheckStep

\* A request is let through only if the user had the permission less than the
\* two times to live and two calls ago, or, by an unexpired token that claims
\* super_admin, less than a token's life and the write timeout ago; for any
\* number of checks, administrators, logins and invalidations in any order.
THEOREM GrantIsRecentCorrect == PermSpec => GrantIsRecent
<1>1. ASSUME PermInv, SuperClaimInv, [PermNext]_permVars, NEW r \in Checks,
             check[r].pc # "granted", check'[r].pc = "granted"
      PROVE  /\ lastHeld >= 0
             /\ \/ clock - lastHeld < StalenessBound
                \/ ClaimsSuper /\ clock - lastHeld < ClaimBound
  <2>0. clock \in Nat /\ lastHeld \in Int /\ AuthTTL \in Nat \ {0} /\ APITTL \in Nat \ {0}
        /\ HTTPTimeout \in Nat /\ AccessTTL \in Nat /\ WriteTimeout \in Nat
    BY <1>1, TimeTypes, PermAssumption DEF PermInv
  <2>1. ASSUME NEW e \in FreshEntries(apiCache, APITTL), e.allowed = TRUE
        PROVE  0 <= lastHeld /\ clock < lastHeld + AuthTTL + APITTL + 2 * HTTPTimeout
    BY <1>1, <2>1, FreshAPI
  <2>2. CASE check[r].pc = "answered" /\ check[r].allowed = TRUE
    <3>1. 0 <= lastHeld /\ clock < lastHeld + AuthTTL + 2 * HTTPTimeout
      BY <1>1, <2>2, AnswerFacts
    <3> QED
      BY <2>0, <3>1 DEF StalenessBound
  <2>3. CASE ClaimsSuper
    <3>1. PICK t \in token : clock - t < AccessTTL
      BY <2>3 DEF ClaimsSuper
    <3>2. t \in Int /\ 0 <= lastHeld /\ t <= lastHeld + WriteTimeout
      BY <1>1, <3>1 DEF SuperClaimInv, ClaimTypeOK
    <3> QED
      BY <2>0, <2>3, <3>1, <3>2 DEF ClaimBound
  <2>4. CASE \E e \in FreshEntries(apiCache, APITTL) : e.allowed = TRUE
    <3>1. PICK e \in FreshEntries(apiCache, APITTL) : e.allowed = TRUE
      BY <2>4
    <3>2. 0 <= lastHeld /\ clock < lastHeld + AuthTTL + APITTL + 2 * HTTPTimeout
      BY <2>1, <3>1
    <3> QED
      BY <2>0, <3>2 DEF StalenessBound
  <2> QED
    BY <1>1, <2>2, <2>3, <2>4, GrantedBy
<1>2. PermInv /\ SuperClaimInv /\ [PermNext]_permVars =>
        [\A r \in Checks :
           (check[r].pc # "granted" /\ check'[r].pc = "granted") =>
               /\ lastHeld >= 0
               /\ \/ clock - lastHeld < StalenessBound
                  \/ ClaimsSuper /\ clock - lastHeld < ClaimBound]_permVars
  BY <1>1
<1> QED
  BY <1>2, PermInductive, PTL DEF PermSpec, GrantIsRecent

-----------------------------------------------------------------------------
(* Public links: a token on its way to the table is new and nobody else's, and
   a visit keeps what forbade it when it began *)

SharerRecords == [pc : {"idle", "rotate", "insert"}, token : Tokens \cup {NoToken}, old : SUBSET Tokens]

VisitRecords ==
    [pc : {"idle", "resolve", "switch", "widget", "served"}, token : Tokens \cup {NoToken},
     late : SUBSET {"token", "switch"}]

\* The token a request will insert is new and nobody else's, and what its
\* UPDATE saw had been handed out.
SharerOK(s) ==
    /\ sharer[s].pc # "idle" =>
         /\ sharer[s].token \in Tokens /\ share[sharer[s].token] = "none"
         /\ \A t \in Sharers \ {s} : sharer[t].token # sharer[s].token
    /\ \A k \in sharer[s].old : share[k] # "none"

\* A link that did not work when the visit began never works again, and the
\* visit goes on only where the link and the switch are looked at.
VisitOK(v) ==
    /\ visit[v].pc # "idle" => visit[v].token \in Tokens
    /\ "token" \in visit[v].late => visit[v].token \in Tokens /\ share[visit[v].token] = "revoked"
    /\ sharing => "switch" \notin visit[v].late
    /\ visit[v].pc \in {"switch", "widget", "served"} => "token" \notin visit[v].late
    /\ visit[v].pc \in {"widget", "served"} => visit[v].late = {}

LinksInv ==
    /\ ShareTypeOK
    /\ OneActiveShare
    /\ \A s \in Sharers : SharerOK(s)
    /\ \A v \in Visitors : VisitOK(v)

\* The type invariant, with the records named.
LEMMA ShareTypes ==
  ShareTypeOK <=>
    /\ share \in [Tokens -> {"none", "active", "revoked"}] /\ sharing \in BOOLEAN
    /\ sharer \in [Sharers -> SharerRecords] /\ visit \in [Visitors -> VisitRecords]
    /\ widgetCache \in SUBSET Tokens
BY DEF ShareTypeOK, SharerRecords, VisitRecords

\* No link handed out and nobody visiting.
LEMMA ShareInitInv == ShareInit => LinksInv
<1> SUFFICES ASSUME ShareInit PROVE LinksInv
  OBVIOUS
<1>1. NotSharing \in SharerRecords /\ NotVisiting \in VisitRecords
  BY DEF NotSharing, NotVisiting, SharerRecords, VisitRecords
<1>2. NotSharing.pc = "idle" /\ NotSharing.old = {} /\ NotVisiting.pc = "idle" /\ NotVisiting.late = {}
  BY DEF NotSharing, NotVisiting
<1>3. ShareTypeOK
  BY <1>1, ShareTypes DEF ShareInit
<1> QED
  BY <1>2, <1>3 DEF LinksInv, ShareInit, OneActiveShare, Active, SharerOK, VisitOK

\* A token that was handed out stays so, and one that was revoked stays revoked.
LEMMA TokensChangeInv ==
  ASSUME LinksInv, share' \in [Tokens -> {"none", "active", "revoked"}],
         \A k \in Tokens : share[k] # "none" => share'[k] # "none",
         \A k \in Tokens : share[k] = "revoked" => share'[k] = "revoked",
         UNCHANGED <<visit, sharing>>
  PROVE  \A v \in Visitors : VisitOK(v)'
BY DEF LinksInv, VisitOK

\* CreateShare: the request draws a token nobody has.
LEMMA CreateShareInv ==
  ASSUME LinksInv, NEW s \in Sharers, NEW k \in Tokens, CreateShare(s, k)
  PROVE  LinksInv'
<1> DEFINE new == [pc |-> "rotate", token |-> k, old |-> {}]
<1>1. /\ share[k] = "none" /\ \A t \in Sharers : sharer[t].token # k
      /\ sharer' = [sharer EXCEPT ![s] = new] /\ UNCHANGED <<share, sharing, visit, widgetCache>>
  BY DEF CreateShare
<1>2. new \in SharerRecords /\ new.token = k /\ new.old = {} /\ new.pc = "rotate"
  BY DEF SharerRecords
<1> HIDE DEF new
<1>3. sharer \in [Sharers -> SharerRecords] /\ sharer' \in [Sharers -> SharerRecords]
  BY <1>1, <1>2, ShareTypes DEF LinksInv
<1>4. ShareTypeOK'
  BY <1>1, <1>3, ShareTypes DEF LinksInv, ShareTypeOK, SharerRecords
<1>5. \A t \in Sharers : SharerOK(t)'
  BY <1>1, <1>2, <1>3 DEF LinksInv, SharerOK
<1> QED
  BY <1>1, <1>4, <1>5 DEF LinksInv, OneActiveShare, Active, VisitOK

\* RevokePrevious: the links the UPDATE sees are the request's to revoke.
LEMMA RevokePreviousInv ==
  ASSUME LinksInv, NEW s \in Sharers, RevokePrevious(s)
  PROVE  LinksInv'
<1>1. /\ sharer[s].pc = "rotate" /\ sharer' = [sharer EXCEPT ![s].pc = "insert", ![s].old = Active]
      /\ UNCHANGED <<share, sharing, visit, widgetCache>>
  BY DEF RevokePrevious
<1>2. sharer \in [Sharers -> SharerRecords] /\ Active \in SUBSET Tokens
  BY ShareTypes DEF LinksInv, Active
<1>3. /\ sharer' \in [Sharers -> SharerRecords]
      /\ sharer'[s].token = sharer[s].token /\ sharer'[s].old = Active
      /\ \A t \in Sharers \ {s} : sharer'[t] = sharer[t]
  BY <1>1, <1>2 DEF SharerRecords
<1>4. ShareTypeOK'
  BY <1>1, <1>3, ShareTypes DEF LinksInv, ShareTypeOK, SharerRecords
<1>5. \A t \in Sharers : sharer'[t].token = sharer[t].token
  BY <1>3
<1>6. \A t \in Sharers : SharerOK(t)'
  BY <1>1, <1>3, <1>5 DEF LinksInv, SharerOK, Active
<1> QED
  BY <1>1, <1>4, <1>6 DEF LinksInv, OneActiveShare, Active, VisitOK

\* The INSERT finds no other active row than those the UPDATE revoked.
LEMMA InsertShareInv ==
  ASSUME LinksInv, NEW s \in Sharers, InsertShare(s)
  PROVE  LinksInv'
<1> DEFINE k == sharer[s].token
<1>1. /\ sharer[s].pc = "insert" /\ sharer' = [sharer EXCEPT ![s] = NotSharing]
      /\ UNCHANGED <<sharing, visit, widgetCache>>
  BY DEF InsertShare
<1>2. /\ sharer \in [Sharers -> SharerRecords] /\ k \in Tokens /\ share[k] = "none"
      /\ sharer[s].old \subseteq Tokens /\ \A j \in sharer[s].old : share[j] # "none"
      /\ \A t \in Sharers \ {s} : sharer[t].token # k
      /\ share \in [Tokens -> {"none", "active", "revoked"}]
  BY <1>1, ShareTypes DEF LinksInv, SharerOK, SharerRecords
<1>3. /\ NotSharing \in SharerRecords /\ NotSharing.pc = "idle" /\ NotSharing.old = {}
      /\ NotSharing.token \notin Tokens
  BY ShareAssumption DEF NotSharing, SharerRecords
<1>4. /\ sharer' \in [Sharers -> SharerRecords] /\ sharer'[s] = NotSharing
      /\ \A t \in Sharers \ {s} : sharer'[t] = sharer[t]
  BY <1>1, <1>2, <1>3
<1>5. CASE Active \subseteq sharer[s].old
  <2>1. share' = [j \in Tokens |-> IF j = k THEN "active" ELSE IF j \in sharer[s].old THEN "revoked" ELSE share[j]]
    BY <1>5 DEF InsertShare, MayInsert
  <2> HIDE DEF k
  <2>2. /\ share' \in [Tokens -> {"none", "active", "revoked"}]
        /\ \A j \in Tokens : share[j] # "none" => share'[j] # "none"
        /\ \A j \in Tokens : share[j] = "revoked" => share'[j] = "revoked"
        /\ \A j \in Tokens \ {k} : share[j] = "none" => share'[j] = "none"
    BY <1>2, <2>1
  <2>3. OneActiveShare'
    BY <1>2, <1>5, <2>1 DEF OneActiveShare, Active
  <2>4. \A v \in Visitors : VisitOK(v)'
    BY <1>1, <2>2, TokensChangeInv
  <2>5. ShareTypeOK'
    BY <1>1, <1>4, <2>2, ShareTypes DEF LinksInv, ShareTypeOK, SharerRecords
  <2>6. \A t \in Sharers : SharerOK(t)'
    <3> SUFFICES ASSUME NEW t \in Sharers PROVE SharerOK(t)'
      OBVIOUS
    <3>1. CASE t = s
      BY <1>3, <1>4, <3>1 DEF SharerOK
    <3>2. CASE t # s
      <4>1. sharer'[t] = sharer[t] /\ SharerOK(t) /\ sharer[t].token # k /\ sharer[t].old \subseteq Tokens
        BY <1>2, <1>4, <3>2 DEF LinksInv, SharerRecords
      <4>2. sharer[t].pc # "idle" => sharer'[s].token # sharer[t].token
        BY <1>3, <1>4, <4>1 DEF SharerOK
      <4> QED
        BY <1>4, <2>2, <4>1, <4>2 DEF SharerOK
    <3> QED
      BY <3>1, <3>2
  <2> QED
    BY <2>3, <2>4, <2>5, <2>6 DEF LinksInv
<1>6. CASE ~(Active \subseteq sharer[s].old)
  <2>1. share' = share
    BY <1>6 DEF InsertShare, MayInsert
  <2>2. ShareTypeOK'
    BY <1>1, <1>4, <2>1, ShareTypes DEF LinksInv, ShareTypeOK, SharerRecords
  <2>3. \A t \in Sharers : SharerOK(t)'
    BY <1>3, <1>4, <2>1 DEF LinksInv, SharerOK
  <2> QED
    BY <1>1, <2>1, <2>2, <2>3 DEF LinksInv, OneActiveShare, Active, VisitOK
<1> QED
  BY <1>5, <1>6

\* Revoke leaves no active row.
LEMMA RevokeShareInv == LinksInv /\ RevokeShare => LinksInv'
<1> SUFFICES ASSUME LinksInv, RevokeShare PROVE LinksInv'
  OBVIOUS
<1>1. /\ share' = [k \in Tokens |-> IF k \in Active THEN "revoked" ELSE share[k]]
      /\ UNCHANGED <<sharing, sharer, visit, widgetCache>>
  BY DEF RevokeShare
<1>2. share \in [Tokens -> {"none", "active", "revoked"}]
  BY ShareTypes DEF LinksInv
<1>3. /\ share' \in [Tokens -> {"none", "active", "revoked"}]
      /\ \A j \in Tokens : share[j] # "none" => share'[j] # "none"
      /\ \A j \in Tokens : share[j] = "revoked" => share'[j] = "revoked"
      /\ \A j \in Tokens : share[j] = "none" => share'[j] = "none"
      /\ \A j \in Tokens : share'[j] # "active"
  BY <1>1, <1>2 DEF Active
<1>4. \A v \in Visitors : VisitOK(v)'
  BY <1>1, <1>3, TokensChangeInv
<1>5. \A s \in Sharers : sharer[s].old \subseteq Tokens
  BY ShareTypes DEF LinksInv, SharerRecords
<1>6. \A s \in Sharers : SharerOK(s)'
  BY <1>1, <1>3, <1>5 DEF LinksInv, SharerOK
<1> QED
  BY <1>1, <1>3, <1>4, <1>6 DEF LinksInv, ShareTypeOK, OneActiveShare, Active

\* A visit moves, and the links stay.
LEMMA VisitMovesInv ==
  ASSUME LinksInv, NEW v \in Visitors, NEW q \in VisitRecords, visit' = [visit EXCEPT ![v] = q],
         q.pc # "idle" => q.token \in Tokens,
         "token" \in q.late => q.token \in Tokens /\ share[q.token] = "revoked",
         sharing => "switch" \notin q.late,
         q.pc \in {"switch", "widget", "served"} => "token" \notin q.late,
         q.pc \in {"widget", "served"} => q.late = {},
         widgetCache' \in SUBSET Tokens, UNCHANGED <<share, sharing, sharer>>
  PROVE  LinksInv'
<1>1. visit \in [Visitors -> VisitRecords]
  BY ShareTypes DEF LinksInv
<1>2. visit' \in [Visitors -> VisitRecords] /\ visit'[v] = q /\ \A w \in Visitors \ {v} : visit'[w] = visit[w]
  BY <1>1
<1>3. ShareTypeOK'
  BY <1>2 DEF LinksInv, ShareTypeOK, VisitRecords
<1>4. \A w \in Visitors : VisitOK(w)'
  BY <1>2 DEF LinksInv, VisitOK
<1> QED
  BY <1>3, <1>4 DEF LinksInv, OneActiveShare, Active, SharerOK

\* A visit that ends.
LEMMA VisitOverInv ==
  ASSUME LinksInv, NEW v \in Visitors, visit' = [visit EXCEPT ![v] = NotVisiting],
         UNCHANGED <<share, sharing, sharer, widgetCache>>
  PROVE  LinksInv'
<1>1. NotVisiting \in VisitRecords /\ NotVisiting.pc = "idle" /\ NotVisiting.late = {}
  BY DEF NotVisiting, VisitRecords
<1>2. widgetCache' \in SUBSET Tokens
  BY DEF LinksInv, ShareTypeOK
<1>3. /\ ~("token" \in NotVisiting.late) /\ "switch" \notin NotVisiting.late
      /\ ~(NotVisiting.pc # "idle") /\ ~(NotVisiting.pc \in {"switch", "widget", "served"}) /\ ~(NotVisiting.pc \in {"widget", "served"})
  BY <1>1
<1> QED
  BY <1>1, <1>2, <1>3, VisitMovesInv

\* A visit that goes on with its token.
LEMMA VisitGoesOnInv ==
  ASSUME LinksInv, NEW v \in Visitors, NEW l \in {"switch", "widget", "served"}, VisitAt(v, l),
         visit[v].pc # "idle", "token" \notin visit[v].late, l # "switch" => visit[v].late = {},
         widgetCache' \in SUBSET Tokens, UNCHANGED <<share, sharing, sharer>>
  PROVE  LinksInv'
<1> DEFINE q == [visit[v] EXCEPT !.pc = l]
<1>1. visit \in [Visitors -> VisitRecords] /\ visit[v] \in VisitRecords
  BY ShareTypes DEF LinksInv
<1>2. q \in VisitRecords /\ q.pc = l /\ q.late = visit[v].late /\ q.token = visit[v].token
  BY <1>1 DEF VisitRecords
<1>3. visit' = [visit EXCEPT ![v] = q]
  BY DEF VisitAt
<1> HIDE DEF q
<1>4. /\ q.pc # "idle" => q.token \in Tokens
      /\ "token" \in q.late => q.token \in Tokens /\ share[q.token] = "revoked"
      /\ sharing => "switch" \notin q.late
      /\ q.pc \in {"switch", "widget", "served"} => "token" \notin q.late
      /\ q.pc \in {"widget", "served"} => q.late = {}
  BY <1>2 DEF LinksInv, VisitOK
<1> QED
  BY <1>2, <1>3, <1>4, VisitMovesInv

\* OpenLink: the visit notes what forbids it from the start.
LEMMA OpenLinkInv ==
  ASSUME LinksInv, NEW v \in Visitors, NEW k \in Tokens, OpenLink(v, k)
  PROVE  LinksInv'
<1> DEFINE why == (IF k \in Active THEN {} ELSE {"token"}) \cup (IF sharing THEN {} ELSE {"switch"})
<1> DEFINE q == [pc |-> "resolve", token |-> k, late |-> why]
<1>1. /\ share[k] # "none" /\ visit' = [visit EXCEPT ![v] = q]
      /\ UNCHANGED <<share, sharing, sharer, widgetCache>>
  BY DEF OpenLink
<1>2. why \in SUBSET {"token", "switch"} /\ ("token" \in why => k \notin Active) /\ (sharing => "switch" \notin why)
  OBVIOUS
<1> HIDE DEF why
<1>3. q \in VisitRecords /\ q.pc = "resolve" /\ q.late = why /\ q.token = k
  BY <1>2 DEF VisitRecords
<1>4. k \notin Active => share[k] = "revoked"
  BY <1>1 DEF LinksInv, ShareTypeOK, Active
<1>5. widgetCache' \in SUBSET Tokens
  BY <1>1 DEF LinksInv, ShareTypeOK
<1> HIDE DEF q
<1>6. /\ q.pc # "idle" => q.token \in Tokens
      /\ "token" \in q.late => q.token \in Tokens /\ share[q.token] = "revoked"
      /\ sharing => "switch" \notin q.late
      /\ q.pc \in {"switch", "widget", "served"} => "token" \notin q.late
      /\ q.pc \in {"widget", "served"} => q.late = {}
  BY <1>2, <1>3, <1>4
<1> QED
  BY <1>1, <1>3, <1>5, <1>6, VisitMovesInv

\* The switch is turned: visits that began while it was off are free again.
LEMMA SetSharingInv ==
  ASSUME LinksInv, NEW b \in BOOLEAN, SetSharing(b)
  PROVE  LinksInv'
<1>1. /\ visit' = [v \in Visitors |-> [visit[v] EXCEPT !.late = IF b THEN @ \ {"switch"} ELSE @]]
      /\ sharing' = b /\ sharing # b /\ UNCHANGED <<share, sharer, widgetCache>>
  BY DEF SetSharing
<1>2. \A v \in Visitors : /\ visit'[v] \in VisitRecords /\ visit'[v].pc = visit[v].pc /\ visit'[v].token = visit[v].token
                           /\ visit'[v].late = IF b THEN visit[v].late \ {"switch"} ELSE visit[v].late
  <2> SUFFICES ASSUME NEW v \in Visitors
               PROVE  /\ visit'[v] \in VisitRecords /\ visit'[v].pc = visit[v].pc /\ visit'[v].token = visit[v].token
                      /\ visit'[v].late = IF b THEN visit[v].late \ {"switch"} ELSE visit[v].late
    OBVIOUS
  <2>1. visit[v] \in VisitRecords
    BY ShareTypes DEF LinksInv
  <2>2. visit'[v] = [visit[v] EXCEPT !.late = IF b THEN visit[v].late \ {"switch"} ELSE visit[v].late]
    BY <1>1
  <2>3. CASE b
    BY <2>1, <2>2, <2>3 DEF VisitRecords
  <2>4. CASE ~b
    BY <2>1, <2>2, <2>4 DEF VisitRecords
  <2> QED
    BY <2>3, <2>4
<1>3. visit' \in [Visitors -> VisitRecords]
  BY <1>1, <1>2
<1>4. ShareTypeOK'
  BY <1>1, <1>3 DEF LinksInv, ShareTypeOK, VisitRecords
<1>5. \A v \in Visitors : VisitOK(v)'
  <2>1. CASE b
    <3>1. \A v \in Visitors : visit'[v].late = visit[v].late \ {"switch"}
      BY <1>2, <2>1
    <3> QED
      BY <1>1, <1>2, <3>1 DEF LinksInv, VisitOK
  <2>2. CASE ~b
    <3>1. \A v \in Visitors : visit'[v].late = visit[v].late
      BY <1>2, <2>2
    <3>2. ~sharing'
      BY <1>1, <2>2
    <3> QED
      BY <1>1, <1>2, <3>1, <3>2 DEF LinksInv, VisitOK
  <2> QED
    BY <2>1, <2>2
<1> QED
  BY <1>1, <1>4, <1>5 DEF LinksInv, OneActiveShare, Active, SharerOK

\* Every step of the owners and of the visitors keeps the invariant.
LEMMA ShareNextInv == LinksInv /\ [ShareNext]_shareVars => LinksInv'
<1> SUFFICES ASSUME LinksInv, [ShareNext]_shareVars PROVE LinksInv'
  OBVIOUS
<1>1. CASE UNCHANGED shareVars
  BY <1>1 DEF shareVars, LinksInv, ShareTypeOK, OneActiveShare, Active, SharerOK, VisitOK
<1>2. widgetCache \in SUBSET Tokens /\ visit \in [Visitors -> VisitRecords]
  BY ShareTypes DEF LinksInv
<1>3. ASSUME NEW v \in Visitors, ResolveToken(v) PROVE LinksInv'
  <2>1. visit[v].pc = "resolve" /\ UNCHANGED <<share, sharing, sharer, widgetCache>>
    BY <1>3 DEF ResolveToken
  <2>2. CASE visit[v].token \in Active
    <3>1. "token" \notin visit[v].late
      BY <2>2 DEF LinksInv, VisitOK, Active
    <3> QED
      BY <1>2, <1>3, <2>1, <2>2, <3>1, VisitGoesOnInv DEF ResolveToken
  <2>3. CASE visit[v].token \notin Active
    BY <1>3, <2>1, <2>3, VisitOverInv DEF ResolveToken
  <2> QED
    BY <2>2, <2>3
<1>4. ASSUME NEW v \in Visitors, CheckSwitch(v) PROVE LinksInv'
  <2>1. visit[v].pc = "switch" /\ UNCHANGED <<share, sharing, sharer, widgetCache>>
    BY <1>4 DEF CheckSwitch
  <2>2. CASE visit' = [visit EXCEPT ![v] = NotVisiting]
    BY <2>1, <2>2, VisitOverInv
  <2>3. ASSUME sharing, NEW l \in {"served", "widget"}, VisitAt(v, l) PROVE LinksInv'
    <3>1. "token" \notin visit[v].late /\ "switch" \notin visit[v].late /\ visit[v].late \in SUBSET {"token", "switch"}
      BY <1>2, <2>1, <2>3 DEF LinksInv, VisitOK, VisitRecords
    <3>2. visit[v].late = {}
      BY <3>1
    <3> QED
      BY <1>2, <2>1, <2>3, <3>1, <3>2, VisitGoesOnInv
  <2> QED
    BY <1>4, <2>2, <2>3 DEF CheckSwitch
<1>5. ASSUME NEW v \in Visitors, ServeCached(v) \/ RunWidget(v) PROVE LinksInv'
  <2>1. /\ visit[v].pc = "widget" /\ VisitAt(v, "served") /\ UNCHANGED <<share, sharing, sharer>>
    BY <1>5 DEF ServeCached, RunWidget
  <2>2. visit[v].late = {}
    BY <2>1 DEF LinksInv, VisitOK
  <2>3. visit[v].token \in Tokens
    BY <2>1 DEF LinksInv, VisitOK
  <2>4. widgetCache' \in SUBSET Tokens
    BY <1>2, <1>5, <2>3 DEF ServeCached, RunWidget
  <2> QED
    BY <2>1, <2>2, <2>4, VisitGoesOnInv
<1>6. ASSUME NEW v \in Visitors, VisitEnds(v) PROVE LinksInv'
  BY <1>6, VisitOverInv DEF VisitEnds
<1>7. ASSUME NEW k \in Tokens, WidgetExpires(k) PROVE LinksInv'
  BY <1>7 DEF WidgetExpires, LinksInv, ShareTypeOK, OneActiveShare, Active, SharerOK, VisitOK
<1> QED
  BY <1>1, <1>3, <1>4, <1>5, <1>6, <1>7, CreateShareInv, RevokePreviousInv, InsertShareInv,
     RevokeShareInv, SetSharingInv, OpenLinkInv DEF ShareNext

\* One link works, and a visit that began when its link or the switch forbade it
\* is served nothing, for any users, visitors and tokens.
THEOREM LinksExclusiveCorrect == ShareSpec => []LinksExclusive
<1>1. LinksInv => LinksExclusive
  BY DEF LinksInv, LinksExclusive, RevokedNotServed, VisitOK
<1> QED
  BY <1>1, ShareInitInv, ShareNextInv, PTL DEF ShareSpec
=============================================================================
