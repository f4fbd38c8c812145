---------------------------- MODULE Credentials ----------------------------
(***************************************************************************)
(* Secrets a user redeems once (internal/auth: password reset tokens,      *)
(* magic links, unlock tokens, e-mail verification tokens, invitations,    *)
(* WebAuthn challenges, OAuth states and callback codes, and in mfa/ the   *)
(* recovery, bypass and TOTP codes).  Each kind has its own protocol       *)
(* between the statement that looks at the secret and the one that spends  *)
(* it; a behaviour follows the secrets of one kind of one user.            *)
(***************************************************************************)
EXTENDS Naturals

CONSTANTS
    Clients,    \* redemptions under way at the same time
    Secrets     \* secrets, numbered in the order they are made

ASSUME SecretsAssumption == Secrets \subseteq Nat

Kinds == {"reset", "magic", "unlock", "verify", "invitation", "webauthn",
          "oauth_state", "callback", "recovery", "totp"}

\* One statement looks and spends.
OneStatement == {"magic", "unlock", "oauth_state"}
\* The statement that spends checks again that the secret is there.
GuardedSpend == {"reset", "recovery", "totp"}
\* It does not.
BareSpend == {"verify", "webauthn", "invitation"}

VARIABLES
    kind,       \* the kind the behaviour follows
    secret,     \* secret -> "unmade", "open", "spent" or "void"
    grace,      \* callback codes whose payload is under the grace key
    signedUp,    \* emails with an account: {} or {"user"}, for invitations
    holder,     \* client -> where it is and with which secret
    granted     \* secret -> the clients that had it accepted

credVars == <<kind, secret, grace, signedUp, holder, granted>>

Away == [pc |-> "away", sec |-> 0]

CredInit ==
    /\ kind \in Kinds
    /\ secret = [s \in Secrets |-> "unmade"]
    /\ grace = {}
    /\ signedUp = {}
    /\ holder = [c \in Clients |-> Away]
    /\ granted = [s \in Secrets |-> {}]

----------------------------------------------------------------------------
\* A secret is made.  CreatePasswordResetToken and the e-mail verification
\* delete the user's earlier ones, InviteUser and ResendInvitation overwrite
\* the token of the row, RegenerateRecoveryCodes replaces the list.
Replaces == {"reset", "verify", "invitation", "recovery"}

Made(s) ==
    [t \in Secrets |-> IF t = s THEN "open"
                       ELSE IF kind \in Replaces /\ secret[t] # "unmade" THEN "void"
                       ELSE secret[t]]

Issue(s) ==
    /\ secret[s] = "unmade"
    /\ \A t \in Secrets : t < s => secret[t] # "unmade"
    /\ secret' = Made(s)
    /\ UNCHANGED <<kind, grace, signedUp, holder, granted>>

\* The secret expires, RevokeInvitation removes it, or Disable or a new
\* enrollment removes the recovery codes; a TOTP code leaves the window of
\* time steps.
Withdraw(s) ==
    /\ secret[s] = "open"
    /\ secret' = [secret EXCEPT ![s] = "void"]
    /\ UNCHANGED <<kind, grace, signedUp, holder, granted>>

----------------------------------------------------------------------------
Grant(c, s) ==
    /\ granted' = [granted EXCEPT ![s] = @ \cup {c}]
    /\ holder' = [holder EXCEPT ![c] = Away]

\* A row that is gone is not updated; last_totp_step is, whatever the clock says.
Spent(s) ==
    [secret EXCEPT ![s] = IF @ = "void" /\ kind # "totp" THEN @ ELSE "spent"]

\* A client redeems a secret once.
Fresh(c, s) == holder[c] = Away /\ c \notin granted[s]

\* MagicLinkRepository.Consume (SELECT FOR UPDATE and UPDATE in one
\* transaction), ConsumeUnlockToken (UPDATE RETURNING), VerifyOAuthState
\* (GETDEL).
ConsumeAtOnce(c, s) ==
    /\ kind \in OneStatement
    /\ Fresh(c, s)
    /\ secret[s] = "open"
    /\ secret' = Spent(s)
    /\ Grant(c, s)
    /\ UNCHANGED <<kind, grace, signedUp>>

\* VerifyPasswordResetToken, the SELECT of VerifyEmailToken, GetInvitation, the
\* SELECT of GetWebAuthnChallenge, Get of the enrollment in VerifyCode.
Look(c, s) ==
    /\ kind \in GuardedSpend \cup BareSpend
    /\ Fresh(c, s)
    /\ secret[s] = "open"
    /\ holder' = [holder EXCEPT ![c] = [pc |-> "looked", sec |-> s]]
    /\ UNCHANGED <<kind, secret, grace, signedUp, granted>>

\* Mutant: the comparison of time steps is not strict.
NewStepOrSame(s) == \A t \in Secrets : secret[t] = "spent" => t <= s

\* last_totp_step < step: the step is newer than every step accepted.
NewStep(s) == \A t \in Secrets : secret[t] = "spent" => t < s

\* Mutant: the UPDATE names the row and nothing else.
SpendUnguarded(s) == TRUE

\* ConsumePasswordResetAndUpdatePassword, ConsumeRecoveryCode,
\* ConsumeBypassCode, ConsumeTOTPStep: UPDATE ... WHERE it can still be spent.
SpendGuard(s) ==
    IF kind = "totp" THEN NewStep(s) ELSE secret[s] = "open"

SpendGuarded(c, s) ==
    /\ kind \in GuardedSpend
    /\ holder[c] = [pc |-> "looked", sec |-> s]
    /\ SpendGuard(s)
    /\ secret' = Spent(s)
    /\ Grant(c, s)
    /\ UNCHANGED <<kind, grace, signedUp>>

\* The UPDATE of VerifyEmailToken and the DELETE of GetWebAuthnChallenge name
\* the row and nothing else.
SpendBare(c, s) ==
    /\ kind \in {"verify", "webauthn"}
    /\ holder[c] = [pc |-> "looked", sec |-> s]
    /\ secret' = Spent(s)
    /\ Grant(c, s)
    /\ UNCHANGED <<kind, grace, signedUp>>

\* claimInvitationInTx: the row is not looked at again, but the users table
\* takes the address once.  The row is marked if it is still there.
ClaimInvitation(c, s) ==
    /\ kind = "invitation"
    /\ holder[c] = [pc |-> "looked", sec |-> s]
    /\ signedUp = {}
    /\ signedUp' = {"user"}
    /\ secret' = Spent(s)
    /\ Grant(c, s)
    /\ UNCHANGED <<kind, grace>>

\* loadOAuthCallbackPayload: GETDEL of the code ...
TakeCode(c, s) ==
    /\ kind = "callback"
    /\ Fresh(c, s)
    /\ secret[s] = "open"
    /\ secret' = Spent(s)
    /\ holder' = [holder EXCEPT ![c] = [pc |-> "taken", sec |-> s]]
    /\ UNCHANGED <<kind, grace, signedUp, granted>>

\* ... then the payload is kept under the grace key; a failure is ignored.
KeepGrace(c, s) ==
    /\ holder[c] = [pc |-> "taken", sec |-> s]
    /\ grace' \in {grace, grace \cup {s}}
    /\ Grant(c, s)
    /\ UNCHANGED <<kind, secret, signedUp>>

\* A later request takes the payload from the grace key with GETDEL.
TakeGrace(c, s) ==
    /\ kind = "callback"
    /\ Fresh(c, s)
    /\ secret[s] # "open"
    /\ s \in grace
    /\ grace' = grace \ {s}
    /\ Grant(c, s)
    /\ UNCHANGED <<kind, secret, signedUp>>

\* The grace key expires.
GraceEnds(s) ==
    /\ s \in grace
    /\ grace' = grace \ {s}
    /\ UNCHANGED <<kind, secret, signedUp, holder, granted>>

\* The guard refuses, a statement fails, or the client goes away.
GiveUp(c) ==
    /\ holder[c] # Away
    /\ holder' = [holder EXCEPT ![c] = Away]
    /\ UNCHANGED <<kind, secret, grace, signedUp, granted>>

Redeem(c, s) ==
    \/ ConsumeAtOnce(c, s)
    \/ Look(c, s)
    \/ SpendGuarded(c, s)
    \/ SpendBare(c, s)
    \/ ClaimInvitation(c, s)
    \/ TakeCode(c, s)
    \/ KeepGrace(c, s)
    \/ TakeGrace(c, s)

CredNext ==
    \/ \E s \in Secrets : Issue(s) \/ Withdraw(s) \/ GraceEnds(s)
    \/ \E c \in Clients, s \in Secrets : Redeem(c, s)
    \/ \E c \in Clients : GiveUp(c)

CredSpec == CredInit /\ [][CredNext]_credVars

----------------------------------------------------------------------------
CredTypeOK ==
    /\ kind \in Kinds
    /\ secret \in [Secrets -> {"unmade", "open", "spent", "void"}]
    /\ grace \in SUBSET Secrets
    /\ signedUp \in SUBSET {"user"}
    /\ holder \in [Clients -> [pc : {"away", "looked", "taken"}, sec : Nat]]
    /\ granted \in [Secrets -> SUBSET Clients]

\* A secret is accepted from one client at most, however many redeem it at
\* once, for every kind whose spending statement is guarded; and an
\* invitation's address becomes one account, whichever token it is claimed
\* with.
RedeemedOnce ==
    /\ kind \in OneStatement \cup GuardedSpend =>
         \A s \in Secrets, c, d \in Clients : {c, d} \subseteq granted[s] => c = d
    /\ kind = "invitation" =>
         \A s, t \in Secrets, c, d \in Clients :
             (c \in granted[s] /\ d \in granted[t]) => c = d /\ s = t

\* No secret of a guarded kind is accepted once it was replaced or withdrawn,
\* even from a client that had looked at it before: a stale look cannot spend.
\* (A TOTP code is bound to its time step instead: see TotpMonotone.)
VoidIsRefused ==
    [][\A s \in Secrets :
         (kind \in (OneStatement \cup GuardedSpend) \ {"totp"} /\ secret[s] = "void")
             => granted'[s] = granted[s]]_credVars

\* ConsumeTOTPStep: the time steps accepted only go up, so a code that was
\* looked at before a newer one was accepted is refused.
TotpMonotone ==
    [][\A s, t \in Secrets :
         (kind = "totp" /\ granted'[s] # granted[s] /\ granted[t] # {}) => t < s]_credVars

\* A secret that was replaced, withdrawn or overtaken by a later time step is
\* refused for good, also from a client that had found it good before.
RefusedForGood == VoidIsRefused /\ TotpMonotone
=============================================================================
