---------------------------- MODULE LoginLockout ----------------------------
(***************************************************************************)
(* The failure counter of one registered user's login name, or of one      *)
(* user's second factor, in Redis (internal/auth/service.go,               *)
(* service_password.go, handlers/handler_mfa.go).  The counter is read     *)
(* before the secret is verified and incremented after, so attempts        *)
(* overlap; the key's time to live is set by a second command.  An attempt *)
(* is let in when the counter cannot be read, a failure that cannot be     *)
(* counted is forgotten, and the second step of a login asks for a code    *)
(* without looking at the counter or touching it.                          *)
(***************************************************************************)
EXTENDS Naturals, FiniteSets

CONSTANTS
    Attempts,    \* attempts under way at the same time
    Threshold,   \* failures that lock
    MaxUnguarded \* bound on the attempts the counter does not hold back

ASSUME LockoutAssumption ==
    /\ IsFiniteSet(Attempts)
    /\ Threshold \in Nat \ {0}
    /\ MaxUnguarded \in Nat

VARIABLES
    counter,     \* "login" or "mfa"
    failures,    \* value of the key; 0: there is no key
    expiring,    \* the key has a time to live
    missed,      \* an EXPIRE was lost since the key was made
    tried,       \* wrong secrets tried in the life of the present key
    unguarded,   \* attempts of that life that the counter did not hold back or count
    attempt,     \* attempt -> where it is
    unlock,      \* unlock mail of the present key: "none", "due", "sent", "lost"
    token        \* an unspent unlock token exists; it may outlive its key

keyVars == <<failures, expiring, missed, tried, unguarded, unlock>>
lockVars == <<counter, failures, expiring, missed, tried, unguarded, attempt, unlock, token>>

LockInit ==
    /\ counter \in {"login", "mfa"}
    /\ failures = 0
    /\ expiring = FALSE
    /\ missed = FALSE
    /\ tried = 0
    /\ unguarded = 0
    /\ attempt = [a \in Attempts |-> "idle"]
    /\ unlock = "none"
    /\ token = FALSE

At(a, pc) == attempt' = [attempt EXCEPT ![a] = pc]

\* The key is gone: expiry, DEL on success, UnlockAccount.
KeyGone ==
    /\ failures' = 0
    /\ expiring' = FALSE
    /\ missed' = FALSE
    /\ tried' = 0
    /\ unguarded' = 0
    /\ unlock' = "none"

\* Mutant: the threshold is off by one.
LockedLate == failures > Threshold

Locked == failures >= Threshold

\* checkLoginLockout, CheckMFALockout.
CheckLockout(a) ==
    /\ attempt[a] = "idle"
    /\ ~Locked
    /\ At(a, "verify")
    /\ UNCHANGED <<counter, keyVars, token>>

\* The GET fails: the attempt is let in, locked or not.
CheckFailsOpen(a) ==
    /\ attempt[a] = "idle"
    /\ unguarded < MaxUnguarded
    /\ unguarded' = unguarded + 1
    /\ At(a, "verify")
    /\ UNCHANGED <<counter, failures, expiring, missed, tried, unlock, token>>

\* authenticateLogin, VerifyCode.
VerifyFails(a) ==
    /\ attempt[a] = "verify"
    /\ tried' = tried + 1
    /\ At(a, "record")
    /\ UNCHANGED <<counter, failures, expiring, missed, unguarded, unlock, token>>

\* clearLoginFailures, ClearMFAFailures.  A DEL that fails is only logged.
VerifySucceeds(a) ==
    /\ attempt[a] = "verify"
    /\ At(a, "idle")
    /\ KeyGone \/ UNCHANGED keyVars
    /\ UNCHANGED <<counter, token>>

\* CompleteMFALogin: a wrong code of the second step of a login is neither
\* refused by the lock nor counted.
MFALoginFails ==
    /\ counter = "mfa"
    /\ unguarded < MaxUnguarded
    /\ tried' = tried + 1
    /\ unguarded' = unguarded + 1
    /\ UNCHANGED <<counter, failures, expiring, missed, attempt, unlock, token>>

\* Mutant: the failure after the one that locks owes the mail.
RecordLoginFailureLate(a) ==
    /\ counter = "login"
    /\ attempt[a] = "record"
    /\ failures' = failures + 1
    /\ unlock' = IF failures = Threshold THEN "due" ELSE unlock
    /\ At(a, IF failures = Threshold THEN "expire_mail" ELSE "expire")
    /\ UNCHANGED <<counter, expiring, missed, tried, unguarded, token>>

\* recordLoginFailure: INCR; the failure that reaches the threshold owes the
\* user an unlock mail.
RecordLoginFailure(a) ==
    /\ counter = "login"
    /\ attempt[a] = "record"
    /\ failures' = failures + 1
    /\ unlock' = IF failures' = Threshold THEN "due" ELSE unlock
    /\ At(a, IF failures' = Threshold THEN "expire_mail" ELSE "expire")
    /\ UNCHANGED <<counter, expiring, missed, tried, unguarded, token>>

\* RecordMFAFailure: INCR.
RecordMFAFailure(a) ==
    /\ counter = "mfa"
    /\ attempt[a] = "record"
    /\ failures' = failures + 1
    /\ At(a, "expire")
    /\ UNCHANGED <<counter, expiring, missed, tried, unguarded, unlock, token>>

\* Mutant: only the first failure sets the time to live.
SetExpiryFirst(a) ==
    /\ attempt[a] \in {"expire", "expire_mail"}
    /\ At(a, IF attempt[a] = "expire_mail" THEN "mail" ELSE "idle")
    /\ expiring' = (expiring \/ failures = 1)
    /\ UNCHANGED <<counter, failures, missed, tried, unguarded, unlock, token>>

\* EXPIRE; it does nothing to a key that is gone.
SetExpiry(a) ==
    /\ attempt[a] \in {"expire", "expire_mail"}
    /\ At(a, IF attempt[a] = "expire_mail" THEN "mail" ELSE "idle")
    /\ expiring' = (failures > 0)
    /\ UNCHANGED <<counter, failures, missed, tried, unguarded, unlock, token>>

\* EXPIRE fails: it is logged, and the mail goes out all the same.
SetExpiryFails(a) ==
    /\ attempt[a] \in {"expire", "expire_mail"}
    /\ At(a, IF attempt[a] = "expire_mail" THEN "mail" ELSE "idle")
    /\ missed' = (missed \/ failures > 0)
    /\ UNCHANGED <<counter, failures, expiring, tried, unguarded, unlock, token>>

\* CreateUnlockToken and SendAccountUnlock, or either fails.
MailUnlock(a) ==
    /\ attempt[a] = "mail"
    /\ At(a, "idle")
    /\ \/ token' = TRUE /\ unlock' = IF unlock = "due" THEN "sent" ELSE unlock
       \/ token' = token /\ unlock' = IF unlock = "due" THEN "lost" ELSE unlock
    /\ UNCHANGED <<counter, failures, expiring, missed, tried, unguarded>>

\* The process stops; or the user's row cannot be read, or is inactive; or INCR
\* fails, and the failure is not counted.
AttemptStops(a) ==
    /\ attempt[a] # "idle"
    /\ At(a, "idle")
    /\ \/ attempt[a] # "record" /\ unguarded' = unguarded
       \/ attempt[a] = "record" /\ unguarded < MaxUnguarded /\ unguarded' = unguarded + 1
    /\ missed' = (missed \/ (attempt[a] \in {"expire", "expire_mail"} /\ failures > 0))
    /\ unlock' = IF attempt[a] \in {"expire_mail", "mail"} /\ unlock = "due" THEN "lost" ELSE unlock
    /\ UNCHANGED <<counter, failures, expiring, tried, token>>

\* The key's time to live is over.
KeyExpires ==
    /\ expiring
    /\ KeyGone
    /\ UNCHANGED <<counter, attempt, token>>

\* UnlockAccount spends a token; another may be left.  A DEL that fails is only
\* logged.
UnlockAccount ==
    /\ token
    /\ token' \in BOOLEAN
    /\ KeyGone \/ UNCHANGED keyVars
    /\ UNCHANGED <<counter, attempt>>

LockNext ==
    \/ \E a \in Attempts :
         \/ CheckLockout(a)
         \/ CheckFailsOpen(a)
         \/ VerifyFails(a)
         \/ VerifySucceeds(a)
         \/ RecordLoginFailure(a)
         \/ RecordMFAFailure(a)
         \/ SetExpiry(a)
         \/ SetExpiryFails(a)
         \/ MailUnlock(a)
         \/ AttemptStops(a)
    \/ MFALoginFails
    \/ KeyExpires
    \/ UnlockAccount

\* Commands sent to Redis are answered, and Redis expires keys.
LockFairness ==
    /\ WF_lockVars(KeyExpires)
    /\ \A a \in Attempts : WF_lockVars(SetExpiry(a))

LockSpec == LockInit /\ [][LockNext]_lockVars /\ LockFairness

----------------------------------------------------------------------------
LockTypeOK ==
    /\ counter \in {"login", "mfa"}
    /\ failures \in Nat
    /\ expiring \in BOOLEAN
    /\ missed \in BOOLEAN
    /\ tried \in Nat
    /\ unguarded \in Nat
    /\ attempt \in [Attempts -> {"idle", "verify", "record", "expire", "expire_mail", "mail"}]
    /\ unlock \in {"none", "due", "sent", "lost"}
    /\ token \in BOOLEAN

\* The wrong secrets tried in one life of the key exceed the threshold by less
\* than the number of attempts that overlap, and one more for each attempt the
\* counter does not hold back: one let in by a GET that failed, one whose INCR
\* was lost, one made in the second step of a login.
AttemptsBounded == tried < Threshold + Cardinality(Attempts) + unguarded

\* A locked login has its unlock mail: INCR hands the threshold to exactly one
\* attempt of each life of the key.
LockedHasMail == (counter = "login" /\ Locked) => unlock # "none"

\* A lock ends by itself, however late the EXPIRE comes after the INCR that
\* locked, unless an EXPIRE was lost and no later one made up for it.
LockEnds == Locked ~> (~Locked \/ (missed /\ ~expiring))

\* A lock comes in time and with its way out: attempts that overlap cannot try
\* many more secrets than the threshold, but for those the counter does not hold
\* back, and a locked login has its mail.
LockoutSound == LockTypeOK /\ AttemptsBounded /\ LockedHasMail
=============================================================================
