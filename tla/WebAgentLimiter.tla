--------------------------- MODULE WebAgentLimiter ---------------------------
(***************************************************************************)
(* redisWebAgentLimiter: the per-user guard of POST /api/agent/chat, a     *)
(* Redis counter incremented by Acquire and decremented by the release     *)
(* closure. Its time to live is set only by the request that counts to 1.  *)
(* Each Redis command is one step.                                         *)
(***************************************************************************)
EXTENDS Integers, FiniteSets

CONSTANTS
  Requests,   \* the user's chat requests in one workspace, each made once
  Limit,      \* redisWebAgentLimiter.max, 2 by default
  Faults      \* which Redis commands may fail, and whether processes die

AllFaults == {"incr", "arm", "rollback", "release", "crash"}

ASSUME LimitAssumption == Limit \in Nat \ {0}
ASSUME LimiterFaultsAssumption == Faults \subseteq AllFaults /\ IsFiniteSet(Requests)

VARIABLES
  present,   \* the key exists
  count,     \* its value, 0 when it does not
  ttl,       \* the key has a time to live
  older,     \* requests that began before the TTL was set and still go on
  pc,        \* where each request stands
  seen,      \* what its INCR returned
  lostKey,   \* history: the key expired while a request was counted in it
  leaked,    \* history: increments of the key whose decrement will not come
  unarmed    \* history: a process died or failed before its EXPIRE

histVars == <<lostKey, leaked, unarmed>>
limiterVars     == <<present, count, ttl, older, pc, seen, histVars>>

PCs == {"new", "arm", "check", "rollback", "holding", "done"}

LimiterTypeOK ==
  /\ present \in BOOLEAN
  /\ count   \in -Cardinality(Requests)..Cardinality(Requests)
  /\ ttl     \in BOOLEAN
  /\ older   \subseteq Requests
  /\ pc      \in [Requests -> PCs]
  /\ seen    \in [Requests -> Int]
  /\ lostKey \in BOOLEAN
  /\ leaked  \in 0..Cardinality(Requests)
  /\ unarmed \in BOOLEAN

LimiterInit ==
  /\ present = FALSE /\ count = 0 /\ ttl = FALSE /\ older = {}
  /\ lostKey = FALSE /\ leaked = 0 /\ unarmed = FALSE
  /\ pc   = [r \in Requests |-> "new"]
  /\ seen = [r \in Requests |-> 0]

Counted == {r \in Requests : pc[r] \notin {"new", "done"}}
Holding == {r \in Requests : pc[r] = "holding"}

\* INCR and DECR create the key when it is absent.
Store(n) == present' = TRUE /\ count' = n
KeepKey  == UNCHANGED <<present, count>>

Goto(r, l) == pc' = [pc EXCEPT ![r] = l]

\* The request is over, so it no longer holds off the expiry.
Finish(r) == Goto(r, "done") /\ older' = older \ {r}

\* Mutant: the wrong request sets the time to live.
FirstCountedZero(n) == n = 0

\* count == 1: this request sets the time to live.
FirstCounted(n) == n = 1

\* INCR: on an absent key it counts from 0 and sets no time to live. An error
\* refuses the request, also when the command was applied.
Incr(r) ==
  /\ pc[r] = "new"
  /\ \/ /\ Store(count + 1)
        /\ seen' = [seen EXCEPT ![r] = count + 1]
        /\ Goto(r, IF FirstCounted(count + 1) THEN "arm" ELSE "check")
        /\ UNCHANGED <<older, histVars>>
     \/ /\ "incr" \in Faults
        /\ Store(count + 1) /\ leaked' = leaked + 1 /\ unarmed' = TRUE
        /\ Finish(r)
        /\ UNCHANGED <<seen, lostKey>>
     \/ /\ "incr" \in Faults
        /\ Finish(r)
        /\ KeepKey
        /\ UNCHANGED <<seen, histVars>>
  /\ UNCHANGED ttl

\* EXPIRE does nothing on an absent key.
SetTTL ==
  /\ ttl'   = present
  /\ older' = IF present THEN Counted ELSE older

\* EXPIRE by the request that counted to 1: its key may have expired since.
\* An error, applied or not, rolls the increment back.
Expire(r) ==
  /\ pc[r] = "arm"
  /\ \/ SetTTL /\ Goto(r, "check") /\ UNCHANGED unarmed
     \/ /\ "arm" \in Faults
        /\ \/ SetTTL /\ UNCHANGED unarmed
           \/ UNCHANGED <<ttl, older>> /\ unarmed' = TRUE
        /\ Goto(r, "rollback")
  /\ KeepKey
  /\ UNCHANGED <<seen, lostKey, leaked>>

\* Mutant: the limit is compared with the count before this request.
WithinLimitLate(r) == seen[r] - 1 <= Limit

\* count > limit refuses the request.
WithinLimit(r) == seen[r] <= Limit

\* The comparison with the limit, a local step.
CheckLimit(r) ==
  /\ pc[r] = "check"
  /\ Goto(r, IF WithinLimit(r) THEN "holding" ELSE "rollback")
  /\ KeepKey
  /\ UNCHANGED <<ttl, older, seen, histVars>>

\* Mutant: a refused request keeps its increment.
RolledBackNever == count

\* What the rollback leaves.
RolledBack == count - 1

\* DECR of a refused request; its failure is only logged.
Rollback(r) ==
  /\ pc[r] = "rollback"
  /\ \/ Store(RolledBack) /\ UNCHANGED leaked
     \/ "rollback" \in Faults /\ KeepKey /\ leaked' = leaked + 1
  /\ Finish(r)
  /\ UNCHANGED <<ttl, seen, lostKey, unarmed>>

\* What the release leaves. DECR of an absent key makes it -1, with no TTL.
Released == count - 1

\* The release closure, deferred by WebAgentChat on a detached context; its
\* failure is only logged.
Release(r) ==
  /\ pc[r] = "holding"
  /\ \/ Store(Released) /\ UNCHANGED leaked
     \/ "release" \in Faults /\ KeepKey /\ leaked' = leaked + 1
  /\ Finish(r)
  /\ UNCHANGED <<ttl, seen, lostKey, unarmed>>

\* The API process dies while it serves the request.
Crash(r) ==
  /\ "crash" \in Faults
  /\ r \in Counted
  /\ leaked'  = leaked + 1
  /\ unarmed' = (unarmed \/ pc[r] = "arm")
  /\ Finish(r)
  /\ KeepKey
  /\ UNCHANGED <<ttl, seen, lostKey>>

\* The time to live is the run's timeout plus 30 seconds, so every request that
\* was in flight when it was set has ended by then.
TTLOver == ttl /\ older = {}

\* Redis removes the key.
KeyExpires ==
  /\ TTLOver
  /\ present' = FALSE /\ count' = 0 /\ ttl' = FALSE
  /\ lostKey' = (lostKey \/ Counted # {})
  /\ leaked'  = 0
  /\ UNCHANGED <<older, pc, seen, unarmed>>

RequestStep(r) == Incr(r) \/ Expire(r) \/ CheckLimit(r) \/ Rollback(r) \/ Release(r)

LimiterNext == KeyExpires \/ \E r \in Requests : RequestStep(r) \/ Crash(r)

LimiterSpec == LimiterInit /\ [][LimiterNext]_limiterVars

\* A request goes on until it ends, and Redis expires keys that are due.
LimiterFairness ==
  WF_limiterVars(KeyExpires) /\ \A r \in Requests : WF_limiterVars(RequestStep(r))

-----------------------------------------------------------------------------
\* The guard holds whatever commands fail and processes die, for as long as
\* the key has not expired under a request it counts.
BoundedWhileKeyLives == lostKey \/ Cardinality(Holding) <= Limit

\* The counter never exceeds the requests counted in it plus the decrements
\* that failed or died since the key was created, expiries included: when
\* nothing fails, a user with nothing in flight is never locked out.
NoLockout == count <= Cardinality(Counted) + leaked

\* Increments that a crash or a failed release leaves behind do not lock the
\* user out for good: the key expires and the counter comes back to zero or
\* below. (Except after a process died or failed between INCR and EXPIRE, which
\* leaves a count without a time to live.)
LockoutEnds == []<>(count <= 0 \/ Counted # {} \/ unarmed)

\* The guard neither admits too many nor counts what is over, but for the key
\* that expired under a request and the releases that were lost.
GuardCounts == LimiterTypeOK /\ BoundedWhileKeyLives /\ NoLockout
=============================================================================
