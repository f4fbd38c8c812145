-------------------------- MODULE DynamicSemaphore --------------------------
(***************************************************************************)
(* dynamicSemaphore, the limiter around AIJobService.Process: a counter    *)
(* under a mutex whose limit is re-read on every call, and a buffered      *)
(* channel of wake-up tokens. A waiter parks outside the mutex on its      *)
(* context, the channel and a one second timer. Each critical section and  *)
(* each channel operation is one step.                                     *)
(***************************************************************************)
EXTENDS Integers, FiniteSets

CONSTANTS
  Callers,     \* goroutines that Acquire and Release
  Limits,      \* values limit() may return, 0 meaning "not set"
  ChanCap,     \* capacity of the token channel, 1024 in the code
  MaxWaiting   \* bound on the waiting counter, which timeouts inflate

ASSUME LimitsAssumption == Limits \subseteq Nat /\ Limits # {}
ASSUME CallersAssumption == IsFiniteSet(Callers)
ASSUME CapAssumption    == ChanCap \in Nat /\ MaxWaiting \in Nat

VARIABLES
  active,   \* s.active
  waiting,  \* s.waiting
  tokens,   \* len(s.ch)
  limit,    \* what limit() returns now
  caller,       \* where each caller stands
  toWake    \* tokens a releasing caller still has to send

semVars == <<active, waiting, tokens, limit, caller, toWake>>

CallerStates == {"out", "acquiring", "parked", "woken", "giving up", "in", "waking"}

SemTypeOK ==
  /\ active  \in 0..Cardinality(Callers)
  /\ waiting \in Nat
  /\ tokens  \in 0..ChanCap
  /\ limit   \in Limits
  /\ caller      \in [Callers -> CallerStates]
  /\ toWake  \in [Callers -> Nat]

SemInit ==
  /\ active = 0 /\ waiting = 0 /\ tokens = 0
  /\ limit \in Limits
  /\ caller     = [c \in Callers |-> "out"]
  /\ toWake = [c \in Callers |-> 0]

CallerAt(c, l) == caller' = [caller EXCEPT ![c] = l]
Smaller(m, n) == IF m < n THEN m ELSE n

\* A limit of zero or less counts as one.
EffectiveLimit == IF limit = 0 THEN 1 ELSE limit

\* EffectiveConcurrency is a setting an administrator may change at any time.
SetLimit(n) ==
  /\ limit # n
  /\ limit' = n
  /\ UNCHANGED <<active, waiting, tokens, caller, toWake>>

Call(c) ==
  /\ caller[c] = "out"
  /\ CallerAt(c, "acquiring")
  /\ UNCHANGED <<active, waiting, tokens, limit, toWake>>

\* Mutant: the caller parks without being counted.
ParkUncounted == waiting

\* waiting++ before the caller parks.
ParkCounted == waiting + 1

\* The critical section at the head of Acquire's loop.
TryAcquire(c) ==
  /\ caller[c] = "acquiring"
  /\ \/ /\ active < EffectiveLimit
        /\ active' = active + 1
        /\ CallerAt(c, "in")
        /\ UNCHANGED waiting
     \/ /\ active >= EffectiveLimit
        /\ waiting < MaxWaiting
        /\ waiting' = ParkCounted
        /\ CallerAt(c, "parked")
        /\ UNCHANGED active
  /\ UNCHANGED <<tokens, limit, toWake>>

\* case <-s.ch
Receive(c) ==
  /\ caller[c] = "parked" /\ tokens > 0
  /\ tokens' = tokens - 1
  /\ CallerAt(c, "woken")
  /\ UNCHANGED <<active, waiting, limit, toWake>>

\* Mutant: the waiter parks without a timer.
NoTimer(c) == FALSE

\* case <-time.After(1s) may fire whenever the caller is parked.
TimerFires(c) == caller[c] = "parked"

\* The timer's branch goes back to the loop and leaves waiting as it is.
TimedOut(c) ==
  /\ TimerFires(c)
  /\ CallerAt(c, "acquiring")
  /\ UNCHANGED <<active, waiting, tokens, limit, toWake>>

\* case <-ctx.Done()
ContextDone(c) ==
  /\ caller[c] = "parked"
  /\ CallerAt(c, "giving up")
  /\ UNCHANGED <<active, waiting, tokens, limit, toWake>>

\* Mutant: a caller that gives up also hands back a slot it never had.
GiveBack == Smaller(active, 1)

\* Giving up leaves active alone.
GiveUpSlots == 0

\* The second critical section of the token and context branches.
StopWaiting(c) ==
  /\ caller[c] \in {"woken", "giving up"}
  /\ waiting' = waiting - 1
  /\ active'  = active - IF caller[c] = "giving up" THEN GiveUpSlots ELSE 0
  /\ CallerAt(c, IF caller[c] = "woken" THEN "acquiring" ELSE "out")
  /\ UNCHANGED <<tokens, limit, toWake>>

\* The critical section of Release: free the slot, decide how many to wake.
SemRelease(c) ==
  LET freed == IF active > 0 THEN active - 1 ELSE 0 IN
  /\ caller[c] = "in"
  /\ active' = freed
  /\ toWake' = [toWake EXCEPT ![c] =
       IF waiting > 0 /\ freed < EffectiveLimit THEN Smaller(EffectiveLimit - freed, waiting) ELSE 0]
  /\ CallerAt(c, "waking")
  /\ UNCHANGED <<waiting, tokens, limit>>

\* The token is sent, or dropped when the channel is full.
Wake(c) ==
  /\ caller[c] = "waking"
  /\ \/ /\ toWake[c] > 0
        /\ tokens' = Smaller(tokens + 1, ChanCap)
        /\ toWake' = [toWake EXCEPT ![c] = @ - 1]
        /\ UNCHANGED caller
     \/ /\ toWake[c] = 0
        /\ CallerAt(c, "out")
        /\ UNCHANGED <<tokens, toWake>>
  /\ UNCHANGED <<active, waiting, limit>>

AcquireStep(c) == TryAcquire(c) \/ Receive(c) \/ TimedOut(c) \/ StopWaiting(c)

SemNext ==
  \/ \E n \in Limits : SetLimit(n)
  \/ \E c \in Callers : Call(c) \/ AcquireStep(c) \/ ContextDone(c) \/ SemRelease(c) \/ Wake(c)

SemSpec == SemInit /\ [][SemNext]_semVars

\* A caller inside Acquire keeps going (its timer fires) and Release finishes
\* its sends. A job need never end: nothing is assumed of the step SemRelease.
SemFairness ==
  \A c \in Callers : WF_semVars(AcquireStep(c)) /\ WF_semVars(Wake(c))

-----------------------------------------------------------------------------
Inside == {c \in Callers : caller[c] = "in"}
Parked == {c \in Callers : caller[c] \in {"parked", "woken", "giving up"}}

\* active is exactly the number of jobs between Acquire and Release, whatever
\* timeouts, cancellations and limit changes happened: no slot leaks or is
\* handed out twice.
ActiveExact == active = Cardinality(Inside)

\* Release never underestimates who is waiting, so a parked caller is always
\* counted when it decides how many to wake.
WaitersCounted == waiting >= Cardinality(Parked)

\* No caller stays inside Acquire for ever while a slot is free all along, also
\* when the slot became free because the limit was raised, so that no Release
\* sends a token, or when its token was dropped or taken by someone else, and
\* even if the jobs in the other slots never end.
FreeSlotTaken ==
  \A c \in Callers :
    []<>(caller[c] \notin {"acquiring", "parked", "woken"} \/ active >= EffectiveLimit)

\* The semaphore's two counters are right through timeouts, cancellations,
\* changes of the limit and tokens that reach somebody else: no slot leaks, and
\* Release overlooks nobody who is parked.
SlotsCounted == SemTypeOK /\ ActiveExact /\ WaitersCounted
=============================================================================
