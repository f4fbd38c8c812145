--------------------------- MODULE Limits_Proofs ----------------------------
(***************************************************************************)
(* Proofs about the three limits of the AI traffic: the worker's           *)
(* semaphore, the guard of the web agent's runs and the daily token        *)
(* budget. What carries them: each counter is compared with the set of     *)
(* requests it stands for, and what is under way is part of the bound.     *)
(***************************************************************************)
EXTENDS DynamicSemaphore, WebAgentLimiter, SpendLimiter, FiniteSetTheorems, TLAPS

\* Subsets of a finite set are counted, and one element more or less counts.
LEMMA SubsetSize ==
  ASSUME NEW U, IsFiniteSet(U), NEW S \in SUBSET U, NEW c
  PROVE  /\ Cardinality(S) \in Nat /\ Cardinality(U) \in Nat
         /\ Cardinality(S) <= Cardinality(U)
         /\ c \in S => Cardinality(S \ {c}) = Cardinality(S) - 1 /\ Cardinality(S) >= 1
         /\ c \notin S => Cardinality(S \cup {c}) = Cardinality(S) + 1
<1>1. IsFiniteSet(S)
  BY FS_Subset
<1>2. Cardinality(S) \in Nat /\ Cardinality(U) \in Nat /\ Cardinality(S) <= Cardinality(U)
  BY <1>1, FS_Subset, FS_CardinalityType
<1>3. c \in S => Cardinality(S) # 0
  BY <1>1, FS_EmptySet
<1>4. c \in S => Cardinality(S \ {c}) = Cardinality(S) - 1
  BY <1>1, FS_RemoveElement
<1>5. c \notin S => Cardinality(S \cup {c}) = Cardinality(S) + 1
  BY <1>1, FS_AddElement
<1> QED
  BY <1>2, <1>3, <1>4, <1>5

-----------------------------------------------------------------------------
(* The worker's semaphore *)

\* A set of callers is finite, and adding or removing one of them counts.
LEMMA CallersSize ==
  ASSUME NEW S \in SUBSET Callers, NEW c
  PROVE  /\ Cardinality(S) \in Nat /\ Cardinality(Callers) \in Nat
         /\ Cardinality(S) <= Cardinality(Callers)
         /\ c \in S => Cardinality(S \ {c}) = Cardinality(S) - 1 /\ Cardinality(S) >= 1
         /\ c \notin S => Cardinality(S \cup {c}) = Cardinality(S) + 1
BY CallersAssumption, SubsetSize

\* The counted sets are sets of callers.
LEMMA CountedSets == Inside \in SUBSET Callers /\ Parked \in SUBSET Callers
BY DEF Inside, Parked

\* Smaller is one of its arguments.
LEMMA SmallerType ==
  ASSUME NEW m \in Nat, NEW n \in Nat
  PROVE  Smaller(m, n) \in Nat /\ Smaller(m, n) <= m /\ Smaller(m, n) <= n
BY DEF Smaller

\* What is left up to the limit, or the waiters when they are fewer.
LEMMA SmallerGap ==
  ASSUME NEW m \in Nat, NEW n \in Nat, NEW w \in Nat, m < n
  PROVE  Smaller(n - m, w) \in Nat
BY DEF Smaller

\* Two counters that are counted down together keep their order.
LEMMA CountDown ==
  ASSUME NEW w \in Nat, NEW p \in Nat, p >= 1, w >= p
  PROVE  w - 1 \in Nat /\ p - 1 \in Nat /\ w - 1 >= p - 1
OBVIOUS

\* The number of callers, and of those inside, is a natural number.
LEMMA ActiveType == Cardinality(Callers) \in Nat /\ (SemTypeOK => active \in Nat)
<1>1. Cardinality(Callers) \in Nat
  BY FS_CardinalityType, CallersAssumption
<1> QED
  BY <1>1 DEF SemTypeOK

\* The limit in force is at least 1, also when none is set.
LEMMA EffectiveLimitType == SemTypeOK => EffectiveLimit \in Nat \ {0}
BY LimitsAssumption DEF SemTypeOK, EffectiveLimit

\* Nobody is inside, nobody waits.
LEMMA SemInitInv == SemInit => SlotsCounted
<1> SUFFICES ASSUME SemInit PROVE SlotsCounted
  OBVIOUS
<1>1. Inside = {} /\ Parked = {}
  BY DEF SemInit, Inside, Parked
<1>2. Cardinality({}) = 0 /\ Cardinality(Callers) \in Nat
  BY FS_EmptySet, FS_CardinalityType, CallersAssumption
<1>3. SemTypeOK
  BY <1>2, CapAssumption DEF SemInit, SemTypeOK, CallerStates
<1> QED
  BY <1>1, <1>2, <1>3 DEF SlotsCounted, ActiveExact, WaitersCounted, SemInit

\* A slot is taken, or the caller parks and is counted.
LEMMA TryAcquireInv ==
  ASSUME SlotsCounted, NEW c \in Callers, TryAcquire(c)
  PROVE  SlotsCounted'
<1>1. SemTypeOK /\ caller[c] = "acquiring" /\ UNCHANGED <<tokens, limit, toWake>>
  BY DEF SlotsCounted, TryAcquire
<1>2. c \notin Inside /\ c \notin Parked
  BY <1>1 DEF Inside, Parked
<1>3. CASE active' = active + 1 /\ CallerAt(c, "in") /\ UNCHANGED waiting
  <2>1. Inside' = Inside \cup {c} /\ Parked' = Parked /\ caller' \in [Callers -> CallerStates]
    BY <1>1, <1>2, <1>3 DEF CallerAt, Inside, Parked, SemTypeOK, CallerStates
  <2>2. Inside' \in SUBSET Callers
    BY DEF Inside
  <2>3. Cardinality(Inside \cup {c}) = Cardinality(Inside) + 1 /\ active = Cardinality(Inside)
    BY <1>2, CallersSize, CountedSets DEF SlotsCounted, ActiveExact
  <2>4. Cardinality(Inside') \in Nat /\ Cardinality(Callers) \in Nat /\ Cardinality(Inside') <= Cardinality(Callers)
    BY <2>2, CallersSize
  <2>5. active' = Cardinality(Inside') /\ active' \in 0..Cardinality(Callers)
    BY <1>3, <2>1, <2>3, <2>4
  <2> QED
    BY <1>1, <1>3, <2>1, <2>5 DEF SlotsCounted, ActiveExact, WaitersCounted, SemTypeOK
<1>4. CASE waiting' = waiting + 1 /\ CallerAt(c, "parked") /\ UNCHANGED active
  <2>1. Inside' = Inside /\ Parked' = Parked \cup {c} /\ caller' \in [Callers -> CallerStates]
    BY <1>1, <1>2, <1>4 DEF CallerAt, Inside, Parked, SemTypeOK, CallerStates
  <2>2. Cardinality(Parked \cup {c}) = Cardinality(Parked) + 1 /\ Cardinality(Parked) \in Nat
    BY <1>2, CallersSize, CountedSets
  <2>3. waiting \in Nat /\ waiting' \in Nat /\ waiting' >= Cardinality(Parked')
    BY <1>1, <1>4, <2>1, <2>2 DEF SlotsCounted, WaitersCounted, SemTypeOK
  <2> QED
    BY <1>1, <1>4, <2>1, <2>3 DEF SlotsCounted, ActiveExact, WaitersCounted, SemTypeOK
<1> QED
  BY <1>3, <1>4 DEF TryAcquire, ParkCounted

\* A caller moves from one place that is counted nowhere, or in the same way,
\* to another.
LEMMA PlainMoveInv ==
  ASSUME SlotsCounted, NEW c \in Callers, NEW l \in CallerStates, CallerAt(c, l),
         caller[c] # "in", l # "in",
         (c \in Parked) <=> (l \in {"parked", "woken", "giving up"}),
         tokens' \in 0..ChanCap, UNCHANGED <<active, waiting, limit>>, toWake' \in [Callers -> Nat]
  PROVE  SlotsCounted'
<1>1. Inside' = Inside /\ caller' \in [Callers -> CallerStates] /\ Parked' = Parked
  BY DEF CallerAt, Inside, Parked, SemTypeOK, SlotsCounted
<1> QED
  BY <1>1 DEF SlotsCounted, ActiveExact, WaitersCounted, SemTypeOK

\* A caller that was woken or gives up is no longer counted as waiting.
LEMMA StopWaitingInv ==
  ASSUME SlotsCounted, NEW c \in Callers, StopWaiting(c)
  PROVE  SlotsCounted'
<1>1. /\ SemTypeOK /\ caller[c] \in {"woken", "giving up"} /\ UNCHANGED <<tokens, limit, toWake>>
      /\ waiting' = waiting - 1
  BY DEF SlotsCounted, StopWaiting
<1>2. active \in Nat
  BY <1>1, ActiveType
<1>3. active' = active - 0
  BY DEF StopWaiting, GiveUpSlots
<1>4. active' = active
  BY <1>2, <1>3
<1>5. c \in Parked /\ c \notin Inside
  BY <1>1 DEF Inside, Parked
<1>6. Inside' = Inside /\ Parked' = Parked \ {c} /\ caller' \in [Callers -> CallerStates]
  BY <1>1, <1>5 DEF CallerAt, Inside, Parked, SemTypeOK, StopWaiting, CallerStates
<1>7. Cardinality(Parked \ {c}) = Cardinality(Parked) - 1 /\ Cardinality(Parked) >= 1
      /\ Cardinality(Parked) \in Nat
  BY <1>5, CallersSize, CountedSets
<1>8. waiting \in Nat /\ waiting >= Cardinality(Parked)
  BY DEF SlotsCounted, WaitersCounted, SemTypeOK
<1>9. waiting' \in Nat /\ waiting' >= Cardinality(Parked')
  BY <1>1, <1>6, <1>7, <1>8, CountDown
<1> QED
  BY <1>1, <1>4, <1>6, <1>9 DEF SlotsCounted, ActiveExact, WaitersCounted, SemTypeOK

\* Release gives back a slot that was counted: active cannot be 0.
LEMMA SemReleaseInv ==
  ASSUME SlotsCounted, NEW c \in Callers, SemRelease(c)
  PROVE  SlotsCounted'
<1>1. SemTypeOK /\ caller[c] = "in" /\ UNCHANGED <<waiting, tokens, limit>> /\ CallerAt(c, "waking")
  BY DEF SlotsCounted, SemRelease
<1>2. c \in Inside /\ c \notin Parked
  BY <1>1 DEF Inside, Parked
<1>3. Inside' = Inside \ {c} /\ Parked' = Parked /\ caller' \in [Callers -> CallerStates]
  BY <1>1, <1>2 DEF CallerAt, Inside, Parked, SemTypeOK, CallerStates
<1>4. /\ Cardinality(Inside \ {c}) = Cardinality(Inside) - 1
      /\ Cardinality(Inside) \in Nat /\ Cardinality(Inside) >= 1
      /\ Cardinality(Inside) <= Cardinality(Callers)
  BY <1>2, CallersSize, CountedSets
<1>5. active = Cardinality(Inside)
  BY DEF SlotsCounted, ActiveExact
<1>6. active > 0 => active' = active - 1
  BY DEF SemRelease
<1>7. active' = active - 1 /\ active' = Cardinality(Inside') /\ active' \in 0..Cardinality(Callers)
  BY <1>3, <1>4, <1>5, <1>6, ActiveType
<1>8. toWake' \in [Callers -> Nat]
  <2>1. toWake \in [Callers -> Nat] /\ active' \in Nat /\ waiting \in Nat /\ EffectiveLimit \in Nat
    BY <1>1, <1>4, <1>7, EffectiveLimitType DEF SemTypeOK
  <2>2. active' < EffectiveLimit => Smaller(EffectiveLimit - active', waiting) \in Nat
    BY <2>1, SmallerGap
  <2>3. toWake' = [toWake EXCEPT ![c] = IF waiting > 0 /\ active' < EffectiveLimit
                                          THEN Smaller(EffectiveLimit - active', waiting) ELSE 0]
    BY DEF SemRelease
  <2> QED
    BY <2>1, <2>2, <2>3
<1> QED
  BY <1>1, <1>3, <1>7, <1>8 DEF SlotsCounted, ActiveExact, WaitersCounted, SemTypeOK

\* A token is sent or dropped, or Release is over.
LEMMA WakeInv ==
  ASSUME SlotsCounted, NEW c \in Callers, Wake(c)
  PROVE  SlotsCounted'
<1>1. SemTypeOK /\ caller[c] = "waking" /\ UNCHANGED <<active, waiting, limit>>
  BY DEF SlotsCounted, Wake
<1>2. CASE toWake[c] > 0 /\ UNCHANGED caller
  <2>1. tokens' = Smaller(tokens + 1, ChanCap) /\ toWake' = [toWake EXCEPT ![c] = @ - 1]
    BY <1>2 DEF Wake, SemTypeOK, SlotsCounted
  <2>2. tokens' \in 0..ChanCap
    BY <1>1, <2>1, CapAssumption DEF SemTypeOK, Smaller
  <2>3. toWake' \in [Callers -> Nat]
    BY <1>1, <1>2, <2>1 DEF SemTypeOK
  <2>4. Inside' = Inside /\ Parked' = Parked
    BY <1>2 DEF Inside, Parked
  <2> QED
    BY <1>1, <1>2, <2>2, <2>3, <2>4 DEF SlotsCounted, ActiveExact, WaitersCounted, SemTypeOK
<1>3. CASE CallerAt(c, "out") /\ UNCHANGED <<tokens, toWake>>
  BY <1>1, <1>3, PlainMoveInv DEF CallerStates, SemTypeOK, Parked
<1> QED
  BY <1>2, <1>3 DEF Wake

\* Every step keeps the counters right.
LEMMA SemNextInv == SlotsCounted /\ [SemNext]_semVars => SlotsCounted'
<1> SUFFICES ASSUME SlotsCounted, [SemNext]_semVars PROVE SlotsCounted'
  OBVIOUS
<1> USE DEF SlotsCounted
<1>1. ASSUME UNCHANGED <<active, waiting, caller>>, tokens' = tokens, toWake' = toWake, limit' \in Limits
      PROVE  SlotsCounted'
  BY <1>1 DEF SlotsCounted, ActiveExact, WaitersCounted, SemTypeOK, Inside, Parked
<1>2. CASE UNCHANGED semVars
  BY <1>1, <1>2 DEF semVars, SemTypeOK
<1>3. ASSUME NEW n \in Limits, SetLimit(n) PROVE SlotsCounted'
  BY <1>1, <1>3 DEF SetLimit
<1>4. ASSUME NEW c \in Callers, Call(c) PROVE SlotsCounted'
  BY <1>4, PlainMoveInv DEF Call, CallerStates, SemTypeOK, Parked
<1>5. ASSUME NEW c \in Callers, Receive(c) PROVE SlotsCounted'
  <2>1. tokens' \in 0..ChanCap
    BY <1>5, CapAssumption DEF Receive, SemTypeOK
  <2> QED
    BY <1>5, <2>1, PlainMoveInv DEF Receive, CallerStates, SemTypeOK, Parked
<1>6. ASSUME NEW c \in Callers, TimedOut(c) PROVE SlotsCounted'
  <2>1. /\ SemTypeOK /\ caller[c] = "parked" /\ CallerAt(c, "acquiring")
        /\ UNCHANGED <<active, waiting, tokens, limit, toWake>>
    BY <1>6 DEF TimedOut, TimerFires
  <2>2. c \in Parked /\ c \notin Inside
    BY <2>1 DEF Parked, Inside
  <2>3. Inside' = Inside /\ Parked' = Parked \ {c} /\ caller' \in [Callers -> CallerStates]
    BY <2>1, <2>2 DEF CallerAt, Inside, Parked, SemTypeOK, CallerStates
  <2>4. Cardinality(Parked \ {c}) = Cardinality(Parked) - 1 /\ Cardinality(Parked) \in Nat
    BY <2>2, CallersSize, CountedSets
  <2>5. waiting' >= Cardinality(Parked')
    BY <2>1, <2>3, <2>4 DEF WaitersCounted, SemTypeOK
  <2> QED
    BY <2>1, <2>3, <2>5 DEF ActiveExact, WaitersCounted, SemTypeOK
<1>7. ASSUME NEW c \in Callers, ContextDone(c) PROVE SlotsCounted'
  BY <1>7, PlainMoveInv DEF ContextDone, CallerStates, SemTypeOK, Parked
<1> QED
  BY <1>2, <1>3, <1>4, <1>5, <1>6, <1>7, TryAcquireInv, StopWaitingInv, SemReleaseInv, WakeInv
     DEF SemNext, AcquireStep

\* active is the number of jobs inside and waiting covers everyone parked, for
\* any callers, limits and capacity of the channel.
THEOREM SlotsCountedCorrect == SemSpec => []SlotsCounted
BY SemInitInv, SemNextInv, PTL DEF SemSpec

-----------------------------------------------------------------------------
(* The guard of the web agent *)

\* A smaller set of requests has fewer of them.
LEMMA FewerRequests ==
  ASSUME NEW S \in SUBSET Requests, NEW T \in SUBSET S
  PROVE  Cardinality(T) <= Cardinality(S) /\ Cardinality(T) \in Nat /\ Cardinality(S) \in Nat
<1>1. IsFiniteSet(S) /\ T \in SUBSET Requests
  BY LimiterFaultsAssumption, FS_Subset
<1> QED
  BY <1>1, LimiterFaultsAssumption, FS_Subset, SubsetSize

\* The requests that are over, and those in flight whose count was in the limit.
Over   == {r \in Requests : pc[r] = "done"}
Within == {r \in Counted : seen[r] <= Limit}

LimiterShape ==
  /\ present \in BOOLEAN /\ ttl \in BOOLEAN /\ lostKey \in BOOLEAN /\ unarmed \in BOOLEAN
  /\ count \in Int /\ leaked \in Nat
  /\ older \subseteq Requests
  /\ pc \in [Requests -> PCs] /\ seen \in [Requests -> Int]

\* An increment that no decrement will undo belongs to a request that is over;
\* while the key lives it is exactly the sum of these and of the requests in
\* flight, and as many of them as the limit allows have read a count within it.
GuardInv ==
  /\ LimiterShape
  /\ leaked <= Cardinality(Over)
  /\ count <= Cardinality(Counted) + leaked
  /\ count + Cardinality(Over) >= 0
  /\ ~lostKey => count = Cardinality(Counted) + leaked
  /\ ~lostKey => Cardinality(Within) <= Limit
  /\ \A r \in Holding : seen[r] <= Limit

\* The sets that are counted are sets of requests.
LEMMA RequestSets ==
  /\ Counted \in SUBSET Requests /\ Over \in SUBSET Requests /\ Within \in SUBSET Counted
  /\ Within \in SUBSET Requests /\ Holding \in SUBSET Requests
BY DEF Counted, Over, Within, Holding

\* Their sizes are natural numbers.
LEMMA RequestCounts ==
  /\ Cardinality(Counted) \in Nat /\ Cardinality(Over) \in Nat /\ Cardinality(Within) \in Nat
  /\ Cardinality(Within) <= Cardinality(Counted)
BY RequestSets, FewerRequests

\* A request in flight is over.
LEMMA LeavingCounts ==
  ASSUME LimiterShape, NEW r \in Counted, pc' = [pc EXCEPT ![r] = "done"], seen' = seen
  PROVE  /\ Cardinality(Counted') = Cardinality(Counted) - 1
         /\ Cardinality(Over') = Cardinality(Over) + 1
         /\ Cardinality(Within') <= Cardinality(Within) /\ Cardinality(Within') \in Nat
         /\ pc' \in [Requests -> PCs] /\ Holding' \in SUBSET Holding
<1>1. pc \in [Requests -> PCs] /\ r \in Requests /\ pc[r] \notin {"new", "done"}
  BY DEF LimiterShape, Counted
<1>2. Counted' = Counted \ {r} /\ Over' = Over \cup {r} /\ r \notin Over
  BY <1>1 DEF Counted, Over
<1>3. Within' \in SUBSET Within /\ Holding' \in SUBSET Holding /\ pc' \in [Requests -> PCs]
  BY <1>1, <1>2 DEF Within, Holding, PCs
<1>4. Cardinality(Counted \ {r}) = Cardinality(Counted) - 1
  BY RequestSets, SubsetSize, LimiterFaultsAssumption
<1>5. Cardinality(Over \cup {r}) = Cardinality(Over) + 1
  BY <1>2, RequestSets, SubsetSize, LimiterFaultsAssumption
<1>6. Cardinality(Within') <= Cardinality(Within) /\ Cardinality(Within') \in Nat
  BY <1>3, RequestSets, FewerRequests
<1> QED
  BY <1>2, <1>3, <1>4, <1>5, <1>6

\* A request in flight is counted by its key, or leaks: the arithmetic of its end.
LEMMA LeavingInv ==
  ASSUME GuardInv, NEW r \in Counted, Goto(r, "done"), older' \subseteq Requests,
         present' \in BOOLEAN, unarmed' \in BOOLEAN, UNCHANGED <<ttl, seen, lostKey>>,
         \/ count' = count - 1 /\ leaked' = leaked
         \/ count' = count /\ leaked' = leaked + 1
  PROVE  GuardInv'
<1>1. LimiterShape /\ pc' = [pc EXCEPT ![r] = "done"] /\ seen' = seen
  BY DEF GuardInv, Goto
<1>2. /\ Cardinality(Counted') = Cardinality(Counted) - 1
      /\ Cardinality(Over') = Cardinality(Over) + 1
      /\ Cardinality(Within') <= Cardinality(Within) /\ Cardinality(Within') \in Nat
      /\ pc' \in [Requests -> PCs] /\ Holding' \in SUBSET Holding
  BY <1>1, LeavingCounts
<1>3. count \in Int /\ leaked \in Nat /\ Limit \in Nat
  BY LimitAssumption DEF GuardInv, LimiterShape
<1>4. LimiterShape'
  BY <1>1, <1>2, <1>3 DEF LimiterShape
<1>5. /\ leaked' <= Cardinality(Over')
      /\ count' <= Cardinality(Counted') + leaked'
      /\ count' + Cardinality(Over') >= 0
  BY <1>2, <1>3, RequestCounts DEF GuardInv
<1>6. ~lostKey' => count' = Cardinality(Counted') + leaked'
  BY <1>2, <1>3, RequestCounts DEF GuardInv
<1>7. ~lostKey' => Cardinality(Within') <= Limit
  BY <1>2, <1>3, RequestCounts DEF GuardInv
<1> QED
  BY <1>1, <1>2, <1>4, <1>5, <1>6, <1>7 DEF GuardInv

\* A request in flight goes on, or nothing happens to it: the counts stay.
LEMMA StayingInv ==
  ASSUME GuardInv, NEW r \in Counted, NEW l \in {"check", "rollback", "holding"}, Goto(r, l),
         l = "holding" => seen[r] <= Limit,
         older' \subseteq Requests, ttl' \in BOOLEAN, unarmed' \in BOOLEAN,
         UNCHANGED <<present, count, seen, lostKey, leaked>>
  PROVE  GuardInv'
<1>1. LimiterShape /\ pc' = [pc EXCEPT ![r] = l] /\ r \in Requests /\ pc[r] \notin {"new", "done"}
  BY DEF GuardInv, Goto, Counted
<1>2. Counted' = Counted /\ Over' = Over /\ pc' \in [Requests -> PCs]
  BY <1>1 DEF Counted, Over, LimiterShape, PCs
<1>3. Within' = Within
  BY <1>2 DEF Within
<1>4. \A q \in Holding' : seen'[q] <= Limit
  BY <1>1 DEF Holding, GuardInv, LimiterShape
<1>5. LimiterShape'
  BY <1>1, <1>2 DEF LimiterShape
<1> QED
  BY <1>2, <1>3, <1>4, <1>5 DEF GuardInv

\* INCR counts the request; it is within the limit only if everyone counted is.
LEMMA IncrAppliedInv ==
  ASSUME GuardInv, NEW r \in Requests, pc[r] = "new", present' \in BOOLEAN, count' = count + 1,
         seen' = [seen EXCEPT ![r] = count + 1], NEW l \in {"arm", "check"}, Goto(r, l),
         UNCHANGED <<ttl, older, lostKey, leaked, unarmed>>
  PROVE  GuardInv'
<1>1. LimiterShape /\ pc' = [pc EXCEPT ![r] = l] /\ r \notin Counted
  BY DEF GuardInv, Goto, Counted
<1>2. Counted' = Counted \cup {r} /\ Over' = Over /\ pc' \in [Requests -> PCs] /\ Holding' = Holding /\ r \notin Holding
  BY <1>1 DEF Counted, Over, LimiterShape, PCs, Holding
<1>3. Cardinality(Counted') = Cardinality(Counted) + 1
  BY <1>1, <1>2, RequestSets, SubsetSize, LimiterFaultsAssumption
<1>4. count \in Int /\ leaked \in Nat /\ Limit \in Nat
  BY LimitAssumption DEF GuardInv, LimiterShape
<1>5. LimiterShape'
  <2>1. count + 1 \in Int
    BY <1>4
  <2> QED
    BY <1>1, <1>2, <2>1 DEF LimiterShape
<1>6. /\ leaked' <= Cardinality(Over')
      /\ count' <= Cardinality(Counted') + leaked'
      /\ count' + Cardinality(Over') >= 0
  BY <1>2, <1>3, <1>4, RequestCounts DEF GuardInv
<1>7. ~lostKey' => count' = Cardinality(Counted') + leaked'
  BY <1>3, <1>4, RequestCounts DEF GuardInv
<1>8. ~lostKey' => Cardinality(Within') <= Limit
  <2> SUFFICES ASSUME ~lostKey PROVE Cardinality(Within') <= Limit
    OBVIOUS
  <2>1. \A q \in Counted : seen'[q] = seen[q]
    BY <1>1, RequestSets DEF LimiterShape
  <2>2. seen'[r] = count + 1
    BY <1>1 DEF LimiterShape
  <2>3. CASE count + 1 <= Limit
    <3>1. Within' \in SUBSET (Counted')
      BY DEF Within
    <3>2. Counted' \in SUBSET Requests
      BY DEF Counted
    <3>3. Cardinality(Within') <= Cardinality(Counted') /\ Cardinality(Within') \in Nat
      BY <3>1, <3>2, FewerRequests
    <3>4. count = Cardinality(Counted) + leaked /\ Cardinality(Counted) \in Nat
      BY RequestCounts DEF GuardInv
    <3> QED
      BY <1>3, <1>4, <2>3, <3>3, <3>4
  <2>4. CASE ~(count + 1 <= Limit)
    <3>1. Within' = Within
      BY <1>2, <2>1, <2>2, <2>4 DEF Within
    <3> QED
      BY <3>1 DEF GuardInv
  <2> QED
    BY <2>3, <2>4
<1>9. \A q \in Holding' : seen'[q] <= Limit
  BY <1>1, <1>2, RequestSets DEF GuardInv, LimiterShape
<1> QED
  BY <1>5, <1>6, <1>7, <1>8, <1>9 DEF GuardInv

\* An INCR that fails ends the request, whether or not it was applied.
LEMMA IncrFailsInv ==
  ASSUME GuardInv, NEW r \in Requests, pc[r] = "new", Goto(r, "done"), older' \subseteq Requests,
         present' \in BOOLEAN, unarmed' \in BOOLEAN, UNCHANGED <<ttl, seen, lostKey>>,
         \/ count' = count + 1 /\ leaked' = leaked + 1
         \/ count' = count /\ leaked' = leaked
  PROVE  GuardInv'
<1>1. LimiterShape /\ pc' = [pc EXCEPT ![r] = "done"] /\ r \notin Over
  BY DEF GuardInv, Goto, Over
<1>2. Counted' = Counted /\ Over' = Over \cup {r} /\ pc' \in [Requests -> PCs] /\ Holding' = Holding
  BY <1>1 DEF Counted, Over, LimiterShape, PCs, Holding
<1>3. Within' = Within
  BY <1>2 DEF Within
<1>4. Cardinality(Over') = Cardinality(Over) + 1
  BY <1>1, <1>2, RequestSets, SubsetSize, LimiterFaultsAssumption
<1>5. count \in Int /\ leaked \in Nat
  BY DEF GuardInv, LimiterShape
<1>6. LimiterShape'
  <2>1. count' \in Int /\ leaked' \in Nat
    BY <1>5
  <2> QED
    BY <1>1, <1>2, <2>1 DEF LimiterShape
<1>7. /\ leaked' <= Cardinality(Over')
      /\ count' <= Cardinality(Counted') + leaked'
      /\ count' + Cardinality(Over') >= 0
      /\ ~lostKey' => count' = Cardinality(Counted') + leaked'
  BY <1>2, <1>4, <1>5, RequestCounts DEF GuardInv
<1> QED
  BY <1>2, <1>3, <1>6, <1>7 DEF GuardInv

\* The key expires with the increments it held; a request still counted in it
\* is what lostKey records.
LEMMA KeyExpiresInv == GuardInv /\ KeyExpires => GuardInv'
<1> SUFFICES ASSUME GuardInv, KeyExpires PROVE GuardInv'
  OBVIOUS
<1>1. /\ LimiterShape /\ count' = 0 /\ leaked' = 0 /\ present' = FALSE /\ ttl' = FALSE
      /\ lostKey' = (lostKey \/ Counted # {}) /\ UNCHANGED <<older, pc, seen, unarmed>>
  BY DEF GuardInv, KeyExpires
<1>2. Counted' = Counted /\ Over' = Over /\ Holding' = Holding
  BY <1>1 DEF Counted, Over, Holding
<1>3. Within' = Within
  BY <1>1, <1>2 DEF Within
<1>4. LimiterShape'
  <2>1. lostKey' \in BOOLEAN /\ present' \in BOOLEAN /\ ttl' \in BOOLEAN /\ unarmed' \in BOOLEAN
    BY <1>1 DEF LimiterShape
  <2>2. count' = 0 /\ leaked' = 0 
    BY <1>1
  <2>3. older' \subseteq Requests /\ pc' \in [Requests -> PCs] /\ seen' \in [Requests -> Int]
    BY <1>1 DEF LimiterShape
  <2> QED
    BY <2>1, <2>2, <2>3 DEF LimiterShape
<1>5. Cardinality({}) = 0
  BY FS_EmptySet
<1>6. /\ leaked' <= Cardinality(Over')
      /\ count' <= Cardinality(Counted') + leaked'
      /\ count' + Cardinality(Over') >= 0
  BY <1>1, <1>2, RequestCounts
<1>7. ~lostKey' => Counted = {} /\ ~lostKey
  BY <1>1
<1>8. ~lostKey' => count' = Cardinality(Counted') + leaked'
  BY <1>1, <1>2, <1>5, <1>7
<1>9. /\ ~lostKey' => Cardinality(Within') <= Limit
      /\ \A q \in Holding' : seen'[q] <= Limit
  BY <1>1, <1>2, <1>3, <1>7 DEF GuardInv
<1> QED
  BY <1>4, <1>6, <1>8, <1>9 DEF GuardInv

\* Nothing is counted at first.
LEMMA LimiterInitInv == LimiterInit => GuardInv
<1> SUFFICES ASSUME LimiterInit PROVE GuardInv
  OBVIOUS
<1>1. Counted = {} /\ Over = {} /\ Holding = {} /\ Within = {}
  BY DEF LimiterInit, Counted, Over, Holding, Within
<1>2. Cardinality({}) = 0
  BY FS_EmptySet
<1>3. LimiterShape
  <2>1. pc \in [Requests -> PCs] /\ seen \in [Requests -> Int]
    BY DEF LimiterInit, PCs
  <2>2. count = 0 /\ leaked = 0 /\ older = {}
    BY DEF LimiterInit
  <2>3. present \in BOOLEAN /\ ttl \in BOOLEAN /\ lostKey \in BOOLEAN /\ unarmed \in BOOLEAN
    BY DEF LimiterInit
  <2> QED
    BY <2>1, <2>2, <2>3 DEF LimiterShape
<1> QED
  BY <1>1, <1>2, <1>3, LimitAssumption DEF LimiterInit, GuardInv

\* Every step keeps the invariant.
LEMMA LimiterNextInv == GuardInv /\ [LimiterNext]_limiterVars => GuardInv'
<1> SUFFICES ASSUME GuardInv, [LimiterNext]_limiterVars PROVE GuardInv'
  OBVIOUS
<1>1. CASE UNCHANGED limiterVars
  BY <1>1 DEF limiterVars, histVars, GuardInv, LimiterShape, Counted, Over, Within, Holding
<1>2. LimiterShape /\ older \subseteq Requests /\ Counted \subseteq Requests
  BY RequestSets DEF GuardInv, LimiterShape
<1>3. ASSUME NEW r \in Requests, Incr(r) PROVE GuardInv'
  <2>1. CASE /\ Store(count + 1) /\ seen' = [seen EXCEPT ![r] = count + 1]
             /\ Goto(r, IF FirstCounted(count + 1) THEN "arm" ELSE "check")
             /\ UNCHANGED <<older, histVars>>
    <3>1. PICK l \in {"arm", "check"} : Goto(r, l)
      BY <2>1
    <3> QED
      BY <1>3, <2>1, <3>1, IncrAppliedInv DEF Incr, Store, histVars
  <2>2. CASE Store(count + 1) /\ leaked' = leaked + 1 /\ unarmed' = TRUE /\ Finish(r) /\ UNCHANGED <<seen, lostKey>>
    BY <1>2, <1>3, <2>2, IncrFailsInv DEF Incr, Store, Finish
  <2>3. CASE Finish(r) /\ KeepKey /\ UNCHANGED <<seen, histVars>>
    BY <1>2, <1>3, <2>3, IncrFailsInv DEF Incr, KeepKey, Finish, histVars, LimiterShape
  <2> QED
    BY <1>3, <2>1, <2>2, <2>3 DEF Incr
<1>4. ASSUME NEW r \in Requests, Expire(r) PROVE GuardInv'
  <2>1. r \in Counted /\ UNCHANGED <<present, count, seen, lostKey, leaked>>
    BY <1>4 DEF Expire, Counted, KeepKey
  <2>2. ttl' \in BOOLEAN /\ older' \subseteq Requests /\ unarmed' \in BOOLEAN
    BY <1>2, <1>4 DEF Expire, SetTTL, LimiterShape
  <2>3. Goto(r, "check") \/ Goto(r, "rollback")
    BY <1>4 DEF Expire
  <2> QED
    BY <2>1, <2>2, <2>3, StayingInv
<1>5. ASSUME NEW r \in Requests, CheckLimit(r) PROVE GuardInv'
  <2>1. r \in Counted /\ UNCHANGED <<present, count, seen, lostKey, leaked, ttl, older, unarmed>>
    BY <1>5 DEF CheckLimit, Counted, KeepKey, histVars
  <2>2. (Goto(r, "holding") /\ seen[r] <= Limit) \/ Goto(r, "rollback")
    BY <1>5 DEF CheckLimit, WithinLimit
  <2> QED
    BY <1>2, <2>1, <2>2, StayingInv DEF LimiterShape
<1>6. ASSUME NEW r \in Requests, Rollback(r) \/ Release(r) \/ Crash(r) PROVE GuardInv'
  <2>1. r \in Counted /\ Goto(r, "done") /\ older' \subseteq Requests /\ UNCHANGED <<ttl, seen, lostKey>>
    BY <1>2, <1>6 DEF Rollback, Release, Crash, Counted, Finish
  <2>2. present' \in BOOLEAN /\ unarmed' \in BOOLEAN
    BY <1>2, <1>6 DEF Rollback, Release, Crash, Store, KeepKey, LimiterShape
  <2>3. \/ count' = count - 1 /\ leaked' = leaked
        \/ count' = count /\ leaked' = leaked + 1
    BY <1>6 DEF Rollback, Release, Crash, Store, KeepKey, RolledBack, Released
  <2> QED
    BY <2>1, <2>2, <2>3, LeavingInv
<1> QED
  BY <1>1, <1>3, <1>4, <1>5, <1>6, KeyExpiresInv DEF LimiterNext, RequestStep

\* The guard holds for any requests, limit and faults: the key's value is the
\* requests in flight and the lost decrements, so as long as it does not expire
\* under a request, no more than the limit are let in.
THEOREM GuardCountsCorrect == LimiterSpec => []GuardCounts
<1>1. GuardInv => GuardCounts
  <2> SUFFICES ASSUME GuardInv PROVE GuardCounts
    OBVIOUS
  <2>1. count \in Int /\ leaked \in Nat /\ LimiterShape
    BY DEF GuardInv, LimiterShape
  <2>2. Cardinality(Counted) + Cardinality(Over) <= Cardinality(Requests)
        /\ Cardinality(Requests) \in Nat
    <3>1. Counted \cap Over = {} /\ Counted \cup Over \in SUBSET Requests
      BY DEF Counted, Over
    <3>2. IsFiniteSet(Counted) /\ IsFiniteSet(Over)
      BY RequestSets, LimiterFaultsAssumption, FS_Subset
    <3>3. Cardinality(Counted \cup Over) = Cardinality(Counted) + Cardinality(Over)
      BY <3>1, <3>2, FS_Union, FS_EmptySet, RequestCounts
    <3> QED
      BY <3>1, <3>3, SubsetSize, LimiterFaultsAssumption
  <2>3. Cardinality(Over) <= Cardinality(Requests)
    BY <2>2, RequestCounts
  <2>4. /\ count \in -Cardinality(Requests)..Cardinality(Requests)
        /\ leaked \in 0..Cardinality(Requests)
    BY <2>1, <2>2, <2>3, RequestCounts DEF GuardInv
  <2>5. lostKey \/ Cardinality(Holding) <= Limit
    <3>1. Holding \in SUBSET Within
      BY DEF GuardInv, Holding, Within, Counted
    <3>2. Cardinality(Holding) <= Cardinality(Within) /\ Cardinality(Holding) \in Nat
      BY <3>1, RequestSets, FewerRequests
    <3> QED
      BY <3>2, RequestCounts, LimitAssumption DEF GuardInv
  <2> QED
    BY <2>1, <2>4, <2>5 DEF GuardCounts, LimiterTypeOK, LimiterShape, BoundedWhileKeyLives, NoLockout, GuardInv
<1> QED
  BY <1>1, LimiterInitInv, LimiterNextInv, PTL DEF LimiterSpec

-----------------------------------------------------------------------------
(* The daily token budget: the counter of today and what the requests under
   way may still add to it stay below the bound, and the counters of the days
   to come are zero *)

\* What the requests under way may still add, and the bound of a day.
Pending == Cardinality(calling) * MaxTokens
Ceiling == Budget + (Cardinality(Spenders) + outages) * MaxTokens

SpendInv ==
  /\ SpendTypeOK
  /\ used[day] + Pending < Ceiling
  /\ \A d \in 0..LastDay : d < day => used[d] < Ceiling
  /\ \A d \in 0..LastDay : d > day => used[d] = 0

\* Sets of requests are finite, and no larger than the set of all.
LEMMA CallingSize ==
  ASSUME NEW S \in SUBSET Spenders
  PROVE  /\ IsFiniteSet(S)
         /\ Cardinality(S) \in Nat /\ Cardinality(Spenders) \in Nat
         /\ Cardinality(S) <= Cardinality(Spenders)
BY SpendAssumption, FS_Subset, FS_CardinalityType

\* A larger number of requests may add at least as much.
LEMMA TimesMonotone ==
  ASSUME NEW a \in Nat, NEW b \in Nat, NEW m \in Nat, a <= b
  PROVE  a * m <= b * m /\ a * m \in Nat /\ b * m \in Nat
OBVIOUS

\* One request more may add MaxTokens more.
LEMMA TimesStep ==
  ASSUME NEW a \in Nat, NEW m \in Nat
  PROVE  (a + 1) * m = a * m + m
OBVIOUS

\* A request more under way.
LEMMA MoreCalling ==
  ASSUME SpendTypeOK, NEW c \in Spenders, c \notin calling, calling' = calling \cup {c}
  PROVE  /\ calling' \in SUBSET Spenders
         /\ Pending \in Nat
         /\ Pending' = Pending + MaxTokens
         /\ Pending' <= Cardinality(Spenders) * MaxTokens
<1>1. calling \in SUBSET Spenders /\ calling' \in SUBSET Spenders
  BY DEF SpendTypeOK
<1>2. Cardinality(calling') = Cardinality(calling) + 1
  BY <1>1, CallingSize, FS_AddElement
<1>3. /\ Cardinality(calling) \in Nat /\ Cardinality(calling') \in Nat
      /\ Cardinality(Spenders) \in Nat /\ Cardinality(calling') <= Cardinality(Spenders)
  BY <1>1, CallingSize
<1>4. MaxTokens \in Nat
  BY SpendAssumption
<1>5. Cardinality(calling') * MaxTokens = Cardinality(calling) * MaxTokens + MaxTokens
  BY <1>2, <1>3, <1>4, TimesStep
<1>6. Cardinality(calling') * MaxTokens <= Cardinality(Spenders) * MaxTokens
  BY <1>3, <1>4, TimesMonotone
<1>7. Cardinality(calling) * MaxTokens \in Nat
  BY <1>3, <1>4, TimesMonotone
<1> QED
  BY <1>1, <1>5, <1>6, <1>7 DEF Pending

\* A request less under way.
LEMMA LessCalling ==
  ASSUME SpendTypeOK, NEW c \in calling, calling' = calling \ {c}
  PROVE  /\ calling' \in SUBSET Spenders
         /\ Pending' \in Nat
         /\ Pending = Pending' + MaxTokens
<1>1. calling \in SUBSET Spenders /\ calling' \in SUBSET Spenders
  BY DEF SpendTypeOK
<1>2. Cardinality(calling') = Cardinality(calling) - 1
  BY <1>1, CallingSize, FS_RemoveElement
<1>3. Cardinality(calling) \in Nat /\ Cardinality(calling') \in Nat /\ MaxTokens \in Nat
  BY <1>1, CallingSize, SpendAssumption
<1>4. Cardinality(calling) = Cardinality(calling') + 1
  BY <1>2, <1>3
<1>5. Cardinality(calling) * MaxTokens = Cardinality(calling') * MaxTokens + MaxTokens
  BY <1>3, <1>4, TimesStep
<1>6. Cardinality(calling') * MaxTokens \in Nat
  BY <1>3, TimesMonotone
<1> QED
  BY <1>1, <1>5, <1>6 DEF Pending

\* The bound, and what it leaves beside all the requests under way.
LEMMA CeilingFacts ==
  ASSUME SpendTypeOK
  PROVE  /\ Ceiling \in Nat
         /\ Budget + Cardinality(Spenders) * MaxTokens <= Ceiling
         /\ Cardinality(Spenders) * MaxTokens \in Nat
         /\ Pending \in Nat /\ Pending <= Cardinality(Spenders) * MaxTokens
<1>1. outages \in Nat /\ MaxTokens \in Nat /\ Budget \in Nat /\ Cardinality(Spenders) \in Nat
  BY SpendAssumption, CallingSize DEF SpendTypeOK
<1>2. /\ (Cardinality(Spenders) + outages) * MaxTokens \in Nat
      /\ Cardinality(Spenders) * MaxTokens \in Nat
      /\ Cardinality(Spenders) * MaxTokens <= (Cardinality(Spenders) + outages) * MaxTokens
  <2>1. Cardinality(Spenders) <= Cardinality(Spenders) + outages
        /\ Cardinality(Spenders) + outages \in Nat
    BY <1>1
  <2> QED
    BY <1>1, <2>1, TimesMonotone
<1>3. Pending \in Nat /\ Pending <= Cardinality(Spenders) * MaxTokens
  BY <1>1, CallingSize, TimesMonotone DEF Pending, SpendTypeOK
<1> QED
  BY <1>1, <1>2, <1>3 DEF Ceiling

\* Nothing is spent at first.
LEMMA SpendInitInv == SpendInit => SpendInv
<1> SUFFICES ASSUME SpendInit PROVE SpendInv
  OBVIOUS
<1>1. SpendTypeOK
  BY SpendAssumption DEF SpendInit, SpendTypeOK
<1>2. used[day] = 0 /\ \A d \in 0..LastDay : ~(d < day) /\ used[d] = 0
  BY SpendAssumption DEF SpendInit
<1>3. Pending < Ceiling
  BY <1>1, CeilingFacts, SpendAssumption
<1> QED
  BY <1>1, <1>2, <1>3, CeilingFacts DEF SpendInv

\* A check that passes.
LEMMA SpendCheckInv ==
  ASSUME SpendInv, NEW c \in Spenders, SpendCheck(c)
  PROVE  SpendInv'
<1>1. SpendTypeOK /\ c \notin calling /\ calling' = calling \cup {c} /\ used[day] < Budget
      /\ UNCHANGED <<day, used, outages>>
  BY DEF SpendInv, SpendCheck
<1>2. SpendTypeOK' /\ Ceiling' = Ceiling
  BY <1>1, MoreCalling DEF SpendTypeOK, Ceiling
<1>3. used'[day'] + Pending' < Ceiling'
  <2>1. used[day] \in Nat /\ Budget \in Nat
    BY <1>1, SpendAssumption DEF SpendTypeOK
  <2>2. Pending' \in Nat
    BY <1>1, MoreCalling, SpendAssumption
  <2> QED
    BY <1>1, <1>2, <2>1, <2>2, MoreCalling, CeilingFacts
<1> QED
  BY <1>1, <1>2, <1>3 DEF SpendInv

\* A check that passes because the counter cannot be read.
LEMMA SpendCheckFailsInv ==
  ASSUME SpendInv, NEW c \in Spenders, SpendCheckFails(c)
  PROVE  SpendInv'
<1>1. SpendTypeOK /\ c \notin calling /\ calling' = calling \cup {c}
      /\ outages < MaxOutages /\ outages' = outages + 1 /\ UNCHANGED <<day, used>>
  BY DEF SpendInv, SpendCheckFails
<1>2. SpendTypeOK'
  BY <1>1, MoreCalling, SpendAssumption DEF SpendTypeOK
<1>3. Ceiling' = Ceiling + MaxTokens
  <2>1. Cardinality(Spenders) + outages \in Nat /\ outages \in Nat /\ Cardinality(Spenders) \in Nat
        /\ MaxTokens \in Nat /\ Budget \in Nat
    BY <1>1, CallingSize, SpendAssumption DEF SpendTypeOK
  <2>2. (Cardinality(Spenders) + outages) + 1 = Cardinality(Spenders) + outages'
    BY <1>1, <2>1
  <2>3. (Cardinality(Spenders) + outages') * MaxTokens
          = (Cardinality(Spenders) + outages) * MaxTokens + MaxTokens
    BY <2>1, <2>2, TimesStep
  <2>4. (Cardinality(Spenders) + outages) * MaxTokens \in Nat
    BY <2>1, TimesMonotone
  <2> QED
    BY <2>1, <2>3, <2>4 DEF Ceiling
<1>4. /\ used'[day'] + Pending' < Ceiling'
      /\ \A d \in 0..LastDay : d < day => used[d] < Ceiling'
  <2>1. used \in [0..LastDay -> Nat] /\ day \in 0..LastDay /\ MaxTokens \in Nat
    BY <1>1, SpendAssumption DEF SpendTypeOK
  <2>2. Ceiling \in Nat /\ Pending \in Nat /\ Pending' = Pending + MaxTokens
    BY <1>1, CeilingFacts, MoreCalling
  <2> QED
    BY <1>1, <1>3, <2>1, <2>2 DEF SpendInv
<1> QED
  BY <1>1, <1>2, <1>4 DEF SpendInv

\* A request is charged.
LEMMA SpendRecordInv ==
  ASSUME SpendInv, NEW c \in Spenders, NEW n \in 1..MaxTokens, SpendRecord(c, n)
  PROVE  SpendInv'
<1>1. SpendTypeOK /\ c \in calling /\ calling' = calling \ {c}
      /\ used' = [used EXCEPT ![day] = @ + n] /\ UNCHANGED <<day, outages>>
  BY DEF SpendInv, SpendRecord
<1>2. SpendTypeOK' /\ Ceiling' = Ceiling
  BY <1>1, LessCalling, SpendAssumption DEF SpendTypeOK, Ceiling
<1>3. used[day] \in Nat /\ n \in Nat /\ n <= MaxTokens /\ MaxTokens \in Nat
  BY <1>1, SpendAssumption DEF SpendTypeOK
<1>4. used'[day'] = used[day] + n
  BY <1>1 DEF SpendTypeOK
<1>5. used'[day'] + Pending' < Ceiling'
  <2>1. Pending' \in Nat /\ Pending = Pending' + MaxTokens /\ Ceiling \in Nat
    BY <1>1, LessCalling, CeilingFacts
  <2> QED
    BY <1>2, <1>3, <1>4, <2>1 DEF SpendInv
<1>6. \A d \in 0..LastDay : d # day => used'[d] = used[d]
  BY <1>1 DEF SpendTypeOK
<1> QED
  BY <1>1, <1>2, <1>5, <1>6 DEF SpendInv, SpendTypeOK

\* A request that is not charged.
LEMMA SpendUnrecordedInv ==
  ASSUME SpendInv, NEW c \in Spenders, SpendUnrecorded(c)
  PROVE  SpendInv'
<1>1. SpendTypeOK /\ c \in calling /\ calling' = calling \ {c} /\ UNCHANGED <<day, used, outages>>
  BY DEF SpendInv, SpendUnrecorded
<1>2. SpendTypeOK' /\ Ceiling' = Ceiling
  BY <1>1, LessCalling DEF SpendTypeOK, Ceiling
<1>3. used'[day'] + Pending' < Ceiling'
  <2>1. Pending' \in Nat /\ Pending = Pending' + MaxTokens /\ Ceiling \in Nat /\ MaxTokens \in Nat
    BY <1>1, LessCalling, CeilingFacts, SpendAssumption
  <2>2. used[day] \in Nat
    BY <1>1 DEF SpendTypeOK
  <2> QED
    BY <1>1, <1>2, <2>1, <2>2 DEF SpendInv
<1> QED
  BY <1>1, <1>2, <1>3 DEF SpendInv

\* The day ends with requests under way, which will be charged to the next.
LEMMA MidnightInv == SpendInv /\ Midnight => SpendInv'
<1> SUFFICES ASSUME SpendInv, Midnight PROVE SpendInv'
  OBVIOUS
<1>1. SpendTypeOK /\ day < LastDay /\ day' = day + 1 /\ UNCHANGED <<used, calling, outages>>
  BY DEF SpendInv, Midnight
<1>2. day \in Nat /\ day' \in 0..LastDay /\ LastDay \in Nat /\ Budget \in Nat \ {0}
  BY <1>1, SpendAssumption DEF SpendTypeOK
<1>3. SpendTypeOK' /\ Ceiling' = Ceiling /\ Pending' = Pending
  BY <1>1, <1>2 DEF SpendTypeOK, Ceiling, Pending
<1>4. used'[day'] = 0
  BY <1>1, <1>2 DEF SpendInv
<1>5. Ceiling \in Nat /\ Pending \in Nat /\ Pending < Ceiling
  BY <1>1, <1>2, CeilingFacts
<1>6. used[day] < Ceiling
  BY <1>1, <1>5 DEF SpendInv, SpendTypeOK
<1>7. \A d \in 0..LastDay : d < day' => used'[d] < Ceiling'
  BY <1>1, <1>2, <1>3, <1>6 DEF SpendInv
<1>8. \A d \in 0..LastDay : d > day' => used'[d] = 0
  BY <1>1, <1>2 DEF SpendInv
<1> QED
  BY <1>3, <1>4, <1>5, <1>7, <1>8 DEF SpendInv

\* Every step keeps the invariant.
LEMMA SpendNextInv == SpendInv /\ [SpendNext]_spendVars => SpendInv'
<1> SUFFICES ASSUME SpendInv, [SpendNext]_spendVars PROVE SpendInv'
  OBVIOUS
<1>1. CASE UNCHANGED spendVars
  BY <1>1 DEF spendVars, SpendInv, SpendTypeOK, Pending, Ceiling
<1> QED
  BY <1>1, SpendCheckInv, SpendCheckFailsInv, SpendRecordInv, SpendUnrecordedInv, MidnightInv
     DEF SpendNext

\* The invariant holds of every reachable state.
LEMMA SpendInductive == SpendSpec => []SpendInv
BY SpendInitInv, SpendNextInv, PTL DEF SpendSpec

-----------------------------------------------------------------------------
\* Type correctness.
THEOREM SpendTypeCorrect == SpendSpec => []SpendTypeOK
<1>1. SpendInv => SpendTypeOK
  BY DEF SpendInv
<1> QED
  BY <1>1, SpendInductive, PTL

\* A day's counter stays below the budget and one request of every caller and
\* of every unread check, for any number of callers, days and outages.
THEOREM SpendBoundCorrect == SpendSpec => []SpendBounded
<1>1. SpendInv => SpendBounded
  <2> SUFFICES ASSUME SpendInv, NEW d \in 0..LastDay PROVE used[d] < Ceiling
    BY DEF SpendBounded, Ceiling
  <2>1. day \in Nat /\ d \in Nat /\ used[day] \in Nat /\ Pending \in Nat /\ Ceiling \in Nat
    BY CeilingFacts, SpendAssumption DEF SpendInv, SpendTypeOK
  <2>2. Ceiling > 0
    BY <2>1 DEF SpendInv
  <2> QED
    BY <2>1, <2>2 DEF SpendInv
<1> QED
  BY <1>1, SpendInductive, PTL
=============================================================================
