---------------------------- MODULE AIJobs_Proofs ----------------------------
(***************************************************************************)
(* Proofs about AIJobs for any sets of jobs and workers, any delivery      *)
(* limit and any faults.                                                   *)
(***************************************************************************)
EXTENDS AIJobs, TLAPS

\* One action of Next, for the case analysis every proof below makes.
LEMMA NextCases ==
  ASSUME Next
  PROVE  \/ \E j \in Jobs : \/ EnqueueJobScope(j) \/ CreateAIJob(j) \/ Publish(j)
                            \/ FailUnpublished(j) \/ EnqueuerCrash(j)
                            \/ CancelAIJob(j) \/ AckWaitExpires(j)
         \/ \E s \in {Session[j] : j \in Jobs} : CancelActiveAIJobsBySession(s)
         \/ \E w \in Workers, j \in Jobs : Deliver(w, j)
         \/ \E w \in Workers : \/ TryMarkAIJobRunning(w) \/ ReadRefused(w) \/ ReadStarted(w)
                               \/ CheckCancelled(w) \/ Report(w) \/ BodySucceeds(w)
                               \/ BodyFails(w) \/ ClassifyError(w) \/ RecordFailure(w)
                               \/ RecordResult(w) \/ Ack(w) \/ NakForRetry(w)
                               \/ MoveToDLQ(w) \/ Term(w) \/ WorkerCrash(w)
BY DEF Next, EnqueueStep, ProcessStep, SettleStep

\* A callback that runs holds a job of Jobs.
HolderHasJob == \A w \in Workers : pc[w] # "idle" => cur[w] \in Jobs

TypeInv == TypeOK /\ HolderHasJob

\* The initial rows, deliveries and dead letters are well typed.
LEMMA TypeInit == Init => TypeInv
BY DeliverAssumption, ReportsAssumption
   DEF Init, TypeInv, TypeOK, HolderHasJob, Active, Terminal, EnqStates, PCs

\* Every action keeps the types.
LEMMA TypeStep == TypeInv /\ [Next]_vars => TypeInv'
<1> SUFFICES ASSUME TypeInv, [Next]_vars PROVE TypeInv'
  OBVIOUS
<1> USE JobsAssumption, DeliverAssumption, ReportsAssumption
<1> USE DEF TypeInv, TypeOK, HolderHasJob, Active, Terminal, EnqStates, PCs,
            rowVars, msgVars, workVars, histVars
<1>1. ASSUME NEW j \in Jobs, EnqueueJobScope(j) PROVE TypeInv'
  BY <1>1 DEF EnqueueJobScope
<1>2. ASSUME NEW j \in Jobs, CreateAIJob(j) PROVE TypeInv'
  BY <1>2 DEF CreateAIJob
<1>3. ASSUME NEW j \in Jobs, Publish(j) PROVE TypeInv'
  <2>1. avail' \in [Jobs -> BOOLEAN]
    BY <1>3 DEF Publish
  <2>2. msg' \in [Jobs -> {"none", "stored", "acked", "termed"}] /\ enq' \in [Jobs -> EnqStates]
    BY <1>3 DEF Publish
  <2> QED
    BY <1>3, <2>1, <2>2 DEF Publish
<1>4. ASSUME NEW j \in Jobs, FailUnpublished(j) PROVE TypeInv'
  BY <1>4 DEF FailUnpublished, FailAIJob
<1>5. ASSUME NEW j \in Jobs, EnqueuerCrash(j) PROVE TypeInv'
  BY <1>5 DEF EnqueuerCrash
<1>6. ASSUME NEW j \in Jobs, CancelAIJob(j) PROVE TypeInv'
  BY <1>6 DEF CancelAIJob, CancelAIJobs
<1>7. ASSUME NEW j \in Jobs, AckWaitExpires(j) PROVE TypeInv'
  BY <1>7 DEF AckWaitExpires
<1>8. ASSUME NEW s, CancelActiveAIJobsBySession(s) PROVE TypeInv'
  BY <1>8 DEF CancelActiveAIJobsBySession, CancelAIJobs
<1>9. ASSUME NEW w \in Workers, NEW j \in Jobs, Deliver(w, j) PROVE TypeInv'
  BY <1>9 DEF Deliver, CanRedeliver
<1>10. ASSUME NEW w \in Workers, TryMarkAIJobRunning(w) PROVE TypeInv'
  BY <1>10 DEF TryMarkAIJobRunning, Runnable, Goto, KeepJob, KeepBody
<1>11. ASSUME NEW w \in Workers, ReadRefused(w) PROVE TypeInv'
  BY <1>11 DEF ReadRefused, Goto, KeepJob, KeepBody
<1>12. ASSUME NEW w \in Workers, ReadStarted(w) PROVE TypeInv'
  BY <1>12 DEF ReadStarted, Goto, KeepJob, KeepBody
<1>13. ASSUME NEW w \in Workers, CheckCancelled(w) PROVE TypeInv'
  BY <1>13 DEF CheckCancelled, Goto, KeepJob, KeepBody
<1>14. ASSUME NEW w \in Workers, Report(w) PROVE TypeInv'
  BY <1>14 DEF Report, UpdateAIJobProgressDetail, Goto, KeepJob
<1>15. ASSUME NEW w \in Workers, BodySucceeds(w) PROVE TypeInv'
  BY <1>15 DEF BodySucceeds, UpdateAIJobProgressDetail, Goto, KeepJob, KeepBody
<1>16. ASSUME NEW w \in Workers, BodyFails(w) PROVE TypeInv'
  BY <1>16 DEF BodyFails, Goto, KeepJob
<1>17. ASSUME NEW w \in Workers, ClassifyError(w) PROVE TypeInv'
  BY <1>17 DEF ClassifyError, Goto, KeepJob, KeepBody
<1>18. ASSUME NEW w \in Workers, RecordFailure(w) PROVE TypeInv'
  <2>1. cur[w] \in Jobs
    BY <1>18 DEF RecordFailure
  <2>2. finished' \in [Jobs -> BOOLEAN]
    BY <1>18, <2>1 DEF RecordFailure, FailAIJob
  <2>3. status' \in [Jobs -> {"none"} \cup Active \cup Terminal]
    BY <1>18, <2>1 DEF RecordFailure, FailAIJob
  <2> QED
    BY <1>18, <2>2, <2>3 DEF RecordFailure, Goto, KeepJob, KeepBody
<1>19. ASSUME NEW w \in Workers, RecordResult(w) PROVE TypeInv'
  <2>1. cur[w] \in Jobs
    BY <1>19 DEF RecordResult
  <2>2. finished' \in [Jobs -> BOOLEAN]
    BY <1>19, <2>1 DEF RecordResult, CompleteAIJob
  <2>3. status' \in [Jobs -> {"none"} \cup Active \cup Terminal]
    BY <1>19, <2>1 DEF RecordResult, CompleteAIJob
  <2> QED
    BY <1>19, <2>2, <2>3 DEF RecordResult, Goto, KeepJob, KeepBody
<1>20. ASSUME NEW w \in Workers, Ack(w) PROVE TypeInv'
  BY <1>20 DEF Ack, Release, Goto
<1>21. ASSUME NEW w \in Workers, NakForRetry(w) PROVE TypeInv'
  <2>1. avail' \in [Jobs -> BOOLEAN]
    BY <1>21 DEF NakForRetry, Nak, CanRedeliver
  <2> QED
    BY <1>21, <2>1 DEF NakForRetry, Release, Goto
<1>22. ASSUME NEW w \in Workers, MoveToDLQ(w) PROVE TypeInv'
  <2>1. avail' \in [Jobs -> BOOLEAN] /\ dlqFailed' \in [Jobs -> BOOLEAN]
    BY <1>22 DEF MoveToDLQ, Nak, CanRedeliver
  <2>2. dlq' \in [Jobs -> Nat]
    BY <1>22 DEF MoveToDLQ
  <2> QED
    BY <1>22, <2>1, <2>2 DEF MoveToDLQ, Release, Goto, KeepJob, KeepBody
<1>23. ASSUME NEW w \in Workers, Term(w) PROVE TypeInv'
  BY <1>23 DEF Term, Release, Goto
<1>24. ASSUME NEW w \in Workers, WorkerCrash(w) PROVE TypeInv'
  BY <1>24 DEF WorkerCrash, Release, Goto
<1>25. CASE UNCHANGED vars
  BY <1>25 DEF vars
<1> QED
  BY <1>1, <1>2, <1>3, <1>4, <1>5, <1>6, <1>7, <1>8, <1>9, <1>10, <1>11, <1>12,
     <1>13, <1>14, <1>15, <1>16, <1>17, <1>18, <1>19, <1>20, <1>21, <1>22, <1>23,
     <1>24, <1>25, NextCases, Zenon

\* Type correctness of the job pipeline.
THEOREM TypeCorrect == Spec => []TypeOK
<1>1. Spec => []TypeInv
  BY TypeInit, TypeStep, PTL DEF Spec
<1>2. TypeInv => TypeOK
  BY DEF TypeInv
<1> QED
  BY <1>1, <1>2, PTL

-----------------------------------------------------------------------------
(* No accepted job is silently lost *)

\* A terminal status always comes with finished_at.
TerminalFinished == \A j \in Jobs : status[j] \in Terminal => finished[j]

\* A callback about to ack has a reason to: its row is finished, or the error
\* it returned was taken for a cancellation.
AckJustified ==
  \A w \in Workers : pc[w] = "ack" => finished[cur[w]] \/ swallowed[cur[w]]

\* A callback about to terminate the message has stored a dead-letter copy.
TermJustified == \A w \in Workers : pc[w] = "term" => dlq[cur[w]] # 0

CoverInv == TerminalFinished /\ AckJustified /\ TermJustified /\ JobCovered

\* No row exists initially, so none is uncovered.
LEMMA CoverInit == Init => CoverInv
BY DEF Init, CoverInv, TerminalFinished, AckJustified, TermJustified, JobCovered, Terminal

\* Each action keeps the justification of every ack and term, and with it
\* JobCovered: finished, swallowed and dlq only ever grow.
LEMMA CoverStep == TypeInv /\ CoverInv /\ [Next]_vars => CoverInv'
<1> SUFFICES ASSUME TypeInv, CoverInv, [Next]_vars PROVE CoverInv'
  OBVIOUS
<1> USE JobsAssumption
<1> USE DEF TypeInv, TypeOK, HolderHasJob, CoverInv, TerminalFinished, AckJustified,
            TermJustified, JobCovered, Active, Terminal, rowVars, msgVars, workVars, histVars
<1>1. ASSUME NEW j \in Jobs, EnqueueJobScope(j) PROVE CoverInv'
  BY <1>1 DEF EnqueueJobScope
<1>2. ASSUME NEW j \in Jobs, CreateAIJob(j) PROVE CoverInv'
  BY <1>2 DEF CreateAIJob
<1>3. ASSUME NEW j \in Jobs, Publish(j) PROVE CoverInv'
  BY <1>3 DEF Publish
<1>4. ASSUME NEW j \in Jobs, FailUnpublished(j) PROVE CoverInv'
  BY <1>4 DEF FailUnpublished, FailAIJob
<1>5. ASSUME NEW j \in Jobs, EnqueuerCrash(j) PROVE CoverInv'
  BY <1>5 DEF EnqueuerCrash
<1>6. ASSUME NEW j \in Jobs, CancelAIJob(j) PROVE CoverInv'
  BY <1>6 DEF CancelAIJob, CancelAIJobs
<1>7. ASSUME NEW j \in Jobs, AckWaitExpires(j) PROVE CoverInv'
  BY <1>7 DEF AckWaitExpires
<1>8. ASSUME NEW s, CancelActiveAIJobsBySession(s) PROVE CoverInv'
  BY <1>8 DEF CancelActiveAIJobsBySession, CancelAIJobs
<1>9. ASSUME NEW w \in Workers, NEW j \in Jobs, Deliver(w, j) PROVE CoverInv'
  BY <1>9 DEF Deliver
<1>10. ASSUME NEW w \in Workers, TryMarkAIJobRunning(w) PROVE CoverInv'
  BY <1>10 DEF TryMarkAIJobRunning, Runnable, Goto, KeepJob, KeepBody
<1>11. ASSUME NEW w \in Workers, ReadRefused(w) PROVE CoverInv'
  BY <1>11 DEF ReadRefused, Goto, KeepJob, KeepBody
<1>12. ASSUME NEW w \in Workers, ReadStarted(w) PROVE CoverInv'
  BY <1>12 DEF ReadStarted, Goto, KeepJob, KeepBody
<1>13. ASSUME NEW w \in Workers, CheckCancelled(w) PROVE CoverInv'
  BY <1>13 DEF CheckCancelled, Goto, KeepJob, KeepBody
<1>14. ASSUME NEW w \in Workers, Report(w) PROVE CoverInv'
  BY <1>14 DEF Report, UpdateAIJobProgressDetail, Goto, KeepJob
<1>15. ASSUME NEW w \in Workers, BodySucceeds(w) PROVE CoverInv'
  BY <1>15 DEF BodySucceeds, UpdateAIJobProgressDetail, Goto, KeepJob, KeepBody
<1>16. ASSUME NEW w \in Workers, BodyFails(w) PROVE CoverInv'
  BY <1>16 DEF BodyFails, Goto, KeepJob
<1>17. ASSUME NEW w \in Workers, ClassifyError(w) PROVE CoverInv'
  <2>1. cur[w] \in Jobs /\ UNCHANGED <<rowVars, enq, msgVars, cur>>
    BY <1>17 DEF ClassifyError, KeepJob
  <2>2. \A j \in Jobs : swallowed[j] => swallowed'[j]
    BY <1>17, <2>1 DEF ClassifyError
  <2>3. PICK l \in {"ack", "failure", "fail"} : pc' = [pc EXCEPT ![w] = l]
    BY <1>17 DEF ClassifyError, Goto
  <2>4. CASE status[cur[w]] = "cancelled"
    BY <2>1, <2>2, <2>3, <2>4
  <2>5. CASE status[cur[w]] # "cancelled"
    <3>1. pc'[w] = "ack" => err[w] = "text"
      BY <1>17, <2>5 DEF ClassifyError, Goto
    <3>2. err[w] = "text" => swallowed' = [swallowed EXCEPT ![cur[w]] = TRUE]
      BY <1>17, <2>5 DEF ClassifyError
    <3>3. pc'[w] = "ack" => swallowed'[cur[w]]
      BY <2>1, <3>1, <3>2
    <3> QED
      BY <2>1, <2>2, <2>3, <3>3
  <2> QED
    BY <2>4, <2>5
<1>18. ASSUME NEW w \in Workers, RecordFailure(w) PROVE CoverInv'
  BY <1>18 DEF RecordFailure, FailAIJob, Goto, KeepJob, KeepBody
<1>19. ASSUME NEW w \in Workers, RecordResult(w) PROVE CoverInv'
  BY <1>19 DEF RecordResult, CompleteAIJob, Goto, KeepJob, KeepBody
<1>20. ASSUME NEW w \in Workers, Ack(w) PROVE CoverInv'
  BY <1>20 DEF Ack, Release, Goto
<1>21. ASSUME NEW w \in Workers, NakForRetry(w) PROVE CoverInv'
  BY <1>21 DEF NakForRetry, Release, Goto
<1>22. ASSUME NEW w \in Workers, MoveToDLQ(w) PROVE CoverInv'
  <2>1. cur[w] \in Jobs /\ dlq[cur[w]] \in Nat
    BY <1>22 DEF MoveToDLQ
  <2>2. UNCHANGED <<status, finished, enq, msg, swallowed>>
    BY <1>22 DEF MoveToDLQ
  <2>3. \A j \in Jobs : dlq[j] # 0 => dlq'[j] # 0
    BY <1>22, <2>1 DEF MoveToDLQ
  <2>4. TermJustified'
    BY <1>22, <2>1, <2>3 DEF MoveToDLQ, Release, Goto, KeepJob, KeepBody
  <2>5. AckJustified'
    BY <1>22, <2>2 DEF MoveToDLQ, Release, Goto, KeepJob, KeepBody
  <2> QED
    BY <2>2, <2>3, <2>4, <2>5
<1>23. ASSUME NEW w \in Workers, Term(w) PROVE CoverInv'
  BY <1>23 DEF Term, Release, Goto
<1>24. ASSUME NEW w \in Workers, WorkerCrash(w) PROVE CoverInv'
  BY <1>24 DEF WorkerCrash, Release, Goto
<1>25. CASE UNCHANGED vars
  BY <1>25 DEF vars
<1> QED
  BY <1>1, <1>2, <1>3, <1>4, <1>5, <1>6, <1>7, <1>8, <1>9, <1>10, <1>11, <1>12,
     <1>13, <1>14, <1>15, <1>16, <1>17, <1>18, <1>19, <1>20, <1>21, <1>22, <1>23,
     <1>24, <1>25, NextCases, Zenon

\* An accepted job is finished, in the stream or on the dead-letter subject.
THEOREM CoverageCorrect == Spec => []JobCovered
<1>1. Spec => [](TypeInv /\ CoverInv)
  BY TypeInit, TypeStep, CoverInit, CoverStep, PTL DEF Spec
<1>2. CoverInv => JobCovered
  BY DEF CoverInv
<1> QED
  BY <1>1, <1>2, PTL

-----------------------------------------------------------------------------
(* A job is dead-lettered at most once *)

\* The delivery a callback holds is one the server has made.
DeliveryMade ==
  \A w \in Workers : pc[w] # "idle" => num[w] >= 1 /\ num[w] <= delivered[cur[w]]

\* No two callbacks hold the same delivery of the same job.
DeliveryUnique ==
  \A v, w \in Workers :
    v # w /\ pc[v] # "idle" /\ pc[w] # "idle" /\ cur[v] = cur[w] => num[v] # num[w]

\* A dead-letter copy is written by the callback of the last delivery, and
\* that callback can only go on to Term.
CopyAfterLast ==
  \A j \in Jobs :
    dlq[j] # 0 =>
      /\ dlq[j] = 1
      /\ delivered[j] = MaxDeliver
      /\ \A w \in Workers : Holds(w, j) /\ num[w] = MaxDeliver => pc[w] = "term"

TermHolds == \A w \in Workers : pc[w] = "term" => dlq[cur[w]] = 1

TermedCopied == \A j \in Jobs : msg[j] = "termed" => dlq[j] = 1

DeadInv == DeliveryMade /\ DeliveryUnique /\ CopyAfterLast /\ TermHolds /\ TermedCopied

\* Nothing is dead-lettered initially.
LEMMA DeadInit == Init => DeadInv
BY DEF Init, DeadInv, DeliveryMade, DeliveryUnique, CopyAfterLast, TermHolds, TermedCopied, Holds

\* Inside Process a callback moves between two points that are neither idle
\* nor term, and touches nothing of the queue.
LEMMA ProcessFrame ==
  ASSUME TypeInv, NEW w \in Workers, ProcessStep(w)
  PROVE  /\ UNCHANGED <<msgVars, cur, num>>
         /\ pc[w] \notin {"idle", "term"}
         /\ \E l \in PCs \ {"idle", "term"} : pc' = [pc EXCEPT ![w] = l]
BY DEF TypeInv, TypeOK, PCs, ProcessStep, TryMarkAIJobRunning, ReadRefused, ReadStarted,
       CheckCancelled, Report, BodySucceeds, BodyFails, ClassifyError, RecordFailure,
       RecordResult, Goto, KeepJob, KeepBody, msgVars

\* No step of the queue or of a worker dead-letters a message twice.
LEMMA DeadStep == TypeInv /\ DeadInv /\ [Next]_vars => DeadInv'
<1> SUFFICES ASSUME TypeInv, DeadInv, [Next]_vars PROVE DeadInv'
  OBVIOUS
<1> USE JobsAssumption, DeliverAssumption
<1> USE DEF TypeInv, TypeOK, HolderHasJob, DeadInv, DeliveryMade, DeliveryUnique,
            CopyAfterLast, TermHolds, TermedCopied, Holds
<1>1. ASSUME NEW j \in Jobs, EnqueueStep(j) PROVE DeadInv'
  <2>1. UNCHANGED <<workVars, delivered, dlq>>
    BY <1>1 DEF EnqueueStep, EnqueueJobScope, CreateAIJob, Publish, FailUnpublished, msgVars
  <2>2. \A k \in Jobs : msg'[k] = "termed" => msg[k] = "termed"
    BY <1>1 DEF EnqueueStep, EnqueueJobScope, CreateAIJob, Publish, FailUnpublished, msgVars
  <2> QED
    BY <2>1, <2>2 DEF workVars
<1>2. ASSUME NEW j \in Jobs, EnqueuerCrash(j) \/ CancelAIJob(j) \/ AckWaitExpires(j)
      PROVE DeadInv'
  BY <1>2 DEF EnqueuerCrash, CancelAIJob, AckWaitExpires, workVars, msgVars
<1>3. ASSUME NEW s, CancelActiveAIJobsBySession(s) PROVE DeadInv'
  BY <1>3 DEF CancelActiveAIJobsBySession, workVars, msgVars
<1>4. ASSUME NEW w \in Workers, NEW j \in Jobs, Deliver(w, j) PROVE DeadInv'
  <2>1. delivered[j] \in Nat /\ delivered[j] < MaxDeliver /\ dlq[j] = 0
    BY <1>4 DEF Deliver, CanRedeliver
  <2>2. DeliveryMade'
    BY <1>4, <2>1 DEF Deliver
  <2>3. DeliveryUnique'
    BY <1>4, <2>1 DEF Deliver
  <2>4. CopyAfterLast'
    BY <1>4, <2>1 DEF Deliver
  <2> QED
    BY <1>4, <2>2, <2>3, <2>4 DEF Deliver
<1>5. ASSUME NEW w \in Workers, ProcessStep(w) PROVE DeadInv'
  <2>1. PICK l \in PCs \ {"idle", "term"} : pc' = [pc EXCEPT ![w] = l]
    BY <1>5, ProcessFrame
  <2>2. UNCHANGED <<msgVars, cur, num>> /\ pc[w] \notin {"idle", "term"}
    BY <1>5, ProcessFrame
  <2> QED
    BY <2>1, <2>2 DEF msgVars
<1>6. ASSUME NEW w \in Workers, Ack(w) \/ NakForRetry(w) \/ WorkerCrash(w) PROVE DeadInv'
  <2>1. UNCHANGED <<delivered, dlq>> /\ Release(w)
    BY <1>6 DEF Ack, NakForRetry, WorkerCrash, msgVars
  <2>2. \A j \in Jobs : msg'[j] = "termed" => msg[j] = "termed"
    BY <1>6 DEF Ack, NakForRetry, WorkerCrash, msgVars
  <2> QED
    BY <2>1, <2>2 DEF Release, Goto
<1>7. ASSUME NEW w \in Workers, MoveToDLQ(w) PROVE DeadInv'
  <2>1. cur[w] \in Jobs /\ pc[w] = "failure" /\ num[w] >= MaxDeliver
    BY <1>7 DEF MoveToDLQ, LastDelivery
  <2>2. /\ num[w] \in Nat /\ num[w] <= MaxDeliver
        /\ delivered[cur[w]] \in Nat /\ delivered[cur[w]] <= MaxDeliver
    BY <2>1
  <2>3. num[w] = MaxDeliver
    BY <2>1, <2>2
  <2>4. delivered[cur[w]] = MaxDeliver
    BY <2>1, <2>2, <2>3
  <2>5. /\ cur[w] \in Jobs /\ num[w] = MaxDeliver
        /\ delivered[cur[w]] = MaxDeliver /\ dlq[cur[w]] = 0
    BY <2>1, <2>3, <2>4
  <2>6. \A v \in Workers : v # w /\ Holds(v, cur[w]) => num[v] # MaxDeliver
    BY <1>7, <2>5 DEF MoveToDLQ
  <2>7. dlq' = dlq \/ dlq' = [dlq EXCEPT ![cur[w]] = 1]
    BY <1>7, <2>5 DEF MoveToDLQ
  <2>8. CASE /\ pc' = [pc EXCEPT ![w] = "term"]
             /\ dlq' = [dlq EXCEPT ![cur[w]] = 1]
             /\ UNCHANGED <<cur, num, delivered, msg>>
    BY <1>7, <2>5, <2>6, <2>8 DEF MoveToDLQ
  <2>9. CASE Release(w) /\ UNCHANGED <<delivered, msg>>
    BY <1>7, <2>5, <2>6, <2>7, <2>9 DEF MoveToDLQ, Release, Goto
  <2> QED
    BY <1>7, <2>5, <2>7, <2>8, <2>9 DEF MoveToDLQ, Goto, KeepJob
<1>8. ASSUME NEW w \in Workers, Term(w) PROVE DeadInv'
  BY <1>8 DEF Term, Release, Goto
<1>9. CASE UNCHANGED vars
  BY <1>9 DEF vars, workVars, msgVars
<1> QED
  BY <1>1, <1>2, <1>3, <1>4, <1>5, <1>6, <1>7, <1>8, <1>9 DEF Next, SettleStep

\* At most one dead-letter copy of a job is ever written, and its message is
\* terminated only once the copy exists.
THEOREM DeadLetterCorrect == Spec => []DeadLetteredOnce
<1>1. Spec => [](TypeInv /\ DeadInv)
  BY TypeInit, TypeStep, DeadInit, DeadStep, PTL DEF Spec
<1>2. TypeInv /\ DeadInv => DeadLetteredOnce
  BY DEF TypeInv, TypeOK, DeadInv, CopyAfterLast, TermedCopied, DeadLetteredOnce
<1> QED
  BY <1>1, <1>2, PTL

-----------------------------------------------------------------------------
-----------------------------------------------------------------------------
(* A cancel that comes before the body sticks *)

\* Nothing is in the stream or in hand before Publish, and no row before the
\* INSERT.
UnsentInv ==
  /\ \A j \in Jobs : enq[j] \in {"new", "scoped"} => status[j] = "none"
  /\ \A j \in Jobs : enq[j] \in {"new", "scoped", "created"} => msg[j] = "none"
  /\ \A j \in Jobs : avail[j] => msg[j] # "none"
  /\ \A w \in Workers : pc[w] # "idle" => msg[cur[w]] # "none"

\* Nothing is enqueued initially.
LEMMA UnsentInit == Init => UnsentInv
BY DEF Init, UnsentInv

\* Only CreateAIJob, Publish and Deliver bring a job further.
LEMMA UnsentStep == TypeInv /\ UnsentInv /\ [Next]_vars => UnsentInv'
<1> SUFFICES ASSUME TypeInv, UnsentInv, [Next]_vars PROVE UnsentInv'
  OBVIOUS
<1> USE JobsAssumption
<1> USE DEF TypeInv, TypeOK, HolderHasJob, UnsentInv, Active, Terminal, EnqStates,
            rowVars, msgVars, workVars, histVars
<1>1. ASSUME NEW j \in Jobs, EnqueueJobScope(j) PROVE UnsentInv'
  BY <1>1 DEF EnqueueJobScope
<1>2. ASSUME NEW j \in Jobs, CreateAIJob(j) PROVE UnsentInv'
  BY <1>2 DEF CreateAIJob
<1>3. ASSUME NEW j \in Jobs, Publish(j) PROVE UnsentInv'
  BY <1>3 DEF Publish
<1>4. ASSUME NEW j \in Jobs, FailUnpublished(j) PROVE UnsentInv'
  BY <1>4 DEF FailUnpublished, FailAIJob
<1>5. ASSUME NEW j \in Jobs, EnqueuerCrash(j) PROVE UnsentInv'
  BY <1>5 DEF EnqueuerCrash
<1>6. ASSUME NEW j \in Jobs, CancelAIJob(j) PROVE UnsentInv'
  BY <1>6 DEF CancelAIJob, CancelAIJobs
<1>7. ASSUME NEW j \in Jobs, AckWaitExpires(j) PROVE UnsentInv'
  BY <1>7 DEF AckWaitExpires, CanRedeliver
<1>8. ASSUME NEW s, CancelActiveAIJobsBySession(s) PROVE UnsentInv'
  BY <1>8 DEF CancelActiveAIJobsBySession, CancelAIJobs
<1>9. ASSUME NEW w \in Workers, NEW j \in Jobs, Deliver(w, j) PROVE UnsentInv'
  BY <1>9 DEF Deliver, CanRedeliver
<1>10. ASSUME NEW w \in Workers, ProcessStep(w) PROVE UnsentInv'
  <2>1. UNCHANGED <<msgVars, cur, num, enq>> /\ pc[w] # "idle"
    BY <1>10, ProcessFrame DEF ProcessStep, TryMarkAIJobRunning, ReadRefused, ReadStarted,
       CheckCancelled, Report, BodySucceeds, BodyFails, ClassifyError, RecordFailure, RecordResult
  <2>2. \A v \in Workers : pc'[v] # "idle" => pc[v] # "idle"
    BY <1>10, ProcessFrame
  <2>3. cur[w] \in Jobs /\ msg[cur[w]] # "none"
    BY <2>1
  <2>4. \A j \in Jobs : j # cur[w] => status'[j] = status[j]
    BY <1>10 DEF ProcessStep, TryMarkAIJobRunning, ReadRefused, ReadStarted, CheckCancelled,
       Report, BodySucceeds, BodyFails, ClassifyError, RecordFailure, RecordResult,
       UpdateAIJobProgressDetail, FailAIJob, CompleteAIJob
  <2>5. enq[cur[w]] \notin {"new", "scoped"}
    BY <2>3
  <2> QED
    BY <2>1, <2>2, <2>4, <2>5
<1>11. ASSUME NEW w \in Workers, Release(w), UNCHANGED <<rowVars, enq>>,
              \A j \in Jobs : msg[j] # "none" <=> msg'[j] # "none",
              \A j \in Jobs : avail'[j] => avail[j] \/ msg[j] = "stored"
       PROVE UnsentInv'
  BY <1>11 DEF Release, Goto
<1>12. ASSUME NEW w \in Workers, Ack(w) PROVE UnsentInv'
  <2>1. \A j \in Jobs : msg[j] # "none" <=> msg'[j] # "none"
    BY <1>12 DEF Ack
  <2> QED
    BY <1>11, <1>12, <2>1 DEF Ack
<1>13. ASSUME NEW w \in Workers, NakForRetry(w) PROVE UnsentInv'
  <2>1. \A j \in Jobs : avail'[j] => avail[j] \/ msg[j] = "stored"
    BY <1>13 DEF NakForRetry, Nak, CanRedeliver
  <2> QED
    BY <1>11, <1>13, <2>1 DEF NakForRetry
<1>14. ASSUME NEW w \in Workers, MoveToDLQ(w) PROVE UnsentInv'
  <2>1. UNCHANGED <<rowVars, enq, msg>>
    BY <1>14 DEF MoveToDLQ
  <2>2. CASE Release(w)
    <3>1. \A j \in Jobs : avail'[j] => avail[j] \/ msg[j] = "stored"
      BY <1>14 DEF MoveToDLQ, Nak, CanRedeliver
    <3> QED
      BY <1>11, <2>1, <2>2, <3>1
  <2>3. CASE Goto(w, "term") /\ KeepJob /\ UNCHANGED avail /\ pc[w] = "failure"
    BY <2>1, <2>3 DEF Goto, KeepJob
  <2> QED
    BY <1>14, <2>2, <2>3 DEF MoveToDLQ
<1>15. ASSUME NEW w \in Workers, Term(w) PROVE UnsentInv'
  <2>1. \A j \in Jobs : msg[j] # "none" <=> msg'[j] # "none"
    BY <1>15 DEF Term
  <2> QED
    BY <1>11, <1>15, <2>1 DEF Term
<1>16. ASSUME NEW w \in Workers, WorkerCrash(w) PROVE UnsentInv'
  BY <1>11, <1>16 DEF WorkerCrash
<1>17. CASE UNCHANGED vars
  BY <1>17 DEF vars
<1> QED
  BY <1>1, <1>2, <1>3, <1>4, <1>5, <1>6, <1>7, <1>8, <1>9, <1>10, <1>12,
     <1>13, <1>14, <1>15, <1>16, <1>17 DEF Next, EnqueueStep, SettleStep

\* A cancel that lands before the body of the job is final, whatever faults there
\* are (CancelAIJobs, TryMarkAIJobRunning and the second read in Process).
THEOREM CancelSticks == Spec => CancelBeforeBodySticks
<1>1. ASSUME TypeInv, UnsentInv, [Next]_vars, NEW j \in Jobs,
             status[j] = "cancelled", ~InBody(j), enq[j] # "unpublished"
      PROVE  status'[j] = "cancelled"
  <2> USE DEF TypeInv, TypeOK, HolderHasJob, Active, Terminal, rowVars, InBody, Holds
  <2>1. ASSUME NEW k \in Jobs, EnqueueStep(k) PROVE status'[j] = "cancelled"
    BY <1>1, <2>1 DEF UnsentInv, EnqueueStep, EnqueueJobScope, CreateAIJob, Publish, FailUnpublished, FailAIJob
  <2>2. ASSUME NEW k \in Jobs, EnqueuerCrash(k) \/ CancelAIJob(k) \/ AckWaitExpires(k)
        PROVE status'[j] = "cancelled"
    BY <1>1, <2>2 DEF EnqueuerCrash, CancelAIJob, CancelAIJobs, AckWaitExpires
  <2>3. ASSUME NEW s, CancelActiveAIJobsBySession(s) PROVE status'[j] = "cancelled"
    BY <1>1, <2>3 DEF CancelActiveAIJobsBySession, CancelAIJobs
  <2>4. ASSUME NEW w \in Workers, NEW k \in Jobs, Deliver(w, k) PROVE status'[j] = "cancelled"
    BY <1>1, <2>4 DEF Deliver
  <2>5. ASSUME NEW w \in Workers, ProcessStep(w) PROVE status'[j] = "cancelled"
    BY <1>1, <2>5 DEF ProcessStep, TryMarkAIJobRunning, Runnable, ReadRefused, ReadStarted,
       CheckCancelled, Report, BodySucceeds, BodyFails, ClassifyError, RecordFailure,
       RecordResult, UpdateAIJobProgressDetail, FailAIJob, CompleteAIJob
  <2>6. ASSUME NEW w \in Workers, SettleStep(w) \/ WorkerCrash(w) PROVE status'[j] = "cancelled"
    BY <1>1, <2>6 DEF SettleStep, Ack, NakForRetry, MoveToDLQ, Term, WorkerCrash
  <2>7. CASE UNCHANGED vars
    BY <1>1, <2>7 DEF vars
  <2> QED
    BY <1>1, <2>1, <2>2, <2>3, <2>4, <2>5, <2>6, <2>7 DEF Next
<1>2. TypeInv /\ UnsentInv /\ [Next]_vars =>
        [\A j \in Jobs : status[j] = "cancelled" /\ ~InBody(j) /\ enq[j] # "unpublished"
           => status'[j] = "cancelled"]_vars
  BY <1>1
<1>3. Spec => [](TypeInv /\ UnsentInv)
  BY TypeInit, TypeStep, UnsentInit, UnsentStep, PTL DEF Spec
<1> QED
  BY <1>2, <1>3, PTL DEF Spec, CancelBeforeBodySticks

-----------------------------------------------------------------------------
(* What holds while deliveries are settled within AckWait *)

\* A message the server may deliver, or has no more to deliver, is in no hand.
HandInv ==
  /\ NoDuplicateExecution
  /\ \A j \in Jobs : avail[j] => \A w \in Workers : ~Holds(w, j)
  /\ \A j \in Jobs : msg[j] \in {"acked", "termed"} => \A w \in Workers : ~Holds(w, j)

\* A callback about to ack, and a message that was acked, have a row that says
\* so; a callback on its way to a result or a failure has no result yet.
RowInv ==
  /\ \A w \in Workers : pc[w] = "ack" => status[cur[w]] \in Terminal \/ swallowed[cur[w]]
  /\ AckedRowTerminal
  /\ \A w \in Workers : pc[w] \in {"started", "body", "checked", "errored", "fail", "complete"}
       => status[cur[w]] # "succeeded"

\* No message is in hand initially.
LEMMA TimelyInit == Init => HandInv /\ RowInv
BY DEF Init, HandInv, RowInv, NoDuplicateExecution, AckedRowTerminal, Holds

\* A callback that ends leaves its message in no hand.
LEMMA ReleaseHand ==
  ASSUME TypeInv, HandInv, NEW w \in Workers, pc[w] # "idle", Release(w),
         \A j \in Jobs : avail'[j] => avail[j] \/ j = cur[w],
         \A j \in Jobs : msg'[j] \in {"acked", "termed"} => msg[j] \in {"acked", "termed"} \/ j = cur[w]
  PROVE  HandInv'
<1> USE DEF TypeInv, TypeOK, HandInv, NoDuplicateExecution, Holds
<1>1. pc' = [pc EXCEPT ![w] = "idle"] /\ cur' = [cur EXCEPT ![w] = NoJob]
  BY DEF Release, Goto
<1>2. pc'[w] = "idle" /\ \A v \in Workers : v # w => pc'[v] = pc[v] /\ cur'[v] = cur[v]
  BY <1>1
<1>3. \A v \in Workers : ~(pc'[v] # "idle" /\ cur'[v] = cur[w])
  BY <1>2
<1> QED
  BY <1>2, <1>3

\* Without late settlements every step keeps a message in one hand.
LEMMA HandStep ==
  ASSUME "late" \notin Faults, TypeInv, UnsentInv, HandInv, [Next]_vars
  PROVE  HandInv'
<1> USE JobsAssumption
<1> USE DEF TypeInv, TypeOK, HolderHasJob, HandInv, NoDuplicateExecution, Holds,
            msgVars, workVars
<1>1. ASSUME NEW j \in Jobs, EnqueueStep(j) PROVE HandInv'
  <2>1. UNCHANGED workVars
    BY <1>1 DEF EnqueueStep, EnqueueJobScope, CreateAIJob, Publish, FailUnpublished
  <2>2. CASE UNCHANGED <<msg, avail>>
    BY <2>1, <2>2
  <2>3. CASE Publish(j) /\ msg' = [msg EXCEPT ![j] = "stored"] /\ avail' = [avail EXCEPT ![j] = TRUE]
    <3>1. msg[j] = "none"
      BY <2>3 DEF Publish, UnsentInv
    <3>2. \A w \in Workers : ~Holds(w, j)
      BY <3>1 DEF UnsentInv
    <3> QED
      BY <2>1, <2>3, <3>2
  <2> QED
    BY <1>1, <2>2, <2>3 DEF EnqueueStep, EnqueueJobScope, CreateAIJob, Publish, FailUnpublished
<1>2. ASSUME NEW j \in Jobs, EnqueuerCrash(j) \/ CancelAIJob(j) PROVE HandInv'
  BY <1>2 DEF EnqueuerCrash, CancelAIJob
<1>3. ASSUME NEW j \in Jobs, AckWaitExpires(j) PROVE HandInv'
  BY <1>3 DEF AckWaitExpires, AckWaitOver, Held
<1>4. ASSUME NEW s, CancelActiveAIJobsBySession(s) PROVE HandInv'
  BY <1>4 DEF CancelActiveAIJobsBySession
<1>5. ASSUME NEW w \in Workers, NEW j \in Jobs, Deliver(w, j) PROVE HandInv'
  BY <1>5 DEF Deliver, CanRedeliver
<1>6. ASSUME NEW w \in Workers, ProcessStep(w) PROVE HandInv'
  <2>1. UNCHANGED <<msgVars, cur, num>> /\ pc[w] # "idle"
    BY <1>6, ProcessFrame
  <2>2. \A v \in Workers : pc'[v] # "idle" => pc[v] # "idle"
    BY <1>6, ProcessFrame
  <2> QED
    BY <2>1, <2>2
<1>7. ASSUME NEW w \in Workers, SettleStep(w) \/ WorkerCrash(w) PROVE HandInv'
  <2>1. pc[w] # "idle"
    BY <1>7 DEF SettleStep, Ack, NakForRetry, MoveToDLQ, Term, WorkerCrash
  <2>2. \A j \in Jobs : avail'[j] => avail[j] \/ j = cur[w]
    BY <1>7 DEF SettleStep, Ack, NakForRetry, MoveToDLQ, Term, WorkerCrash, Nak
  <2>3. \A j \in Jobs : msg'[j] \in {"acked", "termed"} => msg[j] \in {"acked", "termed"} \/ j = cur[w]
    BY <1>7 DEF SettleStep, Ack, NakForRetry, MoveToDLQ, Term, WorkerCrash
  <2>4. CASE Release(w)
    BY <2>1, <2>2, <2>3, <2>4, ReleaseHand
  <2>5. CASE Goto(w, "term") /\ KeepJob /\ UNCHANGED <<msg, avail>>
    BY <2>1, <2>5 DEF Goto, KeepJob
  <2> QED
    BY <1>7, <2>4, <2>5 DEF SettleStep, Ack, NakForRetry, MoveToDLQ, Term, WorkerCrash
<1>8. CASE UNCHANGED vars
  BY <1>8 DEF vars
<1> QED
  BY <1>1, <1>2, <1>3, <1>4, <1>5, <1>6, <1>7, <1>8 DEF Next

\* A step of a callback inside Process: its row moves on with it, and no other
\* callback, and no acked message, is of the same job.
LEMMA ProcessRow ==
  ASSUME TypeInv, HandInv, RowInv, NEW w \in Workers, ProcessStep(w)
  PROVE  RowInv'
<1> DEFINE j == cur[w]
           busy == {"started", "body", "checked", "errored", "fail", "complete"}
<1> USE DEF TypeInv, TypeOK, HolderHasJob
<1>1. /\ UNCHANGED <<msg, cur>> /\ pc[w] # "idle" /\ j \in Jobs
      /\ \A v \in Workers : v # w => pc'[v] = pc[v]
  BY ProcessFrame DEF msgVars
<1>2. \A v \in Workers : v # w /\ pc[v] # "idle" => cur[v] # j
  BY <1>1 DEF HandInv, NoDuplicateExecution
<1>3. msg[j] # "acked"
  BY <1>1 DEF HandInv, Holds
<1>4. \A k \in Jobs : k # j => status'[k] = status[k]
  BY DEF ProcessStep, TryMarkAIJobRunning, ReadRefused, ReadStarted, CheckCancelled, rowVars,
     Report, BodySucceeds, BodyFails, ClassifyError, RecordFailure, RecordResult,
     UpdateAIJobProgressDetail, FailAIJob, CompleteAIJob
<1>5. \A k \in Jobs : swallowed[k] => swallowed'[k]
  BY DEF ProcessStep, TryMarkAIJobRunning, ReadRefused, ReadStarted, CheckCancelled, histVars,
     Report, BodySucceeds, BodyFails, ClassifyError, RecordFailure, RecordResult
<1>6. pc'[w] = "ack" => status'[j] \in Terminal \/ swallowed'[j]
  <2> USE <1>1 DEF Goto, Terminal
  <2>1. ASSUME TryMarkAIJobRunning(w) PROVE pc'[w] # "ack"
    BY <2>1 DEF TryMarkAIJobRunning
  <2>2. ASSUME ReadRefused(w) \/ ReadStarted(w) PROVE pc'[w] = "ack" => status'[j] = "cancelled"
    BY <2>2 DEF ReadRefused, ReadStarted, rowVars
  <2>3. ASSUME CheckCancelled(w) \/ Report(w) \/ BodySucceeds(w) \/ BodyFails(w) \/ RecordFailure(w) PROVE pc'[w] # "ack"
    BY <2>3 DEF CheckCancelled, Report, BodySucceeds, BodyFails, RecordFailure
  <2>4. ASSUME ClassifyError(w) PROVE pc'[w] = "ack" => status'[j] = "cancelled" \/ swallowed'[j]
    <3>1. UNCHANGED status
      BY <2>4 DEF ClassifyError, rowVars
    <3>2. CASE status[j] = "cancelled"
      BY <3>1, <3>2
    <3>3. CASE status[j] # "cancelled"
      <4>1. pc'[w] = "ack" => err[w] = "text"
        BY <2>4, <3>3 DEF ClassifyError
      <4>2. err[w] = "text" => swallowed' = [swallowed EXCEPT ![j] = TRUE]
        BY <2>4, <3>3 DEF ClassifyError
      <4> QED
        BY <4>1, <4>2
    <3> QED
      BY <3>2, <3>3
  <2>5. ASSUME RecordResult(w) PROVE pc'[w] = "ack" => status'[j] = "succeeded"
    BY <2>5 DEF RecordResult, CompleteAIJob
  <2> QED
    BY <2>1, <2>2, <2>3, <2>4, <2>5 DEF ProcessStep
<1>7. pc'[w] \in busy => status'[j] # "succeeded"
  <2> USE <1>1 DEF Goto
  <2>1. ASSUME TryMarkAIJobRunning(w) PROVE pc'[w] \in busy => status'[j] # "succeeded"
    BY <2>1 DEF TryMarkAIJobRunning
  <2>2. ASSUME ReadRefused(w) PROVE pc'[w] \notin busy
    BY <2>2 DEF ReadRefused
  <2>3. ASSUME ReadStarted(w) \/ CheckCancelled(w) \/ BodyFails(w) \/ ClassifyError(w) PROVE status'[j] # "succeeded"
    BY <2>3 DEF RowInv, ReadStarted, CheckCancelled, BodyFails, ClassifyError, rowVars
  <2>4. ASSUME Report(w) \/ BodySucceeds(w) PROVE status'[j] # "succeeded"
    BY <2>4 DEF RowInv, Report, BodySucceeds, UpdateAIJobProgressDetail, rowVars
  <2>5. ASSUME RecordFailure(w) \/ RecordResult(w) PROVE pc'[w] \notin busy
    BY <2>5 DEF RecordFailure, RecordResult
  <2> QED
    BY <2>1, <2>2, <2>3, <2>4, <2>5 DEF ProcessStep
<1> HIDE DEF j
<1>8. \A v \in Workers : pc'[v] = "ack" => status'[cur'[v]] \in Terminal \/ swallowed'[cur'[v]]
  <2> SUFFICES ASSUME NEW v \in Workers, pc'[v] = "ack"
               PROVE  status'[cur'[v]] \in Terminal \/ swallowed'[cur'[v]]
    OBVIOUS
  <2>1. CASE v = w
    BY <1>1, <1>6, <2>1 DEF j
  <2>2. CASE v # w
    BY <1>1, <1>2, <1>4, <1>5, <2>2 DEF RowInv
  <2> QED
    BY <2>1, <2>2
<1>9. \A v \in Workers : pc'[v] \in busy => status'[cur'[v]] # "succeeded"
  <2> SUFFICES ASSUME NEW v \in Workers, pc'[v] \in busy
               PROVE  status'[cur'[v]] # "succeeded"
    OBVIOUS
  <2>1. CASE v = w
    BY <1>1, <1>7, <2>1 DEF j
  <2>2. CASE v # w
    BY <1>1, <1>2, <1>4, <2>2 DEF RowInv
  <2> QED
    BY <2>1, <2>2
<1>10. AckedRowTerminal'
  BY <1>1, <1>3, <1>4, <1>5 DEF RowInv, AckedRowTerminal
<1> QED
  BY <1>8, <1>9, <1>10 DEF RowInv

\* Without late settlements every step keeps the rows of settled messages.
LEMMA RowStep ==
  ASSUME TypeInv, UnsentInv, HandInv, RowInv, [Next]_vars
  PROVE  RowInv'
<1> USE JobsAssumption
<1> USE DEF TypeInv, TypeOK, HolderHasJob, RowInv, AckedRowTerminal, Active, Terminal,
            rowVars, msgVars, workVars, histVars
<1>1. ASSUME NEW j \in Jobs, CreateAIJob(j) PROVE RowInv'
  <2>1. msg[j] = "none" /\ \A w \in Workers : pc[w] # "idle" => cur[w] # j
    BY <1>1 DEF CreateAIJob, UnsentInv
  <2> QED
    BY <1>1, <2>1 DEF CreateAIJob
<1>2. ASSUME NEW j \in Jobs, EnqueueJobScope(j) \/ EnqueuerCrash(j) \/ AckWaitExpires(j) PROVE RowInv'
  BY <1>2 DEF EnqueueJobScope, EnqueuerCrash, AckWaitExpires
<1>3. ASSUME NEW j \in Jobs, Publish(j) PROVE RowInv'
  BY <1>3 DEF Publish
<1>4. ASSUME NEW j \in Jobs, FailUnpublished(j) PROVE RowInv'
  BY <1>4 DEF FailUnpublished, FailAIJob
<1>5. ASSUME NEW j \in Jobs, CancelAIJob(j) PROVE RowInv'
  BY <1>5 DEF CancelAIJob, CancelAIJobs
<1>6. ASSUME NEW s, CancelActiveAIJobsBySession(s) PROVE RowInv'
  BY <1>6 DEF CancelActiveAIJobsBySession, CancelAIJobs
<1>7. ASSUME NEW w \in Workers, NEW j \in Jobs, Deliver(w, j) PROVE RowInv'
  BY <1>7 DEF Deliver
<1>8. ASSUME NEW w \in Workers, ProcessStep(w) PROVE RowInv'
  BY <1>8, ProcessRow
<1>9. ASSUME NEW w \in Workers, SettleStep(w) \/ WorkerCrash(w) PROVE RowInv'
  <2>1. UNCHANGED <<status, swallowed>> /\ \A v \in Workers : v # w => pc'[v] = pc[v] /\ cur'[v] = cur[v]
    BY <1>9 DEF SettleStep, Ack, NakForRetry, MoveToDLQ, Term, WorkerCrash, Release, Goto, KeepJob
  <2>2. pc'[w] \in {"idle", "term"}
    BY <1>9 DEF SettleStep, Ack, NakForRetry, MoveToDLQ, Term, WorkerCrash, Release, Goto
  <2>3. \A j \in Jobs : msg'[j] = "acked" => msg[j] = "acked" \/ (pc[w] = "ack" /\ j = cur[w])
    BY <1>9 DEF SettleStep, Ack, NakForRetry, MoveToDLQ, Term, WorkerCrash
  <2>4. AckedRowTerminal'
    BY <2>1, <2>3
  <2> QED
    BY <2>1, <2>2, <2>4
<1>10. CASE UNCHANGED vars
  BY <1>10 DEF vars
<1> QED
  BY <1>1, <1>2, <1>3, <1>4, <1>5, <1>6, <1>7, <1>8, <1>9, <1>10 DEF Next, EnqueueStep

TimelyInv == TypeInv /\ UnsentInv /\ HandInv /\ RowInv

\* While deliveries are settled within AckWait the invariant of the callbacks,
\* the messages and the rows holds.
LEMMA TimelyInvariant ==
  ASSUME "late" \notin Faults
  PROVE  Spec => []TimelyInv
<1>1. Init => TimelyInv
  BY TypeInit, UnsentInit, TimelyInit DEF TimelyInv
<1>2. TimelyInv /\ [Next]_vars => TimelyInv'
  BY TypeStep, UnsentStep, HandStep, RowStep DEF TimelyInv
<1> QED
  BY <1>1, <1>2, PTL DEF Spec

\* One delivery at a time works on a job, and the ack it ends with leaves a
\* finished row, as long as every delivery is settled within AckWait
\* (NATSQueue.Subscribe, AIJobService.Process): for any jobs, workers, delivery
\* limit and all the other faults.
THEOREM TimelyCorrect ==
  ASSUME "late" \notin Faults
  PROVE  Spec => []TimelySafe
<1>1. TimelyInv => TimelySafe
  BY DEF TimelyInv, HandInv, RowInv, TimelySafe
<1> QED
  BY <1>1, TimelyInvariant, PTL

\* No redelivery after a lost ack runs a succeeded job again, under the same
\* condition.
THEOREM SucceededCorrect ==
  ASSUME "late" \notin Faults
  PROVE  Spec => SucceededStays
<1>1. ASSUME TimelyInv, [Next]_vars, NEW j \in Jobs, status[j] = "succeeded"
      PROVE  status'[j] = "succeeded" \/ enq[j] = "unpublished"
  <2> USE DEF TypeInv, TypeOK, HolderHasJob, Active, rowVars, TimelyInv
  <2>1. ASSUME NEW k \in Jobs, EnqueueStep(k) PROVE status'[j] = "succeeded" \/ enq[j] = "unpublished"
    BY <1>1, <2>1 DEF UnsentInv, EnqueueStep, EnqueueJobScope, CreateAIJob, Publish, FailUnpublished, FailAIJob
  <2>2. ASSUME NEW k \in Jobs, EnqueuerCrash(k) \/ CancelAIJob(k) \/ AckWaitExpires(k)
        PROVE status'[j] = "succeeded"
    BY <1>1, <2>2 DEF EnqueuerCrash, CancelAIJob, CancelAIJobs, AckWaitExpires
  <2>3. ASSUME NEW s, CancelActiveAIJobsBySession(s) PROVE status'[j] = "succeeded"
    BY <1>1, <2>3 DEF CancelActiveAIJobsBySession, CancelAIJobs
  <2>4. ASSUME NEW w \in Workers, NEW k \in Jobs, Deliver(w, k) PROVE status'[j] = "succeeded"
    BY <1>1, <2>4 DEF Deliver
  <2>5. ASSUME NEW w \in Workers, ProcessStep(w) PROVE status'[j] = "succeeded"
    BY <1>1, <2>5 DEF RowInv, ProcessStep, TryMarkAIJobRunning, Runnable, ReadRefused, ReadStarted,
       CheckCancelled, Report, BodySucceeds, BodyFails, ClassifyError, RecordFailure,
       RecordResult, UpdateAIJobProgressDetail, FailAIJob, CompleteAIJob
  <2>6. ASSUME NEW w \in Workers, SettleStep(w) \/ WorkerCrash(w) PROVE status'[j] = "succeeded"
    BY <1>1, <2>6 DEF SettleStep, Ack, NakForRetry, MoveToDLQ, Term, WorkerCrash
  <2>7. CASE UNCHANGED vars
    BY <1>1, <2>7 DEF vars
  <2> QED
    BY <1>1, <2>1, <2>2, <2>3, <2>4, <2>5, <2>6, <2>7 DEF Next
<1>2. TimelyInv /\ [Next]_vars =>
        [\A j \in Jobs : status[j] = "succeeded" => status'[j] = "succeeded" \/ enq[j] = "unpublished"]_vars
  BY <1>1
<1> QED
  BY <1>2, TimelyInvariant, PTL DEF Spec, SucceededStays
=============================================================================
