------------------------------- MODULE AIJobs -------------------------------
(***************************************************************************)
(* The asynchronous AI job pipeline: the HTTP enqueuer, the ai_jobs table, *)
(* the JetStream work queue with its dead-letter subject, and the worker   *)
(* callbacks that run AIJobService.Process.                                *)
(*                                                                         *)
(* Every SQL statement and every call to JetStream is one atomic step; all *)
(* interleavings of enqueuers, cancelling users, workers and the server's  *)
(* redelivery timer between those steps are behaviours of the model.       *)
(***************************************************************************)
EXTENDS Naturals, FiniteSets

CONSTANTS
  Jobs,        \* job ids, each enqueued at most once
  Workers,     \* deliveries in hand at once: callbacks running, or waiting
               \* for one in a consumer's prefetch buffer
  Batch,       \* the jobs whose kind is describe_batch
  Scope,       \* Scope[j]: what a describe_batch or embed_metadata job claims
  Session,     \* Session[j]: the client session that enqueued j
  MaxDeliver,  \* aiJobMaxDeliver, 3 in the code
  Reports,     \* progress reports (for a batch, tables) of one job body
  Faults,      \* which environment faults may happen; "db" is a statement
               \* that fails, because of its context or the database
  NoJob        \* what an idle worker holds

AllFaults == {"crash", "db", "ctx", "text", "ack", "nak", "dlq", "late", "publish"}

ASSUME JobsAssumption    == Batch \subseteq Jobs /\ NoJob \notin Jobs
ASSUME DeliverAssumption == MaxDeliver \in Nat \ {0}
ASSUME ReportsAssumption == Reports \in Nat
ASSUME FaultsAssumption  == Faults \subseteq AllFaults

VARIABLES
  status,      \* ai_jobs.status, "none" before the INSERT
  finished,    \* ai_jobs.finished_at IS NOT NULL
  enq,         \* how far Enqueue has got for each job
  msg,         \* the job's message in the work-queue stream
  avail,       \* the server may deliver the message now
  delivered,   \* how often the server has delivered it
  dlq,         \* copies of it on the dead-letter subject
  pc,          \* where each worker's callback stands
  cur,         \* the job of the worker's callback
  num,         \* msg.Metadata().NumDelivered of the callback's delivery
  left,        \* progress reports the body still has to make
  err,         \* the class of the error processJob returned
  dlqFailed,   \* history: a DLQ publish for the job returned an error
  swallowed    \* history: an error whose text says "cancelled" was acked

rowVars  == <<status, finished>>
msgVars  == <<msg, avail, delivered, dlq>>
workVars == <<pc, cur, num, left, err>>
histVars == <<dlqFailed, swallowed>>
vars     == <<rowVars, enq, msgVars, workVars, histVars>>

Active    == {"queued", "running"}
Terminal  == {"succeeded", "failed", "cancelled"}
EnqStates == {"new", "scoped", "created", "unpublished", "accepted", "rejected", "lost"}
PCs       == {"idle", "try", "refused", "started", "body", "checked", "errored",
              "fail", "complete", "ack", "failure", "term"}

TypeOK ==
  /\ status    \in [Jobs -> {"none"} \cup Active \cup Terminal]
  /\ finished  \in [Jobs -> BOOLEAN]
  /\ enq       \in [Jobs -> EnqStates]
  /\ msg       \in [Jobs -> {"none", "stored", "acked", "termed"}]
  /\ avail     \in [Jobs -> BOOLEAN]
  /\ delivered \in [Jobs -> 0..MaxDeliver]
  /\ dlq       \in [Jobs -> Nat]
  /\ pc        \in [Workers -> PCs]
  /\ cur       \in [Workers -> Jobs \cup {NoJob}]
  /\ num       \in [Workers -> 0..MaxDeliver]
  /\ left      \in [Workers -> 0..Reports]
  /\ err       \in [Workers -> {"none", "error", "ctx", "text"}]
  /\ dlqFailed \in [Jobs -> BOOLEAN]
  /\ swallowed \in [Jobs -> BOOLEAN]

Init ==
  /\ status    = [j \in Jobs |-> "none"]
  /\ finished  = [j \in Jobs |-> FALSE]
  /\ enq       = [j \in Jobs |-> "new"]
  /\ msg       = [j \in Jobs |-> "none"]
  /\ avail     = [j \in Jobs |-> FALSE]
  /\ delivered = [j \in Jobs |-> 0]
  /\ dlq       = [j \in Jobs |-> 0]
  /\ pc        = [w \in Workers |-> "idle"]
  /\ cur       = [w \in Workers |-> NoJob]
  /\ num       = [w \in Workers |-> 0]
  /\ left      = [w \in Workers |-> 0]
  /\ err       = [w \in Workers |-> "none"]
  /\ dlqFailed = [j \in Jobs |-> FALSE]
  /\ swallowed = [j \in Jobs |-> FALSE]

-----------------------------------------------------------------------------
(* Statements on the ai_jobs row *)

\* FindConflictingDescribeBatch / FindConflictingEmbedMetadata: an active row
\* whose scope overlaps.
Conflicting(j) ==
  {k \in Jobs \ {j} : status[k] \in Active /\ Scope[k] \cap Scope[j] # {}}

\* UpdateAIJobProgressDetail: no guard on the status, finished_at left alone.
UpdateAIJobProgressDetail(j) ==
  /\ status' = [status EXCEPT ![j] = "running"]
  /\ UNCHANGED finished

\* Mutant: the result is stored without finished_at.
CompleteWithoutFinish(j) ==
  /\ status' = [status EXCEPT ![j] = "succeeded"]
  /\ UNCHANGED finished

\* CompleteAIJob: no guard on the status.
CompleteAIJob(j) ==
  /\ status'   = [status EXCEPT ![j] = "succeeded"]
  /\ finished' = [finished EXCEPT ![j] = TRUE]

\* FailAIJob: no guard on the status.
FailAIJob(j) ==
  /\ status'   = [status EXCEPT ![j] = "failed"]
  /\ finished' = [finished EXCEPT ![j] = TRUE]

\* Mutant: the UPDATE has lost its status guard.
RunnableAlways(j) == TRUE

\* The guard of TryMarkAIJobRunning's UPDATE.
Runnable(j) == status[j] \in Active

\* CancelAIJobs: the rows of S that are still active, in one statement.
CancelAIJobs(S) ==
  LET hit == {j \in S : status[j] \in Active}
  IN  /\ status'   = [j \in Jobs |-> IF j \in hit THEN "cancelled" ELSE status[j]]
      /\ finished' = [j \in Jobs |-> finished[j] \/ j \in hit]

-----------------------------------------------------------------------------
(* AIJobService.Enqueue, one step per statement or call *)

\* enqueueJobScope: the conflict check, a SELECT of its own.
EnqueueJobScope(j) ==
  /\ enq[j] = "new"
  /\ \/ enq' = [enq EXCEPT ![j] = IF Conflicting(j) = {} THEN "scoped" ELSE "rejected"]
     \/ "db" \in Faults /\ enq' = [enq EXCEPT ![j] = "rejected"]
  /\ UNCHANGED <<rowVars, msgVars, workVars, histVars>>

\* CreateAIJob: INSERT with status queued; no unique index backs the check.
CreateAIJob(j) ==
  /\ enq[j] = "scoped"
  /\ \/ /\ status' = [status EXCEPT ![j] = "queued"]
        /\ enq'    = [enq EXCEPT ![j] = "created"]
     \/ /\ "db" \in Faults
        /\ enq'    = [enq EXCEPT ![j] = "rejected"]
        /\ UNCHANGED status
  /\ UNCHANGED <<finished, msgVars, workVars, histVars>>

\* publisher.Publish: the server may store the message and the
\* acknowledgement still be lost, or the message may never arrive.
Publish(j) ==
  /\ enq[j] = "created"
  /\ \/ /\ msg'   = [msg EXCEPT ![j] = "stored"]
        /\ avail' = [avail EXCEPT ![j] = TRUE]
        /\ \/ enq' = [enq EXCEPT ![j] = "accepted"]
           \/ /\ "publish" \in Faults
              /\ enq' = [enq EXCEPT ![j] = "unpublished"]
     \/ /\ "publish" \in Faults
        /\ enq' = [enq EXCEPT ![j] = "unpublished"]
        /\ UNCHANGED <<msg, avail>>
  /\ UNCHANGED <<rowVars, delivered, dlq, workVars, histVars>>

\* The error branch after Publish: FailAIJob on the request context, whose own
\* failure is only logged.
FailUnpublished(j) ==
  /\ enq[j] = "unpublished"
  /\ enq' = [enq EXCEPT ![j] = "rejected"]
  /\ \/ FailAIJob(j)
     \/ "db" \in Faults /\ UNCHANGED rowVars
  /\ UNCHANGED <<msgVars, workVars, histVars>>

\* The API process dies while Enqueue is between two of its steps.
EnqueuerCrash(j) ==
  /\ "crash" \in Faults
  /\ enq[j] \in {"scoped", "created", "unpublished"}
  /\ enq' = [enq EXCEPT ![j] = "lost"]
  /\ UNCHANGED <<rowVars, msgVars, workVars, histVars>>

-----------------------------------------------------------------------------
(* Cancellation: every entry point is one guarded UPDATE *)

CancelAIJob(j) ==
  /\ status[j] \in Active
  /\ CancelAIJobs({j})
  /\ UNCHANGED <<enq, msgVars, workVars, histVars>>

\* CancelActiveAIJobsBySession.
CancelActiveAIJobsBySession(s) ==
  /\ \E j \in Jobs : Session[j] = s /\ status[j] \in Active
  /\ CancelAIJobs({j \in Jobs : Session[j] = s})
  /\ UNCHANGED <<enq, msgVars, workVars, histVars>>

-----------------------------------------------------------------------------
(* JetStream, external: explicit acks, AckWait, MaxDeliver *)

Holds(w, j) == pc[w] # "idle" /\ cur[w] = j
Held(j)     == \E w \in Workers : Holds(w, j)

\* MaxDeliver of the ConsumerConfig bounds the deliveries of one message.
CanRedeliver(j) == msg[j] = "stored" /\ delivered[j] < MaxDeliver

\* Mutants: an AckWait shorter than the work, and one that never ends.
AckWaitShort(j) == TRUE
AckWaitNever(j) == FALSE

\* AckWait is 30 minutes, the handler's own deadline 35, and the time in the
\* prefetch buffer counts too, so a delivery may still be in hand when it ends
\* ("late").
AckWaitOver(j) == "late" \in Faults \/ ~Held(j)

\* The server hands the message to a consumer, which runs its callback.
Deliver(w, j) ==
  /\ pc[w] = "idle"
  /\ avail[j] /\ CanRedeliver(j)
  /\ delivered' = [delivered EXCEPT ![j] = @ + 1]
  /\ avail'     = [avail EXCEPT ![j] = FALSE]
  /\ pc'   = [pc EXCEPT ![w] = "try"]
  /\ cur'  = [cur EXCEPT ![w] = j]
  /\ num'  = [num EXCEPT ![w] = delivered[j] + 1]
  /\ left' = [left EXCEPT ![w] = Reports]
  /\ err'  = [err EXCEPT ![w] = "none"]
  /\ UNCHANGED <<rowVars, enq, msg, dlq, histVars>>

\* AckWait runs out with the delivery neither acked nor naked.
AckWaitExpires(j) ==
  /\ CanRedeliver(j) /\ ~avail[j]
  /\ AckWaitOver(j)
  /\ avail' = [avail EXCEPT ![j] = TRUE]
  /\ UNCHANGED <<rowVars, enq, msg, delivered, dlq, workVars, histVars>>

\* msg.Nak: redelivery at once, unless MaxDeliver is spent or it is gone.
Nak(j) == avail' = [avail EXCEPT ![j] = @ \/ CanRedeliver(j)]

-----------------------------------------------------------------------------
(* The worker: AIJobService.Process *)

Goto(w, l) == pc' = [pc EXCEPT ![w] = l]
KeepJob    == UNCHANGED <<cur, num>>
KeepBody   == UNCHANGED <<left, err>>

\* TryMarkAIJobRunning: guarded on pending, queued or running.
TryMarkAIJobRunning(w) ==
  LET j == cur[w] IN
  /\ pc[w] = "try"
  /\ \/ /\ Runnable(j)
        /\ status' = [status EXCEPT ![j] = "running"]
        /\ Goto(w, "started")
     \/ /\ ~Runnable(j)
        /\ Goto(w, "refused")
        /\ UNCHANGED status
     \/ /\ "db" \in Faults
        /\ Goto(w, "failure")
        /\ UNCHANGED status
  /\ KeepJob /\ KeepBody
  /\ UNCHANGED <<finished, enq, msgVars, histVars>>

\* The row is read again: a cancelled job is acked, anything else that was
\* not marked running is an error.
ReadRefused(w) ==
  /\ pc[w] = "refused"
  /\ \/ Goto(w, IF status[cur[w]] = "cancelled" THEN "ack" ELSE "failure")
     \/ "db" \in Faults /\ Goto(w, "failure")
  /\ KeepJob /\ KeepBody
  /\ UNCHANGED <<rowVars, enq, msgVars, histVars>>

\* GetAIJob after the mark: a cancel may already have landed.
ReadStarted(w) ==
  /\ pc[w] = "started"
  /\ \/ Goto(w, IF status[cur[w]] = "cancelled" THEN "ack" ELSE "body")
     \/ "db" \in Faults /\ Goto(w, "failure")
  /\ KeepJob /\ KeepBody
  /\ UNCHANGED <<rowVars, enq, msgVars, histVars>>

\* executeMetadataDescribeBatchJob asks isAIJobCancelled before each table;
\* processJob turns "job cancelled" into a partial result with no error.
CheckCancelled(w) ==
  /\ pc[w] = "body" /\ cur[w] \in Batch /\ left[w] > 0
  /\ \/ Goto(w, IF status[cur[w]] = "cancelled" THEN "complete" ELSE "checked")
     \/ "db" \in Faults /\ Goto(w, "checked")
  /\ KeepJob /\ KeepBody
  /\ UNCHANGED <<rowVars, enq, msgVars, histVars>>

\* One progress report; a failed UPDATE is only logged, and a batch skips the
\* report for a table that needs no work.
Report(w) ==
  /\ pc[w] = IF cur[w] \in Batch THEN "checked" ELSE "body"
  /\ left[w] > 0
  /\ \/ UpdateAIJobProgressDetail(cur[w])
     \/ ("db" \in Faults \/ cur[w] \in Batch) /\ UNCHANGED rowVars
  /\ left' = [left EXCEPT ![w] = @ - 1]
  /\ Goto(w, "body")
  /\ KeepJob
  /\ UNCHANGED <<err, enq, msgVars, histVars>>

\* processJob returns a result; a batch reports "batch complete" first.
BodySucceeds(w) ==
  /\ pc[w] = "body" /\ left[w] = 0
  /\ \/ cur[w] \in Batch /\ UpdateAIJobProgressDetail(cur[w])
     \/ ("db" \in Faults \/ cur[w] \notin Batch) /\ UNCHANGED rowVars
  /\ Goto(w, "complete")
  /\ KeepJob /\ KeepBody
  /\ UNCHANGED <<enq, msgVars, histVars>>

\* processJob returns an error: the job's own, the context's (shutdown or
\* deadline) or one whose text says "cancelled". A batch records the errors of
\* its tables in its result, so it can only fail before the first one, and
\* takes the "cancelled" text for its own early stop.
BodyFails(w) ==
  /\ pc[w] = "body"
  /\ cur[w] \in Batch => left[w] = Reports
  /\ \E e \in {"error"} \cup ({"ctx", "text"} \cap Faults) :
       /\ err' = [err EXCEPT ![w] = e]
       /\ Goto(w, IF e = "text" /\ cur[w] \in Batch THEN "complete" ELSE "errored")
  /\ KeepJob
  /\ UNCHANGED <<left, rowVars, enq, msgVars, histVars>>

\* The error branch of Process: the row is read on a detached context, then
\* the error is classified.
ClassifyError(w) ==
  LET j == cur[w] IN
  /\ pc[w] = "errored"
  /\ \/ /\ status[j] = "cancelled"
        /\ Goto(w, "ack")
        /\ UNCHANGED swallowed
     \/ /\ status[j] # "cancelled" \/ "db" \in Faults
        /\ Goto(w, IF err[w] = "text" THEN "ack"
                   ELSE IF err[w] = "ctx" THEN "failure" ELSE "fail")
        /\ swallowed' = IF err[w] = "text" THEN [swallowed EXCEPT ![j] = TRUE] ELSE swallowed
  /\ KeepJob /\ KeepBody
  /\ UNCHANGED <<rowVars, enq, msgVars, dlqFailed>>

\* FailAIJob, whose own failure is only logged; the error goes to the queue.
RecordFailure(w) ==
  /\ pc[w] = "fail"
  /\ \/ FailAIJob(cur[w])
     \/ "db" \in Faults /\ UNCHANGED rowVars
  /\ Goto(w, "failure")
  /\ KeepJob /\ KeepBody
  /\ UNCHANGED <<enq, msgVars, histVars>>

\* Mutant: a failed CompleteAIJob is only logged.
RecordResultLogged(w) ==
  /\ pc[w] = "complete"
  /\ CompleteAIJob(cur[w]) \/ ("db" \in Faults /\ UNCHANGED rowVars)
  /\ Goto(w, "ack")
  /\ KeepJob /\ KeepBody
  /\ UNCHANGED <<enq, msgVars, histVars>>

\* CompleteAIJob; its error goes to the queue.
RecordResult(w) ==
  /\ pc[w] = "complete"
  /\ \/ CompleteAIJob(cur[w]) /\ Goto(w, "ack")
     \/ "db" \in Faults /\ Goto(w, "failure") /\ UNCHANGED rowVars
  /\ KeepJob /\ KeepBody
  /\ UNCHANGED <<enq, msgVars, histVars>>

-----------------------------------------------------------------------------
(* The worker: NATSQueue.Subscribe's callback after the handler returned *)

Release(w) ==
  /\ Goto(w, "idle")
  /\ cur'  = [cur EXCEPT ![w] = NoJob]
  /\ num'  = [num EXCEPT ![w] = 0]
  /\ left' = [left EXCEPT ![w] = 0]
  /\ err'  = [err EXCEPT ![w] = "none"]

\* The handler returned nil: msg.Ack, whose loss is only logged.
Ack(w) ==
  LET j == cur[w] IN
  /\ pc[w] = "ack"
  /\ \/ msg' = [msg EXCEPT ![j] = IF @ = "stored" THEN "acked" ELSE @]
     \/ "ack" \in Faults /\ UNCHANGED msg
  /\ Release(w)
  /\ UNCHANGED <<rowVars, enq, avail, delivered, dlq, histVars>>

\* Mutant: the limit is off by one.
LastDeliveryEarly(w) == num[w] >= MaxDeliver - 1

\* NumDelivered has reached aiJobMaxDeliver.
LastDelivery(w) == num[w] >= MaxDeliver

\* handleAIJobFailure below the delivery limit: Nak, whose loss is only logged.
NakForRetry(w) ==
  /\ pc[w] = "failure" /\ ~LastDelivery(w)
  /\ Nak(cur[w]) \/ ("nak" \in Faults /\ UNCHANGED avail)
  /\ Release(w)
  /\ UNCHANGED <<rowVars, enq, msg, delivered, dlq, histVars>>

\* handleAIJobFailure on the last delivery: publish to the DLQ, then Term; if
\* the publish returns an error (the copy may be stored all the same), Nak.
MoveToDLQ(w) ==
  LET j == cur[w] IN
  /\ pc[w] = "failure" /\ LastDelivery(w)
  /\ \/ /\ dlq' = [dlq EXCEPT ![j] = @ + 1]
        /\ Goto(w, "term")
        /\ KeepJob /\ KeepBody
        /\ UNCHANGED <<avail, dlqFailed>>
     \/ /\ "dlq" \in Faults
        /\ dlq' \in {dlq, [dlq EXCEPT ![j] = @ + 1]}
        /\ Nak(j) \/ ("nak" \in Faults /\ UNCHANGED avail)
        /\ dlqFailed' = [dlqFailed EXCEPT ![j] = TRUE]
        /\ Release(w)
  /\ UNCHANGED <<rowVars, enq, msg, delivered, swallowed>>

\* msg.Term after the copy is safe; its loss is only logged.
Term(w) ==
  LET j == cur[w] IN
  /\ pc[w] = "term"
  /\ \/ msg' = [msg EXCEPT ![j] = IF @ = "stored" THEN "termed" ELSE @]
     \/ "ack" \in Faults /\ UNCHANGED msg
  /\ Release(w)
  /\ UNCHANGED <<rowVars, enq, avail, delivered, dlq, histVars>>

\* The worker process dies with a message in hand.
WorkerCrash(w) ==
  /\ "crash" \in Faults
  /\ pc[w] # "idle"
  /\ Release(w)
  /\ UNCHANGED <<rowVars, enq, msgVars, histVars>>

-----------------------------------------------------------------------------
EnqueueStep(j) ==
  EnqueueJobScope(j) \/ CreateAIJob(j) \/ Publish(j) \/ FailUnpublished(j)

ProcessStep(w) ==
  \/ TryMarkAIJobRunning(w) \/ ReadRefused(w) \/ ReadStarted(w)
  \/ CheckCancelled(w) \/ Report(w) \/ BodySucceeds(w) \/ BodyFails(w)
  \/ ClassifyError(w) \/ RecordFailure(w) \/ RecordResult(w)

SettleStep(w) == Ack(w) \/ NakForRetry(w) \/ MoveToDLQ(w) \/ Term(w)

Next ==
  \/ \E j \in Jobs : EnqueueStep(j) \/ EnqueuerCrash(j) \/ CancelAIJob(j) \/ AckWaitExpires(j)
  \/ \E s \in {Session[j] : j \in Jobs} : CancelActiveAIJobsBySession(s)
  \/ \E w \in Workers, j \in Jobs : Deliver(w, j)
  \/ \E w \in Workers : ProcessStep(w) \/ SettleStep(w) \/ WorkerCrash(w)

Spec == Init /\ [][Next]_vars

\* Processes that are alive keep going: a callback is bounded by its 35 minute
\* context, and the server's AckWait timer runs. The stream is delivered in
\* order, so a message is not passed over for ever by busy workers (SF).
Fairness ==
  /\ \A j \in Jobs : WF_vars(EnqueueStep(j)) /\ WF_vars(AckWaitExpires(j))
  /\ \A j \in Jobs : SF_vars(\E w \in Workers : Deliver(w, j))
  /\ \A w \in Workers : WF_vars(ProcessStep(w) \/ SettleStep(w))

FairSpec == Spec /\ Fairness

-----------------------------------------------------------------------------
(* Safety *)

Exhausted(j) == msg[j] = "stored" /\ delivered[j] = MaxDeliver /\ ~Held(j)

\* A job whose Enqueue returned success is never silently lost: while its row
\* has no finished_at, its message is still in the stream or a copy is on the
\* dead-letter subject (for the seven days of the stream's MaxAge). An error
\* whose text says "cancelled" is acked with the row left open; "swallowed"
\* marks those jobs.
JobCovered ==
  \A j \in Jobs :
    enq[j] = "accepted" /\ ~finished[j] /\ ~swallowed[j] /\ dlq[j] = 0
      => msg[j] = "stored"

\* handleAIJobFailure writes at most one dead-letter copy of a job, whatever
\* callbacks crash, overlap or come back late, and a message is terminated
\* only after that copy exists.
DeadLetteredOnce ==
  \A j \in Jobs : dlq[j] <= 1 /\ (msg[j] = "termed" => dlq[j] = 1)

\* When deliveries are settled within AckWait, no two of them ever hold the same job,
\* through any sequence of naks, lost acks, crashes and redeliveries.
NoDuplicateExecution ==
  \A v, w \in Workers : v # w /\ pc[v] # "idle" /\ pc[w] # "idle" => cur[v] # cur[w]

\* When deliveries are settled within AckWait, a message that was acked without the
\* "cancelled" text leaves a row in a terminal status: no progress report of
\* the same execution can have reopened it.
AckedRowTerminal ==
  \A j \in Jobs : msg[j] = "acked" /\ ~swallowed[j] => status[j] \in Terminal

\* What AckWait is for: while every delivery is settled within it, one delivery
\* at a time works on a job, and the ack it ends with leaves a finished row.
TimelySafe == NoDuplicateExecution /\ AckedRowTerminal

-----------------------------------------------------------------------------
(* Action properties *)

\* When deliveries are settled within AckWait, a succeeded row keeps its result: no
\* redelivery after a lost ack runs the job again. Only Enqueue's own error
\* branch, for a message whose publish ack was lost, may still fail it.
SucceededStays ==
  [][\A j \in Jobs :
       status[j] = "succeeded" => status'[j] = "succeeded" \/ enq[j] = "unpublished"]_vars

InBody(j) ==
  \E w \in Workers :
    Holds(w, j) /\ pc[w] \in {"body", "checked", "errored", "fail", "complete"}

\* A cancel that lands while no worker is inside the job's body is final, even
\* if a delivery of the message is already past TryMarkAIJobRunning: the second
\* read of the row in Process stops it.
CancelBeforeBodySticks ==
  [][\A j \in Jobs :
       status[j] = "cancelled" /\ ~InBody(j) /\ enq[j] # "unpublished"
         => status'[j] = "cancelled"]_vars

-----------------------------------------------------------------------------
(* Liveness *)

\* Every stored message is eventually acked, dead-lettered or out of
\* deliveries, through any crashes and lost acks.
MessageSettles ==
  \A j \in Jobs : msg[j] = "stored" ~> (msg[j] # "stored" \/ Exhausted(j))

-----------------------------------------------------------------------------
(* What comments in the code and the user interface say, and runs refute *)

\* nats.go: "Nak so JetStream redelivers and we get another chance to DLQ it".
DLQRetried ==
  \A j \in Jobs : dlqFailed[j] /\ dlq[j] = 0 /\ ~Held(j) => CanRedeliver(j)
=============================================================================
