---------------------------- MODULE AuditWriter ----------------------------
(***************************************************************************)
(* The asynchronous audit writer (internal/audit/db_writer.go): request    *)
(* goroutines send events to a bounded channel without blocking, one       *)
(* worker collects them in batches and inserts a batch in a transaction,   *)
(* and Close stops the worker after it has drained the channel.            *)
(***************************************************************************)
EXTENDS Naturals, Sequences, SequencesExt

CONSTANTS
    Events,       \* one Write call each
    ChanSize,     \* capacity of the channel
    BatchSize     \* events in a full batch

ASSUME AuditAssumption ==
    /\ ChanSize \in Nat \ {0}
    /\ BatchSize \in Nat \ {0}

VARIABLES
    closed,       \* the flag and, once set, the done channel
    closer,       \* "idle", "stopping" (flag set), "waiting", "returned"
    writing,      \* events whose Write found the writer open and has not sent yet
    written,      \* events whose Write has returned
    ch,           \* the channel
    batch,
    worker,       \* "loop", "drain" or "exited"
    accepted,     \* events sent, in the order of the channel
    failed,       \* events of batches that were not written
    stored,       \* rows of audit_events, in order of insertion
    late          \* events whose Write overlapped Close

auditVars == <<closed, closer, writing, written, ch, batch, worker, accepted, failed,
               stored, late>>

AuditInit ==
    /\ closed = FALSE
    /\ closer = "idle"
    /\ writing = {} /\ written = {}
    /\ ch = <<>> /\ batch = <<>>
    /\ worker = "loop"
    /\ accepted = <<>> /\ failed = {} /\ stored = <<>>
    /\ late = {}

----------------------------------------------------------------------------
\* Write: the closed flag is read; a closed writer drops the event.
BeginWrite(e) ==
    /\ e \notin writing \cup written
    /\ IF closed THEN written' = written \cup {e} /\ UNCHANGED writing
       ELSE writing' = writing \cup {e} /\ UNCHANGED written
    /\ UNCHANGED <<closed, closer, ch, batch, worker, accepted, failed, stored, late>>

\* Write: the event is sent, or dropped when the channel is full.
SendEvent(e) ==
    /\ e \in writing
    /\ writing' = writing \ {e}
    /\ written' = written \cup {e}
    /\ IF Len(ch) < ChanSize
       THEN ch' = Append(ch, e) /\ accepted' = Append(accepted, e)
       ELSE UNCHANGED <<ch, accepted>>
    /\ UNCHANGED <<closed, closer, batch, worker, failed, stored, late>>

\* Close: the flag, then the done channel, then the worker is waited for.
StoreClosed ==
    /\ closer = "idle"
    /\ closed' = TRUE
    /\ closer' = "stopping"
    /\ late' = writing
    /\ UNCHANGED <<writing, written, ch, batch, worker, accepted, failed, stored>>

CloseDone ==
    /\ closer = "stopping"
    /\ closer' = "waiting"
    /\ UNCHANGED <<closed, writing, written, ch, batch, worker, accepted, failed, stored, late>>

CloseReturn ==
    /\ closer = "waiting"
    /\ worker = "exited"
    /\ closer' = "returned"
    /\ UNCHANGED <<closed, writing, written, ch, batch, worker, accepted, failed, stored, late>>

\* Mutant: the first row of a batch is not inserted.
FlushTail(rows) ==
    /\ batch' = <<>>
    /\ stored' = stored \o (IF rows = <<>> THEN rows ELSE Tail(rows))
    /\ UNCHANGED failed

\* flush: writeBatch commits all of the batch or none, and the batch is reset
\* in both cases.
Flush(rows) ==
    /\ batch' = <<>>
    /\ \/ stored' = stored \o rows /\ UNCHANGED failed
       \/ failed' = failed \cup ToSet(rows) /\ UNCHANGED stored

\* receive: a full batch is flushed.
Receive ==
    /\ worker \in {"loop", "drain"}
    /\ ch # <<>>
    /\ ch' = Tail(ch)
    /\ LET rows == Append(batch, Head(ch)) IN
       IF Len(rows) >= BatchSize THEN Flush(rows)
       ELSE batch' = rows /\ UNCHANGED <<stored, failed>>
    /\ UNCHANGED <<closed, closer, writing, written, worker, accepted, late>>

\* The ticker.
FlushTick ==
    /\ worker = "loop"
    /\ batch # <<>>
    /\ Flush(batch)
    /\ UNCHANGED <<closed, closer, writing, written, ch, worker, accepted, late>>

\* Mutant: the worker does not listen to done.
BeginDrainNever == FALSE

\* The worker sees done; select picks any ready case, so it may first receive.
BeginDrain ==
    /\ worker = "loop"
    /\ closer \in {"waiting", "returned"}
    /\ worker' = "drain"
    /\ UNCHANGED <<closed, closer, writing, written, ch, batch, accepted, failed, stored, late>>

\* Mutant: the channel is not drained.
FinishUndrained ==
    /\ worker = "drain"
    /\ worker' = "exited"
    /\ Flush(batch)
    /\ UNCHANGED <<closed, closer, writing, written, ch, accepted, late>>

\* The channel is empty: the last flush, and the worker returns.
FinishDrain ==
    /\ worker = "drain"
    /\ ch = <<>>
    /\ worker' = "exited"
    /\ Flush(batch)
    /\ UNCHANGED <<closed, closer, writing, written, ch, accepted, late>>

WorkerStep == Receive \/ FlushTick \/ BeginDrain \/ FinishDrain

AuditNext ==
    \/ \E e \in Events : BeginWrite(e) \/ SendEvent(e)
    \/ StoreClosed
    \/ CloseDone
    \/ CloseReturn
    \/ WorkerStep

\* The goroutine of the worker and the one that called Close are scheduled; a
\* batch insert returns.
AuditFairness ==
    /\ WF_auditVars(CloseDone)
    /\ WF_auditVars(CloseReturn)
    /\ WF_auditVars(WorkerStep)

AuditSpec == AuditInit /\ [][AuditNext]_auditVars /\ AuditFairness

----------------------------------------------------------------------------
AuditTypeOK ==
    /\ closed \in BOOLEAN
    /\ closer \in {"idle", "stopping", "waiting", "returned"}
    /\ writing \in SUBSET Events
    /\ written \in SUBSET Events
    /\ ch \in Seq(Events) /\ Len(ch) <= ChanSize
    /\ batch \in Seq(Events) /\ Len(batch) < BatchSize
    /\ worker \in {"loop", "drain", "exited"}
    /\ accepted \in Seq(Events)
    /\ failed \in SUBSET Events
    /\ stored \in Seq(Events)
    /\ late \in SUBSET Events

\* What the writer still has of the events that were sent, in the order in which
\* they are or will be stored.
Left == stored \o batch \o ch

\* The events of s, each once, follow each other as in the sequence all.
InOrderOf(s, all) ==
    \A i, j \in DOMAIN s, k, l \in DOMAIN all :
        i < j /\ s[i] = all[k] /\ s[j] = all[l] => k < l

\* What was sent is stored, in the batch or in the channel, each event once and
\* in the order of the channel, but for whole batches that could not be
\* written; a batch that is reset after a failed write leaves no gap elsewhere.
AuditInOrder ==
    /\ ToSet(Left) = ToSet(accepted) \ failed
    /\ InOrderOf(Left, accepted)

\* "Close stops the worker loop and flushes all pending events": when Close has
\* returned nothing that was sent is left behind, but for an event whose Write
\* had found the writer open before Close and sent it after the drain.
FlushedOnClose ==
    closer = "returned" => batch = <<>> /\ ToSet(ch) \subseteq late

\* Close returns.
CloseReturns == (closer = "stopping") ~> (closer = "returned")

\* No event that was sent is dropped, doubled or moved, except with a batch that
\* could not be written, and Close leaves none behind that was sent before.
AuditSound == AuditTypeOK /\ AuditInOrder /\ FlushedOnClose
=============================================================================
