------------------------------ MODULE AgentRun ------------------------------
(***************************************************************************)
(* One run of the agentic query runner: the agent_runs row, and the        *)
(* executors that call Runtime.Run on it, either consumers of the agent    *)
(* job subject (cmd/agent) or web chat requests (WebAgentChat).            *)
(*                                                                         *)
(* A RuntimeState is abstracted to what the runtime branches on: how many  *)
(* steps and clarification rounds it holds, whether a query tool has been  *)
(* proposed (ever, and last), the terminal kind, the pending question and  *)
(* the number of answered questions. The planner, the policy and the tools *)
(* are free to return anything their interfaces allow. Every SQL statement *)
(* is a step.                                                              *)
(***************************************************************************)
EXTENDS Naturals, FiniteSets

CONSTANTS
  JobExecutors,   \* consumers of the job subject, one callback at a time each
  WebExecutors,   \* concurrent POST /api/agent/chat requests
  MaxSteps,       \* RunContext.MaxSteps
  MaxRounds,      \* RunContext.MaxClarificationRounds
  MaxStarts,      \* bound on executions of the run (MaxDeliver, user retries)
  Overlap,        \* executions may overlap (late redelivery, a second resume)
  Faults          \* which environment faults may happen

Executors == JobExecutors \cup WebExecutors
AllFaults == {"crash", "db", "cancel"}

ASSUME ExecutorsAssumption == JobExecutors \cap WebExecutors = {}
ASSUME StepsAssumption     == MaxSteps \in Nat
ASSUME RoundsAssumption    == MaxRounds \in Nat
ASSUME StartsAssumption    == MaxStarts \in Nat
ASSUME RunFaultsAssumption == Faults \subseteq AllFaults /\ Overlap \in BOOLEAN

VARIABLES
  status,      \* agent_runs.status, "absent" before the INSERT
  version,     \* agent_runs.terminal_version
  marked,      \* agent_runs.query_execute_started
  rowState,    \* agent_runs.runtime_state
  acked,       \* no message for the run is in the queue (any more)
  starts,      \* executions begun
  pc,          \* where each executor stands
  st,          \* its local RuntimeState
  hist,        \* run.ClarificationHistory it was resumed with
  cont,        \* where to go once the state is saved
  ctx,         \* its context: live, canceled, or detached (WithoutCancel)
  dispatched,  \* history: tool dispatches made, saturating past MaxSteps
  executed,    \* history: a query tool was really called
  asked        \* history: clarification questions handed to the caller

rowVars  == <<status, version, marked, rowState>>
execVars == <<pc, st, hist, cont, ctx>>
histVars == <<dispatched, executed, asked>>
vars     == <<rowVars, acked, starts, execVars, histVars>>

RuntimeStates ==
  [steps : 0..MaxSteps, rounds : 0..(MaxRounds + 1), exec : BOOLEAN, query : BOOLEAN,
   term : {"none", "final", "fail"}, pending : BOOLEAN, answers : Nat]

EmptyState ==
  [steps |-> 0, rounds |-> 0, exec |-> FALSE, query |-> FALSE, term |-> "none",
   pending |-> FALSE, answers |-> 0]

PCs == {"idle", "create", "load", "plan", "mark", "save", "dispatch", "terminal",
        "erred", "returned", "paused"}

TypeOK ==
  /\ status     \in {"absent", "running", "completed", "failed"}
  /\ version    \in 0..1
  /\ marked     \in BOOLEAN
  /\ rowState   \in RuntimeStates
  /\ acked      \in BOOLEAN
  /\ starts     \in 0..MaxStarts
  /\ pc         \in [Executors -> PCs]
  /\ st         \in [Executors -> RuntimeStates]
  /\ hist       \in [Executors -> Nat]
  /\ cont       \in [Executors -> {"plan", "dispatch", "paused"}]
  /\ ctx        \in [Executors -> {"live", "canceled", "detached"}]
  /\ dispatched \in Nat
  /\ executed   \in BOOLEAN
  /\ asked      \in Nat

Init ==
  /\ status = "absent" /\ version = 0 /\ marked = FALSE /\ rowState = EmptyState
  /\ acked \in BOOLEAN  \* TRUE: the run is begun by a chat request, not by a job
  /\ starts = 0
  /\ pc   = [e \in Executors |-> "idle"]
  /\ st   = [e \in Executors |-> EmptyState]
  /\ hist = [e \in Executors |-> 0]
  /\ cont = [e \in Executors |-> "plan"]
  /\ ctx  = [e \in Executors |-> "live"]
  /\ dispatched = 0 /\ executed = FALSE /\ asked = 0

Goto(e, l) == pc' = [pc EXCEPT ![e] = l]

\* A statement on the executor's context can fail: the database may be away,
\* and a canceled context fails every call that carries it.
CallFails(e) == "db" \in Faults \/ ctx[e] = "canceled"
CallWorks(e) == ctx[e] # "canceled"

-----------------------------------------------------------------------------
(* Beginning an execution *)

MayStart(e) ==
  /\ pc[e] = "idle"
  /\ starts < MaxStarts
  /\ Overlap \/ \A f \in Executors : pc[f] = "idle"

Begin(e, l) ==
  /\ starts' = starts + 1
  /\ Goto(e, l)
  /\ ctx' = [ctx EXCEPT ![e] = "live"]
  /\ UNCHANGED <<acked, st, cont, histVars>>

\* processJob: GetAgentRunByJobID finds the run of an earlier delivery or not.
JobStart(e) ==
  /\ e \in JobExecutors /\ ~acked
  /\ MayStart(e)
  /\ Begin(e, IF status = "absent" THEN "create" ELSE "load")
  /\ hist' = [hist EXCEPT ![e] = 0]
  /\ UNCHANGED rowVars

\* CreateAgentRunForJob / createWebAgentRun: for a job the unique index on
\* job_id refuses a second row.
CreateRun(e) ==
  /\ pc[e] = "create"
  /\ \/ /\ CallWorks(e) /\ status = "absent"
        /\ status' = "running"
        /\ Goto(e, "load")
     \/ /\ CallFails(e) \/ status # "absent"
        /\ Goto(e, "erred")
        /\ UNCHANGED status
  /\ UNCHANGED <<version, marked, rowState, acked, starts, st, hist, cont, ctx, histVars>>

\* WebAgentChat without resume_run_id: a run of its own, so the row is absent.
WebStart(e) ==
  /\ e \in WebExecutors /\ acked /\ status = "absent"
  /\ \A f \in Executors : pc[f] = "idle"
  /\ MayStart(e)
  /\ Begin(e, "create")
  /\ hist' = [hist EXCEPT ![e] = 0]
  /\ UNCHANGED rowVars

\* resumeWebAgentRun: only the state's Terminal is looked at; the answer is
\* appended to the history read here.
WebResume(e) ==
  /\ e \in WebExecutors /\ status # "absent"
  /\ rowState.term = "none"
  /\ MayStart(e)
  /\ Begin(e, "load")
  /\ hist' = [hist EXCEPT ![e] = rowState.answers + IF rowState.pending THEN 1 ELSE 0]
  /\ UNCHANGED rowVars

\* Mutant: the caller's history replaces the saved one even when empty.
AdoptedAlways(e) == hist[e]

\* The history the run goes on with: the caller's, if it has one.
Adopted(e) == IF hist[e] > 0 THEN hist[e] ELSE rowState.answers

\* The load at the head of Run: a terminal state is returned as an error, the
\* pending question is cleared and the caller's history adopted.
LoadState(e) ==
  /\ pc[e] = "load"
  /\ \/ /\ CallWorks(e) /\ rowState.term = "none"
        /\ st' = [st EXCEPT ![e] = [rowState EXCEPT !.pending = FALSE, !.answers = Adopted(e)]]
        /\ Goto(e, "plan")
     \/ /\ CallFails(e) \/ rowState.term # "none"
        /\ Goto(e, "erred")
        /\ UNCHANGED st
  /\ UNCHANGED <<rowVars, acked, starts, hist, cont, ctx, histVars>>

-----------------------------------------------------------------------------
(* Runtime.step *)

\* Save of a non-terminal state, on to l afterwards.
SaveThen(e, s, l) ==
  /\ st'   = [st EXCEPT ![e] = s]
  /\ cont' = [cont EXCEPT ![e] = l]
  /\ Goto(e, IF s.exec THEN "mark" ELSE "save")

\* finalizeOK and finalizeFail.
Finalize(e, s, kind) ==
  /\ st' = [st EXCEPT ![e] = [s EXCEPT !.term = kind]]
  /\ Goto(e, "terminal")
  /\ UNCHANGED cont

\* abandonOrFail: before a query tool the run is handed back for a retry;
\* afterwards it is failed terminally, on a context that cannot be canceled.
AbandonOrFail(e) ==
  \/ /\ ~st[e].exec
     /\ Goto(e, "erred")
     /\ UNCHANGED <<st, cont, ctx>>
  \/ /\ st[e].exec
     /\ Finalize(e, st[e], "fail")
     /\ ctx' = [ctx EXCEPT ![e] = "detached"]

\* The check of ctx.Err at the head of the step; a planner that failed twice
\* ends the same way.
StepAborts(e) ==
  /\ pc[e] = "plan"
  /\ AbandonOrFail(e)
  /\ UNCHANGED <<rowVars, acked, starts, hist, histVars>>

\* The run's deadline has passed, or the planner decided to finish or fail, or
\* returned a decision of no known kind.
StepFinal(e) ==
  /\ pc[e] = "plan" /\ ctx[e] = "live"
  /\ \E kind \in {"final", "fail"} : Finalize(e, st[e], kind)
  /\ UNCHANGED <<rowVars, acked, starts, hist, ctx, histVars>>

\* Mutant: the round counter is compared after the pause is granted.
RoundsLeftLate(s) == s.rounds <= MaxRounds

\* runClarificationStep's bound, after the increment.
RoundsLeft(s) == s.rounds < MaxRounds

\* runClarificationStep: one more round, or a terminal failure beyond the bound.
StepClarify(e) ==
  LET s == [st[e] EXCEPT !.rounds = @ + 1] IN
  /\ pc[e] = "plan" /\ ctx[e] = "live"
  /\ \/ /\ RoundsLeft(st[e])
        /\ SaveThen(e, [s EXCEPT !.pending = TRUE], "paused")
     \/ /\ ~RoundsLeft(st[e])
        /\ Finalize(e, s, "fail")
  /\ UNCHANGED <<rowVars, acked, starts, hist, ctx, histVars>>

\* Mutant: the proposal is dispatched first and saved with its outcome.
ProposeUnsaved(e, s) ==
  /\ st'   = [st EXCEPT ![e] = s]
  /\ cont' = [cont EXCEPT ![e] = "dispatch"]
  /\ Goto(e, "dispatch")

\* The proposal is saved before the external call.
Propose(e, s) == SaveThen(e, s, "dispatch")

\* Mutant: a proposed step does not count until it has an observation.
ProposedUncounted(s, query) == [s EXCEPT !.exec = @ \/ query, !.query = query]

\* The state with one more step; a query tool sets QueryExecuteStarted.
Proposed(s, query) == [s EXCEPT !.steps = @ + 1, !.exec = @ \/ query, !.query = query]

\* runToolStep up to the first save: the step bound, the new step, and
\* QueryExecuteStarted if the tool executes queries.
StepTool(e) ==
  /\ pc[e] = "plan" /\ ctx[e] = "live"
  /\ \/ /\ st[e].steps < MaxSteps
        /\ \E query \in BOOLEAN : Propose(e, Proposed(st[e], query))
     \/ /\ st[e].steps >= MaxSteps
        /\ Finalize(e, st[e], "fail")
  /\ UNCHANGED <<rowVars, acked, starts, hist, ctx, histVars>>

\* registry.Execute: denied by policy (the planner sees the denial), an error
\* (terminal failure) or an observation. A query tool has really run unless
\* the policy denied it.
Dispatch(e) ==
  /\ pc[e] = "dispatch"
  /\ dispatched' = IF dispatched > MaxSteps THEN dispatched ELSE dispatched + 1
  /\ \/ SaveThen(e, st[e], "plan") /\ UNCHANGED executed
     \/ SaveThen(e, st[e], "plan") /\ executed' = (executed \/ st[e].query)
     \/ Finalize(e, st[e], "fail") /\ executed' = (executed \/ st[e].query)
  /\ UNCHANGED <<rowVars, acked, starts, hist, ctx, asked>>

-----------------------------------------------------------------------------
(* StateStore.Save *)

\* MarkAgentRunQueryExecuteStarted, a statement of its own.
MarkExecuteStarted(e) ==
  /\ pc[e] = "mark"
  /\ \/ CallWorks(e) /\ marked' = TRUE /\ Goto(e, "save")
     \/ CallFails(e) /\ Goto(e, "erred") /\ UNCHANGED marked
  /\ UNCHANGED <<status, version, rowState, acked, starts, st, hist, cont, ctx, histVars>>

\* SaveAgentRuntimeState: an UPDATE without a guard on terminal_version.
SaveAgentRuntimeState(e) ==
  /\ pc[e] = "save"
  /\ \/ CallWorks(e) /\ rowState' = st[e] /\ Goto(e, cont[e])
     \/ CallFails(e) /\ Goto(e, "erred") /\ UNCHANGED rowState
  /\ UNCHANGED <<status, version, marked, acked, starts, st, hist, cont, ctx, histVars>>

\* The guard of CompleteAgentRunTerminal's UPDATE.
NotYetTerminal == version = 0

\* Mutant: the terminal UPDATE leaves runtime_state as it was.
TerminalSnapshotSkipped(e) == rowState

\* The runtime_state the terminal UPDATE writes.
TerminalSnapshot(e) == st[e]

\* CompleteAgentRunTerminal: guarded, and an error if the guard fails.
CompleteAgentRunTerminal(e) ==
  /\ pc[e] = "terminal"
  /\ \/ /\ CallWorks(e) /\ NotYetTerminal
        /\ version'  = version + 1
        /\ status'   = IF st[e].term = "final" THEN "completed" ELSE "failed"
        /\ rowState' = TerminalSnapshot(e)
        /\ Goto(e, "returned")
     \/ /\ CallFails(e) \/ ~NotYetTerminal
        /\ Goto(e, "erred")
        /\ UNCHANGED <<version, status, rowState>>
  /\ UNCHANGED <<marked, acked, starts, st, hist, cont, ctx, histVars>>

-----------------------------------------------------------------------------
(* Ending an execution *)

End(e) ==
  /\ Goto(e, "idle")
  /\ st'   = [st EXCEPT ![e] = EmptyState]
  /\ hist' = [hist EXCEPT ![e] = 0]
  /\ cont' = [cont EXCEPT ![e] = "plan"]
  /\ ctx'  = [ctx EXCEPT ![e] = "live"]

\* Run returned nil: the job's message is acked, a web request just ends. A
\* pause also returns nil and hands the question to the caller.
Returned(e) ==
  /\ pc[e] \in {"returned", "paused"}
  /\ acked' = (acked \/ e \in JobExecutors)
  /\ asked' = asked + IF pc[e] = "paused" THEN 1 ELSE 0
  /\ End(e)
  /\ UNCHANGED <<rowVars, starts, dispatched, executed>>

\* Run returned an error. A job's message is naked for redelivery.
JobErred(e) ==
  /\ pc[e] = "erred" /\ e \in JobExecutors
  /\ End(e)
  /\ UNCHANGED <<rowVars, acked, starts, histVars>>

\* failWebAgentRun: UpdateAgentRunStatus to failed, whatever the row says, on
\* a detached context; its failure is only logged.
FailWebAgentRun(e) ==
  /\ pc[e] = "erred" /\ e \in WebExecutors
  /\ \/ status # "absent" /\ status' = "failed"
     \/ ("db" \in Faults \/ status = "absent") /\ UNCHANGED status
  /\ End(e)
  /\ UNCHANGED <<version, marked, rowState, acked, starts, histVars>>

\* POST /internal/agent/runs/{id}/cancel, a client abort, the context's
\* deadline or a shutdown: the executor's context is canceled.
CancelContext(e) ==
  /\ "cancel" \in Faults
  /\ pc[e] \notin {"idle", "erred", "returned", "paused"}
  /\ ctx[e] = "live"
  /\ ctx' = [ctx EXCEPT ![e] = "canceled"]
  /\ UNCHANGED <<rowVars, acked, starts, pc, st, hist, cont, histVars>>

\* The process dies; what was not saved is gone.
Crash(e) ==
  /\ "crash" \in Faults
  /\ pc[e] # "idle"
  /\ End(e)
  /\ UNCHANGED <<rowVars, acked, starts, histVars>>

-----------------------------------------------------------------------------
RunStep(e) ==
  \/ CreateRun(e) \/ LoadState(e)
  \/ StepAborts(e) \/ StepFinal(e) \/ StepClarify(e) \/ StepTool(e) \/ Dispatch(e)
  \/ MarkExecuteStarted(e) \/ SaveAgentRuntimeState(e) \/ CompleteAgentRunTerminal(e)
  \/ Returned(e) \/ JobErred(e) \/ FailWebAgentRun(e)

Next ==
  \E e \in Executors :
    \/ JobStart(e) \/ WebStart(e) \/ WebResume(e)
    \/ RunStep(e)
    \/ CancelContext(e) \/ Crash(e)

Spec == Init /\ [][Next]_vars

\* A live process keeps running its loop: every call it makes has a deadline.
FairSpec == Spec /\ \A e \in Executors : WF_vars(RunStep(e))

-----------------------------------------------------------------------------
(* Safety *)

\* Write-ahead: whenever a query tool has really been called, the row says
\* query_execute_started, whatever crashed or overlapped since. The legacy
\* fallback decision depends on it.
ExecutedIsMarked == executed => marked

\* Tool calls of the whole run stay within MaxSteps, through any sequence of
\* crashes, redeliveries and resumes, when executions do not overlap.
DispatchesBounded == dispatched <= MaxSteps

\* The user is asked at most MaxClarificationRounds questions over all
\* resumes, when executions do not overlap.
QuestionsBounded == asked <= MaxRounds

\* terminal_version = 1 and the state's Terminal agree at every moment when
\* executions do not overlap, so a resumed execution sees the run is over.
TerminalVisible == (version = 1) <=> (rowState.term # "none")

\* The bounds of a run hold over all its executions, each of which sees what
\* the others did only through the saved state, and a run that is over looks
\* so to the next one, when executions do not overlap.
SequentialSafe == DispatchesBounded /\ QuestionsBounded /\ TerminalVisible

\* After the terminal result is recorded no tool of the run is dispatched
\* again, when executions do not overlap.
NoDispatchAfterTerminal == [][version = 1 => dispatched' = dispatched]_vars

\* An answered clarification is never forgotten by a later save, when
\* executions do not overlap.
AnswersKept == [][rowState'.answers >= rowState.answers]_vars

\* What an execution has settled, its terminal result or a question that was
\* answered, the next one does not open again, when executions do not overlap.
SettledStays == NoDispatchAfterTerminal /\ AnswersKept

(* Liveness *)

\* Every execution comes to an end: the step bound stops a planner that would
\* propose tools for ever.
ExecutionEnds == \A e \in Executors : pc[e] # "idle" ~> pc[e] = "idle"

-----------------------------------------------------------------------------
(* What comments in the code say, and runs refute *)

\* agent_runs.go: "a terminal result cannot be overwritten".
TerminalImmutable ==
  [][version = 1 => UNCHANGED <<version, status, rowState>>]_vars
=============================================================================
