--------------------------- MODULE AgentRun_Proofs ---------------------------
(***************************************************************************)
(* Proofs about AgentRun for any executors, any bounds and any faults,     *)
(* overlapping executions included; the last section is about executions   *)
(* that do not overlap.                                                    *)
(***************************************************************************)
EXTENDS AgentRun, TLAPS

\* One action of Next, for the case analyses below.
LEMMA RunCases ==
  ASSUME Next
  PROVE  \E e \in Executors :
           \/ JobStart(e) \/ WebStart(e) \/ WebResume(e) \/ CreateRun(e) \/ LoadState(e)
           \/ StepAborts(e) \/ StepFinal(e) \/ StepClarify(e) \/ StepTool(e) \/ Dispatch(e)
           \/ MarkExecuteStarted(e) \/ SaveAgentRuntimeState(e)
           \/ CompleteAgentRunTerminal(e) \/ Returned(e) \/ JobErred(e)
           \/ FailWebAgentRun(e) \/ CancelContext(e) \/ Crash(e)
BY DEF Next, RunStep

\* A state that is not terminal has not used up its clarification rounds.
WithinRounds(s) == s.term = "none" => s.rounds <= MaxRounds

\* An executor inside the loop holds a state that is not terminal.
LoopStates ==
  \A e \in Executors :
    /\ WithinRounds(st[e])
    /\ pc[e] \in {"plan", "mark", "save", "dispatch"} => st[e].term = "none"

TypeInv == TypeOK /\ WithinRounds(rowState) /\ LoopStates

\* A run without a saved state starts from a well-typed one with no round spent.
LEMMA EmptyStateType == EmptyState \in RuntimeStates /\ WithinRounds(EmptyState)
BY StepsAssumption, RoundsAssumption DEF EmptyState, RuntimeStates, WithinRounds

\* The initial rows and drivers are well typed.
LEMMA RunTypeInit == Init => TypeInv
<1> SUFFICES ASSUME Init PROVE TypeInv
  OBVIOUS
<1>1. rowState \in RuntimeStates /\ WithinRounds(rowState)
  BY EmptyStateType DEF Init
<1>2. st \in [Executors -> RuntimeStates] /\ \A e \in Executors : WithinRounds(st[e])
  BY EmptyStateType DEF Init
<1>3. /\ pc \in [Executors -> PCs]
      /\ hist \in [Executors -> Nat]
      /\ cont \in [Executors -> {"plan", "dispatch", "paused"}]
      /\ ctx  \in [Executors -> {"live", "canceled", "detached"}]
      /\ \A e \in Executors : pc[e] = "idle"
  BY DEF Init, PCs
<1>4. starts \in 0..MaxStarts /\ version \in 0..1 /\ dispatched \in Nat /\ asked \in Nat
  BY StartsAssumption DEF Init
<1>5. acked \in BOOLEAN /\ marked \in BOOLEAN /\ executed \in BOOLEAN
  BY DEF Init
<1>6. status \in {"absent", "running", "completed", "failed"}
  BY DEF Init
<1> QED
  BY <1>1, <1>2, <1>3, <1>4, <1>5, <1>6 DEF TypeInv, TypeOK, LoopStates

-----------------------------------------------------------------------------
(* What the runtime's edits do to a RuntimeState *)

\* The load: the question is answered, the history adopted.
LEMMA LoadedState ==
  ASSUME NEW s \in RuntimeStates, NEW n \in Nat
  PROVE  LET t == [s EXCEPT !.pending = FALSE, !.answers = n] IN
         /\ t \in RuntimeStates
         /\ t.term = s.term /\ t.rounds = s.rounds
         /\ t.query = s.query /\ t.exec = s.exec
BY DEF RuntimeStates

\* finalizeOK and finalizeFail.
LEMMA EndedState ==
  ASSUME NEW s \in RuntimeStates, NEW k \in {"final", "fail"}
  PROVE  LET t == [s EXCEPT !.term = k] IN
         /\ t \in RuntimeStates
         /\ t.term = k
         /\ t.query = s.query /\ t.exec = s.exec
BY DEF RuntimeStates

\* One more clarification round.
LEMMA CountedState ==
  ASSUME NEW s \in RuntimeStates, s.rounds <= MaxRounds
  PROVE  LET t == [s EXCEPT !.rounds = @ + 1] IN
         /\ t \in RuntimeStates
         /\ t.rounds = s.rounds + 1 /\ t.term = s.term
         /\ t.query = s.query /\ t.exec = s.exec
BY RoundsAssumption DEF RuntimeStates

\* The pending question.
LEMMA PausedState ==
  ASSUME NEW s \in RuntimeStates
  PROVE  LET t == [s EXCEPT !.pending = TRUE] IN
         /\ t \in RuntimeStates
         /\ t.rounds = s.rounds /\ t.term = s.term
         /\ t.query = s.query /\ t.exec = s.exec
BY DEF RuntimeStates

\* One more step.
LEMMA SteppedState ==
  ASSUME NEW s \in RuntimeStates, s.steps < MaxSteps
  PROVE  LET t == [s EXCEPT !.steps = @ + 1] IN
         /\ t \in RuntimeStates
         /\ t.term = s.term /\ t.rounds = s.rounds
         /\ t.query = s.query /\ t.exec = s.exec
BY StepsAssumption DEF RuntimeStates

\* The new step's tool kind.
LEMMA MarkedState ==
  ASSUME NEW s \in RuntimeStates, NEW b \in BOOLEAN, NEW q \in BOOLEAN
  PROVE  LET t == [s EXCEPT !.exec = b, !.query = q] IN
         /\ t \in RuntimeStates
         /\ t.term = s.term /\ t.rounds = s.rounds
         /\ t.exec = b /\ t.query = q
BY DEF RuntimeStates

\* A proposed step: the types hold, and a query tool has set exec.
LEMMA ProposedState ==
  ASSUME NEW s \in RuntimeStates, s.steps < MaxSteps, NEW q \in BOOLEAN
  PROVE  LET t == Proposed(s, q) IN
         /\ t \in RuntimeStates
         /\ t.term = s.term /\ t.rounds = s.rounds
         /\ t.query => t.exec
<1> DEFINE b == s.exec \/ q
           u == [s EXCEPT !.steps = @ + 1]
<1>1. b \in BOOLEAN /\ (q => b)
  OBVIOUS
<1>2. Proposed(s, q) = [u EXCEPT !.exec = b, !.query = q]
  BY DEF Proposed, RuntimeStates
<1>3. u \in RuntimeStates /\ u.term = s.term /\ u.rounds = s.rounds
  BY SteppedState
<1> DEFINE t == [u EXCEPT !.exec = b, !.query = q]
<1> HIDE DEF b, u
<1>4. b \in BOOLEAN
  BY <1>1
<1>5. u \in RuntimeStates
  BY <1>3
<1>6. t \in RuntimeStates /\ t.term = u.term /\ t.rounds = u.rounds
  BY <1>4, <1>5, MarkedState, ZenonT(30)
<1>7. t.exec = b /\ t.query = q
  BY <1>4, <1>5, MarkedState
<1> HIDE DEF t
<1>8. t.query => t.exec
  BY <1>1, <1>7
<1> QED
  BY <1>2, <1>3, <1>6, <1>8 DEF t

-----------------------------------------------------------------------------
(* Types *)

\* Every action keeps the types.
LEMMA RunTypeStep == TypeInv /\ [Next]_vars => TypeInv'
<1> SUFFICES ASSUME TypeInv, [Next]_vars PROVE TypeInv'
  OBVIOUS
<1> USE StepsAssumption, RoundsAssumption, StartsAssumption
<1> USE DEF TypeInv, TypeOK, LoopStates, PCs, Goto, rowVars, execVars, histVars
<1>1. ASSUME NEW e \in Executors, JobStart(e) \/ WebStart(e) PROVE TypeInv'
  BY <1>1 DEF JobStart, WebStart, Begin, MayStart
<1>2. ASSUME NEW e \in Executors, WebResume(e) PROVE TypeInv'
  <2>1. rowState.answers + (IF rowState.pending THEN 1 ELSE 0) \in Nat
    BY DEF RuntimeStates
  <2> QED
    BY <1>2, <2>1 DEF WebResume, Begin, MayStart
<1>3. ASSUME NEW e \in Executors, CreateRun(e) PROVE TypeInv'
  BY <1>3 DEF CreateRun
<1>4. ASSUME NEW e \in Executors, LoadState(e) PROVE TypeInv'
  <2>1. Adopted(e) \in Nat
    BY DEF Adopted, RuntimeStates
  <2> DEFINE s == [rowState EXCEPT !.pending = FALSE, !.answers = Adopted(e)]
  <2>2. s \in RuntimeStates /\ s.term = rowState.term /\ WithinRounds(s)
    BY <2>1, LoadedState DEF WithinRounds
  <2> QED
    BY <1>4, <2>2 DEF LoadState
<1>5. ASSUME NEW e \in Executors, StepAborts(e) PROVE TypeInv'
  <2> DEFINE s == [st[e] EXCEPT !.term = "fail"]
  <2>1. s \in RuntimeStates /\ WithinRounds(s)
    BY EndedState DEF WithinRounds
  <2> QED
    BY <1>5, <2>1 DEF StepAborts, AbandonOrFail, Finalize
<1>6. ASSUME NEW e \in Executors, StepFinal(e) PROVE TypeInv'
  <2>1. PICK kind \in {"final", "fail"} : Finalize(e, st[e], kind)
    BY <1>6 DEF StepFinal
  <2> DEFINE s == [st[e] EXCEPT !.term = kind]
  <2>2. s \in RuntimeStates /\ WithinRounds(s)
    BY EndedState DEF WithinRounds
  <2> QED
    BY <1>6, <2>1, <2>2 DEF StepFinal, Finalize
<1>7. ASSUME NEW e \in Executors, StepClarify(e) PROVE TypeInv'
  <2> DEFINE s == [st[e] EXCEPT !.rounds = @ + 1]
             p == [s EXCEPT !.pending = TRUE]
             f == [s EXCEPT !.term = "fail"]
  <2>1. st[e].rounds <= MaxRounds /\ st[e] \in RuntimeStates /\ st[e].term = "none"
    BY <1>7 DEF StepClarify, WithinRounds
  <2>2. s \in RuntimeStates /\ s.rounds = st[e].rounds + 1 /\ s.term = "none"
    BY <2>1, CountedState
  <2> HIDE DEF s
  <2>3. f \in RuntimeStates /\ f.term = "fail"
    BY <2>2, EndedState
  <2>6. p \in RuntimeStates /\ p.rounds = s.rounds /\ p.term = "none"
    BY <2>2, PausedState
  <2>7. RoundsLeft(st[e]) => WithinRounds(p)
    BY <2>1, <2>2, <2>6 DEF RuntimeStates, WithinRounds, RoundsLeft
  <2>8. WithinRounds(f)
    BY <2>3 DEF WithinRounds
  <2> HIDE DEF p, f
  <2>4. CASE RoundsLeft(st[e]) /\ SaveThen(e, p, "paused")
    BY <1>7, <2>4, <2>6, <2>7 DEF StepClarify, SaveThen
  <2>5. CASE Finalize(e, s, "fail")
    BY <1>7, <2>3, <2>5, <2>8 DEF StepClarify, Finalize, f
  <2> QED
    BY <1>7, <2>4, <2>5 DEF StepClarify, s, p
<1>8. ASSUME NEW e \in Executors, StepTool(e) PROVE TypeInv'
  <2>1. CASE st[e].steps < MaxSteps /\ \E q \in BOOLEAN : Propose(e, Proposed(st[e], q))
    <3>1. PICK q \in BOOLEAN : SaveThen(e, Proposed(st[e], q), "dispatch")
      BY <2>1 DEF Propose
    <3> DEFINE s == Proposed(st[e], q)
    <3>2. st[e].term = "none" /\ WithinRounds(st[e]) /\ st[e] \in RuntimeStates
      BY <1>8 DEF StepTool
    <3>3. s \in RuntimeStates /\ s.term = st[e].term /\ s.rounds = st[e].rounds
      BY <2>1, <3>2, ProposedState
    <3>4. WithinRounds(s)
      BY <3>2, <3>3 DEF WithinRounds
    <3> HIDE DEF s
    <3> QED
      BY <1>8, <3>1, <3>2, <3>3, <3>4 DEF StepTool, SaveThen, s
  <2>2. CASE Finalize(e, st[e], "fail")
    <3> DEFINE s == [st[e] EXCEPT !.term = "fail"]
    <3>1. s \in RuntimeStates /\ WithinRounds(s)
      BY EndedState DEF WithinRounds
    <3> QED
      BY <1>8, <2>2, <3>1 DEF StepTool, Finalize
  <2> QED
    BY <1>8, <2>1, <2>2 DEF StepTool
<1>9. ASSUME NEW e \in Executors, Dispatch(e) PROVE TypeInv'
  <2>1. dispatched' \in Nat
    BY <1>9 DEF Dispatch
  <2>2. executed' \in BOOLEAN
    BY <1>9 DEF Dispatch, RuntimeStates
  <2>3. CASE SaveThen(e, st[e], "plan")
    BY <1>9, <2>1, <2>2, <2>3 DEF Dispatch, SaveThen
  <2>4. CASE Finalize(e, st[e], "fail")
    <3> DEFINE s == [st[e] EXCEPT !.term = "fail"]
    <3>1. s \in RuntimeStates /\ WithinRounds(s)
      BY EndedState DEF WithinRounds
    <3> QED
      BY <1>9, <2>1, <2>2, <2>4, <3>1 DEF Dispatch, Finalize
  <2> QED
    BY <1>9, <2>3, <2>4 DEF Dispatch
<1>10. ASSUME NEW e \in Executors, MarkExecuteStarted(e) PROVE TypeInv'
  BY <1>10 DEF MarkExecuteStarted
<1>11. ASSUME NEW e \in Executors, SaveAgentRuntimeState(e) PROVE TypeInv'
  <2>1. rowState' \in RuntimeStates /\ WithinRounds(rowState')
    BY <1>11 DEF SaveAgentRuntimeState
  <2> QED
    BY <1>11, <2>1 DEF SaveAgentRuntimeState
<1>12. ASSUME NEW e \in Executors, CompleteAgentRunTerminal(e) PROVE TypeInv'
  <2>1. rowState' \in RuntimeStates /\ WithinRounds(rowState')
    BY <1>12 DEF CompleteAgentRunTerminal, TerminalSnapshot
  <2>2. version' \in 0..1 /\ status' \in {"absent", "running", "completed", "failed"}
    BY <1>12 DEF CompleteAgentRunTerminal, NotYetTerminal
  <2> QED
    BY <1>12, <2>1, <2>2 DEF CompleteAgentRunTerminal
<1>13. ASSUME NEW e \in Executors, Returned(e) PROVE TypeInv'
  BY <1>13, EmptyStateType DEF Returned, End
<1>14. ASSUME NEW e \in Executors, JobErred(e) \/ FailWebAgentRun(e) \/ Crash(e) PROVE TypeInv'
  BY <1>14, EmptyStateType DEF JobErred, FailWebAgentRun, Crash, End
<1>15. ASSUME NEW e \in Executors, CancelContext(e) PROVE TypeInv'
  BY <1>15 DEF CancelContext
<1>16. CASE UNCHANGED vars
  BY <1>16 DEF vars
<1> QED
  BY <1>1, <1>2, <1>3, <1>4, <1>5, <1>6, <1>7, <1>8, <1>9, <1>10, <1>11, <1>12, <1>13,
     <1>14, <1>15, <1>16, RunCases

\* The row, the states and the executors keep their types: in particular a
\* saved state never holds more than MaxSteps steps or MaxRounds + 1 rounds,
\* however executions crash, overlap and resume each other's states.
THEOREM RunTypeCorrect == Spec => []TypeOK
<1>1. TypeInv => TypeOK
  BY DEF TypeInv
<1> QED
  BY RunTypeInit, RunTypeStep, <1>1, PTL DEF Spec

-----------------------------------------------------------------------------
(* Write-ahead of query_execute_started *)

\* A state whose last step is a query tool says so in exec.
QueryIsExec(s) == s.query => s.exec

\* An executor past the mark with exec set has marked the row.
PastMark == \A e \in Executors : pc[e] \in {"save", "dispatch"} /\ st[e].exec => marked

MarkInv ==
  /\ ExecutedIsMarked
  /\ QueryIsExec(rowState)
  /\ \A e \in Executors : QueryIsExec(st[e])
  /\ PastMark

\* Nothing is dispatched initially.
LEMMA MarkInit == Init => MarkInv
BY DEF Init, MarkInv, ExecutedIsMarked, QueryIsExec, PastMark, EmptyState

\* Every action keeps the mark ahead of the call.
LEMMA MarkStep == TypeInv /\ MarkInv /\ [Next]_vars => MarkInv'
<1> SUFFICES ASSUME TypeInv, MarkInv, [Next]_vars PROVE MarkInv'
  OBVIOUS
<1> USE DEF MarkInv, ExecutedIsMarked, PastMark, Goto, rowVars, execVars, histVars
<1>t. /\ st \in [Executors -> RuntimeStates] /\ pc \in [Executors -> PCs]
      /\ cont \in [Executors -> {"plan", "dispatch", "paused"}]
      /\ rowState \in RuntimeStates
  BY DEF TypeInv, TypeOK
<1>e. QueryIsExec(EmptyState)
  BY DEF EmptyState, QueryIsExec
<1>f. ASSUME NEW s \in RuntimeStates, QueryIsExec(s), NEW k \in {"final", "fail"}
      PROVE  QueryIsExec([s EXCEPT !.term = k])
  BY <1>f, EndedState DEF QueryIsExec
<1>1. ASSUME NEW e \in Executors, JobStart(e) \/ WebStart(e) \/ WebResume(e) PROVE MarkInv'
  BY <1>1, <1>t DEF JobStart, WebStart, WebResume, Begin
<1>2. ASSUME NEW e \in Executors, CreateRun(e) PROVE MarkInv'
  BY <1>2, <1>t DEF CreateRun
<1>3. ASSUME NEW e \in Executors, LoadState(e) PROVE MarkInv'
  <2> DEFINE s == [rowState EXCEPT !.pending = FALSE, !.answers = Adopted(e)]
  <2>1. Adopted(e) \in Nat
    BY DEF TypeInv, TypeOK, Adopted, RuntimeStates
  <2>2. QueryIsExec(s)
    BY <1>t, <2>1, LoadedState DEF QueryIsExec
  <2> QED
    BY <1>3, <1>t, <2>2 DEF LoadState
<1>4. ASSUME NEW e \in Executors, StepAborts(e) PROVE MarkInv'
  <2> DEFINE s == [st[e] EXCEPT !.term = "fail"]
  <2>1. QueryIsExec(s)
    BY <1>t, <1>f
  <2> QED
    BY <1>4, <1>t, <2>1 DEF StepAborts, AbandonOrFail, Finalize
<1>5. ASSUME NEW e \in Executors, StepFinal(e) PROVE MarkInv'
  <2>1. PICK kind \in {"final", "fail"} : Finalize(e, st[e], kind)
    BY <1>5 DEF StepFinal
  <2> DEFINE s == [st[e] EXCEPT !.term = kind]
  <2>2. QueryIsExec(s)
    BY <1>t, <1>f
  <2> QED
    BY <1>5, <1>t, <2>1, <2>2 DEF StepFinal, Finalize
<1>6. ASSUME NEW e \in Executors, StepClarify(e) PROVE MarkInv'
  <2> DEFINE s == [st[e] EXCEPT !.rounds = @ + 1]
             p == [s EXCEPT !.pending = TRUE]
  <2>1. st[e].rounds <= MaxRounds /\ st[e] \in RuntimeStates
    BY <1>6 DEF StepClarify, TypeInv, TypeOK, LoopStates, WithinRounds
  <2>2. s \in RuntimeStates /\ QueryIsExec(s)
    BY <2>1, CountedState DEF QueryIsExec
  <2> HIDE DEF s
  <2>3. QueryIsExec(p)
    BY <2>2, PausedState DEF QueryIsExec
  <2> HIDE DEF p
  <2>4. CASE SaveThen(e, p, "paused")
    BY <1>6, <1>t, <2>3, <2>4 DEF StepClarify, SaveThen
  <2>5. CASE Finalize(e, s, "fail")
    BY <1>6, <1>t, <1>f, <2>2, <2>5 DEF StepClarify, Finalize
  <2> QED
    BY <1>6, <2>4, <2>5 DEF StepClarify, s, p
<1>7. ASSUME NEW e \in Executors, StepTool(e) PROVE MarkInv'
  <2>1. CASE st[e].steps < MaxSteps /\ \E q \in BOOLEAN : Propose(e, Proposed(st[e], q))
    <3>1. PICK q \in BOOLEAN : SaveThen(e, Proposed(st[e], q), "dispatch")
      BY <2>1 DEF Propose
    <3> DEFINE s == Proposed(st[e], q)
    <3>2. QueryIsExec(s)
      BY <1>t, <2>1, ProposedState DEF QueryIsExec
    <3> HIDE DEF s
    <3> QED
      BY <1>7, <1>t, <3>1, <3>2 DEF StepTool, SaveThen, s
  <2>2. CASE Finalize(e, st[e], "fail")
    BY <1>7, <1>t, <1>f, <2>2 DEF StepTool, Finalize
  <2> QED
    BY <1>7, <2>1, <2>2 DEF StepTool
<1>8. ASSUME NEW e \in Executors, Dispatch(e) PROVE MarkInv'
  <2>1. st[e].query => marked
    BY <1>8, <1>t DEF Dispatch, QueryIsExec
  <2>2. executed' => marked'
    BY <1>8, <2>1 DEF Dispatch
  <2>3. CASE SaveThen(e, st[e], "plan")
    BY <1>8, <1>t, <2>2, <2>3 DEF Dispatch, SaveThen
  <2>4. CASE Finalize(e, st[e], "fail")
    BY <1>8, <1>t, <1>f, <2>2, <2>4 DEF Dispatch, Finalize
  <2> QED
    BY <1>8, <2>3, <2>4 DEF Dispatch
<1>9. ASSUME NEW e \in Executors, MarkExecuteStarted(e) PROVE MarkInv'
  BY <1>9, <1>t DEF MarkExecuteStarted
<1>10. ASSUME NEW e \in Executors, SaveAgentRuntimeState(e) PROVE MarkInv'
  <2>1. QueryIsExec(rowState)'
    BY <1>10, <1>t DEF SaveAgentRuntimeState, QueryIsExec
  <2> QED
    BY <1>10, <1>t, <2>1 DEF SaveAgentRuntimeState
<1>11. ASSUME NEW e \in Executors, CompleteAgentRunTerminal(e) PROVE MarkInv'
  <2>1. QueryIsExec(rowState)'
    BY <1>11, <1>t DEF CompleteAgentRunTerminal, TerminalSnapshot, QueryIsExec
  <2> QED
    BY <1>11, <1>t, <2>1 DEF CompleteAgentRunTerminal
<1>12. ASSUME NEW e \in Executors, Returned(e) PROVE MarkInv'
  BY <1>12, <1>t, <1>e DEF Returned, End
<1>13. ASSUME NEW e \in Executors, JobErred(e) \/ FailWebAgentRun(e) \/ Crash(e)
       PROVE  MarkInv'
  BY <1>13, <1>t, <1>e DEF JobErred, FailWebAgentRun, Crash, End
<1>14. ASSUME NEW e \in Executors, CancelContext(e) PROVE MarkInv'
  BY <1>14 DEF CancelContext
<1>15. CASE UNCHANGED vars
  BY <1>15 DEF vars
<1> QED
  BY <1>1, <1>2, <1>3, <1>4, <1>5, <1>6, <1>7, <1>8, <1>9, <1>10, <1>11, <1>12, <1>13,
     <1>14, <1>15, RunCases

\* Write-ahead: in every reachable state a query tool that was really called
\* has its query_execute_started on the row, for any number of executors,
\* overlapping or not, and any crash, database error or cancellation between
\* the two statements of Save and the dispatch.
THEOREM WriteAheadCorrect == Spec => []ExecutedIsMarked
<1>1. Init => TypeInv /\ MarkInv
  BY RunTypeInit, MarkInit
<1>2. TypeInv /\ MarkInv /\ [Next]_vars => (TypeInv /\ MarkInv)'
  BY RunTypeStep, MarkStep
<1>3. TypeInv /\ MarkInv => ExecutedIsMarked
  BY DEF MarkInv
<1> QED
  BY <1>1, <1>2, <1>3, PTL DEF Spec

-----------------------------------------------------------------------------
(* Executions that do not overlap *)

\* At most one executor is inside an execution.
Alone == \A e, f \in Executors : pc[e] # "idle" /\ pc[f] # "idle" => e = f

\* The control points at which an executor holds a loaded state.
Looping == {"plan", "mark", "save", "dispatch", "terminal"}

\* The saved state has counted every dispatch made and every question asked.
RowCounts ==
  /\ dispatched <= rowState.steps
  /\ asked <= rowState.rounds
  /\ QuestionsBounded

\* What executor e may rely on: nobody ended the run or answered a question
\* since it loaded the state, and whatever it is about to do, a dispatch or a
\* question, is counted by the state it holds, and by the saved one as soon as
\* it may act.
Held(e) ==
  /\ pc[e] \in Looping =>
       /\ version = 0
       /\ dispatched <= st[e].steps
       /\ asked <= st[e].rounds
       /\ rowState.answers <= st[e].answers
  /\ pc[e] \in {"mark", "save"} /\ cont[e] = "dispatch" => dispatched < st[e].steps
  /\ pc[e] \in {"mark", "save"} /\ cont[e] = "paused" => asked < st[e].rounds
  /\ pc[e] = "dispatch" => dispatched < st[e].steps /\ dispatched < rowState.steps
  /\ pc[e] = "terminal" => st[e].term # "none"
  /\ pc[e] = "paused" => asked < rowState.rounds /\ rowState.term = "none"
  /\ pc[e] \in {"create", "load"} /\ hist[e] > 0 => rowState.answers <= hist[e]

SequentialInv ==
  /\ Alone
  /\ RowCounts
  /\ TerminalVisible
  /\ \A e \in Executors : Held(e)

\* The counters of a RuntimeState are numbers.
LEMMA StateCounts ==
  ASSUME NEW s \in RuntimeStates
  PROVE  /\ s.steps \in Nat /\ s.steps <= MaxSteps
         /\ s.rounds \in Nat /\ s.answers \in Nat
BY StepsAssumption, RoundsAssumption DEF RuntimeStates

\* The load keeps the steps and rounds of the saved state.
LEMMA LoadedCounts ==
  ASSUME NEW s \in RuntimeStates, NEW n \in Nat
  PROVE  LET t == [s EXCEPT !.pending = FALSE, !.answers = n] IN
         t.steps = s.steps /\ t.rounds = s.rounds /\ t.answers = n /\ t.term = s.term
BY DEF RuntimeStates

\* Finalizing a state keeps its counters.
LEMMA EndedCounts ==
  ASSUME NEW s \in RuntimeStates, NEW k \in {"final", "fail"}
  PROVE  LET t == [s EXCEPT !.term = k] IN
         t.steps = s.steps /\ t.rounds = s.rounds /\ t.answers = s.answers /\ t.term = k
BY DEF RuntimeStates

\* A clarification step adds a round and nothing else.
LEMMA ClarifiedCounts ==
  ASSUME NEW s \in RuntimeStates, s.rounds <= MaxRounds
  PROVE  LET u == [s EXCEPT !.rounds = @ + 1]
             t == [u EXCEPT !.pending = TRUE] IN
         /\ u \in RuntimeStates
         /\ u.steps = s.steps /\ u.rounds = s.rounds + 1 /\ u.answers = s.answers
         /\ t.steps = s.steps /\ t.rounds = s.rounds + 1 /\ t.answers = s.answers
BY RoundsAssumption DEF RuntimeStates

\* A proposal adds a step and nothing else.
LEMMA ProposedCounts ==
  ASSUME NEW s \in RuntimeStates, NEW q \in BOOLEAN
  PROVE  LET t == Proposed(s, q) IN
         t.steps = s.steps + 1 /\ t.rounds = s.rounds /\ t.answers = s.answers
BY DEF RuntimeStates, Proposed

\* Without overlap a step of the executor inside an execution leaves all the
\* others idle, so only its own promises are in question.
LEMMA OneMoves ==
  ASSUME TypeOK, Alone, NEW e \in Executors, pc[e] # "idle", NEW l \in PCs, Goto(e, l),
         RowCounts', TerminalVisible', Held(e)'
  PROVE  SequentialInv'
<1>1. pc \in [Executors -> PCs]
  BY DEF TypeOK
<1>2. pc' = [pc EXCEPT ![e] = l]
  BY DEF Goto
<1>3. \A f \in Executors : f # e => pc[f] = "idle"
  BY DEF Alone
<1>4. \A f \in Executors : f # e => pc'[f] = "idle"
  BY <1>1, <1>2, <1>3
<1>5. Alone'
  BY <1>4 DEF Alone
<1>6. ASSUME NEW f \in Executors, f # e PROVE Held(f)'
  <2>1. pc'[f] = "idle"
    BY <1>4, <1>6
  <2> QED
    BY <2>1 DEF Held, Looping
<1> QED
  BY <1>5, <1>6 DEF SequentialInv

\* An execution begins only when nobody is inside one.
LEMMA BeginsAlone ==
  ASSUME TypeOK, ~Overlap, SequentialInv, NEW e \in Executors, MayStart(e),
         NEW l \in {"create", "load"}, Goto(e, l), UNCHANGED <<rowVars, histVars>>,
         hist'[e] > 0 => rowState.answers <= hist'[e]
  PROVE  SequentialInv'
<1>1. pc \in [Executors -> PCs] /\ pc' = [pc EXCEPT ![e] = l]
  BY DEF TypeOK, Goto
<1>2. \A f \in Executors : pc[f] = "idle"
  BY DEF MayStart
<1>3. \A f \in Executors : f # e => pc'[f] = "idle"
  BY <1>1, <1>2
<1>4. Alone'
  BY <1>3 DEF Alone
<1>5. RowCounts' /\ TerminalVisible'
  BY DEF SequentialInv, RowCounts, QuestionsBounded, TerminalVisible, rowVars, histVars
<1>6. ASSUME NEW f \in Executors, f # e PROVE Held(f)'
  <2>1. pc'[f] = "idle"
    BY <1>3, <1>6
  <2> QED
    BY <2>1 DEF Held, Looping
<1>7. Held(e)'
  <2>1. pc'[e] = l /\ rowState' = rowState
    BY <1>1 DEF rowVars
  <2> QED
    BY <2>1 DEF Held, Looping
<1> QED
  BY <1>4, <1>5, <1>6, <1>7 DEF SequentialInv

\* An executor that stops, in error or with its result, promises nothing more.
LEMMA StopsAlone ==
  ASSUME TypeOK, SequentialInv, NEW e \in Executors, pc[e] # "idle",
         NEW l \in {"idle", "erred", "returned"}, Goto(e, l),
         UNCHANGED <<version, rowState, dispatched>>,
         asked' = asked \/ (asked' = asked + 1 /\ asked < rowState.rounds
                            /\ rowState.rounds <= MaxRounds)
  PROVE  SequentialInv'
<1>1. pc'[e] = l
  BY DEF TypeOK, Goto
<1>2. Held(e)'
  BY <1>1 DEF Held, Looping
<1>3. /\ rowState.rounds \in Nat /\ asked \in Nat
      /\ dispatched <= rowState.steps /\ asked <= rowState.rounds /\ asked <= MaxRounds
  BY StateCounts DEF TypeOK, SequentialInv, RowCounts, QuestionsBounded
<1>4. asked' <= rowState.rounds /\ asked' <= MaxRounds
  BY <1>3, RoundsAssumption
<1>5. RowCounts'
  BY <1>3, <1>4 DEF RowCounts, QuestionsBounded
<1>6. TerminalVisible' /\ Alone /\ l \in PCs
  BY DEF SequentialInv, TerminalVisible, PCs
<1> QED
  BY <1>2, <1>5, <1>6, OneMoves

\* A step that leaves the row and the history alone and brings executor e to a
\* state s it may go on with.
LEMMA GoesOnAlone ==
  ASSUME TypeOK, SequentialInv, NEW e \in Executors, pc[e] # "idle",
         NEW l \in PCs, Goto(e, l), UNCHANGED <<version, rowState, asked>>,
         RowCounts', Held(e)'
  PROVE  SequentialInv'
<1>1. TerminalVisible' /\ Alone
  BY DEF SequentialInv, TerminalVisible
<1> QED
  BY <1>1, OneMoves

\* Every action keeps the promises when executions do not overlap.
LEMMA SequentialStep ==
  ASSUME ~Overlap, TypeInv, SequentialInv, [Next]_vars
  PROVE  SequentialInv'
<1>t. /\ TypeOK
      /\ st \in [Executors -> RuntimeStates] /\ pc \in [Executors -> PCs]
      /\ cont \in [Executors -> {"plan", "dispatch", "paused"}]
      /\ hist \in [Executors -> Nat]
      /\ rowState \in RuntimeStates /\ version \in 0..1
      /\ dispatched \in Nat /\ asked \in Nat
  BY DEF TypeInv, TypeOK
<1>r. /\ rowState.steps \in Nat /\ rowState.steps <= MaxSteps
      /\ rowState.rounds \in Nat /\ rowState.answers \in Nat
  BY <1>t, StateCounts
<1>s. ASSUME NEW e \in Executors
      PROVE  /\ st[e].steps \in Nat /\ st[e].steps <= MaxSteps
             /\ st[e].rounds \in Nat /\ st[e].answers \in Nat
  BY <1>t, StateCounts
<1>c. /\ dispatched <= rowState.steps /\ asked <= rowState.rounds /\ asked <= MaxRounds
      /\ \A e \in Executors : Held(e)
      /\ RowCounts /\ TerminalVisible
  BY DEF SequentialInv, RowCounts, QuestionsBounded
<1>k. ASSUME UNCHANGED <<rowState, dispatched, asked>> PROVE RowCounts'
  BY <1>c, <1>k DEF RowCounts, QuestionsBounded
<1>1. ASSUME NEW e \in Executors, JobStart(e) PROVE SequentialInv'
  <2>1. hist'[e] = 0
    BY <1>1, <1>t DEF JobStart
  <2>2. PICK l \in {"create", "load"} : Goto(e, l)
    BY <1>1 DEF JobStart, Begin
  <2>3. MayStart(e) /\ UNCHANGED <<rowVars, histVars>>
    BY <1>1 DEF JobStart, Begin
  <2> QED
    BY <1>t, <2>1, <2>2, <2>3, BeginsAlone
<1>2. ASSUME NEW e \in Executors, WebStart(e) PROVE SequentialInv'
  <2>1. hist'[e] = 0
    BY <1>2, <1>t DEF WebStart
  <2>2. Goto(e, "create")
    BY <1>2 DEF WebStart, Begin
  <2>3. MayStart(e) /\ UNCHANGED <<rowVars, histVars>>
    BY <1>2 DEF WebStart, Begin
  <2> QED
    BY <1>t, <2>1, <2>2, <2>3, BeginsAlone
<1>3. ASSUME NEW e \in Executors, WebResume(e) PROVE SequentialInv'
  <2>1. hist'[e] = rowState.answers + IF rowState.pending THEN 1 ELSE 0
    BY <1>3, <1>t DEF WebResume
  <2>2. rowState.answers <= hist'[e]
    BY <2>1, <1>r
  <2>3. Goto(e, "load")
    BY <1>3 DEF WebResume, Begin
  <2>4. MayStart(e) /\ UNCHANGED <<rowVars, histVars>>
    BY <1>3 DEF WebResume, Begin
  <2> QED
    BY <1>t, <2>2, <2>3, <2>4, BeginsAlone
<1>4. ASSUME NEW e \in Executors, CreateRun(e) PROVE SequentialInv'
  <2>1. pc[e] = "create" /\ UNCHANGED <<version, rowState, asked, dispatched, hist>>
    BY <1>4 DEF CreateRun, histVars
  <2>2. CASE Goto(e, "load")
    <3>1. Held(e)'
      BY <1>c, <1>t, <2>1, <2>2 DEF Held, Looping, Goto
    <3> QED
      BY <1>t, <1>k, <2>1, <2>2, <3>1, GoesOnAlone DEF PCs
  <2>3. CASE Goto(e, "erred")
    BY <1>t, <2>1, <2>3, StopsAlone
  <2> QED
    BY <1>4, <2>2, <2>3 DEF CreateRun
<1>5. ASSUME NEW e \in Executors, LoadState(e) PROVE SequentialInv'
  <2>1. pc[e] = "load" /\ UNCHANGED <<version, rowState, asked, dispatched>>
    BY <1>5 DEF LoadState, rowVars, histVars
  <2>2. CASE Goto(e, "erred")
    BY <1>t, <2>1, <2>2, StopsAlone
  <2>3. CASE rowState.term = "none" /\ Goto(e, "plan")
             /\ st' = [st EXCEPT ![e] = [rowState EXCEPT !.pending = FALSE,
                                                         !.answers = Adopted(e)]]
    <3> DEFINE s == [rowState EXCEPT !.pending = FALSE, !.answers = Adopted(e)]
    <3>1. Adopted(e) \in Nat /\ rowState.answers <= Adopted(e)
      BY <1>c, <1>r, <1>t, <2>1 DEF Adopted, Held
    <3>2. s.steps = rowState.steps /\ s.rounds = rowState.rounds /\ s.answers = Adopted(e)
      BY <1>t, <3>1, LoadedCounts
    <3>3. st'[e] = s /\ pc'[e] = "plan"
      BY <1>t, <2>3 DEF Goto
    <3> HIDE DEF s
    <3>4. version = 0
      BY <1>c, <1>t, <2>3 DEF TerminalVisible
    <3>5. Held(e)'
      BY <1>c, <2>1, <3>1, <3>2, <3>3, <3>4 DEF Held, Looping
    <3> QED
      BY <1>t, <1>k, <2>1, <2>3, <3>5, GoesOnAlone DEF PCs
  <2> QED
    BY <1>5, <2>2, <2>3 DEF LoadState
<1>f. ASSUME NEW e \in Executors, NEW s \in RuntimeStates, NEW k \in {"final", "fail"},
             pc[e] # "idle", Finalize(e, s, k), UNCHANGED <<version, rowState, asked>>,
             RowCounts', version = 0, dispatched' <= s.steps, asked <= s.rounds,
             rowState.answers <= s.answers
      PROVE  SequentialInv'
  <2> DEFINE u == [s EXCEPT !.term = k]
  <2>1. u.steps = s.steps /\ u.rounds = s.rounds /\ u.answers = s.answers /\ u.term = k
    BY EndedCounts
  <2>2. st'[e] = u /\ pc'[e] = "terminal" /\ Goto(e, "terminal")
    BY <1>f, <1>t DEF Finalize, Goto
  <2> HIDE DEF u
  <2>3. Held(e)'
    BY <1>f, <2>1, <2>2 DEF Held, Looping
  <2> QED
    BY <1>f, <1>t, <2>2, <2>3, GoesOnAlone DEF PCs
<1>v. ASSUME NEW e \in Executors, NEW s, NEW l \in {"plan", "dispatch", "paused"},
             pc[e] # "idle", SaveThen(e, s, l), UNCHANGED <<version, rowState, asked>>,
             RowCounts', version = 0, dispatched' <= s.steps, asked <= s.rounds,
             rowState.answers <= s.answers,
             l = "dispatch" => dispatched' < s.steps,
             l = "paused" => asked < s.rounds
      PROVE  SequentialInv'
  <2>1. PICK m \in {"mark", "save"} : Goto(e, m)
    BY <1>v DEF SaveThen
  <2>2. st'[e] = s /\ pc'[e] = m /\ cont'[e] = l
    BY <1>v, <1>t, <2>1 DEF SaveThen, Goto
  <2>3. Held(e)'
    BY <1>v, <2>1, <2>2 DEF Held, Looping
  <2> QED
    BY <1>v, <1>t, <2>1, <2>3, GoesOnAlone DEF PCs
<1>p. ASSUME NEW e \in Executors, pc[e] = "plan"
      PROVE  /\ version = 0 /\ dispatched <= st[e].steps /\ asked <= st[e].rounds
             /\ rowState.answers <= st[e].answers /\ pc[e] # "idle"
             /\ st[e] \in RuntimeStates
  BY <1>c, <1>p, <1>t DEF Held, Looping
<1>6. ASSUME NEW e \in Executors, StepAborts(e) PROVE SequentialInv'
  <2>1. pc[e] = "plan" /\ UNCHANGED <<version, rowState, asked, dispatched>>
    BY <1>6 DEF StepAborts, rowVars, histVars
  <2>2. CASE Goto(e, "erred")
    BY <1>t, <2>1, <2>2, StopsAlone
  <2>3. CASE Finalize(e, st[e], "fail")
    BY <1>f, <1>k, <1>p, <2>1, <2>3
  <2> QED
    BY <1>6, <2>2, <2>3 DEF StepAborts, AbandonOrFail
<1>7. ASSUME NEW e \in Executors, StepFinal(e) PROVE SequentialInv'
  <2>1. pc[e] = "plan" /\ UNCHANGED <<version, rowState, asked, dispatched>>
    BY <1>7 DEF StepFinal, rowVars, histVars
  <2>2. PICK kind \in {"final", "fail"} : Finalize(e, st[e], kind)
    BY <1>7 DEF StepFinal
  <2> QED
    BY <1>f, <1>k, <1>p, <2>1, <2>2
<1>8. ASSUME NEW e \in Executors, StepClarify(e) PROVE SequentialInv'
  <2>1. pc[e] = "plan" /\ UNCHANGED <<version, rowState, asked, dispatched>>
    BY <1>8 DEF StepClarify, rowVars, histVars
  <2> DEFINE s == [st[e] EXCEPT !.rounds = @ + 1]
             u == [s EXCEPT !.pending = TRUE]
  <2>2. st[e].rounds <= MaxRounds
    BY <2>1 DEF TypeInv, LoopStates, WithinRounds
  <2>3. /\ s \in RuntimeStates
        /\ s.steps = st[e].steps /\ s.rounds = st[e].rounds + 1 /\ s.answers = st[e].answers
        /\ u.steps = st[e].steps /\ u.rounds = st[e].rounds + 1 /\ u.answers = st[e].answers
    BY <1>t, <2>2, ClarifiedCounts
  <2>4. SaveThen(e, u, "paused") \/ Finalize(e, s, "fail")
    BY <1>8 DEF StepClarify
  <2> HIDE DEF s, u
  <2>5. asked <= s.rounds /\ asked < u.rounds /\ asked <= u.rounds
    BY <1>p, <1>s, <1>t, <2>1, <2>3
  <2>6. RowCounts'
    BY <1>k, <2>1
  <2>7. /\ version = 0 /\ dispatched' <= s.steps /\ dispatched' <= u.steps
        /\ rowState.answers <= s.answers /\ rowState.answers <= u.answers
    BY <1>p, <2>1, <2>3
  <2>8. CASE SaveThen(e, u, "paused")
    BY <1>v, <2>1, <2>5, <2>6, <2>7, <2>8
  <2>9. CASE Finalize(e, s, "fail")
    BY <1>f, <2>1, <2>3, <2>5, <2>6, <2>7, <2>9
  <2> QED
    BY <2>4, <2>8, <2>9
<1>9. ASSUME NEW e \in Executors, StepTool(e) PROVE SequentialInv'
  <2>1. pc[e] = "plan" /\ UNCHANGED <<version, rowState, asked, dispatched>>
    BY <1>9 DEF StepTool, rowVars, histVars
  <2>2. CASE Finalize(e, st[e], "fail")
    BY <1>f, <1>k, <1>p, <2>1, <2>2
  <2>3. CASE \E q \in BOOLEAN : Propose(e, Proposed(st[e], q))
    <3>1. PICK q \in BOOLEAN : SaveThen(e, Proposed(st[e], q), "dispatch")
      BY <2>3 DEF Propose
    <3> DEFINE s == Proposed(st[e], q)
    <3>2. s.steps = st[e].steps + 1 /\ s.rounds = st[e].rounds /\ s.answers = st[e].answers
      BY <1>t, ProposedCounts
    <3>3. SaveThen(e, s, "dispatch")
      BY <3>1
    <3> HIDE DEF s
    <3>4. dispatched' < s.steps /\ dispatched' <= s.steps
      BY <1>p, <1>s, <1>t, <2>1, <3>2
    <3>5. version = 0 /\ asked <= s.rounds /\ rowState.answers <= s.answers /\ pc[e] # "idle"
      BY <1>p, <2>1, <3>2
    <3>6. RowCounts'
      BY <1>k, <2>1
    <3> QED
      BY <1>v, <2>1, <3>3, <3>4, <3>5, <3>6
  <2> QED
    BY <1>9, <2>2, <2>3 DEF StepTool
<1>10. ASSUME NEW e \in Executors, Dispatch(e) PROVE SequentialInv'
  <2>1. pc[e] = "dispatch" /\ UNCHANGED <<version, rowState, asked>>
    BY <1>10 DEF Dispatch, rowVars
  <2>2. /\ dispatched < st[e].steps /\ dispatched < rowState.steps
        /\ version = 0 /\ asked <= st[e].rounds /\ rowState.answers <= st[e].answers
        /\ st[e] \in RuntimeStates
    BY <1>c, <1>t, <2>1 DEF Held, Looping
  <2>3. dispatched' = dispatched + 1
    BY <1>10, <1>r, <1>t, <2>2, StepsAssumption DEF Dispatch
  <2>4. dispatched' <= st[e].steps /\ dispatched' <= rowState.steps
    BY <1>r, <1>s, <1>t, <2>2, <2>3
  <2>5. RowCounts'
    BY <1>c, <2>1, <2>4 DEF RowCounts, QuestionsBounded
  <2>6. CASE SaveThen(e, st[e], "plan")
    BY <1>v, <2>1, <2>2, <2>4, <2>5, <2>6
  <2>7. CASE Finalize(e, st[e], "fail")
    BY <1>f, <2>1, <2>2, <2>4, <2>5, <2>7
  <2> QED
    BY <1>10, <2>6, <2>7 DEF Dispatch
<1>11. ASSUME NEW e \in Executors, MarkExecuteStarted(e) PROVE SequentialInv'
  <2>1. pc[e] = "mark" /\ UNCHANGED <<version, rowState, asked, dispatched, st, cont>>
    BY <1>11 DEF MarkExecuteStarted, histVars
  <2>2. CASE Goto(e, "erred")
    BY <1>t, <2>1, <2>2, StopsAlone
  <2>3. CASE Goto(e, "save")
    <3>1. pc'[e] = "save"
      BY <1>t, <2>3 DEF Goto
    <3>2. Held(e)'
      BY <1>c, <2>1, <3>1 DEF Held, Looping
    <3> QED
      BY <1>t, <1>k, <2>1, <2>3, <3>2, GoesOnAlone DEF PCs
  <2> QED
    BY <1>11, <2>2, <2>3 DEF MarkExecuteStarted
<1>12. ASSUME NEW e \in Executors, SaveAgentRuntimeState(e) PROVE SequentialInv'
  <2>1. pc[e] = "save" /\ UNCHANGED <<version, asked, dispatched, st, cont>>
    BY <1>12 DEF SaveAgentRuntimeState, histVars
  <2>2. CASE Goto(e, "erred") /\ UNCHANGED rowState
    BY <1>t, <2>1, <2>2, StopsAlone
  <2>3. CASE rowState' = st[e] /\ Goto(e, cont[e])
    <3>1. pc'[e] = cont[e] /\ cont[e] \in {"plan", "dispatch", "paused"} /\ cont[e] \in PCs
      BY <1>t, <2>3 DEF Goto, PCs
    <3>2. st[e].term = "none" /\ version = 0
      BY <1>c, <2>1 DEF TypeInv, LoopStates, Held, Looping
    <3>3. dispatched <= st[e].steps /\ asked <= st[e].rounds
      BY <1>c, <2>1 DEF Held, Looping
    <3>4. RowCounts' /\ TerminalVisible'
      BY <1>c, <2>1, <2>3, <3>2, <3>3 DEF RowCounts, QuestionsBounded, TerminalVisible
    <3>5. /\ cont[e] = "dispatch" => dispatched < st[e].steps
          /\ cont[e] = "paused" => asked < st[e].rounds
      BY <1>c, <2>1 DEF Held
    <3>6. Held(e)'
      BY <1>s, <2>1, <2>3, <3>1, <3>2, <3>3, <3>5 DEF Held, Looping
    <3> QED
      BY <1>t, <2>1, <2>3, <3>1, <3>4, <3>6, OneMoves DEF SequentialInv
  <2> QED
    BY <1>12, <2>2, <2>3 DEF SaveAgentRuntimeState
<1>13. ASSUME NEW e \in Executors, CompleteAgentRunTerminal(e) PROVE SequentialInv'
  <2>1. pc[e] = "terminal" /\ UNCHANGED <<asked, dispatched>>
    BY <1>13 DEF CompleteAgentRunTerminal, histVars
  <2>2. CASE Goto(e, "erred") /\ UNCHANGED <<version, rowState>>
    BY <1>t, <2>1, <2>2, StopsAlone
  <2>3. CASE version' = version + 1 /\ rowState' = st[e] /\ Goto(e, "returned")
    <3>1. /\ dispatched <= st[e].steps /\ asked <= st[e].rounds
          /\ version = 0 /\ st[e].term # "none"
      BY <1>c, <2>1 DEF Held, Looping
    <3>2. RowCounts' /\ TerminalVisible'
      BY <1>c, <2>1, <2>3, <3>1 DEF RowCounts, QuestionsBounded, TerminalVisible
    <3>3. pc'[e] = "returned" /\ "returned" \in PCs
      BY <1>t, <2>3 DEF Goto, PCs
    <3>4. Held(e)'
      BY <3>3 DEF Held, Looping
    <3> QED
      BY <1>t, <2>1, <2>3, <3>2, <3>3, <3>4, OneMoves DEF SequentialInv
  <2> QED
    BY <1>13, <2>2, <2>3 DEF CompleteAgentRunTerminal, TerminalSnapshot
<1>14. ASSUME NEW e \in Executors, Returned(e) PROVE SequentialInv'
  <2>1. /\ pc[e] # "idle" /\ Goto(e, "idle") /\ UNCHANGED <<version, rowState, dispatched>>
        /\ pc[e] = "paused" => asked' = asked + 1
        /\ pc[e] # "paused" => asked' = asked
    BY <1>14, <1>t DEF Returned, End, rowVars
  <2>2. pc[e] = "paused" => asked < rowState.rounds /\ rowState.rounds <= MaxRounds
    BY <1>c DEF Held, TypeInv, WithinRounds
  <2> QED
    BY <1>t, <2>1, <2>2, StopsAlone
<1>15. ASSUME NEW e \in Executors, JobErred(e) \/ FailWebAgentRun(e) \/ Crash(e)
       PROVE  SequentialInv'
  <2>1. /\ pc[e] # "idle" /\ Goto(e, "idle")
        /\ UNCHANGED <<version, rowState, dispatched, asked>>
    BY <1>15 DEF JobErred, FailWebAgentRun, Crash, End, rowVars, histVars
  <2> QED
    BY <1>t, <2>1, StopsAlone
<1>16. CASE UNCHANGED <<pc, st, cont, hist, version, rowState, dispatched, asked>>
  BY <1>16 DEF SequentialInv, Alone, RowCounts, QuestionsBounded, TerminalVisible, Held
<1>17. ASSUME NEW e \in Executors, CancelContext(e) PROVE SequentialInv'
  BY <1>16, <1>17 DEF CancelContext, rowVars, histVars
<1>18. CASE UNCHANGED vars
  BY <1>16, <1>18 DEF vars, rowVars, execVars, histVars
<1> QED
  BY <1>1, <1>2, <1>3, <1>4, <1>5, <1>6, <1>7, <1>8, <1>9, <1>10, <1>11, <1>12, <1>13,
     <1>14, <1>15, <1>17, <1>18, RunCases

\* Before the first execution nothing is dispatched, asked or settled.
LEMMA SequentialInit == Init => SequentialInv
BY RoundsAssumption DEF Init, SequentialInv, Alone, RowCounts, QuestionsBounded,
   TerminalVisible, Held, Looping, EmptyState

\* The bounds of a run hold over all its executions: without overlap, no
\* sequence of crashes, redeliveries, cancellations and resumes makes it
\* dispatch more than MaxSteps tools or ask more than MaxRounds questions, and
\* terminal_version and the saved state's Terminal always agree.
THEOREM SequentialCorrect ==
  ASSUME ~Overlap
  PROVE  Spec => []SequentialSafe
<1>1. Init => TypeInv /\ SequentialInv
  BY RunTypeInit, SequentialInit
<1>2. TypeInv /\ SequentialInv /\ [Next]_vars => (TypeInv /\ SequentialInv)'
  BY RunTypeStep, SequentialStep
<1>3. TypeInv /\ SequentialInv => SequentialSafe
  <2> SUFFICES ASSUME TypeInv, SequentialInv PROVE SequentialSafe
    OBVIOUS
  <2>1. rowState \in RuntimeStates /\ dispatched \in Nat
    BY DEF TypeInv, TypeOK
  <2>2. rowState.steps \in Nat /\ rowState.steps <= MaxSteps
    BY <2>1, StateCounts
  <2>3. dispatched <= rowState.steps /\ QuestionsBounded /\ TerminalVisible
    BY DEF SequentialInv, RowCounts
  <2>4. DispatchesBounded
    BY <2>1, <2>2, <2>3, StepsAssumption DEF DispatchesBounded
  <2> QED
    BY <2>3, <2>4 DEF SequentialSafe
<1> QED
  BY <1>1, <1>2, <1>3, PTL DEF Spec

\* Only the two statements that write runtime_state change the answers on the
\* row, and only a dispatch changes the count of dispatches.
LEMMA SettledStep ==
  ASSUME TypeInv, SequentialInv, [Next]_vars
  PROVE  /\ version = 1 => dispatched' = dispatched
         /\ rowState'.answers >= rowState.answers
<1>t. /\ rowState \in RuntimeStates /\ st \in [Executors -> RuntimeStates]
      /\ rowState.answers \in Nat
  BY StateCounts DEF TypeInv, TypeOK
<1>h. \A e \in Executors : Held(e)
  BY DEF SequentialInv
<1>1. ASSUME NEW e \in Executors, Dispatch(e)
      PROVE  version = 0 /\ rowState' = rowState
  BY <1>1, <1>h DEF Dispatch, Held, Looping, rowVars
<1>2. ASSUME NEW e \in Executors, SaveAgentRuntimeState(e) \/ CompleteAgentRunTerminal(e)
      PROVE  /\ dispatched' = dispatched
             /\ rowState' = rowState \/ (rowState' = st[e] /\ rowState.answers <= st[e].answers)
  BY <1>2, <1>h DEF SaveAgentRuntimeState, CompleteAgentRunTerminal, TerminalSnapshot, Held,
     Looping, histVars
<1>3. ASSUME NEW e \in Executors,
             JobStart(e) \/ WebStart(e) \/ WebResume(e) \/ CreateRun(e) \/ LoadState(e)
             \/ StepAborts(e) \/ StepFinal(e) \/ StepClarify(e) \/ StepTool(e)
             \/ MarkExecuteStarted(e) \/ Returned(e) \/ JobErred(e)
             \/ FailWebAgentRun(e) \/ CancelContext(e) \/ Crash(e)
      PROVE  dispatched' = dispatched /\ rowState' = rowState
  BY <1>3 DEF JobStart, WebStart, WebResume, Begin, CreateRun, LoadState, StepAborts,
     StepFinal, StepClarify, StepTool, MarkExecuteStarted, Returned, JobErred,
     FailWebAgentRun, CancelContext, Crash, rowVars, histVars
<1>4. CASE UNCHANGED vars
  BY <1>4, <1>t DEF vars, rowVars, histVars
<1>5. ASSUME NEW e \in Executors PROVE st[e].answers \in Nat
  BY <1>t, StateCounts
<1> QED
  BY <1>t, <1>1, <1>2, <1>3, <1>4, <1>5, RunCases

\* What an execution has settled stays settled when executions do not overlap:
\* no step dispatches a tool once terminal_version is 1, and no save replaces
\* the answers on the row by fewer of them.
THEOREM SettledCorrect ==
  ASSUME ~Overlap
  PROVE  Spec => SettledStays
<1>1. Init => TypeInv /\ SequentialInv
  BY RunTypeInit, SequentialInit
<1>2. TypeInv /\ SequentialInv /\ [Next]_vars => (TypeInv /\ SequentialInv)'
  BY RunTypeStep, SequentialStep
<1>3. TypeInv /\ SequentialInv /\ [Next]_vars
        => [version = 1 => dispatched' = dispatched]_vars
  BY SettledStep
<1>4. TypeInv /\ SequentialInv /\ [Next]_vars
        => [rowState'.answers >= rowState.answers]_vars
  BY SettledStep
<1> QED
  BY <1>1, <1>2, <1>3, <1>4, PTL DEF Spec, SettledStays, NoDispatchAfterTerminal, AnswersKept
=============================================================================
