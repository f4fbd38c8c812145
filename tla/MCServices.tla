----------------------------- MODULE MCServices -----------------------------
(***************************************************************************)
(* The parts that must keep going, for TLC: lockout counters, the          *)
(* composite cache, scheduled reports, the audit writer, the answers of    *)
(* the AI service and the drift checks.  They keep their state apart, so a *)
(* behaviour follows one of them, chosen in the first state, and leaves    *)
(* the others where they start.  None of the fair steps is possible where  *)
(* a part starts, so the fairness of a part asks nothing of the behaviours *)
(* of the others.                                                          *)
(***************************************************************************)
EXTENDS LoginLockout, CompositeCache, ReportScheduler, AuditWriter, AIAnswer, DriftReports

VARIABLE focus

\* Days of two hours and weeks of two days; a month starts on day -5, -2, 0
\* and 2, so months have two or three days.
SomeTimings ==
    {[cadence |-> "daily", hour |-> 1, weekday |-> 0, day |-> 1],
     [cadence |-> "weekly", hour |-> 1, weekday |-> 1, day |-> 1],
     [cadence |-> "monthly", hour |-> 0, weekday |-> 0, day |-> 2]}
SomeMonths == {-5, -2, 0, 2}

Init ==
    /\ focus \in {"lockout", "composite", "reports", "audit", "answers", "drift"}
    /\ LockInit
    /\ focus # "lockout" => counter = "login"
    /\ CompInit
    /\ SchedInit
    /\ AuditInit
    /\ AnswerInit
    /\ DriftInit

Next ==
    /\ \/ /\ focus = "lockout" /\ LockNext
          /\ UNCHANGED <<compVars, schedVars, auditVars, answerVars, driftVars>>
       \/ /\ focus = "composite" /\ CompNext
          /\ UNCHANGED <<lockVars, schedVars, auditVars, answerVars, driftVars>>
       \/ /\ focus = "reports" /\ SchedNext
          /\ UNCHANGED <<lockVars, compVars, auditVars, answerVars, driftVars>>
       \/ /\ focus = "audit" /\ AuditNext
          /\ UNCHANGED <<lockVars, compVars, schedVars, answerVars, driftVars>>
       \/ /\ focus = "answers" /\ AnswerNext
          /\ UNCHANGED <<lockVars, compVars, schedVars, auditVars, driftVars>>
       \/ /\ focus = "drift" /\ DriftNext
          /\ UNCHANGED <<lockVars, compVars, schedVars, auditVars, answerVars>>
    /\ focus' = focus

Spec ==
    /\ Init
    /\ [][Next]_<<focus, lockVars, compVars, schedVars, auditVars, answerVars, driftVars>>
    /\ LockFairness
    /\ CompFairness
    /\ SchedFairness
    /\ AuditFairness
    /\ AnswerFairness
    /\ DriftFairness

----------------------------------------------------------------------------
\* What the services begin comes to its end: a lock, a stale entry, a due
\* report, Close, a question, and the report of a drift.
EverythingEnds ==
    /\ LockEnds
    /\ StaleEnds
    /\ DueIsRun
    /\ CloseReturns
    /\ AskerReplied
    /\ DriftIsReported
=============================================================================
