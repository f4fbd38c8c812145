---------------------------- MODULE DriftReports ----------------------------
(***************************************************************************)
(* The drift reports of one semantic model (internal/semantic/drift,       *)
(* datasources.go, drift.go): the scheduler and the metadata sync compare  *)
(* the model with the stored schema, look up the latest report and insert  *)
(* a new one unless that one says the same; a user resolves reports.       *)
(*                                                                         *)
(* Only the latest report, by detected_at, is kept: no check looks at the  *)
(* others.                                                                 *)
(***************************************************************************)
EXTENDS Naturals

CONSTANTS
    Drifts,          \* the sets of drift items a comparison can find
    NoDrift,         \* the empty one
    AllMissing,      \* what it finds without any column
    Syncs,           \* metadata syncs, the other checks are the scheduler's
    MaxDrifts,       \* bound on the changes of the schema or the model
    MaxDriftFaults   \* bound on the failing statements

ASSUME DriftAssumption ==
    /\ NoDrift \in Drifts /\ AllMissing \in Drifts /\ NoDrift # AllMissing
    /\ "scheduler" \notin Syncs
    /\ MaxDrifts \in Nat /\ MaxDriftFaults \in Nat

Checks == {"scheduler"} \cup Syncs

VARIABLES
    actual,          \* the drift between the model and the stored schema
    lastReport,      \* {} or {the report with the last detected_at}
    check,           \* check -> where it is and what it has found
    drifted,         \* changes so far
    driftFaults      \* failures so far

driftVars == <<actual, lastReport, check, drifted, driftFaults>>

\* late: a report detected after this one is in the table.
\* earlier: the other checks that hold a report detected before this one.
\* excused: history, the lookup failed or another report came after it.
NotChecking ==
    [pc |-> "idle", found |-> NoDrift, late |-> FALSE, earlier |-> {}, excused |-> FALSE]

Stopped == [NotChecking EXCEPT !.pc = "stopped"]

DriftInit ==
    /\ actual = NoDrift
    /\ lastReport = {}
    /\ check = [c \in Checks |-> IF c \in Syncs THEN NotChecking ELSE Stopped]
    /\ drifted = 0
    /\ driftFaults = 0

-----------------------------------------------------------------------------
\* A sync has stored another schema, or the model is edited.
Drift ==
    /\ drifted < MaxDrifts
    /\ drifted' = drifted + 1
    /\ actual' \in Drifts \ {actual, AllMissing}
    /\ UNCHANGED <<lastReport, check, driftFaults>>

\* Scheduler.Start.
StartScheduler ==
    /\ check["scheduler"] = Stopped
    /\ check' = [check EXCEPT !["scheduler"] = NotChecking]
    /\ UNCHANGED <<actual, lastReport, drifted, driftFaults>>

\* The checks that hold a report.
Reporting == {c \in Checks : check[c].pc \in {"look", "insert"}}

\* Check c goes on as r and holds no report any more.
Leaves(c, r) ==
    check' = [d \in Checks |-> IF d = c THEN r ELSE [check[d] EXCEPT !.earlier = @ \ {c}]]

\* Scheduler.Stop: the statement under way fails and the check is given up.
StopScheduler ==
    /\ check["scheduler"] # Stopped
    /\ Leaves("scheduler", Stopped)
    /\ UNCHANGED <<actual, lastReport, drifted, driftFaults>>

Fault == driftFaults < MaxDriftFaults /\ driftFaults' = driftFaults + 1

\* The columns, the tables and the models are listed.
ListSchema(c) ==
    /\ check[c].pc = "idle"
    /\ check' = [check EXCEPT ![c] = [NotChecking EXCEPT !.pc = "compare", !.found = actual]]
    /\ UNCHANGED <<actual, lastReport, drifted, driftFaults>>

\* A listing fails: the scheduler gives up, a sync goes on without it (and has
\* nothing to check when it is the list of models).
ListSchemaFails(c) ==
    /\ check[c].pc = "idle"
    /\ Fault
    /\ \/ c \in Syncs /\ check' = [check EXCEPT ![c] = [NotChecking EXCEPT !.pc = "compare", !.found = AllMissing]]
       \/ UNCHANGED check
    /\ UNCHANGED <<actual, lastReport, drifted>>

\* GetFullModel reads the model after the schema was listed: a change between
\* the two is seen or not.  Compare stamps the report; an empty one is dropped.
Compare(c) ==
    /\ check[c].pc = "compare"
    /\ \E found \in {check[c].found} \cup (IF check[c].found = AllMissing THEN {} ELSE {actual}) :
         IF found = NoDrift
         THEN check' = [check EXCEPT ![c] = NotChecking]
         ELSE check' = [check EXCEPT ![c].pc = "look", ![c].found = found,
                                     ![c].earlier = Reporting]
    /\ UNCHANGED <<actual, lastReport, drifted, driftFaults>>

Dropped(c) == Leaves(c, NotChecking)

\* Mutant: a resolved report counts as gone.
MatchesOpen(c) == \E r \in lastReport : ~r.resolved /\ r.drift = check[c].found

\* Mutant: a model with a report is not looked at again.
MatchesAny(c) == lastReport # {}

\* DriftsMatch, with the latest report whether it is resolved or not.
Matches(c) == \E r \in lastReport : r.drift = check[c].found

\* GetLatestByModel.
LookUpLatest(c) ==
    /\ check[c].pc = "look"
    /\ IF Matches(c) THEN Dropped(c)
       ELSE check' = [check EXCEPT ![c].pc = "insert"]
    /\ UNCHANGED <<actual, lastReport, drifted, driftFaults>>

\* The lookup fails: the scheduler skips the model, a sync reports anyway.
LookUpFails(c) ==
    /\ check[c].pc = "look"
    /\ Fault
    /\ IF c \in Syncs
       THEN check' = [check EXCEPT ![c].pc = "insert", ![c].excused = TRUE]
       ELSE Dropped(c)
    /\ UNCHANGED <<actual, lastReport, drifted>>

\* InsertReport: it is the latest unless one detected later is in the table.
InsertReport(c) ==
    /\ check[c].pc = "insert"
    /\ lastReport' = IF check[c].late THEN lastReport ELSE {[drift |-> check[c].found, resolved |-> FALSE]}
    /\ check' = [d \in Checks |->
         IF d = c THEN NotChecking
         ELSE [check[d] EXCEPT !.late = @ \/ d \in check[c].earlier, !.earlier = @ \ {c},
                               !.excused = @ \/ check[d].pc = "insert"]]
    /\ UNCHANGED <<actual, drifted, driftFaults>>

InsertFails(c) ==
    /\ check[c].pc = "insert"
    /\ Fault
    /\ Dropped(c)
    /\ UNCHANGED <<actual, lastReport, drifted>>

\* A user resolves the report.
ResolveReport ==
    /\ \E r \in lastReport : ~r.resolved /\ lastReport' = {[r EXCEPT !.resolved = TRUE]}
    /\ UNCHANGED <<actual, check, drifted, driftFaults>>

DriftNext ==
    \/ Drift \/ ResolveReport \/ StartScheduler \/ StopScheduler
    \/ \E c \in Checks :
         \/ ListSchema(c) \/ ListSchemaFails(c) \/ Compare(c)
         \/ LookUpLatest(c) \/ LookUpFails(c) \/ InsertReport(c) \/ InsertFails(c)

\* The scheduler's ticker fires again and again and every check runs on; a
\* statement that keeps failing stops once the faults are spent.
DriftFairness ==
    /\ WF_driftVars(ListSchema("scheduler"))
    /\ \A c \in Checks : WF_driftVars(Compare(c) \/ LookUpLatest(c) \/ InsertReport(c))

-----------------------------------------------------------------------------
DriftTypeOK ==
    /\ actual \in Drifts /\ drifted \in 0..MaxDrifts /\ driftFaults \in 0..MaxDriftFaults
    /\ lastReport \in {{}} \cup {{[drift |-> d, resolved |-> b]} : d \in Drifts, b \in BOOLEAN}
    /\ check \in [Checks -> [pc : {"stopped", "idle", "compare", "look", "insert"}, found : Drifts,
                             late : BOOLEAN, earlier : SUBSET Checks, excused : BOOLEAN]]
    /\ \A c \in Checks : check[c].earlier \subseteq Reporting \ {c}

\* "resolving means acknowledged until the drift set changes, so an identical
\* re-detection must not resurrect it": the report next to a resolved one does
\* not have the same drifts, unless its check could not look the resolved one up
\* or another report was inserted between its lookup and its insert.
AcknowledgedStays ==
    [][\A old \in lastReport, new \in lastReport' :
         (old.resolved /\ ~new.resolved /\ old.drift = new.drift)
             => \E c \in Checks : InsertReport(c) /\ check[c].excused]_driftVars

\* Once the schema and the model change no more (Drift is bounded), a drift
\* that is there becomes the latest report while the scheduler is not stopped,
\* also when failing statements, syncs that listed an older schema, or no
\* schema at all, put their reports in between.
DriftIsReported ==
    []<>(check["scheduler"] = Stopped \/ actual = NoDrift \/ \E r \in lastReport : r.drift = actual)

\* The latest report is well formed, and what was acknowledged stays so until
\* the drift changes, with the exceptions AcknowledgedStays names.
DriftSound == []DriftTypeOK /\ AcknowledgedStays
=============================================================================
