----------------------------- MODULE Migrations -----------------------------
(***************************************************************************)
(* The migration command (internal/dbmigrate/migrate.go), started by any   *)
(* number of processes at once, for instance one for every replica that is *)
(* deployed.  A file runs in a transaction of its own and is recorded in a *)
(* statement after it; nothing locks the table of records.                 *)
(***************************************************************************)
EXTENDS Naturals, FiniteSetsExt

CONSTANTS
    Processes,   \* processes that run the command
    Files        \* migration files, by their place in lexical order

ASSUME MigrationAssumption == IsFiniteSet(Files) /\ Files \subseteq Nat

VARIABLES
    schema,      \* files whose effects are in the database
    recorded,    \* biqly_applied_migrations
    migrator,    \* process -> the command, the files it has to go through, the one it runs
    adrift       \* history: a file passed for applied that is not, or a down overlapped
                 \* another command, stopped before its record, or began when the
                 \* records did not tell what is in the database

migVars == <<schema, recorded, migrator, adrift>>

NotMigrating == [pc |-> "idle", left |-> {}]

MigInit ==
    /\ schema = {}
    /\ recorded = {}
    /\ migrator = [p \in Processes |-> NotMigrating]
    /\ adrift = FALSE

\* Up: loadAppliedSet is read once.
BeginUp(p) ==
    /\ migrator[p] = NotMigrating
    /\ migrator' = [migrator EXCEPT ![p] = [pc |-> "up", left |-> Files \ recorded]]
    /\ adrift' = (adrift \/ \E q \in Processes : migrator[q].pc \in {"down", "unrecord"})
    /\ UNCHANGED <<schema, recorded>>

\* Mutant: every error passes for success.
ExecTolerant(p) ==
    /\ migrator[p].pc = "up"
    /\ migrator[p].left # {}
    /\ schema' \in {schema, schema \cup {Min(migrator[p].left)}}
    /\ migrator' = [migrator EXCEPT ![p].pc = "record"]
    /\ UNCHANGED <<recorded, adrift>>

\* Up: the next file.  execSQL applies all of it; or it is there already, and
\* the error passes for success (isAlreadyAppliedError).
ExecUp(p) ==
    /\ migrator[p].pc = "up"
    /\ migrator[p].left # {}
    /\ schema' = schema \cup {Min(migrator[p].left)}
    /\ migrator' = [migrator EXCEPT ![p].pc = "record"]
    /\ UNCHANGED <<recorded, adrift>>

\* Up: one object of the file exists without the rest, made by another file or
\* by hand.  The transaction is rolled back, and the error passes for success.
ExecSkips(p) ==
    /\ migrator[p].pc = "up"
    /\ migrator[p].left # {}
    /\ Min(migrator[p].left) \notin schema
    /\ migrator' = [migrator EXCEPT ![p].pc = "record"]
    /\ adrift' = TRUE
    /\ UNCHANGED <<schema, recorded>>

\* Up: INSERT ... ON CONFLICT DO NOTHING.
RecordUp(p) ==
    /\ migrator[p].pc = "record"
    /\ recorded' = recorded \cup {Min(migrator[p].left)}
    /\ migrator' = [migrator EXCEPT ![p] = [pc |-> "up", left |-> @.left \ {Min(@.left)}]]
    /\ UNCHANGED <<schema, adrift>>

UpDone(p) ==
    /\ migrator[p].pc = "up"
    /\ migrator[p].left = {}
    /\ migrator' = [migrator EXCEPT ![p] = NotMigrating]
    /\ UNCHANGED <<schema, recorded, adrift>>

\* Down: the latest record.
BeginDown(p) ==
    /\ migrator[p] = NotMigrating
    /\ recorded # {}
    /\ migrator' = [migrator EXCEPT ![p] = [pc |-> "down", left |-> {Max(recorded)}]]
    /\ adrift' = (adrift \/ schema # recorded \/ \E q \in Processes : migrator[q] # NotMigrating)
    /\ UNCHANGED <<schema, recorded>>

\* Down: execSQL of the paired file ...
ExecDown(p) ==
    /\ migrator[p].pc = "down"
    /\ schema' = schema \ migrator[p].left
    /\ migrator' = [migrator EXCEPT ![p].pc = "unrecord"]
    /\ UNCHANGED <<recorded, adrift>>

\* ... and the DELETE of its record.
DeleteRecord(p) ==
    /\ migrator[p].pc = "unrecord"
    /\ recorded' = recorded \ migrator[p].left
    /\ migrator' = [migrator EXCEPT ![p] = NotMigrating]
    /\ UNCHANGED <<schema, adrift>>

\* A statement fails and rolls back, the deadline passes or the process stops.
MigrationStops(p) ==
    /\ migrator[p] # NotMigrating
    /\ migrator' = [migrator EXCEPT ![p] = NotMigrating]
    /\ adrift' = (adrift \/ migrator[p].pc = "unrecord")
    /\ UNCHANGED <<schema, recorded>>

MigNext ==
    \E p \in Processes :
        \/ BeginUp(p) \/ ExecUp(p) \/ ExecSkips(p) \/ RecordUp(p) \/ UpDone(p)
        \/ BeginDown(p) \/ ExecDown(p) \/ DeleteRecord(p)
        \/ MigrationStops(p)

MigSpec == MigInit /\ [][MigNext]_migVars

----------------------------------------------------------------------------
MigTypeOK ==
    /\ schema \in SUBSET Files
    /\ recorded \in SUBSET Files
    /\ migrator \in [Processes -> [pc : {"idle", "up", "record", "down", "unrecord"},
                                   left : SUBSET Files]]
    /\ adrift \in BOOLEAN

\* A file that is recorded as applied is applied, also when several processes
\* migrate at once and any of them stops anywhere; while a down is at work its
\* own file may be gone already.  The exceptions are a file one of whose objects
\* existed before it ran, and downs that are not alone or not finished.
RecordedIsApplied ==
    \/ adrift
    \/ \A f \in recorded :
         f \in schema \/ \E p \in Processes : migrator[p] = [pc |-> "unrecord", left |-> {f}]

\* The files take effect in their order and without a gap: none is in the
\* database while an earlier one is not.
AppliedInOrder ==
    adrift \/ \A f \in schema, g \in Files : g < f => g \in schema

\* The ledger of migrations and the schema agree, in order, however many
\* processes migrate and wherever they stop.
LedgerAgrees == MigTypeOK /\ RecordedIsApplied /\ AppliedInOrder
=============================================================================
