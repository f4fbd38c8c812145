------------------------- MODULE DatasourceCatalog -------------------------
(***************************************************************************)
(* The datasources table and its administrators                            *)
(* (internal/http/handlers/datasources.go, internal/metadata/repository.go).*)
(* An edit reads the whole row, changes its part of it in memory and       *)
(* writes the whole row back.                                              *)
(***************************************************************************)
CONSTANTS
    Editors,      \* administrators' requests
    Sources,      \* datasource IDs; Create takes a fresh one
    Settings,     \* connection settings: what the DSN is resolved from
    Blocklists,   \* custom function blocklists
    NoBlocklist,  \* the blocklist of a new datasource
    NoEdit,       \* the editor has no request under way
    NoRow         \* the table has no such row

Row == [dsn : Settings, blocklist : Blocklists]

\* A request under way, and what it read.
Requests == [what : {"settings", "blocklist", "delete"}, id : Sources, existing : Row \cup {NoRow}]

ASSUME CatalogAssumption ==
    /\ NoBlocklist \in Blocklists
    /\ NoRow \notin Row
    /\ NoEdit \notin Requests

VARIABLES
    row,          \* datasource -> its row, or NoRow
    used,         \* IDs that Create has handed out
    edit          \* editor -> the request under way: what it does and what it read

catVars == <<row, used, edit>>

CatInit ==
    /\ row = [d \in Sources |-> NoRow]
    /\ used = {}
    /\ edit = [e \in Editors |-> NoEdit]

\* Create: a new UUID; a configuration that carries a blocklist is refused.
Create(e, d, s) ==
    /\ edit[e] = NoEdit
    /\ d \notin used
    /\ row' = [row EXCEPT ![d] = [dsn |-> s, blocklist |-> NoBlocklist]]
    /\ used' = used \cup {d}
    /\ UNCHANGED edit

\* Update and ReplaceFunctionBlocklist start alike: the row is read, and a
\* missing one is answered with 404.
Read(e, d, what) ==
    /\ edit[e] = NoEdit
    /\ row[d] # NoRow
    /\ edit' = [edit EXCEPT ![e] = [what |-> what, id |-> d, existing |-> row[d]]]
    /\ UNCHANGED <<row, used>>

\* UpdateDatasource: the whole row is written; no row matched is an error.
UpdateDatasource(d, new) ==
    row' = IF row[d] = NoRow THEN row ELSE [row EXCEPT ![d] = new]

\* Update: new connection settings, the blocklist of the row that was read.
PreserveFunctionBlocklist(existing, s) == [dsn |-> s, blocklist |-> existing.blocklist]

WriteSettings(e, s) ==
    /\ edit[e] # NoEdit
    /\ edit[e].what = "settings"
    /\ UpdateDatasource(edit[e].id, PreserveFunctionBlocklist(edit[e].existing, s))
    /\ edit' = [edit EXCEPT ![e] = NoEdit]
    /\ UNCHANGED used

\* ReplaceFunctionBlocklist: the row that was read with a new blocklist.
WriteBlocklist(e, b) ==
    /\ edit[e] # NoEdit
    /\ edit[e].what = "blocklist"
    /\ UpdateDatasource(edit[e].id, [edit[e].existing EXCEPT !.blocklist = b])
    /\ edit' = [edit EXCEPT ![e] = NoEdit]
    /\ UNCHANGED used

\* Delete, first part: one transaction removes the row and what depends on it.
DeleteDatasource(e, d) ==
    /\ edit[e] = NoEdit
    /\ row' = [row EXCEPT ![d] = NoRow]
    /\ edit' = [edit EXCEPT ![e] = [what |-> "delete", id |-> d, existing |-> row[d]]]
    /\ d \in used
    /\ UNCHANGED used

\* Delete, second part: the caller drops the cached pools of the datasource.
DropPools(e) ==
    /\ edit[e] # NoEdit
    /\ edit[e].what = "delete"
    /\ edit' = [edit EXCEPT ![e] = NoEdit]
    /\ UNCHANGED <<row, used>>
=============================================================================
