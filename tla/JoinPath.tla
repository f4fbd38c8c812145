------------------------------ MODULE JoinPath ------------------------------
(***************************************************************************)
(* The joins of a compiled query (internal/query/compiler.go): a breadth-  *)
(* first search from the base table over the joins of the model, the way   *)
(* back from every table the query needs, and the JOIN clauses emitted in  *)
(* the order of discovery, each turned round so that it adds a table to    *)
(* the ones before.                                                        *)
(*                                                                         *)
(* The names of a model's joins are unique (UNIQUE(model_id, name)); a     *)
(* join is named by its position in the model's list.                      *)
(***************************************************************************)
EXTENDS Naturals, FiniteSets, Sequences, SequencesExt

CONSTANTS
    Tables,
    Base,         \* the model's base table
    MaxJoins      \* bound on the joins of a model

ASSUME JoinAssumption == Base \in Tables /\ MaxJoins \in Nat

VARIABLES
    joins,        \* the model: sequence of [from, to]
    needed,       \* neededTables
    phase,        \* "search", "emit", "done" or "refused"
    queue,        \* of the search
    parent,       \* visited table -> {} or {[prev, join]}
    discovery,    \* joinDiscovery
    required,     \* joins on the way to a needed table
    unreachable,  \* unreachableTables
    clauses       \* emitted: [added, onto]

joinVars == <<joins, needed, phase, queue, parent, discovery, required, unreachable, clauses>>

\* tablesReferencedInLogicalQuery: the base table, and the table of every
\* column the query selects, filters, groups or orders by.
NeededTables(refs) == refs \cup {Base}

JoinInit ==
    /\ joins \in SeqOf([from : Tables, to : Tables], MaxJoins)
    /\ \E refs \in SUBSET (Tables \ {Base}) : needed = NeededTables(refs)
    /\ phase = "search"
    /\ queue = <<Base>>
    /\ parent = [t \in {Base} |-> {}]
    /\ discovery = <<>>
    /\ required = {} /\ unreachable = {}
    /\ clauses = <<>>

----------------------------------------------------------------------------
\* Mutant: joins are followed in the direction they are declared.
JoinsFrom(u) == {j \in 1..Len(joins) : u = joins[j].from}

JoinsAt(u) == {j \in 1..Len(joins) : u \in {joins[j].from, joins[j].to}}
OtherEnd(j, u) == IF joins[j].from = u THEN joins[j].to ELSE joins[j].from

\* The members of a set of joins, in the order of the model.
InOrder(S) ==
    CHOOSE s \in [1..Cardinality(S) -> S] : \A i, k \in 1..Cardinality(S) : i < k => s[i] < s[k]

\* The neighbours of u that were not visited, each by the first join that
\* leads to it.
NewNeighbors(u) ==
    LET first == {j \in JoinsAt(u) :
            /\ OtherEnd(j, u) \notin DOMAIN parent
            /\ \A i \in JoinsAt(u) : i < j => OtherEnd(i, u) # OtherEnd(j, u)}
    IN InOrder(first)

\* determineJoins: the next table of the queue; its new neighbours get it as
\* their parent and are queued.
Visit ==
    /\ phase = "search"
    /\ queue # <<>>
    /\ LET u == Head(queue)
           found == NewNeighbors(u)
           tables == [k \in 1..Len(found) |-> OtherEnd(found[k], u)]
       IN /\ queue' = Tail(queue) \o tables
          /\ discovery' = discovery \o found
          /\ parent' = [t \in DOMAIN parent \cup ToSet(tables) |->
               IF t \in DOMAIN parent THEN parent[t]
               ELSE {[prev |-> u, join |-> found[k]] : k \in {i \in 1..Len(found) : tables[i] = t}}]
    /\ UNCHANGED <<joins, needed, phase, required, unreachable, clauses>>

\* Mutant: only the last join of the way.
LastJoin(t) == {e.join : e \in parent[t]}

\* The joins on the way from a table back to the base.
PathJoins(t) ==
    LET Above(S) == S \cup {e.prev : e \in UNION {parent[s] : s \in S}}
        up[n \in 0..Len(joins)] == IF n = 0 THEN {t} ELSE Above(up[n - 1])
    IN {e.join : e \in UNION {parent[s] : s \in up[Len(joins)]}}

\* determineJoins: the needed tables are looked up; validateReachableTables
\* refuses a query that needs a table the search did not reach.
Collect ==
    /\ phase = "search"
    /\ queue = <<>>
    /\ LET reached == needed \cap DOMAIN parent IN
       /\ required' = UNION {PathJoins(t) : t \in reached}
       /\ unreachable' = needed \ reached
    /\ phase' = IF unreachable' = {} THEN "emit" ELSE "refused"
    /\ UNCHANGED <<joins, needed, queue, parent, discovery, clauses>>

\* inSet: the tables joined so far.
Joined == {Base} \cup {clauses[i].added : i \in 1..Len(clauses)}

\* Mutant: the joins are emitted as they are declared.
BuildJoinDeclared ==
    /\ phase = "emit"
    /\ discovery # <<>>
    /\ LET j == joins[Head(discovery)] IN
       clauses' = IF Head(discovery) \in required
                  THEN Append(clauses, [added |-> j.to, onto |-> j.from]) ELSE clauses
    /\ discovery' = Tail(discovery)
    /\ UNCHANGED <<joins, needed, phase, queue, parent, required, unreachable>>

\* buildJoins: the next required join, turned round if its to side is joined
\* already, left out if both are.
BuildJoin ==
    /\ phase = "emit"
    /\ discovery # <<>>
    /\ LET j == joins[Head(discovery)] IN
       clauses' = IF Head(discovery) \notin required
                     \/ (j.from \in Joined /\ j.to \in Joined) THEN clauses
                  ELSE IF j.to \in Joined
                  THEN Append(clauses, [added |-> j.from, onto |-> j.to])
                  ELSE Append(clauses, [added |-> j.to, onto |-> j.from])
    /\ discovery' = Tail(discovery)
    /\ UNCHANGED <<joins, needed, phase, queue, parent, required, unreachable>>

BuildDone ==
    /\ phase = "emit"
    /\ discovery = <<>>
    /\ phase' = "done"
    /\ UNCHANGED <<joins, needed, queue, parent, discovery, required, unreachable, clauses>>

JoinNext == Visit \/ Collect \/ BuildJoin \/ BuildDone

JoinSpec == JoinInit /\ [][JoinNext]_joinVars

----------------------------------------------------------------------------
JoinTypeOK ==
    /\ joins \in Seq([from : Tables, to : Tables])
    /\ needed \in SUBSET Tables
    /\ phase \in {"search", "emit", "done", "refused"}
    /\ queue \in Seq(Tables)
    /\ DOMAIN parent \in SUBSET Tables
    /\ \A t \in DOMAIN parent : parent[t] \in SUBSET [prev : Tables, join : 1..Len(joins)]
    /\ discovery \in Seq(1..Len(joins))
    /\ required \in SUBSET (1..Len(joins))
    /\ unreachable \in SUBSET Tables
    /\ clauses \in Seq([added : Tables, onto : Tables])

\* A table the joins connect to the base: it is in every set that holds the
\* base and, of each join, both ends or none.
Connected(t) ==
    \A S \in SUBSET Tables :
        (Base \in S /\ \A i \in 1..Len(joins) : joins[i].from \in S <=> joins[i].to \in S)
            => t \in S

\* A query is refused exactly when it needs a table that the joins do not
\* connect to the base, in whatever direction the joins were declared.
RefusedIffUnconnected ==
    /\ phase = "refused" => \E t \in needed : ~Connected(t)
    /\ phase = "done" => \A t \in needed : Connected(t)

\* Every JOIN adds one new table to tables that are joined before it, although
\* the joins come in the order of the search and not along the paths.
JoinsChain ==
    \A i \in 1..Len(clauses) :
        LET before == {Base} \cup {clauses[k].added : k \in 1..(i - 1)} IN
        clauses[i].onto \in before /\ clauses[i].added \notin before

\* The finished query joins every table it needs and no table it could do
\* without: one that is not needed leads to a later one.
JoinsSuffice ==
    phase = "done" =>
        /\ needed \subseteq Joined
        /\ \A i \in 1..Len(clauses) :
             \/ clauses[i].added \in needed
             \/ \E k \in (i + 1)..Len(clauses) : clauses[k].onto = clauses[i].added

\* The joins of a query are what the graph allows and the query needs: refused
\* only when unconnected, each hung on a table before it, and none idle.
JoinsCorrect == JoinTypeOK /\ RefusedIffUnconnected /\ JoinsChain /\ JoinsSuffice
=============================================================================
