---------------------------- MODULE PoolRegistry ----------------------------
(***************************************************************************)
(* What the datasource pool cache promises, without locks, generations or  *)
(* flights: a registry holds at most one handle per key, a request is      *)
(* admitted when it asks, and only a request admitted since the last       *)
(* invalidation of its datasource may install the handle it opened.        *)
(***************************************************************************)
CONSTANTS Callers, Datasources, Keys, DSOf, Handles, None

VARIABLES
    current,    \* key -> the handle served for it, or None
    admitted    \* the requests that may still install: <<caller, key>> pairs

regVars == <<current, admitted>>

RegInit ==
    /\ current = [k \in Keys |-> None]
    /\ admitted = {}

\* A caller that finds no handle is admitted.
Admit(c, k) ==
    /\ current[k] = None
    /\ admitted' = admitted \cup {<<c, k>>}
    /\ UNCHANGED current

\* A request that fails, or that shares the outcome of another, is withdrawn.
Withdraw(c) ==
    /\ admitted' = {r \in admitted : r[1] # c}
    /\ UNCHANGED current

Install(c, k, h) ==
    /\ <<c, k>> \in admitted
    /\ current' = [current EXCEPT ![k] = h]
    /\ admitted' = admitted \ {<<c, k>>}

\* An invalidation takes the handles of the datasource out of service and
\* revokes every request that was admitted before it.
Revoke(d) ==
    /\ current' = [k \in Keys |-> IF DSOf[k] = d THEN None ELSE current[k]]
    /\ admitted' = {r \in admitted : DSOf[r[2]] # d}

\* Closing the cache empties it and revokes nothing.
Empty ==
    /\ current' = [k \in Keys |-> None]
    /\ UNCHANGED admitted

RegNext ==
    \/ \E c \in Callers, k \in Keys : Admit(c, k)
    \/ \E c \in Callers : Withdraw(c)
    \/ \E c \in Callers, k \in Keys, h \in Handles : Install(c, k, h)
    \/ \E d \in Datasources : Revoke(d)
    \/ Empty

RegSpec == RegInit /\ [][RegNext]_regVars
=============================================================================
