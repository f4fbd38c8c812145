----------------------------- MODULE MCIdentity -----------------------------
(***************************************************************************)
(* The parts that decide who may do what, for TLC: sessions, permission    *)
(* caches, secrets redeemed once and public links.  They keep their state  *)
(* in different tables and do not act on each other, so a behaviour        *)
(* follows one of them, chosen in the first state, and leaves the others   *)
(* where they start.                                                       *)
(***************************************************************************)
EXTENDS Sessions, PermissionCache, Credentials, PublicShare, TLC

VARIABLE focus

Init ==
    /\ focus \in {"sessions", "permissions", "credentials", "shares"}
    /\ SessInit
    /\ PermInit
    /\ focus # "permissions" => ~super /\ ~holds /\ ~gives /\ ~member
    /\ CredInit
    /\ focus # "credentials" => kind = "reset"
    /\ ShareInit

Next ==
    /\ \/ focus = "sessions" /\ SessNext /\ UNCHANGED <<permVars, credVars, shareVars>>
       \/ focus = "permissions" /\ PermNext /\ UNCHANGED <<sessVars, credVars, shareVars>>
       \/ focus = "credentials" /\ CredNext /\ UNCHANGED <<sessVars, permVars, shareVars>>
       \/ focus = "shares" /\ ShareNext /\ UNCHANGED <<sessVars, permVars, credVars>>
    /\ focus' = focus

Spec == Init /\ [][Next]_<<focus, sessVars, permVars, credVars, shareVars>>

\* Bound: the last row of the sessions table is followed at the first tick and
\* with a usable account (two overlapping refreshes of one token need three
\* rows; the account's states and the passing of time are followed with two).
LastRowEarly ==
    (\A s \in SessionIds : session[s].state # "none") =>
        now = 0 /\ account = [active |-> TRUE, frozen |-> FALSE, deleted |-> FALSE]

\* Bound: tokens that claim super_admin are followed while the permission caches
\* are empty: neither looks at the other.
ClaimsAlone == rolesRead # {} => authCache = {} /\ apiCache = {}

\* No action tells the requests or the rows of the sessions table apart.
Symmetry == Permutations(Requests) \cup Permutations(SessionIds)
=============================================================================
