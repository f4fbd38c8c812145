---------------------------- MODULE PublicShare ----------------------------
(***************************************************************************)
(* The public link of one dashboard                                        *)
(* (internal/dashboard/share_repository.go, public.go,                     *)
(* internal/http/handlers/dashboard_share.go, public_dashboard.go,         *)
(* public_widget_query.go): users create, rotate and revoke it, the        *)
(* workspace's switch forbids sharing, and visitors see the dashboard and  *)
(* run the stored query of a widget by the link's token, with a short      *)
(* cache of the results.                                                   *)
(***************************************************************************)
EXTENDS Naturals, FiniteSets

CONSTANTS
    Sharers,     \* requests of users
    Visitors,    \* requests with a token
    Tokens,
    NoToken

ASSUME ShareAssumption == NoToken \notin Tokens

VARIABLES
    share,       \* token -> "none", "active" or "revoked"
    sharing,     \* the workspace's public_sharing_enabled
    sharer,      \* request -> where it is, its new token, the rows its UPDATE saw
    visit,       \* request -> where it is, its token, why it may not be served
    widgetCache  \* tokens whose result is cached

shareVars == <<share, sharing, sharer, visit, widgetCache>>

NotSharing == [pc |-> "idle", token |-> NoToken, old |-> {}]
NotVisiting == [pc |-> "idle", token |-> NoToken, late |-> {}]

ShareInit ==
    /\ share = [k \in Tokens |-> "none"]
    /\ sharing = TRUE
    /\ sharer = [s \in Sharers |-> NotSharing]
    /\ visit = [v \in Visitors |-> NotVisiting]
    /\ widgetCache = {}

Active == {k \in Tokens : share[k] = "active"}

----------------------------------------------------------------------------
\* Create: the switch is looked at, and a token is made.
CreateShare(s, k) ==
    /\ sharer[s] = NotSharing
    /\ sharing
    /\ share[k] = "none"
    /\ \A t \in Sharers : sharer[t].token # k
    /\ sharer' = [sharer EXCEPT ![s] = [pc |-> "rotate", token |-> k, old |-> {}]]
    /\ UNCHANGED <<share, sharing, visit, widgetCache>>

\* Rotate: the UPDATE that revokes; it does not see a row that another
\* transaction inserts after it began.
RevokePrevious(s) ==
    /\ sharer[s].pc = "rotate"
    /\ sharer' = [sharer EXCEPT ![s].pc = "insert", ![s].old = Active]
    /\ UNCHANGED <<share, sharing, visit, widgetCache>>

\* Mutant: there is no unique index.
MayInsertAlways(s) == TRUE

\* idx_dashboard_public_shares_active.
MayInsert(s) == Active \subseteq sharer[s].old

\* Rotate: the INSERT and the commit, or the unique index refuses the row and
\* undoes both statements.
InsertShare(s) ==
    /\ sharer[s].pc = "insert"
    /\ share' = IF MayInsert(s)
                THEN [k \in Tokens |-> IF k = sharer[s].token THEN "active"
                                       ELSE IF k \in sharer[s].old THEN "revoked" ELSE share[k]]
                ELSE share
    /\ sharer' = [sharer EXCEPT ![s] = NotSharing]
    /\ UNCHANGED <<sharing, visit, widgetCache>>

\* Revoke.
RevokeShare ==
    /\ Active # {}
    /\ share' = [k \in Tokens |-> IF k \in Active THEN "revoked" ELSE share[k]]
    /\ UNCHANGED <<sharing, sharer, visit, widgetCache>>

\* SetPublicSharingEnabled, Update of the workspace.
SetSharing(b) ==
    /\ sharing # b
    /\ sharing' = b
    /\ visit' = [v \in Visitors |-> [visit[v] EXCEPT !.late = IF b THEN @ \ {"switch"} ELSE @]]
    /\ UNCHANGED <<share, sharer, widgetCache>>

----------------------------------------------------------------------------
VisitAt(v, pc) == visit' = [visit EXCEPT ![v].pc = pc]

\* A visitor opens a link that was handed out.
OpenLink(v, k) ==
    /\ visit[v] = NotVisiting
    /\ share[k] # "none"
    /\ visit' = [visit EXCEPT ![v] = [pc |-> "resolve", token |-> k,
         late |-> (IF k \in Active THEN {} ELSE {"token"}) \cup (IF sharing THEN {} ELSE {"switch"})]]
    /\ UNCHANGED <<share, sharing, sharer, widgetCache>>

\* Mutant: revoked_at is not looked at.
ResolveAny(v) ==
    /\ visit[v].pc = "resolve"
    /\ VisitAt(v, "switch")
    /\ UNCHANGED <<share, sharing, sharer, widgetCache>>

\* FindActiveByTokenHash and the dashboard: the link is live, or not found.
ResolveToken(v) ==
    /\ visit[v].pc = "resolve"
    /\ IF visit[v].token \in Active THEN VisitAt(v, "switch")
       ELSE visit' = [visit EXCEPT ![v] = NotVisiting]
    /\ UNCHANGED <<share, sharing, sharer, widgetCache>>

\* WorkspacePublicSharingEnabled; the dashboard itself is then served.
CheckSwitch(v) ==
    /\ visit[v].pc = "switch"
    /\ \/ ~sharing /\ visit' = [visit EXCEPT ![v] = NotVisiting]
       \/ sharing /\ (VisitAt(v, "served") \/ VisitAt(v, "widget"))
    /\ UNCHANGED <<share, sharing, sharer, widgetCache>>

\* Run: the cached result.
ServeCached(v) ==
    /\ visit[v].pc = "widget"
    /\ visit[v].token \in widgetCache
    /\ VisitAt(v, "served")
    /\ UNCHANGED <<share, sharing, sharer, widgetCache>>

\* Run: RunWithModel, and its result is cached.
RunWidget(v) ==
    /\ visit[v].pc = "widget"
    /\ visit[v].token \notin widgetCache
    /\ widgetCache' \in {widgetCache, widgetCache \cup {visit[v].token}}
    /\ VisitAt(v, "served")
    /\ UNCHANGED <<share, sharing, sharer>>

\* The request ends, served or failed.
VisitEnds(v) ==
    /\ visit[v] # NotVisiting
    /\ visit' = [visit EXCEPT ![v] = NotVisiting]
    /\ UNCHANGED <<share, sharing, sharer, widgetCache>>

\* cacheTTL.
WidgetExpires(k) ==
    /\ k \in widgetCache
    /\ widgetCache' = widgetCache \ {k}
    /\ UNCHANGED <<share, sharing, sharer, visit>>

ShareNext ==
    \/ \E s \in Sharers : (\E k \in Tokens : CreateShare(s, k)) \/ RevokePrevious(s) \/ InsertShare(s)
    \/ RevokeShare
    \/ \E b \in BOOLEAN : SetSharing(b)
    \/ \E v \in Visitors :
         \/ \E k \in Tokens : OpenLink(v, k)
         \/ ResolveToken(v)
         \/ CheckSwitch(v)
         \/ ServeCached(v)
         \/ RunWidget(v)
         \/ VisitEnds(v)
    \/ \E k \in Tokens : WidgetExpires(k)

ShareSpec == ShareInit /\ [][ShareNext]_shareVars

----------------------------------------------------------------------------
ShareTypeOK ==
    /\ share \in [Tokens -> {"none", "active", "revoked"}]
    /\ sharing \in BOOLEAN
    /\ sharer \in [Sharers -> [pc : {"idle", "rotate", "insert"}, token : Tokens \cup {NoToken},
                               old : SUBSET Tokens]]
    /\ visit \in [Visitors -> [pc : {"idle", "resolve", "switch", "widget", "served"},
                               token : Tokens \cup {NoToken}, late : SUBSET {"token", "switch"}]]
    /\ widgetCache \in SUBSET Tokens

\* "keeping the one-active-share-per-dashboard invariant" (Rotate): however many
\* users create a link at once, one link works, and the links before it do not.
OneActiveShare == \A j, k \in Active : j = k

\* A visit that began after its link was revoked or rotated away, or while the
\* workspace forbids sharing and until it ends, is served nothing, although
\* results of the link are still cached.
RevokedNotServed == \A v \in Visitors : visit[v].pc = "served" => visit[v].late = {}

\* One link of a dashboard works, and a link that does not is served nothing,
\* though users rotate it at once and visitors find its results cached.
LinksExclusive == ShareTypeOK /\ OneActiveShare /\ RevokedNotServed
=============================================================================
