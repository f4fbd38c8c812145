---------------------------- MODULE Experiments ----------------------------
(***************************************************************************)
(* One prompt experiment (internal/ai/abtest, ab_experiment.go): requests  *)
(* that move its status, edit its variants while it is a draft or rename   *)
(* it, the traffic router that caches whether it runs, and the share of    *)
(* users each variant gets.                                                *)
(***************************************************************************)
EXTENDS Integers, FiniteSets, FiniteSetsExt

CONSTANTS
    Managers,        \* administrators' requests
    VariantIDs,      \* in the order of ORDER BY id: 1, 2, ...
    Shapes,          \* what a request may ask of a variant: [pct, control]
    Targets,         \* the statuses a request asks for
    Whole,           \* 100 in the code
    MaxRequests      \* bound on the requests

Statuses == {"draft", "running", "paused", "completed"}

ASSUME ExperimentAssumption ==
    /\ Targets \subseteq Statuses
    /\ Shapes \subseteq [pct : Int, control : BOOLEAN]
    /\ VariantIDs \subseteq Nat /\ IsFiniteSet(VariantIDs)
    /\ Whole \in Nat \ {0}
    /\ MaxRequests \in Nat

VARIABLES
    expStatus,       \* ab_experiments.status
    variants,        \* ab_variants: id -> {} or {its shape}
    manage,          \* request -> its kind, where it is, what it has read
    entry,           \* the router's entry: {} or {is one running}
    filling,         \* "free", "locked", or what the filling reader has read
    asked,
    since,           \* history: "is one running" since the last Invalidate
    straddled,       \* history: a variant was written, or the experiment was
                     \* started, on a check that was no longer true
    crossed          \* history: a variant was written past the draft status,
                     \* by a request on another experiment

expVars == <<expStatus, variants, manage, entry, filling, asked, since, straddled, crossed>>

NoRequest == [kind |-> "none", pc |-> "idle", seen |-> "draft", to |-> "draft", basis |-> {}]

ExpInit ==
    /\ expStatus = "draft"
    /\ variants = [v \in VariantIDs |-> {}]
    /\ manage = [a \in Managers |-> NoRequest]
    /\ entry = {}
    /\ filling = "free"
    /\ asked = 0
    /\ since = {FALSE}
    /\ straddled = FALSE
    /\ crossed = FALSE

-----------------------------------------------------------------------------
(* ValidateVariantsForAllocation and SelectVariantForUser *)

Listed(vs) == {v \in VariantIDs : vs[v] # {}}
Pct(vs, v) == SumSet({s.pct : s \in vs[v]})
Total(vs, ids) == MapThenSumSet(LAMBDA v : Pct(vs, v), ids)

Allocates(vs) ==
    /\ Listed(vs) # {}
    /\ \A v \in Listed(vs) : Pct(vs, v) \in 0..Whole
    /\ Total(vs, Listed(vs)) = Whole
    /\ Cardinality({v \in Listed(vs) : \E s \in vs[v] : s.control}) = 1

Cumulative(vs, v) == Total(vs, {w \in Listed(vs) : w <= v})

\* Mutant: the bound counted in.
ReachesClosed(vs, v, bucket) == Pct(vs, v) # 0 /\ bucket <= Cumulative(vs, v)

Reaches(vs, v, bucket) == Pct(vs, v) # 0 /\ bucket < Cumulative(vs, v)

\* selectVariantForBucket: the first variant that reaches past the bucket.
Selected(vs, bucket) ==
    {v \in Listed(vs) : /\ Reaches(vs, v, bucket)
                        /\ \A w \in Listed(vs) : w < v => ~Reaches(vs, w, bucket)}

-----------------------------------------------------------------------------
(* Requests *)

Going(a, pc) == manage' = [manage EXCEPT ![a].pc = pc]
Ended(a) == manage' = [manage EXCEPT ![a] = NoRequest]
StatusBecomes(new) == expStatus' = new /\ since' = since \cup {new = "running"}

Begin(a, kind, pc, to) ==
    /\ manage[a] = NoRequest
    /\ asked < MaxRequests
    /\ asked' = asked + 1
    /\ manage' = [manage EXCEPT ![a] =
         [kind |-> kind, pc |-> pc, seen |-> expStatus, to |-> to, basis |-> {}]]
    /\ UNCHANGED <<expStatus, variants, entry, filling, since, straddled, crossed>>

\* UpdateStatus up to GetExperiment; a status that is already there is an answer.
BeginStatus(a) == \E to \in Targets \ {expStatus} : Begin(a, "status", "list", to)

\* Update reads the row it will write back.
BeginRename(a) == Begin(a, "rename", "update", expStatus)

\* AddVariant, UpdateVariant, DeleteVariant: only a draft is edited.
BeginVariant(a) == expStatus = "draft" /\ Begin(a, "variant", "edit", expStatus)

\* UpdateStatus lists the variants, and refuses a start they do not allow.
ListForStatus(a) ==
    /\ manage[a].pc = "list"
    /\ IF manage[a].to = "running" /\ ~Allocates(variants) THEN Ended(a) ELSE Going(a, "update")
    /\ UNCHANGED <<expStatus, variants, entry, filling, asked, since, straddled, crossed>>

\* Mutant: only the handler validates.
ValidateNothing(a) ==
    /\ manage[a].pc = "update"
    /\ manage' = [manage EXCEPT ![a].pc = "write", ![a].basis = {variants}]
    /\ UNCHANGED <<expStatus, variants, entry, filling, asked, since, straddled, crossed>>

\* UpdateExperiment: a row that will be running is validated, whoever writes it.
ValidateRunning(a) ==
    /\ manage[a].pc = "update"
    /\ IF manage[a].to = "running" /\ ~Allocates(variants)
       THEN Ended(a)
       ELSE manage' = [manage EXCEPT ![a].pc = "write",
              ![a].basis = IF manage[a].to = "running" THEN {variants} ELSE {}]
    /\ UNCHANGED <<expStatus, variants, entry, filling, asked, since, straddled, crossed>>

\* The UPDATE writes every column, the status too.
WriteExperiment(a) ==
    /\ manage[a].pc = "write"
    /\ StatusBecomes(manage[a].to)
    /\ straddled' = (straddled \/ \E vs \in manage[a].basis : vs # variants)
    /\ IF manage[a].kind = "status" THEN Going(a, "invalidate") ELSE Ended(a)
    /\ UNCHANGED <<variants, entry, filling, asked, crossed>>

\* Mutant: the entry goes whatever a reader is doing.
InvalidateUnlocked(a) ==
    /\ manage[a].pc = "invalidate"
    /\ entry' = {}
    /\ since' = {expStatus = "running"}
    /\ Ended(a)
    /\ UNCHANGED <<expStatus, variants, filling, asked, straddled, crossed>>

\* Invalidate takes the lock that a filling reader holds.
InvalidateRouter(a) ==
    /\ manage[a].pc = "invalidate"
    /\ filling = "free"
    /\ entry' = {}
    /\ since' = {expStatus = "running"}
    /\ Ended(a)
    /\ UNCHANGED <<expStatus, variants, filling, asked, straddled, crossed>>

AddVariant ==
    \E v \in VariantIDs, s \in Shapes :
        variants[v] = {} /\ variants' = [variants EXCEPT ![v] = {s}]

\* The row that is updated or deleted may be gone.
UpdateVariant ==
    \E v \in VariantIDs, s \in Shapes :
        variants' = [variants EXCEPT ![v] = IF @ = {} THEN {} ELSE {s}]

DeleteVariant == \E v \in VariantIDs : variants' = [variants EXCEPT ![v] = {}]

\* One of the statements on a variant, whatever the status is by now.
WriteVariant(a) ==
    /\ manage[a].pc = "edit"
    /\ AddVariant \/ UpdateVariant \/ DeleteVariant
    /\ straddled' = (straddled \/ (manage[a].seen = "draft" /\ expStatus # "draft"))
    /\ Ended(a)
    /\ UNCHANGED <<expStatus, entry, filling, asked, since, crossed>>

\* UpdateVariant or DeleteVariant under another experiment, which is a draft:
\* the statement names the variant only, whosever it is.
WriteForeign ==
    /\ asked < MaxRequests
    /\ asked' = asked + 1
    /\ UpdateVariant \/ DeleteVariant
    /\ crossed' = (crossed \/ expStatus # "draft")
    /\ UNCHANGED <<expStatus, manage, entry, filling, since, straddled>>

\* A statement fails.
RequestFails(a) ==
    /\ manage[a].pc \in {"list", "update", "write", "edit"}
    /\ Ended(a)
    /\ UNCHANGED <<expStatus, variants, entry, filling, asked, since, straddled, crossed>>

-----------------------------------------------------------------------------
(* TrafficRouter.getRunningExperiments *)

\* A reader misses under the read lock and again under the lock, and keeps it.
LockRouter ==
    /\ entry = {} /\ filling = "free"
    /\ filling' = "locked"
    /\ UNCHANGED <<expStatus, variants, manage, entry, asked, since, straddled, crossed>>

\* GetRunningExperimentsForTemplate.
ReadRunning ==
    /\ filling = "locked"
    /\ filling' = IF expStatus = "running" THEN "running" ELSE "none"
    /\ UNCHANGED <<expStatus, variants, manage, entry, asked, since, straddled, crossed>>

\* The entry is stored and the lock released.
StoreEntry ==
    /\ filling \in {"running", "none"}
    /\ entry' = {filling = "running"}
    /\ filling' = "free"
    /\ UNCHANGED <<expStatus, variants, manage, asked, since, straddled, crossed>>

\* One of its queries fails.
FillFails ==
    /\ filling # "free"
    /\ filling' = "free"
    /\ UNCHANGED <<expStatus, variants, manage, entry, asked, since, straddled, crossed>>

\* Thirty seconds pass.
EntryExpires ==
    /\ entry # {}
    /\ entry' = {}
    /\ UNCHANGED <<expStatus, variants, manage, filling, asked, since, straddled, crossed>>

ExpNext ==
    \/ \E a \in Managers :
         \/ BeginStatus(a) \/ BeginRename(a) \/ BeginVariant(a)
         \/ ListForStatus(a) \/ ValidateRunning(a) \/ WriteExperiment(a) \/ InvalidateRouter(a)
         \/ WriteVariant(a) \/ RequestFails(a)
    \/ WriteForeign
    \/ LockRouter \/ ReadRunning \/ StoreEntry \/ FillFails \/ EntryExpires

ExpSpec == ExpInit /\ [][ExpNext]_expVars

-----------------------------------------------------------------------------
ExpTypeOK ==
    /\ expStatus \in Statuses
    /\ variants \in [VariantIDs -> {{}} \cup {{s} : s \in Shapes}]
    /\ \A a \in Managers :
         /\ manage[a].kind \in {"none", "status", "rename", "variant"}
         /\ manage[a].pc \in {"idle", "list", "update", "write", "invalidate", "edit"}
         /\ manage[a].seen \in Statuses /\ manage[a].to \in Statuses
    /\ entry \in SUBSET BOOLEAN /\ Cardinality(entry) <= 1
    /\ filling \in {"free", "locked", "running", "none"}
    /\ asked \in 0..MaxRequests

\* "Moving to running validates variants": a running experiment has variants
\* that share the traffic out, also when a rename wrote an old status back.
\* There are two exceptions: a write between the check of another request and
\* its own write, and a variant that is changed or deleted under another
\* experiment, a draft, while its own is no draft.
RunningAllocates == expStatus = "running" => Allocates(variants) \/ straddled \/ crossed

\* The router of the process that changed the status never keeps an entry from
\* before the last Invalidate, though its readers query the table and store
\* the entry in separate steps.
RouterCurrent == entry \subseteq since

\* The buckets that select a variant are as many as its percentage, and every
\* bucket selects exactly one.
SharesExact ==
    Allocates(variants) =>
        /\ \A b \in 0..(Whole - 1) : Cardinality(Selected(variants, b)) = 1
        /\ \A v \in Listed(variants) :
             Cardinality({b \in 0..(Whole - 1) : v \in Selected(variants, b)}) = Pct(variants, v)

\* A running experiment can be routed: its variants share all traffic out,
\* every bucket goes to one of them, and the router knows its last status.
ExperimentRoutable == ExpTypeOK /\ RunningAllocates /\ RouterCurrent /\ SharesExact
=============================================================================
