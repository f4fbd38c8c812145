------------------------------ MODULE MCModels ------------------------------
(***************************************************************************)
(* The parts that keep and use versioned documents and configurations, for *)
(* TLC: semantic models and their versions, the joins of a query compiled  *)
(* from a model, saved conversations, schema migrations, the AI models and *)
(* their providers, and prompt experiments.  They do not act on each other *)
(* while a query is compiled or a document is saved, so a behaviour        *)
(* follows one of them, chosen in the first state, and leaves the others   *)
(* where they start.                                                       *)
(***************************************************************************)
EXTENDS SemanticPublish, JoinPath, Conversations, Migrations, ProviderStore, Experiments, TLC

VARIABLE focus

\* A context with two changed parts does not pass validation.
OneChange == {c \in [Parts -> Values] : \E p \in Parts : c[p] = First}

\* Halves of the traffic.
SomeShapes ==
    {[pct |-> 0, control |-> FALSE], [pct |-> 1, control |-> FALSE],
     [pct |-> 1, control |-> TRUE], [pct |-> 2, control |-> TRUE]}

Init ==
    /\ focus \in {"publish", "joins", "conversation", "migrations", "providers", "experiment"}
    /\ PubInit
    /\ JoinInit
    /\ focus # "joins" => joins = <<>> /\ needed = {Base}
    /\ ConvInit
    /\ MigInit
    /\ ProvInit
    /\ focus # "providers" => ~byUser /\ inDB = {CHOOSE c \in Configs : TRUE}
    /\ ExpInit

Next ==
    /\ \/ /\ focus = "publish" /\ PubNext
          /\ UNCHANGED <<joinVars, convVars, migVars, provVars, expVars>>
       \/ /\ focus = "joins" /\ JoinNext
          /\ UNCHANGED <<pubVars, convVars, migVars, provVars, expVars>>
       \/ /\ focus = "conversation" /\ ConvNext
          /\ UNCHANGED <<pubVars, joinVars, migVars, provVars, expVars>>
       \/ /\ focus = "migrations" /\ MigNext
          /\ UNCHANGED <<pubVars, joinVars, convVars, provVars, expVars>>
       \/ /\ focus = "providers" /\ ProvNext
          /\ UNCHANGED <<pubVars, joinVars, convVars, migVars, expVars>>
       \/ /\ focus = "experiment" /\ ExpNext
          /\ UNCHANGED <<pubVars, joinVars, convVars, migVars, provVars>>
    /\ focus' = focus

Spec ==
    Init /\ [][Next]_<<focus, pubVars, joinVars, convVars, migVars, provVars, expVars>>

\* No action tells actors of one kind apart (publishers, tabs, processes,
\* administrators), nor the parts of a model, the keys of saves or the calls
\* of a provider: the configuration takes each group from one set of model
\* values.
Symmetry == Permutations(Publishers) \cup Permutations(Parts)
=============================================================================
