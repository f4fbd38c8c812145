------------------------------ MODULE MCAIJobs ------------------------------
(* Instances of AIJobs for TLC. *)
EXTENDS AIJobs, TLC

CONSTANTS j1, j2, w1, w2, s1

OneJob    == {j1}
TwoJobs   == {j1, j2}
OneWorker == {w1}
TwoWorkers == {w1, w2}

\* One client session; two batches claim the same schema.
MCSession == [j \in Jobs |-> s1]
NoScope   == [j \in Jobs |-> {}]
SameScope == [j \in Jobs |-> {s1}]

\* Every handler ends within AckWait.
TimelyFaults == AllFaults \ {"late"}
NoFaults     == {}
DLQFault     == {"ctx", "dlq"}
CtxFault     == {"ctx"}

Symm == Permutations(Workers)
=============================================================================
