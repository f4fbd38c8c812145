----------------------------- MODULE MCAgentRun -----------------------------
(* Instances of AgentRun for TLC. *)
EXTENDS AgentRun, TLC

CONSTANTS e1, e2, e3

OneE == {e1}
TwoE == {e1, e2}
WebE == {e3}

CancelOnly == {"cancel"}

Symm == Permutations(JobExecutors) \cup Permutations(WebExecutors)
=============================================================================
