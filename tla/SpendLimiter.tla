---------------------------- MODULE SpendLimiter ----------------------------
(***************************************************************************)
(* The daily token budget of one workspace (internal/ai/spend_limit.go)    *)
(* and the requests that spend it (internal/http/handlers/ai.go,           *)
(* ai_knowledge_draft.go, ai_agent_chat.go): a request checks the day's    *)
(* counter, calls the model and adds what it used to the counter of the    *)
(* day on which it ends.                                                   *)
(***************************************************************************)
EXTENDS Naturals, FiniteSets

CONSTANTS
    Spenders,     \* requests under way at the same time
    Budget,       \* dailyBudget, in tokens
    MaxTokens,    \* tokens a request uses at most
    LastDay,      \* bound on the days
    MaxOutages    \* bound on the failed reads of the counter

ASSUME SpendAssumption ==
    /\ IsFiniteSet(Spenders)
    /\ Budget \in Nat \ {0}
    /\ MaxTokens \in Nat
    /\ LastDay \in Nat
    /\ MaxOutages \in Nat

VARIABLES
    day,
    used,         \* day -> its counter
    calling,      \* requests that passed the check and have not recorded
    outages       \* checks that passed because the counter could not be read

spendVars == <<day, used, calling, outages>>

SpendInit ==
    /\ day = 0
    /\ used = [d \in 0..LastDay |-> 0]
    /\ calling = {}
    /\ outages = 0

\* Mutant: the comparison is not strict.
SpendCheckLax(c) ==
    /\ c \notin calling
    /\ used[day] <= Budget
    /\ calling' = calling \cup {c}
    /\ UNCHANGED <<day, used, outages>>

\* Check: the counter of today is below the budget.
SpendCheck(c) ==
    /\ c \notin calling
    /\ used[day] < Budget
    /\ calling' = calling \cup {c}
    /\ UNCHANGED <<day, used, outages>>

\* Check: Redis does not answer, the request is let through.
SpendCheckFails(c) ==
    /\ c \notin calling
    /\ outages < MaxOutages
    /\ calling' = calling \cup {c}
    /\ outages' = outages + 1
    /\ UNCHANGED <<day, used>>

\* Record: INCRBY on the key of the day it is now.
SpendRecord(c, tokens) ==
    /\ c \in calling
    /\ used' = [used EXCEPT ![day] = @ + tokens]
    /\ calling' = calling \ {c}
    /\ UNCHANGED <<day, outages>>

\* The call fails, or the record does: nothing is counted.
SpendUnrecorded(c) ==
    /\ c \in calling
    /\ calling' = calling \ {c}
    /\ UNCHANGED <<day, used, outages>>

Midnight ==
    /\ day < LastDay
    /\ day' = day + 1
    /\ UNCHANGED <<used, calling, outages>>

SpendNext ==
    \/ \E c \in Spenders :
         \/ SpendCheck(c)
         \/ SpendCheckFails(c)
         \/ \E tokens \in 1..MaxTokens : SpendRecord(c, tokens)
         \/ SpendUnrecorded(c)
    \/ Midnight

SpendSpec == SpendInit /\ [][SpendNext]_spendVars

----------------------------------------------------------------------------
SpendTypeOK ==
    /\ day \in 0..LastDay
    /\ used \in [0..LastDay -> Nat]
    /\ calling \in SUBSET Spenders
    /\ outages \in 0..MaxOutages

\* What a day's counter can reach although the check and the charge are apart:
\* less than the budget, and one request of every caller, and one for every
\* check that passed unread; also on a day that inherits requests checked
\* before midnight.
SpendBounded ==
    \A d \in 0..LastDay :
        used[d] < Budget + (Cardinality(Spenders) + outages) * MaxTokens
=============================================================================
