------------------------------ MODULE MCLimits ------------------------------
(***************************************************************************)
(* The three limiters, for TLC: of the jobs a worker runs at once, of a    *)
(* user's agent chats and of a workspace's daily tokens.  They share no    *)
(* state, so a behaviour follows one of them, chosen in the first state,   *)
(* and leaves the others where they start.                                 *)
(***************************************************************************)
EXTENDS DynamicSemaphore, WebAgentLimiter, SpendLimiter

VARIABLE focus

Init ==
    /\ focus \in {"jobs", "chats", "tokens"}
    /\ SemInit
    /\ focus # "jobs" => EffectiveLimit = 1
    /\ LimiterInit
    /\ SpendInit

Next ==
    /\ \/ focus = "jobs" /\ SemNext /\ UNCHANGED <<limiterVars, spendVars>>
       \/ focus = "chats" /\ LimiterNext /\ UNCHANGED <<semVars, spendVars>>
       \/ focus = "tokens" /\ SpendNext /\ UNCHANGED <<semVars, limiterVars>>
    /\ focus' = focus

Spec ==
    /\ Init
    /\ [][Next]_<<focus, semVars, limiterVars, spendVars>>
    /\ focus = "jobs" => SemFairness
    /\ focus = "chats" => LimiterFairness

----------------------------------------------------------------------------
\* Nobody waits for ever for what is free: a parked job gets the slot without a
\* token from Release, and a user locked out by requests that died gets in again.
NobodyStarves == FreeSlotTaken /\ LockoutEnds
=============================================================================
