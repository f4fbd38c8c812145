------------------------------ MODULE AIAnswer ------------------------------
(***************************************************************************)
(* One question put to the AI service at the same time by several users,   *)
(* over one semantic model (internal/ai/service.go, response_cache.go):    *)
(* the response cache, the vote of several candidates, the loop that       *)
(* generates, validates and repairs, and the answer put in the cache, while *)
(* new versions of the model are published and clear the cache.            *)
(*                                                                         *)
(* Queries are told apart by their fingerprint only.  Whether a completion *)
(* parses, passes validation and survives the dry run is the model's       *)
(* choice, except that it is judged against the version of the semantic    *)
(* model that the request loaded.                                          *)
(***************************************************************************)
EXTENDS Naturals, FiniteSets

CONSTANTS
    Askers,         \* requests
    Candidates,     \* multiCandidateCount of them; one or none: no vote
    Fingerprints,   \* logicalQueryFingerprint of the completions
    MaxRetries,     \* maxRetries
    CacheThreshold, \* lowest confidence that is cached, in hundredths; 85 in the code
    LastModel       \* bound on the published versions

ASSUME AnswerAssumption ==
    /\ IsFiniteSet(Candidates)
    /\ MaxRetries \in Nat /\ LastModel \in Nat \ {0}
    /\ CacheThreshold \in 81..100

VARIABLES
    published,      \* version of the semantic model
    notifying,      \* versions published whose hook has not run yet
    answers,        \* the key of the cache: {} or {the answer}
    ask             \* request -> where it is and what it has so far

answerVars == <<published, notifying, answers, ask>>

\* agreed: candidates that gave the answer, 0 if it was not voted for;
\* missed: an invalidation passed while the answer was on its way to the cache.
NotAsking == [pc |-> "idle", model |-> 0, agreed |-> 0, attempt |-> 0, calls |-> 0,
              missed |-> FALSE]

AnswerInit ==
    /\ published = 1
    /\ notifying = {}
    /\ answers = {}
    /\ ask = [a \in Askers |-> NotAsking]

----------------------------------------------------------------------------
\* The handler loads the published model.
LoadModel(a) ==
    /\ ask[a].pc = "idle"
    /\ ask' = [ask EXCEPT ![a] = [NotAsking EXCEPT !.pc = "loaded", !.model = published]]
    /\ UNCHANGED <<published, notifying, answers>>

\* checkAmbiguity, with or without a call of the provider: nothing is
\* ambiguous, the analysis fails, or the safe default is taken; the request
\* goes on.
CheckAmbiguity(a) ==
    /\ ask[a].pc = "loaded"
    /\ \E extra \in 0..1 : ask' = [ask EXCEPT ![a].pc = "lookup", ![a].calls = @ + extra]
    /\ UNCHANGED <<published, notifying, answers>>

\* checkAmbiguity: the user is asked back, and that is the reply.
AskBack(a) ==
    /\ ask[a].pc = "loaded"
    /\ ask' = [ask EXCEPT ![a] = NotAsking]
    /\ UNCHANGED <<published, notifying, answers>>

\* ProcessQuestion looks in the cache.
CacheHit(a) ==
    /\ ask[a].pc = "lookup"
    /\ answers # {}
    /\ ask' = [ask EXCEPT ![a] = NotAsking]
    /\ UNCHANGED <<published, notifying, answers>>

\* A miss, or the cache does not answer.
CacheMiss(a) ==
    /\ ask[a].pc = "lookup"
    /\ ask' = [ask EXCEPT ![a].pc = IF Cardinality(Candidates) > 1 THEN "vote" ELSE "generate"]
    /\ UNCHANGED <<published, notifying, answers>>

----------------------------------------------------------------------------
\* generateMultiCandidate: a query that parsed, was validated and dry-run, or
\* nothing.
Votes == [Candidates -> Fingerprints \cup {"failed"}]

Group(votes, fp) == {c \in Candidates : votes[c] = fp}
Successes(votes) == {c \in Candidates : votes[c] \in Fingerprints}

\* pickMultiCandidateWinner: a largest group, whichever the map yields first; it
\* wins if it holds more than half of the successful samples.
Winners(votes) ==
    {fp \in Fingerprints :
        /\ \A g \in Fingerprints : Cardinality(Group(votes, fp)) >= Cardinality(Group(votes, g))
        /\ 2 * Cardinality(Group(votes, fp)) > Cardinality(Successes(votes))}

\* What a vote may come to: the candidates that agree on a winner, or 0 without
\* one.
VoteOutcomes ==
    UNION {LET won == Winners(votes) IN
           IF won = {} THEN {0} ELSE {Cardinality(Group(votes, fp)) : fp \in won} : votes \in Votes}

\* tryMultiCandidate: the candidates are waited for and counted; without a
\* winner the loop begins.
Vote(a) ==
    /\ ask[a].pc = "vote"
    /\ \E n \in VoteOutcomes :
         ask' = [ask EXCEPT ![a].calls = @ + Cardinality(Candidates), ![a].agreed = n,
                            ![a].pc = IF n = 0 THEN "generate" ELSE "answer"]
    /\ UNCHANGED <<published, notifying, answers>>

\* generateWithRetries: one call of the provider, and a query that passes
\* parseAndValidate and the dry run.
GenerateGood(a) ==
    /\ ask[a].pc = "generate"
    /\ ask' = [ask EXCEPT ![a].pc = "answer", ![a].calls = @ + 1]
    /\ UNCHANGED <<published, notifying, answers>>

\* Mutant: attempts are not counted.
GenerateBadUncounted(a) ==
    /\ ask[a].pc = "generate"
    /\ ask' = [ask EXCEPT ![a].calls = @ + 1]
    /\ UNCHANGED <<published, notifying, answers>>

\* It does not pass: the next attempt with a repair prompt, or no more.
GenerateBad(a) ==
    /\ ask[a].pc = "generate"
    /\ ask' = [ask EXCEPT ![a].calls = @ + 1,
         ![a].pc = IF ask[a].attempt = MaxRetries THEN "failed" ELSE "generate",
         ![a].attempt = IF ask[a].attempt = MaxRetries THEN @ ELSE @ + 1]
    /\ UNCHANGED <<published, notifying, answers>>

\* The provider fails, or the client goes away.
GenerateFails(a) ==
    /\ ask[a].pc \in {"vote", "generate"}
    /\ ask' = [ask EXCEPT ![a] = NotAsking]
    /\ UNCHANGED <<published, notifying, answers>>

\* buildFailureResponse: the user is asked back, in words the model may be
\* asked for.  Nothing is cached.
Clarify(a) ==
    /\ ask[a].pc = "failed"
    /\ \E extra \in 0..1 : ask' = [ask EXCEPT ![a].pc = "replied", ![a].calls = @ + extra]
    /\ UNCHANGED <<published, notifying, answers>>

\* Mutant: a repaired query is trusted like the first one.
confidenceFlat(retries) == 90

\* computeConfidence of a query without validation errors.
computeConfidence(retries) == IF 10 * retries > 90 THEN 0 ELSE 90 - 10 * retries

\* buildMultiCandidateResponse, buildSuccessResponse: in hundredths.
Confidence(found) ==
    IF found.agreed > 0 THEN (100 * found.agreed) \div Cardinality(Candidates)
    ELSE computeConfidence(found.attempt)

\* Mutant: a request whose answer is not cached is not replied to.
CacheOrHang(a) ==
    /\ ask[a].pc = "answer"
    /\ Confidence(ask[a]) >= CacheThreshold
    /\ answers' = {[model |-> ask[a].model, agreed |-> ask[a].agreed,
                    attempt |-> ask[a].attempt, missed |-> ask[a].missed]}
    /\ ask' = [ask EXCEPT ![a] = NotAsking]
    /\ UNCHANGED <<published, notifying>>

\* cacheResponse, and the reply; the SET may fail.
CacheResponse(a) ==
    /\ ask[a].pc = "answer"
    /\ \/ /\ Confidence(ask[a]) >= CacheThreshold
          /\ answers' = {[model |-> ask[a].model, agreed |-> ask[a].agreed,
                          attempt |-> ask[a].attempt, missed |-> ask[a].missed]}
       \/ UNCHANGED answers
    /\ ask' = [ask EXCEPT ![a] = NotAsking]
    /\ UNCHANGED <<published, notifying>>

\* The clarification is the reply.
Replied(a) ==
    /\ ask[a].pc = "replied"
    /\ ask' = [ask EXCEPT ![a] = NotAsking]
    /\ UNCHANGED <<published, notifying, answers>>

----------------------------------------------------------------------------
\* PublishModel, RollbackModel: the version is committed ...
PublishVersion ==
    /\ published < LastModel
    /\ published' = published + 1
    /\ notifying' = notifying \cup {published'}
    /\ UNCHANGED <<answers, ask>>

\* Mutant: the hook clears nothing.
NotifyNothing(v) ==
    /\ v \in notifying
    /\ notifying' = notifying \ {v}
    /\ UNCHANGED <<published, answers, ask>>

\* ... and notifyModelPublished runs the hook: InvalidateModel.
Notify(v) ==
    /\ v \in notifying
    /\ answers' = {}
    /\ ask' = [a \in Askers |-> [ask[a] EXCEPT !.missed = (ask[a].pc # "idle")]]
    /\ notifying' = notifying \ {v}
    /\ UNCHANGED published

\* The SCAN or the DEL fails and is logged, or the process stops.
NotifyFails(v) ==
    /\ v \in notifying
    /\ answers' = {[e EXCEPT !.missed = TRUE] : e \in answers}
    /\ ask' = [a \in Askers |-> [ask[a] EXCEPT !.missed = (ask[a].pc # "idle")]]
    /\ notifying' = notifying \ {v}
    /\ UNCHANGED published

\* The key's time to live is over.
AnswerExpires ==
    /\ answers # {}
    /\ answers' = {}
    /\ UNCHANGED <<published, notifying, ask>>

AskStep(a) ==
    \/ LoadModel(a)
    \/ CheckAmbiguity(a)
    \/ AskBack(a)
    \/ CacheHit(a)
    \/ CacheMiss(a)
    \/ Vote(a)
    \/ GenerateGood(a)
    \/ GenerateBad(a)
    \/ GenerateFails(a)
    \/ Clarify(a)
    \/ CacheResponse(a)
    \/ Replied(a)

AnswerNext ==
    \/ \E a \in Askers : AskStep(a)
    \/ PublishVersion
    \/ \E v \in notifying : Notify(v) \/ NotifyFails(v)
    \/ AnswerExpires

\* A request that was begun goes on: the provider answers or times out.
AnswerFairness == \A a \in Askers : WF_answerVars(ask[a].pc # "idle" /\ AskStep(a))

AnswerSpec == AnswerInit /\ [][AnswerNext]_answerVars /\ AnswerFairness

----------------------------------------------------------------------------
AnswerTypeOK ==
    /\ published \in 1..LastModel
    /\ notifying \in SUBSET (1..LastModel)
    /\ answers \in SUBSET [model : 1..LastModel, agreed : 0..Cardinality(Candidates),
                           attempt : 0..MaxRetries, missed : BOOLEAN]
    /\ ask \in [Askers ->
         [pc : {"idle", "loaded", "lookup", "vote", "generate", "answer", "failed", "replied"},
          model : 0..LastModel, agreed : 0..Cardinality(Candidates), attempt : 0..MaxRetries,
          calls : Nat, missed : BOOLEAN]]

\* The cache holds a query made for an older version of the model only until
\* the publish has run its hook, or because the hook failed, or because the
\* request had loaded the old version before and cached its answer after.
AnswerStaleOnlyByOverlap ==
    \A e \in answers : e.model < published => e.missed \/ notifying # {}

\* Other users are given only what the service was sure of: a cached query came
\* from the first completion, or from a vote that few candidates lost or
\* failed; never from a repaired one.
CachedIsSure ==
    \A e \in answers :
        IF e.agreed = 0 THEN e.attempt = 0
        ELSE 100 * (Cardinality(Candidates) - e.agreed) <= (100 - CacheThreshold) * Cardinality(Candidates)

\* A request costs a bounded number of calls of the provider, however its
\* candidates fail, its queries are repaired and the user is asked back: one
\* for the ambiguity, one for each candidate, the first attempt and its
\* repairs, and one for the words of the clarification.
CallsBounded ==
    \A a \in Askers : ask[a].calls <= Cardinality(Candidates) + MaxRetries + 3

\* Every question is replied to.
AskerReplied == \A a \in Askers : (ask[a].pc = "loaded") ~> (ask[a].pc = "idle")

\* What one user's question leaves for the others is current and sure, and what
\* it costs is bounded.
AnswersSound == AnswerTypeOK /\ AnswerStaleOnlyByOverlap /\ CachedIsSure /\ CallsBounded
=============================================================================
