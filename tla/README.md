# Verification of the biqly back end

biqly is a self-hosted BI server: users ask questions in natural language, an AI
service plans queries over a semantic layer, and the answers end up on
dashboards and in scheduled reports. This directory holds TLA+ models of the
parts of its Go back end whose correctness depends on the order in which
several processes take their steps, the TLC runs that check them on small
instances, and proofs for every instance of the properties that matter most.

Contents: [the system](#the-system) · [modules](#modules-and-the-code) ·
[runs](#runs) · [findings](#findings) · [fairness](#fairness) ·
[proofs](#proofs) · [not modelled](#not-modelled) · [plan](#plan)

## The system

The binaries under `cmd/` are the API server (`cmd/api`), the AI job worker
(`cmd/worker`), the agent worker (`cmd/agent`), the authentication and mail
services (`cmd/auth`, `cmd/mail`), and migration and maintenance commands. The
first three share one PostgreSQL metadata database, a NATS JetStream server
and Redis, and nothing else: a process that dies loses what it did not write to
one of those.

| Component | State | Operations | Hard behaviour | Correct when |
|---|---|---|---|---|
| AI job pipeline (`http/handlers/ai_job_service.go`, `metadata/ai_jobs.go`, `queue/nats.go`) | the `ai_jobs` row; the message, its delivery count, the dead-letter subject; each callback's position | Enqueue, Publish, Process, progress, complete, fail, cancel, ack, nak, term, dead-letter | every statement may fail or be a process's last; acks get lost; AckWait (30 min) is shorter than the handler's deadline (35 min); cancels race the body | an accepted job is not lost, is dead-lettered at most once, does not run twice at once, keeps its result, and its message is settled |
| Worker limiter (`dynamicSemaphore`) | counter, waiters, token channel | Acquire, Release | parking outside the mutex, dropped tokens, a limit that changes | slots are counted exactly, nobody waits for ever beside a free one |
| Agentic query runner (`agent/runtime.go`, `app/agent_dependencies.go`, `metadata/agent_runs.go`, `cmd/agent`) | the `agent_runs` row, each executor's copy of the state | Run, step, clarify, dispatch, save, finalize, resume, cancel | two executors of one run; crash between proposal, dispatch and observation | a query is marked before it runs, bounds hold over the whole run, a finished run stays finished |
| Web agent chat (`http/handlers/ai_agent_chat.go`) | the run's row, a Redis counter | start, resume, fail; acquire, release | the key expires under a request; a process dies between INCR and EXPIRE | the limit holds while the key lives, nobody is locked out for good |
| AI spend limiter (`ai/spend_limit.go`, `ai/spend_provider.go`) | a Redis counter per day | check, record | checked before and charged after a call; midnight between the two | a day is overdrawn by the calls under way at most |
| Datasource pools (`datasource/pool_cache.go`) | pools by key, generations, flights | Get, Invalidate, Close | an open that races an invalidation | no pool asked for before an invalidation is kept or served as if asked for after it |
| Datasource administration, query service (`http/handlers/datasources.go`, `core/query_service.go`) | the `datasources` rows | create, update, blocklist, delete, run a query | rows read, changed in memory and written back | the pools of a deleted datasource go |
| Sessions and account state (`auth/session.go`, `auth/service*.go`) | `sessions`, the account's flags | login, refresh, logout, freeze, delete, restore, force logout | no two statements share a transaction | one live session per login, revoked stays revoked, a login ends at its absolute limit, a blocked account gets no token |
| One-time credentials (`auth/invitation.go`, `magiclink.go`, `oauth_exchange.go`, `mfa/`) | tokens, codes, challenges | issue, look at, spend, withdraw | look and spend are two statements | redeemed once, a withdrawn one is refused |
| Lockout (`auth/service_password.go`) | a Redis counter, an unlock token | count, lock, mail, unlock | INCR and EXPIRE apart; attempts overlap | guesses are bounded, locks end |
| Permissions (`auth/rbac`, `http/middleware/permission.go`) | role tables, two caches, the roles claimed by access tokens | check, change, invalidate, sign | a result computed before a change is stored after the invalidation; a claim outlives its role | a grant is at most both lifetimes old, a claim a token's life |
| Public shares (`dashboard/`, `public_widget_query.go`) | share rows, the workspace switch, a result cache | rotate, revoke, switch, view | concurrent rotations; cached results | one link works; a revoked one serves nothing |
| Semantic layer (`semantic/repository.go`, `composite_*.go`) | draft tables, versions, resolved composites in Redis | edit, publish, rollback, resolve | read and validate, write in a later transaction | versions are dense, valid and permanent; an unpublished edit shows |
| Query compiler (`query/compiler.go`) | none | join search, emission | direction and order of joins | joins chain and suffice; refusal iff unreachable |
| Saved conversations (`metadata/ai_conversations.go`) | the row, its version, a ledger of keys | save, retry, delete | lost answers, stragglers | applied once, what was acknowledged is stored |
| Migrations (`dbmigrate/migrate.go`) | the schema, the table of records | up, down | run, then record; several processes | recorded means applied, in order |
| AI providers (`ai/provider_store.go`, `ai/purpose_provider.go`) | `ai_models`, the map in memory, its version, the provider built last | seven mutations, refresh, call | refreshes overlap; configuration and version are two reads | changes take effect; a call uses a configuration that was current during it |
| Prompt experiments (`ai/abtest`, `ab_experiment.go`) | status, variants, the router's cache | start, pause, rename, edit variants, route | validate, then write; a rename writes the status back | a running experiment shares all its traffic out, exactly as configured |
| Drift reports (`semantic/drift`) | the reports of a model | check, look up, insert, resolve | scheduler and syncs overlap; listings and lookups fail | an acknowledged drift stays so; a drift is reported |
| Report scheduler (`report_scheduler.go`) | `last_run_at` | tick, send, mark, edit | mails before the mark, several replicas | the slot is the latest one; one digest per slot; a due report runs |
| Audit writer (`audit/db_writer.go`) | channel, batch | write, flush, close | Close races writers | order is kept, what was accepted is flushed, Close returns |
| AI answers (`ai/service.go`, `response_cache.go`) | the response cache | look up, vote, generate, repair, cache, invalidate | a publish during a generation | stale entries come from overlap only; calls are bounded; everyone is answered |

Paths are under `internal/` unless they begin with `cmd/`.

How they interact: the API inserts an `ai_jobs` row and publishes its id to
JetStream; a worker's callback calls `AIJobService.Process`, which reads and
writes the same row; users cancel by updating the row, never by telling the
worker. The agent worker and a chat request both call `Runtime.Run` and find
each other only through the `agent_runs` row. A query loads its datasource row
and takes a pool from the cache that a deletion invalidates. A publish
tells the caches of composites and of answers; an API process asks the auth
service for permissions over HTTP and caches the answer in front of that
service's own cache.

`PROJECT.json` lists the hazards line by line, with the properties that cover
each of them.

## Modules and the code

Every SQL statement (or transaction), Redis command, JetStream call and critical
section is one atomic step; everything may interleave between two of them. Names
follow the source. `PROJECT.json` maps each definition to its lines. A
definition whose comment begins with "Mutant" is a plausible wrong version of
the one below it; nothing uses it unless it is substituted to see that a
property notices. History variables (`straddled`, `excuse`, `mistagged`, …)
remember an event that a property names as its exception and are read by no
action.

**`AIJobs`** — one row, one message and one enqueuer per job, one callback per
worker.
- `EnqueueJobScope`, `CreateAIJob`, `Publish`, `FailUnpublished` are the
  statements of `Enqueue`; `EnqueuerCrash` stops between any two.
- `CancelAIJob` and `CancelActiveAIJobsBySession` are the guarded UPDATEs behind
  every cancel button, session cancel and stale sweep.
- `Deliver`, `AckWaitExpires` and `Nak` are the JetStream consumer as
  `nats.go` configures it (external).
- `TryMarkAIJobRunning`, `ReadRefused`, `ReadStarted`, `CheckCancelled`,
  `Report`, `BodySucceeds`, `BodyFails`, `ClassifyError`, `RecordFailure`,
  `RecordResult` are `Process` and `processJob`; the AI work is reduced to the
  progress it reports and to how it ends.
- `Ack`, `NakForRetry`, `MoveToDLQ`, `Term` are the callback after the handler
  returned and `handleAIJobFailure`; `WorkerCrash` stops anywhere.
- A *worker* of the model is a delivery in hand: a running callback or a message
  that waits for one in a consumer's prefetch buffer. AckWait counts from the
  delivery, so both matter.
- `Faults` selects what the environment may do: `crash`, a failing statement
  (`db`), a context error of the body (`ctx`), an error whose text says
  "cancelled" (`text`), lost `ack` and `nak`, a failed dead-letter publish
  (`dlq`), a failed `publish`, and a delivery that outlives AckWait (`late`).
- Left out: the Nak for unreadable message metadata, the stream's MaxAge of seven
  days, the mode without a publisher, listings and statistics.

**`DynamicSemaphore`** — both critical sections of `Acquire`, its `select`
(token, one second timer, context), `Release` and its sends. Today the
consumer's callbacks run one after another in a process, so the limiter is
rarely contended; it is checked as the general primitive it is written to be.

**`AgentRun`** — one run, its row, and the executors that call `Runtime.Run`:
consumers of the job subject and chat requests. A `RuntimeState` is reduced to
what the runtime branches on. The planner, the policy and the tools may return
anything their interfaces allow. `Save` is its two statements
(`MarkExecuteStarted`, `SaveAgentRuntimeState`); `CompleteAgentRunTerminal` has
its guard on `terminal_version`, the plain save has none. `acked` is initially
true when a chat request begins the run and there is no job message. `Overlap`
lets executions overlap: a redelivery after AckWait, two answers to one
question.

**`WebAgentLimiter`** — the Redis guard: INCR, EXPIRE by the request that counts
to one, rollback, the deferred release, and the expiry of the key. The time to
live is the run's timeout plus 30 seconds, so a key does not expire before the
requests that were in flight when it was set have ended (`older`).

**`SpendLimiter`** — `Check`, the provider call and `Record` are separate steps; a
read that fails lets the call through, a failed record is lost, and `Midnight`
changes the key a call under way is charged to.

**`PoolCache`**, **`PoolRegistry`**, **`DatasourceCatalog`**, **`QueryPools`** — the
cache action by action (`Hit`, `Miss`, `Lead`, `Join`, `Open`, `Store`, `Land`,
`Invalidate`, `Close`, `Drain`; singleflight is external), the abstract registry
it implements, the administrators' requests, and their composition: a query
reads the row, resolves the settings and calls `Get`, and the second half of
`Delete` is the cache's `Invalidate`. An edit calls nothing of the cache.

**`Sessions`** — one account. A refresh is SELECT, checks, UPDATE of the old row,
INSERT of the new one, account state, delivery; freezing, deletion, password
changes and forced logout are a write followed by a sweep that may fail.

**`PermissionCache`** — one key in two caches with a clock; the queries of a check
(super admin, global, workspace) are separate reads. A login or refresh reads the
roles (`ReadRoles`) and signs them into an access token later (`SignToken`, while
the response can still be written); a token that claims super_admin and has not
expired passes `RequirePermission` with no cache asked (`SuperAdminBypass`).

**`Credentials`** — ten kinds of secret in three protocols: one statement looks and
spends; the spending statement is guarded; it is not guarded (OAuth callback,
verification mail, WebAuthn challenge).

**`PublicShare`**, **`LoginLockout`**, **`CompositeCache`**, **`AuditWriter`**,
**`Migrations`**, **`Conversations`** — the component of that name, statement by
statement, with failing statements, lost answers or crashes at every step the
code survives. In `LoginLockout` a failing GET lets the attempt in
(`CheckFailsOpen`), a failing EXPIRE is logged and the mail goes out
(`SetExpiryFails`), and a code given in the second step of a login is neither
refused nor counted (`MFALoginFails`). In `Migrations` a file that fails on an
object made elsewhere is rolled back and recorded (`ExecSkips`).

**`SemanticPublish`** — drafts in one table per part, read one query at a time by a
publish. It stands for semantic models and for composites, whose code repeats
the same steps. Validation is membership in `ValidContexts`. `DescribeJoin` is the
one edit that marks nothing.

**`JoinPath`** — breadth-first search, the way back, and emission, over every join
list of the instance; a join is emitted in either direction. Derived sources
(a CTE or a subquery in FROM) are left out.

**`ProviderStore`** — the default model of one purpose. The seven mutations are
reduced to what they may do to that model; every handler then calls `refresh`,
whose query, map replacement and version increment are three steps, like the two
reads and two looks of `PurposeProvider.current`.

**`Experiments`** — one experiment. `Update` (rename) and `UpdateStatus` share the
UPDATE that writes every column; variants are edited on a draft check that may
be stale; the router's fill holds its lock over its queries. The statements on a
variant name the variant alone, and the draft check is of the experiment in the
URL: `WriteForeign` is an edit through another experiment that is a draft.

**`DriftReports`** — one model's latest report. A comparison finds a member of
`Drifts`; a sync whose listing failed compares with nothing and finds
`AllMissing`, while the scheduler gives up.

**`ReportScheduler`** — the slot arithmetic with day, week and month lengths as
constants, runners of several replicas, edits of the schedule.

**`AIAnswer`** — askers of one question; the ambiguity check may call the provider
and may ask back, candidates and repairs may return anything.

`MC…` modules name model values and sets, and put parts that share no state into
one specification: `focus`, chosen in the first state, says which part moves.
`…_Proofs` modules hold the theorems: one each for the jobs, the agent runs, the
pools and the sessions, and one for the parts of each of the four composed runs.

## Runs

| Run | Instance | Shows |
|---|---|---|
| `jobs_late` | 1 job, 2 deliveries in hand, MaxDeliver 3, every fault | `JobCovered`, `DeadLetteredOnce`, `CancelBeforeBodySticks`; under fairness `MessageSettles` |
| `jobs_timely` | 2 jobs of one scope (one a batch), 2 workers, MaxDeliver 2, every fault but `late` | `TimelySafe` (`NoDuplicateExecution`, `AckedRowTerminal`), `SucceededStays` |
| `agent_overlap` | 1 consumer, 1 chat, overlapping, 3 executions | `ExecutedIsMarked` |
| `agent_sequential` | the same, one at a time, 4 executions, MaxSteps 2, MaxRounds 1 | `SequentialSafe` (`DispatchesBounded`, `QuestionsBounded`, `TerminalVisible`), `SettledStays` (`NoDispatchAfterTerminal`, `AnswersKept`), `ExecutionEnds` |
| `limits` | 3 callers with limits 0 and 2 and a channel of 2; 4 chats with limit 2; 2 spenders, budget 2, 2 days, 1 failed read | `SlotsCounted` (`ActiveExact`, `WaitersCounted`); `GuardCounts` (`BoundedWhileKeyLives`, `NoLockout`); `SpendBounded`; `NobodyStarves` (`FreeSlotTaken`, `LockoutEnds`) |
| `pools` | 2 callers, 1 datasource, 2 settings, 2 handles, 1 administrator | `PoolsSound` (`CachedFresh`, `ServedMatches`, `OneOwner`), `LeftPoolsExplained` (`OrphanOnlyByDoubleOpen`, `DeletedUncached`, `StaleOnlyByEdit`), `GetReturns`, and the refinement `ImplementsRegistry` |
| `identity` | 2 requests, 3 session rows, 1 account operation; 1 check; 3 clients, 2 secrets; 2 sharers, 2 visitors, 2 links | `OneSessionPerLogin`, `RevokedForGood`, `AuthenticationExpires`, `BlockedNoDelivery`; `GrantIsRecent`; `RedeemedOnce`, `RefusedForGood` (`VoidIsRefused`, `TotpMonotone`); `LinksExclusive` (`OneActiveShare`, `RevokedNotServed`) |
| `models` | 2 publishers, 1 editor, 2 parts, 3 versions; every list of 3 joins over 4 tables; 2 tabs, 2 messages, 2 keys; 2 processes, 3 files; 2 administrators, 2 calls, 2 changes; 2 managers, 2 variants, 4 requests | `PublishSound` (`VersionsDense`, `PublishedValid`, `DraftFlagged`), `HistoryKept` (`NoVersionReplaced`, `RollbackUndoesLast`); `JoinsCorrect` (`RefusedIffUnconnected`, `JoinsChain`, `JoinsSuffice`); `SavesExactlyOnce` (`AppliedOnce`, `AckedIsStored`); `LedgerAgrees` (`RecordedIsApplied`, `AppliedInOrder`); `ProviderCurrent` (`ResolvedCurrent`, `ServedWasCurrent`); `ExperimentRoutable` (`RunningAllocates`, `RouterCurrent`, `SharesExact`) |
| `services` | 2 attempts, threshold 2, 2 the counter does not hold back; 2 readers, 2 rollouts; 2 runners, 3 timings; 3 events, channel and batch of 2; 2 askers, 3 candidates; scheduler and 1 sync, 3 drifts, 2 faults | `LockoutSound` (`AttemptsBounded`, `LockedHasMail`); `CompositeSound` (`StaleOnlyByOverlap`); `ReportsOnce` (`SlotIsLatest`, `DigestOncePerSlot`); `AuditSound` (`AuditInOrder`, `FlushedOnClose`); `AnswersSound` (`AnswerStaleOnlyByOverlap`, `CachedIsSure`, `CallsBounded`); `DriftSound` (`AcknowledgedStays`); `EverythingEnds` (`LockEnds`, `StaleEnds`, `DueIsRun`, `CloseReturns`, `AskerReplied`, `DriftIsReported`) |
| `jobs_dlq_retry`, `agent_overwrite`, `conversation_replay` | the smallest that shows it | the three [findings](#findings) |

A name with others in parentheses is their conjunction: what a component
promises, in named parts, each stated beside its definition. The type invariants
of `AIJobs`, `AgentRun`, `PoolCache`, `Sessions`, `Credentials`,
`PermissionCache`, `SemanticPublish` and `SpendLimiter` are theorems of their own;
those of the other modules are a part of the conjunction their run checks.

*Composition by focus.* Parts composed in `limits`, `identity`, `models` and
`services` keep their state in different tables, keys or processes, so every
behaviour of all of them together is an interleaving of one behaviour of each,
and a safety or liveness property of one part holds of the whole if it holds
when only that part moves. An unfocused part rests in one of its initial states.
Parts that do act on each other (`QueryPools`) interleave freely.

Why the bounds are enough for the cases of interest:

- *jobs*: jobs share no state but the conflict check and the workers, so one job
  shows all of a job's life; two deliveries in hand are an execution and its late
  twin; MaxDeliver 3 is the code's value. Two jobs add the conflict check and
  workers that go from one job to the other. `Reports = 1` has a report before
  and after every cancel.
- *agent run*: `MaxSteps` 2 lets a crash fall between two dispatches and after the
  last; 4 executions reach pause, resume, crash, redelivery in one behaviour.
- *limits*: three callers with a limit of two have contention and a token race;
  the channel of 2 (1024 in the code) makes dropped tokens happen; `MaxWaiting`
  cuts the growth of `waiting` by timeouts. Four chats are the limit twice over.
- *pools*: one key's flights suffice, since keys meet only in `Invalidate` of
  their datasource; two settings are a rotation. `MaxGen` 1 bounds invalidations;
  the theorems have no bound. `replaced` grows with every edit of the settings.
- *identity*: two overlapping refreshes of one token need three rows;
  `LastRowEarly` follows the third row only at the first tick and with a usable
  account, the two-row states in full. `Checks = {q1}` is one check in flight,
  beside which entries of earlier ones are cached; the theorem has any number.
  `AccessTTL` 4 makes the bound of a claim longer than that of the caches;
  `ClaimsAlone` follows claims only while the caches are empty, since neither looks
  at the other; the theorem has no such bound.
- *models*: three versions are a publish, another one and a rollback; `MaxJoins` 3
  over four tables contains chains, stars, cycles, parallel joins and
  disconnected tables; `MaxStragglers` 1 is one delayed first send. There is one
  API key, so that a rotation of the key alone, which `userKey` does not tell
  apart, never happens in the run: only the theorem covers it. `Whole` 2 stands for 100
  percent; `Targets` leaves `completed` out, which differs from `paused` by a
  timestamp.
- *services*: days of two hours, weeks of two days and months of two or three
  days put several slots of each cadence, and their edges, into a few hours;
  `MaxUnguarded`, `MaxFaults`, `MaxEdits`, `MaxDrifts` and `MaxDriftFaults` bound
  the environment, not the code. Two attempts overlap; a third adds only more of
  the same, and the theorem has any number.

Deadlock is not checked: each instance makes a bounded number of requests and may
then stop.

Properties with exceptions say so in their statement, because the code does not
promise more: `NoDuplicateExecution`, `AckedRowTerminal` and `SucceededStays` are
false with `late`; the properties of `agent_sequential` are about executions one
after another; `JobCovered` leaves out bodies that failed with an error text
containing "cancelled"; `SucceededStays` leaves out a publish that was stored
although its acknowledgement was lost; `OneSessionPerLogin` excepts overlapping
refreshes of one token, `RunningAllocates` a write between another request's
check and its write and a variant written under another experiment,
`ServedWasCurrent` a provider tagged with a version newer than its configuration,
`DraftFlagged` a rollback, a lost mark, an edit between a publish's read and its
write and a join's description, `LeftPoolsExplained` the three ways a pool is left
behind, `AttemptsBounded` the attempts the counter does not hold back, `LockEnds`
an EXPIRE that was lost and not made up for, and the migration properties a file
that passed for applied and downs that are not alone or not finished. `GrantIsRecent`
has a longer bound for a token that claims super_admin. `AcknowledgedStays`
compares a report with the next one only, `CompositeSound` is about a composite's
own publishes, and `BlockedNoDelivery` about password, magic link and refresh.

## Findings

Each is a run in which TLC finds the code doing something other than what a
comment or a document says. The quotations are in `PROJECT.json`.

1. `jobs_dlq_retry`: `handleAIJobFailure` naks after a failed dead-letter publish
   "so JetStream redelivers", but it got there only because MaxDeliver is spent.
   The message is neither redelivered nor dead-lettered.
2. `agent_overwrite`: `SaveAgentRuntimeState` has no guard on `terminal_version`,
   so an overlapping execution overwrites a terminal snapshot.
3. `conversation_replay`: a save sent again after it was applied is answered with
   the version of the request, not with the stored response; the client's next
   save is refused.

Observations met while modelling, without a run of their own:

- a context error on the last delivery leaves the `ai_jobs` row `running` with no
  delivery to come;
- progress, completion and failure update the row without looking at its status,
  so a body that runs while its job is cancelled reopens or completes it;
- the saves after a dispatch use the run's context: a cancel while the query runs
  hands the executed run back non-terminal;
- only the chat request that counts to one sets the guard's time to live, so the
  key may expire under a later request;
- an OAuth callback code can be redeemed a second time inside its grace period;
- publishing a component does not invalidate the composites that contain it;
- changing a datasource's settings does not invalidate its pools, although
  `Invalidate` is meant for it ("Use when the datasource is deleted, its DSN
  rotated, or connection settings changed", `pool_cache.go:93-95`): the pool of the
  old settings stays open until the datasource is deleted or the process ends;
- a code in the second step of a login is tried without a look at the counter of
  failures and without adding to it, although "After 5 consecutive failures the
  user is locked out for 15 minutes" (`service_password.go:36-37`);
- a removed super_admin is let through until the access token expires, by a claim
  that no cache and no invalidation touches;
- UPDATE and DELETE of `ab_variants` name the variant's id alone, and the handlers
  check the status of the experiment in the URL: through another draft the
  variants of a running experiment can be changed or deleted;
- a migration that fails because one of its objects exists is rolled back and
  recorded as applied;
- renaming an experiment writes the whole row back, so it undoes a status change
  that it overlaps, and does not tell the router;
- a metadata sync whose column listing fails goes on and reports every column as
  missing; a drift that was fixed and comes back while it is the latest report
  is not reported again.

## Fairness

Nothing is assumed of crashes, cancels, users or faults. Weak fairness otherwise,
each for a step that the code takes by itself:

- *jobs*: a live enqueuer's and a live callback's next step (the callback's
  context ends after 35 minutes, every call on it with it) and the server's
  AckWait timer; strong fairness of delivering a message, since the stream is
  delivered in order and busy workers cannot pass one over for ever;
- *agent run*: an executor's steps, each of which has a deadline;
- *limits*: inside `Acquire` (the timer fires) and of the sends of `Release`, not
  that jobs end; a live request of the chat guard, and Redis expiring due keys;
- *pools*: the steps of `Get`; opening a pool is bounded by its ping timeout;
- *lockout, composite cache*: Redis expiring keys, and the command that follows in
  the same function;
- *report scheduler*: a runner's steps, ticks included (the ticker never stops);
- *audit writer*: the worker's loop and the steps of `Close`;
- *AI answers*: the steps of a question that is being answered;
- *drift*: the scheduler's tick once it is started, and the steps of a check.

In `services` no fair step of an unfocused part is enabled in its initial state
(the drift scheduler is started by an action), so the conjunction of all parts'
fairness constrains only the part that moves; in `limits` each part's fairness is
conditional on the focus.

## Proofs

The theorems hold for every value of the constants under the assumptions named in
the modules (limits and lifetimes are natural numbers, identifiers of different
sorts differ, the sets that are counted or summed are finite, shares of traffic
are integers, a day, a week and a month have at least one hour or day and
timings name hours and days they have). TLC evaluates those
assumptions in each run. Two theorems each of `AIJobs` and `AgentRun` have a
hypothesis of their own on a constant, named below; the runs `jobs_timely` and
`agent_sequential` have instances of it. Every inductive invariant was
model-checked before it was proved. Every safety property of the passing runs,
every action property and the refinement is a theorem.

What a fold or a recursive function computes for every input is proved by least
counterexample: `LeastNat` (a set of numbers that is not empty has a least member)
follows from the library's facts on well-founded relations, without the induction
theorems, whose operator parameter the provers cannot instantiate. A lemma for all
n puts the n that fail in a set, takes its least member and refutes it. The same
argument shows that the recursive function exists: TLA+ only chooses one.

`AIJobs_Proofs`

- `TypeCorrect`: `Spec => []TypeOK`, from `TypeInv`, which adds that a callback
  that is not idle holds a job.
- `CoverageCorrect`: `Spec => []JobCovered`. Not inductive by itself: an Ack step
  would have to know why it acks. `CoverInv` adds that a terminal status comes
  with `finished_at`, that a callback about to ack has a finished row or a
  swallowed error, and that one about to terminate has stored its copy. Since
  `finished`, `swallowed` and `dlq` only grow, other actors cannot disturb these.
- `DeadLetterCorrect`: `Spec => []DeadLetteredOnce`, late redeliveries and any
  number of overlapping callbacks included. `DeadInv` says that a callback's
  delivery number is one the server has made, that no two callbacks hold the same
  delivery of a job, and that a copy exists only once the callback of the last
  delivery has gone on to Term or has ended; hence only one callback ever writes
  one.
- `CancelSticks`: the action property `CancelBeforeBodySticks`, from `UnsentInv`:
  nothing is in the stream or in a hand before `Publish`, no row before the INSERT.
- `TimelyCorrect` and `SucceededCorrect`: `TimelySafe` and `SucceededStays`,
  assuming `"late" \notin Faults`. `HandInv` says that a message the server may
  deliver, or has settled, is in no hand, so that there is one hand at most;
  `RowInv` that a callback about to ack, and an acked message, have a finished row
  or a swallowed error, and that a callback on its way to a result or a failure
  has no result yet. Without the assumption both properties are false.

`AgentRun_Proofs`

- `RunTypeCorrect`: `Spec => []TypeOK`. `TypeInv` adds that a state that is not
  terminal has at most MaxRounds rounds and that an executor inside the loop holds
  a state that is not terminal; otherwise a saved state could be counted past its
  range.
- `WriteAheadCorrect`: `Spec => []ExecutedIsMarked`, overlap included. `MarkInv`
  adds that a state whose last step is a query tool says so in `exec`, and that an
  executor past the mark with `exec` set has marked the row; the mark is never
  taken back.
- `SequentialCorrect` and `SettledCorrect`: `SequentialSafe` and `SettledStays`,
  assuming `~Overlap`. `SequentialInv` says that one executor at most is inside an
  execution (`Alone`), that the saved state has counted every dispatch and
  question (`RowCounts`), that a terminal row looks terminal, and that what an
  executor is about to do is counted in the state it holds, and in the saved one
  as soon as it may act (`Held`): a crash at any step loses no count.

`PoolCache_Proofs`

- `PoolsSoundCorrect`, which joins `CachedFreshCorrect`, `ServedMatchesCorrect` and
  `OneOwnerCorrect`, all from `CacheInv`.
  `CachedFresh` alone does not survive `Store`: it needs that a flight's
  generation is at most its datasource's (`GenBound`), that an opener owns what
  it opened until it stores or closes it (`OpenedOwn`), that drained pools are out
  of the map, and that the outcome a waiting caller shares was opened for its key
  (`LandingMatches`).
- `CacheImplementsRegistry`: every step of the cache is a step of `PoolRegistry` or
  a stutter. A caller is admitted in the registry while its generation is still
  the datasource's; `Invalidate` revokes by advancing it, `Close` does not.
- `QueriesUseCache`: the composition `QueryPools` implements the cache's own
  specification (`Spec => CacheSpec`), so the two results above hold of it too
  (`QueriesPoolsSound`, `QueriesImplementRegistry`).
- `LeftPoolsCorrect`: `Spec => []LeftPoolsExplained`. `OrphanInv` keeps the open
  that displaced a pool, `QueriesExplained` gives a reason to every query that may
  still store a pool of a datasource: its row is there, its deletion has not
  cleared the cache yet, or the query had read the row before and was not in the
  cache when it was cleared (`raced`). `SettingsInv` says that queries ask only for
  settings that are in the row, or were until an edit took them out (`replaced`),
  and that IDs are not used again.

`Limits_Proofs` — cardinality facts from the library carry all three.

- `SlotsCountedCorrect`: `SlotsCounted` is inductive as it stands.
- `GuardCountsCorrect`: `GuardInv` says that an increment nobody will undo belongs
  to a request that is over, that while the key lives it is exactly the sum of
  these and of the requests in flight, and that as many of them as the limit
  allows have read a count within it.
- `SpendBoundCorrect`: `SpendInv`, today's counter plus what calls under way may
  add stays below the ceiling, and the counters of days to come are zero.

`Identity_Proofs`

- `RedeemedOnceCorrect`, `RefusedForGoodCorrect` (`VoidIsRefused`, `TotpMonotone`):
  `CredInv`, a secret that can still be spent has not been accepted, an accepted
  time step stays recorded, no account exists before an invitation is accepted.
- `GrantIsRecentCorrect`: `PermInv`, an answer that allows was true at a moment
  whose distance from every stamp it carries (start of the call, entry of the auth
  service, entry of the API service) is bounded; a token was signed from roles that
  were read within the write timeout before.
- `LinksExclusiveCorrect`: `LinksInv`, the token a request will insert is new and
  nobody else's, every link its UPDATE saw had been handed out, and a link that was
  dead when a visit began stays dead, so that the visit is stopped where the link
  or the switch is looked at.

`Sessions_Proofs` — `SessInv`: every row descends from a login and keeps its absolute
expiry; a login never refreshed twice at once has one live row or one refresh
under way; a login that was cut has neither. Hence `OneSessionPerLogin`,
`RevokedForGood`, `AuthenticationExpires`, `BlockedNoDelivery`.

`Models_Proofs`

- `PublishSoundCorrect`, `HistoryKeptCorrect`: `PubInv` adds `ReadInv`, a request
  about to write holds a context that passed validation (a rollback: the snapshot
  of its target) and computed its version from a header at most as new as the
  present one.
- `LedgerCorrect`: `LedgerAgrees` from `MigInv`. While nothing passed for applied that is
  not and no down was disturbed, the
  files in the database are the first ones, a down works alone on the last record,
  and everything before the files left to an up is applied, whatever other ups do.
- `SavesCorrect`: `SavesExactlyOnce` from `ConvInv`: the keys of the ledger are as
  many as the versions, each made one of them, and their messages are among the
  conversation's; what was answered or acknowledged has its key in the ledger.
- `ProviderCorrect`: `ProviderCurrent` from `ProvInv`: the version counts the
  changes; while the map differs from the table somebody is going to read or store
  the table's content, or is late and will say so; and whoever holds a
  configuration under the present version holds a current one, unless a provider
  was tagged with a newer version than its own.
- `ExperimentsHold`: `ExperimentRoutable` from `ExpInv`: a request about to write
  "running" has validated variants that allocate the whole unless one was written
  under another experiment, one about to edit a variant saw a draft, and what the router holds was read since the last `Invalidate`.
  `SharesExact` holds of any variants that add up: `TotalSplits` takes any member
  out of the fold's sum, so the sum of the shares below a variant grows by its own
  (`BelowSteps`), the buckets it is selected for are an interval of its size
  (`SelectedInterval`), and the intervals cover every bucket (`BelowReached`).
- `JoinsHold`: `JoinsCorrect` from `JoinInv`. The search is a tree (`TreeInv`): every
  table found hangs by its own join on one found before it, and is connected to
  the base. A reached table is queued or all its neighbours are reached
  (`SearchInv`), so a table that is not reached when the queue is empty is cut off
  by the reached ones. The joins still to be emitted come after those of the tables
  they hang on (`OrderInv`); that order also bounds the depth of the tree, which is
  why `PathJoins`, climbing as often as the model has joins, ends at the base
  (`PathJoinsAre`). Hence the required joins are closed upwards and each leads to a
  needed table (`RequiredInv`), and when a required join is emitted exactly one of
  its ends is joined (`ClauseOf`).

`Services_Proofs`

- `LockoutCorrect`: the failures counted plus the attempts let in stay below the
  threshold plus the attempts plus those the counter did not hold back (`LockInv`).
- `CompositeCorrect`: the property, extended to the entries readers are about to
  store (`CompInv`).
- `AnswersCorrect`: the same for requests on their way to the cache, with the cost
  of a question at each place (`AnswerInv`).
- `AuditCorrect`: what is stored, in the batch and in the channel is what was
  accepted, in its order, without the failed batches; and who may still send once
  the writer is closed (`AuditFlow`).
- `DriftCorrect`: a check about to insert has seen a latest report with other
  drifts and that is still the latest, unless it is excused (`LookedUp`). The
  theorem needs no fairness and is stated for `DriftInit` and the box of
  `DriftNext`.
- `ReportsHold`: `ReportsOnce` from `SchedInv`. `SlotNewest` is arithmetic: the slot
  that `reportSlotAt` computes is named by the timing and no later hour up to now
  is, for each cadence and any lengths of day, week and month (`DivMod`, `DivOf`
  and `SameRemainder` carry the divisions). `NothingResent` says, while runs do not
  overlap and none was lost, that a run's slot is newer than the last one recorded,
  that nobody left on its list has its digest, and that every digest sent belongs to
  a recorded slot or to the run under way.

Only model-checked: liveness and fairness (`MessageSettles`, `ExecutionEnds`,
`NobodyStarves`, `GetReturns`, `EverythingEnds`), which the prover does not reach,
like anything with ENABLED.

## Not modelled

The map covers a few percent of the back end's roughly 105,000 lines. Most of the
rest has no protocol that a model checker could explore: SQL generation and SQL
security are translations of one input to one text, prompts, routing, lexicon,
memory and evaluation are text and ranking heuristics around a language model,
drivers, mail, storage, configuration and the MCP server are I/O or stateless
plumbing, and most handlers decode a request, run one statement on one row and
encode the answer. A share of 30 percent would mean widening definitions past what
they translate, or transliterating code whose only possible errors are of content.

Within modelled components: the Nak for unreadable metadata and the stream's
MaxAge; policy evaluation, retry budgets, step rows and shadow comparison of agent
runs; streaming of chat events; access tokens, but for the super_admin claim;
logins by OAuth, passkey and second factor; role inheritance
and the datasource access caches (the same shape as the permission cache);
enrollment of TOTP secrets; the validation rules of semantic models; derived
sources of joins; a user's own model selection; experiment metrics; drift
notifications. The development queue in the process has no acknowledgements.

## Plan

Done: every component above, the refinement of the pool cache, and theorems in
eight modules. What would come next:

1. a composition of `AIJobs`' delivery with `AgentRun`, so that `Overlap` is derived
   from the queue and not assumed;
2. policy evaluation and SQL function blocking as operators, compared with a
   reference definition over bounded inputs.
