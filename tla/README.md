# TLA+ verification of the hunting-fishball context engine

The repository is a context engine: it pulls documents from 54 connectors, runs
them through a four-stage pipeline into PostgreSQL, Qdrant, FalkorDB and Redis, and
serves retrieval, policy and administration over HTTP. This directory holds TLA+
modules for its control flow, the TLC runs that check them on small instances, and
TLAPS proofs of the properties that matter most.

`PROJECT.json` lists components, runs, mutants (deliberate bugs that each
property must catch), the map from definitions to source lines, the findings,
the hazards and the theorems.

## The system and its parts

| Part | Code (under `internal/`) | Module |
|---|---|---|
| Kafka consumer of `ingest`, `reindex`, `purge` | `pipeline/consumer.go` | `Consumer` |
| Coordinator: four stages, channels, shutdown | `pipeline/coordinator.go` | `Coordinator`, which implements `EventDelivery` |
| Stage circuit breaker and retry loop | `pipeline/stage_breaker.go`, `runWithRetry` | `StageBreaker` |
| Priority buffer before Stage 1 | `pipeline/priority.go` | `PriorityBuffer` |
| Fetch, parse, embed, deduplicate | `pipeline/fetch.go`, `parse.go`, `embed.go`, `dedup.go` | `StageWork` |
| Graph stage | `pipeline/graphrag.go`, `storage/falkordb.go` | `GraphStage` |
| Stage 4 writer, chunks table | `pipeline/store.go`, `storage/postgres.go` | `Storer` |
| Retention worker and deleter | `pipeline/retention_*.go` | `Retention` |
| Dead-letter queue: consumer, store, replay | `pipeline/dlq_*.go`, `admin/dlq_*.go` | `DLQ` |
| Backfill and its completion events | `pipeline/backfill.go`, `admin/backfill_completion.go` | `Backfill`, `BackfillCompletion` |
| Connectors: connect, list, fetch, poll | `connector/*` | `ConnectorPlans`, `ConnectorCalls`, `Backfill`, `DeltaPoll`; one definition per method in `ContentConnectors` and `BusinessConnectors` |
| Adaptive rate limiter | `connector/adaptive_rate.go` | `AdaptiveRate` |
| Audit outbox, retention of audit rows, integrity chain | `audit`, `admin/audit_retention.go` | `AuditOutbox`, `AuditIntegrity` |
| Notifications and retries | `admin/notification*.go` | `Notification` |
| Shards and device deltas | `shard` | `Shards` |
| Tenant erasure | `shard/forget.go`, `admin/tenant_delete.go` | `TenantForget` |
| gRPC pool | `grpcpool` | `GrpcPool` |
| Policy: rules, drafts, promotion, resolution | `policy` | `PolicyRules`, `PolicyPromotion` |
| Retrieval and the semantic cache | `retrieval`, `storage/redis_cache.go` | `Retrieval`, `SemanticCache` |
| Sources: API, rotation, token refresh, removal | `admin/source_*.go`, `token_refresh.go`, `forget_worker.go` | `SourceLifecycle` |
| Schedules and cron | `admin/scheduler.go`, `cron.go` | `Schedules` |
| Exports, API keys, rate limits, auto-pause | `admin` | `ExportJobs`, `ApiKeys`, `RateLimiter`, `AutoPause` |

How the parts interact: a backfill or a poll turns what a connector reports into
events on a topic. `ConsumeClaim` registers an event and submits it
(through the priority buffer, when configured) to the coordinator's first channel.
Stage workers call their service inside `runWithRetry`, which asks the stage's
breaker first. Stage 4 is `Storer`. The coordinator ends every event with `OnSuccess`
or `OnDLQ`; both enter `markDone`, which wakes the waiting claim, and `OnDLQ` first
publishes to the dead-letter topic. `DLQ` takes over there, and a replay puts the
event on a topic again. `Retention`, `TenantForget` and the forget worker of
`SourceLifecycle` delete from the stores behind Stage 4's back. `Shards` and `Retrieval`
read them under the policy that `PolicyPromotion` made live.

The modules meet at these interfaces. `Retention` extends `Storer` and runs beside it on
the same stores. In `Consumer` the coordinator is a set of copies reported in any
order, which is what `EventDelivery` says and `Coordinator` is proved to implement. In
`Coordinator` a stage call is success or failure, which is what `StageBreaker` returns.
In `DLQ` the pipeline is the step `Process`. `Backfill` runs over any plan of the two
connector modules. `PolicyPromotion` and `Retrieval` use the same `PolicyRules`.

## Modules

**StageBreaker.** Workers of one stage share a breaker. State: the breaker's fields
(`state`, failure streak, cooldown clock, probe slot) and each worker's place in
`runWithRetry`. Actions: `Allow`, `ShortCircuit`, the outcomes of an attempt
(`AttemptHealthy`, `AttemptRetry`, `AttemptExhausted`), `BackoffElapsed`, `Abandon` (ctx done
in the backoff), `Tick`. `OnSuccess` and `OnFailure` are parts of these, as in the
code. `prober` is a history variable: who was admitted as a probe.

**PriorityBuffer.** Three bounded buckets, pushers split at the point between the
`closed` test and the select, `Close` split between flag and `done`, and `Drain` line
by line: forced low pick, forced normal pick, polls, the all-closed test, the
blocking select, and the hand-over to Stage 1. `lowWait` and `normalWait` count how
often a waiting bucket was overtaken; they saturate just above their bounds.

**Storer.** One document, because chunk ids of different documents never meet. A
row and a point are abstracted to the content hash they carry. Every call to a
store is a step that succeeds, fails, or lands and reports an error. `Fail` starts
the operation again, up to `StoreAttempts`. `orphans` records ids whose vector delete
never ran.

**Retention.** `Storer` plus the worker: `SweepList`, `SweepVector` and `SweepMetadata` (the
two halves of `DeleteChunk`), `SweepEnd`, and `SweepCutShort` for a cancelled or killed
sweep. `trouble` records what has disturbed a sweep: Stage 4 at work at the same time, or
a call that failed.

**DLQ.** Events and all their copies; the rows of the table are numbered in the order of
`failed_at`. `Process` and `Persist` are the two consumers; `Replay` is `Get`, `Send`,
`MarkReplayed`, `BumpAttemptCount`, each of which may fail; operators (`AdminReplay`, and the
turns of `BatchReplay`) and the auto-replay worker run it concurrently.
`ListAutoReplayable` has the order and the LIMIT of the query, and lets permanent
failures through as the query does; the worker passes over them. Time is the age of a
row in steps of the schedule.

**Consumer.** Partitions with logs of keys; claims (`Receive`, `Submit`, `Wake`,
`ReturnClaim`); the hooks (`Report`, `MarkDone`, which visits one partition per step);
sessions (`Rebalance`, `Crash`, `Setup`). Which offset is committed at the end of a
session is any between the old and the marked one.

**Coordinator** and **EventDelivery.** Four channels, workers of each stage (`Receive`, the
work, `Send`), the closers (`CloseDownstream`), `Submit`, `CloseInputs`, `Cancel`. A worker in
its work may `Skip` (paused source or `ErrUnchanged`), `Fail` (`routeDLQ`) or `Succeed`.
`EventDelivery` is what the pipeline promises: an event is new, pending or settled, and
may be dropped only once the pipeline is stopping. The refinement mapping reads an
event's status off the channels, the workers' hands and the hooks (`Whereabouts`).

**Connectors.** A connector's methods differ in a few ways that matter: which replies
they take as an error, as a rate limit or silently as an empty page; whether they
page by token, offset or not at all; what ends a listing; whether they read the body
before they check it; which cursor a poll returns and from which order of records.
`ConnectorPlans` names these choices. The two connector modules give one plan for
each method of each connector (about 270, each mapped to the method). The machines
execute a plan request by request: `ConnectorCalls` (Connect with its probe, Fetch with
one or two requests), `Backfill` (namespaces, pages, the producer) and `DeltaPoll` (polls
that interleave with edits). Connectors with equal plans share their states.

**The machines of `MCPlatform`, `MCEdges` and `MCIngest`.** Each models one component with its
concurrent parties, and each statement, command or request is a step of its own
where another party can come between:

* `Shards`: `Generate` statement by statement, and a device that follows the deltas.
  The UNIQUE constraint on a scope's version is part of `Create`.
* `GrpcPool`: `Borrow` and `report` with late reports.
* `PolicyPromotion`: promotions, rejections and rollbacks as transactions with row
  locks; a resolver that reads the live tables in separate statements.
* `Retrieval`: one request per entry point, from the resolved policy through fan-out,
  merge, filters and pins to the answer, with late cache writes and policy changes.
* `SemanticCache`: Redis commands of `Set`, `GetOrRefresh` and the two invalidations.
* `SourceLifecycle`: the API, the refresher and the rotator (read, then write the whole
  config), and forget workers under a lease that may expire.
* `TenantForget`: both orchestrators that erase a tenant, with any number of sweepers wired.
* `AuditIntegrity`, `AuditOutbox`: rows that commit in any order of their ids; a poller whose
  `Run` ends at its first error and has to be restarted; rows that retention deletes.
* `Schedules`: replicas that fire a schedule while the API replaces it; `CronNext`.
* `ExportJobs`, `ApiKeys`, `RateLimiter` (skewed clocks), `AutoPause` (two critical sections
  with the writes between), `GraphStage` (several `Enrich` calls in flight), `StageWork`,
  `BackfillCompletion`, `Notification`, `AdaptiveRate`.

These machines share no variable. `MCPlatform`, `MCEdges` and `MCIngest` (breaker, priority
buffer, stores) therefore pick one machine in `Init` and keep the others as they began, so
that state spaces add up. `MCDLQ` picks one of two scenarios in the same way: replayers
that race on a row, or a worker with more rows than its list holds.

`StageBreakerProofs`, `CoordinatorProofs`, `ShardsProofs`, `SourceProofs` and `PlatformProofs`
hold the proofs.

## Runs

| Run | Shows | Bounds |
|---|---|---|
| `ingest` | Half-open always has a running probe, and half-open and open are left again; low is overtaken at most `LowAfter` times, normal by at most `2*NormalAfter` high picks (when `NormalAfter < LowAfter`), and after `Close` the drain ends and leaves nothing accepted before it; metadata never mixes versions, and unless a sweep overlapped Stage 4 every point without a row is about to be deleted or had its delete fail | breaker: 3 workers (a late report, a probe and a refused call at once), threshold 2, cooldown 2 ticks, 2 attempts; buffer: 2 pushers, 1 place per bucket (full and empty are both one step away), `NormalAfter` 2, `LowAfter` 3; stores: 1 storer (the serial case the consumer arranges), versions of two blocks and of one, 2 attempts, all failures, any number of sweeps |
| `storer_retry_orphan` | violation of lock step | 1 worker, 3 versions (two share a block, one is empty), 3 attempts |
| `dlq` | Without force one replayer sends a row once unless a mark failed; attempts only on replayed rows; racing forced replays overshoot the cap by at most the number of replayers minus one. A row whose error is not permanent is sent and marked, unless its send or its mark failed or older rows that never leave the worker's list fill the LIMIT | one row, 2 operators and the worker (every pair of replayers races), or the worker alone with 2 rows and a list of 1; 1 copy per topic, 2 attempts, every call may fail, consumer restarts |
| `dlq_topic` | violation: the worker replays to the dead-letter topic | no operator, no failures, 2 copies |
| `dlq_re_emit` | violation: a row whose send failed is not sent again | no operator, failures allowed |
| `consumer` | A marked message has a finished event of its document; it is itself finished if its document occurs once, or in one partition and no session has ended; in the first session events of a document are serial; if sessions stop ending every message is marked | 2 partitions with 2 messages each (a repeated document, a malformed message), 2 sessions (one rebalance, timeout or crash) |
| `consumer_shared_document` | violation: one completion marks the other topic's message | 1 message in each of 2 partitions |
| `coordinator` | The pipeline implements `EventDelivery`; accepted events are all reported; after `CloseInputs` or a cancellation `Run` returns | 3 events, one of them a deletion (one in the full channel, one in the blocked sender, one behind them), 2 fetch workers that race for a channel and one worker per later stage, channels of 1 |
| `edges` | Connect and Fetch return no more than the upstream answered; a backfill that reports success has emitted every document that stayed; polls skip nothing and catch up; the adaptive rate returns to its base; committed audit rows are sent unless `Run` has returned or they expired first; notifications settle | every plan of 54 connectors; 3 namespaces of which 2 are admitted, 3 documents in pages of 2, 1 refusal and 1 removal at any point; 2 records edited 3 times in pages of 1, 1 fault; 2 limiter callers, 3 throttles; 3 audit rows in batches of 2; 2 retry replicas |
| `eager_listing` | violation: 12 listings end before their last page is handed over | 1 namespace, no faults |
| `outbox_retry` | violation: a failed send is not retried on the next tick | one poller, no restart |
| `platform` | one or two properties per machine, listed below | 2 or 3 concurrent parties per machine, each with the faults that can matter (1 or 2) and enough ids for a successor and an overlap |

What `platform` checks: a device that took finished versions holds what the server
holds (`DeviceInSync`), and a scope never loses its last ready shard
(`SupersededBySuccessor`); the trial slot of the gRPC pool belongs to exactly one
running call and is never leaked by a late report (`TrialHasCaller`); the live policy is
the promoted drafts in the order of the history, each decided once (`LiveIsHistory`), and
an undisturbed resolution decides as they say, except for what a channel draft without a
mode loses (`ResolvedAsPromoted`); an answer obeys the policy its own request resolved,
whatever path it took (`ServedObeysPolicy`); cache entries stay reachable for invalidation
(`EntryTracked`); the stored credential is that of the last answered rotation, unless a
refresh wrote over it (`CredentialKept`); a removed source stays removed
(`RemovalIsFinal`); a tenant marked deleted has no data in the stores its orchestrator
sweeps, and stores are emptied in order (`DeletedMeansSwept`); integrity alarms have a cause
(`AlarmJustified`); `Next` of a cron expression is its first matching minute, against a
reference definition (`NextRunIsFirst`); export jobs only move forward
(`JobsMoveForward`); an active key always exists, and a key that was given out is honoured
until its deadline (`NeverWithoutKey`); the rate limiter grants no more than its budget
(`GrantedWithinBudget`); auto-pauses are a cooldown apart (`PausesSpaced`); a graph node is of
the last write to its document, or of one that overlapped it (`NoSupersededNode`); vectors
fit their blocks, and the model unless it was redeployed between two batches
(`VectorsFitBlocks`); a completion is told once and audited once by each process
(`CompletedOnce`).

The small calendar of `Schedules` (2 minutes, 2 hours, 2 days a month, 2 months, 3-day
weeks) keeps every carry of `Next`: minute to hour, hour to day, day to month, month to
year, a day that never exists, and either of the two day fields.

The violation runs are disagreements between the code and its own comments; the
quoted lines are in `PROJECT.json`. Each is short:

* A retry after a failed vector delete finds no rows and therefore no ids, and
  succeeds with the old points still in Qdrant.
* `publishDLQ` writes no `original_topic` header, so the auto-replay worker, which uses
  the stored topic, sends the event to `ingest.dlq`, where it is dropped.
* `markDone` compares (tenant, source, document) only, and the consumer reads three
  topics.
* Twelve listings return false as soon as their last page is fetched, before its entries
  were handed over: of that page the caller gets the first document and then
  `ErrEndOfPage`. The backfill reports success, and the rest of the page is never emitted.
* `Replay` marks a row as replayed after a failed send too, so that the worker, which lists
  only rows that were not, never sends it again.
* `Outbox.RunOnce` stops at a failed send "so we retry on the next tick", but `Run` returns
  the error and its ticker with it.

Other behaviour met while modelling is recorded as hazards and as the conditions of the
properties; where a property excludes a case, the code does lose it:

* Pipeline: a late failure of an old call can let a second probe run; a push parked at
  `Close` can be accepted and never drained; a forced low pick restarts the count of the
  normal bucket, hence `2*NormalAfter`; two replayers can both send a row; a failed send
  counts as a replay; the attempt cap is per row; a paused source acknowledges deletions
  it does not execute; the ingest command cancels before it closes the inputs.
* Connectors: listings by offset shift under removals; some listings read only their
  first page or stop silently at a failed one; polls that read one page in descending
  order, that take "now" after reading as the next cursor, or that page by offset in
  ascending order while records are edited, skip changes. The predicates `ReadsToTheEnd`,
  `NamesThemAll`, `ReadsEnough`, `ToleratesEdits`, `ToleratesTies` and `Advances` say for which
  plans each property holds.
* Webhooks are not modelled, because the router only counts the changes that a handler
  decodes and then drops them. For whoever connects it: GitHub, Teams and Jira turn the
  deletion of a comment or a reply into the deletion of its document, GitLab does not look
  at `object_kind`, and Slack names the time stamp of the event for an edit.
* Stores: of two generations that read the same `LatestVersion` the second insert fails on
  the UNIQUE constraint, and `LatestVersion` counts pending and failed rows, so that a device
  may be sent to a version without chunks; `Set` and `Invalidate` of the cache can miss each
  other; two overlapping `Enrich` calls for one document can leave nodes of both.
* Pool and limits: a late report ends the phase of a trial that is still running, so that it
  and the trial of the next phase run side by side, contrary to the comments at
  `grpcpool/pool.go:13` and `:233`; a slow clock makes the rate limiter refill an interval
  twice; pushes of the adaptive limiter can cross.
* Erasure: `cmd/api/main.go:624` builds the tenant deleter without sweepers or a drain, and no
  command builds `shard.Forget`, so that as wired a tenant is marked deleted with its data
  kept; what the pipeline writes after the drain stays.
* Credentials and keys: a token refresh writes over a rotation it has not read; credentials
  in the connect request's own field are not stored by `Connect`; two overlapping
  rotations leave two active keys, and a rotation whose answer is lost leaves an active key
  that nobody has.
* Policy: a tenant-wide draft loses its recipient default and its local-retrieval switch,
  and so does a channel draft with an empty mode, because the resolver then ignores the
  channel row; a policy mode is not on the scale of the privacy labels, so that with any
  mode set every label is admitted, and labels decide only for tenants without one; pins
  that no backend returned bypass the filters; hits that only BM25 found carry no source
  or label for the rules to match.
* Embedding: the local service ignores the requested model and reports its own, and the
  models of two batches of a document are not compared.
* Background loops: the comments at `admin/backfill_completion.go:26` and `:97` have cmd/api
  seed the set of completed sources, but nothing does, so that each process audits a
  completion again; no command starts the outbox, and audit retention deletes rows that
  were never published; `pipeline/retention_deleter.go:38` promises that a chunk whose delete
  failed is retried by the next sweep, which no longer finds its row.

## Fairness

* `MCIngest`: for the breaker, admitted calls finish (every stage call has a timeout), time
  passes, and new events keep arriving, the last only for leaving the open state; for
  the buffer, the drain goroutine runs, Stage 1 accepts, and a `Close` once begun
  completes. Nothing about pushers, and nothing about the stores.
* `MCDLQ`: time passes, both consumers run, the worker's ticker fires. Nothing about
  operators or about the success of a call.
* `Consumer`: claims run, the coordinator reports what it holds, `markDone` finishes.
  `ClaimsProgress` is conditional on sessions no longer ending.
* `Coordinator`: some worker or closer that can step does. Nothing about `Submit`,
  `CloseInputs` or `Cancel`.
* `MCEdges`: a backfill and a poll go on to their next request (both are loops); the
  limiter's pushes return, its cooldown passes and callers go on reporting success; the
  outbox poller runs on its ticker for as long as `Run` does, with nothing assumed about
  its sends or about a restart; the retry workers run on tickers, and the failures
  they retry after end at some time.

`MCPlatform` states safety and action properties only and assumes no fairness.
`CHECK_DEADLOCK FALSE` stands where the program may stop: a drain that has returned,
a pipeline after `Run`, a log read to its end, an event that is gone from the DLQ, a
backfill that is done, a bounded counter that is used up.

## Proofs

`StageBreakerProofs` proves, for any set of workers and any positive threshold,
cooldown and attempt count, type correctness, `TrippedIffThreshold` and
`HalfOpenHasProbe`. The inductive invariant `Inv` joins these with
`ProbeSlotIffHalfOpen` and two more facts. `ProbersBusy`: a worker counted as a probe is
inside `runWithRetry`; without it the half-open gate could be shut with nobody left to
open it. `SleepersMayRetry`: a worker in its backoff has an attempt left; without it the
attempt number could pass its bound.

`CoordinatorProofs` proves, for any events, workers, assignment of workers to stages
and positive channel size, `TypeOK`, `NoSendOnClosed`, `Exclusive` and `NothingLost`, and from
them the refinement `Spec => ImplementsDelivery`.
`NoSendOnClosed` is inductive over the types: workers that have left do not return.
`Exclusive` needs `Fresh` (an event that was not submitted is nowhere), since `Submit`
would otherwise double an event. `Inv` is the conjunction of the five. The argument
reduces every step to one of a few moves (`Moves`): nothing moves, an event is
submitted, received or sent on, it is reported, or it is dropped after a cancellation. What
`Append` and `Tail` do to "is in a channel" is proved once (`Appended`, `Removed`), and
the cases are then first-order. A move is a step of `EventDelivery` or leaves its status
alone, which gives the refinement.

`ShardsProofs`, `SourceProofs` (source lifecycle and automatic pauses) and `PlatformProofs`
(gRPC pool, graph, tenant erasure, API keys, exports) prove nine theorems about eight
machines, each for every value of the constants. What makes each property inductive:

| Theorem | Strengthening |
|---|---|
| `PoolTrialNeverLeaks` | the property with the types: every transition out of half-open clears the slot |
| `ScopeKeepsReadyShard` | a generation owns its row (`OwnRow`): nobody else makes it ready, so the successor it relies on is there when it supersedes |
| `DeletedTenantIsSwept` | stores are emptied in order (`SweptInOrder`), from the first one (`FirstSweep`), by every run, whatever number of sweepers each orchestrator has |
| `SourceRemovalIsFinal`, `SweepersExclude` | a worker has swept before it removes (`SweptThenRemoved`); the lease belongs to a run until it has outlived it |
| `TenantKeepsAKey` | the key of a rotation is new and its own, and the rows it moves exist (`KeysMinted`), so it never moves its own key; the sweeper expires no key before its deadline (`ExpiredIsDue`) |
| `ExportJobsMoveForward` | a running job has one worker (`ClaimsExclusive`), so the unconditional final updates hit a running row |
| `AutoPausesAreSpaced` | one pause at a time is pending (`OnePause`), and `lastPaused` is not before the last row |
| `GraphSupersedes` | a call that has pruned sees only nodes that others wrote since (`PrunedBeforeWrite`) |

Assumptions are the named `ASSUME`s of the modules; TLC evaluates them in every
run. Liveness, `DLQ`, `Consumer`, `Storer`, `Retention`, `PriorityBuffer`, the connectors and the
machines not named above are only model-checked; so are the results of folds and
recursive functions (`CronNext` against `FirstAfter`, `LiveIsHistory`), which would need
induction over data.

## Abstractions and what is left out

Error texts, logging, metrics, most audit rows and JSON are left out. `Classify`,
`CategoriseDLQError`, `decodeEvent` and `policy.Effective` are choices among their outcomes.
Stage 4's dry run is left out; the deduplicator appears in `Storer` as the blocks of a
version and in `StageWork` as an operator over which blocks are alike. Scores are ranks,
globs are the paths they match, hashes are injective. Several documents, several
sources and several tenants are left out where their state is disjoint.
Sarama, Redis, PostgreSQL (READ COMMITTED with row locks) and upstream services are external,
modelled from what the code uses. A connector is its plan: request building, decoding and
field mapping are left out.

Not modelled, with the reasons in `PROJECT.json`: scoring and text heuristics (chunk
scorer, query expansion, diversifier, cross-encoder); dashboards, analytics, metering and
health probes, which nothing reads back; settings handlers that are single statements;
storage clients as I/O; the producer and the reindex loop, which only feed the topics;
sync history; the webhook handlers; the idempotency middleware, which no command installs; shard eviction and
scheduling; signature verification; migrations and process wiring; the Python
services except `ComputeEmbeddings`.

The mapped definitions stand for about 23,800 of 76,000 lines of implementation.

## Running

    tlc -config Ingest.cfg MCIngest
    tlc -config DLQ.cfg MCDLQ                       # DLQTopic.cfg and DLQReEmit.cfg with DLQ
    tlc -config Consumer.cfg MCConsumer             # and ConsumerSharedDocument.cfg
    tlc -config Coordinator.cfg MCCoordinator
    tlc -config Edges.cfg MCEdges                   # and EagerListing.cfg
    tlc -config Platform.cfg MCPlatform
    tlc -config StorerRetryOrphan.cfg MCStorer
    tlc -config OutboxRetry.cfg AuditOutbox
    tlapm CoordinatorProofs.tla                     # and the other *Proofs modules

With two workers the longest runs take between two and three minutes each: `platform`
(600,000 distinct states), `ingest` (339,000), `coordinator` (178,000), `edges` (105,000, five
liveness properties) and `dlq`. The proofs take from a few seconds to two and a half minutes
per module.
