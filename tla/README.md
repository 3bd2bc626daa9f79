# Kaizen experimentation platform: TLA+ models

This directory holds a verification project for the platform: TLA+ modules
translated from the source, TLC configurations that check them on small
instances, and TLAPS proofs, for every instance, of the invariants of all the
concurrent components (M5 in Go and Rust, the config stream, the alert consumers,
M2, M4b) and of the algorithms of M1, M2, M5 and M7 that section 4 names.

## 1. Inventory: the system's parts

The platform is seven cooperating modules (`docs/adrs/001`, `docs/adrs/005`).

| Part | Source | State it keeps | Operations | What makes it hard |
|---|---|---|---|---|
| M5 experiment management (Go) | `services/management` | `experiments`, `layers`, `layer_allocations`, `audit_trail` in PostgreSQL | create, update, start, pause, resume, conclude, archive | start and conclude take two transactions each; row locks; a request dies between them |
| M5 bucket allocator (Go) | `internal/allocation`, `store/layer.go` | bucket ranges of a layer with a cooldown | find a contiguous gap, insert, release | fragmentation, off-by-one at range ends, cooldown measured on the transaction clock |
| M5 config stream (Go) | `internal/streaming`, `handlers/stream.go` | LISTEN connection, one bounded buffer per subscriber | publish, fan out, snapshot, delta | lost notifications, slow subscribers, snapshot racing deltas |
| M5 alert consumers (Go) | `internal/guardrail`, `internal/sequential` | Kafka consumer group offset | auto-pause, auto-conclude | at-least-once delivery, error paths that skip a message |
| M5 Rust port: lifecycle | `crates/experimentation-management` (`grpc.rs`, `store.rs`, `kafka.rs`) | the same tables, a broadcast channel | the same operations, StreamConfigUpdates | a handler is several statements without a transaction; backfill and broadcast race |
| M5 Rust port: definitions | `validators/`, `bucket_reuse.rs`, `portfolio.rs` | `metric_definitions`, `layer_allocations` | create and migrate metrics, MetricQL, filters, allocate and release ranges, list, recommend | checks that read the tables at other moments than the insert; a hand-written lexer and parser |
| CUSTOM metric migration | `bin/custom_migrator.rs`, `migration/` | scan, proposal and shadow files; M5's table; M3's runs | scan, translate, shadow, apply | a batch tool that is killed or re-run between any two writes; text that is parsed twice |
| M1 assignment | `crates/experimentation-assignment` | config cache fed by the stream, a broadcast ring | GetAssignment(s), targeting, switchback, slates, interleaved lists | stale cache, a batch over a changing configuration |
| M2 event pipeline | `crates/experimentation-pipeline`, `-ingest` | dedup filter, disk buffer, sessions | validate, deduplicate, publish, buffer, replay, sessionize | broker outage, torn files, retries of a deduplicated event |
| M4b bandit policy | `crates/experimentation-policy` | posteriors on one core thread, RocksDB snapshots, Kafka offset | select arm, apply reward, snapshot, rollback | single-writer loop fed by bounded channels, crash recovery |
| M4a analysis | `crates/experimentation-analysis` | result cache in PostgreSQL | RunAnalysis, GetAnalysisResult and the other reports | concurrent calls over a table that grows; rows in no order |
| M7 feature flags | `crates/experimentation-flags` | `flags`, audit rows | create, update, evaluate, promote, reconcile | promotion and resolution racing conclusions |
| Statistics, bandits, interleaving | `crates/experimentation-{stats,bandit,interleaving}` | posteriors; otherwise none | estimators, decisions, policies, merged lists | boundaries, ties, single observations, order of updates |
| M3 metrics | `services/metrics` | Spark job results, query log | scheduled and on-demand computation | partial failure of a job's metrics |
| M5 online FDR (Go) | `internal/fdr` | one controller row | Test | serialised spending of alpha wealth |
| Orchestration, SDKs, UI, infrastructure | `services/orchestration`, `sdks`, `ui`, `infra` | | | |

### How the parts interact

```
 users --> M5 handlers --(transactions, row locks)--> PostgreSQL
              |  NOTIFY after commit                     |
              v                                          v LISTEN
           (best effort)                             M5 notifier
                                                         | bounded buffers
 M3 --guardrail_alerts--> M5 consumers                   v
 M4a --sequential_boundary_alerts--^            StreamConfigUpdates --> M1 cache --> assignments
 M1/SDK events --> M2 pipeline --Kafka--> M3, M4b (rewards) --> posteriors --> M1
 M7 flags --promote--> M5 experiment --concluded--> M7 reconciler
 custom_migrator --> M5 metric definitions, M3 shadow runs
```

M5's handlers share nothing but the database: `StartExperiment` and
`concludeByID` each use two transactions, and everything else (another handler,
a crash, a cancelled request) can come between them. A committed change is told
to M1 by `pg_notify`, which nobody stores: what is lost on the way is made up
for only by the snapshot of M1's next connection. The Rust port broadcasts in
memory instead and backfills a new stream from the table. M3 and M4a act on
experiments through two Kafka topics that M5 consumes, one message at a time.
M2 publishes what M4b learns from; M4b's offsets and snapshots advance
independently of each other.

### What is hard, and what makes each part correct

* **Lifecycle and allocator** - two transactions per operation, `NOW()` fixed at
  the start of a transaction that may then wait for a lock, rollbacks on a dead
  request context. Correct when buckets are never shared (also not with a range
  that still cools), when exactly the live experiments hold buckets, when one
  request at a time drives an experiment, and when operations end.
* **Config stream** - notifications lost before LISTEN, during a reconnect or in
  a full buffer; a snapshot racing deltas. Correct when a connected M1 misses
  nothing but dropped notifications and what runs reaches M1.
* **Alert consumers** - offsets committed in the background, errors that skip a
  message, a restart without an offset, state read without a lock. Correct when
  no alert is lost silently and a handled alert has had its effect.
* **Rust port** - each handler reads, checks and writes in separate statements;
  correct when transitions stay legal and when M1's view, once it is up to date,
  is the table's.
* **M2** - correct when nothing that was acknowledged disappears silently,
  nothing is published twice in one life of the process, and requests and
  starts end, whatever the broker and the disk do.
* **M4b** - correct when a snapshot pairs a posterior with the offset of its last
  reward, no offset is committed for a reward the core was not sent, a restart
  loses a bounded number of rewards, and every request is answered.
* **M7, migration tool** - correct when a flag or a metric is only replaced on
  account of a decision about that very flag or metric, however many times a
  pass, a command or a call is cut off and repeated.
* **Definitions** - correct when the checks' answers are still true at the
  insert, and when text, tokens, tree and SQL mean the same.
* **Statistics, bandits, interleaving, M4a** - correct when an estimate is the
  textbook's on every small sample, where two code paths compute the same thing
  they agree, decisions are on the right side of each boundary, and reports do
  not depend on row order or on who called meanwhile.

`PROJECT.json` lists the hazards one by one, each with its line and with the
properties that would catch it; section 5 lists weaknesses the models show that
no property is about.

## 2. Modules

Concurrent components have variables of their own:

| Module | Models | Its state | Its actions |
|---|---|---|---|
| `ExperimentLifecycle` | `handlers/lifecycle.go`, `experiment_crud.go`, `store/*.go` | columns of `experiments`, `layer_allocations`, newest audit row, row locks, one record per request, clock | one per transaction step of every handler, plus cancel, crash, tick |
| `BucketAllocator` | `allocation/allocator.go` | none (operators) | `FindContiguousGap` as a relation between occupied ranges, size and result |
| `ExperimentContract` | what the lifecycle promises (`state/machine.go`, ADR-005, ADR-009) | phase of an experiment, owner of a bucket | a legal transition; grant or release of free buckets |
| `ConfigStream` | `streaming/notifier.go`, `handlers/stream.go`, M1's `stream_client.rs`, `config_cache.rs` | database state, publishes under way, LISTEN connection, buffers, wire, caches, backoff | commit, publish, listen, fan out, subscribe, snapshot, delta, receive, six failures |
| `AlertConsumers` | `guardrail/*.go`, `sequential/*.go` | topics, offsets, program counter per consumer, experiment states | fetch, read, audit, conclude (two steps), commit, flush, failures, restart, users' conclusions |
| `ManagementPort` | the Rust M5: `grpc.rs`, `store.rs`, `kafka.rs`, `state_machine.rs` | rows, program counter per handler, broadcast log, one M1 stream with its view and the rows it has still to send | one per statement of every handler, guardrail consumer, load the version, subscribe, list, send a row, delta, lag, cut-off, restart |
| `EventPipeline` | M2: `service.rs`, `buffer.rs`, the dedup of `experimentation-ingest` | filter generations, file, topic, one queue of events per request | validate, deduplicate, publish with every outcome, a client that goes away meanwhile, buffer, replay, compact, crash |
| `PolicyCore` | M4b: `core.rs`, `kafka.rs`, `snapshot.rs`, `grpc.rs`, `main.rs` | policies as sequences of offsets, channels, store, bookmark, group offset | consume, send, commit, apply, snapshot, prune, every request, panics, store failure, restart |

The self-contained algorithms keep their state in the one variable `st` of
`Machine`, whose field `algo` names the algorithm, so that one run checks many
of them, each from all of its own initial states:

| Module | Models |
|---|---|
| `AllocatorScan` | `FindContiguousGap` of the Go allocator, statement by statement, against the relation of `BucketAllocator` |
| `EventValidation`, `Sessionizer` | M2's schema checks; folding heartbeats into sessions and QoE events |
| `Assignment` | M1: targeting rules; single and batch assignment, holdouts, sessions, switchback blocks, bandit delegation with its fallback, slates, over a changing configuration |
| `Readers` | who reads while others write: M1's bounded broadcast of updates to server streams, the paged listing of the Rust M5 |
| `Interleaving` | `GetInterleavedList` with team draft, optimized and multileave |
| `MetricCatalog` | creation and migration of metric definitions by concurrent handlers, with the cycle walk |
| `MetricQL`, `FilterSql` | lexer, parser, analysis and references of MetricQL; the two passes of the filter check |
| `BucketReuse`, `ExperimentTypes`, `Portfolio` | the rest of the Rust M5 that carries logic: ranges and their cooldown, what the typed experiments need to start, the alpha budget; `Portfolio` states `LayersAreAccounted` about the allocators and the portfolio together |
| `FeatureFlags` | M7: rows, evaluation, promotion, reconciler, consumer, admin |
| `CustomMigrator`, `SqlTranslation` | the four commands over files, M3 and M5; classifier and translators on SQL syntax trees |
| `EffectEstimates`, `TestDecisions`, `ResamplingTests`, `CausalEstimates` | the statistics crate |
| `AnalysisService`, `AnalysisReports` | M4a's RunAnalysis and GetAnalysisResult with the cache; the other reports and their readers |
| `Bandits`, `SlateBandits` | Thompson sampling, LinUCB, mixed adaptive design, reward composition, slates, arm constraints |
| `Rationals` | exact fractions, in place of floating-point numbers |
| `MC*` | TLC instances: small inputs and the union of the algorithms' Init and Next |
| `ServingProofs` | TLAPS proofs about M1's assignment, M5's start conditions, M7's flags and the metric migration tool, and lemmas on numbers, sums, sequences and checks in a row |
| `AlgorithmProofs` | TLAPS proofs about interleaving, readers, the metric catalogue, what a layer has to give (the scan, bucket reuse, the portfolio) and M2's ingestion |
| the other `*Proofs` | TLAPS proofs about the concurrent component they are named after |

`ExperimentLifecycle` uses the relation of `BucketAllocator`; `AllocatorScan`
shows that the loops of the source compute it, in whatever order the unstable
sort leaves ranges with one start. `ConfigStream` and
`AlertConsumers` take from the lifecycle only the state changes their part can
see. `SqlTranslation` extends `MetricQL`, because the text the tool writes is
read back by M5's parser; `ExperimentTypes` extends `Assignment`, so that what
M5 lets start is compared with what M1 then serves. `Sessionizer` extends
`EventValidation`, because M2 validates what the sessionizer emits.
`AnalysisService` extends `TestDecisions` and `EffectEstimates`, whose operators
it calls for every metric.

**Abstractions.** Names, ids, payloads, audit details and log lines are model
values or left out. In the Go lifecycle validation is a nondeterministic verdict
(`ValidateForStart`), and a transaction that takes one row lock and cannot wait
again is one action, because PostgreSQL makes it atomic. A commit may be applied
and its answer lost (`Committed`, `CallFails`). The best-effort calls of a
conclusion (analysis, policy snapshot, FDR) change none of the modelled state.
In `ConfigStream` update versions are left out, since M5 ignores
`last_known_version` and M1 applies every update; in `ManagementPort` they are
kept, since the Rust M5 compares them. In `AlertConsumers` each topic has one
partition and M5 runs once. In `PolicyCore` a posterior is the sequence of the
offsets of its rewards, so that loss, repetition and order can be told apart. In
`EventPipeline` buffer sizes count records, a filter may answer yes for a key
it has not seen, and a handler's future is dropped at its one await only. In
`ManagementPort` the two operations of a publish (count the version, send) are
one step; loading the version and subscribing are two, and a backfill sends its
rows one by one, old as they may be by then. In `CustomMigrator` time passes
in the calls of `PromoteShadowResult` and in the sleeps between them.
`TestDecisions` returns the code's errors of the group sequential boundaries:
too few looks, a panic when nothing may be spent at the first look, and a
bisection without a change of sign. (In floating point the first also happens
with O'Brien-Fleming spending, 18 looks or more and alpha 0.05.) Random draws are nondeterministic choices, hashes are
arbitrary functions of salt and user. Arithmetic is exact; standard errors are
compared as squares, and distribution functions enter as critical values or
as monotone stand-ins. Characters in `MetricQL` and `FilterSql` stand for their
class.

**External behaviour**, modelled from its use: PostgreSQL (row locks end with
their transaction; NOTIFY reaches only connections that listen), Connect and
tonic streams (a broken stream loses what is in flight), tokio's broadcast (a
receiver that falls behind is told how much it lost), Kafka readers and
producers (a fetched message is not fetched again unless the process restarts; a
full queue refuses; an answer may be lost), RocksDB (ordered keys, a write may
fail), the SQL parser of the migration tool, and statrs' distributions.

## 3. Runs

| Run | Expect | What it shows | Bounds |
|---|---|---|---|
| `lifecycle` | pass | `NoOverlap`, `ReuseAfterCooldown`, `LiveExperimentsHoldBuckets`, `SingleDriver`, refinement of `ExperimentContract` | 2 experiments, 2 requests, 3 buckets, requests of 1 and 2 buckets (34% and 67%, rounded half up), clock 0..1, cooldown 1, every failure, unlimited in number |
| `lifecycle_live` | pass | starts and conclusions that contend for locks settle | no failures, both experiments want 2 of 3 buckets, so one of them is refused |
| `stream` | pass | `NothingMissed`, `RunningReachesM1` | 1 experiment, 1 M1, one-slot buffer, two failures of any kind, one pause |
| `alerts` | pass | `CommittedWereProcessed`, `HandledTookEffect`, `AlertsAreConsumed` | 1 experiment, 2 alerts per topic, malformed ones too, one failed call or restart |
| `management` | pass | `TypeOK`, `OnlyLegalTransitions`, `ServedIsTrue`: an M1 which has read everything sees the table, except for experiments whose requests raced or whose last broadcast met no receiver | 1 experiment, 2 handlers (symmetric), 3 requests, broadcast ring of 1, one cut-off call, one alert, one restart, two connections |
| `management_guardrail` | violation | a guardrail pause reaches the table and not the streams | 1 request, 1 alert, no failure |
| `pipeline` | pass | `TypeOK`, `NoSilentLoss`, `DeduplicationIsExact`, `ServiceProgresses` | 2 concurrent requests of singles and batches, 5 kinds of events of which two share a key, file of 2 records, 2 faults |
| `policy` | pass | `SnapshotsAreTrue`, `RewardsAreDelivered`, `RestartLossIsBounded`, `EveryRequestAnswered`, `TopicIsConsumed` | one LinUCB and one Thompson policy, 2 messages of 4 kinds, channel of 1, snapshot after every second reward, one kept, commit every 2, one fault |
| `policy_recovery` | violation | a restart loses rewards, where ADR-003 says they are replayed | 2 good rewards, channel of 1 |
| `layer_exclusion` | violation | two experiments of a layer assign the same user | 2 experiments with disjoint ranges of 4 buckets, 2 salts |
| `algorithms` | pass | the platform's own algorithms, below | per algorithm, in `MCAlgorithms` |
| `statistics` | pass | estimators, decisions, reports and bandits, below | per algorithm, in `MCStatistics` |

The properties of the last two, and several of the others, are conjunctions of
named parts, one per thing that could be wrong; each part has its own comment in
its module.

| Property | Parts |
|---|---|
| `IngestionIsSound` | `ValidatedIsUsable`, `EmittedPassesValidation`, `EmittedIsItsHeartbeats` |
| `ExperimentsAreServed` | `AssignmentIsSound` (`TargetingFailsClosed`, `HoldoutIsExclusive`, `SharesAreFair`, `SessionsAreSticky`, `SwitchbackAlternates`, `SlateIsFair`), `StartedSwitchbackIsServed`, `QuasiHasAPrePeriod` |
| `InterleavingIsFair` | `CreditIsEarned`, `DraftIsBalanced`, `DraftIsFull` |
| `DefinitionsAreSound` | `CatalogIsSound`, `CatalogIsShallow`, `MigratedOnce` |
| `LanguageIsExact` | `LexIsExact`, `ParserIsItsGrammar`, `TreeIsRight`, `RefsAreComplete`, `FilterPassesAgree` |
| `LayersAreAccounted` | `ScanMatchesRelation`, `ScanIsFirstFit`, `CooldownIsKept`, `LayerIsNotOversubscribed`, `AlphaIsOverspent`, `DecisionAgrees` |
| `ReadersSeeEverything` | `NoSilentGap`, `PagesAreExact` |
| `FlagsAreSound` | `RolloutIsMonotone`, `ResolutionReachesEveryone`, `AutoResolutionIsEarned`, `PassIsComplete`, `PeriodicResolvesOnce`, `PromotedIsWellFormed` |
| `MigrationIsSound` | `MigrationWasShadowed`, `ReplacementIsWhole`, `AuditIsTrue`, `PendingHadItsBudget`, `ReplacementsResolve`, `DurationIsExact` |
| `TranslationIsFaithful` | `ArithmeticIsKept`, `RowsAreKept`, `WindowIsKept` |
| `EstimatesAreSound` | `WelchIsBounded`, `AdjustmentsAgree`, `TostIsSound`, `ClusteredIsSandwich`, `WeightedIsAnAverage` |
| `DecisionsAreSound` | `BenjaminiHochbergIsStepUp`, `GuardrailFormsAgree`, `SubgroupsAreTested`, `SrmIsPearson`, `BetsArePredictable`, `TypeOneErrorIsSpent`, `RecommendationIsEnough` |
| `AnalysisIsSound` | `AnalysisIsComplete`, `InterimIsAboutOneArm`, `CacheKeepsDecisions`, `RunAnswersFresh`, `StalenessIsBounded`, `RowOrderIsIrrelevant`, and one part per report |
| `BanditsAreSound` | `PropensitiesAreProper`, `PosteriorIsRidge`, `PlacementIsBest`, `MixingReachesEveryArm`, `WealthIgnoresPolicy`, `StatsAreWeighted`, and the parts about slates and arm bounds |
| `ResamplingIsSound` | `RegressionIsTheContrast`, `ExactTestIsExact`, `LongRunVarianceIsProper`, `CarryoverIsTested`, `TailsAreBounded`, `SuperiorityAgrees` |
| `CausalEstimatesAreSound` | `PredictionsAreHonest`, `ResidualsAreExogenous`, `OpeIsUnbiased`, `WeightsAreShares`, `SolverIsBestOrLost`, `SolutionSolves`, `FdrMeetsTarget`, `TrafficPowersEveryArm` |
| `SnapshotsAreTrue` | `TypeOK`, `SnapshotBookmark`, `LatestIsLastWritten` |
| `RewardsAreDelivered` | `CommittedWereSent`, `PoisonIsNeverPassed`, `RedeliveryIsBounded` |
| `DeduplicationIsExact`, `ServiceProgresses` | `PublishedOnce`, `DuplicateWasSeen`, `RetriesAreDuplicates`; `StartServes`, `RequestsEnd` |
| `ServedIsTrue` | `ViewIsExact`, `ServedWasStarted` |

**Why the bounds are enough.** Two experiments and two requests are the
smallest instance in which requests race for a row, a layer and a bucket;
fragmentation needs more ranges, and the allocator's scan has three of them in
five buckets. A one-slot buffer is full after one notification, so that drops
happen (the pause sends the second one). Two alerts per topic let one fail and
the next commit past it. In `management` two handlers can meet on one
experiment, and a ring of one makes M1 lag; the second connection is the one
that knows a version, and for which a broadcast can fall between load and
subscribe. In `pipeline` two faults are enough to rotate the filter twice, to
fail a publish and then the file, or to lose a client and then the filter; two
records let a torn one hide another. In `policy` a channel of one and a commit
batch of two put the group's offset both before and behind the core, and an
interval of two leaves one policy without a snapshot after a reward and lets
another be rolled back to less than it knows. The catalogue has
four metrics, so that a cycle can be closed by two handlers; the migration tool
runs six commands with one kill, so that every command can follow a broken one;
its calls take no time or two seconds (`CallTimes`), against a poll interval and
budgets of about as much, so that an answer can come after the budget has passed.
The weight solver of the synthetic control gives up after `Iterations` = 4 steps,
an even number as the code's 10,000 is; among the panels of two donors (`Panels`)
are some on which its rate overshoots the best share and some on which it does not.
The statistics use all samples up to three or four binary observations, all
p-values on a coarse grid that includes both ends, all ties, empty and
single-observation arms. The safety results of section 4 are proved for every
value of the constants. The `Max*` constants and budgets exist only to keep the
instances finite.

**Disagreements** between the code and a comment, a test or a document of the
repository are quoted in `PROJECT.json` under "findings". Three are violations
of what the document says. For the others a passing run checks the property
that states what holds of the code in its stead:

| Where | What is said | What the property says |
|---|---|---|
| `pipeline/src/service.rs:189` | "retry later" | `RetriesAreDuplicates`: the retry of a refused event, or of one whose client went away, is a duplicate |
| `policy/src/core.rs:301` | ADR-003: a snapshot on every reward | `RestartLossIsBounded`: a policy without a snapshot is lost with all that is still to come for it; there is a bound only for one with a snapshot |
| `management/src/grpc.rs:1036` | "server re-streams if behind" | `ViewIsExact`: M1 agrees with the table except about what ended while it was away or was broadcast between load and subscribe, until a row or a broadcast about that experiment |
| `bin/custom_migrator.rs:852` | "Bounded by `budget` (wall-clock)" | `PendingHadItsBudget`: bounded is when M3 is last asked, not when it answers |
| `guardrail/consumer.go:97` | "will retry on next fetch" | `CommittedWereProcessed`: a failed alert below the offset is behind the consumer for good |
| `management/src/portfolio.rs:418` | shares of the family's error budget; test `alpha_sum_does_not_exceed_family` | `AlphaIsOverspent`: the levels add up to the family's alpha only if all priorities are equal, otherwise to more, but less than twice |
| `management/src/bucket_reuse.rs:109` | races "resolve via unique constraint failures" | `CooldownIsKept`: two rows overlap only if one was inserted after the other call's query for active rows; nothing refuses the second |
| `migration/tier2.rs:229` | "Static check closes the gap" | `ArithmeticIsKept`: MetricQL computes the SQL read from left to right |
| `stats/src/synthetic_control.rs:790` | weights "minimizing" the misfit | `SolverIsBestOrLost`: a rate that overshoots returns weights no better than equal ones |

**Fairness.** `ExperimentLifecycle`: a request in progress takes its next step
(goroutines are scheduled), and a request that waits for a row lock gets it if
it becomes free again and again (PostgreSQL queues waiters), hence strong
fairness for the lock steps. `ConfigStream`: the notifier, the stream handlers
and M1's task run and reconnect; `Publish` is strongly fair because only the
model's bound `MaxChannel` disables it. `AlertConsumers`: the consumers'
goroutines, the flush timer and a user's half-done conclusion go on.
`EventPipeline`: the tasks of accepted requests and of a start run on.
`PolicyCore`: the core's thread, the consumer's task and the handler that waits
for a reply run while they live. Nothing makes a caller, a producer, the clock
or a failure fair, and failures are counted where liveness is checked, so that
they stop.

**Deadlock** is checked for the lifecycle, the stream and the consumers, where
`Quiescent` marks the states in which the system may really rest. The other runs
end when their bounded inputs are used up or an algorithm has its result.

## 4. Proofs

| Module | Theorem | Statement |
|---|---|---|
| `ExperimentLifecycleProofs` | `TypeCorrect`, `LifecycleInvariant` | `Spec => []TypeOK`, `Spec => []IndInv` |
| | `CooldownIsRespected`, `AllocationsDoNotOverlap` | `Spec => []ReuseAfterCooldown`, `Spec => []NoOverlap` |
| | `LiveHoldBuckets`, `OneDriver` | `Spec => []LiveExperimentsHoldBuckets`, `Spec => []SingleDriver` |
| | `LifecycleImplementsContract` | `Spec => ImplementsContract`: the refinement of `ExperimentContract` |
| | `RefusalsJustified`, `SearchIsTotal` | why a start is refused; the gap search has exactly one outcome |
| `ConfigStreamProofs` | `StreamTypeCorrect`, `SnapshotAndDeltasCoverAll` | `Spec => []TypeOK`, `Spec => []NothingMissed` |
| `AlertConsumersProofs` | `AlertsTypeCorrect`, `NoSilentLoss`, `HandledMeansDone` | `Spec => []TypeOK`, `Spec => []CommittedWereProcessed`, `Spec => []HandledTookEffect` |
| `ManagementPortProofs` | `TypeCorrect`, `ServedTrue`, `LegalTransitions` | `Spec => []TypeOK`, `Spec => []ServedIsTrue`, the action property `Spec => OnlyLegalTransitions` |
| `EventPipelineProofs` | `TypeCorrect`, `NothingLost`, `DeduplicationExact` | `Spec => []TypeOK`, `Spec => []NoSilentLoss`, `Spec => []DeduplicationIsExact` |
| `PolicyCoreProofs` | `SnapshotsTrue`, `RewardsDelivered`, `RestartLossBounded` | `Spec => []SnapshotsAreTrue`, `Spec => []RewardsAreDelivered`, `Spec => []RestartLossIsBounded` |
| `ServingProofs` | `ExperimentsServed` | `ServingSpec => []ExperimentsAreServed`: M1's assignment and M5's start conditions |
| | `FlagsSound` | `FlagsSpec => []FlagsAreSound` |
| | `MigrationSound` | `MigratorSpec => []MigrationIsSound` |
| `AlgorithmProofs` | `InterleavingFair`, `ReadersComplete` | `InterleaveSpec => []InterleavingIsFair`, `ReadersSpec => []ReadersSeeEverything` |
| | `DefinitionsSound`, `ReuseWaits` | `CatalogSpec => []DefinitionsAreSound`, `ReuseSpec => []CooldownIsKept` |
| | `LayersAccounted` | `LayersSpec => []LayersAreAccounted`: the allocator's scan, bucket reuse, the portfolio |
| | `IngestionSound` | `IngestionSpec => []IngestionIsSound` |

Every invariant, action property and refinement that a passing run checks on a
concurrent component is thus proved as well, and eight of the ten properties of the
`algorithms` run. The theorems hold for any sets
of experiments, layers, requests, handlers, events, slots and clients, any layer
size, cooldown, percentages, buffer, channel and topic length, snapshot interval
and retention, any bound on clock and faults, and any subset of the failures;
those about algorithms, for any rankings, definitions, rows, pages, heartbeats,
flags, configurations, variants, hashes and seeds, metrics to migrate, occupied
ranges and portfolios. An algorithm's specification
(`ServingSpec`, `FlagsSpec`, ...) is its own Init and Next on the variable `st`.
The assumptions are the named ASSUMEs of the components (numbers are numbers and
bounds are naturals, batches and variant ids are not empty, the ids of an
experiment's variants differ, rows that were there before are well formed, `None`
is none of the values it is
told apart from, a portfolio is finite, an interval's ends are in order; `NoneAssumption` of `PolicyCore` says so of envelopes and
posteriors); TLC evaluates them in every run. Every inductive invariant below
of a concurrent component was checked by TLC on the run's instance before it was
proved, that of `PolicyCore` on a larger one too, and `RefusalsAreJustified` with
three experiments.

*Lifecycle.* `NoOverlap` is not inductive: a start inserts its range some time
after it read the others. `StagedOK` says that a range which is inserted but
not committed is clear of every row that was held at the transaction's `NOW()`;
it stays true because `LocksOK` makes the request the only holder of the layer,
so no other start adds a row, and because a release in between (which takes the
same lock) cannot happen. `ReuseAfterCooldown` compares the clocks of the two
transactions that wrote two rows; `NoOverlap` follows from it since no row is
activated in the future. `RowsOK` ties rows to states, which needs
`SingleDriver`: the second transactions' UPDATEs always match.

*Gap search.* The range found is free, inside the layer and of the right size
(`GapIsFree`); and wherever a block is free, a gap start at or before it fits
(`SearchFindsBlocks`, by the least free position: the bucket before it is
occupied, or it is bucket 0). With `IndInv` this gives `RefusalsJustified`:
under both locks a start is refused only for lack of room among the rows it
read, or because two of these rows overlap. The second case is real, and TLC
reaches it: `NOW()` is the time the transaction began, so that a row whose
cooldown ran out while the transaction waited for its locks still counts as
occupied, next to the row that has taken over its buckets; the handler then
returns `ErrOverlappingRanges` and rolls back to DRAFT, although there may be
room. The theorem says that this is the only such case.

*Refinement.* The owner of a bucket is the experiment of the row that is active
or cooling down there (`BucketOwner`); by `NoOverlap` there is one such row
(`OwnerIsUnique`), so the CHOOSE has no choice. The commit of a start is
`Activate` (`StagedOK` makes the block free), the commit of a conclusion is a
`Transition` or, if the cooldown has already run out, `ConcludeAndReclaim`, a
tick of the clock is `Reclaim`, the first transactions and the rollback are
`Transition`s, and every other step stutters.

*Stream.* `TypeOK /\ NothingMissed` is inductive: the type of the wire says that
a deletion names no experiment. Every step moves a running experiment along
pending, channel, buffer or snapshot, wire, cache, or records the loss.

*Consumers.* The loop invariant says that everything before the message in hand
is processed, that no offset beyond it is committed, and that a message about
to be committed has had its effect; effects are never taken back because states
only move away from RUNNING, audit rows stay and topics only grow.

*Rust M5.* `ServedIsTrue` has two halves. That M1 serves only what was started
with a valid configuration needs the same of every event in the log and of every
row that a handler has read and not yet published (`StartedInv`). That a drained
M1 agrees with the table needs `ViewInv`: for an experiment whose requests did
not race, the store is where the one request left it (`Orderly`), the last event
about it shows its state unless a request is about to announce another
(`LastIsCurrent`), a view for which nothing is queued or missing is current, and so
is a row the backfill has still to send, unless an event about it is queued
behind it (`RowsAreCurrent`); without a receiver, whatever is queued is missed
(`ClosedIsMissed`).

*Event pipeline.* `LossInv` follows an acknowledged event between topic, buffer
file and the records a replay still has to send; it needs that a file without a
torn record is read to its end, which the lemmas on `Records` establish from the
first torn position. `OnceInv` says that the filters hold the key of every event
that is published or with the producer and that no two events with the producer
share one, so that the check and the insert of concurrent requests cannot let
both through; `SeenInv` is the converse, that a key in a filter is of an event
that was accepted, is under way, was refused or abandoned; `RetryInv` says that the
keys of refused and abandoned events stay in one of the two filters until the
second rotation.

*Policy core.* `SnapshotsAreTrue` needs `StoreInv`: envelopes under one key are
the same, and the one written last survives pruning. `RewardsAreDelivered` needs
`OrderInv` (committed offset, channel, reward in hand, position: in this order,
and the channel ascends), `DeliveryInv` (what was received was sent, dropped or
is in hand) and `PosteriorInv` (a posterior has a reward at most once per
restart, and once less while it can still be applied). `RestartLossIsBounded`
needs `LagInv`: the posterior in memory is the stored one with at most
`since < SnapshotInterval` rewards behind it, or all it has learned if nothing is
stored; a policy that is not restored keeps nothing.

*Assignment.* `BatchInv` carries a batch over a configuration that changes
under it: what the batch looks at is the snapshot it took, up to the states of
the experiments. `Excluded` is the order of its two passes: the layers of
the holdouts that took the user out are claimed, and a regular experiment is
answered only once no holdout is left, in a layer nobody claimed. The rest
is arithmetic about one call. Shares: a variant gets the buckets
between two rounded cumulative shares, so it differs from its exact share by less
than one bucket. Slates: `Stages` is the deck after the draws above each
position; it is one-to-one and onto in every round, by induction down the
positions. Switchback: blocks come from the unique
quotient and remainder, so that the next block has the other variant. The start
conditions compare sums of two's complement numbers, which add up in any order to
the same value, so that what M5 lets start has a block that M1 serves.

*Flags.* `FlagsInv` is kept by every call of the administrators and by every
row the periodic pass and the consumer touch: a task of a reconciler is about a
known flag and the experiment linked to it (`TaskInv`), an automatic resolution
in the audit is of an experiment that had ended, and every experiment M5 was
sent is well formed. Monotone rollout and the shares of a promoted experiment
are arithmetic about one row.

*Migration tool.* A metric goes from file to file together with what was built
from it (`MigratorInv`). An entry of the proposals that the shadow command may
take carries the metric's own replacement, and M5 has the metrics it reads
(`CandidateOk`); an entry of the shadow file also names, if it was approved, a run
in which M3 compared the two and approved (`OutcomeOk`, `ApprovedFor`); so does
what the apply command has in hand. This outlives the command that wrote the file:
M3's runs and M5's metrics only grow, an approved run stays approved, and M5 keeps
its migrations, so that an audit line that says OK names one that M5 has, however
often the tool was killed between two writes (`StepGrows`).

*Interleaving.* Each pick keeps everything the property says of the finished
list, because the counters of the code are the numbers of credited items and
every item of the list is credited to one algorithm that ranked it. A draft
stops only when the list is full or no team has an item left.

*Readers.* A stream that was not told of a loss stands behind exactly what it has
received (`InStep`), and its next update is still in the ring. A page shows the
smallest rows after the token (`Smallest` is increasing and skips nothing), so
what was shown lies at or before the token, and so does every row that matched
all along and is not still to come; a writer either leaves a row matching or
takes it out of those.

*Metric catalogue.* Rows are added and never changed, so what a walk has
seen stays true while other handlers insert. The frames of a walk are a path
from its root, everything a coloured metric reads is coloured or waits in
a frame (`WalkOk`), and when the walk is over its coloured set covers the metric:
closed under references, without the metric, each member with a depth within
the cap. `Grounded` says so of every stored row. Since what a new metric reads
was stored before it, no stored metric reads it, and no cycle closes.

*Bucket reuse.* A call that has passed a query knows that the rows which were
there at its first query are released, cooled down or clear of its range. This stays
true, since a released row stays released and the clock only advances; rows
inserted after the query are the race that `CooldownIsKept` names.

*Scan of a layer.* The sorted ranges are the rows in an order of their starts
(`Arranged`). Neighbours apart means all apart (`AllApart`), two neighbours that
meet are an overlap; and with all apart, the gap behind a range fits exactly when
it is wide enough up to the next one (`GapFits`). So the loops answer with the
first gap start that fits, which is the relation of `BucketAllocator`. First fit
needs no order: below every free position there is a gap start that fits
(`GapBelow`, by the nearest one), and a gap start that fits is free.

*Portfolio.* Bounds on the terms of a sum are bounds on the sum (`SumBound`, by
induction on the size of the subset summed so far). A share counts at most twice
the priority it stands for, in parts of the layer's total; a level, in parts of
`n * total`, is either the uniform share or the priority's, and with one to spare
no more than both together. It is at least the priority's share, and these add up
to `n * total`; a sum of such terms meets its bound only if each does
(`SumSqueeze`), which with unequal priorities the lowest does not.

*Ingestion.* A validated event is usable because the verdict is the first check
that fails (`FirstFailure`). An open session is the fold of its heartbeats, all
within a day of the clock and none further than the gap from the one before
(`SessionInv`); sums, rises and peaks of a log that grows by one heartbeat
grow the way the counters do, and the numbers reported from them are within the
limits, so an emitted event passes its own validation.

Induction on numbers in these proofs is the absence of a least counterexample
(lemma `Induction` of `ServingProofs`), since the library's schema is out of the
provers' reach.

The type invariants of `ExperimentLifecycle`, `ConfigStream`, `AlertConsumers`
and `PolicyCore`, and `IndInv`, are proved rather than listed in the cfgs.

**Only model-checked.** Liveness (`StartSettles`, `ConcludeSettles`,
`RunningReachesM1`, `AlertsAreConsumed`, `EveryRequestAnswered`,
`TopicIsConsumed`, `ServiceProgresses`), because TLAPS has no rules for
fairness and ENABLED here. Of the `algorithms` run, `LanguageIsExact` (lexer and
parser recurse over texts and trees) and `TranslationIsFaithful` (the classifier
and the translators recurse over syntax trees). The
`statistics` run: `EstimatesAreSound`, `DecisionsAreSound`, `AnalysisIsSound`,
`BanditsAreSound`, `ResamplingIsSound`, `CausalEstimatesAreSound` are about exact
fractions kept in lowest terms by a recursive gcd, sums over samples and sorted
lists. What a recursive definition computes for every input needs induction over
data, which the installed provers do not do.

## 5. Not modelled

* M3 (SQL generation, Spark jobs), orchestration, SDKs, UI, infrastructure,
  generated code: glue, presentation or code that has its logic in SQL.
* The Go M5's validation, metric, targeting, surrogate and portfolio CRUD and
  authentication: single statements and field checks; what carries logic is
  modelled in the Rust port. The online FDR controller: one row, locked and
  updated per decision.
* MurmurHash3 (assignment quantifies over every hash), the neural bandit, the
  distribution functions and roots of the statistics crate, gradient steps of
  the surrogate model: floating point.
* CRUD of layers and users, adaptive triggers, interceptors and command lines of
  the Rust services.

**What the models show and no property is about.** These behaviours are in the
modules as the code has them; the properties state what holds beside them.

* Go M5: an error or a cancelled client between the transactions of a start
  leaves STARTING, of a conclusion CONCLUDING, and no handler takes either
  further; buckets stay with the experiment.
* M1's cache keeps ended and paused experiments, because a deletion names none
  and a snapshot only adds; the reconnect backoff is never reset.
* A change committed before LISTEN is issued, or while the listener reconnects,
  is not sent to streams that are already open.
* Submission to the FDR controller is best effort.
* M2: a torn record hides those appended after it.
* M4b: a NaN reward stops the consumer at every restart; a rollback keeps the
  reward counter.
* Rust M5: broadcast versions restart at 1 with the process, so that an old
  client's version can look newer than the table.
* M7: when linking the flag fails after the experiment was created, promoting
  again creates a second experiment.
* Bandits: LinUCB always plays the arm with the highest bound, and reports the
  exploration floor as the probability of each of the others.

## 6. Plan

1. `ExperimentLifecycle`, `BucketAllocator`, contract, `ConfigStream`,
   `AlertConsumers`, with proofs - done.
2. `PolicyCore`, `EventPipeline`, `ManagementPort`, M1, M7, M4a, the migration
   tool and the libraries - done.
3. Proofs of the invariants of `ManagementPort`, `EventPipeline` and
   `PolicyCore`, the refinement of `ExperimentContract`, completeness of the gap
   search - done.
4. Proofs about the algorithms that need no induction over data: `MetricCatalog`,
   `FeatureFlags`, `Readers`, `Interleaving`, `Sessionizer` with `EventValidation`,
   `Assignment` with `ExperimentTypes`, `CustomMigrator`, and `AllocatorScan` and
   `BucketReuse` with `Portfolio` - done. Their modules
   share `Machine` with recursive ones only through the MC modules.
5. Composition: the lifecycle's commits and publishes implement the handlers of
   `ConfigStream`, so that `NothingMissed` speaks about allocated buckets too.
6. The FDR controller, and M3's guardrail breach counter and scheduler.
