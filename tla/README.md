# Verification of pi-smart-router

TLA+ modules, TLC configurations and TLAPS proofs for pi-smart-router, the
routing middleware of the pi coding agent: for every request it picks a model,
delegates the stream to that model's provider, fails over when the provider
does, remembers what happened, and persists the session's choice.

Paths below are relative to the repository (`src/` is its source directory,
`.pi/extensions/smart-router/` the pi extension, abbreviated `ext/`).

## 1. The system

### Components, their state and their operations

| Component | Code | State | Operations |
|---|---|---|---|
| Write queue and SQLite store | `src/infrastructure/persistence/write-queue.ts`, `sqlite-store.ts` | pending buffer, statistics, closed flag; tables pins, telemetry, dataset, outcomes, price cache, token buckets | enqueue, flush, close; put/delete/get pin, append, list, timer tick |
| Store opening and migrations | `sqlite-store.ts` 257-282, 914-970 | file on disk, `user_version` | open, migrate, quarantine as `.corrupt`, fall back to memory |
| Rate limiting | `sqlite-store.ts` 972-1003, `ext/utils.ts` | token bucket per key | init, consume |
| Circuit breaker | `src/infrastructure/gateway/circuit-breaker.ts` | circuit per model: state, counters, time of last change | canDispatch, recordSuccess, recordFailure |
| Gateway dispatch | `src/infrastructure/gateway/gateway-dispatch.ts` | breaker, models out of quota, cache markers | dispatch, recordOutcome, selectFailover |
| Stream delegation | `ext/route-and-delegate.ts`, `delegate-stream.ts`, `stream-delegation.ts`, `src/infrastructure/delegation/provider-error.ts` | per turn: decision, target, failed models, models too small, replay flag | submit, dispatch, delegate, fail over, escalate, rescue, abort |
| Planning delegate | `ext/planning-delegate.ts` | sub-call in flight, timer | run, time out, fall back |
| Fleet selectors | `src/domain/routing/context-fit.ts`, `domain/delegation/output-headroom.ts`, `domain/pipeline/safe-default.ts`, `domain/pinning/sub-route-policy.ts` | none | context fit, headroom, overflow fallback, safe default |
| Tool-history guard | `src/domain/routing/tool-history-guard.ts` | none | filter Google models out of a turn's fleet |
| Routing pipeline | `src/domain/pipeline/*` | promise chain of routes; context of one route | route: thirteen stages in order, persist pin, emit telemetry |
| Session pinning | `src/domain/pinning/*` | pin per session, flip-flop history, SAAR turns | restore, lookup, record, break, record tool outcome |
| Fleet refresh | `ext/fleet-bootstrap.ts` | fleet, router, scope fingerprint, price catalog | ensureFleetFresh, rebuildFleet |
| Session lifecycle, commands | `ext/session-lifecycle.ts`, `commands.ts`, `src/api/session-eviction.ts` | last-seen stamps, one-shot lifecycle flags | session_start, session_shutdown, orphan sweep, commands |
| Matching, scoring, triage | `src/domain/matching`, `scoring`, `triage`, `routing/expected-cost.ts` | embedding caches | score, match, calibrate |
| Pricing and quota feeds | `src/infrastructure/pricing`, `src/domain/pricing` | cached catalog | resolve price, estimate window |
| Local tier | `src/infrastructure/hardware`, `local`, `src/domain/routing/speculative-prewarm.ts` | throughput window, acceptance window | probe, prewarm, guard |
| Typed judgment | `src/infrastructure/judgment`, `src/domain/judgment` | none | ask, time out, map the answer |
| Telemetry and datasets | `src/infrastructure/telemetry` | none of their own | build and append records |
| Calibration scripts | `scripts/calibration/*`, `scripts/train-routing-calibration.ts`, `scripts/calibration-aggregate.ts`, `scripts/lib/isotonic-calibrator.ts` | a campaign's report, label packs, telemetry exports, feedback answers, knots of the fit | run a campaign, adjudicate by panel, review, aggregate, fit, look up |
| Configuration, CLI, types | `src/config`, `src/cli`, `src/domain/types` | none | load, print |

### How they interact

`routeAndDelegate` (extension) refreshes the fleet if its fingerprint changed,
takes the Google models out of the turn's fleet if the history calls for it, and
awaits `GatewayDispatch.dispatch`. Dispatch awaits the pipeline, which serves one
route at a time and reads and writes the session pin through `SessionPinner`;
then the circuit breaker may move the decision to another model. The turn enters
its loop: headroom check, delegation to the provider, report of the outcome to
the gateway, failover. Pins and telemetry go to the store, whose writes sit in
the queue's buffer until the size trigger, the interval timer, a read or close
flushes them in one transaction.

Everything runs on one event loop: what interleaves is what runs between two
awaits. All turns share one gateway; a store is shared by everything, and by
other processes through its file.

### Where the difficulty is

- **Buffer and transaction.** A flush empties the buffer before the transaction
  runs; capacity, size trigger, timer, reads and close all flush; the process
  may die with writes in the buffer.
- **Shared breaker.** Reports of interleaved turns reach a circuit in any order;
  merely asking whether a model may be used half-opens a cooled-down circuit;
  a failed attempt is reported twice.
- **A loop with several exclusion lists.** Failover excludes failed models,
  headroom escalation excludes models that were too small, the replay failover
  excludes a provider once: the branches consult different lists.
- **State read before an await and used after it**: pin restoration, fleet
  refresh, the planning delegate's race.
- **Crashes** between a migration and its version number, between two files of a
  campaign, and with pins still in the buffer.
- **Two of something that was written for one**: two pipelines over one pinner
  after a rebuild, two processes migrating one file, two routes embedding at once.

What has to be right, component by component: the store must give readers their
last pin write, keep call order, drop nothing it promises to keep and never mix
two states on disk; the breaker must open on infrastructure errors only and agree
with its own counters; the gateway must cross over to a usable model when there
is one; a turn must end, must not go round in failover, and must leave a model
that is out of quota or cannot replay the history; routes must not block one
another; a pin must survive what it should survive and break when it should;
refreshing the fleet must leave turns on a fleet that matches the scope;
migrations must never lose a healthy database; a rate limit must hold whatever
the clock does; no model may be sent replay state it cannot read back; encoder
sessions must be closed; labels must be judged by others than their author, and
held-out sessions stay held out.

`PROJECT.json` lists every component with its state of modelling and every hazard
at its line with the properties aimed at it.

## 2. Modules

An arrow leads from a module to one that EXTENDS it; composition by INSTANCE is
written out.

```
WriteQueue <- SqliteStore <- MCSqliteStore            (PinMap == INSTANCE WriteBehind)
CircuitBreaker, ModelFleet <- Gateway <- Delegation <- MCDelegation, DelegationHistory
MCSqliteStore, MCDelegation <- MCProgress
SmallFleets, StoreOpening, TokenBucket, ReplayHistory <- MCShared
                     (Shipped == INSTANCE SqliteStore; Quota, Mixed, Twin == INSTANCE Delegation)

ModelFleet <- SwitchEconomics <- SessionPinner <- LoopEscalation <- RouterPipeline <- MCRouter
MCRouter, FleetRefresh <- MCFleet
MCRouter, TypedJudgment, LocalZero, EncoderCascade <- MCRace

LabelCampaign, HumanReview, IsotonicFit, TierChoice <- MCCalibration
```

Proofs live beside the modules: `SqliteStoreProofs`, `SharedProofs` (TokenBucket,
StoreOpening), `FleetLemmas` <- `DelegationProofs` and `RouterProofs`,
`FleetRefreshProofs`, `TurnProofs` (TypedJudgment, LocalZero, EncoderCascade,
ReplayHistory), `CalibrationProofs` (LabelCampaign, HumanReview, IsotonicFit,
TierChoice).

Definitions marked "Mutant" in a comment are deliberately wrong variants of the
definition after them; each shows that some property notices that bug.

### The store

**WriteQueue** has one operator per method of `BoundedWriteQueue` (`Enqueue`,
`Flush`, `CloseQueue`) and one for the sink (`Sink`, `applyWriteBatch`), each a
function from one store record to the next: an `enqueue` may flush, push and
flush again within one synchronous call, and `SqliteStore` composes the functions
the same way. Writes are named by their ticket, the position of the call; pins
and rows hold the ticket that wrote them.

**SqliteStore** has one action per call: `PutSessionPin`, `DeleteSessionPin`,
`AppendRecord`, `FlushThenRead` (every reader flushes first), `IntervalFlush`,
`Close`, and `Restart` (the process ends at any moment and a new one opens the
same file). A transaction may fail whenever the sink runs, and always fails on a
closed database. `result` records how the last call ended for its caller.
Bookkeeping fields (`lost`, `stale`, `newest`, `latest`, `faulty`) and the
variable `want` only serve the properties.

**WriteBehind** is what the pins promise, without a queue: a visible map, a
durable map, and losses that fall back to the durable one. The disk only changes
to a whole map that readers have seen. A stamp orders the values and a write must
be newer than all that readers see: without it, a half-applied batch could pass
for a write of an old value. `SqliteStore` implements it with `visible` the disk
overlaid with the buffer, `durable` the pins table and a row's ticket its stamp.

**StoreOpening** is `createResilientStore` and the nine migrations, per process:
`Begin`, `OpenDatabase`, `ReadVersion`, `Migrate` (one statement), `Stamp` (the
version number), `HostFails` (the disk is full, locked, or a rename refused),
`Recover` (the file is put away as corrupt and a fresh one tried, once; then the
store is in memory) and `Exit`. A file remembers in history fields whether a
migration of it was cut short (torn) or shared (raced). `OpeningSound` is what the
code keeps: it counts a torn or raced file as a reason to start over, although
such a file is sound. `OnlyCorruptGivenUp` is what the comment above
`createResilientStore` promises, and does not hold (section 5).

**TokenBucket** is the rate limiter over the store: `NotFound`, `InitBucket` and
`Consume` are the steps of a call that meets a new key, with the awaits between
them open to the other callers; `Tick` and `SetBack` move the wall clock.

### Turns and gateway

**CircuitBreaker** has `canDispatch` split into its answer (`CanDispatch`) and
its side effect (`Asked`), `AfterSuccess` and `AfterFailure`. The clock is the
age of an open circuit in ticks.

**ModelFleet** holds the catalog and the selectors. Fleets are sets, and
`Catalog` gives the order in which array scans meet the models, so "first" means
what it means in the code.

**Gateway** has `recordOutcome`, `selectFailover` (with its Cursor-quota branch)
and `applyCircuitBreaker` as functions on the gateway's state; a selection
returns the new state, since asking half-opens circuits, together with the set
of models the weighted draw may return.

**Delegation** is the turn: variables `gateway` (shared) and `turn` (per
session). A step is what runs between two awaits:

| Action | Code |
|---|---|
| `Submit` | entry of `streamSimple`, tool-history guard |
| `Dispatch`, `RoutingFails` | the await of `dispatch`, its catch (375-408) |
| `PlanningResolves` | the planning delegate answers, fails or times out |
| `ProviderAnswers`, `StreamAborted` | the await of `delegateWithOutcome`, with the first report |
| `Commit`, `LengthStop`, `ReplayIncompatible`, `ProviderFailed` | the branches of the loop body (559-704), with the second report |
| `DelegationThrew` | the catch of the loop (705-799) |
| `RescueAnswers` | the safe default as last resort |
| `Abort`, `Tick` | the host cancels; time passes |

Provider answers are the classes the code tells apart (`ProviderAnswer`). The
weighted random draw is any member of the candidates: every weight is positive.
`DelegationHistory` adds the run of failed attempts per model, for one property.

**ReplayHistory** follows what is sent of a history: `Delegate` runs the guard,
the normalisation and the repair of the context and what pi-ai does with blocks
of another model; `Answer` appends a message and the ledger's entry,
`AnswerElsewhere` is a turn of a model chosen with `/model`, `Compact` and
`Evict` shorten the history and forget the ledger, `NothingToRoute` is a turn
whose fleet is empty.

### Routing

**SwitchEconomics**, **SessionPinner** and **LoopEscalation** are pure operators
on a session's record: `recordPin`, `breakPin`, `loadPin`, `restoreSessionPin`,
`observeTier`, `lookupPin` with the SAAR policy, the sub-routes and the break
rules, `evaluateLoopEscalation`, and the two tests of whether leaving a warm
model pays.

**RouterPipeline** has an action per stage, in the order of the code:
hardware_probe, loop_escalation, turn_envelope, context_fit, low_intensity,
session_pin, triage, local_zero, triage_cloud_fallback, hydra_match,
safe_default, context_overflow_fallback. `Start` takes the next request off a
pipeline's promise chain, `Finalize` records the pin, `FallBack`, `StageThrows`
and `RouteRejects` are the error paths. The host's side is `Submit`,
`SetForceModel`, `AbortBeforeDispatch`, `MarkCompaction`, `Unpin`, `GoIdle`,
`SessionStart`, `SessionShutdown`, `RebuildFleet` (which leaves the turns in
flight on the old pipeline), `FlushPins` and `Restart`. Scores of triage and
match are chosen by the step that uses them.

**FleetRefresh** takes `RebuildFleet` apart: `StartTurn`, `StartRebuild`, `Look`,
`Passes`, `MustRebuild`, `TakeFingerprint`, `DiscoverModels`, `ReadCatalog`,
`Adopt`, `Finish`, `Fails`; a turn's fingerprint is computed in one step and
compared in the next, since an await lies between; with `PutCatalog`,
`RefreshCatalog`, `ScopeChanges` and `OtherProcessRefreshes` between any two of
them.

**TypedJudgment** is one judge call: `Skip`, `Judge`, `PostAgain`,
`NetworkFails`, `Respond`, `ReadBody`, and its two timers `StageTimerFires` and
`AdapterTimerFires` with `Interrupted`. **LocalZero** is the speculative prewarm:
`Enter`, `Warm`, `Miss`, `Probe`. **EncoderCascade** has a `Continuation` per
await of an embed, the loads and closes of ONNX sessions, and `dispose`.

### Calibration

**LabelCampaign**: `RunCampaign` and `RunPanel` compute what a script will write,
`Write` writes the next of its files, `Killed` ends it between two files. Models
are known as the scripts know them: a live client declares its own, a recorded one
none, and a panel is told its authors' models, rightly, wrongly or not at all.
**HumanReview**: `PlaceExport`, `ReviewAnswers`, `ReviewFromFeedback`; the
aggregate is an operator on the directory, and so is what a bundle that ships
trains on (`--verifier-grade-only`); rows without an id are never dropped as
duplicates. **IsotonicFit**: `Fit`, `Push`, `Merge`, `Emit` are the loop of the
pool-adjacent-violators algorithm; knots are recursive functions of the blocks,
lookup an operator on them. **TierChoice** is the expected-cost choice of a tier;
its actions `FleetDiffers`, `PricesDiffer`, `QuotaDiffers`, `PromptDiffers`,
`AlphaDiffers`, `ReadyDiffers`, `PinDiffers` are the next turn with one input
changed, so that action properties compare two choices. Virtual costs are scaled
so that no division rounds.

## 3. Runs

| Run | Question | Bounds | Shows |
|---|---|---|---|
| `Progress` | Does what is owed an end come to one: a buffered write, a turn? The store with a capacity below the trigger, as unit tests set it; every way a turn goes on two models | store: 1 session, 2 tables, capacity 2, trigger 4, 4 writes; turn: 2 models, one too small for long inputs, threshold 1 | types, `PendingBounded`, `ReadYourWrites`, `StatsBalance`, `NewestRowKept`, `FifoTickets`, `PinsMoveForward`, `PinMapSpec` (refinement of WriteBehind), `EverythingDrains`, `NoRetryWithoutEscalation`, `CircuitsConsistent`, `TurnEndsOrEscalates` |
| `Shared` | Is what processes and turns share right? The store with shipped proportions (trigger within capacity), its opening, the rate limit; interleaved turns and their circuits; every history of two answers | store: 2 sessions, 1 table, trigger = capacity = 3, 4 writes; opening: 2 processes, 2 files, old release 4, 1 mishap; bucket: 2 callers, capacity 2, costs 1 and 3, 6 ticks; Quota: 3 models with and without subscription, threshold 2; Mixed: 3 models of two providers and three windows, both inputs, threshold 2; Twin: 2 models, 2 sessions, threshold 3, cool-down 2, 2 half-open successes; 6 models for histories of 2 messages | `NoBackpressureDrop`, `OpeningSound`, `RateBounded`, `RetryHonest`, `OnlyInfraTrips`, `QuotaLeavesSubscription`, `BreakerRespected`, `ReplaySelectsNonGoogle`, `ReplayAccepted` |
| `RouterTurns` | A session's turns, one after the other, for ever | 5 models, 9 requests, planning buffer 2, flip and loop thresholds 2, events compact, select, abort, unpin, idle, 4 stages that may throw; FleetRefresh: 2 tasks, 2 scopes, 2 catalogs | type, `DecisionSound`, `ForceHonoured`, `SwitchesPay`, `PinMovesQualified`, `FreshRouting`, `RebuildsSettle` |
| `RouterRace` | Two turns in two pipelines; timers; concurrent embeds | 2 models, 2 slots, 2 pipelines, rebuild, restart, flush, shutdown; judgment of 3 levels, 2 retries; 2 sessions prewarmed, window 4; 3 embeds, 6 ONNX sessions | `PinWriteThrough`, `TimeoutReported`, `SpeculationBounded`, `SessionsAccounted`, `RoutesEnd`, `JudgmentEnds` |
| `Calibration` | Are labels, fits and tier choices sound? | 2 tasks of 2 sessions, 2 generators, 3 graders, live or recorded, panel of 4, authors' models told rightly, wrongly or not, 2 seeds; 2 files, 3 exports; 4 scores of up to 3 labels; 5 models, 3 fleets, 4 price lists | `PacksSound`, `IndependentJudges`, `HumanLabelsAnswered`, `CalibrationIsIsotonic`, `TierMovesExplained` |
| `StorePortContract` | Do hot-path promises never reject? | capacity 2, trigger 3, 3 writes | **violated** |
| `DelegationLoop` | Does a turn end even when headroom escalation takes part? | as the turns of Progress, threshold 2 | **violated** |
| `DelegationThreshold` | Does a circuit open after the documented number of failures? | 2 models, threshold 3 | **violated** |
| `DelegationUnparsed` | Does only a success close a half-open circuit? | 2 models | **violated** |
| `JudgmentAnswers` | Is a complete answer of the judge recorded? | 3 levels, probabilities of halves | **violated** |
| `OpeningCrash` | Is only a corrupt database given up? | 1 process, 2 files, old release 5, 1 mishap | **violated** |
| `PinBreaks` | Do pins break only for the documented reasons? | 1 session, healthy models, a hardware probe that may throw | **violated** |

**Parts side by side.** The passing runs `Progress`, `Shared`, `RouterTurns`,
`RouterRace` and `Calibration` hold several components that share no state. Each
part moves only while the others have not begun (in `Shared` the variable `part`
names the one that moves), which keeps every behaviour of
every part and adds their state spaces instead of multiplying them.

**Why the bounds suffice.** Every branch of `enqueue` depends on comparing the
buffer's length with capacity and trigger, on the class of the op and on whether a
lossy op is buffered: three or four calls reach each branch, before and after a
failed flush, a close and a restart, and both orders of capacity and trigger are
covered. Pins of different sessions interact only by sharing a transaction, which
two sessions show. An old file of release 4 meets the migrations that rename the
pins table; the fresh file that a recovery opens runs the earlier ones too. With
releases 0 and 4 and two mishaps (21 million states), and with three processes,
the opening was checked once. A circuit depends on its own counters up to the
thresholds, which 3 and 2 make distinct; selection depends on which candidates
are healthy, open and excluded, which three models vary in all combinations a
turn can produce. `Twin` puts another turn between any two steps of the first,
notably between the two reports of one failed attempt. A turn of the router reads
one session's state, so one session for ever shows every sequence of turns; what
two of them can do to each other needs two slots and two pipelines, not two
sessions. The prewarm window of 4 stands for 16: the guard compares rates over a
full or partial window. Larger campaigns (3.6 million states) and a larger market
(45,000 states, thirds instead of halves) were checked once.

**Deadlock** is checked in all runs: something is always possible.

**Fairness.** `Progress` assumes that the interval timer keeps firing
while the process lives and the queue is open (`setInterval`). It does not
assume that transactions succeed: a failed flush empties the buffer too.
`Progress` and `DelegationLoop` assume that an await in flight is
eventually over: ready continuations run, and providers end their streams (with
any answer). The code sets no timeout of its own on a stream, so that part is the
provider's promise. `RouterRace` assumes that a started route's stages go on
(each is awaited, and a settled promise's continuation runs), that the stage's
timer fires once armed, and that an aborted fetch rejects; the judge itself need
not answer. Nothing assumes that a given answer, an abort or a tick ever comes.


## 4. Proofs

TLAPS checks the theorems below for every value of the constants that satisfies
the modules' ASSUMEs. "Property" is the definition a run of section 3 checks on a
small instance.

| Module | Theorem | Property |
|---|---|---|
| SqliteStoreProofs | `TypeCorrect` | `TypeOK` |
| | `QueueBounded` | `PendingBounded` |
| | `PinsReadYourWrites` | `ReadYourWrites` |
| | `StatsAddUp` | `StatsBalance` |
| | `NothingDropped` | `NoBackpressureDrop` |
| | `BufferInOrder` | `FifoTickets` |
| | `NewestRowSurvives` | `NewestRowKept` |
| | `PinsOnlyAdvance` | `PinsMoveForward` |
| | `ImplementsWriteBehind` | `PinMapSpec` |
| SharedProofs | `RateIsBounded` | `RateBounded` |
| | `RetryAfterIsHonest` | `RetryHonest` |
| | `StoresOpenWhole` | `OpeningSound` |
| DelegationProofs | `TypeCorrect` | `DelegationTypeOK` |
| | `CircuitsStayConsistent` | `CircuitsConsistent` |
| | `FailoverNeverRepeats` | `NoRetryWithoutEscalation` |
| | `TripsAreInfra` | `OnlyInfraTrips` |
| | `FailOpenIsLastResort` | `FailOpenOnlyWhenAllOpen` |
| | `ReplayLeavesGemini` | `ReplaySelectsNonGoogle` |
| | `QuotaFailureLeavesSubscription` | `QuotaLeavesSubscription` |
| RouterProofs | `BreakevenPays` | |
| | `TypeCorrect` | `TypeOK` |
| | `WriteThrough` | `PinWriteThrough` |
| | `SoundDecisions` | `DecisionSound` |
| | `ForcesHonoured` | `ForceHonoured` |
| | `OnlyPayingSwitches` | `SwitchesPay` |
| | `PinsStay` | `PinMovesQualified` |
| | `PinsStayUnlessOvertaken` | |
| FleetRefreshProofs | `RoutingIsFresh` | `FreshRouting` |
| | `RebuildingSettles` | `RebuildsSettle` |
| TurnProofs | `TimeoutsAreReported` | `TimeoutReported` |
| | `SpeculationIsBounded` | `SpeculationBounded` |
| | `SessionsAreAccounted` | `SessionsAccounted` |
| | `RepliesAreAccepted` | `ReplayAccepted` |
| CalibrationProofs | `JudgesAreIndependent` | `IndependentJudges` |
| | `PacksStaySound` | `PacksSound` |
| | `HumanLabelsAreAnswered` | `HumanLabelsAnswered` |
| | `TierMovesAreExplained` | `TierMovesExplained` |
| | `CalibrationFindsTheRegression` | `CalibrationIsIsotonic` |

`FleetLemmas` holds what the selectors of `ModelFleet` return (members of the
fleet, none only where there is none); the gateway's and the router's proofs cite
it. The run `Shared` states `NoBackpressureDrop` of an instance of `SqliteStore`,
and `OnlyInfraTrips`, `QuotaLeavesSubscription`, `ReplaySelectsNonGoogle` and
`BreakerRespected` (which is `FailOpenOnlyWhenAllOpen` and `CircuitsConsistent`) of
instances of `Delegation`; their theorems are those of `SqliteStoreProofs` and
`DelegationProofs`.

### The arguments

**Store.** The invariant is `TypeOK`, a bounded buffer (`Bounded`), every pin
promise kept (`Honoured`: reading through the buffer yields what was last written
unless it was lost), balanced statistics (`Balanced`) and the newest row in buffer
or table (`Recent`). None is inductive alone: that a read sees the last write
needs the order of tickets in the buffer. The second invariant, `Orderly`, has
tickets rising in the buffer (`Rising`) and above every row on disk (`Ordered`),
what the buffer holds (`Holding`) and that nothing was dropped (`Undropped`). The
heart is a lemma on applying a batch with one op more, from which a flush is the
pin map that readers saw before it. The refinement has one case per action: a pin
call is a `Write`, after a `Sync` if it flushed, or a `Lose`; reads, ticks and
close are `Sync`, `Lose` or a stutter; `Restart` is `Lose`.

**Token bucket.** What a bucket gave is accounted against its capacity and what
the clock's forward moves refilled (`Accounted`), and an advised caller's wait
covers the tokens missing (`Promised`), as long as nobody else was admitted.

**Opening.** `OInv` says of every file which steps of its migrations its tables
show (`Sane`, `Exact`), that a file nobody shares moves one statement at a time
(`Alone`, `Plain`), that a rename holds the file it renamed (`Pinned`, `Swapped`),
and that a recovery follows a corrupt file, a torn or raced migration or a refusing
host (`RecoveryJustified`). `StoresOpenWhole` therefore does not say that a sound
database survives a crash or a race: the run `OpeningCrash` shows one that does
not. It was checked by TLC before it was proved.

**Delegation.** The invariant relates the gateway's circuits to their counters
(`ConsistentGateway`) and a turn's step to its lists of failed and too-small
models (`GoodTurn`); a pending target is recorded nowhere yet, which is why a
failover cannot repeat a model. The action properties follow from lemmas about
the selection: `Aimed` (what a failover returns is a candidate that was left
over) and `Spared`/`AllCooling` (it cools down only when all do).

**Router.** `IInv` relates pins to rows (`Pins`), a turn's fleet, decision and
stage (`Turns`), hosts (`Hosted`) and promise chains (`Queues`). Of the pin, a
pipeline runs one turn at a time (`OneRuns`), and a turn finds the pin as the
stage that read it left it (`Settled`) unless a turn of its session on another
pipeline moved it meanwhile. Which turns were overtaken so is a history variable
of the proofs, `overtaken`: `LeftAsIs(overtaken)` is inductive with any number of
rebuilds, and gives `PinsStayUnlessOvertaken`. With one pipeline at a time
(`InLine`) nobody is overtaken, which gives `PinsStay` without a history. The
invariant and the theorem were checked by TLC on two pipelines with rebuilds and
restarts (81,256 states) before they were proved; `PinMovesQualified` is violated
there, so the exception is needed.

**Fleet refresh.** A turn that passes on its fingerprint routes on a fleet and
prices that a rebuild took of that fingerprint (`Kept`, `Vouched`), provided the
last rebuild that wrote to the runtime ran to its end, alone, and saw one scope
(`clean`); behind any other rebuild the code routes on the old router, and neither
run nor theorem says otherwise. Between the computation of the fingerprint and the
comparison what was taken is still the runtime's unless a task wrote to it
(`Ready`, `Compared`). Catalog versions only grow (`Newer`); `Settling` counts the
rebuilds a lasting scope may still cause.

**Turns.** One invariant per part: `JudgmentInv` (which timer's interruption an
error can be), `LocalInv` (the window is the last outcomes, the guard their
rates), `CascadeInv` (where each open ONNX session is held) and `ReplayInv` (the
ledger names the signer of every signed block it has not forgotten).

**Labels.** `CampaignInv`: what a script computed, and so what any prefix of its
writes leaves on disk, is made of rows of the seed's partition whose votes were
cast by enough judges that agree and may sit (`VotesCast`, `Independent`);
`Unrepeated`: of each sample there is one. `HumanInv`: every row's feedback is
vouched for by an answer.

**Tier choice.** The choice is a function of the market, so `ChoiceInv` says just
that, and the theorem compares two markets. A cheap tier's expected cost is
`Own * cost + Frontier * frontier cost`, with weights that trust and alpha only
lower; the order by expected cost, then by the catalog, is total and transitive,
so one tier leads. What one tier has over another is kept when trust rises, when
the window drains (all subscription costs rise by one factor), when a pin
discounts one tier and when the frontier grows dearer. The proof found the case
of section 6, a frontier that was free.

**Isotonic fit.** Let S and W count successes and labels before a score. `FitInv`:
a block has the counts of its range and none of its beginnings has a lower rate
(`Measured`), blocks lie in order with no labels between them, rates rise up to
the last block but one, and no finished block's line is above the curve of counts
(`Shape`). A merge keeps this since the union's rate lies between those of its
parts; a push extends every line over one block of a higher rate. At the end all
lines lie below the curve, which is the max-min formula of isotonic regression.
TLC checked `FitInv` on five scores first. From blocks to answers: a block becomes
one knot or two of its rate, and none is merged with a knot of another block
(`Knotted`), so the knots tell every block's rate over its range (`Told`); holding
the ends and raising change nothing that is told, and the last knot at or below a
score lies in that score's block. Hence `applyIsotonicLookup` returns the block's
rate, which is the max-min of the labels. That S, W and the recursive functions of
knots exist is proved by a least counterexample, since the induction theorems of
the library are out of the provers' reach.

### Hypotheses of theorems

- `PinsStay`: the fleet is not rebuilt, or there is one pipeline (`OneLine`). A
  turn that ends late on an abandoned pipeline does overwrite a newer pin (section
  6); `PinsStayUnlessOvertaken` has no hypothesis and names those turns.
- `SpeculationIsBounded`: the minimum of attempts is within the window and the
  rate above zero; otherwise the guard is switched off.
- `PacksStaySound`: warm-start rows are distinct and none is a campaign sample:
  the code adds them without a check.
- `HumanLabelsAreAnswered`: no export claims a ship-eligible provenance without
  feedback.
- `QuotaFailureLeavesSubscription`: the models outside subscriptions are
  registered.
- `TierMovesAreExplained`: a warm prefix is not free (`SomeIsPaid`: discount times
  cache weight below 100 %). With both at 100 % a pinned frontier may tie with a
  free local tier.
- `OpeningAssumption`: there is a file name, and old releases are 0 to 9.

### Only model-checked

- `EverythingDrains`, `TurnEndsOrEscalates`, `RoutesEnd`, `JudgmentEnds`: liveness
  under fairness, which the prover does not reach.

Every invariant and every safety property that a passing run checks is proved.

## 5. Findings

1. **Hot-path promises may reject** (`StorePortContract`). `putSessionPin` wraps
   `enqueue`, which flushes when the buffer is full; a failing flush rejects the
   promise that the pinner discards with `void`. `store-port.ts:18` says such
   promises must not reject.
2. **Failures count twice** (`DelegationThreshold`). `recordDelegateOutcome`
   reports a failed attempt, the failover branch reports it again: a threshold of
   3 trips on the second failure.
3. **Unparsed errors count as successes** (`DelegationUnparsed`). A failed stream
   whose text carries neither status nor code is recorded with `undefined`, which
   `recordOutcome` takes for a success; it closes a half-open circuit.
4. **Failover and headroom escalation may alternate for ever** (`DelegationLoop`).
   Escalation does not look at `failedModelIds`.
5. **A judge's complete answer is not recorded** (`JudgmentAnswers`). Scores are
   expected levels such as 2.6, which a mapper that takes integers only turns into
   no answer (`answer-mapper.ts:106`, README line 572).
6. **A crash in a migration costs the database** (`OpeningCrash`). The statements
   of a migration and the stamp of its version are not one transaction. After a
   process ended between them, the next open repeats `ALTER TABLE ... ADD COLUMN`,
   fails, renames the sound file as corrupt and starts empty; `sqlite-store.ts:248-252` speaks
   of recovery from corrupt or locked files. Two processes that migrate one
   database at once lose it the same way.
7. **Pins break for more than the documented reasons** (`PinBreaks`). README line
   1181 and FR-008 list compaction, `/model`, loop escalation and cache economics.
   A stage that throws has its fallback recorded over the pin
   (`router-pipeline.ts:375`), though the comment at 777-780 speaks of an initial
   pin. The code also leaves a pin when the session was idle, when the pinned
   model is down, left out of the fleet or outgrown, for a flip-flop tier pin, and
   for a SAAR upgrade. `UnlistedMoves` names these; `PinMovesQualified`, which
   holds, admits them and no others.

## 6. Observations

Behaviour met while modelling, beside what the runs of section 5 show.

- *Circuit breaker.* README line 1194 says that 4xx errors do not trip the
  breaker, and `circuit-breaker.ts:5-7` lists timeouts, network failures and 5xx
  only; yet `isInfraError` (line 59) counts a 429, and the gateway spares only
  that of a subscription model and errors whose text means a spent quota.
  `circuit-breaker.test.ts` expects the trip, so code and tests agree against the
  text. `OnlyInfraTrips` and `TripsAreInfra` state what the code does: of the 4xx,
  only that 429 trips.
- *Delegation.* Quota and tier failover are keyed to the decision's model, not to
  the one delegated to: if the registry lacks the chosen model and a subscription
  safe default runs out of quota, the quota branch does not apply
  (`gateway-dispatch.ts:382-385`). Headroom escalation may return to a Google
  model after a thought-signature failover, which README line 1212 excludes;
  `ReplaySelectsNonGoogle` states the failover with that exception.
- *Router.* A late `Finalize` overwrites an existing pin as the error path does.
  An `/unpin` during a turn is undone by its `Finalize`. The envelope stage runs
  before context_fit, so a forced model loses to a tier pin and to compaction.
  Minimum attempts of 17 to 100 (`schemas.ts:770`) can never trip the prewarm
  guard, whose window is 16.
- *Fleet refresh.* If `resolveQuotaWindowFeedPosition` throws after the
  fingerprint was stored (`fleet-bootstrap.ts:313`), if two rebuilds overlap, or
  if one sees the scope change between fingerprint and discovery, later turns take
  a stale router for a fresh one. No document says otherwise; `FreshRouting`
  excepts these rebuilds by `clean`.
- *Tool history.* `prioritizeFleetForToolHistory` never reorders: the pipeline
  calls it without messages (`router-pipeline.ts:398-404`), so its test for Google
  history is always false. The model leaves it out.
- *Store opening.* Two processes that migrate one old database may end in
  different files; a version may regress; V5 drops `pins` under its final name. A
  token request above the bucket's capacity is denied with a finite retry-after.
- *Encoder cascade.* `embedding-provider.ts:438` says dispose closes every session
  that was loaded: a long-context session whose embed fails is dropped unclosed,
  and an embed in flight at dispose loads a session nobody closes.
  `SessionsAccounted` states these as its two exceptions.
- *Replay.* Virtual-identity messages count as Google's for the guard and as the
  last model's afterwards; a model with a Google API behind another provider name
  is neither guarded nor repaired; signed Google thinking with tool calls only in
  foreign messages does not exclude Gemini, though README line 1208 says so.
- *Tier choice.* A free zero tier counts as infinitely dear in the price delta and
  a missing economical tier as free; a pin's health is not checked; the same
  provider's pin is always kept. A frontier that was free and becomes dearer may
  attract the choice, since the risk of a cheap tier counts its price twice;
  `FrontierDearer` excludes that case.
- *Calibration.* A human "good" on a row with a failure signal trains as a failure
  while its provenance says human (`calibration-aggregate.ts:84-86`). Duplicates
  are dropped by the sorted name of the file, not by age. A human review of a held
  out session joins the isotonic fit, contrary to
  `adversarial-label-campaign.ts:18-19`. Packs of two seeds mix partitions after a
  re-seeded campaign or a kill between pack files, which is why `PacksSound` is
  stated per seed. The comment at `adversarial-label-campaign.ts:472` says that
  the same client id or the same provider/model never grades; recorded clients
  (764-812) declare no model, so in a recorded campaign only the generator itself
  is kept out, and a grader of its model judges it. A panel trusts `--generator`
  or a default table for the author's model and never consults the stored
  `provider_model` (`adjudicate-disagreements.ts:462`). `IndependentJudges` is
  stated of the models a program was told. No caller sets
  `maxGradersPerGeneration`, so all eligible graders vote. Two graders may share a
  model. Weights of P(success) are trained on held-out rows. Without
  `--verifier-grade-only`, rows of no provenance train as well;
  `HumanLabelsAnswered` is about the bundles that ship.
- *Elsewhere.* `adaptive-reasoning.ts:105-106` says an explicit choice is never
  raised by the floor, and it is.

## 7. What is not modelled

- **Matching, scoring, triage**: numeric models over embeddings and text. The
  pipeline steps that use them choose any outcome.
- **The replacement of the gateway in mid-turn**: `Delegation` covers one gateway
  and registry; the fleet's replacement under turns in flight is
  `RouterPipeline`'s.
- **The planning delegate's race** is one step: a late answer reaches nobody.
- Contents of events, notices, telemetry and prompts; adaptive reasoning; usage
  accounting; cache markers, which nothing reads.
- The throughput meter, heat affinity, the learned route store and the pattern
  pack: the extension does not wire them.
- Commands that print; configuration, schemas and the CLI.
- Scripts that read files, compute and write one result (evaluation, ingestion,
  weight training, verification).
- Torn writes, and two calibration CLIs at once.
- Assumed: only Google models send thought-signature errors; tool results follow
  their calls; the primary and the long-context encoder differ.

The mapped share of the source is about a sixth: schemas, CLI, scripts that
compute and print, and string handling are most of the rest.

## 8. Plan

What was planned for the proofs is done. To model next: the planning delegate
with its late answer, the degraded route, and `WorkloadHeat` once it is wired.
