# RateGuard in TLA+

RateGuard checks the rating of an insurance product before it is deployed. A
user creates an *assurance mission*; a worker runs a ten-stage pipeline over
it and records a release decision. One stage, the connector-backed *impact
scan*, prices a whole portfolio through an external engine in batches that are
distributed over Pub/Sub. This directory models two things of
`src/backend/app`: the protocols whose correctness depends on interleavings,
crashes, redelivery and timeouts, and the pipeline with the pure engines a
release decision rests on. TLC checks both; TLAPS proves their central facts.

Paths below are relative to `src/backend/app/` unless they start with `src/`.

## 1. Inventory

| component | state it keeps | operations | hard because | correct if |
|---|---|---|---|---|
| **Impact scan** (`impact/`) | job and batch records in Firestore; the coordinator's record of what it sent | plan, dispatch, lease, price, complete, cancel, halt, finalize | handlers outlive leases, messages are redelivered, two workers run one job, checkpoints change under a finalizer | every row counted once; the decision is right about the portfolio; one aggregate, never changed; a scan ends |
| **Mission lifecycle** (`services/mission_transitions.py`, `api/missions.py`, `services/mission_execution_service.py`, `storage/firestore_store.py`) | the run record; the worker process' fallback copy of it | create, cancel, retry, archive, delete; lease, stage marks, outcome, failure | every write but the lease is a read, a change and a write of the whole record; redelivery, outage, crash | no illegal transition; one execution at a time; a mission concludes; COMPLETED has a decision |
| **Supervisor** (`agents/supervisor.py`, `models/stages.py`) | stage ledger, probe results, budgets, decision | ten stages with cancellation checks, release decision | early exits, skipped and failed stages, any answers of a model and a connector feed one decision | PASS only on evidence without a gap, BLOCK only on a difference found; every stage accounted for; a cancellation stops the model; a mission ends |
| **Breaker and pacer** (`impact/resilience.py`) | failures in a row, opened-at, permanent code | allow, record_success, record_failure, acquire | concurrent chunks in one batch | fails fast while open, opens again at the first failure after the cooldown, a permanent failure stays |
| **Rate limiter** (`ratelimit/`) | one slot document per admitted request | hit, purge | concurrent slot creation, purge, contention budget | never more than `limit` in one window, fails closed |
| **Connectors** (`connectors/`) | none but budget and health cache | quote, batch quote, retry, health | retry after a timeout of a call that was served | budget bounds the calls; only transient failures are retried |
| **Rating engine** (`engines/oracle/`) | none | evaluate a package for a risk and a date | order of rules, modifiers, constraints and fees; rounding in between; what is in force on a date | equal to the tariff worked out by hand |
| **Review engines** (`engines/diff`, `impact`, `portfolio`, `reconciliation`) | none | compare packages, expose policies, align traces, find the cause | attributes nobody compares, bounds, everything downstream of a change diverges | a policy that is priced differently is exposed; the cause is what was changed |
| **Probe planning** (`engines/testing/`) | none | mine boundaries, mutate, score, fill the slots | duplicates and quotas | sound probes within the slots, and room for those aimed at findings |
| **IPIR** (`ipir/`) | none | validate, lower v0.2 to v0.1 | cycles, order of evaluation, conditionals that become rules | what was lowered is priced as the sheets say, or not at all |
| **Ingestion** (`ingestion/`, `services/ingestion_service.py`) | artifacts | upload, compile a Controlled Workbook | faults of a hundred cells, rejected or raised, in an order; examples that hold by accident | nothing faulty is accepted; VERIFIED agrees with every example |
| **Auth and tenancy** (`auth/`) | user directory cache | verify, scope | legacy records without a tenant | no cross-tenant read or write |
| **Evidence, remediation, scenarios, explanations** (`services/`, `explanations/`) | stored documents | derive from a finished record | record still running | refused until it is final |
| **Messaging** (`messaging/`) | none | publish | time-outs of a publish that got through | outcome mapped to ack or redelivery |
| **Configuration, logging, health** (`core/`, `api/health.py`) | environment | read at start | – | – |
| **Language-model agents** (`agents/gemini_client.py`) | call budget | structured generation | external; answers anything, or nothing | the budget holds; no answer makes a decision |
| **Demo engine** (`src/backend/rating_engine`) | none | quote, batch quote, vendor quote, self-test | a batch fails in part; one row goes through either of three endpoints | a row fares the same alone and in any batch; a version that passed its self-test prices as the workbook generated for it |
| **Deployment** (`src/infrastructure`) | cloud resources | deploy candidate, promote, roll back | one step of several failing | production routing unchanged by a candidate |
| **Frontend** (`src/frontend`) | UI | – | – | – |

How they interact: the API writes the run record and publishes one message;
the worker endpoint leases the record, runs the supervisor in the request and
answers with an HTTP status that acknowledges the message or asks for
redelivery; the supervisor reads the cancellation flag from the record between
stages and calls `ConnectorImpactRunner.run`, which plans or resumes a job,
publishes batch messages and polls the batch records, while other requests of
the worker service handle the batches. All components meet in Firestore and
Pub/Sub; there are no callbacks besides `cancellation_check` and `heartbeat`.
The engines are pure: a workbook is compiled to a package, two packages are
compared, a plan of probes is derived from them, both sides price the probes
and the portfolio, and the supervisor decides on what came of it.

## 2. Modules

| module | models |
|---|---|
| `ImpactVerdict` | what an impact scan promises: one justified verdict, never changed, the same for everyone (abstract) |
| `ImpactScan` | `impact/`: store, batch handlers, coordinators, aggregate; refines `ImpactVerdict` |
| `MCImpactScan` | portfolios, slices and symmetry for TLC |
| `ImpactScanProofs` | the inductive invariant of `ImpactScan` and seven theorems |
| `ImpactCheckpointProofs` | how checkpoints change under leases, cancellations and finalizers: the larger invariant `ScanIInv` and eight theorems |
| `MissionLifecycle` | the run record, its API handlers, the subscription and the workers |
| `MCMissionLifecycle` | symmetry for TLC |
| `MissionLifecycleProofs` | the inductive invariant of `MissionLifecycle` and five theorems |
| `LimiterContract` | what a rate limiter promises: `InMemoryRateLimiter`, one step per call (abstract) |
| `RateLimiter` | `FirestoreRateLimiter.hit` RPC by RPC, windows, purge, damaged documents; refines `LimiterContract` |
| `RateLimiterProofs` | its inductive invariant and four theorems, the refinement among them |
| `ConnectorClient` | how a call of the REST engine can end, and how its callers class an end |
| `BatchPricing` | the remote half of a batch: chunks, semaphore, breaker, attempts, budget, cancellation |
| `MCConnectorTraffic` | the limiter and the batch side by side |
| `BatchPricingProofs` | the inductive invariant of `BatchPricing` and four theorems; three more on the two side by side |
| `AssurancePipeline` | `run_mission`: stages, probes, ledger, budgets, cancellation, decision |
| `AssurancePipelineProofs` | its inductive invariant and six theorems |
| `RatingKernel` | `engines/oracle`: the premium of a package, a risk and a date, and its trace |
| `RatingService` | `rating_engine`: a quote, a batch, a vendor's envelope; a row's way there and back through the client and the chunks |
| `RatingServiceProofs` | a row fares the same alone and in any batch: two theorems |
| `PackageReview` | differences, exposed policies, root causes of two packages |
| `ProbePlan` | `generate_plan`: which policies are probed |
| `ProbePlanProofs` | a plan is sound for every package, and for every mission: two theorems |
| `WorkbookCompiler` | the Controlled Workbook: judged, made a package, lowered, tried on its examples |
| `MCWorkbooks` | example workbooks, and their prices worked out by hand |
| `MCAssurance` | packages, releases and missions; what the engines are worth |

`WorkbookCompiler` and `ProbePlan` extend `PackageReview`, which extends
`RatingKernel`; `RatingService` extends `RatingKernel` and `ConnectorClient`;
`MCAssurance` puts all of them under `AssurancePipeline`.

### ImpactScan

| variable | in the code |
|---|---|
| `truth` | what each row of the snapshot is (a rigid variable: the result of the local oracle and the answer of the target) |
| `batch` | `BatchRecord`; `live` stands for `lease_expires_at` in the future, `completed` for `completed_at` |
| `job` | `ImpactJob`: status, `cancel_requested`, `budget_exhausted`, `halt_reason`, `aggregate` |
| `inbox` | deliveries left of the messages of the subscription |
| `handlers` | `BatchProcessor.process` calls that acquired a lease, with the record they read |
| `coord` | locals of `ConnectorImpactCoordinator.run` and `finalize` |
| `cancelled` | what `cancellation_check` returns |

A Firestore transaction (`lease_batch`, `complete_batch`, `finalize_job`) is
one action. `lease_batch` and the local work before it are
`AcquireLease`/`RefuseLease`; pricing and `complete_batch` are `WriteResult`,
`ReleaseLease` (the `except` branch) or `LoseLease`. The polling loop is one
action per way out (`PollCancelled`, `PollSettled`, `PollHalted`,
`PollDeadline`) and `Dispatch`; the tail of `run` and `finalize` is split at
every store call (`CloseScan`, `ReadJob`, `ListAndAggregate`, `FinalizeJob`).
A poll lists the batches and then decides and sends; the model decides on the
current records instead. A dispatch decided on an older list can only be an
additional one, and additional messages are covered: a publish that times out
may have got through without being recorded, and the lease refuses what it
makes superfluous. A coordinator can leave the loop by `PollSettled`,
`PollHalted` or `PollDeadline` while `cancelled` is already set, because the
flag is read before the list and an unreadable flag counts as not set.

Time is abstract. A lease expires, a dispatch stalls and the mission budget
runs out at any moment; nothing depends on 240 s or 540 s.

### MissionLifecycle

`doc` is the run record (status, fresh heartbeat, cancellation flag, attempt
number, whether a decision is stored). `actor` holds the program counter of
every API request and worker and **the copy of the record it read**: that is
what it writes back. `inbox` counts the deliveries left of each message.
`mishaps` is history no action but the fault budget reads: it records a write
of an outdated copy (`LOST_UPDATE`), of a copy of a record that is gone
(`RECREATED`), a lease that lapsed under a running worker, a failure report
for a mission another worker is executing, and the faults that struck.

`apply_transition` is two actions: reading and validating
(`CancelRead`, `ArchiveRead`, `RetryRead`, `FinishRead`, `StopRead`,
`FailRead`), and `update_run`. `acquire_lease`, `update_run_for_tenant`,
`delete_run_for_tenant` and `touch_heartbeat` are atomic. The API's store is
lenient and swallows a failed write (`SaveOrSwallow`); the worker's is strict
and raises (`Raise`). A worker whose document is gone sees what its own
process wrote last (`mem`, the fallback store of `FirestoreRunStore`).

Abstractions: each request is served once; a fault of each kind
(`EXCEPTION`, `OUTAGE`, `CRASH`) strikes at most once per behaviour; the
pipeline is `Stages` stage marks with a cancellation check after each but the
first; only the impact scan refreshes the heartbeat, so `Heartbeat` is an
action without fairness. The creation writes twice: when its publish fails
(`PublishNewFails`), which a time-out of a publish that got through also does,
it puts its own record back as QUEUED (`RequeueWrite`), and a worker may have
leased the mission in between. Not modelled: the fallback copies of API processes
(stale reads of a lenient store during an outage), a failing create, the
in-memory deployment, in which records are shared by reference, and the
statuses `NEEDS_REVIEW` and `WAITING_RETRY` as targets, which no code sets.

### RateLimiter and LimiterContract

`doc` is the collection of slot documents, `hit` the local state of every call
of `hit()`, `window` the wall clock. The steps are the RPCs: the count query,
a create, the get after a create that found its slot taken, a purge. A create
can conflict (`Conflict`), fail after it took effect (`StorageFails`), and a
document can lose a field. `LimiterContract` is the limiter behind a lock:
one step charges a call and answers it, later if the reply is lost. A counter
of one tenant, user and operation is modelled; document ids keep counters
apart. The parsing of policies is left out.

### BatchPricing and ConnectorClient

One asyncio task per chunk; a step runs from one await to the next. `queue`
is the semaphore, `breaker` the `CircuitBreaker`, `poll` what the last look at
the cancel flag said. The clock shows in what it decides: whether the poll is
fresh, the cooldown over and the budget spent. `ConnectorClient` lists the
codes a call can end with and how `connectors/errors.py` and
`impact/resilience.py` class them: retried, an infrastructure failure, for
good for this row or for all rows. The pacer only delays and is left out.

What is no `ConnectorException` nobody in the batch catches: a store that fails
under the cancel poll, or a request that breaks in a way the client does not
name. `TaskRaises` is a task that ends so, in its poll, while it prepares its
request or during the call; the permit goes on, the breaker is not told.
`gather` raises at once (`impact/processor.py:359`): the other tasks are
cancelled where they are, and what was priced is lost, which is `Abort`. Until
then the others run on, since the event loop reaches the exception in its own
time. The handler's part is in `ImpactScan`: the `except` branch gives the
batch back (`ReleaseLease`), an attempt used up and no result stored.

### AssurancePipeline

One action per stage of `run_mission`; a stage that begins with
`_is_cancelled` is entered unchecked, and `CheckCancelled` is a step of its
own, so that a cancellation can fall between the check and the model call it
guards. `ledger` is the `StageRecorder`, `calls` and `round` the
`AgentBudget`, `executed` the experiments. The model (`Ask`) answers with any
ids that pass the caller's filter, or not at all; what its answers only word
is left out. The connector answers any probe and any scan in every way; its
premium can also be no number, which nothing catches and which ends the run
without a decision (`ConnectorRaises`). What
the engines yield on a mission is a constant of it, computed in `MCAssurance`
by the modules below, so that a PASS is about packages that are there.
`ai_runtime`, events and evidence records, issue groups, coverage metrics,
latencies and texts are left out.

### RatingKernel, PackageReview, ProbePlan

Pure operators. Every number is in thousandths: enough for the cent boundary
of rounding, and the packages are chosen so that products need no more.
Expressions and conditions are one level deep. `RatingKernel` follows
`evaluate_package` step by step with an accumulator of amounts, trace and
failure: inputs, constants, tables, rules in order, calculations in order of
generation, each with its modifiers, rounding, constraints and fees. What is
not in force counts as zero, one or absent as in the code. Left out:
transaction types, the two names of `claims_free`, coercions of types.
`PackageReview` keeps the comparator's blind spots: what one side lacks is
compared for inputs and rows only, an end of a period, a rounding or a rule
never. `ProbePlan` keeps the order in which probes are found, since it decides
who gets a slot; a list the code fills under a condition is a fold (`Unique`,
`Greedy`), a list it sorts is given by ranks (`Ranked`).

Read from this code and kept as it is: ids of duplicates requested by the
model are probed twice (`supervisor.py:1321`, `1377`), only
`CalculationDateError` is caught around a probe (`1293`; on the clean path
nothing is), all boundaries without a slot share one id, and interval probes
take the field of the last clause.

### RatingService

Pure operators too: the engine answers from its arguments alone, and the
injected faults are a set of quotes that fail. `Answer` and `VendorAnswer` are
the two endpoints for one quote, `BatchAnswer` the one for a batch, with the
order of checks of each. `RowAlone` and `RowTogether` follow a row there and
back: `_to_target_payload`, the handler, `_raise_for_status`, and for a batch
the capability, the chunk the row falls into and its item. What comes back is
a premium, a failure that is tried again, or one that is final. Item ids are
positions, the trace and the provenance of an answer are left out. So is the
byte limit of a batch request (512 KiB, `connectors/client.py:261`): a chunk has
at most 250 items of the handful of inputs a version declares and does not
come near it.

### WorkbookCompiler

A row of a sheet is judged OK, REJECTED (a check of the compiler) or RAISED (a
validator of a model, outside of `build_package`'s `try`): an inverted range, a
BOOLEAN with allowed values, a ROUND scale beyond 0 to 10, a LOOKUP of a
literal, a negative tolerance, an empty currency. The first row that is not OK
decides. `compile_workbook` says it never raises (`compiler.py:36`); its
callers in `api/sources.py` catch what it raises. `Package` is the validation
of `IPIRPackageV2`, `Lower` is `lower_to_v0_1`, `CasePasses` the run of an
example. A workbook never sets `depends_on`, so its rows are evaluated in
their order, and a conditional becomes a rule that is evaluated before them.
Archive and formula safety, the reading of cells and the patterns of ids are
left out.

## 3. Runs

| run | instance | result |
|---|---|---|
| `impact_scan` | 3 rows in 2 batches, 3 portfolios, 1 coordinator, 2 messages per batch delivered once, 2 attempts, 1 in flight, halt after 1 | 1.0 M states, holds, `ScanIInv` included |
| `impact_two_workers` | 1 batch of 2 rows, 2 coordinators, 2 messages delivered up to twice, 2 attempts | holds, `ScanIInv` included; refinement of `ImpactVerdict` |
| `impact_live` | 1 batch of 2 rows, 1 coordinator, 2 messages delivered up to twice, 3 attempts, `FairSpec` | 388 k states; `ScanEnds` holds, rows are counted once, only a stale handler takes a result back |
| `impact_fencing` | 1 batch of 2 rows, 3 deliveries of each message, 3 attempts | `FencedWrites` **violated** |
| `mission_lifecycle` | 3 requests, 2 workers, 2 messages delivered once, 2 attempts, 2 stages, all faults | 700 k states, holds, `IInv` included |
| `mission_faults` | 2 requests, 2 workers, 2 messages delivered up to twice, 2 attempts, 2 stages, exceptions, `FairSpec` | 878 k states, `MissionConcludes` holds |
| `mission_cancelled` | 2 requests, 1 worker, no faults | `CancelledIsFinal` **violated** |
| `mission_resumes` | 1 request, 1 worker, one crash, `FairSpec` | `CrashedMissionResumes` **violated** |
| `connector_traffic` | 3 calls, 2 slots, 3 windows, one damaged document; 3 chunks, 1 permit, 2 attempts, threshold 2 | holds, `TrafficIInv` included; 1.0 M states; refinement of `LimiterContract`; batches end, answered or aborted |
| `breaker_open` | 4 chunks, 1 permit, threshold 2 | `OpenFailsFast` **violated** |
| `assurance` | 28 missions: 23 pairs of packages, a lowered workbook among them, and variants with a connector, a flag, an invalid request, another mode | 1.0 M states, holds; missions end; a row fares the same alone and in a batch; the demo engine prices as its golden workbook |
| `empty_pass` | as `assurance` | `NoPassWithoutProbe` **violated** |

Why the bounds are enough. Two batches tell a batch from the job; the batch of
two rows lets one row fail while the other is retained; two attempts let a
result be built on another and be exhausted; two message identities per batch
let a stale and a current handler meet. Three attempts, the code's default,
with messages delivered twice (`impact_live`) are the least with which a
handler can outlive its lease, see a second attempt store a result, and write
over it under the lease of its own redelivery. A halt after one failed batch instead
of three reaches the halt in two batches. With one message delivered three
times and three attempts, three handlers of one identity overlap. Two
coordinators are what a redelivered mission and its slow first worker are. In
the lifecycle, three requests cover every race of two requests after the
creation; two workers and two messages cover a redelivery and a retry beside
an execution. `Excess`, the rows beyond the row budget, is 0 in all runs;
the proofs cover the other values. `CHECK_DEADLOCK FALSE` in the
runs of the lifecycle, the traffic and the pipeline: once all requests are
served and all messages gone, all chunks answered or the mission over, the
system is done.

`mission_faults` has neither a crash nor an outage among its faults:
`MissionConcludes` excuses both, so a behaviour with one of them cannot violate
it, and what they lead to is explored in `mission_lifecycle`.

In `connector_traffic` three calls for two slots leave one to be refused, the
third window lets a call outlive its window and a purge reach it; three chunks
of one permit make a queue in which one task waits while another fails or
raises, and a threshold of two opens the breaker between them. The two components share no
state, hence a behaviour is one of either.

In `assurance` each release changes one attribute of one package, because
that is what the engines must tell apart; ten of the releases are seen by the
comparator, the others are not. The portfolio has a policy on both sides of
every bound that moves. Bounds: `MaxScenarios` is 6 where the code has 15
slots, so that the quota and the cut of the boundaries happen; a connector is
probed twice (`ConnectorProbed`); the budgets are 5 calls, 2
rounds and 1 additional probe a round (6, 1 and 5 by default in the code, the
first two configurable), so that a mission can run out of each; an answer of
the model has at most 2 ids (`MaxAnswer`); and one cancellation check fails
(`MaxBlind`). The workbooks differ from one tariff in
a cell or a row each: every check of the compiler fires in one of them.

Symmetry is used only in runs without liveness properties, over identities
the specification does not tell apart.

### What the violations show

* `impact_fencing`. The lease owner is `push-<message id>`
  (`api/worker_endpoint.py:128`), and a redelivery has the id of the first
  delivery. A handler that outlived its lease passes the owner check under the
  lease of its own redelivery; the current handler is then refused. Rows are
  still counted once, because both start from the same retained results
  (`CheckpointsCountOnce` in `impact_live`), but the stated fencing does not hold.
* `mission_cancelled`. A direct cancel reads QUEUED, a worker leases the
  mission, the cancel writes CANCELLED, and the worker's provenance write
  (`services/mission_execution_service.py:171`) puts RUNNING back.
* `mission_resumes`. After a crash, a redelivery within 120 s of the last
  heartbeat finds the lease taken and is acknowledged
  (`services/mission_execution_service.py:128-140`): the mission stays
  RUNNING, and RUNNING cannot be retried.

* `breaker_open`. `send_chunk` asks the breaker before it waits for a permit
  (`impact/processor.py:298`), and gather starts all tasks first: every chunk
  is let through while the breaker is closed, and the queue is sent through an
  open one.
* `empty_pass`. An input that is required and declares neither bounds nor
  allowed values leaves no baseline to probe. Two equal packages of this kind
  take the clean path (`agents/supervisor.py:786`), which probes nothing and
  passes (`:882`), where `engines/testing/planner.py:30-32` expects callers to
  require review.

Met while modelling, without a run of its own: the validation of tables lets
two rows touch at a bound that one of them excludes (`ipir/tables.py:120-129`,
`src/backend/tests/ipir/v0_2/test_table_validation.py:87-88`), the lookup
includes every bound (`engines/oracle/table_lookup.py:25-33`), so the value
they touch at is ambiguous and is not priced; and every expected output of an
example is compared with the premium of the first output
(`ipir/v0_2/compat.py:248`). The workbooks `touching`, `excluded`, `mistaken`
and `honest` show these. The breaker's docstring promises that after the
cooldown "a single trial call is let through" (`impact/resilience.py:51-52`);
`allow` closes the breaker with that very call (`:77`), so every chunk that asks
before the trial fails is let through as well, as many at a time as there are
permits. `AfterAllow` is the code's version, in which the first failure opens
the breaker again; `BreakerCounts` only bounds the failures of a closed breaker.

Three more hazards are in the model, but no property covers them: a retryable
failure marks the mission FAILED, so that its redelivery is acknowledged
(`services/mission_execution_service.py:321`); a retry whose publish fails
leaves the mission QUEUED (`api/missions.py:984`); and the values at which the
lookup and the validation of tables disagree. `MissionConcludes` counts FAILED
as an end and excuses an outage, and no text of the repository says otherwise
of the first two; `VerifiedIsPriced` leaves out the last.

### Conditions in the properties

`PassIsRight` excepts two releases the comparator cannot see and the probes of
the plan do not hit: another rounding mode and another end of the period.
`ExposureCovers` excepts a discount whose period has a start on one side only
(the window of the predicate is then empty). `VerifiedIsPriced` leaves out
values at an excluded bound and outputs but the first, as said above.
`RatedByTariff` is about releases that keep the shape of the tariff.
`AloneOrTogether` excepts a version or a product that is not served while
faults are injected: the batch checks both before it looks for faults
(`src/backend/rating_engine/engines/quote_service.py:122-126`), a quote after.
It takes eleven quotes with the bounds of the tariff, dates, types and inputs
that are refused, faults in all, every third or none of them, both envelopes,
an engine that takes fewer, as many or more items than the client, and two
chunk sizes. `PricesAsCompiled` leaves out the transaction type and the
dwelling limit, which the engine refuses and the workbook does not look at.

`CancelledNeverPasses` is checked with one coordinator: with two, the flag can
be set between another's `get_job` and its `finalize_job`, and the aggregate
then says what was true when the job was read. `FencedWrites`,
`DecidedRowsStay` and `AggregateStaysTrue` are checked where no message is
delivered twice: then a lease owner names one handler. With redelivery and two
attempts the last two still hold (section 4). With redelivery and three
attempts they do not, and `OnlyStaleTakesBack` says what is left: a decided row
or a mismatch is taken back only by an older delivery of the very message that
holds the lease. The lifecycle's safety properties name the mishaps
that void them; that *only* these do is their content, and each is reachable.
A delete makes every copy that is held an old one (`CopiesFit`), so
`ChangesAreLegal` lets a mission that was deleted come back only from an
outdated copy or from what a worker's own process remembers; no request that
reads the record after the delete brings it back. `MissionConcludes` takes
FAILED for an end, and excuses a crash, an outage and a lost update.

`BatchEnds` says that a batch is all or nothing: either every chunk has an
answer to store, or all tasks are over and no result is left. It does not say
that a batch is answered, which an exception prevents.

### Fairness

`ImpactScan`: Pub/Sub delivers what is published; a handler finishes or dies;
leases expire and stalled dispatches are re-sent because clocks advance; a
dead worker's mission is redelivered (`Start`); a coordinator takes its next
step. There is no fairness for `PollDeadline`, `CancelMission` or crashes:
`ScanEnds` rests on the bound on attempts, not on the budget.
`MissionLifecycle`: requests and workers that did not crash go on, Pub/Sub
delivers what is not acknowledged, time passes. No user has to act, so
`MissionConcludes` allows no help by a retry or a cancel.
`BatchPricing`: the event loop runs every task that can run, the target answers
or times out, the store answers or raises, a backoff ends, and an exception
that was raised reaches `gather` (`Abort`); nothing is assumed of whether and
when a task raises, of the cooldown, the budget or a cancellation. `AssurancePipeline`: `run_mission`
goes on by itself, since every call it makes returns or raises; which answer
comes is not constrained, and `PipelineEnds` rests on the budgets.

## 4. Proofs

`ImpactScanProofs` assumes only `RowsAssumption` (finitely many rows, the
batches partition them, none is empty) and `BoundsAssumption` (bounds are
positive naturals, `Truths` are assignments to rows, `None` is no message).
Everything holds for any number of coordinators, batches, messages, attempts
and redeliveries.

The inductive invariant is

    IInv == TypeOK /\ ResultsSound /\ AggregatesSound /\ OneAnswer

`CheckpointsCountOnce` alone is not inductive: a handler writes a result built
on the record it read when it acquired the lease, which may not be the record
it overwrites. `ResultsSound` therefore says of the running handlers' copies
what it says of the checkpoints, and adds that a result tells the truth about
the rows, which is what the decision needs. `DecisionSound` speaks of the
stored aggregate; `AggregatesSound` adds the draft of a coordinator between
`list_batches` and `finalize_job`, which other steps must not invalidate: they
do not, since `truth` is rigid. The core lemma is `ExecuteSound`: pricing the
unresolved rows and merging them with the retained results counts every row of
the batch once. It needs `PricedAs` only as far as an outcome MATCH, AFFECTED
or OUT_OF_SCOPE is the row's truth.

The argument does not use the lease: results stay sound even if writers are
not fenced, which is why the fencing violation does no harm to the totals.

| theorem | states |
|---|---|
| `Invariant` | `Spec => []IInv` |
| `TypeCorrect` | `Spec => []TypeOK` |
| `CountOnce` | `Spec => []CheckpointsCountOnce` |
| `SoundDecision` | `Spec => []DecisionSound` |
| `EveryoneAgrees` | `Spec => []OneAnswer` |
| `FirstWriterWins` | `Spec => FinalizedOnce` |
| `Refinement` | `Spec => ImplementsVerdict` |

What a checkpoint may not take back needs more. `ImpactCheckpointProofs` has

    ScanIInv == IInv /\ LeaseFits /\ ResultsCreated /\ AggregatesStand /\ CancelSeen
    LeaseFits == AttemptFits /\ OwnerFits /\ FirstIsGone

`LeaseFits` is the fencing as far as the code has it. `AttemptFits` holds
however often messages are delivered: a lease counts an attempt, so an attempt
names one handler, and the handler of the current attempt builds on the very
record the store holds. It would be the fencing token, but the owner check
compares message ids. `OwnerFits` is what that check is worth when a message is
delivered once: who passes it is the handler of the current attempt.
`FirstIsGone` is about redelivery with two attempts: a handler of a batch that
has a result is there only because the second attempt was granted, and under
its lease it is the second itself, the first having written the result. In both
cases (`NoneLate`) a write grows the checkpoint (`BatchesGrow`): no decided row
is undone and no mismatch is taken back. Otherwise a write that does not grow
it is one of a handler with the lease's owner and an older attempt, which is
`StaleAtMost`. The conditions are part of the invariant and not of the
specification, so what does not need them is proved without them.
`AggregatesStand` speaks of the stored aggregate and of every draft: it adds
up, and a COMPLETE one is what the checkpoints say, for a batch that is done is
done under every interleaving. A draft with mismatches keeps them only while
checkpoints grow. `ResultsCreated` is what makes an aggregate add up over
batches that were never created. `CancelSeen` is about a coordinator between
`get_job` and `finalize_job`: if it is alone it has seen the flag, because
`cancel_requested` is set by itself or before its read.

| theorem | states | for |
|---|---|---|
| `ScanInvariant` | `Spec => []ScanIInv` | all |
| `TotalsAddUp` | `Spec => []AggregateAddsUp` | all |
| `CompleteIsFinal` | a stored COMPLETE aggregate stays what the checkpoints say | all |
| `AggregatesStayTrue` | `Spec => []AggregateStaysTrue` | `MaxDeliveries = 1` or `MaxAttempts <= 2` |
| `Fencing` | `Spec => FencedWrites` | `MaxDeliveries = 1` or `MaxAttempts = 1` |
| `DecidedStays` | `Spec => DecidedRowsStay` | `MaxDeliveries = 1` or `MaxAttempts <= 2` |
| `StaleAtMost` | `Spec => OnlyStaleTakesBack` | all |
| `NoPassOnceCancelled` | `Spec => CancelledNeverPasses` | one coordinator |

The hypotheses name what the deployment must provide: its default is three
attempts, so `DecidedStays` and `AggregatesStayTrue` apply to it as long as
Pub/Sub does not deliver twice, and `StaleAtMost` always. `impact_fencing`
refutes `FencedWrites` without its hypothesis. A message delivered once still
leaves crashes, leases that expire under a slow handler, dispatches
of a batch again and the handlers of one batch beside each other.

### MissionLifecycle

`MissionLifecycleProofs` assumes `LifecycleAssumption` alone: bounds are
positive naturals, requests are not workers, `None` is no message. The
inductive invariant is

    IInv == LeaseIInv /\ DecisionKept
    LeaseIInv == TypeOK /\ StatusesTaken /\ CopiesFit /\ RetriesLeft /\ LeaseHeld

Every write of the code puts a whole copy back, so what a write does is decided
when the copy was read. `CopiesFit` is the link: as long as nobody overtook a
copy (`~old`), its status is the record's or one legal change away from it.
`ChangesAreLegal` follows from it step by step: a change leaves the graph only
if its author's copy was old, and a record that is gone comes back only so or
by a worker. `LeaseHeld` is what makes `ExclusiveExecution`
inductive. While nothing in `Undisturbed` happened, a RUNNING record has a
fresh heartbeat and so do the copies written over it, hence `acquire_lease`
refuses; and the mission a worker executes is RUNNING, CANCELLED, ARCHIVED or
GONE, hence no request makes it leasable again. The last part needs
`StatusesTaken` (no code sets WAITING_RETRY, from which a running mission
could be leased) and the statuses handlers write (`Requested`): a retry, which
writes QUEUED, is not legal from any of the four.

The proof goes actor by actor: `SoundFor(p)` is the invariant as far as it is
about `p`, and `Frame` shows that a step of `p` keeps it for everybody else,
whose copies become old when the status changes. What remains is `SoundFor`
of the one who steps, which `CopyStep`, `SavedCopy`, `MoveStep` and
`LastWrite` provide for the four things an actor does.

`DecisionKept` is what `CompletedIsDecided` takes. Status and decision are two
writes, and any other actor may write its whole copy between them. As long as
no update was lost and no worker broke off (`Intact`), a completed record has
its decision or a worker about to write it, every current copy that says
COMPLETED carries what the record has, and what a worker remembers as
completed still is; an old copy cannot be written without a lost update, which
ends `Intact`. It needs `LeaseIInv` for the statuses a copy can go back to.

| theorem | states |
|---|---|
| `LifecycleInvariant` | `Spec => []IInv` |
| `LifecycleTypes` | `Spec => []TypeOK` |
| `Exclusive` | `Spec => []ExclusiveExecution` |
| `LegalTransitions` | `Spec => ChangesAreLegal` |
| `DecisionsArrive` | `Spec => []CompletedIsDecided` |

### RateLimiter

`RateLimiterProofs` assumes `LimiterAssumption`: finitely many calls, at least
one slot and one probe. The inductive invariant is

    LimiterIInv == LimiterTypes /\ ChargedOnce /\ NoHoles /\ Ahead

`NeverOverAdmits` counts calls; `ChargedOnce` gives each admitted call a slot
of its own, and there are `Limit` slots. `RefusedOnlyWhenFull` needs that
slots are taken from below without holes (`NoHoles`) and that all slots below
the one a call tries are taken (`Ahead`). A purge breaks both, which is
why they speak of windows that can still have calls in flight. The refinement
maps the number of documents of a window to the contract's counter: a create
is the step at which a call takes effect.

| theorem | states |
|---|---|
| `LimiterInvariant` | `LimiterSpec => []LimiterIInv` |
| `LimitHolds` | `LimiterSpec => []NeverOverAdmits` |
| `RefusalsAreHonest` | `LimiterSpec => []RefusedOnlyWhenFull` |
| `LimiterRefinesContract` | `LimiterSpec => ImplementsContract` |

### BatchPricing, and the traffic

`BatchPricingProofs` assumes what `BatchPricing` does of its constants: any
number of chunks, at least one permit and one attempt, and a threshold of two
failures or more. The inductive invariant is

    PricingIInv == PricingTypes /\ AttemptsLeft /\ PermitsAccountedFor /\ BreakerCounts

`PermitsAccountedFor` counts the tasks that send, compares the queue with the
tasks that wait, and says that nobody queues twice. A task can end in a dozen
ways, and each hands the permit on in the same step: `HandOnStep` shows that
the number of tasks that send stays what it is and that the queue without its
head is again exactly who waits, `ReleaseStep` that nobody waits when a permit
falls free. For this the queue has to be free of repetitions, which the
invariant therefore states. `AllowCounts`, `SuccessCounts` and `FailureCounts`
do the same for the three calls of the breaker, those of stragglers included.
`AttemptsLeft` is needed for the types: a task that backs off may try again. A
task that raises hands its permit on like any other (`TaskRaisesKeeps`), and an
abort leaves nobody to send or to wait (`AbortKeeps`).

The last part of `BatchPricingProofs` takes the composition apart: the side
that does not run leaves the other's variables alone, so each behaviour of the two satisfies
both specifications, and the theorems about the one hold beside the other.
Fairness plays no part in them.

| theorem | states |
|---|---|
| `PricingInvariant` | `PricingSpec => []PricingIInv` |
| `PermitsHold` | `PricingSpec => []PermitsAccountedFor` |
| `BreakerHolds` | `PricingSpec => []BreakerCounts` |
| `TripIsFinal` | `PricingSpec => TrippedForGood` |
| `TrafficInvariant` | `Spec => []TrafficIInv` |
| `TrafficGuarded` | the four invariants of the two components under the common `Spec` |
| `TrafficSteps` | `Spec => ImplementsContract /\ TrippedForGood` |

### AssurancePipeline

`AssurancePipelineProofs` assumes `PipelineAssumption`: what a mission record
is, and that a connector has no semantic differences. It holds for any
missions, plans, budgets, answers and cancellations. The inductive invariant
is

    PipelineIInv == mission \in Missions /\ TypeOK /\ Undecided /\ Path /\ Progress
                    /\ Claims /\ Closed /\ Allowance /\ PassIsEarned /\ BlockIsProven

`PassIsEarned` is about the end and `Path` about how one gets there: a mission
on the clean path has no findings and no inconclusive probe, one past the scan
of a connector's portfolio has scanned it or knows that it did not.
`Progress` says which outcomes the ledger has at each stage; with it the
clause of the code that blocks on a missing outcome never applies, which
`BlockIsProven` needs. `Claims` is `LedgerTruthful` at every moment, and
`Allowance` is `CancelStopsModel` with the check that may be behind a mission.
The proof has one lemma per part, which goes through the actions.

| theorem | states |
|---|---|
| `PipelineInvariant` | `Spec => []PipelineIInv` |
| `PipelineTypes` | `Spec => []TypeOK` |
| `PassEarned` | `Spec => []PassIsEarned` |
| `BlockProven` | `Spec => []BlockIsProven` |
| `LedgerIsTruthful` | `Spec => []LedgerTruthful` |
| `CancelStops` | `Spec => []CancelStopsModel` |

### RatingService

`RatingServiceProofs` needs no assumption and no invariant: the engine keeps
nothing. `NeighboursDoNotMatter` holds for every sequence of rows of one
version and product, every set of quotes that fail, both envelopes, every
`BATCH_MAX_ITEMS` of the two sides and every chunk size; its one hypothesis is
the exception named above, a version or product not served while faults are
injected. `RowInChunk` is the arithmetic of the chunks: row `i` is item
`(i - 1) % size + 1` of its chunk, which is neither empty nor larger than the
limit. `ItemFares` compares the outcomes of an item with the status codes of a
quote, `RefusalFares` what befalls a whole batch with what befalls its rows.

| theorem | states |
|---|---|
| `NeighboursDoNotMatter` | `RowAlone = RowTogether` for any portfolio and limits |
| `RowsFareAlike` | `Spec => []AloneOrTogether` |

### ProbePlan

`ProbePlanProofs` proves `PlanIsSound` for every package and not only for those
of `MCAssurance`: the plan keeps to its slots, prices no policy twice, adds
nothing around the package that the package cannot price, and boundaries never
take every slot from the mutations, the probes aimed at findings.

`GeneratePlan` is made of folds, which the community modules define as
recursive functions over sets of indices, and a theorem about them is an
induction. It is done once, with sets in the place of predicates: `Counting`
is induction over the naturals for a set of numbers, `Recursion` shows that
the recursive function a fold chooses exists, and `Stays` that what holds
before a fold and is kept by each of its steps holds after it. `UniqueStays`
and `TakeStays` instantiate it for the two steps the planner has: keep what is
new (`UniqueAdds`), take what pays while there is room (`Chosen`). `EveryPlace`
is what the ranks need: among n things under a strict order there is one at
every place, hence a ranked list has all of them, once.

On these rests one lemma per part of the planner: controls and boundaries are
priced by the package and repeat nothing (`ControlsOf`, `BoundsOf`); every
mutation is aimed at something (the `Aimed` lemmas), and those that are fresh
differ from all that came before (`FreshOf`); the quota of mutations is one at
least where there are any and a slot is left, and fits in the slots
(`QuotaFits`, `AllottedOf`).

`PlansAreSound` assumes that the package has finitely many values to try, that
the findings are finite, the examples a list, and the number of slots a
natural. `PlanSafe` is about the missions and rests on `ReviewsAssumption`:
their packages and findings are of that kind and the core of a plan leaves a
slot. TLC evaluates it in the run `assurance`.

| theorem | states |
|---|---|
| `PlansAreSound` | `PlanSound` of the plan of any package, findings, examples and slots |
| `PlanSafe` | `Spec => []PlanIsSound` |

### Only model-checked

`ScanEnds`, `MissionConcludes`, `BatchEnds` and `PipelineEnds`: liveness under
fairness is out of the proof system's reach. `RatedByTariff`, `PassIsRight`,
`ExposureCovers`, `CauseIsTheChange`, `VerifiedIsPriced` and `PricesAsCompiled`
compare what the evaluator's folds compute with reference definitions (a
tariff, the component that was changed, prices worked out by hand) that belong
to the packages, portfolios and workbooks of `MCAssurance` and `MCWorkbooks`:
TLC evaluates them on all of those. In general form they would be inductions
over lists of steps and clauses, through operators given as parameters and
sorted and selected sequences that the provers do not see into. Every other property of a
passing run is stated by a theorem.

## 5. Plan

Done in this order: `ImpactVerdict`, `ImpactScan` and its proofs,
`MissionLifecycle` and its proofs, `RateLimiter` with its contract and proofs,
`BatchPricing` and its proofs, `AssurancePipeline` and its proofs,
`RatingKernel`, `PackageReview`, `ProbePlan`, `WorkbookCompiler`,
`RatingService` and its proofs, the weaker hypotheses of the proofs about
checkpoints, the proofs about `ProbePlan`. What would come next:

1. Facts about `RatingKernel` that take no induction: how far `Round` moves an
   amount in each mode, and that a lookup has one answer or none.
2. An abstract specification of a batch's pricing, which `BatchPricing`
   implements: each row is answered once, and no more attempts are made than
   the budget has.
3. The artifact store of `services/ingestion_service.py`: an upload of which
   only a part was stored.

### Not modelled

* Deletion seen by the API processes' fallback copies, and the in-memory
  store: records shared by reference in one process.
* Money and bucket arithmetic of the aggregate; amounts of exposure; cohorts
  and pipeline analytics; issue groups and coverage metrics. They are computed
  from results whose correctness is modelled, and nothing is decided on them
  but that an exposure is not zero.
* `ai_runtime` (LIVE, FALLBACK or NOT_INVOKED): it is reported, never read.
* Transaction types, aliases of inputs, type coercions, deep expressions and
  products of more than three decimals in the rating engine.
* Archive safety, XML and formula scanning, the reading of cells, id patterns,
  the other source formats: parsing, without a protocol.
* `portfolio` repositories and their SQL translation (the pipeline does not
  use `query_impacted_policies`), `check_compatibility`, which nothing calls.
* Authentication, tenancy, configuration, the language model itself, the
  frontend and the shell scripts: no protocol state of the running system.
