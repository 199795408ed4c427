# Verification of IcingaAlertingForge

TLA+ specifications, TLC runs and TLAPS proofs for the webhook bridge that
turns Grafana, Alertmanager and "universal" alerts into passive check results
of Icinga2.

## The system

One Go process. `main.go` wires the parts together; everything below shares
its memory.

| Part | Source | What it does | Module |
|---|---|---|---|
| Webhook alerts | `handler/work_mode.go`, `test_mode.go` | one goroutine per alert: create the service if needed, send the check result, queue it for retry on failure | `AlertPipeline` |
| Service cache | `cache/services.go` | state per service (pending, ready), a TTL, freezes | `ServiceCache` |
| Icinga2 client | `icinga/api.go` | create, delete, list, query, send a result; refuses services it does not manage | `AlertPipeline` |
| Icinga2 limiter | `icinga/ratelimiter.go` | slots for mutating and status calls, a cap on status updates inside | `RateLimiter` |
| Retry queue | `queue/queue.go` | buffers failed results, backs off, persists, restores | `RetryQueue` |
| Admin operations on services | `handler/admin.go` | delete, bulk delete, manual status, freeze | `AlertPipeline` |
| Resync and pruner | `main.go` 715-925 | reload the cache from Icinga2, delete idle services | `AlertPipeline` |
| Webhook requests | `handler/webhook.go`, `targets.go`, `auth/apikey.go`, `metrics/`, `audit/` | authenticate, route, parse, run ten alerts at a time, count, answer 200 or 502 | `WebhookRequest` |
| Alert formats | `models/` | recognise and convert three payload formats | `WebhookRequest` |
| Ingress limiter | `ratelimit/limiter.go` | token bucket per source IP | `IngressLimiter` |
| History | `history/logger.go`, `handler.go` | JSONL file with rotation, queries | `HistoryLog`, `HistoryQuery` |
| Debug ring, event stream | `icinga/debug.go`, `handler/sse.go` | recent API traffic; best-effort fan-out to browsers | `EventStream`, `RingBuffer` |
| Health checker | `health/checker.go` | probes Icinga2, reports itself as a service | `HealthChecker` |
| Config store, settings | `configstore/store.go`, `handler/settings.go`, `main.go` 543-593 | encrypted config file, edits, live reload, saved users | `ConfigStore` |
| Environment | `config/config.go` | targets, routes and options from variables | `EnvConfig` |
| Users, sessions, login | `rbac/rbac.go`, `auth/session.go`, `handler/login.go`, `session_mw.go`, `admin.go` | authentication, permissions, sessions with expiry | `Accounts` |
| Target hosts | `main.go`, `icinga/api.go` | look up and create the hosts of the targets at startup and reload | `TargetHosts` |
| Dashboard, status pages | `handler/dashboard.go`, `status.go` | rendering | not modelled: presentation only |

An alert's handler reads and writes the cache, takes slots of the limiter and
calls Icinga2; what it cannot send it gives to the retry queue; the queue, the
pruner, the resync and the admin operations work on the same services at the
same time. `AlertPipeline` composes these parts: it extends `ServiceCache`, uses
the limiter as `RateLimiter` describes its clients (a refinement, checked and
proved), and reduces the retry queue to a set of results that are sent again
(`RetryQueue` has its details).

The other parts share no variable with it or with each other. Where one of them
takes a result from another, the result is a free choice: `WebhookRequest` lets
each alert end either way (`AlertPipeline` says how) and each request be refused
or not (`IngressLimiter` says when), `Accounts` leaves what is saved of the users
to `ConfigStore`, and `ConfigStore` leaves what happens to requests during a
reload to `WebhookRequest` and the hosts to `TargetHosts`.

## Modules

### RetryQueue

| In the model | In `queue/queue.go` |
|---|---|
| `items`, `disk` | `q.items`; what `loadFromDisk` would restore from the file |
| `Enqueue`, `EnqueuePanic` | `Enqueue`; its panic on `q.items[0]` when `MaxSize` is 0 |
| `ProcessReady`, `Flush` | the snapshot at the start of `processReady` and of `Flush` |
| `SendOK`, `SendFail` | one send of a pass, outside the lock, with `incrementAttempt` |
| `RemoveByIDs`, `SaveAfterPass` | the end of a pass; only the processor saves |
| `Drain`, `Exit`, `Crash`, `Restart` | shutdown, end of the process, a kill, `New` and `loadFromDisk` |
| `Tick` | time: every positive wait shrinks by one |

`q.mu` makes each of these atomic. A send that fails may have been applied by
Icinga2. `saveToDisk` uses `os.WriteFile`, which truncates first: with
`WriteFaults` a stop while saving leaves a file that restores nothing. The
conversion of an overflowing delay is the one thing that depends on the build:
`Saturates` is arm64, its negation amd64. Ids are numbered in the order in which
`Enqueue` accepts them, which is the order of the slice.

### RateLimiter

`queued` is guarded by `rl.mu` and the semaphores are channels, so
`AcquireStatus` and `ReleaseStatus` are two steps each and others run in
between. `st` and `mt` say where each client is. A client may hold a status slot
while it waits for a mutate slot, as `ensureServiceExists` does; nobody does the
reverse.

### ServiceCache

The map of entries and the map of freezes, one operator per method. Time is
reduced to what readers see: an entry may expire (`Expire`) and a freeze with an
end may end (`Thaw`) at any moment.

### AlertPipeline

Each job is a goroutine that runs one handler once; `Kind` says which. `pc` is
cut at each lock of the cache, each slot of the limiter and each call of the
API, since others may run there.

| Labels | Code |
|---|---|
| `start`, `counted` | status switch and `AcquireStatus` |
| `check`, `poll`, `recheck`, `repoll` | `needsCreate` before and after the wait for a mutate slot |
| `mutate` | `AcquireMutate` |
| `pend` | `SetPending` |
| `query`, `call` | the GET and the PUT or DELETE of `CreateService` and `DeleteService` |
| `settle`, `forget` | the cache update after the call, and the release of the slot |
| `freeze`, `send`, `enqueue` | `IsFrozen`, `SendCheckResult`, `RetryQueue.Enqueue` |
| `release`, `leave` | `ReleaseStatus` |
| `each` | the loop over the answer of `ListServices` (resync, pruner) |

Icinga2 is external: an object is absent, ours or foreign, has a last result and
may be idle. With `Unreliable` each call may fail, having taken effect or not.
With `Deadlines` each bounded wait may time out. Operators may delete services
in Icinga2 (`OperatorDeletes`) and freeze them (`Freezes`). `fate`, `gaveUp`,
`missed` and `deleted` are history variables for the properties.

The server starts after the startup scan, so `Init` has the cache either filled
with our services or empty (the scan failed).

### WebhookRequest

A request walks through the stages of `HandleWebhook`, each an action:
`Arrive` (ingress limit), `ValidateKey`, `FindTarget`, `Parse`, `Spawn` and
`Finish` (goroutines behind the semaphore), `RecordMetrics`, `PerKeyLookup` and
`PerKeyCreate` (the counters of a source, read and then created under another
lock), `Answer`. `ReloadKeys` and `ReloadTargets` are the two assignments of
`OnReload` that requests can fall between. `DetectFormat`, `UniversalToGrafana`,
`LabelledAlert` and `ParseWebhookPayload` are the conversions of `models/`, on
members that are empty or not.

### HistoryLog, HistoryQuery, RingBuffer

A file is a sequence of numbered lines, `Malformed` where a torn write glued two.
`AppendEntry`, `AppendFails`, `Clear`, `Maintenance` and `UpdateConfig` are the
methods; rotation, which runs with the lock held, is cut into `CheckSkips` or
`CheckCounts`, `Copy` (to the temporary file) and `Rename`, because each step may
fail (`RotationFails`) and the process may die between them (`LoggerDies`,
`NewLogger`). `Query` and `Stats` are operators over the lines; `RingBuffer` is the
idiom they share with the debug ring.

### EventStream

Publishers push into the ring (`PushDebug`) or publish an alert (`AlertEvent`), and
then loop over the clients' channels (`StartPublish`, `Send`, `EndPublish`) under the
read lock. `Subscribe` and `Unsubscribe` take the write lock as Go's `RWMutex`
grants it: a waiting writer keeps new readers out. A send to a full channel
loses the event.

### HealthChecker

The goroutine as a loop cut at each API call: `StartChecker`, `Probe`,
`RetryRegister`, `Report`, `NextCheck`, and at shutdown `StopChecker` and `Farewell`
(the final UNKNOWN). Icinga2 goes down, comes up and loses the service.

### ConfigStore, EnvConfig

`EnvConfig` has what `config.Load` makes of the variables: targets, routes, the
variables of earlier releases, the errors that stop the program. `ConfigStore`
starts from the file or migrates the environment (`StartFromFile`,
`StartFromEnv`, `StartFails`) and cuts each settings request where others run:
`Edit` (Get and change of the copy), `Update`, `Snapshot`, `RenameConfig` or
`SaveFails`, `Convert`, `ReloadFront`, `ReloadBack`, `Acknowledge`. A change of users
goes `ChangeAccount`, `PersistableUsers`, `SetUsers` and then saves. `StoreCrash`
may come anywhere. Encryption is the identity on what it protects.

### Accounts

A request carries Basic credentials or a cookie (`ArriveBasic`, `ArriveCookie`),
looks the user up, compares, upgrades an old hash (`Look`, `Compare`,
`UpgradeLegacy`, each under a lock of its own), is checked for its permission
(`Permit`) and acts (`ActAdd`, `ActRemove`, `ActOther`, a login included). Sessions
expire with the clock.

### IngressLimiter

`Allow` refills, takes a token or refuses; `EvictIdle` is the cleanup loop. Tokens are
counted in units of `1/One`, so that floating point is exact. `OpenWindow` picks
the instant from which admitted requests are counted.

### TargetHosts

One goroutine per target: `LookUp`, `ConflictCheck`, `PutHost`; the first error ends
startup and is only logged on reload. Operators create and remove hosts
meanwhile. Passes that overlap because two reloads overlap are modelled one
after the other.

## What TLC checks

| Run | Instance | Shows |
|---|---|---|
| `queue_restarts` | two alerts, the processor, one Flush, two stops, limits 0 to 2 | `LeavesWhenSettled`, `NoResend`: a pass never removes or repeats what it should not; `RetriesBackOff`; `SavedAlertsSurvive` and `CleanShutdownLosesNothing` across restarts with any limits |
| `queue_live` | limits 0 and 1, torn writes, amd64 backoff, one stop, fairness | `Conservation` and `DepthBound` under all faults; `EventuallySettled` |
| `limiter_limits` | three clients, capacities 1 and 1, queue 2, fairness | `Accounting`, `Limits`: every path takes back what it took; `WaitersAreServed` |
| `pipeline_create` | two alerts and a test-mode create for one service, timeouts, failing calls, operators deleting it | `PendingHasCreator`, `MissesExplained`, `AlertsAccounted`, and `LimiterUsage` (refinement of `RateLimiter`) |
| `pipeline_upkeep` | two valid alerts and an invalid one, a prune pass, an operator who deletes, sets a status and bulk deletes in turn; one service to create, one foreign | `ReadyIsReal`, `ForeignKept`, `SlotsAccounted` |
| `pipeline_live` | two alerts and a resync, one mutate slot, freezes, no deadline | `EveryRequestAnswered` |
| `datapath`, history | two files, limits 0 and 1, three appends, one fault | `CountExact`, `OvershootBounded`, `NewestLinesKept`: failing and interrupted rotations neither lose newer lines nor mislead the count; `LimitApplied` |
| `datapath`, stream | two publishers, two browsers, one client at a time, channels of one event | `NoSendOnClosed`, `StreamIsFresh`, `NobodyBlocks` |
| `datapath`, webhook | two requests of up to three alerts with two slots, two keys of one source, one reload | `AnswerTruthful`, `CountsAgree`, `RoutedByOneConfig`, `EveryWebhookAnswered` |
| `datapath`, health | limit of three failures, four outages, failing calls or lost services | `ReportMatchesProbes`, `ServiceRestored` |
| `control`, config | four environments, eleven edits, three of them in turn or two overlapping, failing saves, one crash | `AckedIsStored`, `RunningMatchesStored`, `PruneOnlyIfAsked`, `MaskedCopyIsHarmless` |
| `control`, accounts | three requests of a primary admin and a user with an old hash, one session | `ServedWasEntitled`, `AccountsAsAdministered` |
| `control`, ingress | two addresses, a bucket of little more than one token | `AdmittedBounded` |
| `control`, hosts | three targets on two hosts, startup and one reload, one disturbance | `PreparationExplained` |

`datapath` and `control` each hold four parts that share no variable. `focus`,
chosen in the initial state, says which one moves; the others rest in one
initial state each. No behaviour is lost by this, since no step of one part
depends on another, and the state space is the sum of the parts instead of
their product.

Before the behaviours TLC evaluates the assumptions of the two modules, which
compare the pure operators with reference definitions on all small inputs: rings
and queries show the newest entries first (`RingShowsNewest`, `QueriesShowNewest`),
the payload formats lead to the same alerts (`FormatsLeadToSameAlerts`), a key
leads to the target that lists it (`KeysAlwaysGoWhereListed`), and Retry-After is
the time until there is a token, in whole seconds (`EveryRetryAfterHonest`). The
last three are also proved for all inputs.

Type invariants are not among the runs' invariants; they are proved.

Four more runs state what a document or comment promises and the program does
not keep; TLC finds the behaviour:

| Run | Promise | What happens |
|---|---|---|
| `queue_torn` | "The queue is saved to disk — alerts survive a restart" | a stop during the in-place rewrite of the file loses every saved alert |
| `queue_amd64` | "increasing delays (5s, 10s, 20s, ... up to 5 minutes)" | after about 31 failures the delay overflows, is negative on amd64, and the item is due at every tick |
| `pipeline_prune` | "Firing/critical/warning services and frozen services are never pruned." | an alert that fires between the pruner's list and its delete loses its service |
| `pipeline_newest` | a resolved alert makes the service OK, re-sending is harmless | the retry of an older firing result arrives after the resolved one, and the service stays in a problem state |

### Bounds

- `MaxStops`: crashes and shutdowns. Two cover a stop, a recovery and a stop of
  the recovered process.
- `MaxAttempts` with `RetryBase` 1, `RetryMax` 2, `DurationMax` 3: the smallest
  numbers in which the delay grows, is capped and overflows. `AttemptsAssumption`
  says that counting further changes nothing.
- Two alerts against limits of 0, 1 and 2 make the queue empty, partly filled,
  full and overfull after a restart.
- In `pipeline_create` and `pipeline_live` three jobs on one service are enough for
  a creator, a poller and a third that interferes; capacities are below the
  number of jobs, so that waiting happens.
- In `pipeline_upkeep` two valid alerts, one per service, meet `MaxQueue` 1, so
  that a status update is rejected. `OneAdmin` runs the invalid request, the
  delete, the manual status and the bulk delete one after the other, to keep the
  instance small: they interleave with the alerts and the prune pass, not with
  each other. The theorems have no such restriction.
- `LimiterUsage` is costly to evaluate, so `pipeline_upkeep` has the invariant
  `SlotsAccounted` in its place: the refinement mapping's counts and limits, without
  the order of a client's steps.
- Each job runs once; another request is another job.
- History: with `RotateEvery` 2 and limits 0 and 1, three appends reach a check
  that skips, one that rotates and an append after it; `MaxFaults` 1 puts a death or a
  torn write anywhere between.
- Webhook: three alerts on two slots make a goroutine wait; a body whose first
  alert has no name mixes outcomes; two keys of one source race to create its
  counters.
- Health: `MaxFails` 4 lets the counter pass the limit of 3 by one.
- Config: two overlapping requests show what overlapping does (and end the
  claims guarded by `serial`); three in turn cover a change, a failed save and a
  change after it.
- Accounts: one user, since users do not interact; three requests are a login
  under way, an administrator and a second user of the session. `SessionTTL` 0 with
  `MaxClock` 1 lets a session expire.
- Ingress: `One` 7, `Rate` 2, `Burst` 8 never divide each other; `TTL` 4 is the least
  that satisfies `IdleBucketIsFull`.

### Fairness

- `RetryQueue`: goroutines run, each call to Icinga2 returns because the client
  has a timeout, the supervisor restarts the process, and Icinga2 accepts a
  result that the processor keeps sending (strong fairness of its success;
  without it nothing can be promised).
- `RateLimiter`: a goroutine waiting on a channel is served if slots are returned
  again and again, since Go serves channel senders in order.
- `AlertPipeline`: weak fairness of each handler only. Nothing is assumed about
  the retry queue, the operators or time.
- `HistoryLog`: the maintenance ticker fires and a rotation under way continues;
  its file operations stop failing at some time.
- `EventStream`: publishers run, and who waits for the lock gets it when it is free.
- `WebhookRequest`: each handler and each alert's goroutine runs.
- `HealthChecker`: the checker's goroutine runs and an outage ends.

## What is proved

All theorems hold for every value of the constants allowed by the named
assumptions. Most of these only give the constants their types. The others:

- `PowerAssumption` states two facts of arithmetic about `2^a` that the provers do
  not have; they are true for every `a`, and TLC evaluates them.
- `FinitelyManyJobs` and `FinitelyManyRequests` are needed to count.
- `IdleBucketIsFull` (`Rate * TTL >= Burst`): an idle bucket is full again before it
  is evicted. Without it an eviction is a gift and the bound is false.
  The program does not check this relation of its settings.

Each theorem `Spec => []Inv` comes from an inductive invariant, since hardly any
property is inductive by itself.

**RetryQueueProofs**: `TypeCorrect`, `NoAlertVanishes`, `NoWorkerResends`,
`OnlySettledItemsLeave`, `DepthIsBounded`; without torn writes `SavedAlertsAreKept` and
`CleanShutdownKeepsItems`; on builds that saturate `FailedRetriesBackOff`. The
conditions are necessary: `queue_torn` and `queue_amd64` violate the properties
without them. `PassInv` links a worker's pass to the queue: an item a worker has
seen succeed and that is still held is in the list the worker is about to
remove, and never in what it has left to send. `SavedInv` and `DrainInv` carry the
file through a restart, and `DepthInv` bounds the file together with the queue,
because a restart loads the one into the other.

**RateLimiterProofs**: `LimiterTypes`, `NothingLeaks`, `LimitsHold`, by counting the clients at
each step of their calls.

**AlertPipelineProofs**: `PipelineTypes`, `PendingIsOwned`, `CacheIsTruthful`,
`CreateBeforeSend`, `NoAlertForgotten`, `ForeignUntouched`. The inductive
invariant `PipelineInv` consists of

- `KindInv`: which kinds of job can be at which label;
- `PendingHasCreator`, inductive with `KindInv`: whoever leaves the creating
  section overwrites or removes the entry in the same step;
- `FateInv`: an alert has an outcome exactly from `release` on, and a refused one
  goes nowhere but out;
- `RealInv`: everything the bridge acts on is real (cached entries, positive
  answers to a create, listed services, the target of a send). `MissesExplained`
  is not inductive without it;
- `ForeignInv`: a delete under way is not for a foreign service. The check and
  the call are two requests, so this needs that nothing becomes foreign later
  (`OwnerStep`).

`HandlersUseLimiter` is the refinement: the initial states map to the limiter's,
and each step of any kind of job is a step of that job's client or a stutter
(`HandlerIsClient`, with `OneClientMoves` for the others). It covers the admin
operations, the resync and the pruner, which the run of `LimiterUsage` does not.
`EverySlotAccounted` then follows from the theorems of `RateLimiterProofs`,
instantiated with the same mapping.

**WebhookRequestProofs**: `RequestTypes`, `AnswersAreTruthful`,
`OneConfigurationRoutes`, `CountsAlwaysAgree`. `DataInv` has what each stage knows and
that slots in use are goroutines running; `ErrorsInv` that the error flag is
set exactly when a finished alert failed; `RoutesInv` that what a request read is
what the configuration in force at its first read says, if no reload overlapped.
`CountsAgree` holds between requests; `CountInv` generalises it to all times: the
totals count the requests past `RecordMetrics` too, and a source has counters as
soon as one request got beyond creating them. `EveryFormatLeadsToSameAlerts` is
`FormatsAgree` for any number of alerts with any members.

**HistoryLogProofs**: `HistoryTypes`, `CounterIsExact`, `FileStaysNearLimit`,
`NewestLinesSurvive`, `RotationIsGentle`. `HistoryInv` adds to the properties what a
rotation under way has read and copied (`RotationInv`) and how many lines can
have come since the last check that did its work (`Lag`).

**BackgroundProofs**, three parts in one module. EventStream: `StreamTypesHold`,
`ClosedChannelsAreLeftAlone`, `BrowsersSeeFreshEvents`, from `StreamInv`: loops visit
only open channels, events under way have distinct numbers, and a channel holds
each expected event at most once. HealthChecker: `ReportsAreTrue`, from
`HealthInv`: the counter is the streak of failed probes. TargetHosts:
`PreparationAlwaysExplained`, from `HostsInv`: what each goroutine has done
justifies the first error.

**AccessProofs**. Accounts: `AccountTypes`, `NobodyIsServedUnentitled` (from
`RequestInv`, what each stage of a request has shown), `LoginsRestoreNothing` (from
`LoginInv`: what a login has read of a user is what administrators set, unless
they set the user again since). IngressLimiter: `BucketsWellFormed`, `RateIsEnforced`,
`IdleBucketsGo`, from `IngressInv`: tokens plus admitted requests never exceed the
burst plus the refill (`CreditBounded`), evicted buckets included because those
that outlived the last eviction are recent (`Fresh`). `RefusalsAreHonest` is
`RetryAfterHonest` for every rate and number of tokens.

**ConfigStoreProofs**: `StoreTypesHold`, from `StoreTypes` and `DownInv` (nothing is in
memory while the process is down). `PruningWasAsked` and `MaskedCopyAlwaysHarmless` hold
for requests that overlap in any way, from `FineInv`: every configuration in
memory, on disk, in a backup, in a request's copy or in force has distinct
target ids and asks for deletion only if somebody did. `AnsweredIsStored` and
`RunningIsStored` speak of requests that come one at a time, from `SerialInv`:
what the request under way has copied, saved and put in force, step by step;
overlapping requests overwrite each other's changes. `RunningIsStored` needs at
startup that storing the environment and converting it back changes nothing for
senders: `MigrationKeepsService`, for every environment that loads, with the
facts about sorting and about the routes of listed keys it rests on.
`EveryKeyGoesWhereListed` is `KeysGoWhereListed` for every environment.

### Only model-checked

- The liveness properties `EventuallySettled`, `WaitersAreServed`, `EveryRequestAnswered`,
  `LimitApplied`, `NobodyBlocks`, `EveryWebhookAnswered` and `ServiceRestored`: fairness
  is beyond the prover.
- The reference checks of the pure operators that fold over sequences (`Query`,
  `Stats`, the ring): a proof would need induction over the data.

## Observations

Differences between documents and code that the models contain but no run
singles out:

- `AcquireStatus` counts running updates too (`ratelimiter.go:51`), so fewer than
  `maxQueue` can wait; `docs/guides/configuration.md:111` says "Maximum queued
  status jobs".
- `Drain` does not write an empty queue (`queue.go:195`), so a Flush that
  delivered everything leaves the old file, and the next process sends it again.
- `loadFromDisk` installs more items than `MaxSize` if the file has them
  (`queue.go:349`); `DepthBound` therefore speaks of the largest limit.
- With `MaxSize` 0 `Enqueue` panics (`queue.go:109`).
- A retry does not look at a freeze (`queue.go:256`); a freeze suppresses firing
  alerts too (`work_mode.go:211`), while `docs/api-reference.md:175` mentions
  only OK results.
- A history line over 1 MB (`bufio.Scanner`'s limit there) stops rotation and queries
  until the history is cleared; a torn line swallows the entry appended after
  it; `UpdateConfig` to another file keeps the old count until the next count; a
  restart resets `appendCount`, so checks may come later than `rotateEvery`.
- The ring and the stream may show two events in different order: the ring's
  lock is released before the listener runs.
- Settings requests that overlap lose updates, changes of users included. A
  change whose save failed (500) stays in memory, is written with the next
  save and takes effect at the next reload or restart.
- Imported users are inactive until a restart and are overwritten by the next
  change of users. Adding a user under the primary admin's name is never saved.
- A masked import restores secrets by target id and position; where these no
  longer match, the mask itself is stored as a key.
- `AddTarget` does not look for API keys that another target has.
- After a migration and a restart, keys of earlier releases count for their
  target's source, no longer for one of their own.
- In dashboard mode the bridge starts without targets if the environment's are in
  error. An unreadable key file is replaced by a new key, with which the stored
  configuration cannot be decrypted.
- A request that overlaps a reload may combine the old keys with the new targets;
  if the target is gone the answer is 500.
- A 502 makes the sender repeat alerts that the retry queue sends as well.
- Two targets that share a missing host may both try to create it; the one that
  comes second fails, and at the first startup this ends the process.
- The health service counts as registered on any "already exists" answer; `main` does not wait
  for the final UNKNOWN; a report that Icinga2 is unreachable can only arrive
  when it is reachable again.

## Left out

- Text: service names, messages, requests to and answers from Icinga2, formats
  of the audit log, Prometheus metrics, HTML and JSON of the dashboard.
- Reads without effect: `All`, `AllEntries`, `AllFrozen`, `Len`, `Stats` and `Depth` of
  cache, limiter and queue; status, list, export and reveal endpoints.
- The list of the last hundred failed keys, runtime statistics and the audit
  lines of other handlers: appends under one lock that nothing else depends on.
- The heartbeat of the event stream, the tickers of resync and pruner and the pruner's
  dry-run mode, wiring of routes, logging.
- An empty admin password (then every request is refused).
- `StatePendingDelete` is never set by the program.
