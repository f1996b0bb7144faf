# TLA+ specifications of zeotap-ims

TLA+ models of the Incident Management System in `src/`, the TLC configurations
that check them on small instances, and TLAPS proofs about all parts.

The system turns a flood of signals into a few incidents. A signal travels

    client -> API (rate limit, Go channel) -> Redis stream -> worker pool
           -> debouncer (Redis lock + hash per component) -> MongoDB audit
           -> flush -> PostgreSQL work item -> Redis live feed -> dashboard
           -> PATCH / close with RCA -> PostgreSQL, feed purged -> hourly figures

and almost every arrow is a goroutine, a process or a network call. None of the
multi-command operations is a transaction: Redis pipelines are not MULTI, and
no PostgreSQL statement shares a transaction with another.

## 1. Inventory

| Component (source) | State | Operations | Hard behaviour | What makes it correct |
|---|---|---|---|---|
| Debouncer (`processor/debouncer.go`) | per component: `debounce:lock:*` with TTL, `debounce:data:*` hash; local variables of the goroutines | `ProcessSignal`, expiry listener, fallback scanner, `flushWorkItem` | N workers, listener and scanner interleave at every command; expiry races with everything; crash between commands; commands sent twice | each signal counted by at most one work item, unless its HINCRBY was sent twice; every success leaves one audit; the feed shows persisted items only; a lost notification is made good by the scanner |
| Worker pool (`processor/worker.go`) | stream, consumer group, pending list, local batches | XREADGROUP, `processMessage`, XACK | lost answers, failed calls, malformed entries, crash inside a batch, Redis restart | one worker per entry, ACK after audit only, nothing delivered is forgotten, nobody is blocked |
| Ingestion (`handlers/ingestion.go`) | token bucket, request in progress | `IngestSignal` | concurrent bodies, partial acceptance, requests sent again | limit per signal; a refused signal was not accepted; no wait for Redis |
| Stream buffer (`redis/stream.go`) | bounded Go channel, one signal per writer | `Push`, `worker` | full channel, failed XADD, XADD sent twice, shutdown | accepted signals are kept and written once |
| Load tester (`scripts/load_tester.go`) | channel of batches, three counters | post, post again, count | the two attempts overlap, the API ends | the report is true, the test ends |
| Incident workflow (`handlers/incidents.go`) | request in progress | live feed, PATCH, close, vitals | overlapping requests, purge that fails half way | closed incidents have an RCA, keep it and leave the feed; row and feed agree |
| Hot path (`redis/hotpath.go`) | sorted set, one hash per incident, metric keys | `UpdateHotPath`, `GetLiveIncidents`, `PurgeFromHotPath`, `SetMetric`, `GetMetric` | two keys without a transaction | subset of PostgreSQL; never relists a closed incident |
| PostgreSQL store (`db/postgres.go`) | `work_items`, `hourly_component_metrics` | inserts, updates, upsert | answer lost after a commit | primary key |
| MongoDB store (`db/mongo.go`) | `signal_audits` | `InsertSignalAudit` | answer lost after the insert | one audit per signal |
| Aggregator (`cmd/aggregator`) | the run in progress | tick, query, upserts | hour turns, incidents reopened in between | figures count real closures, and all that a run could see |
| Throughput metrics (`observability/`) | atomic counters | add, swap and publish | swap against add; failed SET; keys that never expire | every signal in one report; the rate shown is the current one |
| Health endpoints (`handlers/health.go`, `worker_health.go`) | the answer being put together | three pings, the lag | one deadline for three pings, stores that hang | the dashboard comes to show which stores are up |
| Dashboard (`frontend/`) | React state | polls, fetches, PATCH and close requests | answers overlap, overtake each other, outlive the component that asked | what was reported closed stays away; one closure at a time; panels catch up |
| Redis client, configuration, models, middleware, deployment | none of their own | connection, constants, restart policy | retries inside go-redis, Redis without persistence | assumptions and faults of the models above |

## 2. Modules

| Module | What it is |
|---|---|
| `Debouncer` | The core. One action per Redis, MongoDB or PostgreSQL command of `ProcessSignal`, the listener, the scanner and `flushWorkItem`; faults; crash and restart of the processor, restart of Redis. |
| `SignalLedger` | Abstract specification of what the processor promises about outcomes, audits, work items and feed. `Debouncer` implements it under the identity mapping on `fate`, `audits`, `rows`, `live`, `recounted`. |
| `WorkerPool` | `EXTENDS Debouncer`: stream, consumer group, pending list, batches. Its call of `ProcessSignal` is `Debouncer`'s `Call`, and each of its steps is by construction one of `Debouncer` or leaves its variables alone, so that what is proved of `Debouncer` carries over. |
| `Incidents` | An incident after its window: publication, live feed, PATCH, close, purge. |
| `LiveFeed` | Abstract specification of what the feed promises to whoever polls it. `Incidents` implements it under the mapping of its `Feed`. |
| `Aggregator` | `EXTENDS Incidents`: the hourly run against concurrent closures. |
| `Ingestion` | Handlers, limiter, channel, stream writers, throughput counter. |
| `LoadTester` | `EXTENDS Ingestion`: the load tester as its client. |
| `Monitoring` | Reporters, health endpoints, vitals, and the dashboard's polls of them. |
| `Dashboard` | One open dashboard: feed, detail pane, RCA modal, and their requests in flight. The API is its environment. |
| `DebouncerProofs`, `PoolProofs`, `IncidentsProofs`, `AggregatorProofs`, `IngestionProofs`, `LoadTesterProofs`, `DashboardProofs`, `MonitoringProofs` | Theorems; see section 4. |
| `MC*` | Instances for TLC: component assignments, bodies, symmetry. |

Definitions marked `(* Bug: ... *)` are not part of the models. Each is a
variant of the definition that follows it, with a plausible mistake; replacing
the definition by it breaks a property (`PROJECT.json`, "mutants"), which shows
that the property depends on that line of the code.

### Debouncer

*State.* `ttl[c]` is the lock (0: no key), `data[c]` the hash. `signal_count`
is kept as the **set** of signals counted; the number in the code is its
cardinality, and the set tells double counting from miscounting. The uuid of a
work item is named by the signal whose call created it. `rows` is `work_items`,
`audits` is `signal_audits`, `live` the sorted set. `cpc`, `csig`, `cwid` are
the program counter and locals of a worker; `fpc`, `fcomp`, `fsnap` those of
the two flushers; `todo` is the scanner's page of keys; `expired` the
notifications received or under way. `fate[s]` is what the call of `s` returned.
`recounted` is history: the signals whose HINCRBY was executed and sent again.

| Action | Command | Lines of `debouncer.go` |
|---|---|---|
| `SetNX` | SETNX of the lock; winner opens a window, loser slides it | 84-95 |
| `InitHash` | HSET of the five fields, no matter what is there | 98-110 |
| `Slide`, `Incr`, `Touch` | EXPIRE, HINCRBY, HSET of the second branch, one step each | 115-123 |
| `SetNXResent`, `InitHashResent`, `PipelineResent`, `FlushDelResent` | the same commands, executed and sent again by the client | 84, 98-110, 117-123, 280 |
| `ReadId` | HGET `work_item_id`; `redis.Nil` fails the call | 126-130 |
| `Audit` | insert into MongoDB, return | 132-147 |
| `Age`, `Hear` | TTL, expired-key notification, its receipt | 150-193 |
| `Scan`, `CheckLock` | SCAN and EXISTS | 195-233 |
| `FlushRead`, `FlushInsert`, `FlushHot`, `FlushDel` | HGETALL, INSERT, `UpdateHotPath`, DEL | 237-284 |

`Incr` on a missing key creates a hash without `work_item_id` and
`component_id`, and such a hash is flushed as a row with empty id and component
(`RowOf`). `fsnap` is a copy: signals that arrive between HGETALL and DEL are
lost for the count, as in the code.

*Faults* are counted by `faults` and bounded by `MaxFaults`: an erring command
(`"redis"`, `"mongo"`, `"postgres"`) that may or may not have been executed, a
command or pipeline that go-redis sends again after it was executed
(`"resend"`; `client.go:20` leaves `MaxRetries` at its default), a notification that is not
delivered (`"pubsub"`), the end of the processor (`"crash"`), the loss of all
Redis data (`"restart"`: `docker-compose.yml` configures no persistence).

*Commands sent twice.* Between the two executions anybody may run. A SETNX sent
again tells the call which set the lock that it was there. The opener's HSET may
bring back a hash that was flushed and deleted, or overwrite that of the next
opener. The pipeline of the others may count one signal in two windows, if the
first was flushed and deleted in between: the code does this, so `CountedOnce`
and the ledger except the signals in `recounted`, and exactly these. A DEL sent
again may hit the hash of a later opener. An EXPIRE or an HGET sent again does
no more than one that is late, so neither has an action of its own.

*Time.* A lock ages by whole units; nothing ties the speed of a goroutine to
it, so a call may take longer than a window. That is more than happens with the
default window of 10 s and the 5 s deadline of a call, but the window is
configurable (`DEBOUNCE_WINDOW_SEC`), flushers and scheduling have no deadline
that relates to it, and Redis, not the processor, measures the TTL.

### WorkerPool

`ReadGroup` delivers up to `Count` entries and makes them pending; the answer
may be lost. `Process` starts the debouncer's call for the head of the batch;
`Ack` and `LeavePending` are the two ends of `processMessage`. Restarting the
processor creates the group again only if it is missing (`PoolRestart`); a Redis
restart takes stream, group and pending list with it, and `XAdd` brings back
the stream without the group, so that nothing is read until the next
`PoolRestart`. `arrived` and `acked` are history variables.

### Incidents, LiveFeed and Aggregator

`pub[i]` follows the flush of incident `i`; its window is `Debouncer`'s matter.
A card that a PATCH brings into being has a status and nothing else, hence
`whole`. A poll is the ZREVRANGE and one HGETALL per id, in any order: the code
reads them one by one in the order of the set, and a larger set of orders makes
no property easier. `seen` records what responses have shown. Clients send
requests only for ids they have seen. `raced` is history: the incidents that
two requests were changing at once. For these row and card may differ for good,
since two PATCHes may update the row in one order and the hash in the other;
`FeedAgrees` says that this, a request that was cut short and a request under
way are the only reasons.

`CloseWorkItem` reads the clock before it sends its UPDATE (`postgres.go:134`).
`since[r]` is the hour in which the close of `r` passed the test of the status;
the time it writes is of any hour from then to the present (`ClosedRows`). When two
closes of one incident overlap, their UPDATEs may come in the other order than
their clocks were read, and the time of the closure goes back; hence the
exception in `ClosureIsKept`, which without it is violated.

`LiveFeed` has the incidents stored, closed, listed, and those that are never
to be listed again (`left`): purged, or kept out by a fault. The mapping reads
`left` off `pub`: what the processor is done with and is not in the set.

The aggregator's figure for an hour is kept as the set of incidents counted;
`closures` and `due` are history: who was closed in which hour, and what the
run under way has to count, if nobody touches it meanwhile.

### Ingestion and LoadTester

`Limit` is `AllowN` for the whole body, `Push` the `select` with `default`,
`Reply` the answer 202 or 503. `fate` is what the API did with a signal,
`answer` the status its client got. The limiter's rate is `Refill`, as slow or
as fast as it likes, up to `MaxGranted` tokens in all. `IncrementIngested` is a
step of its own: between the `Push` and the count the reporter (`Swap`) may
take the counter. `reported` is the sum of all reports (history). `Write` may
fail, executed or not, or be sent twice by the client; `resent` counts the
latter. `ApiStarts` is what `main` begins with, after any end of the process.

`LoadTester` puts its goroutines in front: `Send` is `Ingestion`'s `Receive`,
`CountAnswer` and `GiveUp` the two ways out of `client.Do`. The two attempts to
send a batch are two bodies of distinct signals (`BodyOf`), because the API
cannot tell that they are the same. An attempt that was given up goes on in the
API, beside the second.

### Monitoring

| Action | Code |
|---|---|
| `Increment` | the atomic additions of both `Metrics` |
| `SwapCounter`, `SetMetric` | one tick of `reportLoop`: swap all counters, then SET all keys (`agenda`) |
| `Ping`, `ReadLag`, `Answer`, `Unanswered` | `HealthCheck` of API and processor, and `fetchHealth` |
| `ReadVitals`, `Show` | `GetVitals` and `Header.jsx`, which keeps the last answer it got |
| `Deliver`, `Acknowledge` | the pending list, as far as its length |
| `Change`, `RedisRestart`, `End`, `Start` | stores that refuse or hang and come back; Redis without its data; the end and the start of a process, which needs all stores |

A behaviour has one who asks, chosen at the start (`asked`): API health,
processor health, or vitals. They only read, so they do not disturb each other.
Of a rate only the count of its interval is kept. A store that hangs takes the
rest of the deadline that a request's steps share (`late`).

### Dashboard

| Action | Code |
|---|---|
| `Poll`, `Deliver` | the timer of a panel and the answer to one of its polls (`LiveFeed.jsx:20-29`; `Analytics.jsx:13-28` does the same) |
| `Select`, `Unselect`, `Fetched` | a click on a row, the cross of the pane, the answer with the signals (`IncidentDetail.jsx:11-20`) |
| `OpenRCA`, `Cancel`, `Submit`, `Answer` | the modal and its request (`RCAModal.jsx:11-19`) |
| `HandleIncidentClosed` | `App.jsx:13-17`, part of `Answer` |
| `Appear`, `CloseElsewhere`, `Serve` | the API: a new incident, a closure by somebody else, this dashboard's request being carried out |

A poll is asked and read in one step (`Poll` appends what is listed then): only
the moment of reading shows. A new `refreshKey` mounts a new feed, and React
drops what the old one would still set; hence `HandleIncidentClosed` empties
`shown["feed"]` and forgets its polls. The detail pane has no key and takes any
answer. The backdrop of the modal covers the rows, so `Select` needs `rca =
None`; the cross of the pane can still be reached by keyboard. `gone` and
`inOrder` are history: what this dashboard was told is closed, and whether the
answers with signals have come in the order of the requests.

## 3. Runs

All runs of finite instances stop when their signals and faults are used up,
as the real system idles when nobody sends anything; hence
`CHECK_DEADLOCK FALSE` in every configuration but `dashboard`, whose timers
never stop.

| Run | Instance and bounds | What it shows |
|---|---|---|
| `debouncer_records` | two components (two signals, one signal), two workers, both flushers, `Window` 1, one fault of any of seven kinds, of which a command sent twice has four forms | `TypeOK`, `CountedOnce`, `RowsTraceable`, `AuditTrail`, `RowsHaveForensics`, `LiveIsPersisted` in every interleaving |
| `debouncer_ledger` | two signals of one component, two workers, both flushers, `Window` 1, two faults of three kinds (failed Redis command, command sent twice, crash) | the inductive invariant `IInv`; `KeepsLedger`: the debouncer implements `SignalLedger`; `OrphansAreFlushed`: with the scanner alone, an opened window reaches PostgreSQL, or its key is lost before to a newer window or a late DEL |
| `pool` | two entries, one malformed, two workers, one lost answer, three faults of four kinds (failed command, failed audit, crash, Redis restart) | `OneWorkerPerEntry`, `AckedIsAudited`, `DeliveredIsAccounted`; `EntriesAreHandled`: nothing holds up the entries behind it, and what was written while Redis had lost the group is handled after the next start of the processor |
| `incidents` | one incident, two requests of any kind, one poller, two hours, one fault of any of six kinds, the aggregator | `ClosureNeedsRCA`, `ClosureIsKept`, `FeedIsPersisted`, `ClosedLeavesFeed`, `FeedAgrees`, `HourlyIsReal`, `ClosedBeforeRunIsCounted`; `FollowsLiveFeed`: `Incidents` implements `LiveFeed` |
| `ingestion` | the load tester with two goroutines and batches of one and two signals, each with a second attempt; two handlers, two writers, channel of 1, burst 2, one refill, one fault of four kinds | `AcceptedIsKept`, `WrittenOnce`, `LimitIsPerSignal`, `RefusedIsRetriable`, `ThroughputAddsUp`, `ReportIsTrue`, `TestEnds` |
| `monitoring` | three stores, both processes, one counted event, one fault | `HealthSettles`, `VitalsSettle` |
| `dashboard` | two incidents, one listed from the start; two overlapping polls of the feed; two requests of pane and modal under way; one fault | `ClosedStaysAway`, `ClosedIsPutAway`, `PaneSettles`, `OneSubmissionAtATime`, `PanelsCatchUp` |
| `window_dropped`, `stuck_flush`, `pel_retry`, `strict_states`, `failed_purge` | the smallest instance that shows it | the five disagreements of section 5 |

*Why the bounds are enough to be interesting.* Two signals of one component
suffice for every race of the debouncer: one opens or reopens the window while
the other is anywhere in its call, and the two flushers may hold the old window
while it does; three signals, in `debouncer_records`, split over two components.
With two flushers a window is flushed twice at once. A second component shows that nothing leaks
between components through the shared flushers. `Window` 1 lets a lock lapse
between any two commands. One fault is enough
to break each multi-command operation at each place; two combine a command sent
twice with a crash or with another one, and three let Redis restart, the processor crash and
be started in the middle of a batch whose call failed. The two signals of one
window that meet in `debouncer_records` are one signal and a malformed entry in
`pool`; that the pool does not disturb the debouncer is proved for any number
(section 4). A channel of one place is full after one signal,
burst 2 is exceeded by three signals, and two requests overlap in every way,
the two attempts of a batch included. An empty array only gets its 503.
Two polls, two fetches and two closures are what it takes for one answer to
overtake another, or to find another modal. In `monitoring` the properties are
about what is shown in the end, so a second event or fault before it brings no
new last state; one fault makes a store fail at each place of a probe, and its
recovery is not counted. For the safety properties of the debouncer, the pool,
the incidents, the aggregator, the way in, the load tester, the monitoring and the
dashboard the proofs remove the bounds altogether.

*Symmetry* is used in safety runs only, over workers, requests, and signals of
one component: no constant assignment tells them apart.

*Fairness.* `WorkerPool` and the run `stuck_flush`: each goroutine is scheduled
(weak fairness per goroutine, not per command), TTLs elapse, and a dead processor
is started again (`restart: unless-stopped`). `debouncer_ledger` (`ScannerSpec`):
of the goroutines only the scanner, besides the clock and the restart. The
listener, which may miss any notification there, and the workers get none,
because the claim is that the scanner needs neither. Nothing makes clients send, faults
happen, or a lost notification arrive. `Incidents`: the started handlers and the
publication run on. `LoadTester`: its goroutines and the handlers only; the
writers, the refill and the start of the API get no fairness at all, because
the claim is that nobody needs them. `Monitoring`: tickers tick, handlers and
polls go on (a request has a deadline, so it comes to its end even when a store
hangs), ended processes are started again; the stores need not recover, and
the properties assume what they need of them. `Dashboard`: `setInterval` fires
for ever, and polls are answered, as the API gives up after 3 s; users need do
nothing. No property needs strong fairness.

## 4. Proofs

TLAPS proves the following for every value of the constants, under the
assumptions that the modules name (`SignalsHaveComponents`, `WindowIsPositive`,
`FaultsAreBounded`, `NoneIsNoValue` of `Debouncer`; `MalformedAreSignals`,
`CountIsPositive`, `LossIsBounded` of `WorkerPool`; `HoursAreNat`,
`BudgetIsNat`, `NoneIsNothing` of `Incidents`; `ItemsHaveComponents` of
`Aggregator`; `BatchesAreOfSignals`, `NamedOnce`, `SetsAreFinite`, `SizesAreNat`,
`SizesArePositive` of `Ingestion`; `BodiesAreBatches`, `AttemptsAreApart` of
`LoadTester`; `FeedIsOpen`, `EarlyAreIncidents`, `NoneIsNoIncident`,
`BoundsAreNat` of `Dashboard`; `BoundsAreNat` of `Monitoring`), so for any
number of signals, workers, requests, incidents and hours, and for any budget of
faults of any kinds (in `Incidents` and `Aggregator` each kind of fault happens
at most once, the restart of Redis among them):

| Theorem | Statement |
|---|---|
| `InductiveInvariant` | `Spec => []IInv` |
| `TypeCorrect` | `Spec => []TypeOK` |
| `NeverCountedTwice` | `Spec => []CountedOnce`: once, but for signals whose HINCRBY was sent again |
| `RowsAreTraceable` | `Spec => []RowsTraceable` |
| `AuditTrailHolds` | `Spec => []AuditTrail` |
| `ForensicsExist` | `Spec => []RowsHaveForensics` |
| `LiveFeedIsPersisted` | `Spec => []LiveIsPersisted` |
| `DebouncerKeepsLedger` | `Spec => KeepsLedger`: `Debouncer` implements `SignalLedger` |
| `PoolInductiveInvariant` | `PoolSpec => []PoolInv` |
| `PoolTypeCorrect` | `PoolSpec => []PoolTypeOK` |
| `EntriesHaveOneWorker` | `PoolSpec => []OneWorkerPerEntry` |
| `AcknowledgedIsAudited` | `PoolSpec => []AckedIsAudited` |
| `DeliveredStaysAccounted` | `PoolSpec => []DeliveredIsAccounted` |
| `IncidentsInductiveInvariant` | `Spec => []IncInv` of `Incidents` |
| `IncidentsTypeCorrect` | `Spec => []TypeOK` |
| `ClosedWithRCA` | `Spec => []ClosureNeedsRCA` |
| `ClosuresAreKept` | `Spec => ClosureIsKept`: RCA notes and a time stay, never of the future; the time goes back only where requests overlap |
| `FeedShowsPersisted` | `Spec => []FeedIsPersisted` |
| `ClosedIsUnlisted` | `Spec => []ClosedLeavesFeed` |
| `FeedAgreesWithRow` | `Spec => []FeedAgrees` |
| `IncidentsFollowLiveFeed` | `Spec => FollowsLiveFeed`: `Incidents` implements `LiveFeed` |
| `AggregatorInductiveInvariant` | `AggSpec => []AggInv` |
| `AggregatorTypeCorrect` | `AggSpec => []AggTypeOK` |
| `HourlyFiguresAreReal` | `AggSpec => []HourlyIsReal` |
| `RunsCountTheirHour` | `AggSpec => []ClosedBeforeRunIsCounted` |
| `AggregatorLeavesFeedAlone` | what is proved of `Spec` of `Incidents` holds of `AggSpec` |
| `IngestionInvariant` | `Spec => []IngInv` of `Ingestion` |
| `AcceptedStaysKept` | `Spec => []AcceptedIsKept` |
| `WrittenOnlyOnce` | `Spec => []WrittenOnce` |
| `LimitCountsSignals` | `Spec => []LimitIsPerSignal` |
| `RefusedMayRetry` | `Spec => []RefusedIsRetriable` |
| `ThroughputIsComplete` | `Spec => []ThroughputAddsUp` |
| `LoadInvariant` | `LoadSpec => []LoadInv` |
| `LoadTypeCorrect` | `LoadSpec => []LoadTypeOK` |
| `LoadReportIsTrue` | `LoadSpec => []ReportIsTrue` |
| `WayInUnderLoad` | what is proved of `Spec` of `Ingestion` holds of `LoadSpec` |
| `DashboardInvariant` | `Spec => []DashInv` of `Dashboard` |
| `DashboardTypeCorrect` | `Spec => []TypeOK` |
| `ClosedNeverReturns` | `Spec => []ClosedStaysAway` |
| `ClosedIsNeverOffered` | `Spec => []ClosedIsPutAway` |
| `PaneTellsTheTruth` | `Spec => []PaneSettles` |
| `OneClosurePerModal` | `Spec => []OneSubmissionAtATime` |
| `MonitoringInvariant` | `Spec => []MonInv` of `Monitoring` |
| `MonitoringTypeCorrect` | `Spec => []MonTypeOK` |

and, about what steps may do and what can never be undone:

| Theorem | Statement |
|---|---|
| `RecordsAreFinal` | outcomes of calls never change, audits and work items are never changed or removed |
| `WindowsAreLostInThreeWays` | a window that is not persisted leaves its key only by the HSET of the next one, by a late DEL, or with Redis |
| `DroppedIsLost` | what no copy of a window holds any more is in no work item, ever |
| `StuckHashesStay` | a hash whose INSERT was committed before is removed by no flush |
| `PoolKeepsRecords` | ledger, records and windows keep all this in the pool |
| `LeftIsNeverRetried` | an entry left unacknowledged is not read, called or acknowledged again |
| `PendingStaysListed` | an entry leaves the pending list by its own XACK or with Redis |
| `AcknowledgedForGood` | what is acknowledged keeps its audit |
| `NeverRelisted` | an incident that was purged or kept out is never listed again |
| `InvisibleForGood` | one that nobody could see before it was kept out is never seen, and its row stays open |
| `FailedPurgeStays` | a closed incident that lingers leaves the feed only when it is opened again, or with Redis |
| `VerdictsAreFinal` | what the API did with a signal, and what it answered, never changes |
| `LostForGood` | an accepted signal that was lost is never written |
| `HandlersComeToAnEnd` | each step of a handler lowers its `Work`, at most 2n + 2 for n signals |
| `BatchesMoveOn` | each step of the tester raises the `Rank` of a batch, at most to 4, and a counted batch stays counted |
| `OffForGood` | an incident that is purged, off a panel and in none of its answers stays off it |
| `StaleAnswersRunOut` | the answers that still carry a purged incident move forward with each delivery, and no new one comes |
| `ToldOnceForAll` | what the dashboard was told is closed never comes back |
| `HealthStaysTrue` | the right picture of the stores is spoilt only by a change of them or the end of the process asked |
| `CalmAnswersAreTrue` | while nothing changes and nothing hangs, each probe begun since tells the truth |
| `VitalsStayTrue` | vitals at rest are misled only by an event, an acknowledgement or a fault |

*The argument for the debouncer.* `CountedOnce` speaks of rows only and is not inductive: a row
is born from a flusher's copy, and the copy from a hash. `Windows` is therefore
the set of all copies of a window, in Redis, in a flusher's memory, in
PostgreSQL, and `IInv` says of all of them:

- `WindowsDisjoint`: copies with different ids share no signal but those in
  `recounted`; no copy holds a signal whose call has executed no counting command
  (`Uncounted`), and only its own window holds a signal that is at the opener's
  HSET, which may have been executed already; each copy holds its opener, and the
  key of `rows` is unique. A step adds at most one
  new copy (`StepWindows`, `WritesCopy`): the signal of a call at a counting
  command, alone or added to one present copy; that signal was uncounted, is in
  `recounted`, or opens its window once more. That is why nothing else is counted
  twice even when old and new copies of a hash coexist.
- `WindowsOfComponent`: a copy holds signals of one component.
- `CallsInOrder`, `FlushesInOrder`: what the program counters imply about the
  locals; in particular a worker has its signal for itself.
- `AuditsInOrder`: whatever names a work item names one that was `Opened`: its
  opener's call failed, has left its audit, or is about to.
- `LiveIsPersisted`, inductive with `FlushesInOrder`.

The proofs have one lemma per conjunct and one step per action. Each step of
`Debouncer` from a state of `IInv` is a step of `SignalLedger` or leaves its
variables unchanged (`DebouncerKeepsLedger`); `RecordsAreFinal` reads off the
ledger that its records only grow.

*The pool.* `PoolInv` adds to `IInv` what is the pool's `Own`: the stream holds
no entry twice and only what has arrived (`StreamInOrder`), what a worker has in
its batch is no entry that is still to be read (`BatchesAreRead`), and the two
properties themselves; and that an acknowledged entry that parses has been
answered "ok" (`AckedAreDone`), which `IInv` turns into an audit.
Each step of the pool is one of the debouncer or leaves it alone, because the
module is put together so (`PoolStepIsStep`); the lemma `PoolImplementsDebouncer`
says no more than that, and is there to bring `IInv` into the pool.

*The incidents.* `FeedIsPersisted`, `ClosedLeavesFeed` and `FeedAgrees` are not
inductive: what a request will do next depends on what it has read. `IncInv`
adds `PublishedInOrder` (how far the processor is tells whether row, id and card
are there), `RequestsInOrder` (what a request has in hand, and that its incident
is persisted), `RacesAreRecorded` (two requests for one incident have left a
trace in `raced`) and `FeedCatchesUp` (a card that differs from its row has a
request or a fault to blame). `ClosureIsKept` needs besides that no time of closure is of
the future (`ClosedInThePast`) and that, where nothing raced, a close on its way
passed the test in no earlier hour than the one in the row (`ClosesAreLater`).
With `IncInv` each step maps to a step of `LiveFeed` or
a stutter: `Leave` for the purge, for Redis's restart and for the end of the
processor, `Close` for the update of the row.

*The aggregator.* `AggInv` puts beside `IncInv` that a run in progress has only
groups of closures that are recorded (`ClosuresAreRecorded`) and that what is
due is in its groups or in the figure already (`RunInOrder`).

*The way in.* What a handler may do next depends on the place it has reached in
its body, so `IngInv` says of every body (`BodyInOrder`) that the signals before
`next` have their fate, the one at `next` is in between while it is being
counted, and those after it have only arrived; that no signal is in two requests
(`BodiesAreApart`), and that what has arrived is in one (`ArrivingIsInHand`) and
what was answered in none (`AnsweredIsDone`). Hence a signal is pushed once; the
channel holds no signal twice and none that a writer has (`ChannelInOrder`), and
`WrittenOnce` follows. `LimitIsPerSignal` and `ThroughputAddsUp` are about
cardinalities: each step adds one element to a set or removes one, except `Limit`,
which lets the set of a whole body past, at most as many as it has taken tokens.
A step of `LoadTester` is one of `Ingestion` or a fault beside it
(`LoadStepIsStep`), so that `IngInv` holds there too. `Tester` adds what the
tester knows: an attempt not made has not reached the API (`NotYetSent`), the
signals of an attempt get one answer, and 202 is a true one (`AnswersAreTrue`),
and while nothing fails each batch is sent once and served (`NoFailure`).

*The dashboard.* Its properties hold because of what is still in flight.
`GoneIsUnlisted` says that an incident known to be gone is in no answer on its
way to the feed, and that an answer "closed" is about one that is closed and
off the list; it stays inductive because the new feed forgets the polls of the
old one at the very step that adds to `gone`, and because what appears later was
never listed before (`SeenHasAppeared`: nothing is seen that has not been
listed). `PaneInOrder` follows the fetches: while none was overtaken the last of
them is for the incident the pane is headed by. `ModalInOrder` says of the
closures that at most one belongs to a modal that is there, and that the button
is disabled exactly if there is one.

*The monitoring.* `MonInv` says that no counter, key or pending list is ahead of
the events (`RatesAreReal`), that a reporter holds a count only from its swap to
its SET (`ReportsInOrder`), that a process which has ended has no request and no report
under way (`EndedIsSilent`), and that a probe reports on the stores it has
pinged only (`RequestsInOrder`). `HealthSettles` and `VitalsSettle` say that the dashboard
comes to show the truth and keeps showing it. Keeping is safety, and proved:
`HealthStaysTrue`, `VitalsStayTrue`. So is that a probe tells the truth while the
stores keep still (`CalmAnswersAreTrue`, by induction over the pings of the probe,
`ProbeIsHonest`); what is left to TLC is that a probe comes to its end.

*What cannot be undone.* `Gone(s)` says that the call of `s` is past its counting
commands and that `s` is in no copy of a window. A new copy has the signal of a
call at such a command, and otherwise what a present copy has (`StepWindows`
again), so `Gone` is for good. `Stuck`
hashes stay because a flusher gets to the DEL only through an INSERT of its own,
which the primary key refuses. `Left(s)` stays because the group reads behind
`last` only, nothing else fills a batch, and a call is always for the head of a
batch (`CallsAreForBatches`). `NeverRelisted` is a fact about `LiveFeed`, where
`left` is never taken back, and comes to the workflow through the refinement.
`FailedPurgeStays` holds because the status is read before the purge
(`incidents.go:82-91`), so that a second close ends at 409. `LostForGood` holds
because only a handler fills the channel, and only with a signal that is
arriving.

*Measures.* Three liveness properties are of the form that a queue is worked off.
What TLC checks there is that the scheduler goes on; that going on is enough is
proved: `HandlersComeToAnEnd` and `BatchesMoveOn` for `TestEnds`,
`StaleAnswersRunOut` with `OffForGood` for `PanelsCatchUp`. For `OrphansAreFlushed`
the safety half is `WindowsAreLostInThreeWays`: the ways in which a window may
leave its key without having reached PostgreSQL are the HSET of the next window,
a late DEL and the end of Redis, and no other.

*Only model-checked:* the six liveness properties themselves (`OrphansAreFlushed`,
`EntriesAreHandled`, `TestEnds`, `HealthSettles`, `VitalsSettle`, `PanelsCatchUp`):
they need ENABLED and fairness, which the prover does not reach. Every other
property of the runs is proved.

## 5. Where the code and its comments disagree

1. `window_dropped`: a window that has expired and is not flushed yet is
   overwritten by the next signal's HSET (`debouncer.go:99`); it never becomes
   a work item. `debouncer.go:34-36` describes a flush at expiry. No fault is
   needed. `DroppedIsLost` proves that this is for good.
2. `stuck_flush`: after an INSERT that was committed but not followed by the
   DEL, each retry fails at the primary key and the hash stays
   (`debouncer.go:262-266`), though it is kept "so the fallback scanner can
   retry". `StuckHashesStay` proves that no number of retries removes it.
3. `pel_retry`: an entry that failed is said to be retried through the pending
   entries list (`worker.go:135`); nothing reads that list
   (`LeftIsNeverRetried`, restarts included).
4. `strict_states`: PATCH writes any of its three statuses over any status,
   `closed` included (`incidents.go:150`), against the "strict state machine"
   of the repository's `README.md:156`.
5. `failed_purge`: a purge that failed "will be cleaned up by scanner"
   (`incidents.go:104`); the scanner looks at `debounce:data:*` only, and a
   second close is refused before it gets to the purge (`FailedPurgeStays`).

Read beside the models, without a run of their own:

- `hotpath.go:29` calls `UpdateHotPath` atomic; it is a plain pipeline, and the
  models take its commands as steps.
- The repository's `README.md:82` names 503 for a full channel: a body of which
  a part was accepted gets 202 (`Reply`), and the rest is dropped.
- `README.md:173` describes health as UP or DOWN per store. A store that hangs
  uses up the deadline of the pings after it, which are then reported down
  though they are up; MongoDB's driver does so whenever it cannot connect.
  This is the premise of `HealthSettles`.
- "Consumer lag" in vitals and health is the length of the pending list, not
  what is still to be read; the processor's `/health` stays 200 when it is -1.
- `work_items_per_sec` is written and never read.
- `README.md:45` speaks of FIFO: several writers drain the channel, and the
  order in the stream is theirs.

## 6. What is not modelled

- **Retries inside go-redis** of other commands than the debouncer's SETNX, HSET,
  pipeline and DEL and the stream's XADD. An EXPIRE, EXISTS, HGET or HGETALL
  sent again is one that is late. Not modelled: the commands of the hot path (the
  ZADD or HSET of `UpdateHotPath` sent again after a purge would list a closed
  incident), the commands of the stream's readers, and those of the metrics. A
  pipeline sent again into the same window changes the number only, which the
  set of signals does not show.
- **Effects after the caller gave up.** A command that times out has been
  executed or not by the time the error is returned; one that takes effect
  later still is not modelled.
- Timestamps, titles, severities, averages; the parsing of bodies and payloads
  (a malformed one is a member of a set, or changes nothing).
- SCAN over several pages and the feed's limit of 100 ids: the instances fit in
  one page.
- PATCH of an id that does not exist: it updates no row and leaves a hash that
  nobody lists.
- Configuration (its functions only read the environment), schema migration,
  the read-only reports, CORS, and the rate-limit middleware, which nothing
  uses: the limiter is in the ingestion handler.
- Of the dashboard: the status that the pane shows and its PATCH, the severity
  filter and tabs. The instance has the feed alone; the
  analytics panel (`Panels`) polls by the same two actions and is never mounted
  anew, so that it lags by one period, as `PanelsCatchUp` allows.

## 7. Plan

Done, in this order, because data is lost or kept there first: the debouncer
with its ledger, the pool around it, the two ends of the pipeline, the
aggregator, the client and the monitoring; the proofs that every safety property
of the runs holds for all instances, and of what can never be undone. Left:

1. The status in the detail pane: the answer to a PATCH is applied to whatever
   incident is shown by then (`IncidentDetail.jsx:52-58`).
2. A composition of `Ingestion` and `WorkerPool` through the stream, with the
   end-to-end claim that what was accepted and not lost with a process is
   audited.
