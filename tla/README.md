# Verification of the dead-reckoning backend

TLA+ models of the tracking backend in `src/`: a FastAPI service that takes
10 Hz IMU packets over WebSocket and REST, fuses them in one Kalman filter per
device, pushes positions back, caches the filters in Redis and stores the
points in TimescaleDB; and the DynamoDB access layer of its migration to AWS
Lambda; and the dashboard page that drives it. TLC checks the models on small
instances; TLAPS proves every safety property that a passing run checks, the
server's use of the queue and the arithmetic of the time synchronisation, for all
instances. Liveness is model-checked.

## 1. The system

### Parts, state and operations

| Part | Source | State | Operations |
|---|---|---|---|
| Ingestion queue | `app/core/queue_manager.py` | bounded `asyncio.PriorityQueue`, its unfinished count | `enqueue_live`, `enqueue_backlog_chunk`, `get_next_item`, `task_done` |
| WebSocket endpoint and worker | `app/api/websocket.py` | `active_connections`, `device_kalman_filters`, `_db_write_lock` | accept, restore, receive loop, disconnect, `queue_worker`, `_persist_point` |
| Trajectory database | `app/db/crud.py`, `models.py` | rows of `device_trajectories` | save a point, last known position, history |
| Database setup | `app/db/database.py` | the schema | `init_db` |
| Cache manager | `app/cache/redis_client.py` | Redis, the in-memory store, `is_redis_connected` | `connect`, `get`, `set`, `disconnect` |
| Kalman filter | `app/fusion/kalman_filter.py` | state vector, motion state, step window | `process_sample`, `to_state_dict`, `from_state_dict` |
| Coordinate transforms | `app/fusion/coordinates.py` | none | trigonometry |
| REST routes | `app/api/rest_routes.py` | none of its own | upload a batch, switch the mode, read position and history |
| Authentication | `app/core/auth.py`, `app/api/deps.py` | none | JWT checks |
| Time synchronisation | `app/core/time_sync.py` | none | offset and round trip of one exchange |
| Lifespan | `app/main.py` | the worker task | start, stop |
| Dashboard client | HTML and JavaScript in `app/main.py` | socket, interval, current mode, sensor handlers, badge | connect, switch mode, toggle the phone |
| Serverless stores | `lambdas/common/*.py` | STATE and TRAJ items of one table, Connections | conditional put, pending mode, points, lookups |
| Serverless handlers | `lambdas/*/handler.py` | none | stubs |

### How they interact

All of the server runs on one asyncio event loop, so tasks interleave only
where an `await` really suspends: receiving and sending, cache and database
round trips, a `put()` on a full queue, `sleep(0)` between slices of a dump.
Between two such points a task is atomic, and that is the grain of every
action here.

- A handler registers its connection, restores the device's filter (cache, then
  latest row, then a new one), installs it and reads messages. Live frames go
  to `enqueue_live`, dumps to `enqueue_backlog_chunk`.
- The one `queue_worker` takes an item, restores a filter itself if there is
  none, fuses, pushes to the registered connection, writes the cache, starts
  a detached persistence task and calls `task_done()`.
- Persistence tasks write one at a time under a lock.
- Filters are shared by handlers (which replace them), the worker (which
  fuses into them) and `POST /device/{id}/mode` (which changes them in place).
- The dashboard's handlers share one socket, one interval handle and one mode, and
  clicks arrive while a handler awaits a permission or a token.
- `init_db` runs on one connection before the worker starts, on a schema that an
  earlier version, or an earlier start that was killed, has left.
- In the migration, invocations share nothing but the tables; they race, die
  and are delivered again.

### What is hard

Interleavings at awaits (a state that is read, then installed over a newer
one; a late `finally` of an old handler); the bounded queue filled by dumps and
live frames; order (live before backlog, `seq` against `timestamp`); restarts
that lose queue, filters and pending writes but not cache and database;
Redis outages, lost answers and expiry; exceptions between `get()` and
`task_done()`; thresholds and clamps of the filter; conditional writes and
redeliveries of the Lambda path; a migration that ignores every error and may be
killed between two statements, on databases that disagree about what one
transaction is; clicks during an await of the dashboard. `PROJECT.json` lists
each at its line with the property that covers it.

## 2. The modules

| Module | Models | Instance |
|---|---|---|
| `IngestionQueue` | queue_manager.py; it is at once the contract of the queue | `MCIngestionQueue` |
| `TrackingServer` | websocket.py with the queue (`INSTANCE IngestionQueue`), REST upload, cache, database, restarts | `MCTrackingServer` |
| `CacheManager` | redis_client.py over a Redis that fails | `MCCacheManager` |
| `KalmanFilter` | motion decision, steps, time and serialization of one filter | `MCKalmanFilter` |
| `LambdaStores` | state_store.py, trajectory_store.py, connections_store.py | `MCLambdaStores` |
| `Dashboard` | the script in main.py: buttons, intervals, sensors, sockets, badge | `MCDashboard` |
| `TrajectoryDatabase` | `init_db` in database.py, start and stop in main.py, the rows of crud.py | `MCTrajectoryDatabase` |
| `TimeSync` | time_sync.py, with its theorems; no state, no instance | |
| `IngestionQueueProofs`, `TrackingServerProofs`, `KalmanFilterProofs`, `LambdaStoresProofs`, `TrajectoryDatabaseProofs`, `CacheManagerProofs`, `DashboardProofs` | theorems and proofs | |

**IngestionQueue.** `queue` is the heap as a set; `Foremost` is what `get()` may
return, by the order `IngestionItem` generates, ties left open. `BacklogRun` is
the stretch of `enqueue_backlog_chunk` between two suspensions: to the end of
the slice or to a full queue. `put()` never raises `QueueFull`, so the break in
the code is dead and a producer waits. `Reset` is a new process. In the code
a chunk is a list; here it is a set that `sorted()` orders, and a packet is dumped at
most once. `LivePacket` is what live frames may carry.

**TrackingServer.** A filter is abstracted to the packets that have changed it and
to whether covariance and window are those of that history (`exact`).
`process_sample` has changed the filter by the time it raises, so a `Malformed` packet
stays in the live filter (`Fuse`), is neither cached nor persisted with it, and
goes when the next restore brings the cached state. `pc` and
`loc` are the program counters and local filters of handlers and worker. The
restore is three actions (cache answer, database answer, install), as handlers
and worker run it. `Env` says what an instance lets the environment do:
overlapping or busy reconnects, backlog, expiry, eviction, outages of Redis,
database errors, restarts. `cache` is the state in Redis and `memory` that in the
fallback store, which dies with the process. Under `"outage"` a set may go to either
or, timed out after it was executed, to both (`SetCached`), and a get may be answered
by either (`CacheAnswers`), so also with a state whose row is still to be written;
`CacheManager` bounds the age of such an answer. `lost` is history: the devices
whose state Redis has once lost. `LatestState` is what `GET /device/{id}/state`
returns. Each property is checked under the widest `Env` it holds for, and
section 6 says which behaviour breaks it beyond that. The abstract specification is
the queue's: `UsesQueue == Q!Spec` with `Producer <- Conn \cup Upload` and
`submitted <- dumped`.

**CacheManager.** Values are version numbers, written in order by the worker,
the only caller of `set_live_device_state`. A set on Redis is sent, executed and
answered in separate steps; a call may raise after each, and then the same set
goes to the memory store. `kept` and `ended` are history: what the last
completed set left in its store, and when each version was last being set.
`is_redis_connected` is set by `connect()` only, as in the code.

**KalmanFilter.** Time in units of 1 ms, deviation of the acceleration
magnitude from 1 g in 0.1 m/s2; variance is compared multiplied out. Velocity
is zero, that of a walk, or what decay leaves of one; position is the time
advanced at a velocity. Attitude, heading and covariance are read by no decision
here. The worker fuses a packet (`ProcessSample`, which may raise after it has changed
the filter) and exports it after the send (`Export`), and a mode switch may come
in between: the filter as it is *then* goes to the cache (`cached`), the payload as it
was at the fusion to the database (`payload`). `Reload` brings back what was cached,
not what the filter is now. `rows` holds the rows of the greatest time only, those
that `crud.py:18` can return; a row has the present time for a timestamp of 0
(`Now`), and rounding may have taken the last of a coasting velocity (`Rounded`).
`twin` is a filter that gets the same packets and mode switches and is never restored;
`unsaved` says in what the filter differs from the cached state, `lost` in what
restores have made it differ from its twin.

**LambdaStores.** A STATE item has a filter (its fused packets and
`last_timestamp`) and a `pending_mode`. Writes are atomic and their conditions are
evaluated on the item; reads are eventually consistent, as the code asks for no
other: `GetDeviceState` returns any version the item has ever had (`versions`), and
raises on one without a filter, as `from_state_dict` does. `index` is
`device_id-index`, a global secondary index, which takes over the changes of the
table late and in any order of the connections (`IndexCatchesUp`). The
handlers are stubs, so `Job`s stand in for them: get, fuse, conditional put,
save the points, in the order the comments of the handlers announce. Invocations
die anywhere and are delivered again. Sort keys compare as strings; a query returns
the one sequence of the items of a partition that they order (`Sorted`), up to its
limit or to the end of a `Page`: `LastEvaluatedKey` is not followed.

**Dashboard.** `page` holds the variables of the script and the intervals that
run; `SetMode` and `TogglePhoneSensors` are the click handlers up to their first
await that really waits, `PermissionGranted`, `TokenArrives` and so on what comes
after it. A click's number names its interval and its handler, so an interval whose
handle was overwritten (a stray) can be told. `overlaps` counts the clicks that
started something while another handler waited. A socket that closes first stops
being OPEN (`Closing`: readyState CLOSING, nothing is sent any more), and the badge
follows later, with `onclose`.

**TrajectoryDatabase.** A schema is the set of columns of `device_trajectories`;
`"base"` stands for those every version has known. Each statement of `init_db` is an
action on what its connection has `seen`; SQLite commits each at once,
PostgreSQL keeps them in one transaction, which an error aborts: every later
statement fails, and COMMIT rolls back without raising. `Stop` kills the process
anywhere. `swallowed` is history: this start ignored an error that was not that of
an existing column. `Save`, `History` and `LastKnown` are crud.py on the rows of one
device, `ShownAsLatest` the button of the dashboard that reads them.

**TimeSync.** The answer of the server, round trip and offset as operators on
integers; the offset is kept doubled. A request is a record that may lack
`t_client_send`; what it has there is echoed, a null too.

Definitions marked `[mutant]` are not part of the models: each is a plausible
bug in the definition that follows it, kept to show that a property notices it.

## 3. The runs

| Run | Question | Bounds | Size or environment |
|---|---|---|---|
| `QueueContract` | Do books, order, slices and draining hold whatever producers, worker and restarts do? | 2 producers, 3 + 1 packets of 2 devices with a tie, 2 of them also as live frames, 2 slots, slices of 2 | also liveness |
| `ServerSafety` | Are rows consistent and is the queue used as specified when everything may happen? | 2 connections of one device, 1 upload, 2 packets, 1 slot | all of `Env` |
| `ServerRestore` | Do copies of a filter stay ordered, is what a restore installs what the cache holds, and do neither filter nor answers roll back? | 2 devices, 3 connections, 4 packets, two of which make fusion raise | quiet reconnects, Redis answers, states expire; 1.3 x 10^6 |
| `ServerLiveness` | Is every packet accounted for and eventually stored, and does the registry name running handlers only? | 2 packets, 1 upload | no restart, no database error |
| `ServerUnregistered`, `ServerBusyReconnect` | Section 6 | 1 device | violation |
| `Cache` | Is what was set returned until it expires, from either store, and does every call end? | 1 key, 2 callers, TTL 1, clock to 2, 2 versions | 10^5 |
| `Kalman` | Rest, steps, time and restores over all short streams | window 2, 3 packets of 12 kinds; switches, reloads, raising packets and lost rows without bound | 2.9 x 10^6 |
| `Stores` | Are redeliveries, races, lagging reads, reconnects and keys handled? | 3 jobs (one of two packets), two of them delivered twice, 2 connections, pages of 3 points | 1.8 x 10^6 |
| `Dashboard` | Does the page send what it shows, and can it be stopped? | 2 modes and the phone, 4 clicks, all three kinds of devices | 9 x 10^6 |
| `Database` | Do starts, kills and errors leave a schema that serves, and never take anything away? | both databases, any older schema, 3 rows, 2 times | kills, errors, no TimescaleDB |
| `DatabasePostgres` | Can a new PostgreSQL be used once "System ready" is logged? No (section 6) | no kills, no errors | violation |

Why the bounds are enough. *Queue*: with slices of two, a chunk of three packets is
no multiple of a slice, and with two slots a slice of two producers and live
frames fills the queue in its middle, with the tie of two devices in the heap; what
more of each adds is repetition, and
the safety properties are proved for all values (section 5). *Server*: one slot
makes every dump wait; two connections are what a race of an old and a new handler
needs; three packets let a filter be ahead of the cache and that of the database; one
raises between two that do not, and a second device, of which the only packet
raises, shows that devices do not disturb each other. *Cache*: a
clock of two ticks and a TTL of one have an entry before, at and after its
expiry; two versions distinguish latest and stale. *Kalman*: two packets fill a
window of two and the third slides it; timestamps lie at 0 (taken for none), 4 ms
apart (below the clamp of 10 ms), just beyond 0.35 s and beyond the cap of 1 s.
*Stores*: redelivery needs two
deliveries, a race two jobs, sequence numbers 8 to 11 cross from one to two
digits, and four points do not fit a page of three. *Dashboard*: four clicks are
start, overlapping start, a third, and a stop;
modes differ only in the samples they send. *Database*: the schemas are all
there are (no table, and every set of the added columns), and starts may follow
each other without bound; two rows are what one more can push out of a history of
two. The connections of the device with two of them are interchangeable, and so are
those of `Stores` and the modes of the dashboard: symmetry sets, in runs without
liveness only.

Every passing run checks for deadlock, except those of the server, where all
connections may have closed and every packet have been sent, and of the dashboard,
where nobody clicks any more. `CacheManager`,
`KalmanFilter`, `LambdaStores` and `TrajectoryDatabase` never stop (mode switches,
outages, reloads and restarts are always possible).

**Fairness.** The event loop runs every task that can go on: weak fairness of the
worker, the persistence tasks, restores (cache and database answer or raise) and
of the rest of a dump. A producer in `put()` is woken by each `get()` but a live
frame may take the slot first, so weak fairness would not help it; strong
fairness says that live frames do not win for ever: they come at 10 Hz, and the worker
takes its next item as soon as it is through with one. That `send_text` ends, by
returning or raising, is assumed too: uvicorn closes a connection that does not
answer its pings. Clients and failures have
no fairness. In `CacheManager` calls end because `redis.asyncio` is opened with a
socket timeout. `BacklogDrains` in addition assumes that live frames eventually
pause.

## 4. Properties

- *Queue*: `Accounted` (books and bound), `EachOnce`, `LiveFirst`, `BacklogInOrder`
  (if a device's clock agrees with its `seq`), `YieldsEverySlice`, `BacklogDrains`.
- *Server*: `OneRowPerPacket`, `UsesQueue` (refinement), `CopiesOrdered`,
  `NothingRollsBack` (neither a filter nor an answer to `GET` state),
  `RestoresCurrent`, `RegistryIsLive`, `NothingLost`, `EventuallyStored`.
- *Cache*: `ReadsLatest`, `RespectsTtl`, `CallsReturn`.
- *Filter*: `RestIsLocked`, `StepsSpaced`, `NoTimeCountedTwice`, `SettlesAtRest`,
  `ReloadsAreInvisible`.
- *Stores*: `FusedOnce`, `AcceptedStays`, `StateMovesForward`, `PushReachesNewest`,
  `HistoryChronological`.
- *Dashboard*: `StraysBounded`, `ShownAndSentAgree`, `ListensWhileStreaming`,
  `BadgeTruthful`.
- *Database*: `ServesAfterCleanStart`, `MigratesForward`.

A few definitions state what the code does *not* keep; no passing run checks
them, and section 6 names each.

## 5. What is proved

TLAPS proves, from the named `ASSUME`s on the constants only:

- **Queue** (`IngestionQueueProofs`): `TypeCorrect`, `AccountedHolds`,
  `EachOnceHolds`, `LiveFirstHolds`, `BacklogInOrderHolds`,
  `YieldsEverySliceHolds`. The inductive invariant is `IndInv`: types,
  finiteness of `queue` and `hand`, `EachOnce` and `Accounted` together.
  `Accounted` alone is not inductive: a run of the loop adds `RunEnd - done` to
  `unfinished`, and only `EachOnce` says that the heap grows by as many items
  (`CountDistinct`). `BacklogInOrder` needs in addition that the rest of a chunk
  never precedes what is enqueued (`ChunksSorted`), and the agreement of clock and
  `seq` to turn the heap's order into the chunk's. `YieldsEverySlice` follows
  from `NoBoundaryInside`: a run of the loop, from wherever a full queue interrupted
  it, passes no end of a slice.
- **Server** (`TrackingServerProofs`): `ServerUsesQueue`, the step simulation that
  gives the refinement; `QueueStaysAccounted`, by which the theorems of the queue
  hold in the composed server; `ServerTypeCorrect`, strengthened by where the
  worker's locals are meaningful (`WorkerState`: it holds an item exactly when it is
  not idle); `RegistryStaysLive` if the database answers; `ServingStaysRegistered` if
  moreover handlers of a device do not overlap, from `OneHandler`: a handler that
  runs is the registered one.
  `OneRowHolds`, in every environment: a packet that was sent is either busy in
  the queue or has a row (`RowInv`), since live frames and dumps are different
  packets (`Origins`), `EachOnce` of the queue keeps a dump from entering twice,
  and what the worker stores contains its packet (`Fresh`).
  `CopiesStayOrdered`, `RestoresStayCurrent` and `NothingIsRolledBack`, if Redis
  answers and devices reconnect when quiet (`Warm`; expiry, eviction,
  crashes, failed reads and writes, raising packets and overlapping handlers are
  allowed, for any number of each). `CopyInv`: but for the device whose packet is
  being fused, and for packets that raised, filter and cache agree (`FiltersFollow`);
  every row is behind them (`RowsCached`); and what an agent has read is what is
  cached, unless that is gone by now (`RestoreInv`). It needs `RestoresQuiet`: while
  a connection restores, nothing of its device gets on its way, so no store can
  outdate what it has read. The first and the last speak of devices not
  in `lost`: what a row restores is behind what was once cached, and section 6 says
  by how much. `NothingGetsLost`, if writes succeed, the process runs and
  every packet can be processed (`Reliable`), from `PlacedInv`.
- **Filter** (`KalmanFilterProofs`): `KalmanTypeCorrect`, `RestStaysLocked`,
  `StepsStaySpaced`, `ReloadsStayInvisible`, `TimeNeverCountedTwice`, `StillSettles`,
  for every set of packets and every window, and for mode switches, reloads, row
  restores, raising packets and failed writes in any order. All but the last hold
  whatever the detector decides. They rest on
  `ProcessedFacts` (what one packet may change) and `RoundTrip` (export and
  import are inverse on what fits the window). `RestIsLocked` is not inductive
  without the same of payload, cached state and rows (`LockInv`). `CacheInv` relates
  the filter to what a reload would bring: with nothing unsaved they are equal, with
  only a switch unsaved they agree on window, steps and times, which is what
  `ReloadsAreInvisible` promises. `StepsSpaced` needs that
  `last_step_time` is the time of the last step, in the filter and in the cache
  (`StepInv`, while at most a switch was lost). The bound on time needs the same
  bound of everything that a restore may bring, cached state, payload and each row,
  whichever of them is the older one, and distinguishes
  whether time has moved on from 0 (`TimeInv`, `Within`). `SettlesAtRest` needs that
  the last `still` samples of the window are zero, in the cache too while nothing
  is unsaved (`SettleInv`, `Calm`), and that a window of zeros has no
  variance (`ZerosDoNotVary`): the two sums of `np.var` are folds, and a smallest
  set of indices over which one is not zero could be made smaller.
- **Stores** (`LambdaStoresProofs`): `StoresTypes`, `JobsFusedOnce`, `AcceptedJobsStay`,
  `StateOnlyMovesForward`, `PushesReachNewest`, `HistoriesChronological`,
  `HistoryTakesTheEarliest`. `StoreInv`: every accepted job is
  behind the stored `last_timestamp`, hence rejected from then on; and what a
  not stale invocation has read, whichever version that was, is what is stored,
  hence its put keeps what was
  accepted. `ConnInv`: an item, and an entry of the index however old, carries the
  position of its `$connect`, and the item goes only with its own `$disconnect`; so
  once the index has caught up with the newest connection, nothing it still shows
  of the others outranks it. `HistoryChronological` follows from `PointInv`
  (every item is that of a packet) and from lemmas about keys: `str(seq)` is
  defined by its recursion (`DigitsDef`) and tells numbers apart
  (`DigitsInjective`), strings are strictly and totally ordered (`StringsTotal`,
  `StringsTransitive`), hence the items of a partition are (`ItemsOrdered`), and the
  sequence that a query returns exists and misses none of them (`SortedExists`,
  `SortedFacts`). `HistoryTakesTheEarliest`, for every limit and page: what a
  history leaves out is after all it returns, and something is left out only when
  the limit or the page is full (from `HistoryFacts`).
- **Cache** (`CacheManagerProofs`): `CacheTypes`, `GetsReadLatest`,
  `GetsRespectTtl`, for any keys, tasks, TTL and sequence of outages. Both
  properties speak of what a `get` has just returned; `CacheInv` says what makes it
  right. `FloorsCovered`: what the last set that returned left in its store, and
  what a `get` under way found there when it began, is still there or something
  newer is, unless it is the memory store and it has expired. `StoresDated`: no entry
  is newer than the last set or lasts longer than the TTL from when its set
  was at work. `SetUnderWay`: there is one writer, so a set that Redis has executed
  but not answered is what Redis holds when it is repeated on the memory store.
- **Dashboard** (`DashboardProofs`): `DashboardTypes`, `StraysAreOwed`,
  `ListenersAreOwed`, `ShownIsSent`, `BadgeIsTrue`, for any modes and any number of
  clicks. Types need that a click's number names one interval and one waiting handler
  (`Ids`), and that the handler of the sensors is installed exactly while the phone
  streams (`Listening`). `StraysBounded` is not inductive: a waiting handler may
  start one more interval. `Owed` counts running intervals and waiting handlers
  together, and listeners together with handlers that wait for the phone:
  each is at most one more than the clicks that overlapped. `ShownAndSentAgree`
  needs that a waiting handler finds the page as its click left it when no click
  overlapped (`Undisturbed`); `BadgeTruthful` that only the last socket lives until a
  second one is made (`OnlyLastLives`).
- **Database** (`TrajectoryDatabaseProofs`): `DatabaseTypeCorrect`,
  `CleanStartServes`, `MigrationGoesForward`, over any sequence of starts, kills
  and errors. `ServesAfterCleanStart` speaks of the end of a start only;
  `Progress` says what is known on the way: nothing seen is less than what is on disk,
  a column that was tried is there unless an error was met, and on a PostgreSQL
  table that lacks both columns the only errors are recorded ones.
- **Time** (`TimeSync`): `OffsetWithinHalfRtt`, for all delays and clocks that run
  at the same rate; `RttWithoutReading`, what a request without the field gives.

The assumptions say what the code takes for granted: capacities are positive,
packets are finite in number and belong to devices, the worker is no connection,
a chunk has a last packet, and `None` is no value (of the cache: no entry).

Induction over data is done by hand where a proof needs it: a set of numbers that
is not empty has a smallest member (`Smallest`, from the library's well-founded
orders), and the smallest counterexample is refuted.

Only model-checked: liveness (`BacklogDrains`, `EventuallyStored`,
`CallsReturn`), which is out of the prover's reach, as is `ENABLED`; and the variance
of a window that is not all zeros, of which no theorem needs to know more than
that it is some decision.

## 6. Where code and documentation disagree

Shown by a run that must find a violation:

1. `ServerUnregistered`: the late `finally` of an old handler unregisters the new
   connection (`websocket.py:115`); its positions are no longer pushed.
2. `ServerBusyReconnect`: a restored state is installed over a filter that has
   fused a packet since (`websocket.py:82`).
3. `DatabasePostgres`: on a new PostgreSQL the ALTER TABLE of a column that
   `create_all()` has just made aborts the transaction, and the COMMIT at its end
   rolls the tables back (`database.py:35`), against `our_project.md:116` and `:203`.
   "System ready" is logged with no table. An older table with exactly one of the
   columns never gets the other.

Seen while modelling, with the definition or the change of `Env` that shows it:

- A live frame is dropped because backlog fills the queue (`queue_manager.py:56`;
  `LiveNotStarvedByBacklog`), against the comment at `queue_manager.py:34`.
- After backlog was fused, the row with the latest time is not the latest state;
  a restore from it rolls the filter back (`crud.py:18`; `FilterNeverRollsBack`
  without the exception of `lost`, with `"expire"` next to `"backlog"`).
- A restore that raises ends the handler outside its `try`, so its registration
  stays (`websocket.py:82`; `RegistryIsLive` with `"dbfail"`).
- The payload that is persisted lacks the covariance, so a restore from a row
  starts from the default although `websocket.py:40` reads one
  (`exact` in `ReadDb` of `TrackingServer`). The row restore also forgets the step
  window and the time of the last step (`FromRow` of `KalmanFilter`).
- A mode switch changes the filter in memory only (`rest_routes.py:180`): a
  reconnect or restart before the next packet brings the cached state back, and
  what was answered as "applied" no longer holds (`ReloadsAreInvisible` with `filter = twin`
  under `lost \subseteq {"switch"}`).
- A packet on which `process_sample` raises (REST allows one without magnetometer)
  has already moved time, position, steps and window
  (`kalman_filter.py:163`-`176`). The point is neither cached nor stored, but the live
  filter keeps it until a reconnect takes it away (`FilterNeverRollsBack` without
  `\ Malformed`).
- A chunk is sorted by `(seq, timestamp)` but the heap orders by `(timestamp, seq)`
  (`queue_manager.py:71`, `:16`): where a device's clock has run backwards, the heap
  undoes the order of the sequence numbers (`BacklogInOrder` without `ClockAgrees`).
- Packets are not fused in order: live frames overtake backlog of the same
  device (`queue_manager.py:48`; `FusedChronologically`).
- After an outage of Redis the memory store keeps what was set during it; one
  failed get later returns that older state (`redis_client.py:73`;
  `NeverStepsBack`), also to `GET` of the current position.
- `is_redis_connected` never changes after `connect()`, so `/health` reports Redis
  as up during an outage and as down after it recovers.
- The memory store is called an LRU cache but evicts nothing; an entry goes only when
  it is read after its expiry (`redis_client.py:13`).
- `POST /device/{id}/mode` changes the filter, but the next packet is classified
  by its own mode (`rest_routes.py:173`).
- `get_trajectory_history` sorts ascending and then limits: it returns the oldest
  points, not the "recent" ones of its docstring, also where the dashboard reads "the
  most recent record" (`crud.py:110`, `our_project.md:162`; `LoadsLatest`). So does its
  port to DynamoDB (`trajectory_store.py:103`; theorem `HistoryTakesTheEarliest`).
- Points are saved with a time that has a zone in a column without one
  (`crud.py:48`). The driver of PostgreSQL refuses that, so there every save raises
  and is only logged; SQLite drops the zone, and `point.time.timestamp()` reads
  what is left as local time, so a server whose zone is not UTC restores filters
  with shifted times (`crud.py:30`).
- `README.md:148` promises SQLite where PostgreSQL is missing; no code does that, the
  start fails at `create_all`.
- `get_device_state` promises what `from_state_dict` takes, but
  `set_pending_mode` or `consume_pending_mode` on a new device creates an item
  without `x` and `P` (`state_store.py:40`; `StateIsCompatible`).
- `put_device_state` replaces the item and with it a mode that was set after the
  state was read (`state_store.py:87`), against "always applied eventually" at
  `state_store.py:101` (`PendingModeKept`; the handlers that would do so are stubs).
- A click on a mode while another click waits for its token leaves two streams
  running, one of which no button stops (`main.py:379`; `StraysBounded` says how
  many). Every new socket also reports to the one badge: the close of a
  replaced one shows DISCONNECTED over an open connection (`main.py:335`;
  `BadgeTruthful` without `~ doubled`).
- A rejected token request leaves the old mode highlighted with its interval
  cleared; the next click on it only turns it off (`main.py:371`;
  `ShownAndSentAgree` without `~ failed`). The page never reconnects by itself after a close.
- The lookup of the connection for a push reads a global secondary index, which
  lags: just after `$connect` the push goes to an older connection of the device or
  to none (`connections_store.py:75`; `PushReachesNewest` without the condition on
  `index`), against its docstring, "Returns None if the device has no open connection
  right now".
- `get_device_state` asks for no consistent read, so an invocation may continue from an
  older filter, and a newer packet's conditional put then drops what was accepted in
  between (`state_store.py:42`; `AcceptedStays` without `raced`).
- A history longer than one page of a query is cut there, whatever the limit
  (`trajectory_store.py:107`; `HistoryTakesTheEarliest`).
- Between the closing handshake and `onclose` the badge shows CONNECTED while the
  ticks send nothing any more (`main.py:285`, `:335`; `BadgeTruthful` with
  `"open"` alone).
- At equal times, sequence 10 sorts before 9 (`trajectory_store.py:40`;
  `HistoryInSequence`).

## 7. Assumptions and limits

- Device times are not negative; a packet is sent once, except that live frames in
  the queue model may repeat. Clocks tell two `$connect`s apart.
- A Redis command that timed out and was not executed by then is not executed
  later. Redis loses its data only between calls.
- The server's zone is UTC (the container of `docker-compose.yml` sets none).
  `TrackingServer` and `KalmanFilter` take the database to be SQLite, the default,
  with a schema that serves.
- PostgreSQL refuses statements after an error until the transaction ends, and its
  driver commits an aborted transaction without raising. The tables of
  `device_sessions` and the primary key of the hypertable are read by no query here.
- DynamoDB writes are atomic, reads of the state and of the connection index lag
  (section 2). Queries of the trajectory are taken of one state of the items: a lagging
  one is one of an earlier state. A page is a fixed number of items, in DynamoDB one of
  bytes. Puts of one batch may be reordered, which no definition depends on.
- ISO timestamps of the sort keys have one form of fraction and zone, so they
  compare like the times they stand for.
- Rows round to 4 digits; only what that can take of a coasting velocity is
  modelled. In `KalmanFilter` a reconnect while the worker holds a packet is left
  to `TrackingServer` (`ServerBusyReconnect`); a restart may come at any point.
- Packets have the types the handlers expect. One whose `seq` or `timestamp` does not
  compare with those in the queue makes `heappush` raise, which leaves an item
  that is not counted and lets a later `task_done()` raise in the worker.
- `ServerLiveness` sends no packet that makes fusion raise: the worker drops one
  (`WorkerGivesUp`), so it is never stored.
- Not modelled: attitude, heading, covariance and coordinates (real numbers,
  read by no decision), JWT checks (stateless),
  configuration, infrastructure declarations, the simulator and the deck generator.
- `save_trajectory_batch` of `crud.py` has no caller. The 25-item requests of
  `batch_writer` and their partial failure are left out.

## 8. Plan

In this order:

1. `Dashboard`: the samples sent on each tick and the path drawn from the answers,
   and its composition with the server's `seq` and mode.
2. An abstract cache (may lose, may return an older state) that `CacheManager`
   implements and `TrackingServer` uses in place of `CacheAnswers`.
3. `batch_writer` in `LambdaStores`, with its partial failures.
