# A TLA+ model of gint

gint is a Go library of building blocks for web services on gin: middlewares,
sessions, a distributed lock, ID generation, message queues, schedulers,
discovery and load balancing. Most of the parts are small, keep their own state
and are used by many goroutines at once. What is hard about them is not the
sequential code, which the repository tests, but the orders in which goroutines,
timers, remote servers and crashes can interleave. This project models those
parts in TLA+, checks them with TLC on small instances and proves the central
facts with TLAPS for every instance.

Paths below are relative to `src/`.

## 1. Inventory

### Parts that carry state

| Part | Code | State | Operations |
|---|---|---|---|
| Circuit breaker | `middlewares/circuitbreaker/middleware.go` | eight atomics: state, two counts, last failure, statistics, half-open slots | `Allow`, `RecordSuccess`, `RecordFailure`, `transitionTo`, slots |
| Redis lock | `lock/redis/redis.go` | key in Redis; per process the lock value and the cancel function of the watchdog, both by lock key | `TryLock`, `Lock`, `Unlock`, `Extend`, `TryLockWithRetry`, watchdog |
| Snowflake | `snowflake/snowflake.go` | timestamp and sequence under a mutex | `New`, `Generate`, `Parse`, string forms, node ID |
| MapReduce helpers | `mr/mr.go` | semaphore, wait group, channel, first error of one call | `MapReduce`, `Map`, `Filter`, `ForEach`, `FlatMap`, `Partition`, `Reduce` |
| In-memory queue | `mq/memory/memory.go` | topics, partitions (log and notification channel), consumers with offsets, a poll goroutine and a channel each | `CreateTopic`, `DeleteTopics`, `Producer`, `Consumer`, `Send`, `SendWithPartition`, `poll`, `Close` |
| Broker clients | `mq/kafka/kafka.go`, `mq/rabbitmq/rabbitmq.go` | connection, local channel | send, consume, acknowledge, `Close` |
| Sessions and JWT | `session/**`, `jwt/manager.go` | session data and expiry in memory or Redis; token pairs carry the session ID | `NewSession`, `Get`, `Set`, `Destroy`, `RenewToken`, cleanup |
| Authentication | `middlewares/auth/middleware.go` | none of its own; merges session and claims into the context | `Middleware`, `GatewayMiddleware`, `OptionalMiddleware` |
| Rate limits | `middlewares/ratelimit/*`, `middlewares/activelimit/*` | counters per key with a cleanup goroutine; an atomic count | `Allow`, cleanup; admit, release |
| Timeout | `middlewares/timeout/middleware.go` | one gin context and its index shared by two goroutines | deadline, `c.Next()`, abort |
| Delay queue | `delayqueue/delayqueue.go` | sorted set in Redis or a slice; running flag, cancel function | `Push`, `Start`, `Stop`, `poll`, handlers |
| Cron | `cron/cron.go` | entries, running flag, wait group | `AddJob`, `Remove`, `Start`, `Stop`, `run`, `runJob`, `Next` |
| Discovery | `discovery/types.go`, `discovery/etcd/etcd.go` | registrations with leases, watchers | `Register`, `Deregister`, `Watch`, `Close`, `keepAlive` |
| Load balancing | `loadbalance/loadbalance.go` | index, current weights, connection counts, ring | `Select`, `Release` |
| Memory cache | `cache/memory/cache.go` | items with expiry, capacity | `Set`, `Get`, `SetNX`, `GetOrSet`, eviction |
| Log shipping | `logger/mq_writer.go` | buffer channel, batch, timer | `WriteLog`, `run`, `Close` |
| HTTP client | `ghttp/client.go` | retry loop of one call | `Do` |
| Server | `server/server.go` | listeners, hooks | `Run`, `Wait` |
| Configuration | `config/config.go` | merged tree, global default, once | `Load`, `Init`, `LoadApp`, `Get*` |
| Log files | `logger/logger.go` | file, size, backups | `Write`, `rotate`, `doCleanup` |
| Request filters | `middlewares/{ipfilter,adminauth,bodylimit,csrf,metrics}` | in-flight gauge | one decision per request |
| Call chain | `ghttp`, `grpcclient`, `grpclog`, `requestctx`, `gctx`, `middlewares/trace` | headers and metadata of a request | inject, extract |

Parts without state across requests, or that only pass calls on (validation, health
checks, database helpers, reporting middlewares, Swagger), are listed in
`PROJECT.json` and not modelled; see section 6.

### How the parts interact

* The auth middleware reads tokens through a session provider, which parses them
  with the JWT manager and looks the session up in memory or Redis; renewal writes
  a new token pair under the same session ID.
* The circuit breaker and the rate, activity and timeout middlewares wrap the same
  handler; each shares one object between all requests.
* `MQLogWriter` sends batches through a producer of `mq`.
* The load balancers select among the instances a discovery watcher delivers.
* The lock's watchdog goroutine and its callers share two maps keyed by the lock key.

### What is hard

`PROJECT.json` lists the hazards, each at its line. In short: sequences of atomics
without a critical section (circuit breaker); lost replies, expiry and crashes
around a remote lock; a clock that jumps (Snowflake, limiters); goroutines that wait
for each other through bounded channels (`MapReduce`, etcd watch); data removed
while another goroutine still holds the object (topics, sessions, limiter counters);
acknowledging or removing a message before it is processed (delay queue, Kafka);
shutdown racing with start or with running work (cron, delay queue, log writer).

### What makes each part correct

* Circuit breaker: no threshold crossing is lost, probes stay within their limit, no
  slot leaks, and sequential use follows the configured thresholds exactly.
* Redis lock: a lock disappears only by its owner's `Unlock` or its TTL; an abandoned
  lock is freed; no watchdog outlives the acquisition it belongs to unnoticed.
* Snowflake: IDs are unique and increasing, and `Parse` inverts `Generate`.
* MapReduce: bounded concurrency, every item exactly once, no swallowed error, return.
* Queue: per consumer and partition, every message once and in order; wake-up.
* Sessions: a destroyed or expired session is not found again; a renewed one is.
* Limiters: admitted requests per window; counts return to zero.
* Delay queue and cron: nothing before its time, everything due eventually, nothing
  after `Stop` returns.
* Discovery: a lost lease is followed by a new registration; `Close` leaves no key behind.

## 2. Modules

| Module | Role |
|---|---|
| `CircuitBreaker` | the breaker, one action per atomic operation |
| `BreakerPromise` | abstract breaker: streaks and states, no counters to reset |
| `CircuitBreakerSequential` | refinement mapping from one-goroutine use to `BreakerPromise` |
| `MCCircuitBreaker` | symmetry set for the breaker's violation runs |
| `CircuitBreakerProofs` | theorems about `CircuitBreaker`, and the refinement step by step |
| `RedisLock` | processes, goroutines, watchdogs and the Redis server on one key |
| `MCRedisLock` | two goroutines of one process, one of another |
| `RedisLockProofs` | theorems about `RedisLock` |
| `Snowflake`, `SnowflakeProofs` | generators, theorems |
| `MapReduce`, `MapReduceProofs` | the helpers of `mr.go` and theorems |
| `QueuePromise` | abstract queue: logs that grow at their end, consumers that receive the next message |
| `MemoryMQ`, `MemoryMQProofs` | the in-memory queue and its mapping to `QueuePromise`; theorems, with the refinement |
| `MCLockAndQueue` | lock and queue for TLC: key hashes, partitions and two scenarios of the queue |
| `Sessions` | both session providers, tokens, carriers, cleanup, authentication middlewares |
| `RequestPipeline` | handler chain on pooled gin contexts: active limit, metrics and filters, timeout with its goroutine, handler |
| `RateLimit` | fixed and sliding windows with their cleanup, Redis limiter |
| `CallChain` | identity and trace of a request from the gateway through HTTP and gRPC services |
| `Requests` | the four modules above side by side |
| `MCRequests` | `Requests` and the breaker for TLC |
| `RequestsProofs` | theorems about the four inside `Requests` |
| `ServiceCalls` | load balancers, transport pool and the retry loop of `ghttp` |
| `Cache` | memory and Redis caches under a writer and readers in `GetOrSet` |
| `Brokers` | Kafka and RabbitMQ clients through rebalances, lost connections and crashes |
| `CronScheduler`, `DelayQueue` | the schedulers with every overlap of starting and stopping |
| `LogRotator`, `Configuration` | log files with rotation and cleanup; layered configuration and the global default |
| `Facilities` | the seven modules above side by side |
| `MCConfiguration`, `MCFacilities` | files and environments for TLC; `Facilities` and Snowflake for TLC |
| `FacilitiesProofs` | theorems about the seven inside `Facilities` |
| `Discovery` | etcd and memory registries, keep-alive, watch, close |
| `LogPipeline` | from the logger through buffer and batches to a producer |
| `GracefulServer` | `Server.Run` and `GracefulShutdown` on one signal |
| `Background` | the three modules above side by side, with fairness |
| `MCBackground` | `Background` and `MapReduce` for TLC |
| `BackgroundProofs` | theorems about the three inside `Background` |

**Side by side.** The parts gathered in `Requests`, `Facilities` and `Background` share
no state in the code. Their composition therefore has a variable `part`, chosen by the
initial state: a behaviour runs one part in all its interleavings and leaves the others
where they start. Nothing is lost by this, since no part reads what another writes, and
TLC explores the sum of the parts' states instead of their product. The MC modules put two
independent specifications into one run in the same way, by a variable `group`.

### CircuitBreaker

The variables are the fields of `CircuitBreaker` (`state`, `failureCount`,
`successCount`, `halfOpenInFlight` and the statistics `requests`, `failures`), a
program counter per goroutine, the set of probes in their handler and a call counter
for the bound. `lastFailureTime` is only compared with `Timeout`; the Boolean `cooled`
is the result of that comparison, cleared by `RecordFailure` and set by
`TimeoutPasses`. Every atomic operation that another goroutine could observe is an
action: `AllowStart`, `AllowOpenCheck`, `AllowToHalfOpen`, `AllowAddSlot`,
`AllowUndoSlot`, the handler (which may panic, passing both `Record` calls), and the
operations of `RecordSuccess` and `RecordFailure`. `transitionTo` is `Swap` followed by
`ClearSlots`, two separate actions as in the code. The compare-and-swap loop of
`releaseHalfOpenRequest` is one action: a failed swap changes nothing.

`BreakerPromise` states what `Config` promises of a breaker, with one streak that
starts again at every change of state. `CircuitBreakerSequential` maps the breaker to it
for as long as no two calls overlap (`overlapped` is history): a call takes effect where
its `Record` function begins.

### RedisLock

`redis` is the value of the key, `owner` and `expired` are history: who stored each
token, and which ones Redis expired. `lockValues` and `watchdogMap` belong to the
process, as in the code, where both are keyed by the lock key alone. Values are random
in the code and are numbered tokens here, so a caller that passes the same
`WithValue` twice is outside the model. A goroutine's step (`pc`) follows `Lock`
(`Acquire`, `StoreLockValue`, `StartWatchdog`) and `Unlock` (`UnlockStop`,
`UnlockGetValue`, `UnlockEval`, `UnlockForget`); a watchdog's step (`wd`) follows its
loop (`WatchdogTick`, `WatchdogExtend`, `WatchdogFail`, `WatchdogDone`). Replies of
SETNX and of the scripts may be lost, `Unlock` may be repeated or given up after an
error, a key may expire at any time, and a process may crash and restart.
A goroutine only unlocks what it has locked.

### Snowflake

`Generate` holds the mutex throughout, so each of its outcomes is one action; only
`waitNextMillis` is separate, because the clock moves meanwhile. `SetClock` puts a
clock anywhere, forwards or backwards. `Restart` forgets timestamp and sequence. The
widths are constants: `maxNodeID` and `maxSequence` are 1023 and 4095 in the code.
`Pack` is the shifts and ors of `Generate` as arithmetic, `ParseID` the shifts and masks.
The sign bit is not reached in the 69 years the 41 bits of the timestamp last.

### MapReduce

One module covers the seven helpers because they share their skeleton; `helper` and
`len` are inputs chosen by `MapReduceInit`. The caller's steps are launching (semaphore, wait
group, goroutine), waiting or reducing, and returning; a worker runs the user's
function, stores or sends its result, releases the semaphore and leaves the group.
User functions may fail and the context may be cancelled at any point. `mapErrors` is
read without its mutex when the reducer failed: the model then lets the read see it or
not.

### MemoryMQ

The queue for one topic name; names do not interact. Topic objects are numbered,
because `DeleteTopics` only forgets the object that producers and consumers keep.
`SendTo` is `memTopic.append` up to the unlock and `SendNotify` the notification after
it; `inflight` holds the sends in between, which keep their producer's read lock, so
that `CloseConsumers`, the second half of the queue's `Close`, waits for them. The poll
goroutine of a consumer is at its `select` or inside `pullAll`: at the partition `at`,
with the rest of the copy (`batch`) still to push into `msgCh`. `Get`, the copy itself,
is part of the step that arrives at the partition: whatever is appended between the
arrival and the copy is as if appended before the arrival. `SelectPartition` keeps the
width of `int`: the smallest one is its own negation, and the negative remainder sends
its key to partition 0.
Messages are distinct objects; a caller that sends one object twice has its partition
and offset overwritten and is outside the model. `groupID` is stored and never read, so
every consumer of a topic gets every message, also within one group.

`QueuePromise` is what the interfaces of `mq/mq.go` let a user rely on: a message is added
at the end of a log that exists and not after `Close` has returned, and a consumer that
still reads receives of each log the next message, each once. It has no poll goroutine,
copy, channel, offset or notification. `MemoryMQ` maps to it by leaving these out; a send
takes effect in `SendTo`, a delivery where `Consume` takes the message from the channel.

### Requests: Sessions, RequestPipeline, RateLimit, CallChain

`Sessions`: a request verifies a token (a refresh token passes as an access token and
the other way round, as in the code), looks the session up, renews or evicts it under
the session's own lock, and runs a handler that may write to or destroy the session it
was given. `NewSession`, `Destroy`, `RenewToken` and the steps of
`cleanExpiredSessions` interleave with it. The memory provider removes a destroyed
session from the map; `Destroy` of the session object only marks it as expired. The
Redis provider's commands may fail and keys expire. `assured` is history: until when a
renewed session has to be found. `revived` names the sessions a late `RenewToken` or
`Set` has written to after their destruction. `DestroyedStaysOut` is about the session;
what its client can still do with the token is `LoggedOut`, which fails.

`RequestPipeline` follows gin's loop. A pooled context has the index of its chain
(activelimit; metrics with ipfilter, adminauth, bodylimit and csrf; timeout; handler);
`NextHandler` is one turn of `Next`, which increments the index and runs what is there, and
a middleware that calls `Next` is a frame on the goroutine that runs it. What it defers
happens when its frame is left, by `Return` or by `Panic`. The timeout middleware gives the
context to a goroutine of its own. When the deadline wins, gin returns the context to its
pool while that goroutine still has it: it may write into the response of the next request
and, since the index was reset, go on with that request's chain. `haunted` is history: the
requests that were given such a context. Their indices are incremented by two goroutines
without a lock, and `IndexAfter` lets the increment use any value read earlier
(`MaxRaces` times). CSRF tokens are attributes of a request; how a browser comes to have
them is left out.

`RateLimit`: a request reads the clock, loads its counter and decides under the
counter's lock, three steps; `cleanupLoop` judges a counter and deletes it in two.
`MaxLag` bounds how long a request may take between its look at the clock and its
decision: without a bound nothing holds, since a request of long ago may come to its
decision at any time. Admissions are numbered, and a sliding counter holds the numbers
of its requests, so that two requests of one instant are two. `RateBounded` speaks of
one counter object and of the distance between objects; a key may have two of them when
cleanup deletes one that a request has already loaded. For `SimpleLimiter` what the
third admits is at least two windows, each less the lag, after what the first did. For
`SlidingWindowLimiter` no such number holds: cleanup takes an empty list for an idle
counter, also one that a request is about to fill; that a key is admitted twice its rate is
what the run `sliding_limit` shows. Two requests of one instant that draw the same random
member are one member in Redis (`AllowShared`) and counted once. The expiry of the Redis
key, which comes more than a window after the last admission, is left out.

`CallChain` keeps where each value comes from instead of the value. The gateway does not
remove the headers a client sends: where it has no value of its own it passes the client's
on (`PassedOn`), and `IdentityKept` says so.

### Facilities: ServiceCalls, Cache, Brokers, CronScheduler, DelayQueue, LogRotator, Configuration

`ServiceCalls` keeps the counters and weights of the five balancers, the hash ring as
positions on a small ring, the transport pool's double check and the retry loop of
`ghttp` with the bodies it has to close. `currentWeight` keeps the weights of instances
that have left the list, so a list that changes can drive a weight beyond the total of
all; `WeightsBounded` gives the bound that holds for any number of changes. `Cache`
distinguishes the version of the data behind a key from what is cached; `GetOrSet` loads
between a `Get` and a `Set`.
`Brokers` takes the broker as external: Kafka delivers from the committed offset,
RabbitMQ what is not acknowledged, and a send may be stored without being confirmed.
`CronScheduler` numbers entries and loops, because `AddJob` replaces entry objects that
a loop still holds and a `Start` during `Stop` leaves two loops. `DelayQueue` models the
encoding of a message (split at colons), a score in milliseconds, a range whose upper bound
is the digits of a date and a pop by the exact score, a message that brings its own time, a
`cancel` that is nil or belongs to another consumer, and a mutex left locked by a panic.
`LogRotator` lets every call of the operating system fail that the code looks at: open,
stat, rename and write, which may also write a part of the line. `diskSize` is what `Stat`
would say, `fileSize` what the rotator believes. `Configuration` represents a tree by its
leaves; `Merge` replaces whole sections, environment values are strings, and a file may be
empty, or unreadable. `Init` publishes the default and looks it up again to load it, two
steps between which `LoadApp` may replace it. `SetNested` and `EnvTree` are recursive
functions over the keys of a name and the list of names, one step per turn of the loops in
`setNested` and `EnvSource.Load`.

### Background: Discovery, LogPipeline, GracefulServer

`Discovery` has etcd as external: leases, keys attached to them, events to a watcher.
`Register`, `Deregister`, `keepAlive` and `Close` are split at every request to etcd,
any of which may fail (`MaxFaults` in all), a `Put` also after etcd has carried it out: the
`Revoke` that follows (`RegisterUndo`, `KeeperUndo`) then deletes the key. `LogPipeline` follows an entry from the
non-blocking `WriteLog` through the batch to the producer. `GracefulServer` takes
`http.Server` as external.

## 3. Runs

| Run | Result | What it shows |
|---|---|---|
| `requests` | pass | `DestroyedStaysOut`, `RenewalNotLost` (sessions); `HandlersContained` (chain): what a timed-out request leaves behind harms only requests that are given its context, and both gauges stay exact; `RateBounded` (limiters); `IdentityKept` (call chain); `CrossingsKept`: a failure or success count of the breaker at its threshold always has a goroutine that will act on it; `SlotsBounded`: its slot counter exceeds the limit only by requests about to take their increment back; `KeepsPromise`: calls one after the other implement `BreakerPromise` |
| `facilities` | pass | `CallsAccounted`, `CacheFresh`, `NothingSkipped` (brokers), `JobsContained` (cron), `DelayedOnceAndNotEarly`, `WrittenLinesKept` (log files), `ConfigLayered`; `Unique`, `Increasing`, `ParseInvertsGenerate` (Snowflake) |
| `background` | pass | liveness: `DiscoveryConverges`, `LogsLeave`, `ShutdownEnds`; for the helpers of `mr` bounded concurrency, completeness, no swallowed error, no self-deadlock within the capacity, and `Terminates` |
| `lock_and_queue` | pass | `HolderProtected`, `NoOrphanWatchdog`, `ReleasedByOwnProcess` and the liveness property `AbandonedLockFreed`; `DeliveredInOrder`: per partition every message once, in order, without a gap; `KeepsQueuePromise`: the queue implements `QueuePromise`; the liveness properties `EventuallyDelivered`, also for the consumer that does not get the notification, and `PollersEnd` |
| `breaker_half_open` | violation | `HalfOpenLimit`: the documented limit on concurrent probes does not hold |
| `breaker_slot_leak` | violation | `NoLeakedSlot`: a half-open slot may stay taken after every call was recorded, without a panic |
| `lock_shared_value` | violation | `OnlyHolderUnlocks`: the comment that only the holder can unlock does not hold between goroutines of one process |
| `log_close` | violation | `CloseFlushes`: the comment that closing the log writer flushes the remaining logs does not hold |
| `session_logout` | violation | `LoggedOut`: destroying a session does not make its user log in again |
| `sliding_limit` | violation | `SlidingExact`: the sliding limiter admits more than its rate in a window |
| `config_overlay` | violation | `FileValuesKept`: an environment variable removes other values of the file |
| `etcd_watch` | violation | `WatchReportsChanges`: a change may never reach a watcher |

Each property's comment in its module says which exceptions the code makes; the
exceptions are part of the statement, so that anything beyond them is a violation. Where a
line of the repository denies an exception, a violation run states that line.

**breaker_half_open.** `transitionTo` swaps the state and then stores zero in
`halfOpenInFlight`. A goroutine that opens the breaker and is preempted between the
two stores its zero after the breaker has cooled down and admitted a probe of the next
half-open period; the next request is admitted as well, with `HalfOpenRequests` = 1.

**breaker_slot_leak.** A request loads the half-open state and is preempted; the probe
beside it fails, opens the breaker and clears the slots; the request then takes a slot, is
admitted and succeeds, in the open state, where `RecordSuccess` releases nothing. The test
`TestHalfOpenSlotReleasedAfterRecordSuccess` expects the slot back.

**lock_shared_value.** Goroutine A's lock expires, goroutine B of the same
process acquires it and stores its value under the same key; A's `Unlock` then reads
B's value and deletes B's lock.

**log_close.** `Close` cancels the context; `run` takes that branch of its `select`,
sends the batch it has collected and returns. Entries still in the buffer channel are
dropped, although `mq_writer.go:145` says that closing flushes what remains.

**session_logout.** After `Destroy` a request with the same access token finds no session;
the middleware then takes the user from the token's claims and runs the handler.
`session/docs/双Token机制.md:813-814` says that the refresh token ends with the session and
the user has to log in again.

**sliding_limit.** `cleanupLoop` judges a counter to be idle, releases its lock and deletes
it; a request that had loaded it before is counted in it, and the next one gets a new
counter. `middlewares/ratelimit/README.md:58` and `:95` promise the rate in every window,
without bursts.

**config_overlay.** `merge` assigns top-level keys. With `APP_DB_PORT` set, `db` of the file
is replaced by a section that has only `port`. `config.go:472` says that the environment is
laid over the file.

**etcd_watch.** `Watch` reads and pushes the instances, and its goroutine then opens the etcd
watch at the present revision: a change in between is in no event. `etcd.go:196` says that
every change pushes the latest list. The run assumes the fairness of `background`.

### Bounds

* Breaker: three goroutines are the least with which a third can act between the swap
  and the store of one and the admission of another. Five calls allow a trip, a recovery and
  a second trip to overlap. Thresholds of 2 make both a partial count and a crossing happen;
  the violation runs need only 1.
* Lock: two goroutines in one process and one in another give both kinds of
  competition; two acquisitions give one that expires and one that follows.
* Snowflake: two instances, two sequence numbers per millisecond, three milliseconds,
  four IDs and one restart each reach the overflow, a clock set back during the wait,
  and a repeat across a restart.
* MapReduce: sources of up to four items with concurrency 2 and a buffer of 1, so that
  four items exceed and three just fill buffer and semaphore; partitions of 3 give a
  shorter last one.
* Queue: a channel of one message and two messages make the poll goroutine block in the
  middle of a copy; two topic objects give one that is deleted and one that replaces it;
  one or two partitions give a partition with and one without notification. `Scope` in
  `MCLockAndQueue` admits a second consumer only with one topic, one message and no closing,
  which is all that competing for a notification needs; consumers share nothing else. It
  restricts only what the application calls, never a step that fairness is about.
* Requests: two requests on one session with a clock of three ticks, so that a session
  expires, is collected and renewed in between; two requests over two pooled contexts and two
  goroutines, so that a context is reused while a timed-out goroutine still has it, an active
  limit of one, four nested loops (the length of the chain) and one increment that loses a
  race; a limiter that admits two requests per window of two, over eight ticks, which two
  sweeps and a third counter need; chains of four services, where each passes on what it
  received.
* Facilities: three instances and two changes of the list during four calls; two keys in
  a cache for one; three messages through a channel of one with two breaks; two entries
  and two loops for one job id; three delayed messages, two controllers and two consumers;
  four lines of which two fill a file, within and across seconds; two configurations and
  two loaders, with sources that change once.
* Background: one instance with two calls and two faults, so that a lease is lost and then a
  call of the recovery from it fails too; with a watcher, which has room for one list, calls
  and faults are two together (`Scope` in `MCBackground`); three entries for a buffer and a
  batch of two; two requests and two hooks.

The runs set `CHECK_DEADLOCK FALSE` because bounded behaviours, and calls that have
returned, rightly stop.

### Fairness

`LockFairness`: Redis expires a key whose TTL nobody renews, and a watchdog
goroutine that can run does run. Callers need not do anything. `MapReduce`, in
`MCBackground`: goroutines that can run do run, and the user's functions return. Nothing is assumed
about the context being cancelled. `QueueFairness`: the ticker of a poll goroutine
ticks, a goroutine that can run does run, and callers that still receive do receive. Go's
`select` chooses at random among the ready cases, so the case for a closed consumer is
taken in the end if it is ready again and again (strong fairness of `PollDone` and
`PullClosed`). Nobody need close, send or notify.

`BackgroundFairness`: the goroutine that sends logs, the one in `Run`, `keepAlive` and `Close` go
on and their timers fire; the random choice of `select` gives strong fairness to
`RunReceive`, `RunFlush` and `KeeperDone`; the reader of a watch reads; etcd drops a
lease that nobody renews. Nothing is assumed about requests being answered, signals,
faults or calls of the application that have not begun.

## 4. Proofs

All theorems hold for every value of the constants that satisfies the named assumptions
of the modules (`ConfigAssumption`, `LockAssumption`, `NodeAssumption`,
`OptionsAssumption`, `MQAssumption`, `SessionAssumption`, `PipelineAssumption`,
`RateAssumption`, `ChainAssumption`, `CallsAssumption`, `CacheAssumption`,
`BrokerAssumption`, `CronAssumption`, `DelayAssumption`, `RotatorAssumption`,
`DiscoveryAssumption`, `LogAssumption`, `ServerAssumption`; the breaker and the
configuration both call theirs `ConfigAssumption`). They give types, positive thresholds,
sizes and lifetimes, finite sets of requests, clients and instances, distinct node IDs and
message IDs, a place on the hash ring for every instance, keys of at least one part for
files and environments, and for the limiters a lag below the window.

* **CircuitBreakerProofs.** `TypeCorrect` is inductive as it stands.
  `CrossingsNotLost`: `CrossingsKept` is inductive together with the
  types, one case per atomic operation; a crossing creates its witness in the same step
  that reaches the threshold, and the witness only leaves its program points by
  changing the state or the count. `SlotsStayBounded` counts the goroutines at
  `undoSlot` with the cardinality theorems. `SequentialKeepsPromise` is the refinement:
  under `SeqInv`, which relates the counts that `transitionTo` resets at each program
  point to the streak of the promise, every atomic operation is a step of
  `BreakerPromise` or leaves its state alone, until two calls overlap; handlers may panic.
* **RedisLockProofs.** `TypeCorrect` includes that every remembered token was minted by
  a SETNX. `TokensOwned` strengthens it: the tokens in a process's maps, in its
  goroutines' locals and in its watchdogs were minted by goroutines of that process.
  From it follow `KeysReleasedByOwnProcess`, an action property (the only steps that
  remove a key are expiry and the script, which compares with such a token), and
  `LockHeldUntilReleased`. `WatchdogsRegistered` is inductive with the types.
  `CriticalSectionsExclusive` is what a lock is for: of two goroutines between `Lock` and
  `Unlock`, each the only user of the lock in its process, one has outlived its TTL. It
  follows from `HolderProtected` and `TokensOwned`, since the key holds one token. That a
  goroutine be alone in its process is needed: the run `lock_shared_value` shows why.
* **SnowflakeProofs.** The inductive invariant is `SnowflakeTypeOK /\ AllBehind /\ InOrder`: all
  IDs of the running generator are behind its timestamp and sequence, and issued IDs of
  one generator are ordered by timestamp and sequence. Uniqueness of triples becomes
  uniqueness of numbers by a lemma on mixed-radix digits, which also gives `IDsParse`.
* **MapReduceProofs.** The inductive invariant `MRInv` adds to the types that the
  semaphore counts exactly the workers that hold it, that workers are started in order,
  that the channel holds at most one item per worker past its send, and what each phase
  of the caller implies. `CapacityPreventsStuck` then is a counting argument: the
  blocked workers fill the semaphore, those past their send fill the buffer, and both
  are among the launched, who are fewer than the items. `SuccessIsComplete` needs
  `ResultInv`, which says for each helper where the result of a worker is: in its place
  (`Placed`), among the kept ones in any order but once (`Filtered`), in the channel or
  with the reducer (`Sent`), folded in order (`Folded`).
* **MemoryMQProofs.** The type invariant needs that a poll goroutine has a topic.
  `DeliveryInOrder` rests on `Delivery`: messages carry the place they are stored at,
  what is left of a copy is what the log holds past the offset (`Copied`), and what was
  delivered is all of what the log holds before it (`Before`, `Complete`), in order and
  once (`Ordered`). `DeliveredInOrder` alone is not inductive: it does not say that the
  next message pushed follows the last one delivered. Sends only extend logs
  (`SendGrows`), and giving up a copy loses nothing because the offset tells where to
  resume (`ReturnForgets`). `CloseIsFinal` needs `Quiet`: a closed queue has no open
  producer and no send under way. `QueueKeepsPromise` is the refinement, action by action:
  a send is `PPublish` because of `Quiet` and `Used` (the identity of a message is new), and
  what `Consume` takes from the channel is the next message of its partition because of
  `Delivery`; every other step is a change of topics or readers or leaves the promise alone.
* **RequestsProofs**, of `Requests`, first the sessions. A step of `Requests` is one of `Sessions` or leaves
  its state alone (`SessionStep`). `RenewalsKept` needs `Kept`: a session that has to be
  found has an expiry no earlier than promised, and nobody is about to remove it;
  `RenewalNotLost` alone does not exclude a cleanup that has already decided.
  `DestroyedSessionsStayOut` needs `Out`: what a destroyed session looks like in either
  store, and that a request which began after the destruction and holds the session's
  object will find it expired.
  Of the pipeline, `HandlersStayContained` follows from `PipelineInv`. `Hosted` says whose
  context a goroutine may have: that of its own request, or of a haunted one, and then it was
  left behind by a deadline or is haunted itself. For a context whose request is not haunted
  `Chained` relates the index to where each of its goroutines is (`Fits`), so that the chain
  is run once and in order, and says that the goroutine of the timeout middleware is the one
  the request waits for, or met its deadline and an index past the end (`Joined`). Nothing is
  said of the index of a haunted one, which may be anything. `GaugesExact` counts the frames
  inside each middleware with the cardinality theorems, over all goroutines, haunted or not;
  it also gives `RequestsTypesHold`. `IdentityStaysKept` follows from
  `ChainInv`, with one conjunct for each place a request can be at (before the gateway, in
  a service, on the wire between two): what each header or metadata key there holds.
  `RateStaysBounded` follows from `RateInv`: a fixed-window counter holds as many requests
  as were admitted in its window and windows of one counter do not overlap (`SimpleInv`); a
  sliding one holds all admissions that are still in the window (`SlidingInv`); and what
  the older counters have admitted is as old as cleanup has waited, less the lag
  (`ApartInv`).
* **FacilitiesProofs**, of `Facilities`. Each facility has an inductive invariant and a
  lemma that a step of the composition is one of the facility's or leaves it alone.
  * Log files: `WrittenLinesKept` is inductive with the types, whatever call fails and
    however much of a line a failing write leaves.
  * Cron: `OneRun` ties the goroutines of an entry to its `Running` flag, `Quiet` the wait
    group to the calls of `Stop`; `OrphanRunsBounded` counts the loops that can still begin
    a run of a replaced entry together with the runs it has begun.
  * Cache: `EntriesFresh` also says what a load under way has read, so that a store after
    a `Delete` is either fresh or in `overlap`.
  * Delay queue: `OnePlace`: a message is not pushed, queued, or handed over, and in one
    of these only; `ConsumersNumbered` gives every overlapping `Start` a consumer of its own.
  * Brokers: `ClaimInOrder` (what a claim has marked arrived, in order), `AckedArrived`,
    and for the time before the first break `Steady`.
  * Calls: `Connected` counts the calls under way on each instance with the cardinality
    theorems, `Rounds` relates the picks of round-robin to its counter, and `Balanced`
    bounds the weights. A bound on each weight is not inductive; what is, is a
    bound on the sum over every set of instances that grows with the set: selecting takes
    the total from the heaviest, and the heaviest of a set is at least its average. The
    heaviest exists because the list is finite, by a minimal counterexample among its
    subsets.
  * Configuration: `ConfigReadsLayered` has three parts. A `Config` nobody has locked is its
    earlier tree with the file and then the environment of one `Load` merged in
    (`OneHolder`, `MergedSoFar`), and the default is unloaded only while `Init` is under way
    (`InitUnderWay`). What a read of a key returns needs to know what the loops of
    `setNested` and `EnvSource.Load` compute for lists of any length. The theorems on
    induction cannot be instantiated here, so both recursive functions are characterised by
    their steps (`IsLevels`, `IsTrees`), and what holds of every step is shown by a least
    counterexample: a nonempty set of numbers up to n has a smallest one (`LeastNumber`,
    from the well-foundedness of the subsets of a finite set). Where no name leads through
    another's value, the environment's tree then has each name with the text that comes last
    (`EnvValues`) and no other path (`EnvTreePaths`), and the reads follow from what `Merge`
    does to a section.
* **BackgroundProofs**, of `Background`; its fairness is not needed.
  * Log writer: `LogEntriesInOrder` from `LogInv`. Entries are numbered as the buffer takes
    them; what the server holds comes before what `run` is sending or collecting, and that
    before the buffer. `SenderSteps` is the strengthening: where `run` is says which of its
    two batches can hold anything. For a list or a queue the places together hold every
    entry whose `Publish` did not fail, and after `Close` only the buffer holds any, so that
    `log_close` shows the only way in which entries get lost.
  * Server: `ShutdownIsClean` is inductive with the types (`ServerInv`).
  * Registry: `DeregisterIsLocal` (an action property) and `RegistryStaysSound` from
    `RegistryInv`. That no lease serves two instances (`OneOwner`) looks at all places a lease
    can be at, in etcd, in the map, in the call and in every `keepAlive`; it needs
    `OwnLeases` (goroutines do not share leases) and `NotPutYet` (a new lease has no key).
    That the registry asks for at most one lease for each call and each fault is
    `LeaseCount`: the goroutines that will have to ask for one (`Unserved`) and the call
    that may yet cost one its lease (`Owed`) are counted with the leases granted.
  * Watcher: `WatcherIsCurrent` from `WatchInv`. A change of keys is an event for an open
    watch and is missed by one that is not open yet; with all events handled, the last list
    in the channel, or the last one read, is what etcd holds.

**What failed proofs have shown.** Three properties held on the instances TLC explored and
not in general; each is now stated as it holds, and the code behaves as modelled in all
three. A limiter with a higher rate admits more per window across a cleanup than three
times its rate. A smooth weighted round-robin over weights 1, 2 and 3 reaches a weight of 7
when the list changes between two calls. A service may read the email that a client sent
itself, since the gateway overwrites another header.

Only model-checked: the liveness properties (`AbandonedLockFreed`, `Terminates`,
`EventuallyDelivered`, `PollersEnd`, `DiscoveryConverges`, `LogsLeave`, `ShutdownEnds`),
which need fairness and `ENABLED`, both out of the prover's reach. Every other property
that a passing run checks is also a theorem.

What `BackgroundProofs` proves is defined beside the proofs, since its run is about
liveness.

## 5. Where the code and its documentation differ

The eight violation runs of section 3 each state a line of the documentation, a comment or
a test that the code does not keep. Two more lines are contradicted by behaviour that is the
same in every execution, so that there is nothing for a run to explore; the properties leave
it out and say so:

* Identity: `docs/核心功能/Context增强.md:227` says that the email travels in `X-Email`, and
  the services read it there; the gateway writes `X-User-Email`
  (`middlewares/auth/middleware.go:254`). The email of the session never arrives, while one
  that a client sends itself in `X-Email` does. `IdentityKept` says nothing of the email.
* Memory cache: `cache/types.go:194` calls `MaxSize` the largest capacity, and `SetNX` adds
  to a full map (`cache/memory/cache.go:158`). `CacheFresh` is about the age of values alone.

Other behaviour met while modelling, which no line that we know of denies, or which a
property states as an exception:

* Discovery: `keepAlive` registers again without looking at `services` once more, so a
  `Deregister` in between is undone. A `Put` of `keepAlive` whose reply is lost is followed
  by a `Revoke` that deletes the key; if the old lease is still alive, as after a
  `KeepAliveOnce` that failed on the way, it is renewed again and the key stays away.
  `DiscoveryConverges` therefore speaks of a goroutine whose lease is gone.
* Memory cache: `deleteOldest` compares expirations and so evicts entries that never expire
  first; a `GetOrSet` that overlaps a `Delete` stores what it loaded before.
* Cron: a `Start` while `Stop` waits leaves the old loop running beside the new one.
* Delay queue: the Redis queue scores messages in milliseconds, looks for due ones with a
  formatted date as the upper bound, which every score is below, and pops by the exact score.
  A message that no poll meets at its very millisecond stays.
* Timeout: the handlers of a request whose context was reused may be run by the goroutine of
  the one that timed out, without the filters and beyond the active limit.
* Identity: details read from a Redis session come back JSON-quoted; gRPC passes neither name
  nor role on; `trace.NewClient` builds a transport without getters, which injects nothing.
* Configuration: `GetInt` of an environment value is 0 rather than the default; a section
  removed from every source survives a reload; `Init` publishes the default before it is loaded.
* MapReduce: after a reducer's error the workers blocked on the channel stay
  (`mr.go:89`). Queue: after `DeleteTopics` old handles keep the old object
  (`memory.go:74`); without deletion the theorem `OneTopic` excludes a split.
* Redis lock: stopping a watchdog goes by the lock key and may stop the newer one
  (`redis.go:257`).
* `EventStream`: its goroutine ends when the client leaves, and a handler that goes on
  sending blocks when the ten places of the channel are taken (`gctx/context.go:321`).

## 6. Not modelled

* Health checks, validation, reporting middlewares (access log, CORS, OpenTelemetry):
  each decides on or reports one request alone.
* Database helpers: wrappers whose state belongs to gorm and sqlx.
* Swagger: a document built by reflection.
* Within modelled parts: cryptography of the JWT library, the decimal conversions and
  the node ID of Snowflake, log encoders and levels, building HTTP requests, dial options
  of gRPC, `Unmarshal` and file parsing of the configuration, and the one-command calls
  of the Redis cache.

## 7. Plan

1. Refinement of `RedisLock` to an abstract lock with expiry, for processes that each use
   the lock from one goroutine at a time.
2. The decimal conversions of Snowflake, against a reference definition.
3. Liveness proofs, should the prover come to support fairness.
