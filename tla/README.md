# A TLA+ model of go-infra

`go-infra` is a small application framework: an `App` with a startup and a
shutdown lifecycle, components it creates on demand (Redis, databases, Kafka,
RabbitMQ, gRPC, a scheduler), a property file and a startup probe in front of
them, and, on top of Redis, a distributed lock manager with a process-local queue
and a deduplicator. This directory models the parts in which goroutines,
processes and failures meet, checks them with TLC on small instances, and proves
the safety properties of every model with TLAPS for every instance.

The repository holds most of its code twice: `app/module` with `internal/*`, and
a newer package layout (`app`, `redislock`, `kafka`, `rabbitmq`, `redis`, `db`,
`postgres`, `scheduler`, `web`, `dedupe`, `probe`, `config`, ...) with the same
logic in packages of their own. The model refers to the first where both exist;
RabbitMQ's client exists only in `rabbitmq/`.

## Inventory

| Component | State | Operations | Interacts with | Hard behaviour |
|---|---|---|---|---|
| local key queue, `internal/redislock/manager.go` | map from key to `held` and a slice of waiter channels, under a mutex | `tryAcquire`, `acquire`, `removeWaiter`, `release` | every call of the lock manager in one process | close of the waiter's channel after the unlock; `select` between the channel and `ctx.Done()` |
| lock manager, same file | the key in Redis; `released`, `finalizeOnce`, the watchdog goroutine of each `Lock` | `TryLock`, `Acquire`, `WithLock`, `Release`, `Refresh`, watchdog ticks | Redis, the queue, other processes | TTL, lost replies, go-redis retries, cancelled contexts, panics, crashes, holder against watchdog |
| startup and shutdown lifecycle, `internal/module` | ten slices of tasks | `AddX`, `RunAll` | `App.Start`, every component | order of lists; late additions |
| `App`, `AppRuntime`, `ModuleBase`, `ComponentRegistry` | `Started`, the component map | `StartServer`, `Start`, the accessors that register on first use | everything | service code runs beside the lists |
| `PropertyRuntime`, store, validator | the scanner's locals; values; used keys | `LoadProperties`, `Load`, `Property`, `RequiredProperty`, `Validate` | every component's `LoadFromPrefix` | state carried from line to line; keys nobody asks for |
| `StartupProbe` | host URIs, URLs; error channel, wait group | `AddHostURI`, `AddURL`, `Check` | components, `App.Start` | parallel probes, deadline |
| Redis, DB, Postgres, Mongo components | a client field | `LoadFromPrefix`, `ensureClient`, `Client`, `Close` | lifecycle, service code | unsynchronised test and assignment; use after close |
| Kafka consumer | two goroutines, a bounded queue and a context per runner | `SubscribeByOffset`, `Start`, poll loop, handler loop, `Stop`, `AwaitTermination` | broker, group, lifecycle | rebalances, commits around `Stop` |
| Kafka producer | a producer field, the delivery loop | `Publish`, `SyncPublish`, `CloseProducer` | broker, lifecycle | lazy creation without a lock, reports after a timeout, flush against close |
| RabbitMQ client | connection, publisher channel, its watcher | `Connect`, `Channel`, `Publish`, `Close` | broker | reconnects, stale channels |
| RabbitMQ consumer | channel, deliveries and a context per runner | `Subscribe`, `Start`, `handle`, `Stop`, `AwaitTermination` | broker, lifecycle | acknowledgements around `Stop` and broken connections |
| `Deduplicator` | keys in Redis | `TryMark`, `Marked`, `Clear` | Redis, message handlers | lost replies, TTL, a mark without its work |
| scheduler | cron, `jobInfo`, `runningTasks`, `stopCtx` | `AddFuncWithName`, `Remove`, `SetLocation`, `Start`, `Stop`, `AwaitTermination` | lifecycle | jobs at shutdown; removed names; replaced parser |
| gRPC server, client pool | options, `started`, listener; connections and a counter | `AddOpt`, `Register`, `Start`, `Shutdown`; `Conn`, `Close` | lifecycle, probe | options that come too late; pools after `Close` |
| `WebRuntime` and middleware | `http.Server` | `Start`, `Shutdown`, recovery | lifecycle | dropped listen error, requests at shutdown |

What makes them correct: the queue hands its slot to one caller, in order, and
never loses it; two callers run under the lock together only if a TTL ran out,
and what is handed out is given back; shutdown stops and awaits work before it
closes what the work uses, leaves nothing running, and ends; an application
starts if and only if its configuration is in order; a committed or acknowledged
message was seen by a handler and the others are not lost; a message behind the
deduplicator is worked on once; connections, channels and producers are not
leaked. `PROJECT.json` lists the hazards, each at its line.

## Modules

| Module | What it is |
|---|---|
| `FifoLock` | abstract specification: per key a holder and a line, the slot goes to the head |
| `LocalKeyQueue` | the queue; `ImplementsFifo` is the refinement of `FifoLock` |
| `RedisLock` | lock manager, `Lock`, watchdog and `RedisBackend`; composes one `LocalKeyQueue` per process by `INSTANCE` |
| `AppLifecycle` | task lists, registration, main goroutine and service code |
| `KafkaConsumer` | a pool of `ConsumerRunner`s, one partition, the group |
| `KafkaProducer` | `Publish`, `SyncPublish`, the lazily created producer and `CloseProducer` |
| `RabbitClient` | connection and publisher channel shared by publishers and openers of channels |
| `RabbitConsumer`, `Dedupe` | `ConsumerRunner`s of one queue whose handler uses the Deduplicator; `Dedupe` is instantiated over the marks in Redis |
| `PropertyRuntime`, `StartupProbe`, `JobTable` | the three parts of a start, each over its own variables |
| `Bootstrap` | composes them: from `main` to the first startup task |
| `LocalKeyQueueProofs`, `RedisLockProofs`, `AppLifecycleProofs`, `KafkaConsumerProofs`, `KafkaProducerProofs`, `RabbitClientProofs`, `RabbitConsumerProofs`, `BootstrapProofs` | theorems |
| `MC*` | instances for TLC |

A definition whose comment says "Mutant" is a plausible mistake in the definition
that follows it. It is not part of any specification; substituted, it breaks the
property that `PROJECT.json` names, which shows that the property depends on the
code.

### LocalKeyQueue

A call stands for one goroutine that calls `tryAcquire` or `acquire` and then the
release closure. `keys` is the map of the code (an entry is `held` and the calls
whose channels wait), `at` says where each goroutine is, `next` the channel a
releasing goroutine is about to close, `closed` the closed channels, `ctxDone`
the ended contexts. Everything under `q.mu` is one step. `release` is two
(`releaseIdle` or `releasePop`, then `closeNext`) because `close(next)` follows
the unlock, and the `select` of `acquire` is a choice between `waiterReady` and
`ctxReady`, with `removeWaiter` a later step.

The refinement mapping takes as holder the call that has returned from `acquire`
with the slot, and as line the popped call that has not returned yet, followed by
the waiters. A slot in transit therefore already belongs to the head of the line,
and barging would be a step `FifoLock` does not have.

### RedisLock

One Redis key and any number of processes. A call stands for its goroutine, its
`Lock` and its token. A backend call is two steps: the command, which changes
`redis` and chooses a reply, and the processing of the reply; between them the
key may expire, others may write, the process may die. `outcomes` is what
go-redis makes of a command: the answer; an error before Redis saw it; an error
after Redis executed it; and the answer of the retry of a command that was
already executed. The scripts compare the token, and `PEXPIRE` with zero
milliseconds deletes. `once` is `finalizeOnce`: the holder or the watchdog runs
the body, and the slot goes back in it. A crash removes the goroutines of a
process in `Crashable` and leaves its key. A process that restarts is another
element of `Process`.

Abstractions. Time is left out: a TTL, a tick or a backoff timer may run out at
any moment, which includes every timing. The retry of go-redis follows its first
attempt at once. Keys are independent of each other, so one is enough. `expired`
is a history variable, used in properties only.

### AppLifecycle

`phase` and `todo` are the main goroutine: the list being run and its remaining
tasks. `enter` copies the list, as `range` does, so that a task added later to
the same list is not run. `tasks` are the lists, by component; a task's meaning
follows from the list and the kind of the component. Workers are the goroutines
that run code of the service: a request, a job of the scheduler, a consumer's
loop. A consumer's message is `taken` before it is counted in `runningTasks`,
as in the code. `readClient` and `createClient` are the two halves of
`ensureClient`; closing a client makes its users `stale`, and replacing one
makes them `orphan`. gRPC client pools are opened when a service is registered and
`Close` leaves them in the map, so that `Conn` hands out what is closed and its
caller is `stale` at once.

`AwaitTermination` is two steps: it polls until the counter reads zero, then
waits for the group for at most thirty seconds. The context is
`context.Background()`, so no other timeout exists.

Abstractions. Look-up and registration of a component are one step (concurrent
first uses race on a Go map; see the hazards). A consumer component has one
runner; a Kafka pool is as many components. What happens inside a runner is the
matter of `KafkaConsumer` and `RabbitConsumer`. "Client" stands for Redis, DB,
Postgres and Mongo. gRPC services are registered in `Initialize()`. Configuration
is taken to be complete here; `Bootstrap` has the rest. `Component.validate()` is
called nowhere in the code and does not appear. A process that dies loses its
memory, so all such states are one.

### KafkaConsumer

A message is its offset. The poller is at `poll` or holds a message and is at
`send`; the handler loop is at `select`, in the handler, or in `CommitMessage`.
A channel of capacity 0 is a rendezvous, which is why `Send` has a second
disjunct. `Start` and `Stop` take the runners in order; `Stop` is `cancel`, then
`Close`, which leaves the group. Subscribing by `latest` or `earliest` joins the
group; any other offset assigns the partition to every runner. `Rebalance` takes
the partition from a live runner and leaves what it has polled in its queue.
`finished`, `succeeded` and `skipped` are history.

Abstractions. One partition, since commits and positions of partitions do not
meet. A poll that returns nothing or an error is a stuttering step. The broker
accepts a commit of a member that no longer has the partition: the strict
behaviour, a refusal, is the other disjunct of `CommitMessage`.

### KafkaProducer

A call is a goroutine in `Publish` or `SyncPublish`, its message and its
`deliveryCh`; a producer is named by the call that created it. The component has
no lock, so every access to its field is a step: `ensureProducer` tests it,
`newProducer` creates a producer and assigns it, and `returnProducer` reads the
field again, after the test (line 219) as after the assignment (226).
`CloseProducer` tests, reads again, flushes, closes, waits for the delivery loop
and clears the field. A call panics when the component has no brokers (`brokers`),
when librdkafka refuses to create a producer (`refused`), and when it is handed
nil; the panic ends the call, and the process too unless it was a request, whose
panic `RecoveryMiddleware` catches. Settling a message and passing its report on
are one step. `late`, `raced`, `refused` and `caught` are history.

### RabbitClient

Connections and publisher channels are numbered as they are opened. A section
under `c.mu` is one step, `publishMu` is a lock that is held across steps,
`connection()` reads the field after the unlock. The watching goroutine
registers with `NotifyClose` in a step of its own: on a channel that is already
closed amqp091 closes the argument and the goroutine ends (`missed`) without
having reset `publishChOpen`. Publishers are callers that try again on an error.

### RabbitConsumer and Dedupe

A message is ready, unacked on a channel, or settled; between the broker and the
loop there is a buffer in the client, which a closed channel may drop. The handler
asks the Deduplicator first, as `docs/deduplicator-usage.md` shows: `TryMark`,
return on an error or a duplicate, work, `Clear` when the work fails. An operation
of `Dedupe` is the set of its outcomes; the faulty ones include a lost reply and
the retry that finds the caller's own mark. `Stop` is cancel, then `Cancel` of the
consumer if it has a tag, then `Close` of the channel, under a handler that may
still be at work. A broken connection closes every channel and nothing reopens
them.

### Bootstrap

A scenario is an environment, its files, a program (the calls `Initialize` makes)
and the network. `LoadProperties` is a scan line by line with the code's three
local variables; the reference it is compared with, `written`, says what a file
means without a scanner. A line is a record of what the code tests: does it hold
a `=`, is it a comment, does it end with a backslash, can the scanner buffer it.
`LoadFromPrefix` is a table of the keys each kind of component reads, which of
them must parse, and which hosts its endpoint adds to the probe. `JobTable`
is the scheduler before the start. `App.Start` validates and then runs `Check`:
one goroutine per host or URL, a buffered channel, a wait group, a deadline.

Abstractions. Values are `ok` or `bad` for the parser of their key, or a list of
hosts. Prefixes and job names are strings that only have to be equal or not. The
keys a `LoadFromPrefix` reads are noted in one step: nothing else runs then. The
panics are those that depend on the properties, the order of the calls and the
network: an empty prefix or service name, a missing or malformed property, a DSN
Postgres cannot parse, an address gRPC refuses to dial, a server that does not
answer, a subscription without endpoint, group or queue or one librdkafka refuses,
options that come too late, jobs that cannot be added, unused keys, unreachable
hosts. Panics over arguments that are wrong in the source of the service (a nil
handler, an empty topic or key, dial options that block) are left out.

## Runs

| Run | Instance | Shows |
|---|---|---|
| `queue` | 4 calls of one key, 1 of another, all cancellable; symmetry over the four | `SlotInv`, `MutualExclusion`, refinement of `FifoLock`, cancellations included |
| `queue_lost_handoff` | 3 calls, one cancellable, fairness | *violation* of `EveryWaiterReturns` |
| `lock_faults` | 2 + 1 calls in two processes, a watchdog, a cancellable context, 1 retry; expiry, failing commands, lost replies, panics, no entropy | `TypeOK`, `MutualExclusion`, `CriticalHasKey`, `FinalizedLeavesNoKey`, `OneCallPerProcess` |
| `lock_live` | the same calls; expiry, and either process may die; fairness | `FailedLeavesNoKey`, `EveryCallReturns`, `RefreshStops` |
| `lock_cancelled_callback` | 2 calls, the `WithLock` cancellable, fairness | *violation* of `RefreshStops` |
| `lifecycle` | scheduler, Kafka, gRPC client pools, gRPC server, web; a request, a job and a loop; all faults; fairness | `TypeOK`, `ClientsOutliveJobs`, `NothingRuns`, `ShutdownEnds` |
| `lifecycle_late_registration` | a component of every kind | *violation* of `RegisteredIsStarted` |
| `kafka_consumer` | 2 runners, 2 messages, three subscriptions, one restart, one rebalance; fairness; 259,000 states | `CommittedIsHandled`, `PipelineInOrder`, `EveryMessageHandled`, `GoroutinesEnd` |
| `kafka_producer` | a `Publish` and a cancellable `SyncPublish` against `CloseProducer`, with and without brokers; fairness; 19,000 states | `SyncNilIsDelivered`, `ClosedIsReported`, `NoCallbackAfterClose`, `NoLeakedProducer`, `PanicCauses`, `CloseReturns`, `SyncReturns` |
| `rabbit_client` | 2 publishers, a consumer opening a channel, one `Close`, two faults; fairness; 338,000 states | `OneConnection`, `ChannelOnConnection`, `NoLeakedChannel`, `StaleChannelIsNoticed`, `PanicNeedsClose`, `EveryPublishEnds` |
| `rabbit_consumer` | 2 runners, 2 messages, one of them behind the Deduplicator, three sets of options, one fault, one restart; fairness; 178,000 states | `NoMessageLost`, `WorkedOnce`, `EveryMessageSettled`, `LoopsEnd` |
| `bootstrap` | files of up to 4 lines, programs of up to 4 calls, two networks; fairness; 280,000 states | `LoadedAsWritten`, `StartedIsReady`, `PanicHasCause`, `BootEnds` |

What the violations say:

* **Lost hand-off** (`manager.go:492`). `release` pops a waiter; the waiter's
  context ends; its `select` takes `ctx.Done()`, which Go may choose even when the
  channel is closed too; `removeWaiter` does not find it in the queue and returns.
  The entry stays `held`, and every later `acquire` of that key in the process
  waits for ever. `SlotInv` and the refinement hold all the same: safety is not
  affected. A repair would make `removeWaiter` pass the slot on when it does not
  find its waiter. (`EveryCallReturns` shows that without cancellation the queue
  below the lock manager loses nothing.)
* **Refresh after a cancelled callback** (`manager.go:412`). `WithLock` calls
  `lock.Release(ctx)` with the caller's context. If that has ended the command is
  not sent, the lock is not finalized, and the watchdog, which runs without
  cancellation, extends the key for ever. A callback that panics has the same
  effect (`manager.go:411`), since `Release` is not deferred.
* **Late registration** (`app.go:44`). A request that comes in after the Serve list
  and before `Started = true` may register a component whose Start task is never
  run, without the panic `docs/overview.md:103` describes.

What the passing properties concede, since the code does so and no document says
otherwise:

* Locks. A `Refresh` with less than a millisecond deletes the key (fault `shortTTL`,
  excluded from the runs and, by assumption, from two theorems). A lost reply to
  `SET NX`, or a context that ends while the command is on its way, leaves the key
  of a call that failed until its TTL, so `FailedLeavesNoKey` is checked and proved
  without the two.
* Lifecycle. Requests are not awaited before clients are closed, because the web
  server is stopped last, so `ClientsOutliveJobs` speaks of background work only.
  A web server that cannot listen is not noticed (`web_runtime.go:57`).
* Kafka consumer. A commit moves past messages whose handler returned an error:
  `CommittedIsHandled` says "a handler has returned", not "has succeeded", for what
  is below the last committed message.
* Kafka producer. A `SyncPublish` whose context ends closes its channel, and the
  late report panics the process. `CloseProducer` may clear the field after a call
  has tested or assigned it and before the call reads it again (`caught`): the call
  is handed nil and panics, as it does without brokers and when the library refuses
  to create a producer. `PanicCauses` says that there is no other cause. Two first
  publishes may create two producers, one of which is never closed (`raced` in
  `NoLeakedProducer`). A `Publish` between `Flush` and `Close` is lost although it
  returned nil (`late` in `ClosedIsReported`).
* RabbitMQ client. The watcher of the publisher channel may register too late:
  every later `Publish` then fails on the dead channel until the connection
  changes (`missed` in `StaleChannelIsNoticed` and `EveryPublishEnds`). A `Close`
  between `Connect` and `connection()` panics (`PanicNeedsClose`).
* RabbitMQ consumer. With the Deduplicator a mark whose owner failed to clear it,
  or died, turns the redelivery away, so the message is acknowledged without work
  (`interrupted` in `NoMessageLost`). After a broken connection the consumers end.
* Start. `docs/overview.md:364` drops the error of `LoadProperties`, so a file with a
  line the scanner cannot buffer is used up to that line. Of a DSN with several
  hosts only the first is probed. Without `pool.size`, Kafka's `queue.capacity` is
  not read and the start panics for an unused property. A scheduler with a
  location refuses specs with seconds, since `WithLocation` replaces
  `WithParser`; a job that was removed cannot be added again under its name.

### Bounds

The queue needs three waiters behind an owner to tell first, middle and last
apart in `removeWaiter`; four calls give them, and the fifth shows that keys
do not interfere. For the lock two calls of one process contend for the queue and
one of another process for the key; a watchdog on one of them is enough for the
race with its holder; one retry reaches both sides of the retry limit. In the
lifecycle there is one component of each role, and one worker of each kind: the
properties relate a worker, a client and the main goroutine, and the only
relation between two workers, a client created twice, takes two. Kafka's producer
stands for the clients that are created on demand: those of Redis, the databases
and RabbitMQ differ from it in the list that closes them, ReleaseResources, in
which the gRPC pools have their task. The theorems cover every kind.

Two runners are enough for a partition to move and for one to be stopped while the
other is up. Two messages fill a queue of capacity 1 with one in the handler's
hand; with a capacity of 0 the poller waits with one. `MaxLog`, `MaxRestarts` and
`MaxRebalances` bound the consumer: one restart separates what survives a process
from what does not, and one rebalance strands one message. The producer's races
are between two calls and the closer. `MaxFaults = 2` of the RabbitMQ client lets a
channel close and the connection break after it, and `MaxCloses = 1` one `Close`
race both. In `RabbitConsumer` one fault (a failing handler, a Redis that errs, a
broken connection, an expired mark) and one restart together give every
redelivery; `effects` saturates at 2, one more than is allowed. A file of four
lines holds an assignment, its continuation, another assignment and a repeated
key. `MaxRetries` is a parameter of the code; no state constraint is used.

Deadlock is not checked where the system may stop: calls that have all ended,
consumers that have been stopped, an application that has started or panicked, and
the violation runs. `AppLifecycle` has the stuttering step `Ends` for an ended
process instead, and `lifecycle` and `lock_live` check deadlock.

### Fairness

* Queue: a goroutine that can proceed does. `sync.Mutex` does not starve, a ready
  `select` proceeds, `close(next)` is the next statement. Owners release: a duty
  of the callers. Nobody has to call, and no context has to end.
* Lock: the same for the goroutines of calls and watchdogs; a callback returns or
  panics (weak fairness, `WithLock`); the holder of a lock from `TryLock` or
  `Acquire` releases in the end even if it refreshes in between (strong fairness).
  None on expiry, faults, crashes or cancellation: a caller that meets the key of a
  dead process gets it after the TTL, or gives up after its retries.
* Lifecycle: the main goroutine runs; service code returns; strong fairness for a
  consumer loop to take `ctx.Done()`, since `select` picks at random among ready
  cases. No signal, request or fault has to come.
* Kafka and RabbitMQ consumers: goroutines run, handlers return, the group assigns
  a free partition, the broker delivers to an open consumer, and `Stop` goes on
  once it has begun. Nobody has to produce, stop or crash. Weak fairness is
  enough: messages are finite in number.
* Kafka producer: librdkafka settles every message of an open client
  (`message.timeout.ms`) and reports it; callbacks return.
* RabbitMQ client: publishers try again, Go's mutex hands a free lock to whoever
  waits long enough (strong fairness on `lockPublish`), watchers run. Faults are
  bounded, so they end.
* Start: the goroutines of the probe and its timer run.

## Proofs

Checked by TLAPS for every value of the constants that satisfies the `ASSUME`s:
functions and sets have their types, markers such as `None` are none of the values
they mark, bounds are natural numbers, and the two that describe an instance:
a consumer component has one runner (`OneRunner`), and a scenario is a program of
calls `Initialize` can make with files made of lines (`ScenariosAssumption`). Each
proof has one lemma per action; the inductive invariants were checked with TLC on
the instances of the runs first.

**Queue.** `SlotInvariant`, `QueueMutualExclusion`. Mutual exclusion alone is not
inductive: the slot also travels in a popped waiter. `SlotInv` speaks of *bearers*
(owners, and popped calls that have not returned): there is at most one per key,
the map says `held` while there is one, the waiters are distinct, still inside
`acquire` and not popped, whoever waits is queued, and two releases never close one
channel. The lemma about `waitersWithout` states what cutting the slice does.
`QueueImplementsFifo` is the refinement of `FifoLock`: with `SlotInv` at hand every
action maps to a step of the FIFO lock or to a stutter. A release frees the slot
whether or not it pops: the popped waiter moves from the head of the queue to the
front of the same line, `waiterReady` is its grant, and a cancelled waiter leaves
the line from wherever it stands, the front included.

**Lock.**
* `TypeCorrect`, which includes the retry bound for every `MaxRetries`.
* `LockMutualExclusion`, `HolderHasKey`, assuming that no Refresh is below a
  millisecond. `HolderInv`: a `yes` on its way means that the token is in Redis
  or has expired. The key holds one token, so two holders imply an expiry. The
  argument needs that no command removes another's token (`KeyKept`).
* `FinalizedAfterKey`, under every fault. `GoneInv`: wherever a call, or its
  watchdog, has evidence that the token is gone (the once has fired, the reply to
  a release is no error, a refresh answered no) it is gone, and it does not come
  back because only a call without a lock writes it (`KeyWritten`).
* `OpenFailedAfterKey`, without lost replies, for every call whose own context stays
  open, and `FailedAfterKey` when all do. `FailedInv`: such a call without a lock has
  its token in Redis only while the `yes` to its `SET NX` is on its way, and whoever
  is told `yes` takes the lock.
* `ProcessSerialization`, under every fault. `ProcessInv` links the place of a
  call in the manager with its place in the queue and uses `SlotInv` of the queue,
  whose theorem is composed in.

**Lifecycle.** `LifeTypeOK`, `LifeClientsOutliveJobs`, `LifeNothingRuns`, for any
components and any faults. Registration and shutdown are far apart, and the
invariant has to bridge them: a registered component has a task in each list of
its kind, nothing else has, and nobody registers once shutdown may begin
(`Listed`, `OnlyListed`, `MainInOrder`). Hence a component that is *behind* (its
list is done, or being run without its task in what is left) was stopped, or was
never started; a stopped consumer whose await task is behind has ended its loop or
was given up; and clients are closed after that. No pool is closed before
(`ClosedLate`), so that a handler which asks for a connection gets an open one.

**Kafka.**
* `ConsumerCommittedIsHandled`, `ConsumerPipelineInOrder`. An offset is committed
  when its handler returns, so the invariant follows an offset back through the
  runner: below the message in the handler everything is done, below a queued one
  everything is done or ahead in the queue, likewise for the message the poller
  holds and for the position of the next poll. A rebalance leaves all that in
  place, and a restart resumes at the committed offset.
* `ProducerSyncNilIsDelivered`, `ProducerNoCallbackAfterClose`,
  `ProducerClosedIsReported`, `ProducerNoLeak`, `ProducerPanicCauses`. The
  invariant says how far `CloseProducer` is with the producer it closes, where the
  report of a `Publish` is until it is seen (`ReportsKept`), that after `Flush`
  only late messages are queued (`FlushedOrLate`), that without a race the field
  holds the only open producer (`OneAtATime`), and that a call about to read an
  empty field is one under which it was cleared (`ClearedByClose`).

**RabbitMQ.**
* `ClientOneConnection`, `ClientChannelOnConnection`, `ClientNoLeakedChannel`,
  `ClientStaleChannelIsNoticed`, `ClientPanicNeedsClose`. They need each other, and
  the count that every connection and every publisher channel but the last died of
  a fault or a `Close` (`ConnsNumbered`, `ChansNumbered`), and what the watcher of a
  channel knows of it (`WatchersKnow`).
* `QueueNoMessageLost`, `QueueWorkedOnce`. A message is *accounted* for when its
  work is done, was cut short, or is being done behind a mark; marks,
  acknowledgements and settled messages are accounted for. A mark that has not
  expired keeps every other runner from the work (`MarkExcludes`).

**Start.** `BootLoadedAsWritten`, for a property file of any length. The reference
`written` looks at the whole file, the scanner at one line, so `Loading` says what
the scanner knows after `n` lines: the table has the assignments that have ended by
line `n`, the latest one of each key (`Table`), a continuation is pending exactly
when line `n + 1` is `joined`, and then `key` and `value` are those of the one
assignment that goes on (`Open`). A line opens, extends or ends an assignment, or
does nothing (`ScanNext`), and when the lines end the table with the pending
assignment is `written` (`ScanEnds`). Texts are flattened lines: what `FlattenSeq`
does with one line more is proved by a least counterexample, from the well-founded
order of the naturals (`SetMin`).

`BootStartedIsReady`, `BootPanicHasCause`, for any application, property
file and network. `BootInv` says of the calls before `step` what the properties say
of the whole program: a load that returned found its endpoint, has noted its keys
and has its hosts in the list to be probed; a client that was used answers; what is
built has all options so far, and a call built it; the engine's parser depends on
where the first location stands; a job that was added runs or was removed, and ids
are not shared. While `Check` runs, an empty channel means that whoever is done has
reached its target, and an error, sent or about to be, that a target is not
reachable or the deadline has passed.

Only model-checked:

* everything under fairness (`EveryWaiterReturns`, `EveryCallReturns`,
  `RefreshStops`, `ShutdownEnds`, `EveryMessageHandled`, `GoroutinesEnd`,
  `CloseReturns`, `SyncReturns`, `EveryPublishEnds`, `EveryMessageSettled`,
  `LoopsEnd`, `BootEnds`): the prover does not handle `ENABLED`.

## Plan

1. *Done*: the models of all components with their runs; the refinement of
   `FifoLock`; the invariants of the locks, the lifecycle, Kafka, RabbitMQ and the
   start, proved.
2. More refinements: `PropertyStore.Load` and the probe as one atomic step each, and
   the RabbitMQ consumer as a queue that delivers at least once.

## Not modelled

* `RedisLockManager` (`app/module/redis_lock_manager.go`) is a facade over the
  manager of `RedisLock`; that it keeps the Redis client it was built with is
  listed as a hazard.
* gRPC: which connection the round robin of a pool picks, the health service, and
  the path of `Shutdown` for a context that ends, which `App` never passes.
* Pool sizes, timeouts and message options are values handed to a library. Request
  ids and context values are data no property depends on.
* `hostname` cuts an endpoint at its first colon, so an IPv6 address is never
  resolved; hosts are pieces of text here.
* The drivers (go-redis, GORM, mongo, librdkafka, amqp091, cron, grpc, gin) are
  external: what the code relies on is modelled where it is used.
* `kafka/stub.go`, for builds without cgo, has no state.
