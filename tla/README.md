# Verification of the background-job machinery of Sourcegraph (codescout)

This directory holds TLA+ models of the concurrent core of the repository, the
TLC configurations that check them and TLAPS proofs about them. Paths below are
relative to the repository root.

## 1. Inventory

The repository is a code search platform: a web client, a frontend, and a set
of services (gitserver, repo-updater, searcher, worker, executors) that talk
over HTTP/gRPC and share PostgreSQL and Redis. Most of it transforms data. The
parts with state of their own that several actors change:

| Component | State | Operations | Hard behaviour | What makes it correct |
|---|---|---|---|---|
| **Job store** `internal/workerutil/dbworker/store` | a job table: state, num_resets, num_failures, cancel, last_heartbeat_at, finished_at, process_after, worker_hostname | Dequeue, Heartbeat, Requeue, MarkComplete/Errored/Failed, ResetStalled | candidate snapshots that are stale when the row is locked; limits checked in different statements; two-statement reset | a record is attempted within its limits, closed once, and only Requeue reopens it |
| **Worker** `internal/workerutil` | handlerSemaphore, wait group, runningIDSet, dequeue and root contexts | Start (dequeue loop, heartbeat loop), handler goroutines, Stop | tokens returned on six paths; ids reused while goroutines of an earlier attempt still run; heartbeat answers applied late; crashes; lost calls | no token lost, every handler covered by heartbeats or told to stop, one handler per record, every record closed |
| **Resetter** `internal/workerutil/dbworker/resetter.go` | none of its own | Start, Stop | races the heartbeat of slow workers | takes records only from dead workers |
| **Executor queue API** `enterprise/cmd/frontend/internal/executorqueue` | job tokens, heartbeat protocol | dequeue, heartbeat, mark*, over HTTP | retried requests, several queues per executor | an executor acts only on jobs it holds |
| **Executor** `enterprise/cmd/executor` | running jobs, VM names | the worker above over HTTP, janitor of orphaned VMs | janitor races the start of a job | no VM of a running job is removed |
| **Update scheduler** `internal/repos/scheduler.go` | update queue (heap, index, notify channel), schedule (heap, timer, wakeup channel) | upsert, remove, UpdateOnce, PrioritiseUncloned, EnsureScheduled, schedule and update loops, restart on configuration change | one-slot notifications; a repository removed or enqueued again while its update runs; loops stopped with updates in flight | a queued repository is updated; one update per repository |
| **MutableLimiter** `internal/limiter` | limit, list of cancel functions | Acquire, SetLimit, release | the limit shrinks under holders; double release | holders not canceled never exceed the limit |
| **Repository syncer** `internal/repos/syncer.go` | repositories per external service | SyncExternalService, SyncRepo, single-repo sync | diff computed from a listing that changes | no repository lost or kept wrongly |
| **Redis lock** `internal/redislock` | a Redis key that holds a token with its expiry | TryAcquire, release | expiry during the operation, contenders that come late, release of a lock taken over | mutual exclusion as long as operations are short |
| **Rate limit notifier** `enterprise/cmd/cody-gateway/internal/notify` | the last threshold alerted for, in Redis, with a TTL | one call per request over a threshold | gateways in several processes; a process that stops between sending and recording | a threshold is announced once per period |
| **Other locks** `internal/database/locker`, `cmd/gitserver/server/lock.go` | PostgreSQL advisory locks, a map of directories | TryAcquire, release | | mutual exclusion |
| **Archive store of searcher** `cmd/searcher/internal/search`, `internal/diskcache` | zip files and their temporary files, a mutex per path, a limiter, mapped files with user counts | PrepareZipPaths, OpenWithPath, Evict, zipCache.Get and delete, retry | fetches that outlive their search; eviction racing readers; power loss | nobody reads a half-written or unmapped archive |
| **Other caches** `internal/ttlcache`, `internal/rcache` | entries with last use | Get, reap | entry used between the two checks of the reaper | no reaped entry is handed out |
| **Periodic goroutines** `internal/goroutine` | contexts, pool size, reinvocation count | Start, Stop, dynamic concurrency | Stop and resizing race calls of the handler | Stop returns and nothing runs afterwards |
| **Out-of-band migrations** `internal/oobmigration` | progress in the database | up, down, progress | several instances | progress is monotone unless reverted |
| **Git server**, **batch changes**, **code intelligence**, **search**, **web client** | | | see `PROJECT.json` | |

How the first three interact: the packages that own a job table insert rows;
workers in any number of processes `Dequeue` them; a worker keeps its rows alive
with one `Heartbeat` call for all running ids and learns from the answer which
rows it no longer holds and which a user canceled; handlers finish with one of
the Mark calls; the resetter, in one process, takes back rows whose heartbeat is
too old. The store is used by workers of the same binary through
`store_shim.go`, which passes no hostname, and by the executor queue, which
passes the executor's (`EnforceHostname`).

The update scheduler runs in repo-updater: `watchSyncer` hands it the diffs of the
syncer, `manageUnclonedRepos` the repositories that are not cloned; the schedule puts
due repositories into the update queue, the update loop takes them out under a
`MutableLimiter`, and the goroutine of each update tells the schedule its next
interval. The searcher fetches archives from gitserver under a `MutableLimiter` of
its own. The notifier is the one client of the Redis lock. Periodic goroutines run
the handlers of janitors and syncers in all services.

`PROJECT.json` lists the hazards found, each at its line with the properties
that would catch it.

## 2. Modules

| Module | Models |
|---|---|
| `JobLifecycle` | Abstract specification of one job: waiting, running, closed, gone, and a budget of attempts. A claim costs one; only an explicit requeue gives one back. |
| `WorkerStore` | The job table. One operator per SQL statement of `store.go`; `Statement` is any statement, `Tick` the clock. |
| `Worker` | Worker processes, the resetter and users on top of `WorkerStore`. |
| `LimiterList`, `MutableLimiter` | The adjustable semaphore: its list, and the goroutine that owns it with its callers. |
| `UpdateQueue` | The queue of repositories to update, the update loop with a limiter, the updates in flight, and restarts of the loop. |
| `Scheduler` | The whole UpdateScheduler: extends `UpdateQueue` with the schedule, its timer, its loop, its callers, and restarts that turn automatic updates on and off. |
| `RedisLock`, `RateLimitNotifier` | The lock, command by command, and its client composed with it. |
| `PeriodicGoroutine` | A periodic routine: pool, resizing, shutdown. |
| `Searcher` | The archives of searcher: disk cache, fetches under a limiter, mapped files, eviction. |
| `MCWorkerStore`, `MCWorker`, `MCMutableLimiter`, `MCUpdateQueue`, `MCScheduler`, `MCRateLimitNotifier`, `MCPeriodicGoroutine`, `MCSearcher` | Instances for TLC. |
| `WorkerProofs` (with the theorems about `WorkerStore`), `WorkerLeaseProofs`, `LimiterListProofs`, `MutableLimiterProofs`, `SchedulerProofs` (with those about `UpdateQueue`), `NotifierProofs`, `PeriodicGoroutineProofs`, `SearcherProofs` | Theorems and their TLAPS proofs. |

**WorkerStore.** A row is a record with the columns the statements read.
Timestamps are kept as ages, which saturate one step past the last value a
condition tells apart; `failure_message`, `execution_logs`, `started_at` and
`queued_at` are written and never read, and are left out. A deleted row is a row in
state "deleted". `Dequeue` is one SQL statement with two halves at different times:
the candidate subquery reads a snapshot (`PotentialCandidates`), and the row
lock reads the current row and rechecks its state only (`Recheck`). Dequeue, Heartbeat and
ResetStalled read the clock of their process (`s.now()`) before they send a statement; `lag` is
the time from there to the statement. A Dequeue or Heartbeat that took long therefore writes a
`last_heartbeat_at` that is old already (`BeatAge`), and ResetStalled is two statements that compare
with one time, read before the first. `FOR UPDATE SKIP LOCKED` and single-row updates make each
statement atomic on the rows it touches. All records exist in the initial state: a row that its
package inserts later is one nobody has touched.

**Worker.** For each worker process:

* `loop` is the dequeue loop of `Start` with `dequeueAndHandle` inlined: take a
  token, PreDequeue hook, Dequeue (snapshot, then claim), register, wait.
* `slot` holds the handler goroutines. A slot stands for the context and cancel
  function of one goroutine, so an entry of `running` (runningIDSet) names the slot
  it cancels. A goroutine is handling, finalizing (verdict chosen, Mark call
  pending), in cleanup (PostHandle), or removing: the token is returned and the
  wait group is done *before* the deferred `runningIDSet.Remove`.
* `beat` is the heartbeat goroutine: slice the ids, send, then apply the answer one
  id at a time, removals first.
* `sem` is handlerSemaphore. `resetter` is a ResetStalled call in progress: it reads the clock, then
  each statement takes effect or fails, the first one included.

A Dequeue and a Heartbeat in progress carry their `lag`. `IDSet.Remove` deletes the id under its lock
and calls cancel after it; both are one step, because the context is one that only its own
goroutine reads and a goroutine may notice a canceled context at any later time.

Every store call can fail before or after it took effect. A crash loses all of a
process's memory; it restarts under the same hostname. Users cancel and delete
records at any time. Handlers may requeue their own record (the code intelligence
processor does). `MaximumRuntimePerJob` is an error result of the handler. Hooks,
metrics, tracing, recorder and logging have no effect on this state.

Named bounds: `Slots` (goroutines of one worker alive at once, more than
NumHandlers because the token is returned early), `MaxCrashes`, `MaxRequeues`,
`MaxDelay`, `MaxCallTicks` (ticks during one Dequeue or Heartbeat), `MaxPassTicks` (ticks during one
ResetStalled), `MaxFailures` (`MCWorkerStore` only: Requeue does not reset num_failures).

`Prompt` selects the timing assumption. With it, time passes only while every worker
is on time: all registered records were refreshed less than StalledMaxAge ago, no
store call is under way, and finished goroutines have left runningIDSet. That is
what the configured values (HeartbeatInterval of 1 to 20 seconds, StalledMaxAge of 10
to 60 seconds) are meant to give. The outbound webhook worker sets both to 10 seconds, so
there the assumption has no margin. Without it handlers, goroutines and Mark calls may take for
ever, and the calls that have read the clock up to their two bounds.

**MutableLimiter** and **LimiterList.** `LimiterList` is the list of cancel functions with its three
operations; `MutableLimiter` is the goroutine `do` with callers of Acquire, of the returned cancel
function and of SetLimit. Every rendezvous on an unbuffered channel is one step. SetLimit returns at
the rendezvous and `do` cancels the oldest contexts afterwards; that is one step too, because `do`
serves nobody else in between: a caller that is still to be canceled is one whose cancellation it
has not noticed. `Calls` bounds the calls of Acquire in existence, not their number: a name is used
again when its caller has dropped the cancel function.

**UpdateQueue.** The update half of `scheduler.go`. The heap is kept as the order
that Less defines: `high` and `low` are the waiting repositories in the order of their
sequence numbers, `updating` those that are acquired. Each loop that RunScheduler starts
has its own `pc`, the number of the channel it blocks on (0 when it is not in its select), and its own
limiter (`limit`, `leases`, with the operators of `LimiterList`). `update` holds one entry per acquired
context: first with the loop, then with the goroutine that requests the update, removes the
repository from the queue and releases the context, three steps in that order. The schedule
is a caller that enqueues at low priority. Bounds: `Slots` (contexts in existence), `MaxLoops` (one
more than the restarts), `Updaters` (the loops that get a context from their limiter), `MaxStopping`
(stopped loops that have not ended when another is stopped). The proofs hold for any value of them.

**Scheduler.** Adds what `UpdateQueue` leaves to its environment. `due` and `timer` hold the
time left, in ticks; `interval` is Interval. The heap is its set of entries: only its
root matters, and which of several that are due at the same time is the root is left
open. Each method of `schedule` holds `s.mu` for its whole body and is one step;
`runSchedule` is several: the loop receives from the wakeup channel (`WakeUp`), waits for the mutex
(pc "woken", `LockSchedule`) and then holds it (pc "run", `Locked`) while it takes the queue's
lock for every repository it enqueues. A loop's select holds the channel it evaluated
(`sreading`), also when a reset replaces `wakeup` meanwhile. Updates are on or off at the start
(`EnabledAtStart`), and every restart switches them. The timer fires (`Fire`) and its function runs
later (`Wake`), without the lock: a Stop in between comes too late, and the channel it
notifies is the one that is current by then. `diff` is UpdateFromDiff between its two
steps for one repository. An update that ends tells the schedule an interval (a configured
one or the heuristic, `ApplyInterval`; any value, as clamping maps those outside to the
bounds), nothing, or backs off in two steps (`ReadInterval`, `BackOff`). `MinDelay`,
`MaxDelay` and `JitterDivisor` are the constants of the code; the model keeps
the integer division and the half-open range of the jitter.

**RedisLock** and **RateLimitNotifier.** Every Redis command of TryAcquire and release is
a step, and so is the comparison with the clock. A token is named by the call that made it,
and `left` is the time until it expires. `OperationTime` is how long a call may take from
computing its token to the end of release, `AcquireTime` how much of it TryAcquire may take, which is
all a contender that does not get the lock has (`TimeAllowed`); `Tick` lets no call outlive its
time. `Calls` bounds
the calls and tokens in existence. A call stops at any point (process crash or a
Redis error) with the key left as it is. The notifier runs between acquisition and release:
read the last threshold, send, set the alert key, release. `notified` and `forgotten` are
history variables.

**PeriodicGoroutine.** Start (with runHandlerPool), the goroutine of concurrencyUpdates, and
the workers of a pool. The channel between the first two is `buffer` and `closed`;
forciblyWriteToBufferedChannel is a send or a pop per step. A worker is in its handler, or
in its select with the interval 0 ("again") or the configured one ("sleep"). The setting
changes at any time; Stop may come before Start. `Workers` bounds the goroutines of pools.

**Searcher.** A search and the goroutine that opens or fetches for it; the goroutine goes on when
the search has given up (`withIsolatedTimeout`). A third goroutine, `copier`, turns the tar stream
into the zip file and writes it into the pipe the second one reads. It is this one that releases the
limiter, before it closes its end of the pipe; when the temporary file cannot be written, the fetch
fails, unlocks and returns while it still holds the limiter. `zip` and `part` say what is on disk: a
temporary file is partial, written, or synced, and what Rename makes of it is whole, unsynced or
torn. `mutex` is the mutex of the path, `leases` the limiter (operators of `LimiterList`), `mapped`
the zip cache. Eviction walks, takes the shard, waits for users, unmaps and removes, one step each;
a MaxCacheSize of 0 turns it off, and the walk over the directory is one step. `Crash` is a loss of
power: what was not synced is torn, a rename whose directory was not synced may be undone. `Spoil`
is a disk error that makes a file an invalid zip. All paths of a model share one shard of the zip
cache, the worst case. Bounds: `Searches`, `Keys`, `Spoilable`, `Wanted` (the archives each search
may be for).

## 3. Runs

Type invariants are proved for every module (section 4); a run checks the one of
`PeriodicGoroutine` too, because its bound on the reinvocation count is a hazard of its own.

Safety and refinement:

* **store** - any client, two records, one reset, one retry, one requeue delay, statements whose
  clock was read up to a tick before. `LifecycleSpec`: every statement is a step of `JobLifecycle`
  under the mapping in which the budget is what num_resets and num_failures still allow.
  `RetriesAllowed` and `CanceledOnRequest` are facts about a row that the mapping rests on. Both
  counters reach their limits in this instance, also after a requeue, and ResetStalled meets two
  stalled rows at once.
* **prompt** - two workers, one record, a crash, a retry and a reset, heartbeats on
  time. `OwnersHold`: a goroutine that has not been told to stop holds its record,
  so neither the resetter nor a verdict of an earlier attempt takes it away.
  `OneOwner`: no two goroutines handle a record, the promise of the comment in
  `Start`. `AddAccepts`: runningIDSet.Add never refuses a record just dequeued, which would leave the
  claimed row to the resetter. One record is enough: actions on different records share only the
  semaphore and the slots. No handler requeues here: see `WorkerLeaseProofs` in section 4.
* **async** - one worker with two handlers, no timing assumption, so that a record
  is reset twice under its handlers and dequeued again by the same worker.
  `TokensConserved`, `EntriesAlive`, `HandlersCovered`: the bookkeeping stays exact
  although ids are reused. `ResetNotFailed`: the second statement of a ResetStalled
  call never fails what the first has just reset, although Dequeue and Heartbeat write a
  clock value that is up to StalledMaxAge old (`MaxCallTicks = StalledMaxAge = 1`). A call that takes
  longer breaks it: see below. 2.7 million states.
* **limiter** - four callers; limits -1 (unlimited) to 3, changed at any time.
  `LiveWithinLimit`, `CanceledExactlyOutside` and `EvictOldest` are the promises of SetLimit's
  comment and of the cancel function; `AcquireReturns` is its liveness. Four calls let a
  limit of 3 be exceeded by one and two callers be evicted at once.
* **queue** - two repositories, limits 1 and 2 (so that an update can be evicted and the loop can
  be blocked), two contexts, requests that never end, and a restart at any time.
  `UpdatesWithinLimit` is the limiter seen from the scheduler; it holds across the restart, because
  stop() cancels what the first limiter granted. `NotifyLossless` is the claim of the comment
  on notifyChanBuffer; `AcquiredInQueue` is why one repository is not updated twice at the
  same time. Liveness: `HighServed` and `LowServed`, order within a priority is fair, and only
  requests of high priority may hold up the others. The last four are about the first loop (see
  below). Two repositories suffice for one to overtake the other: it can be requested again
  after it has left the queue and before its context is released.
* **scheduler** - one repository, one update at a time, a delay of 2 ticks with a jitter of half of
  it, and two restarts, so that automatic updates go on, off and on again. `TimerOnTime`: the
  schedule does not sleep past a due time whichever of its methods set, stop or lose the timer.
  `LowScheduled`: why remove takes the repository out of the schedule first. `IntervalBounded`:
  back-off and jitter. `ImplementsQueue` is the refinement: every step is one of `UpdateQueue`.
  `ScheduledRequested` (liveness): a repository gets into the queue as long as it stays scheduled
  and updates are enabled, unless the current loop is `Deaf`: it blocks on a wakeup channel that the
  late reset of an earlier loop has replaced. That exception is real, not a convenience: without it
  TLC finds the behaviour in this very instance (see below). Two bounds keep the instance within
  minutes: only the first loop's limiter grants contexts (`Updaters`), and an update loop has ended
  before the next is stopped (`MaxStopping = 0`); the schedule loops overlap freely, and the safety
  properties are proved for all values of the bounds.
* **notifier** - three calls, a lock timeout of 5 ticks, an operation time of 3, a tick of it to acquire
  the lock, two thresholds
  and usages below, between and above them. `MutualExclusion` although late contenders replace the
  holder's token and release deletes in two steps; `NotifiedOnce` is the notifier's purpose. Three
  calls are needed for the races: one that holds, one that takes over, one that comes
  late. A call may thus take more than half of the timeout, as the code's may (15 s for Slack and the
  Redis commands, of 30 s); AcquireTime + OperationTime is just below it.
* **periodic** - a pool of 0, 1 or 2 workers, three goroutines, and three calls in a row instead of
  100. `PoolWithinSize` and `FinalizedLast` are safety; `StopReturns`, `SettingReached`
  and `NoSpin` liveness.
* **searcher** - two searches, two archives, a cache with room for one, limits 1 and 2, one of the
  archives spoilt at any time. `NeverTorn`, `InUseMapped` and `FetchesWithinLimit` are safety,
  `EvictEnds` liveness. Two searches are enough for two fetches of one archive and for a reader
  against eviction; the cache of one makes eviction run whenever both archives are there. One search
  is for either archive, the other for the one that is not spoilt (`Wanted`). `FetchesWithinLimit` says
  that whoever holds the limiter waits for gitserver or copies, in the fetch's goroutine or in one
  that has outlived its fetch.

Liveness:

* **live** - `EventuallyClosed` although the process crashes once, and Dequeue answers, heartbeats, Mark
  calls and reset passes are late or lost any number of times.
* **drain** - handlers that only return when told, one that requeues, a Stop at any point, a hook that
  declines and a NumTotalJobs limit. `LossNoticed`: a handler is told once its record was
  deleted or canceled. `StopReturns`: if handlers return, so does Stop, from every point
  of the loop. One slot: an answer to a heartbeat sent for an earlier attempt can still
  arrive after the record was dequeued again.

Fairness: goroutines that can run do (weak fairness of each loop and goroutine);
the clock advances; a store call that is tried again and again succeeds
eventually (strong fairness of DequeueRecord, BeatSend and the reset statements: the
database is not down for ever); a handler whose context is canceled returns.
`ReturningHandlers` adds that handlers return by themselves; `LossNoticed` does not assume it.
Finalize is only weakly fair and may fail every time. Fairness is never
assumed of users, crashes, requeues or failures. In the limiter and the update queue:
callers invoke cancel (their contract) and gitserver answers or the request times out; a
Go select chooses uniformly among the channels that are ready, so `Grant` and `Acquire` are
strongly fair: changes of the limit may disable them in between. In the scheduler: time
passes, a timer that is due fires, its function runs, and so does the schedule loop; nothing is
assumed of updates or callers. In the periodic routine: goroutines run and handlers return
(Stop cannot promise more), and a select in which a context is done each time does
not choose the timer each time (strong fairness of `Exit` and `Close`). In the searcher: the
evicting goroutine runs, and a search ends, because FetchTimeout bounds its wait and
it reads a file that is mapped; fetches may hang.

Disagreement between the code and what is said about it (a run that must fail):

* **job_canceled** - `isJobCanceled` mistakes a lost record for a canceled one when the
  same worker has dequeued the record again, and the old goroutine then fails the
  record under the new one.

Not checked by runs, but met while reading:

* workers.md:137 says records with cancel set "will ultimately end up in state
  'canceled'"; markCompleteQuery does not look at cancel, so a handler that returns without
  error before the cancel reaches it leaves the record completed, and
  resetStalledMaxResetsQuery leaves it failed;
* workers.md:115 calls MaxNumRetries the number of secondary attempts; markErroredQuery
  compares num_failures + 1 with it, so it bounds all failed attempts, and with 1 the first
  failure is final;
* the `Store` interface says MarkErrored and MarkFailed apply to records "processing or
  completed" (store.go:121, 126), the queries only to processing ones;
* `Options.MaxNumResets` says a record is then "errored" (store.go:218), the query sets failed;
* with RetryAfter = 0 and MaxNumRetries > 1 an errored record is never a candidate again and stays
  errored (store.go:544); `EventuallyClosed` is checked with RetryAfter > 0;
* the delay of Requeue (store.go:102) can be skipped by a Dequeue whose snapshot is older than the
  requeue: the row lock rechecks the state only (`Recheck`);
* RunScheduler does not wait for the loop it stops. The old loop's reset can empty the queue under
  updates of the new one, and so can the deferred `remove(repo, true)` of an old update for one
  entry; a repository can then be updated twice at once. The new loop may also have read
  notifyEnqueue before that reset replaced it, and then blocks on a channel nobody sends on; and a
  stopped loop that returns on an error of Acquire leaves the queue with its notification
  consumed. So `AcquiredInQueue`, `NotifyLossless`, `HighServed` and `LowServed` are stated for
  the first loop; without that condition (`loop = 1`, `Stopped(1)`) TLC shows each of these
  behaviours in the same instance;
* the schedule loop has the same race on `wakeup`. When updates go on, off and on again, loop 3 may
  have evaluated `<-s.schedule.wakeup` (scheduler.go:155) before loop 1, which is still on its way out,
  calls reset (157, 889) and replaces the channel. The timer notifies the new channel; the select of
  loop 3 holds the old one, and no scheduled repository is enqueued until the next restart.
  `ScheduledRequested` excludes exactly this (`Deaf`), and TLC shows it without that clause;
* Dequeue reads `now` before it sends its statement (store.go:473, 488). If the statement comes more than
  StalledMaxAge later, the row it claims is stalled from the start: the resetter takes it from a
  worker that has just begun, and one ResetStalled call may reset a record, see it claimed and fail it.
  `ResetNotFailed` needs MaxCallTicks <= StalledMaxAge, and TLC violates it with one tick more;
* manageUnclonedRepos reads its list before it calls PrioritiseUncloned: a repository removed
  meanwhile is inserted into the schedule again;
* "the minimum amount of time between scheduled updates" (scheduler.go:86): the jitter is added
  after the interval was clamped, so the shortest interval is 5% below;
* rate_limit.go:110-112 asks for a Slack timeout below the lock timeout. That alone is not enough: a
  contender that takes over an expired lock writes a token whose time began when its TryAcquire did,
  so `LockExcludes` needs AcquireTime + OperationTime < LockTimeout. With the sum equal to the timeout
  (2 + 3 = 5 ticks) TLC finds two holders. The code's 15 s for Slack under a lock of 30 s meet it if
  the Redis commands of a contender and of the holder take less than 15 s together, which nothing
  in redispool enforces: it sets no timeout of commands. redislock.go warns that it is not for what
  must be exclusive;
* a failed SETEX or a crash after the message was sent sends it again (`forgotten`);
* after Stop the handler of a periodic routine may be called once more with a context that is done,
  by a pool whose size was still in the channel, or when the select takes the timer;
* retry.go:22-23: the second time an archive is invalid, `getZipFileWithRetry` returns a nil file and
  the nil error of os.Remove, and search.go:274 dereferences it. The model reaches this state
  (pc "nil") when the disk spoils the archive again between fetch and use;
* cache.go:334 "Sum up the total size of all zips": temporary files count too, but are never evicted. A
  temporary file that a crash left behind takes room until its archive is fetched again.

## 4. Proofs

All theorems hold for any finite or infinite set of records and workers, any finite set of
goroutines and any limits that satisfy the named assumptions of the modules (types of the constants;
NumHandlers is positive; JitterDivisor is at least 2 and at most MinDelay; AcquireTime <=
OperationTime < LockTimeout). Some theorems assume more, and say so: `ResetNeverFailed`,
`LockExcludes` with the two about the notifier that rest on it, and those of `WorkerLeaseProofs`.

`WorkerProofs`, the job table. `RowWrite` lists how one statement can change one row, and
`StatementRowWrite` shows that every statement does nothing else to any row, so
invariants are proved row by row. The inductive invariant is `StoreInv`, the
conjunction of `RetriesAllowed`, `CanceledOnRequest` and a bound on num_resets in row form
(`RowInv`), on top of `StoreTypeOK`; it is inductive as it stands. It yields
`RetriesAllowedAlways` and `CanceledOnRequestAlways`. For
`StoreImplementsLifecycle` the lemmas `RowEffects`, `FailureEffects` and `UserEffects`
say what each statement does to the abstract status and budget of a row;
`RowInv` is what keeps the budget a natural number and positive while the record waits.

`WorkerProofs`, the workers. `Shape` (types, without the bound on the semaphore) and `RowsNamed` (a
goroutine, or a record being registered, names a row) are inductive together. From
them:

* `WorkersUseStore`: every step is a `Statement` of the store, a tick or leaves the table
  alone, so `Spec => StoreSpec` and the theorems above hold of the system
  (`WorkersKeepLifecycle`);
* `TokensAlwaysConserved`, by the cardinality of the goroutines in flight, and from it
  `TypeCorrect` (the semaphore never exceeds NumHandlers);
* `EntriesAlwaysAlive` and `HandlersAlwaysCovered`, proved together: an entry names a live
  goroutine of its record, and a goroutine that is not canceled is named by the
  entry of its record. Neither is inductive alone: a late `Remove` deletes the entry
  of another goroutine, and only the first fact says whose context it cancels;
* `ResetNeverFailed`, for MaxCallTicks <= StalledMaxAge, from `ResetYoung`: a record the pass has reset
  can only be processing again with a heartbeat older than the pass by what a call may take;
* `StoppedAlwaysIdle` and `AlwaysWithinQuota`: `NoNewGoroutine` (only `Register` starts one) and
  `LoopMoves` (what each step does to a dequeue loop) reduce both to one worker. The second is
  inductive only with its clause about the token in hand: the quota is read when the token is
  taken and the record is counted when it is registered;
* `ClosedAlwaysStays`, the action property `ClosedStays`: `ClosedRow` goes through what a statement
  can write into a row that is completed, failed or canceled.

None of these needs `Prompt`.

`WorkerLeaseProofs` assumes `Prompt` and proves `OwnersAlwaysHold` and `AlwaysOneOwner` for any
number of workers, records, goroutines and crashes, with failing calls, lost answers, cancellations
and deletions; nothing is assumed of StalledMaxAge, RetryAfter, MaxNumResets or EnforceHostname
beyond their types. Neither property is inductive. `Owns` excludes a goroutine whose context is
canceled, and that one still has to finalize; a reset or a claim is possible long before anyone
owns the record; and a heartbeat answer read now is applied later. `Lease` says, of a record *r*:

* `RowsLeased`: whoever works on *r*, told to stop or not, or has claimed it and not yet registered
  it, has a row in its name with a heartbeat the resetter accepts, or the row was deleted;
* `WorkCovered`: heartbeats name *r* until its goroutine has finalized it, also after its context
  was canceled. Otherwise the lease would run out under a handler that is slow to return;
* `WorkAlone`: one goroutine or one dequeue loop at a time;
* `ReferredSettled`: what a goroutine that is only leaving, or a heartbeat, still refers to has not
  become free again, because that takes time (a heartbeat too old, RetryAfter over), and `Prompt`
  lets no time pass meanwhile;
* `MetOnce`: so a worker does not dequeue a record it still refers to, the snapshot of its Dequeue
  included. This is what a late `runningIDSet.Remove` and a late heartbeat answer rest on;
* `UnknownDeleted`: a heartbeat drops a working goroutine only when its row is gone;
* `BeatsAtRest`: a heartbeat goroutine at rest refers to nothing.

`CallsFresh`, which is inductive by itself, says that under `Prompt` no call has a `lag`: what Dequeue
and Heartbeat write is fresh (`FreshBeatAge`).

`QuietRow` and `QuietStatements` show that no statement but Requeue and the Mark calls takes a row
away, the resetter's included; what is left is one lemma per step: claiming, registering, finalizing,
leaving, the heartbeat, a crash and time. TLC checked `Lease` as an invariant on the instance of the run
**prompt** in full (2.2 million states) before it was proved. `OnlyOrphansReset` (the resetter
finds only records nobody has) and `AddAlwaysAccepts` (`runningIDSet.Add` never refuses a record
that was just dequeued, worker.go) follow from the same invariant.

The theorems say `requeues = 0 => ...`: nothing is claimed once a handler has requeued a record. This is
the code's limit, not the proof's: after Requeue the row is queued while the handler that gave it
back still runs; another goroutine may dequeue it, and the Mark call of the first, or its second
Requeue, then hits the row of the new owner (store_shim.go passes no hostname, and the same worker
may be the new owner even if it did).

`LimiterListProofs` says what Append, Tail, `Without` and `WithinLimit` do to a list without
duplicates, and that a list has no more elements than places.

`MutableLimiterProofs`, for any finite set of calls and any limits. `LimiterInv`: the list has no
duplicates, holds calls whose cancel was not invoked, is no longer than a limit that is
not negative, and a held context is canceled exactly when it is outside. The bound
on the length is what makes the test for equality in `do` sufficient. It yields
`LiveAlwaysWithinLimit`, `CanceledAlwaysOutside` and the action property
`OldestAlwaysEvicted`.

`SchedulerProofs`, the update queue, for any repositories, finite set of contexts and positive
limits. `QInv` (types, `OnePlace`, and `LeasesOK`: a lease is in the list of the one loop that
acquired it, within its limit) holds for any number of restarts and yields
`UpdatesAlwaysWithinLimit`: only the current loop has live leases. `Single` says that until the
first restart the channel in use is the one the loop reads, every update in flight has its entry and
no other loop exists; it yields `NotifyAlwaysLossless` and `AcquiredAlwaysInQueue`.

`SchedulerProofs`, the schedule. `SchedulerImplementsQueue` takes every action to one of
`UpdateQueue` or a stutter, so that `QInv` is available and `SchedulerWithinLimit` follows. The
inductive invariant `SInv` adds to `QInv` the types, `ScheduleOK` (the intervals of scheduled
repositories are bounded and due no later than one interval, the others are 0), `DiffOK`,
`NotStarted` (loops to come are off), and `TimerOnTime`, `LowScheduled` and `UpsertScheduled`
(between the two steps of upsert the repository is in the schedule, without which `LowScheduled` is
not inductive). That the timer's time exists is the well-ordering of the naturals (`LeastExists`).
It yields the other five theorems.

`NotifierProofs`. `LockExcludes` assumes AcquireTime + OperationTime < LockTimeout. `LockInv`: the
token of a call in progress has as much time left as its place allows (`Young`); a token that a
contender is about to replace has expired (`SeenExpired`); while the lock is held the key has a
value, the holder's or that of a contender that came late, and it outlasts the holder (`Guarded`).
The contender may have used up AcquireTime of its token before it writes it: this is where the sum
comes from. `MutualExclusion` is not inductive without these three. `NotifiesOnce` adds `NotifyInv`:
the thresholds recorded are at most `last`, and a holder that is to send is above it, which nobody
else can change while it holds the lock.

`PeriodicGoroutineProofs`, for any finite set of goroutines and any sizes. `TypeOK` is inductive with
`SizeInHand` (Start drains a pool only with the next size in hand). `PoolAlwaysWithinSize` and
`AlwaysFinalizedLast` follow from it: a pool starts only when the one before has ended.
`SettingAlwaysKept` is the safety half of `SettingReached`: when concurrencyUpdates is not between the
failed send and the next, the newest value it has seen is in the channel, with Start or in force,
although forciblyWriteToBufferedChannel throws values away and Start may empty the channel in between.

`SearcherProofs`. `SearcherInv`: only the owner of the mutex is between Lock and Reopen
(`Exclusive`), so its temporary file is what its last step made it (`Written`), and a file that is
in place was synced (`Durable`); a search waits for the result of its own goroutine (`Handshake`,
which also says when its copying goroutine has ended), the limiter's list has no duplicates
(`Distinct`) and holds fetches that wait for gitserver and goroutines that copy; and while eviction
is at a file there is one (`Evicting`). It yields `ArchivesWhole`, `FilesInUseMapped` and
`FetchesLimited`.

Every invariant and every action property that a passing run checks is stated by a theorem. Only
model-checked are the liveness properties, which are outside the prover's reach: `EventuallyClosed`,
`LossNoticed` and `StopReturns` of the worker, `AcquireReturns`, `HighServed`, `LowServed`,
`ScheduledRequested`, `StopReturns`, `SettingReached` and `NoSpin` of periodic routines, and
`EvictEnds`.

## 5. Plan

1. Done: job store, worker, resetter, lifecycle refinement; limiter; update queue, schedule and
   their composition; Redis lock and its client; periodic routines; archive store of searcher; the
   proofs above.
2. Executor queue: the worker's store over HTTP, with retried requests and
   EnforceHostname, composed with `WorkerStore`.
3. Ownership record by record: `Lease` for the records that no handler has requeued, while others are.
4. `TTLCache` (no expired value after its expiration callback) and the directory locks of
   gitserver with clone, fetch and the janitor.

## 6. Not modelled

The order in which Dequeue returns candidates (any candidate may be claimed), execution logs,
queue metrics, the Stop of the resetter, the names of repositories in the update queue,
slots beyond the bound, clock skew between processes (all times are the database's or
compared with one process's clock; the Redis lock compares clocks of several
processes, which the model takes as one), the order of eviction, several shards of the zip
cache, and transactions that a handler opens itself. Most of the repository
(web client, GraphQL and HTTP handlers, SQL stores, query parsing, generated mocks and protocol
code) transforms data or keeps its state in one SQL statement, and has no steps to interleave.
Components that are listed as not modelled in `PROJECT.json` carry their reason there.
