# kURL in TLA+

kURL is a URL shortener made of three Rust services and two stores.

* **gateway** serves HTTP: it redirects short codes (from the Redis cache, else
  from core), creates and deletes links through core, shows statistics, and
  appends one *click event* per redirect to a Redis stream.
* **core** owns the table `links` and feeds the redirect cache through a worker
  task with an unbounded queue.
* **analytics** counts the click events in Redis hashes and periodically merges
  them into Postgres; it also serves the statistics over gRPC.
* **Redis** holds the cache, the stream with its consumer group and the counters.
  It keeps nothing on disk (`config/redis.conf`: `save ""`, `appendonly no`).
* **Postgres** holds the links, the daily tables, the totals and the advisory
  lock that elects the analytics writer.

All services run under `docker-compose.yml` with `restart: unless-stopped`.

## Inventory

| component | state | operations | hard behaviour | what makes it correct |
|---|---|---|---|---|
| analytics event consumer (`event_consumer.rs`) | writer lock, position in the run loop, claimed batch | elect, create group, rehydrate, drain the PEL, read, process, tick, final flush | several instances, lost lock session, cancelled reads, crashes, shutdown anywhere | one writer; every entry handled in the end; nothing counted twice or never |
| analytics Redis statistics (`redis_stats.rs`) | day buckets per link and for all links, last-click timestamps | `RECORD_CLICK`, `HMAX`, compare-and-delete, drop a malformed entry | scripts race with those of a second writer | acknowledgement and count are one step; HMAX never lowers |
| analytics persistence (`redis_persistence.rs`, `snapshot.rs`) | a snapshot in flight | rehydrate, capture, merge, reconcile, clean up | a snapshot is many reads; any call may fail | retries are harmless; restored before counted on; saved links fit the saved day |
| analytics snapshot merge (`db/pg_snapshot_repo.rs`) | daily tables, totals, `links.last_clicked_at` | one transaction of up to seven statements | two writers, links created and deleted in between | totals are the sums of the days |
| analytics gRPC API (`grpc.rs`, `db/db.rs`) | none | statistics of a link, of all links | two queries outside a transaction | a week that fits its total |
| core link service (`core/src/grpc.rs`, `db.rs`) | table `links` | create, get, delete, generate a code | handlers run concurrently and may be cancelled | a code belongs to one link |
| core cache worker (`core/src/cache.rs`, `main.rs`) | queue, cache keys with TTL | set, delete, drain at shutdown | reorderings between database and queue, dropped operations | the cache agrees with the table, or will soon |
| gateway core client (`grpc/core_client.rs`) | flights per code, permits | single-flight get, create, delete, 1 s timeout | joining, cancelled callers, stopped tasks | one call per code at a time, every caller answered, slots freed |
| gateway handlers (`api/*.rs`, `main.rs`) | open requests and their calls | redirect, create, delete, stats, graceful shutdown | answers that come late, clients that go away, a call that was executed though nobody heard its answer | what a client was told stays true; requests and shutdowns end |
| gateway click producer (`gateway/src/cache.rs`) | none | stamp and append a click in a task of its own | out-of-order stamps, lost at shutdown | an appended click is counted once |
| common retry (`common/src/retry`, `connections.rs`) | attempt counter, backoff | retry with backoff, jitter and cap; the connections made through it at start | jitter, saturation of the backoff | bounded attempts, delays that follow the backoff |
| common database errors (`db_utils.rs`) | none | tell a unique violation from other errors | - | a conflict is reported as one |
| common configuration, logging | none | read at start | - | - |
| migrator, migrations, proto, web pages | none | run once or generated | none | - |

The parts meet in the stores: gateway and analytics share the stream, core and
gateway the cache, core and analytics the table `links` (`link_daily_clicks`
cascades when a link is deleted). Inside analytics the event loop calls
everything in one task, so a flush and a read never overlap in one instance, but
they do between instances. `PROJECT.json` lists every component, and as
"hazards" what is hard to test in each of them.

## Modules

In every module a step is what the code runs between two awaits. Definitions keep
the names of the functions they translate where there is one (`RECORD_CLICK`,
`DrainPendingBatch`, `calculate_cache_ttl`). An operator with a suffix
(`HMAX_SCRIPT_Adds`, `RemoveIf_Never`) is a deliberately wrong variant of the
operator it precedes: no action uses it, it is there to show that a property
notices the mistake ("mutants" in `PROJECT.json`). Bounds are constants named in
the module (`Max...`) and appear in guards only.

### EventConsumer - the click pipeline

`MCEventConsumer` instantiates it, `EventConsumerProofs` proves about it,
`ClickLedger` is what it implements. The other modules have their `MC` and `Proofs`
modules in the same way.

* Redis: `stream`, `group`, `lastId`, `pel` (the stream and its consumer group),
  `counts`, `lastAt` (hashes and timestamps). `log` is the history of everything
  appended; an entry's id is its position.
* Postgres: `daily`, `lastClick`, `links` (which codes have a row), and `lock`, the
  session advisory lock. `lost` (Redis has lost its data) and `undated` (codes that
  were without a row at some time since) are history.
* `w[i]` is the state of instance i: where it is (`pc`), why (`phase`: start-up,
  tick, final flush or a batch that was read), the shutdown token, and the locals
  of the running function. `conn` tells if the pooled connection of that function
  is still up: after a Redis restart its remaining commands fail.
* `Acquire` .. `Pause` are `run`; `EnsureConsumerGroup`, `LoadDailyClicks`,
  `Hmax` and `DrainPendingBatch` the start of `run_inner`; `StopLoop`, `Tick`,
  `ReadStream`, `ConnectForBatch` the branches of the `select!`; `ProcessEntry`
  one entry of a batch; `CaptureDailyCounts` .. `MergeSnapshot`, `Hmax`,
  `CompareAndDelete`, `HmaxDone` one flush. Surroundings: the gateway's
  `SendClickEvent`, midnight, shutdown, crash and restart of an instance, loss of
  the session that holds the lock, a restart of Redis, a read that `select!`
  dropped and Redis still executes (`OrphanedRead`), and core, which deletes links
  with their days (`DeleteLink`, counted as a fault so that it is bounded) and
  creates them again (`CreateLink`).

Abstractions. Time is kept to the day (only the day decides a bucket, and within
a day a later stamp changes nothing the properties tell apart). An absent bucket
is 0: no code writes a zero. Both selects of the rehydration are one step: they read
different tables, and what may come in between (the deletion of a link or, after a
lost lock, a merge) concerns each bucket by itself.
The merge is one step, which `CommitsAsOneStep` of SnapshotMerge justifies for the
daily tables; what links that come and go between its statements do to the totals is
in that module. One abandoned
read is remembered at a time. Malformed hash fields are left out (nothing writes
one); malformed stream entries are in. Memory of Redis is not modelled.

### ClickLedger - what the pipeline promises

Published clicks are counted exactly once, in the bucket of their link and in the
bucket over all links; what is saved was counted before and is taken back only with
its link (`Forget`), never over all links.
`EventConsumer!ImplementsLedger` maps log, stream, counts and daily to it.

### SnapshotMerge - `merge_snapshot` statement by statement

Each writer has a transaction record `tx[i]`: the next statement, the locks it
holds, the snapshot, what `select ... for update` found, and what it has written
so far. A statement waits until nobody else holds a lock it needs and then sees
what is committed; `Commit` publishes everything at once, `Rollback` is any
failure. Row locks are the external part: a row that does not exist cannot be
locked by `for update`, while its insertion excludes other insertions; an insert
of a new day takes a shared lock on its link. Core creates links and deletes them
(`DeleteLink` takes the row, `Cascade` its days, `DeleteFails` covers the victim
of a deadlock). A statement takes all its locks in one step.

### AnalyticsApi - the statistics

It extends SnapshotMerge: `Tables` is any step of it, and `reads[r]` a call
between its two queries. `get_totals` is the first query, `get_link_stats` the
second one, `clamp_days` the conversion of the days that were asked for. A call
for all links always ends in `Fails`, because the second query behind it,
`get_global_daily_stats`, is a `todo!()`. `overtaken` is history: a merge was
committed between the two queries. MCSnapshotMerge instantiates this module, so
that one run checks both.

### LinkCache - core's link service and the cache worker

`handlers[h]` is a request in core, stopped at one of its awaits; `queue` the
unbounded channel; `worker` the cache task; `cache` the Redis keys with their
remaining time; `links` the table with the remaining time to the expiration.
`CreateLink`/`InsertRow`/`Inserted`, `GetLink`/`SelectRow`/`Selected` and
`DeleteLink`/`DeleteRow`/`Deleted` are the three handlers between their awaits;
`Cancel` drops a handler where it waits (a caller that timed out) or fails its
query; `RecvOp`, `ProcessOp`, `CloseQueue`, `WorkerExit` the worker; `ProcessEnds`
and `Crash` end the process and start the next. Surroundings: the shutdown signal,
a Redis restart, the clock, the pg_cron purge of links 90 days after expiring.
Time is relative, so behaviours have no end of time and the state space is finite.
`stored` (rows ever inserted) and `raced` (codes that lost a Del, or got a Set for
a row that was gone) are history. A redirect is a read of the cache and changes
nothing; a miss is `GetLink`.

### ServedLinks - what core promises of the cache

An entry is filled only with a link that was stored under its code. It gets no more
time than that link has left and a wait allows, and it is the code's present link
unless a removal has still to reach the cache. A removal that is over has emptied
the entry. There is no request, queue or worker in it, and it says where the
promise ends: a code is `astray` when its removal was lost or when it was sent a
link that was gone. `LinkCache!ImplementsServedLinks` maps the Redis keys to
`entry`, `stored` to `known` and `raced` to `astray`; `Removing` are the codes with
a delete whose row is gone, a Del in the queue or one in the worker. A link long
expired goes without a removal (`Purge`), which is why that step may only be taken
when nothing of the link is served.

### SingleFlight - the gateway's CoreClient

`inFlight` is the DashMap, `flights[f]` the task and watch channel started by a
request, `waits[p]` the channel a request waits on, `permits` the semaphore.
`GetLink` is the locked look at the map (`Join` or `Start`), `Acquire`, `Answer`,
`Remove` the task, `Stop` its abort or panic where it waits, `Answered` and
`Unavailable` the two results of `wait_for`, `Cancel` a client that went away.
A channel identity is reused only when nothing refers to it. A request that joins
may get an answer core gave before the request began: that is what sharing means
here and `OneCallPerCode` and `SharedCalls` allow it.

### SharedCalls - what CoreClient promises

Requests for a code come together in rounds, each of them one call to core: a
round begins when no other of its code has its answer still to come, nobody joins
one that is over, and at most `MaxInFlight` call at a time. There is no map, no
permit and no clean-up in it. `SingleFlight!ImplementsSharedCalls` maps a task to
its round (`Stage`), and the channel a request waits on to the round it takes part
in; a request that finds a stopped task still in the map joins a round that failed.

### Retry - the retries of a start

`loops[l]` is one call of `Retry`: where it is, its attempt, the state of its
strategy and (history) how long it has slept. `FailOnce` takes a delay from
`Delays`: what the strategy says, a random part of it by the jitter, then the
cap. `Pace` compares the time slept with the plain doubling, with the cap and with
the number of failures. Durations are numbers that saturate at `DurationMax`; the
multiplication of a
linear backoff converts the attempt to a u32, hence `AttemptValues`. There is no
timeout around an attempt in the code, and none in the module.

### Gateway - handlers, tasks and the life of the process

It extends Retry (the connections of the start) and composes SingleFlight
(`Client == INSTANCE`): every step on the map, the flights and the permits is a
step of that module, with its `Stop` and `Unavailable` left out, since the gateway
neither aborts a task nor closes the semaphore.

* `requests[r]` is a request from its connection on: being read (`reading`, from
  `Accept`), at the cache (`looking`), at the watch channel of a flight (`waiting`),
  in a call to core or analytics (`calling`), or done, with the status its client got. `closed` is no response at
  all: a panic, a dropped handler, the end of the process.
* `RedirectReq`, `CreateReq`, `DeleteReq`, `StatsReq`, `BadRequest` are the
  arrivals of a request that was read, which may also be during a shutdown; nothing
  says that they happen, since serve and the `Json` extractors of create and delete
  wait for the client without a timeout; `Hit`, `Miss`, `GetAnswer` the branches of `redirect`; `Return`,
  `Timeout`, `Disconnect` the ends of the other handlers; `Append` the task of a
  click. `calls[r]` outlives its handler: a call that was sent may be executed
  after its caller timed out, and even after the gateway died.
* `Connect`, `NoConnection`, `Serve`, `Terminate`, `Exit`, `Crash` are `main`.
  `Exit` waits for every connection (`Connected`), those being read included, and
  for the tasks.
* Core is the table `rows` and three calls that act on it in one step each
  (`CoreCreate`, `CoreDelete`, `CoreGet`); LinkCache has their awaits. The cache
  hit is any link the code ever had, the weakest thing LinkCache promises
  (`OnlyStored`). `stored`, `expired`, `removed` and `past` record what the
  properties compare answers with. `Linked` is a bound: only these codes have links
  and are asked for by creates, deletes and statistics; redirects ask for any code.

## Runs

| run | instance | shows |
|---|---|---|
| `faults` | 1 instance, 1 link, 3 days (window 1, grace 0), 2 events, 3 faults of any kind but lock loss, deletions of the link among them | types; `NoOvercount`: nothing is counted twice by any retry; `LastClickCoversDays`: no saved day is later than its link's last click, unless the link was created again after a restart of Redis |
| `two_writers` | 2 instances, 2 links, 2 events, 2 faults: the lock session breaks, connection errors, crashes, deletions of a link | `ExactCount`, `NoEntryStranded`, `GlobalCoversLinks`, and that the pipeline implements `ClickLedger` |
| `redis_loss` | 2 instances, 2 days, 3 events, batches of 2, 2 faults: Redis restarts, crashes, database errors | `SingleWriter`; `RehydratedBeforeCounting`; `FlushSavesAll`: a committed flush leaves nothing in Redis that Postgres lacks, until it ends |
| `handover` | 2 instances, shutdowns anywhere | `CleanHandover`: when nobody writes, Postgres has all that Redis counted |
| `live` | 2 instances, 2 faults: connection and database errors, crashes, Redis restarts, no deletions (the clicks of a deleted link stay in Redis); fairness | `EventuallyHandled`, `EventuallyPersisted`, `TakeoverHandlesBacklog` |
| `merge` | 2 writers, 1 link deleted and created again, 2 days, 2 clicks, 1 reader with windows of 1 and 2 days (0, 3 and no days asked for) | types; `DaysWithinTotal`: an answer shows no week ahead of its total, unless a merge was committed between its queries; `TotalsNeverBehind`; `TotalsFollowDays`: a commit moves a total exactly by what it moved the days, but for the two races below; `CommitsAsOneStep` |
| `cache` | 2 requests at a time, 1 code, 2 links, lifetimes of 3 ticks and for ever, a second of 2 ticks, TTL 2, 2 faults of any kind; fairness | types; `StaleHasCause`, `OverrunBoundedByWait`, `DeadLinksLeaveCache`, and that core implements `ServedLinks` |
| `flights` | 2 requests, 2 codes, 3 channels, 1 permit, 2 stopped tasks; fairness | types, which say that no permit is lost; `OneCallPerCode`, `CallersAnswered`, `CodesRecover`, and that the client implements `SharedCalls` |
| `gateway` | 2 requests of any kind, 2 codes (one of them with links), 2 tasks, 1 permit, 1 end of the process, 1 connection loop (exponential from 2, equal jitter, cap 5, 4 retries, durations up to 20); fairness | types; `CreateAnswersHold`, `DeletedOnce`, `ClickPerRedirect`, `NoAnswerFromThePast`, `RequestsEnd`, `ShutdownEnds`, `SleptFollowsBackoff` |
| `outcome_metric`, `stale_cleanup`, `rehydrate_error` | the smallest instance that shows it | the disagreements below |

The properties are about one bucket, one code or one entry against its rivals, so
two of each rival are enough for every pairwise interleaving: two writers, two
requests, two flights of a code plus the one that replaces them. Days need three
values for inside, at the edge of, and outside the window. Two faults are enough
for a fault during the recovery from another one. Of the kinds of faults only lost
locks and Redis restarts never meet in a run: what holds then is `NoOvercount`,
which is proved for all of them together. `MaxWait` and `MaxQueue` of 2 let a Set
stand behind another operation and age there. One
connection loop is enough, as loops share nothing; in four retries its backoff goes
from 2 by 4, 8 and 16 to the saturation at 20, so that the first two delays are below
the cap, the third is above it for some jitter and the last one for all. Two codes on
one permit put a task behind a full semaphore; the second code needs no links for that,
a redirect that core answers with a miss holds the permit as long. 2 links with 2 writers in
SnapshotMerge hold as well (3 million states) and are left out for their time.

`gateway` does not check for deadlock: when each request has had its answer and
the process has ended as often as it may, the model really stops.

### Fairness

* EventConsumer: an instance keeps running between its awaits and is restarted
  when it stops (`restart: unless-stopped`) - weak fairness of `Advance` and
  `Restart`. Strong fairness of `Tick`: the biased `select!` puts the ticker before
  the read. Strong fairness of `ReadStream`: a flush is shorter than
  `flush_interval`, so reads get their turn between ticks. Redis ends a blocked
  read of an abandoned client (weak fairness of `OrphanedRead`).
* LinkCache: weak fairness of the worker's steps, of time and of the restart of a
  process that ended. None for the requests: nobody has to call.
* SingleFlight: tokio's semaphore is a FIFO queue (strong fairness of `Acquire`),
  a call ends by its timeout of one second (weak fairness of `Answer`), and not
  every request to a stopped task is cancelled in the instant before it notices.

* Gateway: handlers and tasks are polled, and Redis answers or fails; the
  semaphore as above; a call to core returns or its timeout does (weak fairness of
  `Return \/ Timeout` and of `Answer`); the process leaves when nothing holds it up
  (weak fairness of `Exit`). Nothing is assumed of core, of analytics or of the
  clients: `RequestsEnd` and `ShutdownEnds` hold although core may never answer.
  They do not hold whatever the others do: calls to analytics have no timeout, so
  both leave out statistics requests, and nor has the reading of a request, so
  `RequestsEnd` begins when it is read and `ShutdownEnds` leaves out a client that
  does not finish what it sends (`HoldsUp`). Without either exception TLC finds a
  shutdown that never ends.

### Disagreements between code and documentation

* `rehydrate_error`: a failed HMAX of the rehydration is only logged
  (`redis_persistence.rs:46`), and the writer counts on a bucket it has not
  restored; the next merge keeps the greater value and the clicks are lost. The
  comment on the function promises to restore the state.
* `outcome_metric`: `record_click_event` maps the script's 0 to `Applied`
  (`redis_stats.rs:129`), while the script returns 1 for a processed event: the
  metric counts the wrong ones.
* `stale_cleanup`: the cleanup script reads the undefined variable `argv`
  (`redis_stats.rs:36`) and fails each time; stale buckets are never removed.

Two more are visible without a run: a create that core refuses as invalid panics
(`create.rs:50`, a `todo!()`, against the documented 400 at `create.rs:24`; the
model closes the request, and `CreateAnswersHold` shows that nothing was stored),
and the statistics of all links are documented with a 200 (`stats.rs:93`) and never
get past `db.rs:194`.

Seen while modelling, and not contradicting any documentation: a writer that sits
in its loop while Redis restarts reads without a group until its process restarts
(`TakeoverHandlesBacklog` therefore starts when nobody holds the lock); two first
merges of a bucket at once both add their whole delta to the totals, and a code
created again between the upsert and the update of a merge gets a total without
days (`TotalsFollowDays` excepts both and nothing else, `TotalsNeverBehind` holds
in spite of them); the TTL of a cache entry is what is left when the Set is sent,
not when it is executed, so an expired link is redirected for as long as its Set
waited (`OverrunBoundedByWait` bounds it); a Del sent after the worker closed its
channel is lost, as is one whose handler is dropped after its row is gone, and the
deleted link is then redirected until its TTL ends (`raced` records both); a
graceful shutdown of the gateway waits for handlers and tracked tasks, and loses
the click tasks, which nothing tracks; a statistics request that analytics does
not answer holds up that shutdown until the process is killed, and so does a client
that stalls in the body of a create or delete, which the `Json` extractors
(`create.rs:33`, `delete.rs:22`) read without a timeout; a link that is deleted and
created again after Redis restarted gets its days with a last click at the epoch: the
counters were rehydrated without a timestamp, they are news to the new row, and the
merge takes `DateTime::UNIX_EPOCH` for the missing one (`undated`, the exception of
`LastClickCoversDays`); the cap of a retry
is applied after the jitter, so under a cap the delays bunch at it; a week of
statistics has eight days (`day >= today - days`).

## Proofs

TLC checks the instances above; the theorems below are proved by TLAPS for every
value of the constants that `ConstantsAssumption` of the module allows: any number
of instances, links, requests, days, permits, entries and faults. The bounds
(`MaxFaults`, `MaxEvents`, `MaxLinks`, `MaxWait`, ...) are arbitrary numbers there.
Every safety invariant, action property and refinement of the passing runs is stated
by one of them.

### EventConsumerProofs

| theorem | states | assumes |
|---|---|---|
| `TypeCorrect` | `TypeOK` | - |
| `NeverOvercounted` | `NoOvercount` | - |
| `CountedExactly` | `ExactCount` | `NoRedisLoss` |
| `PipelineImplementsLedger` | `ImplementsLedger` | `NoRedisLoss` |

`NoRedisLoss` is that "redis_crash" is not among `FaultKinds`; all other faults,
lost locks with two concurrent writers included, stay.

`NoOvercount` is not inductive: an instance may write a snapshot long after it was
taken, in any order with the others, so a bound on Redis and Postgres alone says
nothing of the next step. `Bounded` says it of everything that holds counts: the
hashes, the daily rows, and each instance's snapshot (which also carries the rows
of a rehydration) are at most `HandledOf`, the clicks that left the stream. The
proof then goes by kind of step instead of by action: `StepKind` shows once that
each action copies counts by maximum (`Copying`, which covers all that leave them
alone), appends an entry (`Sending`), drops a malformed one (`Dropping`), counts
one and takes it out of the stream (`Counting`), loses the data of Redis (`Losing`),
or takes the days of a link out of Postgres (`Unlinking`). Each theorem then has six
cases.

### WriterProofs

| theorem | states | assumes |
|---|---|---|
| `OneWriter` | `SingleWriter` | `NoLockLoss` |
| `NothingStranded` | `NoEntryStranded` | - |
| `LastClicksCoverDays` | `LastClickCoversDays` | - |
| `HandoverIsClean` | `CleanHandover` | `OnlyShutdowns` |
| `CountsStartFromPostgres` | `RehydratedBeforeCounting` | `NoLockLoss`, `NoRedisErrors` |
| `DayCoversLinks` | `GlobalCoversLinks` | `NoRedisLoss` |
| `CommittedFlushSavesAll` | `FlushSavesAll` | `NoLockLoss`, `LinksStay` |

`NoLockLoss` takes "lock_loss" out of the faults: with it two writers are possible,
and the other theorems hold for two. `OneWriter` is inductive as it stands.
`NothingStranded` rests on `Reachable`: the group's cursor is never ahead of the
end of the stream, and a delivery takes the *oldest* new entries, so the cursor
skips none; when Redis restarts, stream and cursor vanish together.
`LastClicksCoverDays` rests on `Dated`: each count that is news to Postgres comes
with a timestamp at least as late - in Redis, and in each snapshot on its way -
while counts without one are copies of rows (a rehydration) and change nothing. They
are copies only as long as the row stays: of a code that was without one after Redis
lost its timestamps (`undated`) nothing is claimed, and `Rowless` says that all codes
that lack a row then are among these. A link deleted and created again while Redis
keeps its timestamps is not excepted.

`HandoverIsClean` assumes that the only faults are shutdowns, at any point of the
work; a failed final flush leaves clicks to the next writer, by design. `Orderly`
follows the writer through its loop: at its start and at its end the tables equal
the hashes, rehydrated and reconciled values are no higher than the hashes, and
what a capture has read so far is still what the hashes hold, because nobody else
counts (`SingleWriter`) and the writer does one thing at a time. That the merge then
makes the tables equal to the snapshot, and not just cover it, is
`daily <= counts`, which follows from `Bounded` and `ExactCount`.

`CountsStartFromPostgres` allows everything that may happen to the one writer but a
single command that Redis refuses (`NoRedisErrors`): with it the property is false,
and `rehydrate_error` is the counterexample. A restart of Redis is not excluded. It
takes the consumer group with it, and while there is no group nothing is counted;
`Rehydrated` says what a writer must have restored, by where it is, as long as the
group it created lives: all that Postgres has of the window, but for the HMAX calls
it has still to make. A writer that
Redis restarted under has no group until it starts again, and then it rehydrates
before it reads.

`DayCoversLinks` is about two writers, one of which may save an old snapshot. The
obvious strengthening, that each snapshot and the tables satisfy the inequality of
sums, is not inductive: a merge takes the maximum bucket by bucket, and the maxima
of two vectors may sum to more than either. What saves the code is the order of its
reads. The global hash is read last (`InOrderRead`), so the link counts of a
snapshot are at most what they were when the global one was read, and at that
moment the global count was at least their sum (`Totalled`: one script counts both).
`Momentary` says that there is a set of such moments, one after the other in every
component (`Chain`), with one of them behind the tables and behind each snapshot
that has read the global hash. Of two moments in a chain the later one explains the
maximum (`MaximaAreCovered`). The chain is not a history variable: the invariant
says that one exists, and the proof gives it, with the present counts added when a
capture reads the global hash. The sum is over all links, hence `LinksAreFinite`
(links are rows of a table).

`CommittedFlushSavesAll` says what `HandoverIsClean` can no longer say when commands
fail, processes die or Redis restarts: whichever flush gets to its commit - the
final flush of a shutdown, too - has saved everything. `Flushing` follows the writer
from the first read to the last write (`Secured`): a hash that was read has not
grown since; when all are read, no bucket of Redis is above the snapshot; and after
the merge neither Redis nor what is written back to it is above a row. `OnlyWriterFlushes`
turns `SingleWriter` into what the steps need, that no other instance moves; a
restart of Redis only takes counts away. The loss of the lock has to be excluded: a
second writer counts between the reads and the commit of the first one, TLC finds
the behaviour, and those clicks wait for the flush of the second. `LinksStay` takes
the deletions out of the faults: Redis keeps the counts of a deleted link, and the
merge does not save what has no row.

### Sums

Lemmas about `SumFunctionOnSet` for any finite set: it is an integer, any element
may be taken out first, it is monotone, additive and does not see zeros. The
library's induction theorems cannot be used (their parameter is an operator), but
an induction over a finite set needs none: the hypothesis is the *set* of the
subsets that have the property (`FiniteInduction`), and from it follows that the
recursive function inside the operator's definition exists (`SumsExist`).

### SnapshotProofs

| theorem | states |
|---|---|
| `TypesHold` | `TypeOK` of SnapshotMerge |
| `MergesAreAtomic` | `CommitsAsOneStep` |
| `TotalsCoverDays` | `TotalsNeverBehind` |
| `TotalsAndDaysAgree` | `TotalsFollowDays` |
| `AnswersAreExplained` | `DaysWithinTotal` of AnalyticsApi |

The invariant `Merging` says of a transaction what isolation gives it. `Exclusive`:
no two hold the same row (the shared lock on a link excepted). `Found`: rows it
found have not shrunk since, and are locked if they had anything in them. `Wrote`:
what it has written is what the commit will show, whatever others committed before
it got the row, and the links of these rows are still there. `Adds`: what it adds to
a total is the delta against what it *found*. `DaysOfLinks`: a link that is gone has
no days. Then `CommitsAsOneStep` is `Wrote` at the commit; a total grows by the
delta against the rows found and its days by the delta against the rows as they are,
which are no lower, so a total never falls behind. The two deltas are equal when
nothing was found missing that has come since (`Undisturbed`), which is every merge
but the two races `TotalsFollowDays` excepts. For an answer the invariant is that
the days are within the total the call has read (`WithinTotal`) until a merge
commits: rows only leave the tables otherwise. `AnalyticsApi` assumes that no link
has the name of the empty key of `reads`, "none", a value of the model only.

### LinkCacheProofs

| theorem | states |
|---|---|
| `TypeCorrect` | `TypeOK` |
| `NothingForeignServed` | `OnlyStored` |
| `OverrunBounded` | `OverrunBoundedByWait` |
| `StaleIsTraced` | `StaleHasCause` |
| `CoreImplementsServedLinks` | `ImplementsServedLinks`, by the refinement step by step |

The invariant has five parts, proved in this order, each from the ones before.
`Formed`: operations, requests and keys are complete, and no cached key is out of
time. `Known`: whatever waits in a request, the queue or the worker was stored.
`NewIds`: what is about to be inserted is not among it. `Timely`: a Set has no
more time than its link has left plus the time it waited. `Traced`: behind each
outdated Set in the queue comes a Del, or a request that is about to send one.
The purge of expired links deletes rows without sending a Del, and is where the
last two meet: by `Timely` and `MaxWait <= Retention` nothing of a link that is
purged is cached or waiting any more.

In the refinement the steps of a request change nothing but, at most, `Removing`:
the lemmas about it say that a code enters it when its row goes, stays while the Del
goes from the handler to the queue and to the worker, and leaves it when the Del is
executed (`Drop`) or lost (`Stray`, `LoseRemovals`); a Del of one request may come
while another of the same code is still on its way, so `Drop` need not end the
removal. That a Set may be executed as `Fill` rests on `Known` (it was stored), on
`Timely` (its time) and on `Traced` (an outdated one has its Del behind it). `Purge`
needs `Timely` once more. `OnlyStored` follows from the refinement and is proved by
itself first, as part of its invariant.

### SingleFlightProofs

| theorem | states |
|---|---|
| `PermitsKept` | `TypeOK`: the permits and the calls that hold one add up |
| `CallsShared` | `OneCallPerCode` |
| `ClientImplementsRounds` | `ImplementsSharedCalls`, by the refinement step by step |

`PermitsAddUp` counts the tasks in a call; `Reachable` says that the map leads to
every task that has not answered, which is what a clean-up that removed a newer
channel would break. The refinement needs the other direction as well: `Listed`
says that the map leads to no task of another code and to none that has ended, so
that who joins, joins a round of the code asked for that is not over. `Start` is
`Begin` by `Reachable`, and a free permit means fewer than `MaxInFlight` calls by
`PermitsAddUp`.

### RetryProofs

`RetriesKeepPace` states `SleptFollowsBackoff` (with the types) for every strategy,
jitter, cap, number of retries and number of loops. The upper bounds go by failures:
each adds a delay no longer than the cap and, until the saturation, no longer than
the backoff, and the doubling sums up to the backoff reached so far. The lower bounds
hold beyond the saturation, where the backoff grows no more and the sum still does;
the halves are rounded down, which costs at most one unit for every two failures.

### GatewayProofs

| theorem | states |
|---|---|
| `CreatesHold` | `CreateAnswersHold` |
| `DeletesOnce` | `DeletedOnce` |
| `ClicksMatchRedirects` | `ClickPerRedirect` |
| `AnswersAreFresh` | `NoAnswerFromThePast` |
| `GatewayRetriesKeepPace` | `SleptFollowsBackoff`, by `RetriesKeepPace`'s lemmas |
| `GatewayDrivesClient` | every step of the gateway is a step of `Client`, its restart, or leaves it alone |
| `GatewaySharesCalls` | `OneCallPerCode` of `Client`, by SingleFlightProofs' lemmas |
| `GateTypesHold` | `GateTypeOK` |

The invariant `GateInv` is `Books` and `Shared`. In `Books`, `TableInv` says that a
link is in one row at most and in none after it was removed; `Fine` types each
handler and has two parts: `Path`, which call and which click go with which point
of which handler, and `Told`, what a client was told, or the reply on its way to
it, against `stored`, `removed` and the rows; `Distinct` says that no two deletes
took the same link. `Told` has to speak of calls that nobody waits for any more: a
create that timed out may still be inserted, but then nobody was told otherwise.
`Shared` says that the map leads only to tasks whose answer may be shared, and that
no answer a redirect waits for is from its past; it is what a task that ended without
removing its entry from the map would break.

The last three compose. `Flight` is SingleFlightProofs with the gateway's requests
as callers and no stopped tasks; `ClientStep` shows that the handlers use it as it
allows (only a redirect at its `wait_for` holds a channel, `WaitsWhileWaiting`), so
the invariant of SingleFlight carries over with its proof, through every end and new
start of the process. `GateTypeOK` takes the permits from it and the rest from
`Books`.

### Only model-checked

Liveness (`EventuallyHandled`, `EventuallyPersisted`, `TakeoverHandlesBacklog`,
`DeadLinksLeaveCache`, `CallersAnswered`, `CodesRecover`, `RequestsEnd`,
`ShutdownEnds`) rests on fairness and
ENABLED, which the prover does not treat. The three disagreements are
counterexamples, which only TLC finds. The values of the delays of `Retry` are
proved in their relation to each other (`SleptFollowsBackoff`), not computed.

## Not modelled

* Configuration and logging: read or set up once, no state afterwards. The limits
  they set are the constants of the modules.
* proto: generated code. Web pages: static.
* The migrator runs once, before the services start. Of the schema, the unique
  code, the cascade and the purge are actions or guards.
* Memory of Redis: 64 MB with `noeviction`, while stale buckets are never removed
  (`redis.conf:8`). When it is full, every script and XADD fails; the module's
  connection errors are the same failure without its cause.
* Parsing of requests: `BadRequest` and `CreateReq` are its two outcomes.

## Plan

Done: `EventConsumer` with `ClickLedger`, `SnapshotMerge` with `AnalyticsApi`,
`LinkCache` with `ServedLinks`, `SingleFlight` with `SharedCalls`, `Retry`, `Gateway`.

Theorems for all safety invariants and action properties of the passing runs, and
for the refinements `ImplementsLedger`, `ImplementsSharedCalls` and
`ImplementsServedLinks`.

Left:

1. The core of `Gateway` replaced by `ServedLinks`, so that a redirect from the cache
   is as wrong as core lets it be and no more.
2. `HandoverIsClean` with failures: it excludes all but shutdowns.
   `CommittedFlushSavesAll` covers the flush that commits; what a new writer starts
   from after one that failed is left.
