# A TLA+ model of rivenbot-services

rivenbot-services collects Destiny 2 post-game carnage reports (PGCRs) and stores
the raids among them in Postgres. It has five commands: `dataset` backfills from
compressed files, `crawler` polls the Bungie API and publishes raw reports to
RabbitMQ, `processor` consumes them, `proxy` spreads the crawler's requests over
several addresses, and `migrate` sets the schema up. `dataset` and `processor`
share one pipeline (read, map, filter, write).

This directory holds TLA+ modules translated from the Go source, TLC
configurations for small instances, and TLAPS proofs of the same properties for
all values of the constants. `PROJECT.json` ties every definition to the lines it
models.

## 1. Inventory

| Component | State | Operations | Works with |
|---|---|---|---|
| **Dataset job**: `cmd/dataset`, `internal/consumer`, `internal/pipeline` | the channel, the file index and line offset, contexts, errgroup | consume files, read/map/filter/write, signals and quit key, wait | tracker, writer stack, UI |
| **Writer stack**: `internal/writer/{retry,deadletter}.go`, `internal/errors` | attempts, last error, dead-letter file | classify, back off, retry, quarantine | pipeline above, Postgres writer below |
| **Postgres writer**: `internal/writer/pgcr.go`, `internal/db` SQL | tables, open transactions | blob, players, weapons, then the instance's transaction | all workers share the database |
| **Tasks, tracker and screen**: `internal/telemetry/{task,tracker}.go`, `internal/tui` | per-file counters and states (atomics), the list of tasks; table, header and log shown | counters, AddTask, SnapshotTasks, SnapshotSummary, Update | consumer and workers write, UI reads |
| **PGCR mapper**: `internal/mapper` | none (pure) | group entries, fresh, flawless | Postgres writer |
| **Processor**: `cmd/processor`, `internal/rabbitmq` | deliveries, acknowledgements | Consume, pipeline | RabbitMQ |
| **Crawler**: `cmd/crawler`, `internal/crawler`, `internal/transport` | next id, channel | generate ids, fetch, publish | Bungie API, RabbitMQ, proxy |
| **Manifest caches**: `internal/cache` | map, Redis | warm up, Get, fetch and store | mapper, Bungie API |
| **Event broker and UI start-up**: `internal/pubsub`, `internal/tui` | subscriptions, events on their way, the screen | Subscribe, Publish, forward, Update | cache, UI |
| **Ring buffer and histogram**: `internal/telemetry` | entries, head, count; buckets | Write, GetLast; Observe | logger, UI |
| **Reverse proxy**: `cmd/proxy` | two round-robin counters, a limiter per address and domain | route | crawler, manifest fetcher |
| **Walker**: `internal/walker` | the index it accumulates | walk, filter, sort | dataset job |
| **Migrations, generated queries, UI layout** | none to speak of | | |

What is hard in it:

* *The dataset job* has three kinds of goroutine, two contexts and one errgroup.
  The consumer and the workers watch the global context, which an error in the
  group does not cancel; the UI watches the group's. A worker that stops leaves
  the others running, and the consumer may be blocked in a send. Correct means: no
  line is lost or repeated, a finished file was handed over whole, a group without
  error has read everything, failures are not hidden, and the job ends.
* *The writer stack* retries after errors that may have taken effect. Correct
  means: nil is returned only for an item that was kept, only an item whose
  attempts are used up is quarantined, and the counter counts once.
* *The Postgres writer* issues several autocommitted statements and then a
  transaction, concurrently with others on the same players, weapons and even the
  same instance. Correct means: an instance is visible whole or not at all, no
  deadlock between transactions, foreign keys in order, names never erased.
* *The crawler and the processor* share a queue and nothing else. Goroutines take
  ids from one channel, answers may be errors, connections break, processes die and
  are started again, and nothing is ever acknowledged. Correct means: each id is
  fetched once, only answers with status 200 are published, and what RabbitMQ has
  accepted is saved in the end.
* *Start-up* publishes its progress while the goroutine that listens is starting,
  and its clean-up waits for goroutines which may be blocked. Correct means: the
  screen follows the events in order, and the command comes to an end.
* *The screen* is drawn from counters that are loaded one by one, without a lock,
  while the job moves them. Correct means: it is never ahead of the job, never
  contradicts itself, never runs backwards, and catches up in the end, as long as the UI
  runs.
* *The manifest caches* fall back from Redis to Bungie, through a proxy which may
  die, and answer failures with empty values that are stored in turn. Correct means:
  a row is right or blank, and blank only for a reason. *The proxy* takes addresses
  in turn under concurrent handlers, each with its own rate limit.
* *The mapper* has its rules around three release dates and its grouping of entries by
  ids that come as text; *the walker* its filters and failures in the middle of a
  tree; *the ring buffer* its own boundary.

The complete list, one entry per line of code where it bites, is `hazards` in
`PROJECT.json`.

## 2. Modules

| Module | Models | Checked by | Proved in |
|---|---|---|---|
| `DatasetJob` | consumer, channel, workers, UI goroutine, signals, errgroup, RunE's wait | `MCDatasetJob`, `MCDatasetFiles`, three cfgs | `DatasetJobProofs` |
| `LineLedger` | abstract: each line enters the pipeline in order and leaves it once | as a property of `DatasetJob` | `DatasetJobProofs` |
| `TaskProgress` | abstract: how the tasks' states and counters may move | as a property of `DatasetJob`; it is what `Dashboard` reads | `DatasetJobProofs` |
| `Walker` | the traversal with its filters and errors, path by path, and the sorted index | `MCDatasetFiles`, for 2304 trees | `DatasetJobProofs` |
| `WriteErrors` | classification of errors, `ShouldQuarantine` | through `WriterStack` | |
| `WriterStack` | DeadLetterWriter around RetryWriter around a writer that may fail after it stored | one cfg | `WriterStackProofs` |
| `ItemWriter` | abstract: what a pipeline relies on of a writer | as a property of `WriterStack` | `WriterStackProofs` |
| `PgcrWriter` | the statements of one write, row waits, rollback, retries, crashes | `MCPgcrWriter` | `PgcrWriterProofs` |
| `ReportStore` | abstract: instances appear whole, with a write of their own, and stay | as a property of `PgcrWriter` | `PgcrWriterProofs` |
| `Mapper` | the rows that a report becomes: fresh, flawless, unique players, grouping | through `MappedReports` | |
| `MappedReports` | `Mapper` applied to any report | `MCPgcrWriter`, for 4328 reports | `PgcrWriterProofs` |
| `Sums` | sums of numbers over a set, for the seconds of a player and the header's totals | through `MappedReports` and `Dashboard` | `DashboardProofs`, `PgcrWriterProofs` |
| `JobStartup` | RunE before and after the job: warm-up events, broker, forwarders, UI screen, clean-up | two cfgs | `JobStartupProofs` |
| `Crawler` | id generator, crawler goroutines, publication | through `ReportFeed` | `ReportFeedProofs` |
| `Processor` | RabbitMQ's queue and deliveries, Consume, the one pipeline, restarts | through `ReportFeed` | `ReportFeedProofs` |
| `ReportFeed` | `Crawler` and `Processor` on one queue | three cfgs | `ReportFeedProofs` |
| `DurableQueue` | abstract: what RabbitMQ has accepted is one line, delivered at least once | as a property of `ReportFeed` | `ReportFeedProofs` |
| `RingBuffer` | the log's buffer: push, and the last n entries | through `Dashboard` | `RingBufferProofs` |
| `Dashboard` | `TaskProgress` and `RingBuffer` read by the UI: ticks, the two snapshots load by load, the table and header drawn | `MCDashboard` | `DashboardProofs` |
| `Proxy` | the requests' way through the reverse proxy: counters, limiters, dial failures, restarts | through `Manifest` | `ManifestProofs` |
| `Manifest` | `RedisCache.Get`, the fetcher and `MapToDBWeapons` on Redis and `Proxy` | `MCManifest` | `ManifestProofs` |

The three detailed modules are one stack: the write of a line in `DatasetJob` is
one nondeterministic step (stored, quarantined, failed, cut short); `WriterStack`
opens that step up and has an attempt as one step (stored, failed, or failed after
it stored); `PgcrWriter` opens the attempt up into statements, and implements `ReportStore`, which with
one attempt per report is what `WriterStack` assumes of an attempt: nil and stored
(`AttemptSucceeds`), or an error and stored or not (`AttemptFails`); `Mapper` says which rows these insert (the
assumption `MappedAssumption` of `MCPgcrWriter` ties the tables of the instance to
what the mapper's rules make of three reports), and `Manifest` what the columns of a
weapon's row are. `Walker` yields the files that `DatasetJob` consumes. `DatasetJob`
implements `TaskProgress`, and `Dashboard` is checked on top of that interface.
`ReportFeed` implements `DurableQueue` with `Line`, the unacknowledged deliveries
followed by the queue, as its line.

### Correspondence

`DatasetJob`. One value of `cpc` is one place in `Start` / `consumeLines` where the
consumer can be overtaken: between the send and `IncrementLinesRead` (`count`),
in the blocking select (`send`), before the deferred close (`close`), before the
errgroup hears of the result (`return`). The two selects with the context are
`ConsumerCancelled`; `ScanEnds` is the end of the file or the `--lines` limit
(checked after the context); `FileFails` is an error of open or of the scanner,
which ends `Start`. `fileCount` is the constant 0, as in the code. A worker's
`wpc` is the stage of `From(reader).MapFunc(...).If(...).WriteTo(...)`. What
chainmorph, a library outside the repository, does after an error of the mapper
cannot be read from the source. `MapFails` has both outcomes, here and in `Processor`:
the pipeline ends with the error, or the line is dropped and the next one read. Each
run and each proof is about both, and may even meet one after the other. An error of a writer ends the worker, as
does a panic caught by `goSafe`. `Record` is the errgroup's first-error rule.

`WriterStack`. One call of `Write` goes through `attempt`, `backoff` and `sink`.
Each error is retried, of whatever class (retry.go:32-55), and only the class of
the last one decides about quarantine. `AttemptFails` lets the item be stored or
not: the answer of a commit can be lost.

`PgcrWriter`. A worker's `pc` is the stage of `Write` / `saveInstance`; `todo` is
what the stage's loop has still to insert. Players are written in the order of
their ids (pgcr.go sorts them), the rows of the transaction in any order (Go map
iteration). A table is the set of its keys; the only column that is kept is the
player's global display name, since the upsert depends on it. An insert whose key
another open transaction has inserted is disabled until that one ends: Postgres'
unique-index wait. `Crash` ends all transactions and starts the job from scratch,
with the tables as they are.

`JobStartup`. `main` follows RunE's own goroutine: `warming` is `cache.Init`,
`connecting` the database's set-up, `running` the whole of `DatasetJob` as one step,
`cleanup` the deferred functions (the cancellation runs before the wait for the
forwarder). An event is its position in what Init publishes, so that order and gaps
can be spoken of. `fwd` and `pub` are the loops of `setupEvents` and
`publishEventsToTea`; `Subscribe` is a step of the forwarder's goroutine and not of
RunE, as in root.go:276. Publish drops for a full buffer, and delivers to nobody
before the subscription. `program.Send` blocks until the event loop takes the
message and returns at once when the program is over.

`Crawler`. `cpc` is the place of one goroutine in `Crawl`. An answer is its status
class and whether its body is JSON; a status other than 200 leaves an empty body, since
Get has read it for the log before it reads it again, and json.Marshal is what then
stops it (`Marshals`), as it stops anything else that is not JSON. The producer's channel is not in confirm mode:
`ProduceIntoBrokenConn` is the publication that returns nil and never arrives.
`MaxId` bounds the generator, which in the code counts for ever.

`TaskProgress` and `Dashboard`. A counter moves by one, a verdict is at most one
line ahead of the lines read (the line is in the channel before it is counted), files
start in order. `Dashboard` adds the UI: a `Tick` takes the table's snapshot and then
the header's, as `Update` does for MainPaneTickMsg; either copies the list of tasks
(`CloneTasks`, under the lock) and then loads five atomics for each task, one
`LoadField` each, in the order of `Task.View`. `UiEnds` is the end of `program.Run` between two messages,
by a key, a signal, or the failure of any goroutine of the group; the job moves on, and nothing
is drawn any more. The log's buffer is pushed to by the
job's steps that log. `Totals` is what the header's sums would be if all the atomics were
loaded at once. Sums are counted out (`Sums`): the sum of the numbers c[x] is the
number of pairs of an x and one of 1 .. c[x], so that facts about sums are facts about
finite sets.

`Walker`. `todo` is what `filepath.WalkDir` still has to come to; one step is one
call of the walker's callback, or its return. A tree is a set of paths, closed under
parents (`IsTree`). The walk may take the paths in any order, of which the lexical one of
WalkDir is one. A name is reduced to its place in the order, its first character, its
extension and whether the pattern matches it.

`Mapper` consists of operators, since the mapper keeps no state; `MappedReports` has the
report as a variable that never changes, so that what holds of each report can be
stated as an invariant. A time is its place among the three releases. A membership id
is its text, and the constant `Number` says which number the text stands for, since
the code groups by the number in one place and by the text in another.

`Manifest`. A definition is the pair of its kind and its hash; a key of Redis is the
hash alone, as in redis.go. A hit of Redis is decoded into a variable that is never
returned (`Hit` goes on to fetch), so the cache saves no request; this is also why
values that are stored blank after a failed answer, or under the hash of another
kind, do no harm. `failed` is a history variable.

`Proxy`. A request is `accepted`, has its address and `waiting` for the limiter, is
`sending`, and ends in an answer. The counters are kept modulo the number of
addresses; `ahead` is the history of the use of each address since the process started, less
the least used one's. `Dies` is log.Fatalf in a transport that cannot dial, with
every request in flight.

`Processor`. `unacked` is what RabbitMQ has pushed to the process and would take
back; `taken` of these have left the client library; `carried` and `held` are the
delivery in the goroutine of Consume and in the pipeline. Every end of the process is
`Exit`, which requeues. The write is one step with three outcomes (stored, failed,
failed after it stored); there is no retry writer in this command. `HasTracker` says
whether the field `RabbitMQ.Tracker` is set. **In the code it is not**: with FALSE
each delivery of a report panics (rabbitmq.go:132), and that is run `feed_saved`. TRUE
is the program with that one field set, the only way to see what the rest of
the feed does: run `feed`. The crawler's properties do not depend on it.

An *envelope* is the crawler's message: the answer of the API as it came, with the
report under "Response". `MapRawPgcr` decodes it as the report itself, which
succeeds, with every field empty; the write of that fails at its period
(`EmptyReportFails`) and ends the process. `Bare` is a report as the processor expects
it, from another publisher.

Definitions whose name begins with `Bug` are mutated forms of the definition that
follows them: each is a plausible mistake which one of the properties must
detect. They are used by no specification.

## 3. Runs

| Run | Shows |
|---|---|
| `dataset` | two workers, three files of 3, 0 and 1 lines, `--lines` 2, one slot: all interleavings of consumer, workers, UI, failures and signals. Conservation of lines, files finished only when handed over, an error-free group has read everything, no failed write hidden, refinement of `LineLedger` and of `TaskProgress`; with fairness, a cancelled job ends (also with the consumer in a blocked send), and one surviving worker is enough to drain the stream. The walker's index is complete for each of 2304 trees. |
| `dataset_fatal` | violation: a fatal write error does not end the job. |
| `dataset_files` | violation: `--files` 1 starts a second file. |
| `stack` | two items, three attempts (the code's number), every class of error, lost answers, cancellation at any moment. |
| `postgres` | two workers; two reports of one instance, and one of an unknown activity that shares a player and a weapon; two attempts, one crash: instances whole or not at all, refinement of `ReportStore`, no deadlock, names kept, only the unknown activity's foreign key fails, each Write comes back. The mapper's rules for each of 4328 reports. |
| `startup` | two definitions, a subscription that holds all events (as in the code: 7 events, buffer 10), one slot in eventsCh, so that the forwarder can block: events in order, a timely subscriber sees the job, the clean-up ends. |
| `startup_events` | violation: a late subscriber never leaves the loading screen. |
| `feed` | two crawlers, two ids, one slot, the tracker set; broken connections, kills, failed writes and foreign messages at any time: ids once, no error answer published, nothing accepted is lost, refinement of `DurableQueue`, a signal stops the crawler, and a report that the processor can decode is saved, unless messages before it end one process after the other. |
| `feed_saved` | violation: without the tracker nothing is ever saved (no broken messages here, `MaxBroken` 0, so that none of them is to blame). |
| `feed_envelope` | violation: with the tracker set, the crawler's messages still cannot be saved (no broken messages here either). |
| `telemetry` | two files of one line each, a log of two entries: the UI's loads interleaved with every step of the job, and the UI's end after any tick. The header is never ahead, never falls, covers the table beside it, and catches up while the UI runs; a finished row is full; the log shows its end. |
| `manifest` | one processor and one crawler behind two addresses with one token each; one weapon whose damage type and slot have its own hash; Redis failing and expiring, error answers, a proxy that dies: rows truthful, blank only after a failure, requests balanced, each row done with unless Bungie leaves a request for it unanswered for ever. |

*Bounds.* `ChanCap = 1` makes the full and the empty channel one step apart;
the third file is reached after a limited and an empty one, so the offset has to
restart; two workers give each race between two of them, and the argument of the
proofs is pairwise in the workers. Two attempts are enough for an attempt that
finds what a failed one left behind, and one crash for a restart on a part-filled
database. Reports of the same instance have the same content (`InstanceOf`
determines characters and weapons; names may differ): the API serves one report
per instance. In `feed`, two ids suffice for a report behind another one in queue,
deliveries and pipeline, and the three foreign messages (a bare report; not JSON; JSON but
no report) come before, between and after them, one of the broken ones at a time
(`MaxBroken`). RabbitMQ
itself does not restart. In `telemetry`, files of one line suffice for a load to fall
before or after each of a file's steps, and two files for a task that appears between
the copies of the list. In `manifest`, the one weapon is the worst case, since all its keys
collide; a writer begins a row only while the weapon has none, because a row that is
there does not change. That a failed answer does not blank the rows of *later* weapons takes two
weapons, whose states are too many for TLC; theorem `RowsAreTruthful` has it for any number. The 2304 trees have files at three depths behind hidden,
reserved, denied and broken directories; the 4328 reports are those at, before,
between and after the three releases, and those of up to two entries with ids of all
shapes. They are the initial states of the variables `tree` and `sample`: the
job runs for one of them, and in the others nothing happens.

*Fairness.* Weak fairness of the consumer, of each worker and of the UI's exit:
the Go scheduler runs every runnable goroutine, files are finite, and database
calls return. In `WriterStack` a timer fires and an attempt returns. In
`PgcrWriter` fairness is on `Progress(w)` only: statements that do not wait are
answered; failures are never forced, so nothing but the other transaction's end
ends a wait. In `JobStartup` each goroutine runs and requests are answered, by
success or failure; the backfill need not end. In `Crawler` each goroutine runs (the
HTTP client gives up after ten seconds); in `Processor` the process is
started again, RabbitMQ pushes, and Consume and the pipeline run. A write may fail for
ever under this fairness, so `PublishedIsSaved` assumes that kills, lost connections
and failed writes come to an end (`Undisturbed`). `BareIsSaved` assumes, too, that from some time on a process ends only when nothing but rejected
messages is before the report: an envelope, or a message that cannot be mapped if chainmorph ends
the pipeline for it, would otherwise come first in each process and end it. A process that
survives the message must save the report behind it, though nobody ever acknowledges the message.
In `Dashboard` only the UI's loop is fair while it runs: its timer fires. Its end is never forced,
and `ScreenCatchesUp` speaks of behaviours without it. In `Manifest` the proxy is
started again after it died, handlers run, and limiters refill. Bungie's answer is not fair: the
fetcher's request has no context and its client no timeout (fetcher.go:20), and the proxy limits
the dial only (main.go:107-121, 164). `WeaponWritesEnd` therefore says that a row is done with, or
that its request stays with Bungie for ever; a limiter serves its waiters in their order, hence the strong
fairness of `Granted`. Signals, keys and failures are never fair.

A property of a run has a mutant that breaks it. A type invariant that TLAPS proves
is not among the properties of the runs, save that of `DatasetJob`; nor are
`WrittenMeansStored`, which `ImplementsStore` contains, and `ScreenSettled`, which are theorems.

## 4. Proofs

*`DatasetJobProofs`.* `JobInv` is the inductive invariant: the types, the
conservation of lines, and a part on where the consumer is (the offset is the
count of lines sent of the current file, later files are untouched, earlier ones
finished and handed over, and the channel is closed only past the last send). Conservation alone
is not inductive: without the consumer's position a send could repeat a line.
From it follow `FinishedFileHandedOver`, `CleanGroupMeansComplete` (with an
invariant on which stopped workers saw the end of the stream and which an error),
`NoSilentFailure`, and the refinement of `LineLedger`. For that of `TaskProgress`,
`ProgressInv` adds that each counter of verdicts is the number of lines with that
verdict (cardinalities of sets of lines), and that no file is counted past its limit:
a verdict is then at most one line ahead of the lines read.

`OneWayToHang` says where the job can come to rest before it returns: nowhere, except that
the UI waits for its key when the backfill is over, and that the consumer hangs in front
of a full channel when each worker has stopped after an error and nobody has cancelled.
This is finding `dataset_fatal`, shown to be the only hang for any number of workers and any
capacity. It takes `ChanInv`: a consumer that has returned has closed the channel.
`ConsumerReady`, `WorkerReady` and `UiReady` spell out the guards, since ENABLED is
beyond the prover.

The same module proves the walk. `WalkInv` says of every dataset file that it was
found or that a path at or above it is still to come (`NotMissed`), and of everything
found or to come that no directory above it is skipped. `Ahead` (no path to come lies
above another one) is what keeps a file from being found twice; `Doomed` keeps a
directory that cannot be read, or the first file that an invalid pattern meets, from being passed by.

*`WriterStackProofs`.* `StackInv` adds to the properties what the loop knows at
its head: below `Retries` attempts, not answered, not yet sunk. `InsertedOnce`
needs the finiteness of the counted set and the cardinality theorems.

*`PgcrWriterProofs`.* `WriterInv` says what each worker has put in the tables by
the stage it is in (`After` gives the order), that open transactions are
disjoint, and that a transaction beyond the stage `instance` either holds the
instance row or finds it committed. That row is the lock which
`WaitsEmptyHanded` speaks of: whoever holds it is the only one with rows of the
instance in its transaction, and whoever waits for it holds nothing yet, so a
commit makes an instance complete at once and waits form no cycle
(`NobodyWaitsForAWaiter`); `WritesCanGoOn` says of every write that it has a next step or waits for a
write that has one (`Ready` spells out the guards here). For `ReportStore`, an instance is stored if and only if its row is there
(`StoredByRow`): no statement but a commit stores anything, although blob, players
and weapons are in their tables before.

Of the mapper, `FreshRule` is arithmetic. `RowsAlwaysFit` needs that the groups partition the
entries: the pairs counted in the sum of the groups' seconds are in bijection with those
counted in the sum of the entries' seconds (`SumOfGroups`), and the first
entry of an id exists because the positions are well-founded (`MinIsMember`).

*`ReportFeedProofs`.* For the crawler, `ChannelInOrder` and `TakenOnce`: the ids from
`low` up to `next` are in the channel, in order, and each id below `low` is in one
hand or finished. `IdsOnce` alone does not say in which order the channel gives them
out. For the queue, `Line` is the unacknowledged deliveries followed by the ready
messages; delivering and requeueing leave it as it is, so "each accepted id is in the
line once" is inductive although no single place is. The refinement of
`DurableQueue` needs one fact more, `HeldThere`: what the processor has in its hands
is in the line as well, which is what never acknowledging comes to.

*`JobStartupProofs`.* `Stream` concatenates the places where an event can be on its
way, from the screen back to the subscription. `OrderInv`: it is the last events
published, as long as nobody has cancelled, the UI runs and the subscription's buffer
holds all of them (`Flowing`). After that the forwarders may discard
events, and nothing is claimed. `LastShown` adds what the screen makes of the last event, and so
`ScreenSettles`: whoever subscribed before the last event was published leaves the
loading screen, once nothing is on its way. That something is on its way only for a
while is liveness, and TLC's.

*`ManifestProofs`.* `InTurn` says of each address how often it was used beyond the least
used, from the counter's value alone: the counter's step keeps it with and without a
wrap-around. `RowsTruthful` needs the same of the columns a writer has gathered
(`Gathered`) and that the set of weapons with a failed answer only grows.

*`RingBufferProofs`.* `InPlace`: the entries not older than the buffer are each in
their slot. Two of them never share one, since numbers less than n apart differ
modulo n (`Apart`). *`DashboardProofs`* takes these lemmas over through INSTANCE, for
the log; for the rows, `Loaded` ties what the snapshot has loaded of a task to the
task: its state first, so that a count loaded after *finished* is final. For the header,
`Behind`: what the snapshot has added up so far is at most what the tasks read so far now
say, kind by kind; and `Reached`: what it has added up, with what is
still to be read, is at least the header on the screen and the table beside it. The two carry over each
load and each step of the job because counters only grow and files start in order
(`StartedInOrder`); `SumGrows` and `SumAdds` are the facts about sums they rest on.

Assumptions, all stated in the modules: at least one worker, at least one attempt, a
channel with at least one slot, a log with at least one, an address at least behind the
proxy, an offset within the generator's bound, sets of characters and players
consistent with each other, finite trees closed under parents (`TreesAssumption`), reports with
numbers where the JSON type has numbers (`SamplesAssumption`), no manifest definition with the hash 0 (`ZeroAssumption`).
They hold of the code's constants and flags (`-g` below 1 starts no worker).

Proved are thus every safety invariant, every action property and every refinement that
a run checks. Where a proof by induction over data would have been the obvious one (a sum, a
grouping, a tree), the definition is stated over sets, and the argument is a bijection, a
monotonicity or a least element.

Only model-checked: liveness (`CancelEndsJob`, `SurvivorDrains`, `WriteReturns`,
`WriteEnds`, `TimelySubscriberSeesJob`, `CleanupEnds`, `CrawlerStops`, `BareIsSaved`,
`WeaponWritesEnd`, `ScreenCatchesUp`), which is out of the prover's reach, as is what
needs ENABLED: that a step is possible where deadlock is checked.

## 5. Findings

* A fatal write error does not end the backfill: consumer and workers run under
  `globalCtx` (root.go:213, 223) and not under the errgroup's context. With the
  default single worker the consumer then blocks in its send until a key press or
  a signal. Run `dataset_fatal`.
* `--files` has no effect: `fileCount` is never incremented. Run `dataset_files`.
* The events of the cache's warm-up can be missed: the subscription happens in a
  goroutine that nobody waits for. The requests between the events make it unlikely
  for all but the first. Run `startup_events`.
* The processor cannot process: `RabbitMQ.Tracker` is never set, and the first report
  panics the process, and each one after it. Run `feed_saved`.
* With the tracker set it still could not save what the crawler publishes: the API's
  envelope is decoded as the report itself, which yields an empty one that cannot be
  written, and the message comes back first. Run `feed_envelope`.

Seen on the way, without a run of their own: a dead letter does not say what it is for,
since its payload is a constant; a hit of Redis saves no request, since what it decodes is not what it
returns; nothing in the processor calls Ack, so the queue never shrinks by what is saved; a Bungie that
accepts a connection and stays silent holds the write of a weapon for ever.

## 6. Not modelled

* Layout and styles of the UI; what a log entry or a dead letter looks like; migrations
  and generated query code (the SQL of a report's write is in `PgcrWriter`).
* Of `telemetry`: the gauges, `BytesRead`, and the tasks' timestamps, which are written
  without a lock while the UI reads them (a torn time is possible, and only shown). The
  histogram, which its test alone uses.
* The in-memory cache's content: what `cache.Init` has put there is never changed again.
* The no-op writer and producer, and the set-up of `processor`, `crawler` and `proxy`. The
  proxy's HTTP itself, and its limiter's error, which is ignored and can only come from a
  cancelled request.
* `Broker.Shutdown` and `Unsubscribe`, `processPlayers` and `createPlayerCharacter`:
  nothing calls them. The walker's progress events, to which nobody subscribes, and the
  terminal's state when RunE returns early.
* A restart of RabbitMQ, which would lose the messages (they are not persistent). The
  dataset's connection pool has four connections more than workers, so nobody waits for
  one.

## 7. Plan

Done: everything that changes state in the dataset job, its writers and its screen, the
feed, the manifest caches with the proxy, and the rules of mapper and walker; a theorem
for each safety property. Left: the
safety half of the liveness properties that have none yet, as `ScreenSettled` is of
`TimelySubscriberSeesJob`, `WritesCanGoOn` of `WriteEnds` and `OneWayToHang` of
`CancelEndsJob` and `SurvivorDrains`.
