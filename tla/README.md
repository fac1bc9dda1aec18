# A TLA+ verification of kvalobs

kvalobs receives meteorological observations, stores them in PostgreSQL, checks their
quality and publishes the checked data on Kafka. Several daemons work on the same tables
without talking to each other: a row of the table `workque` is the only thing that says
whose turn it is. This project models that shared work, and then the parts of the daemons
that it rests on: the transaction that stores a message, with the retries and reconnects of
the database driver; the transaction in which kvQabased checks an observation, with its row
locks and caches; the service threads of the daemon that takes observations in; and the
thread and the queue between it and Kafka. The theorems are proved with TLAPS for any number
of processes, observations, connections and threads; TLC checks them, and what is not
proved, on small instances.

Paths below are relative to the root of the repository.

## 1. Inventory

### Components, their state and operations

| Component | Source | State | Operations that change it |
|---|---|---|---|
| kvDataInputd, storing | `src/lib/decoder/decoderbase/DataUpdateTransaction.cc`, `decoder.cc`, `StationFilter.cc` | tables `observations`, `obsdata`, `obstextdata`, `workque`, `workstatistik` | insert, merge into or replace an observation; queue it or let it bypass kvQabased; archive a processed queue entry; publish what bypasses |
| kvDataInputd, request service | `src/kvDataInputd/`, `src/lib/miutil/threadpool.cc`, `blockingqueue.h` | connection cache, mutex, run queue, decoder threads, signal flag | serve a request, take and free connections, hourly parameter check, run, redirect and remove commands, shut down |
| kvQabased, workers | `src/kvQabased/src/NewDataListener.cpp`, `DataProcessor.cpp`, `db/KvalobsDatabaseAccess.cpp` | claimed batch, observation in work, `qa_start`/`qa_stop` in `workque`, Kafka messages in flight | claim a batch, check, send, mark done, stop, crash |
| kvQabased, checks | `src/kvQabased/src/CheckRunner.cpp`, `db/DelayedSaveDatabaseAccess.cpp`, `db/CachedDatabaseAccess.cpp`, `scriptcreate/` | flags of the data; per transaction: row locks, pinned ids, cached rows, rows to be saved; retry counters | read and lock rows, run the check scripts, save the changes at the end, put the message together, retry |
| kvManagerd | `src/kvManagerd/` | `process_start` in `workque`, `key_val`, the list of missing observations | fill in missing values and release entries (ObservationComplete); create what did not arrive (MissingRunner); move processed entries to `workstatistik` (WorkQueueMover) |
| Database driver | `src/lib/dbdrivers/pgsqldb.cc` | connection, transaction, attempts left | begin, commit, roll back, `perform` with retries, `exec` with reconnects |
| Decoders | `src/lib/decoder/*` | none of their own | parse message formats |
| Flags and data classes | `src/lib/kvalobs/` | none | pure functions on flags |
| Kafka producer thread | `src/lib/kvsubscribe/KafkaProducerThread.cc`, `KafkaProducer.cpp`, `src/lib/miutil/blockingqueue.h` | bounded queue with its flag `suspended`, commands that wait for a report | post with a time limit, send, pass on delivery reports, suspend, drain, join |
| Subscription library | `src/lib/kvsubscribe/KafkaConsumer.cpp`, `src/service-libs/` | - | consume; used by clients of kvalobs only |
| Logging, configuration, XML, JSON | `src/lib/milog`, `miconfparser`, ... | - | I/O and formatting |
| Tools and old services | `src/kvServiced*`, `src/data2kv`, ... | - | not built by the top-level Makefile, or command line tools |

### How they interact

```
 HTTP -> kvDataInputd --(one transaction)--> observations / obsdata / workque
              |                                     |            ^
              | HQC-only data                       | process_start = NULL
              v                                     v            |
        topic 'checked'                 kvManagerd ObservationComplete
              ^                                     | process_start set
              | result of the checks                v
              +------------- kvQabased workers (claim: qa_start; done: qa_stop)
                                                    | qa_stop older than 15 min
                                                    v
                              kvManagerd WorkQueueMover -> workstatistik
        kvManagerd MissingRunner creates observations that did not arrive
```

There are no locks between the daemons. They rely on transaction isolation (REPEATABLE READ
for a store, SERIALIZABLE for the claim of a worker and for `addMissingData` in MissingRunner,
READ COMMITTED elsewhere), on the foreign key from `workque` to `observations` with ON DELETE
CASCADE, and on ages: a claim older than 10 minutes is taken over, a finished entry older
than 15 minutes is moved away.

### What is hard

* Every store creates a new `observationid` and deletes the old one with its queue entry, at
  any moment: while the entry waits, while a worker has it in a batch in memory, while it is
  being checked or sent, and between two statements of kvManagerd.
* Workers crash, are stopped or throw after some of their steps; Kafka answers late or never.
* A claim is only as old as its time stamp; a slow worker cannot know that it lost it.
* Data that bypasses kvQabased must not take unchecked data off the queue with it.
* kvManagerd's transactions are several statements long; others interleave with them.
* Two messages for one observation may be stored at once. What one of them compares, merges
  and queues rests on a snapshot that the other invalidates; the driver then tries again, with
  the members of a transaction object that has been used before.
* The connection to the database may be lost in the middle of a transaction, and comes back
  without a word to the caller: what follows runs outside any transaction, in a store, in a
  check and in a claim.
* Checks of neighbouring observations read and flag each other's rows. They work on caches and
  write at the end; what was read must not change meanwhile, and workers that lock rows for
  this may wait for each other.
* The queue before the Kafka thread is bounded, its users give up after a time, commands are
  plain pointers, delivery reports come late, and shutdown suspends the queue at any point.
* In kvDataInputd, requests need two resources (a connection and a mutex), sometimes two
  connections, share a bounded pool, follow redirects in a loop, and may be shut down at any
  point.

`PROJECT.json` lists these hazards one by one, at the line where each bites, with the
properties that cover it.

### What makes each component correct

* Storing: no unchecked data without a queue entry; a processed entry is archived before it
  disappears; whatever has data is queued, archived or on its way to the topic.
* The transaction of a store: as good as one step, in spite of concurrent stores, retries and
  errors; an OK means that the message is in the database; it comes to an end.
* The transaction of a check: as good as one step on the data as it is when it commits; what is
  sent is what was committed; it comes to an end.
* Workers: no two on one observation; only complete observations are checked; "done" means
  published; every queued entry is processed in the end.
* kvManagerd: never disturbs a claim; the missing run comes to an end.
* Request service: a connection has one user; the counter of free connections is exact; a
  command is not deleted under a decoder thread; every request is answered; SIGTERM ends the
  process.
* Kafka thread: a command has one owner; an accepted command is reported, truly and once, also
  when nothing else is posted and when the process is shut down.

## 2. Modules

| Module | Models | Extends |
|---|---|---|
| `KvStore` | the tables, the topic, the passing of time | |
| `DataInput` | DataUpdateTransaction and publishing of bypassing data | KvStore |
| `QaBase` | the workers of kvQabased | KvStore |
| `ClaimTransaction` | how a worker claims entries, statement by statement, and the flag that says whether a transaction is open | |
| `MCClaimTransaction` | instances for TLC | ClaimTransaction |
| `ClaimTransaction_proofs` | theorem about ClaimTransaction | ClaimTransaction |
| `Manager` | the three threads of kvManagerd | KvStore |
| `Kvalobs` | the composition of the three daemons, fairness, all properties | DataInput, QaBase, Manager |
| `MCKvalobs` | instances for TLC | Kvalobs |
| `Kvalobs_proofs`, `KvalobsSafety_proofs`, `KvalobsArchive_proofs` | theorems about Kvalobs, each module on top of the one before | Kvalobs |
| `InputService` | the request service of kvDataInputd, with its properties | |
| `MCInputService` | instances for TLC | InputService |
| `InputService_proofs` | theorems about InputService | InputService |
| `DataUpdate` | comparison and merging of messages, the database seen from one observation | |
| `AtomicStore` | abstract: a store is one step, given how messages are compared and merged | |
| `StoreTransaction` | `perform`, `exec` and the statements of DataUpdateTransaction; implements AtomicStore | DataUpdate |
| `MCStoreTransaction` | instances for TLC | StoreTransaction |
| `StoreTransaction_proofs` | theorems about StoreTransaction | StoreTransaction |
| `AtomicChecks` | abstract: the checks of an observation are one step | |
| `CheckRunner` | the transaction of a check, statement by statement; implements AtomicChecks | |
| `MCCheckRunner` | instances for TLC | CheckRunner |
| `CheckRunner_proofs` | theorems about CheckRunner | CheckRunner |
| `KafkaProducerThread` | the Kafka thread of kvDataInputd and its queue | |
| `MCKafkaProducerThread` | instances for TLC | KafkaProducerThread |
| `KafkaProducerThread_proofs` | theorems about KafkaProducerThread | KafkaProducerThread |

`Kvalobs` treats a store, a claim and a check as single steps. `StoreTransaction` and
`CheckRunner` look into two of these steps, each with what it needs of the surroundings, and show
by refinement that single steps are what they amount to, as long as no connection is lost and
restored in the middle of one. `ClaimTransaction` looks into the claim and shows that it is
exclusive, under the same condition.

Definitions whose comment begins with "Mutant" are plausible bugs: each is a variant of the
definition after it, and TLC finds a property of the project violated when the variant takes
its place. They are not part of the specifications.

### KvStore

An observation key stands for (stationid, typeid, obstime), the unique key of `observations`.
`row[k]` summarises its data: the `observationid`, whether there are numeric (`num`) and text
(`txt`) rows, whether some of them have not been through CheckRunner (`raw`), and whether
missing values have been filled in (`filled`). `workque` is a function of the observationid,
since the column is unique; a time stamp column is NULL, younger, or older than the age that
the queries ask for. `checked` is the set of observationids whose data is on the topic. Since
each store gets a new id, an id also stands for the contents that were stored.

### DataInput

`DataUpdateTransaction::operator()` is one atomic step: it runs REPEATABLE READ and `perform`
retries it on a serialization error. `Insert`, `Update` (merge), `Replace` and `Duplicate` are
its four outcomes; `Store` is their common tail (archive the processed entry, delete with
cascade, insert, `updateWorkQue`). A message is abstracted to which kinds of elements it has
and whether the numeric ones are HQC-corrected: that is what `onlyHqcDataCheck` looks at.
Whether two observations are equal is a free choice, within what is possible. `Filters` pairs the
`publish` flag of the station filter with the argument `addToWorkQueue` of `addDataToDb`, which
is what reaches DataUpdateTransaction: kldecoder passes the filter's flag there, its `do302` and the
autoobs decoder pass nothing, which means true whatever the filter says, and the kv2kv decoder asks
whether the data has been checked. `unqueued` and `dropped` are history variables: stores that
this argument kept off the queue, and data lost between commit and publishing. `PublishData` and
`PublishDropped` are the 4-second `timedAdd` to the Kafka thread and what can go wrong with it.

### QaBase

A worker is in `run` (fetch), `check`, `send`, `mark` or `down`. `SelectDataForControl` is the
SERIALIZABLE transaction of `selectDataForControl`: claims that timed out first, then
observations of the last three hours, then older ones, each with its limit, all stamped with
`qa_start`. The batch stays in memory (`NextOfBatch`). `RunChecks` is the transaction of
`CheckRunner::newObservation`; it decides, with `HasContent`, whether there is anything to
send: an observation without numeric data is not pinned and nothing is sent, except for
aggregated types, for which no check is run. `SendConfirmed`, `SendUnconfirmed` and `Deliver`
are the Kafka loop with its 2-second `catchup` and late delivery; `MarkProcessDone` updates
whatever row is there. `ProcessingFails` is any exception that `run()` catches; `Stop`,
`Exit`, `Crash` and `Restart` are signals and process death. `ClaimAges` lets 10 minutes pass;
with `SlowWorkers = FALSE` no worker sits on its batch that long.

### ClaimTransaction

The connection of NewDataListener, seen from three sides: `flag` is `transactionInProgress_`, which
the code asks; `server` is the transaction PostgreSQL has open for it; `own` is
`needOwnTransaction` of the claim it is in. A claim begins (`BeginClaim`), selects
(`SelectEntries` takes the snapshot), updates and commits. `stale` are the entries that others
have committed since the snapshot and `locked` those the transaction has updated: a serializable
transaction may update an entry only if it is in neither of them for somebody else, otherwise it
waits or is rolled back (`RetryClaim`). `ClaimLosesConnection` is the reconnect of `exec`, after which
the UPDATE commits by itself (`UpdateBare`) and END only warns; `ClaimThrows` is a connection that does
not come back, where the ROLLBACK of the handler may throw as well and the flag stays. `MarkFails`
is an error in `markProcessDone`, which catches serialization errors only. The flag then says that
a transaction is open while the server has an aborted one or none, and the next claim starts
none of its own. `bare` remembers the entries of claims that ended without a transaction. Old
claims and crashes are left to `QaBase`.

### Manager

Each thread is modelled statement by statement where others can interleave.
ObservationComplete: `CompleteSelect`, then `CompleteApply`, which fails on the foreign key
when input has replaced the observation meanwhile. MissingRunner: the query, one committed
insert per missing observation (`CreateObservation`, `CreateObservationFails` when input was
faster), then for each a SERIALIZABLE transaction that commits, is serialized away, or breaks
the foreign key; `mrRetry` is the variable `retry` of `addAllMissingData`, which keeps its
value between attempts. WorkQueueMover: the three statements of `cleanWorkQueue`; `mvOld` is
the set of entries that are old at the transaction's `now()`.

### InputService

A thread of the HTTP server serves one request at a time, and a request has one command at a
time, so the thread stands for both. `pc` follows `newObservation`: take a connection, take
the mutex, check the parameters if the hour is over (with a second connection, the mutex
held), look up the decoder, queue the command, wait, release the connection and then, under
the mutex, the decoder; a redirect goes round again. `free` and `nFree` are the two fields of
ConnectionCache, kept apart because the code keeps them apart. The decoder threads take
commands from `queue` and, once it is suspended, drain it and end. `main` waits for SIGTERM,
stops the web server (which waits for the HTTP threads, unless main jumps out of it on a
SIGABRT), suspends the queue and joins the threads. `registerParams` has two handlers: the one
for SQLException frees its connection and returns; the one for anything else
(`ParamsQueryThrows`) frees it and falls through to a second free (`FreeParamsConnection`), which
`refreed` remembers. After that `nFree` is one too many and a connection in use may be marked as
free; `NoDbConnection` and `NoParamsConnection` are what `findFreeConnection` does when the counter
promises more than there is. A request that finds the queue full stays where it is, as the
retry of `decodeExecute` does; that it never happens before a connection is freed twice is the
theorem QueueNeverFills.

### DataUpdate, AtomicStore, StoreTransaction

`DataUpdate` has the pure part of DataUpdateTransaction. An element has an original value, in
hundredths, and flags; `Rounded` is the cast to int, which cuts towards zero. `PartialIsEqual`,
`CompleteIsEqual` and `Merged` are the comparisons and `updateObservation`. `EraseMissing` is the
loop that takes missing values out of the old data before the second comparison, as it is:
`erase` returns the next element, and `++` then skips it. The SELECT that fills the list has no
ORDER BY, so `Left` is the set of what the loop may leave. `Process` is what kvQabased and
kvManagerd do to the observation and its entry meanwhile.

`StoreTransaction` has decoder threads, each on its own connection, that store a message for
one observation. A thread's `pc` is the statement that is next. `view` is the snapshot of its
REPEATABLE READ transaction with its own changes, `lock` says who has changed rows that are not
committed yet; a writer that finds rows changed after its snapshot gets a serialization error.
`TryAgain` is the tail of `perform`, for the three classes of errors it tells apart:
serialization errors are not counted, aborted attempts are, and for the rest it gives up.
`bypass` and `publish` are members of the transaction object; they live through the attempts,
and `OnlyHqcDataCheck` sets them anew in each. `LoseConnection` and `TryReconnect` are the two
halves of `exec` when it finds the connection gone: it connects again and goes on with the
statement, which by then is outside any transaction (`tx`). `MaxFaults` bounds database errors
and lost connections together.

`AtomicStore` is what the callers of `perform` rely on, and what `DataInput` does in one step. How
messages are compared and merged, and what the other daemons do, are its parameters; `StoreTransaction`
instantiates it with the operators of `DataUpdate`.
`lossless` says that no connection has been lost; after that nothing is promised (`Lost`).

### CheckRunner, AtomicChecks

The observations are those of one station; a type and a time each. A worker takes a queued
observation (`NewObservation`), pins its id, fetches the parameters, and reads its data, by
station and time, with FOR UPDATE: `Select` takes the statement's snapshot, `GetRow` and
`SkipRow` lock the rows of it one by one, in any order, and skip the ones that have been deleted
meanwhile. `PinConflict` is the exception when input has replaced the observation since it was
pinned. Then each check
is run in its turn on cached rows, or on rows that it reads now if it goes further back than
what is cached. A script is abstracted to the set of rows it flags; a mark `<<check,
observation>>` stands for the flags and corrected values it leaves. `saved` and `value` are
DelayedSaveDatabaseAccess, `cache`, `data` and `span` CachedDatabaseAccess, `fetched` and
`fetchedText` the two maps of ids of KvalobsDatabaseAccess. `Complete` puts the message for Kafka
together, `Commit` writes. `SerializeError`, `Aborted` and `Throw` are the retry loops of
`newObservation`. `DeadlockDetected` is PostgreSQL, which finds workers that wait in a circle.
Input appears as `StoreObservation`, which replaces a row that nobody has locked.

`NoParametersToCheck` is the early return of `getParametersToCheck` for a station without rows in
`obs_pgm`: nothing is locked, no check is run, and `complete` reads the observation's own rows
without a lock (`CompleteOwn`). `LoseConnection` is the reconnect of `execQuery` in the middle of the
transaction: the worker is `adrift` from then on. Its locks are gone, a SELECT ... FOR UPDATE keeps
locks for the statement only (`EndSelect`), the UPDATEs of the commit take effect one by one
(`WriteAdrift`, `written`), one of them may hit no row (`WriteFails`), and END only warns
(`EndAdrift`). `SkipQuery` is the check that is left out when what it reads belongs to another id
than the pinned one, which only a worker adrift can meet.

`AtomicChecks` says that a step is a store or the checks of one observation, which replace its
own marks and add some to rows within reach, or, while some worker is adrift, the write of a
single row (`StrayWrite`).

### KafkaProducerThread

Callers post a command with `timedAdd`; `post` says what became of it. The thread polls for
reports, takes a command (`get` is the entry of `timedGet`, `wait` its condition variable), hands
it to librdkafka and goes round; when the queue is suspended it drains it and waits for the
remaining reports. `sent` is librdkafka's buffer with the reports that have not been fetched;
librdkafka and the broker are external, known by how the code uses them (`produce` throws when
the buffer is full, and may throw for other reasons; every message it takes gets one report).
`undefined` is where the thread is after it
has taken the front of an empty deque; nothing is assumed of what follows. `main` is the end of
`DataSrcApp::shutdown`: join for 60 seconds, then detach.

## 3. Runs

| Run | Expectation | Instance | What it shows |
|---|---|---|---|
| `core` | pass, 152 000 states | 1 key, 2 stores, 2 workers, one of which may fail, 1 fault, MissingRunner on, fairness | types, ExclusiveClaim, UncheckedIsQueued, CheckedIsComplete, DoneIsPublished, NothingForgotten, ProcessedIsArchived, ClaimIsKept; PendingIsProcessed, MissingRunEnds |
| `batches` | pass, 570 000 | 2 keys, one aggregated, batches of 2, one worker with a qa_id, a filter that keeps data off the queue | ExclusiveClaim, UncheckedIsQueued and DoneIsPublished with batches |
| `claim` | pass, 194 000 | 2 workers, 3 entries, 2 faults | ClaimIsExclusive |
| `store` | pass, 300 000 | 2 decoder threads, 3 kinds of messages, 1 fault, fairness | types, StoresAreAtomic (refinement of AtomicStore), OkMeansStored, StoreEnds |
| `checks` | pass, 1 140 000 | 2 workers, an observation and one an hour before, 2 checks, 1 fault | ReadsAreStable, ChecksAreAtomic (refinement of AtomicChecks), MessageIsCommitted |
| `locks` | pass, 91 000 | 2 workers, observations of two types for one time, 1 check, fairness | types, CheckEnds |
| `producer` | pass, 377 000 | 4 commands, a queue of 1, a buffer of 2, fairness | types, OwnedOnce, ExitIsClean, AcceptedIsReported |
| `service` | pass, 1 340 000 | 3 HTTP threads, 2 connections, 4 requests, 1 mishap | types, ConnectionHasOneUser, CommandIsAlive, CommandIsServed |
| `answers` | pass, 81 000 | 2 HTTP threads, 3 connections, fairness | RequestIsAnswered, ShutdownCompletes |
| `missing`, `waits`, `lost` | violation | as the runs of the same module, or smaller | the findings of section 6 |

### Bounds, and why they are enough

`MaxId = 2` lets one observation be stored and replaced at every point of its life, which is
where the races are; the entry of the first id lives on in workers and kvManagerd's threads
after its row is gone. Two keys are needed for batches, and for MissingRunner to fail after
it has created something. Two workers are needed for claims; a third adds no new pair. One
fault (`MaxFaults`) is a crash, stop, exception, lost publication, restart of kvManagerd or
serialization failure at any point; a second one mostly repeats it, and the proofs do not bound
their number. `SelectLimit = 2` is the smallest limit with which batches differ from single
entries. In `claim`, three entries let two batches overlap in part, and two faults are needed for a
flag that was left set and a connection lost under the claim that trusts it, or under two claims.
In `InputService`, three requests on two connections contend for everything, one
HTTP thread serves a second request, `RedirectLimit = 1` (5 in the code) makes the loop go
round three times, and a `MaxRequests` of 3 or 4 keeps behaviours finite where fairness
matters. Symmetry is used among workers and among HTTP threads in safety runs only. In `core`
only one worker may fail: with one fault and workers that are alike it does not matter which.

`store`: two threads are a race, and the other processes a third party. The three messages are
data of a station with text (compared completely), a part of it that replaces what is there and
is kept off the queue, and a correction by HQC that differs from the first by one hundredth
below zero, where the rounding is odd. The database starts empty, where the race is about the
unique key, or with an observation that has a missing value. `MaxRetry = 2` (20 in the code)
leaves one attempt after an error and none after two.

`checks` has two checks of different reach, so that one is served from the cache and the other
reads again, and rows of both observations may be flagged from both sides. `locks` has two
observations that each need the row of the other, the shortest circle, and two types, where
`filterTypeId_` picks one. `SerializeLimit = 2` (256) and `AbortLimit = 1` (9) let each counter
reach its limit. `MaxId` leaves one or two stores by input.

`producer`: with a queue of one (50 in the code) and a buffer of two, four commands are the
least with which a caller waits while the thread is refused by a full buffer and reports are
outstanding.

Deadlock is checked in all runs of `Kvalobs`, where there is always something to do, and in
`answers`, where only a process that has ended stands still. It is not checked in `service` and
`waits`: with as many requests as connections the system really can stop, which is the
finding of `waits`, and the safety properties are worth checking up to that point. It is not
checked in the runs of `StoreTransaction`, `CheckRunner` and `KafkaProducerThread`: they have a
given number of messages, observations or commands and come to rest when these are dealt with;
that they do not come to rest before is what StoreEnds, CheckEnds and AcceptedIsReported say.

### Fairness

A live process is scheduled: weak fairness of each worker's own steps, of ObservationComplete,
of MissingRunner and of each thread of kvDataInputd. Time passes: weak fairness of
`ClaimAges`. Kafka answers a worker that keeps trying: `SendConfirmed` is among the worker's
steps; otherwise a worker may well send for ever, as the code does. Nothing is assumed of input,
signals, crashes, restarts and of decoders throwing. Weak fairness is enough for mutexes and
condition variables because the number of requests is bounded, so no request is overtaken for
ever; the C++ library promises no more.

A decoder thread that stores (`ThreadStep(t)`) and a worker that checks (`WorkerStep(w)`) are
scheduled one by one; a row lock that stays free is given to who waits for it, and PostgreSQL
looks for circles of waiting. Two threads could overtake each other for ever only by committing
for ever, and each has one message. The Kafka thread is scheduled as a whole. `Deliver(c)` is fair
because librdkafka reports each message at the latest after `message.timeout.ms`. Errors, lost
connections, posts and shutdown are not fair.

## 4. Properties

Each is stated in words above its definition in `Kvalobs`, `InputService`, `StoreTransaction`,
`CheckRunner` or `KafkaProducerThread`. Some remarks:

* `ExclusiveClaim` is conditional on workers being faster than 10 minutes. This is an assumption
  of the code (`selectFailedDataForControl`), not a result; with slow workers it fails, and an
  archived row may then be lost (section 6), which the second half of `ProcessedIsArchived` excludes.
  What still holds when two workers have one observation (`UncheckedIsQueued`, `DoneIsPublished`, the
  first half of `ProcessedIsArchived`) is proved for both values of `SlowWorkers`; TLC agrees on the
  instance of `core` with `SlowWorkers = TRUE` and without liveness (760 000 states).
* `ClaimIsExclusive` excepts the entries of a claim that ended without a transaction. The exception is
  real: two claims overlap when one of them loses its connection between SELECT and UPDATE, or
  trusts a flag that was left set.
* `ConnectionHasOneUser` holds until `registerParams` meets an exception that is not an SQLException;
  section 6 says what happens then.
* `UncheckedIsQueued` is the main safety property: whatever has not been checked has an
  unprocessed entry, over all interleavings of updates, bypasses, claims and clean-ups. Only a
  filter with `add_to_work_queue = false` may keep data off the queue.
* `DoneIsPublished` allows what the code allows: observations without content for kvQabased,
  and a stopping worker that gives up on Kafka and marks the entry done all the same.
* `MissingRunEnds` excludes the one case in which the code really loops for ever (`retry` is
  still true when input has replaced the observation after a serialization error). That case is
  a defect without a property of its own.
* `PendingIsProcessed` is checked with a bounded number of observations. It says that crashes,
  failures and replacements do not lose an entry, and nothing of entries that are kept waiting
  by an endless supply of more urgent ones, which the order of the three SELECTs allows.
* `NothingForgotten` counts data that was lost between commit and publishing as accounted for;
  that it is lost is a finding of section 6.
* `RequestIsAnswered` needs more connections than HTTP threads; the default is 3 and 5.
* `StoresAreAtomic` covers comparison, merge, queue entry, archive, what is published and the
  answer. It holds because a store reads everything in one snapshot and PostgreSQL refuses a
  writer whose snapshot is out of date: in READ COMMITTED it fails. A duplicate is the
  exception in form: it writes nothing, so it is answered some time after it was compared, and
  others may store in between (`Compare`, `Duplicate`).
* `OkMeansStored` says directly what a sender wants to know. It tolerates a hundredth, since that
  is what `isEqual` tolerates: 0.00 and -0.01 are equal. `DuplicateIsEqual` does not tolerate it, and
  does not hold (section 6).
* `StoreEnds` is not obvious, as serialization errors are retried without a limit: each one takes
  somebody else's commit.
* `ReadsAreStable` is why the checks may work on caches and write at the end. It also shows that,
  for a worker that keeps its connection, `storeFetched` never meets a conflict after the
  observation's own data has been read, and that the exception for an UPDATE that hits no row is
  never thrown. It is stated for the workers that are not adrift, and says of them that they are
  safe from those that are.
* `ChecksAreAtomic` allows writes of single rows while some worker is adrift, and no others.
* `MessageIsCommitted` compares what `complete` has collected before the commit with the database
  after it, in both directions. A worker adrift is excepted, and so is, in one direction, an
  observation of which nothing was checked: its rows were read without a lock, and input may have
  replaced it before the commit. Nothing of it was written then, and the message is what was
  stored when it was read.
* `OwnedOnce` is about plain pointers: a command with two owners is deleted twice, one without an
  owner leaks. `produce` refusing a message does leak the command; that is the owner `lost`.
* `ExitIsClean` allows what the code allows: when `produce` refuses a command while the queue is
  drained, the rest of the queue is given up.

## 5. Proofs

All theorems hold for every value of the constants under the ASSUMEs of `KvStore`,
`DataInput`, `QaBase`, `Manager`, `ClaimTransaction`, `InputService`, `CheckRunner`, `StoreTransaction`
and `KafkaProducerThread`. They say that the constants have their types, and besides:

* `InputService`: there is a connection.
* `CheckRunner`: there is an observation, those that are stored at the start have different ids,
  and no worker is called `"free"`, the word for a row that nobody has locked.
* `StoreTransaction`: the database may start only in states of the schema: no workque entry
  without an observation, and archived ids that came out of the sequence before the current one.
  `perform` makes at least one attempt.
* `KafkaProducerThread`: there are finitely many commands, and the queues have room for one.

TLC evaluates all of them on the instances of the runs.

`Kvalobs_proofs`: **TypeCorrect**, `Spec => []TypeOK`. The type invariant is not inductive.
`TypeInv` adds that a worker past fetching has an observation in hand (`WorkerInv`, so that
`MarkProcessDone` updates the entry of a real id), that MissingRunner has one inside its
transaction (`MissingPcInv`), and that WorkQueueMover never deletes more rows of
`workstatistik` than there are (`MoverInv`).

`KvalobsSafety_proofs`: one inductive invariant `IInv` for
**ClaimsAreExclusive**, **UncheckedStaysQueued**, **ChecksSeeCompleteData**,
**MarkedIsPublished** and the action property **ClaimsAreKept**. Its parts:

* `FreshInv`: ids that have not been given out are in no row, worker or thread, and rows have
  different ids. New entries are therefore nobody's.
* `ForeignKeyInv`: an entry exists only for an id that some row has. So a replaced observation never comes back, and stale ids in workers are harmless.
* `EntryInv`: an entry with `qa_start` or `qa_stop` set has `process_start` set.
* `ClaimInv`: what a worker holds, if it is still queued, has been released and claimed, and
  the claim is recent unless `SlowWorkers`.
* `CompleteInv`: what ObservationComplete is about to release, if its row is still there, is
  queued and has not been released, so it has not been claimed either.
* `MissingInv`: what MissingRunner has created and not handled is not queued, and no worker
  holds it. So neither thread ever takes a claim back.
* `UncheckedInv`, `FilledInv`, `DoneInv`: strengthenings of the three properties with what
  holds for the observation in each worker's hands between its steps.

`ExclusiveClaim` needs `ClaimInv` (a claimed entry is not selected again unless its claim is
old) and that claims do not become old in a worker's hands. Most actions disturb few parts, so
a frame lemma takes care of the others, and each action has its lemma.

`ClaimTransaction_proofs`: **ClaimsAreExclusive**, `ClaimSpec => []ClaimIsExclusive`, with no bound on
workers, entries and faults. `PendingInv` is about claims on the way: what a serializable
transaction has selected and somebody else has claimed since is in `stale`; what it has updated is
claimed by nobody and locked by it alone. `MadeInv` says that what is held or done is claimed. So
at the commit nobody else holds what is claimed. A claim without a transaction enters `bare`
instead, and `AbortedInv` says that an aborted transaction never comes as far as its UPDATE.

`InputService_proofs`: two independent invariants.
`BooksInv` ties `pc` to the connections a request holds (`PlaceInv`, which holds always) and says
that the cache is exact as long as the catch-all handler of `registerParams` has not run, from which
**ConnectionsAreExclusive** follows: until then the connection that is freed was in use by its
request alone, so the set grows by one element when the counter does. `CommandInv` says that a queued
command is queued once, has no result and is in no thread's hands, and that a thread ends only
when the queue is suspended and empty (`QueueInv`); **CommandsAreAlive** and
**CommandsAreServed** follow.

Three results rest on both. **ServiceTypeCorrect** adds `RestTypes`, what neither invariant is about.
**DecoderLookupIsExclusive** says that `DataSrcApp::mutex` is held by exactly the one request that
is in `registerParams` or `findDecoder` (`MutexInv`), which the unlock in every exit of the two functions
has to keep up. **QueueNeverFills** says that, until a connection has been freed twice, no more
commands are queued than there are connections: queued commands are different (`QueueInv`) and have connections of their own
(`ConnectionHasOneUser`), and the library's pigeonhole theorem gives the rest.

`KvalobsArchive_proofs`: **ProcessedGoesToArchive** (`Spec => ProcessedIsArchived`) and
**DataIsNotForgotten** (`NothingForgotten`), on top of `IInv`. WorkQueueMover deletes from workstatistik,
copies into it and deletes from workque in three statements of a READ COMMITTED transaction, each
with a view of its own, so what makes them agree is an invariant of the open transaction:

* `MoverTxInv`: what was too old when the transaction began is still queued, unless its observation has
  been replaced; and when the last statement's turn comes, all it will delete has been copied.
* `HeldInv` and `BatchInv`: `qa_stop` is set only after `qa_start`, and no worker holds a processed
  entry, unless workers may be slow. So no entry changes back while it is moved.
* `ArchiveInv`: what is queued, or will be, has no row in workstatistik, and the first statement
  finds nothing to delete, unless workers may be slow. This is what keeps archived rows.

NothingForgotten needs that every filter has `publish` and `addToWorkQueue` (`AllFiltersPass`, a hypothesis
of the theorem that the default filter meets; findings 5 and 7 are what happens without
it). It holds for slow workers too.

`CheckRunner_proofs`: `CheckInv` for **CheckTypeCorrect**, **ReadsStayStable**,
**MessagesAreCommitted** and the refinement **ChecksTakeEffectAtOnce** (`ChecksAreAtomic`). Its parts, for
every worker:

* `IdInv`: ids grow and two workers never check the same one, so `done` means one check.
* `PhaseInv`: what there is in the caches at each place of `newObservation`. In particular,
  where a check ends without having found its own data, that observation has been replaced for good.
* `ReadInv`: a row that was read is locked by its reader, is as it was read, and its pin is its id,
  unless the reader is adrift.
* `SaveInv`: what is about to be written is the cached row with flags of this check, and the message
  is made of the same rows.

ReadsAreStable is in `ReadInv`. For the refinement, every statement before the commit maps to a
stutter, since nothing it changes is visible; at the commit, `ReadInv` turns the cached rows into the
rows of that moment, and `SaveInv` what is written into a result that the abstract step allows. A
worker adrift takes `StrayWrite` steps. It has no lock on what it writes, but finds it free, so
`ReadInv` of the others survives: this is what the theorems say beyond "nothing goes wrong as long as
no connection is lost".

`StoreTransaction_proofs`: `StoreInv` for **StoreTypeCorrect** and the refinement
**StoresTakeEffectAtOnce** (`StoresAreAtomic`). `RunInv` counts the attempts, and holds always. The rest
holds as long as no connection has been lost (`lossless`; finding 3 is what happens after that):

* `DbInv`: ids come out of the sequence, so a new one is higher than any that is stored or archived.
* `LockInv`: who holds the row lock has found in its snapshot what is committed, so no change of
  somebody else's is overwritten.
* `DecideInv`: `bypass` and `publish` are those of this attempt, not of an earlier one, and the message
  differs from what was found.
* `WriteInv`: after each statement the view is what was found, with the changes so far.

At the commit these make the view exactly the abstract result for the committed state. An
attempt that fails changes nothing of the database that `AtomicStore` sees, and one that finds a
duplicate is compared (`Compare`) with the committed state it has read.

`KafkaProducerThread_proofs`: `ProducerInv` for **ProducerTypeCorrect**, **CommandsAreOwnedOnce** and
**ExitsAreClean**: the thread has a command in hand between taking and producing it only (`HandInv`),
librdkafka has what waits for a report (`SentInv`), a command is queued once (`QueueInv`), and the
thread leaves commands behind in the queue only when `produce` has refused one (`DrainInv`). OwnedOnce is
itself part of the invariant.

Only model-checked:

* Liveness, which is out of the prover's reach: `PendingIsProcessed`, `MissingRunEnds`, `CheckEnds`,
  `StoreEnds`, `RequestIsAnswered`, `ShutdownCompletes`, `AcceptedIsReported`.
* `OkMeansStored`. When the message is a duplicate, what the sender relies on is what the loop of
  `EraseMissing` leaves of the old data. The loop is a recursive function over the list, and what it
  computes for every list takes an induction that the prover cannot do. The refinement, which is
  proved, says that the comparison decides; the run checks what the comparison means.
* `Kvalobs` against the two refinements: that its single steps are those of `AtomicStore` and
  `AtomicChecks` is by construction of the modules and is not stated as a theorem.

## 6. Findings

Three have a run that TLC refutes, with the quoted text in `PROJECT.json`.

1. `missing`: a failed insert in `findAllMissing` forgets the observations created before it; they
   are never filled in nor queued.
2. `waits`: requests that hold all connections and wait for the mutex, while its holder waits in
   `registerParams` for a connection: kvDataInputd stands still, and SIGTERM does not end it.
3. `lost`: after a connection is lost in the middle of a transaction, `exec` restores it and goes on;
   the statements before are rolled back, END is only warned about, `perform` returns as if it had
   committed, and the sender gets an OK for data that is not in the database.

Others are stated as properties that do not hold, without a run of their own. TLC refutes them
with the constants in brackets.

4. `SuspendIsThrown` (`MCKafkaProducerThread`, constants of `producer`): `suspend()` wakes
   up a thread that waits in `timedGet`; the thread does not look at the flag again and takes the
   front of an empty deque, although `timedGet` promises an exception (blockingqueue.h:373).
5. `BypassIsPublished` (`MCKvalobs`, constants of `core`): data that bypasses kvQabased is published
   after its transaction has been committed. When the queue to the Kafka thread stays full for 4
   seconds, or kvDataInputd dies, nothing remembers it, and sent again it is a duplicate; "But the
   data must be published on the 'checked' kafka queue", says DataUpdateTransaction.cc:151. Without
   a fault it fails with `Filters <- NamedFilter`: HQC data under a named filter, which has
   `publish = false` by default, is published by nobody.
6. `OnlyHqcBypasses` (`MCKvalobs`, the default filter): an observation with text elements only counts
   as HQC-only data.
7. `PendingIsRequeued` (`MCKvalobs`, `Filters <- MixedFilters`): a store under a filter with
   `add_to_work_queue = false` deletes an unprocessed entry for good.
8. An archived row may be lost when workers are slow, which is why `ProcessedIsArchived` promises
   that it stays only for `SlowWorkers = FALSE`; without that condition, TLC refutes it with
   `SlowWorkers = TRUE`. When a slow worker, whose claim was taken over, marks an entry again while
   `cleanWorkQueue` is between its statements, the entry is copied and stays in the queue. The next
   `cleanWorkQueue` deletes the copy to make a new one, and makes none if a store replaces the
   observation in between. That a processed entry leaves the queue only into workstatistik is not
   affected.
9. `ConnectionsAreReturned` (`MCInputService`, two HTTP threads, two connections, `MaxMishaps = 1`): too
   many redirects cost a connection.
10. `FoundIsUnused` (`MCInputService`, constants of `service`): the catch (...) of `registerParams`
    (DataSrcApp.cc:445) frees its connection and goes on to free it again. If another request has
    found it in between, it is marked as free while in use, and two requests decode with one
    connection; ConnectionCache.h:74 promises "a unused connection".
11. `CommitStoresData` (`MCCheckRunner`, constants of `checks`): after a reconnect of `execQuery`
    (pgsqldb.cc:267) in the middle of a check its locks are gone, its UPDATEs commit one by one and
    END only warns. `newObservation` returns and the message is sent, although another worker or input
    has overwritten what was handed to `commit` ("Commit data to the data storage",
    DatabaseAccess.h:101).
12. `SelectHasNoTransaction` (`MCClaimTransaction`, constants of `claim`): after an error in
    `markProcessDone` other than a serialization error (NewDataListener.cpp:178), or a ROLLBACK that
    throws, `transactionInProgress_` stays true. The next `selectDataForControl` starts no transaction,
    though it "should not have one" (DatabaseAccess.h:288), and claims in an aborted one, or in
    none, where two workers can claim one entry.
13. `DuplicateIsEqual` (`MCStoreTransaction`, constants of `store`): 0.00 and -0.01 are the same to
    `static_cast<int>((v + 0.005) * 100)` (DataUpdateTransaction.cc:347), so an update from one to the
    other is answered OK and not stored, though only data that "already exist and is equal" should
    not be (decoder.h:341).
14. `TextPinsAreCleared` (`MCCheckRunner`, `Obs = {a, b}`, one check with text and `back <- Back1`): "Pins are
    cleared when you start a new transaction", says DatabaseAccess.h, but `beginTransaction` leaves
    those of text data. When input has replaced an observation whose text was read, checks that read
    its text again are left out, with a line in the log, for as long as the process runs.

The rest is plain to see in the code.

* A filter with `publish` and without `add_to_work_queue` does not publish ordinary data, which
  StationFilter.h offers.
* A kvQabased process without an id takes entries that are assigned to another process, against
  the comment in kvQabased's main.cpp.
* The loop that is to remove missing values (DataUpdateTransaction.cc:474) skips the element after
  an erased one, and goes past the end when the last one is erased. `EraseMissing` models it; since
  what it leaves is compared only, the effect is that some duplicates are stored again.
* "If the MessageId is 0, then there was no data to send" (ProducerCommand.h:56), but the first
  message that is sent has the id 0.
* A command that `produce` refuses is neither sent nor reported: `onError` is not called.
* Two first messages for one observation: the slower one fails with SQLDuplicate, which `perform`
  does not retry. The sender gets an error and may send again (`InsertDuplicate`).
* A stop signal that comes before `run()` starts is forgotten in NewDataListener and KafkaConsumer.

## 7. Not modelled

* What check scripts compute, model data and station metadata, filters on level and sensor, and
  checks whose signature asks for no observations. A script is a choice of rows to flag.
* `StationFilter` matching: the filters in use are a set. `tbtime` and `priority` of an entry.
* Order on the topic: it is a set. The consumers in `lib/kvsubscribe` and `service-libs`, which run in
  the clients of kvalobs.
* Commands without data: kvDataInputd posts none. `KafkaProducerThread::send`, which has no caller.
* Savepoints and reading of results in the driver.
* Lost connections in `Kvalobs`: a store, a claim, a check and the transactions of kvManagerd are
  single steps or statements there, which `StoreTransaction`, `ClaimTransaction` and `CheckRunner`
  justify as long as no connection is restored in mid-transaction. For kvManagerd's connection the
  reconnect is not modelled at all.
* Running out of memory in `create` (its NoMem path).
* Start-up: in `Init` the daemons run.
* Number of Kafka attempts before kvQabased exits (n + 2 for `kafka-error-loop-count` n): a worker may
  crash at any time.
* Message formats, flags, logging, configuration, JSON, XML: pure functions or I/O. They are most
  of the repository's lines, with the tools and the old services that the top-level Makefile
  does not build.

## 8. Plan

Done: all modules of section 2 with their runs, and theorems for every safety property of the
runs that the prover can reach, the refinements of `AtomicChecks` and `AtomicStore` among them.
Next, in this order:

1. `WorkLife`: an abstract life cycle of an observation (stored, released, claimed, done, archived or
   replaced) that `Kvalobs` implements, with the step simulation proved from `IInv` and `MoverSafe`.
2. `Flags`: the operations of kvUseInfo and kvControlInfo against their documentation; the subscription
   library.
