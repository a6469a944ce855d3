# A verification project for tmautils-core

tmautils-core is a library: a buffered writer with pluggable storage backends,
DuckDB and DuckLake stores, an asyncio rate limiter, an HTTP client with
retries, and helpers for files, logging and addresses. It has no main program;
what can go wrong is what threads and asyncio tasks of an application do to
each other inside it, and what failures in the middle of an operation leave
behind. The modules in this directory model that behaviour. TLC checks them on
small instances. TLAPS proves what they should satisfy at every step, that is all
of their invariants, action properties and refinements, for instances of any size;
that something happens in the end is left to TLC.

Paths below are relative to the package, `src/tmautils/`.

## 1. The system

| component | state it keeps | operations | what makes it hard |
| --- | --- | --- | --- |
| `BufferedWriter` (`db/bufferedwriter.py`) | per table: buffer, `is_flushing`, `last_flush_ts`; `_closed`; an executor | `add_row(s)`, `flush(timeout)`, `close`, the timer thread, `_flush_task` on the workers | callers, a timer and workers under per-table locks, with `_closed` read outside of them; failing flushes re-buffer |
| `AsyncRateLimiter` (`core/asyncutils.py`) | per key: semaphore, token bucket, `backoff_until`, `active_count`, `last_access`; an operation counter | `hold_slot`, `acquire_token`, `acquire`, `signal_backoff`, `cleanup` | cancellation at every await, eviction of idle keys, backoffs that grow while tasks sleep |
| `request_with_retry` (`core/http.py`) | locals of a call; the limiter that it shares | attempts, pauses, `before_sleep`, release of responses | requests that slow each other down through the limiter |
| lakes of `DuckLakeStore` (`db/ducklake.py`) | `_lakes` under a lock, DuckDB's attached databases | `attach_lake`, `detach_lake`, `close`, `run_with_retry` | two records of one fact, changed one after the other; retries of half-done work |
| writes of `DuckLakeStore`, `DuckLakeBackend` | the tables of the lakes | `insert_arrow` in three modes, `execute_txn`, `execute` | transactions that fail, are retried, or end in an ambiguous COMMIT |
| `DuckDbStore`, `DuckDbBackend` (`db/duckdb.py`) | one database, one connection | `insert_arrow`, `execute_txn`, `execute`, `ensure_table`, `close` | transactions of several threads on one table, without retries; `ON CONFLICT` and the constraint that it needs |
| `DuckDbInetLpmIndex` (`db/duckdb_helpers.py`) | two tries, one per address family, fixed once built | `from_relation`, `lookup`, `lookup_dict` | a prefix that occurs twice, the choice of the trie |
| `ParquetBackend` | a directory | `flush_arrow` | a COPY that fails half-way |
| `gzip_file`, `gunzip_file`, `atomic_write` (`core/io.py`) | a file, its archive, a temporary file of each | one call each | a crash between two system calls; two calls on one path |
| `IOHelper` (`core/io.py`) | a cache of created directories; the entries of the file system | the constructor, directories on first use, `create_symlink` | helpers of one namespace in several processes; links that are replaced in two steps; targets that come and go |
| `LogHelper` (`core/log.py`) | queue, listener thread, handlers | start, workers, `_shutdown_logging` with a time limit, the exit of the program | a shutdown that overtakes the listener; an exit that waits for a queue nobody reads |
| the rest: `pydantic_to_arrow`, schema SQL, `run_coro_sync`, IPC messages, IP helpers | none | pure functions | none to a model checker |

How they interact. An application gives a `BufferedWriter` a backend;
`flush_arrow` of `DuckLakeBackend` or `DuckDbBackend` calls `insert_arrow` of a
store, from one of the writer's workers. `request_with_retry` runs inside `hold_slot` and takes one
token an attempt, and tells the limiter of every rate limiting answer. The
stores share nothing with the limiter. Every class takes an optional `LogHelper`
and keeps its logger; an `IOHelper` makes a `LogHelper` of its own, whose file is in
one of its directories. Threads meet in the writer's table locks,
in `_lakes_lock` and in DuckDB; asyncio tasks meet in the limiter only.

What makes each correct, before any formula:

* the writer stores every row it has accepted, once and in order, unless its
  backend is ambiguous or it is closed under a caller; a `flush` covers what
  was there when it began; `close` returns, and nothing is stored after it, unless it
  returned at once because another `close` was under way;
* the limiter gives no key more slots than it has, loses none, lets nobody past
  a backoff, and serves everyone who waits;
* a request keeps its slot through its attempts, releases every response once,
  makes its host slow down for all, and ends;
* the store's list of lakes says what DuckDB has attached, and a lake that
  `attach_lake` was called for is attached when it returns;
* a write happens once or not at all, and key columns stay keys;
* a name shows a whole version of a file at every moment, and no version is lost
  that nothing has overwritten;
* a directory or a link is there when a call returns, and a call that fails has a
  reason;
* records are written once and in order, shutdown and exit return.

Components that are not modelled are in section 7, with the reason.

## 2. Modules

| module | extends | what it is |
| --- | --- | --- |
| `BufferedWriter` | | the writer's threads |
| `TableLog` | | what a writer promises of a table: an append-only log that is stored in prefixes |
| `BufferedWriterProperties` | `BufferedWriter`, instance of `TableLog` | its properties and the refinement |
| `BufferedWriter_proofs` | `BufferedWriterProperties`, TLAPS | its theorems: batches, the refinement, flushes, the end of a writer, `last_flush_ts`, the order of rows |
| `RateLimiter`, `RateLimiterProperties` | | the limiter and tasks that use it in any well-formed way |
| `RequestWithRetry`, `RequestWithRetryProperties` | `RateLimiter` | requests, composed of the limiter's operators |
| `RateLimiter_proofs` | `RateLimiterProperties`, `RequestWithRetryProperties`, TLAPS | theorems about the limiter's objects, slots and backoffs, and about requests, which rest on them |
| `LakeRegistry`, `LakeRegistryProperties` | | threads that attach, detach and close |
| `RowTable` | | tables of rows, and what one statement of each write mode changes in them |
| `RowTable_proofs` | `RowTable`, TLAPS | lemmas about its operators, key by key |
| `TableWrites` | `RowTable` | what a store promises its writers: each write in one step, or an error |
| `LakeInsert`, `LakeInsertProperties` | `LakeRegistry`, `RowTable`, instance of `TableWrites` | writes to lakes that others attach and detach |
| `Lake_proofs` | the properties of both, `RowTable_proofs` | theorems about the list of lakes and the writes |
| `DuckDbInsert`, `DuckDbInsertProperties` | `RowTable`, instance of `TableWrites` | threads that write to one database |
| `DuckDbInsert_proofs` | `DuckDbInsertProperties`, `RowTable_proofs` | theorems about these writes |
| `FilePair` | | what a file and its archive show: whole versions, changed in one step |
| `FileOps`, `FileOpsProperties` | instance of `FilePair` | processes that write, compress and unpack |
| `FileOps_proofs` | `FileOpsProperties`, TLAPS | its theorems about readers, the refinement of `FilePair`, what is lost and what a failure leaves |
| `IOHelper`, `IOHelperProperties` | | helpers that create directories and links |
| `IOHelper_proofs` | `IOHelperProperties`, TLAPS | its theorems about links and the results of calls |
| `LogHelper`, `LogHelperProperties` | instance of `TableLog` | processes that log, the listener, shutdown and exit |
| `LogHelper_proofs` | `LogHelperProperties`, TLAPS | its theorems about the order of records and the shutdown |
| `MCx` | the properties of `x` | model values and symmetry for TLC |

A definition `X_Fault` next to `X` is `X` with a plausible mistake in it. No
specification uses it. It is what a property of `X` is tried against: with the
fault in the place of `X`, TLC finds the property violated (`mutants` of
`PROJECT.json`).

### 2.1 BufferedWriter

One variable per shared field: `buffer`, `flushing`, `lastFlush` for a
`_TableBuffer`; `queue` for the executor; `carrying` for the batch in the local
variables of a thread between the block in which it took the rows and the
`submit`, and of a worker during its flush; `closed`, `shutdown`. `call[c]` is
the program counter and the locals of a caller, `timer` those of the timer
thread. `stored` is the backend. `accepted`, `dropped`, `closeResult` and the
`mark` of a flush are history: nothing reads them but properties.

A step is a block under a table's lock, or one access to a field that is shared
without one. So `add_rows` is `AddRows` (it reads `_closed`), `AppendRows` (the
locked block) and `SubmitRows`; `flush` is `FlushTop`, `FlushTable` for one
table after the other, `FlushDone` or `FlushWait`; `close` is `Close`,
`SetClosed`, a flush, `Shutdown`, `CloseReturns`, or `CloseAgain`, which finds
`_closed` set and returns at once, also while another thread's `close` is still
flushing (`closeResult` is the set of the ways in which calls have returned); the timer is `TimerWake`,
`TimerPeek` (without the lock), `TimerLock`, `TimerSubmit`; `_flush_task` is
`WorkerTake`, `ConvertRaises` or `BackendAnswers`, `FlushSucceeds` or
`FlushFails`. `submit` inside of `flush` happens under the lock and is part of
`FlushTable`; a submit to an executor that is shut down raises, and what the
code then leaves behind is `Refused`.

The guard of `_flush_task` for an empty batch and its `table is None` branch
cannot be reached: no thread takes an empty batch. The order in which
`flush` visits the tables is left open. Jitter is the choice of a threshold at
every use.

What the backend does is one of three outcomes: it stores the batch (`ok`), it
raises and has stored nothing (`rejected`), or it has stored it and raises
(`ambiguous`). `AtomicBackend` says that the last does not occur.

### 2.2 RateLimiter and RequestWithRetry

The limiter is one record, and what a method does to it between two awaits is
an operator on records (`GetKeyState`, `EnterBlock`, `SignalBackoff`,
`LeaveBlock`, `CleanUp`, ...). All tasks share one event loop, so that the code
between two awaits is atomic, and an action composes the operators of
everything that runs there. `RequestWithRetry` needs this: after an answer the
code releases the response, signals, leaves the token's block, pauses or leaves
the slot's block, which may clean up, all without an await.

A `_KeyState` has an address in `States`, so that an evicted object that a task
still holds would be a second one; `OneStatePerKey` says that this does not
happen. Times are relative to the present (ticks left, ticks passed), so no
clock grows and the state space is finite without a bound on the run.

### 2.3 LakeRegistry and LakeInsert

`lakes` is `_lakes`; `attached` is what DuckDB has. A step is a block under
`_lakes_lock` or one cursor's transaction. `Raise` is `run_with_retry`:
another attempt from the start of `_once()`, or the end of the call.

`LakeInsert` adds the tables: `data` counts the copies of each row, so that a
duplicate can be seen. A write looks up its lake (again in each attempt, as the
code does), computes from the table what its one statement removes and adds, and
commits. `ROW_NUMBER()` without an order keeps any row of a key: `OneRowPerKey`
is a set of results. Key values are compared with `=`: a NULL in a key column is not
modelled (section 7). `execute_txn` draws its statements one at a time, and when
they are an iterator the next attempt goes on where the last one stopped.

### 2.4 DuckDbInsert

`schema` says whether a table was created and whether with a constraint, `tables`
counts copies of rows as `data` of the lakes does. A call of `insert_arrow` or
`execute_txn` is `CallX`, a step for each statement in the transaction of its own
cursor, and `Commit`; an exception is `Raised` (what the transaction did is gone),
then `Raise`. `ensure_table` is a `CREATE TABLE IF NOT EXISTS` in a transaction: it
keeps an older table, with or without a constraint. `ON CONFLICT` without a
constraint fails; `key_cols` of the configuration and the constraint of the model
are independent in the code and in the module. COMMIT fails when a row that the
transaction replaces has been replaced meanwhile, or when a key would be doubled.

### 2.5 FileOps

A name links an inode and an open handle keeps its inode, so that a rename under a
reader, or a second call that empties the temporary file of the first, does what it
does on a POSIX file system. The content is two chunks, enough for half of a
file. One step is one system call of `gzip_file`, `gunzip_file` or `atomic_write`;
any of them may raise, and the process may die between any two (`Killed`; also a
`KeyboardInterrupt`, which `except Exception` does not catch). `Cautions` are the
rules that callers have to keep for the properties to hold, see section 6.

### 2.6 IOHelper

`top` and `sub` are the entries of the top-level directory and of one below it: missing,
a real directory, or a link to a target. The directory below exists once in the real
top-level directory and once in each target, so that a top-level link that is
replaced leads elsewhere. `helper[h]` is the program counter of a call with the configuration
that it follows. `Path.mkdir(parents=True, exist_ok=True)` is three steps, as in the
standard library: it tries, makes the parent, tries again. A link is replaced by
`Unlink` and `Link`; `create_symlink` has `Resolve` between the two, which raises when
the target has been lost since the call began. A helper may be killed, a target be lost and come back.

### 2.7 LogHelper

`buffer[p]` is the buffer of a process in front of the pipe, which its feeder thread
empties; the listener takes from the pipe; the sentinel travels like a record.
`_shutdown_logging` is `Shutdown` (its own record, the stopper thread), `Stop` in that
thread, `Joined` (the stopper is done, or two seconds have passed), `CloseHandlers`.
`Exit` and `Exited` are the end of the program: the `atexit` callback if it is registered, then
`multiprocessing`, which joins the workers and the feeder. Loggers that other
objects took before the shutdown still put records into the queue; `helper.logger` is a no-op by then,
which is the case in which `LogMain` is not taken. A file handler that was closed opens its
file again for the next record, so that writing goes on after `CloseHandlers`.

### 2.8 How the parts support each other

`OneRowPerStoredKey` is claimed for one writer of a table at a time, because
nothing in a lake enforces a key. `OneFlushPerTable` of the writer is what
provides it. In the other direction, the writer's `Conserved` and `Refinement`
assume an `AtomicBackend`. `TableWrites` says what one is, and both stores implement
it: `ImplementsWrites` of `LakeInsert` and of `DuckDbInsert`, with the third outcome
for the ambiguous COMMIT. `StoredOnce` is the sharper statement for one writer of a lake
as long as no COMMIT is ambiguous, `RepeatHarmless` is what is left when one
is, and `writer_faults` says what the writer then still guarantees.

### 2.9 Assumptions on code that is not in the repository

* `ThreadPoolExecutor`: first in, first out; `submit` raises after `shutdown`;
  `shutdown(wait=True)` returns when queue and workers are empty.
* `asyncio.Semaphore`: slots go to waiters in order; a waiter that is cancelled
  after it was given a slot passes it on.
* `aiolimiter.AsyncLimiter`: a bucket that leaks; waiters are let through when
  there is room, in no order that is relied on.
* `tenacity`: runs the attempt again or reraises; calls `before_sleep` between.
* DuckDB: a second ATTACH of an alias and a DETACH of an unknown one fail; what a
  transaction changes is seen at COMMIT; a lake that is detached keeps its data;
  a cursor survives the close of the connection it came from; a COMMIT whose rows
  were changed by another one fails; `ON CONFLICT` needs a constraint.
* POSIX: rename replaces its target in one step, an unlinked file lives as long as
  a handle on it, and one `mkdir`, `symlink` or `unlink` is atomic.
* `multiprocessing.Queue`: a buffer and a feeder thread for each process, a pipe of
  limited size behind them; the exit of a process joins its feeder.
  `QueueListener.stop()` puts a sentinel through the same queue and joins the
  listener. The lock of a handler is held while a record is written, and by `flush()`
  and `close()`.

## 3. Runs

Every run ends on a complete search of its instance.

| run | question | result |
| --- | --- | --- |
| `writer_safety` | Two tables, two callers, two workers, add, flush and close, a backend that may reject: exclusion, conservation, flush coverage, silence after close (also with two calls of `close`), refinement of `TableLog` | holds |
| `writer_faults` | One table, three rows of which one cannot be converted, an ambiguous backend, a clock: what is still true when rows may be stored again | holds |
| `writer_live` | Fair threads, two rows below and at the threshold: rows reach the store, `flush()` returns once adding has stopped, `close()` returns | holds |
| `writer_close_loses` | Does `close()` store everything that was accepted? | violated, finding 1 |
| `limiter_safety` | Three tasks, one key, two slots, one token a tick, two lengths of backoff, evictions, cancellations | holds |
| `request_retries` | Three requests to one host with two slots, all kinds of answers, cancellations | holds |
| `registry_safety` | Two attachers, a detacher, a closer on one alias, ATTACH and `schema_sql` that fail in a retried way or for good: list and DuckDB agree, an `attach_lake` that returns has its lake attached, calls return | holds |
| `lake_insert` | A writer with two calls in any mode, two lakes that come and go, failing statements and COMMITs: once or not at all, keys, refinement of `TableWrites` (so that a transaction is executed whole) | holds |
| `duckdb_insert` | Two threads, two calls each, one table that is created with or without a constraint, all modes, failing statements and COMMITs, `close` | holds, refines `TableWrites` |
| `files` | Two processes, three calls each, on a file and its archive, killed at any step | holds, refines `FilePair` |
| `dirs` | Two helpers, two calls each, two levels, two targets, one kill, one lost target | holds |
| `log_shutdown` | A program and two workers, two records each, a pipe for one record, with and without `register_atexit` | holds, refines `TableLog` |

### Bounds, and why they are enough

* `Rows`: each row is passed once, so a run ends when the rows are used up
  (`CHECK_DEADLOCK FALSE`: an application that calls nothing more is a writer at
  rest). Two rows in one table show reordering, duplication and loss; with a
  threshold of 2 a batch holds one row or two. In `writer_live` the rows stand for
  a caller that stops adding at any point: `AddingStops`, the antecedent of
  `FlushReturns`, holds of each of its behaviours, and the run says nothing of a flush
  under steady adds (section 6). `writer_faults` needs a third row to
  come after the bad one.
* Two workers and two tables let two flushes of one table, and flushes of
  different tables, overlap. Two callers race with each other and the timer; in
  `writer_close_loses` one adds and the other closes.
* `MaxTime` bounds the clock in `writer_faults` only (2 ticks: the timer reads the
  time, a flush completes later, the timer goes on). The other runs leave time
  standing at a time threshold of 0, with which the timer is always ready and interferes most. `MaxStored` bounds repetitions by an ambiguous backend.
* The limiter: one key, because keys share nothing but the operation counter
  and eviction, and what another key would do to this one, an eviction at any
  moment, `Cleanup` does. Three tasks and two slots give holders and a waiter.
  `MaxIdle` 2 with backoffs of 1 and 2 is the use in which `BackoffHonoured` holds (a backoff no longer
  than the idle time). An age stops at
  `MaxIdle + 1`, where no condition tells more. Two addresses for one key are enough: one in
  the dictionary and one replaced under a task, if that could happen.
* Requests: two attempts, so that there is a first that pauses and a last that does
  not; pauses of 0, 1 and 2 ticks; no token bucket, for the reason given at
  `HostSlowsDown`.
* Lakes: `RetryAttempts` 2 gives a retry. One alias is all that one thread's call
  touches; two lakes in `lake_insert` are for the default alias, which is looked up
  again in each attempt. No thread closes the store in `lake_insert`: a write on a
  closed store fails like one on a detached lake, which the detacher causes. One
  key with two values and two calls give every conflict of two rows: repeated in a
  batch, repeated by a second call, and repeated by a second attempt.
* `duckdb_insert`: two threads are needed for COMMITs that meet, two calls for a write
  after a `CREATE`, two keys with two values for a batch with a repeated key next to
  another row. One table: a transaction touches one.
* `files`: with three calls a process can compress, lose its source and compress again, or
  meet the half file of a killed call. Two versions tell an old content from a new one.
* `dirs`: with two calls a helper is constructed, which is two directories when it is
  eager, and accessed, linked or constructed again after it was killed; two helpers and
  two targets give every replacement of one link by another. One kill and one lost target
  suffice to leave any half state and any dangling link behind.
* `log_shutdown`: a pipe for one record and two records a process fill it; two workers
  give one that has ended and one that has not at shutdown.
* `MaxCalls` bounds the calls of a writer, whose data would grow for ever.

Symmetry is used over callers, workers, tables, rows, tasks, aliases and values
where no definition distinguishes them, and never in a run with a liveness
property.

## 4. Fairness

* `Fairness` of the writer: the timer, each worker, and a caller inside a call go
  on (operating system threads do), and a deadline passes. Nothing makes the
  application call anything. `BackendRecovers` is a strong fairness assumption on
  the backend, used only as an antecedent: a backend that is asked to store a
  table's rows again and again stores them at some time. `FlushReturns` has
  `AddingStops` as an antecedent besides: `flush()` ends with a pass that finds nothing
  pending, and callers that keep adding may prevent it. `close()` needs
  neither: its flush has a deadline.
* `LimiterFairness`: the event loop runs what can run and time passes. `GetToken` is
  strongly fair: tokens that others take may run out again and again, and
  AsyncLimiter serves its waiters. `ExitSlot` is strongly fair because the body of a slot
  may take tokens, but only finitely many. Cancelling, signalling and cleaning up
  are never forced. `EveryoneServed` assumes that signals stop;
  a host that keeps signalling may hold its tasks for ever.
* Requests: an attempt is answered (the attempt's timeout sees to it), and a
  caller closes the response it was given.
* Registry: a thread inside a call goes on.
* `LogHelper`: feeders, listener, stopper, handlers and the main thread inside a shutdown go on,
  the time limit passes, and workers end. `CloseHandlers` is strongly fair: the
  listener takes and releases a handler's lock again and again, and a lock that is free
  infinitely often is had in the end. That the program logs, shuts down or exits is
  not assumed. `ExitReturns` has an antecedent of its own: no more records are left
  behind the sentinel than the pipe holds.
* The stores, the files and the directories have safety properties only: their calls
  are sequences of steps without a loop or a wait.

## 5. Proofs

| theorem | module | statement | for any |
| --- | --- | --- | --- |
| `TypeCorrect` | `BufferedWriter_proofs` | `Spec => []TypeOK` | constants with `ConstantsAssumption` and `NoTaskAssumption` |
| `Exclusive` | | `Spec => []OneFlushPerTable` | |
| `Conservation` | | `Spec => []Conserved` | |
| `Refinement` | | `AtomicBackend => (Spec => ImplementsLog)` | |
| `RowsHeld` | | `Spec => []NoRowLost` | |
| `Covering` | | `Spec => FlushCovers` | |
| `Silence` | | `Spec => StoreFrozenAfterClose` | |
| `Monotone` | | `Spec => LastFlushMonotone` | |
| `InOrder` | | `DistinctBatches => (Spec => []RowsKeptInOrder)` | |
| `OneState` | `RateLimiter_proofs` | `LimiterSpec => []OneStatePerKey` | constants with `LimiterAssumption` |
| `Slots` | | `LimiterSpec => []SlotsConserved` | |
| `Backoff` | | `ShortBackoffs => (LimiterSpec => BackoffHonoured)` | |
| `InProgressIsBounded` | | `Spec => []InProgressBounded` | and with `RequestAssumption` |
| `Responses` | | `Spec => []ResponsesReleased` | |
| `SlowsDown` | | `MaxRate = 0 => (Spec => HostSlowsDown)` | |
| `LimitHeard` | | `LimitedMinWait > 0 => (Spec => RateLimitHeard)` | |
| `Registry` | `Lake_proofs` | `OneDetacher => (Spec => []RegistryAgrees)` | constants with `RegistryAssumption` |
| `AttachedOnReturn` | | `OneDetacher => (Spec => AttachMeansAttached)` | |
| `OneRow` | | `OneWriter => (WriteSpec => []OneRowPerStoredKey)` | and with `WriteAssumption`, `RowAssumption` |
| `InsertedOnce` | | `OneWriter => (WriteSpec => StoredOnce)` | |
| `Harmless` | | `OneWriter => (WriteSpec => RepeatHarmless)` | |
| `LakesImplement` | | `KeyedAlone /\ OneShot \subseteq {FALSE} => (WriteSpec => ImplementsWrites)` | |
| `ReturnStored` | `DuckDbInsert_proofs` | `Spec => ReturnMeansStored` | constants with `DbAssumption`, `RowAssumption` |
| `StoreImplements` | | `Spec => ImplementsWrites` | |
| `ReadersSafe` | `FileOps_proofs` | `"apart" \in Cautions => (Spec => []PublishedFrozen)` | constants with `FileAssumption` |
| `FilesArePair` | | `Careful => (Spec => ImplementsPair)` | |
| `LastCopyStays` | | `Careful => (Spec => NothingLost)` | |
| `TargetsStay` | | `Careful => (Spec => FailureHarmless)` | |
| `LinkIsThere` | `IOHelper_proofs` | `Spec => []SomebodyLinks` | constants with `HelperAssumption` |
| `ResultsAreTrue` | | `Spec => ResultIsTrue` | |
| `PlainAlwaysWorks` | | `Spec => PlainNeverFails` | |
| `Drains` | `LogHelper_proofs` | `Spec => []ShutdownDrains` | constants with `LogAssumption` |
| `RecordsInOrder` | | `Spec => ImplementsRecordLog` | |

The assumptions say no more than that the sets of threads, tasks, processes, aliases, rows and targets are
finite, that bounds are numbers, that outcomes and modes are among those that the
code knows, and that `None`, `NoTask` and the sentinel of the log are
no values of another kind. `RequestAssumption` adds that a pause after a rate limiting answer is
no shorter than `rate_limited_min_wait`, which is what the code computes.

The hypotheses that theorems add are limits of the code, and section 6 names for each one
a run that fails without it: `ShortBackoffs`, `MaxRate = 0` (no token bucket),
`LimitedMinWait > 0`, `OneDetacher` (one thread at most calls `detach_lake`),
`OneWriter` (a lake has one writer at a time,
which `BufferedWriter` provides), `KeyedAlone` (so it is, or nothing
is inserted on keys), `OneShot \subseteq {FALSE}` (no iterator of statements), `Careful` (all
`Cautions`). Two are not: `AtomicBackend` is about the
backend (5.1), and `DistinctBatches` says that no call passes one row twice. It
gives rows an identity, without which "stored before" means nothing.

Some invariants are conditional on their hypothesis inside (`OneWriter => ...`), so that
one induction serves the theorems with and without it.

### 5.1 The writer

The first theorems rest on the inductive invariant
`TypeOK /\ OneFlushPerTable /\ Conserved`, built in that order.

* `TypeOK` is inductive by itself. More than types, it says that a thread holds a
  batch exactly at "submit" and that a worker with an answer holds one. Without
  this, an action that overwrites `carrying` could lose rows.
* `OneFlushPerTable` is inductive relative to `TypeOK`. Its equivalence part,
  `is_flushing` iff a batch exists somewhere, is what makes the guard
  `not tb.is_flushing` exclude a second batch. The dropped batch must count, or the
  equivalence fails after finding 2.
* `Conserved` is inductive relative to both: for a table with a batch in between,
  `accepted = stored \o batch \o buffer`, where the batch counts as empty once the
  backend has stored it. A flush that fails puts the batch in front of the buffer, which
  keeps the equation only because there is no second batch. The lemmas
  `ConcatThrice` and `Regroup` are the associativity that this takes.
* `Refinement` maps `accepted` and `stored` to themselves. `AppendRows` is `Accept`,
  `BackendAnswers` with `ok` is `Store`, for which conservation gives that the new
  contents are a prefix of what was accepted; the rest stutters.

`AtomicBackend` appears inside `Conserved`, so the invariant needs no assumption about the
backend; only the refinement has it as a hypothesis. With an ambiguous backend the
refinement is false: rows are stored twice. The other theorems hold for every backend,
and need more.

* `WriterInv` replaces `Conserved` by `AllHeld`: a row is accepted iff it is stored,
  buffered, dropped by a refused submit, or in a batch that a thread or the queue
  holds. `AnswersTrue` is what it takes: a worker that was told "ok" holds a batch that is
  stored, and may forget it. `RowsHeld` follows.
* `Covering`: `PassesOK` says of a caller inside of `flush` whose pass has found nothing
  pending so far that the tables behind it have stored all the rows up to the caller's mark. It is
  kept because `stored` only grows and `accepted` keeps its beginning (`Grows`), and it is
  established where `flush` finds a table not flushing and its buffer empty, by `AllHeld`.
  `Moves` is the summary of what any step does to one caller, so that the proof
  has a case for each kind of move, not for each action.
* `Silence`: `SilentInv` says that the executor is shut down when a thread waits in
  `shutdown(wait=True)`, and that after a `close()` that waited no worker has a batch and
  the queue is empty. An executor that is shut down takes no batch, so this stays so
  (`NoWorkKept`). A `close()` that returns at once has seen `_closed`, and whoever has set it
  is between that and its own return, or has waited: the last part of `SilentInv`, for which
  `ClosingStep` shows that a closing call ends in `CloseReturns` only.
* `Monotone`: `TimeInv` says that each time that some thread has read and will still write is
  between the table's `lastFlush` and the clock (`Dated`). This needs `OneFlushPerTable`:
  with two batches of a table the older time could be written last.
* `InOrder`: with an ambiguous backend, `stored` is not a prefix of `accepted`
  any more, since a batch may be in it several times. `SettledInv` says what remains: for the
  batch `rows` in between (`InFlight`, empty if there is none), `accepted` is
  `done \o rows \o buffer`, and every row of `done` is stored. A batch is stored as a
  whole and in order, so what precedes one of its rows is in `done`, or in the batch
  before it (`StoredAfterPredecessors`). That the positions in `accepted` are unique is
  `FreshInv`, from `DistinctBatches`. `NoPoison` follows from the conversion in front of
  the backend; with the order, it gives that a table is blocked behind a row that
  cannot be converted.

### 5.2 The limiter and the requests

`OneStatePerKey` and `SlotsConserved` are not inductive: they count tasks by their key,
and the code works on objects. The inductive invariant `LimiterInv` is about objects.

* Every object, in the dictionary or not, has as many blocks on it as its
  `active_count` says. `cleanup()` therefore takes away only objects that no task
  is on, which is what keeps `OnItsKey`: a block works on the object of its key.
* `OneKey`: no object serves two keys. A new one is taken from `Unused`, which is
  where the invariant about evicted objects is needed.
* Waiters of a semaphore are tasks that wait on that object, once each. Then the free slots
  and the tasks in `hold_slot()` blocks are the slots and the waiters together
  (`SlotsOK`), in which nobody has to be counted twice. `SlotHolders` is what
  remains when the queue is taken out (`HoldersCounted`).
* A task that waits for a slot has no token block inside (`TaskOK`): cancelling it must not
  drop one.

`LimiterInv` speaks of a limiter and a task function, and an action changes the first by
several methods, so each method has a lemma of its own and the invariant holds in
between, of the tasks as they will be. `RemovedIs` and the lemmas before it are what
leaving a queue from its middle takes.

For `Backoff`, `BackoffInv` adds `Fresh`: a key's object has a `backoff_until` that is
no earlier than any backoff signalled for the key, and a key without an object has none. It is
kept by evictions only because a backoff that was signalled `age` ticks ago or
earlier has at most `MaxIdle + 1 - age` left: signalling sets `last_access`. That is where
`ShortBackoffs` is used, and the only place.

A request's actions are sequences of the limiter's methods, so `RequestInv` contains
`LimiterInv`, which the method lemmas carry over. It adds where the task of a
request stands in the limiter in each phase (`Standing`: a request in its pause holds a slot and no
token block), and that a pause is covered: the backoff of the object that its slot is on
lasts at least as long as what is left of the pause (`Covered`).

* `InProgressIsBounded` follows: a request in progress holds a slot, and `SlotsConserved`
  counts those.
* `Responses` is `unreleased`, which is one exactly where the caller's block is open.
* `SlowsDown` needs that no step shortens the backoff of an object somebody has a slot on
  (`Kept`: signalling takes the maximum, and an eviction leaves the objects of open blocks alone). Without a bucket the
  look at the backoff and the sending are one step, and the object looked at is the one that the
  pausing request is on, by `OnItsKey`. `ShortBackoffs` is not needed.
* `LimitHeard`: signalling sets `last_access`, so an object that was signalled
  in this step has age 0 and survives the cleanup at the end of the same step (`Marked`).

### 5.3 The files

* `FilesInv`: a file that is being written is linked by the temporary name of
  the call that writes it (`WritesTemp`), no file has two names (`OneName`), and no two
  calls use one temporary name (`OwnTemp`). `PublishedFrozen` follows; it is not inductive,
  because it does not say what a rename may publish.
* `PairInv` adds the contents. All public files are whole, and a call has copied so many
  chunks of one whole version (`Copying`). A call that removes a name runs alone
  (`Alone`), and what it saw of the other name is still so (`Removing`): before
  the source is deleted, the target shows the same version.
* `FilesArePair` maps `shown` to what the two names show and `taken` to the version that a
  call is copying. Renaming a temporary file is `Write` or `Put`, opening a source is `Take`,
  removing a source `Drop`, removing an old target `Clear`, giving up or being killed `GiveUp`;
  the rest stutters.
* `KeptInv` says, point by point, what a call's two names show compared with the start of the
  call: the target as before, or nothing, if the call has force and its source is there; when the source is
  being deleted, the target shows the same version, and the temporary name is gone.
  With `PairInv`, `Effect` sums up each step: which versions it may take from both names, and what
  it leaves when the call ends. `LastCopyStays` and `TargetsStay` are read off it.

### 5.4 The log

`LogInv` is `TypesInv /\ OrderInv /\ DueInv`. A process's records are in up to four
places: written, in the listener's hand, in the pipe, in the process's buffer. In the
pipe they are mixed with those of other processes and with the sentinel.

* `OrderInv` does not speak of the subsequence of one process, which would need a
  recursive filter, but of pairs: of two records of one process, the one nearer to the
  handlers has the lower number (`Ahead`). No number up to the last one logged is missing
  from the four places (`NoneMissing`), and what is under way is not written
  (`Unwritten`). So the record in hand is the next one to be written (`NextRecord`): a
  lower number would have to be behind it. `RecordsInOrder` maps the numbers logged to
  `accepted` and what is written to `stored`.
* `DueInv` is about the sentinel: no record that was due at the shutdown is
  behind it, in the main process's buffer or in the pipe (`DueFirst`), and none is
  left outside of the pipe once it has entered. For a worker this takes that it was gone,
  and had flushed its buffer, before. When the listener has met the sentinel, what was
  due is neither in its hand nor in the pipe nor in a buffer, so by `NoneMissing` it is
  written.

### 5.5 The list of lakes

`RegistryAgrees` equates two counts, of entries in the list and of attached databases, each
corrected by the calls that are between DuckDB and the list. It is not inductive: a thread that is
about to remove a name must find one. `RegistryInv` adds this (`Found`), and for every
thread what it can have done at its point (`CallOK`: who is about to change the list
has changed DuckDB before). A detach finds its name to the
end because nobody else removes one; the other calls only append. The lemmas about `Positions` say what
appending to a list and removing the first match do to the number of entries; with `WhereMoves`, what a
step of one call does to the number of calls at a point. Each action is then an equation of
integers (`Balanced`).

`AttachedOnReturn` takes the equation at the step by which a call returns: with nobody between
DETACH and the list, a name that is in the list or about to be put there is attached, and the other
way round (`OnceOrNever`). It does not matter what the call has been through: an attempt that finds the
alias in the list returns on the strength of what other threads have made of it since its own
attempt failed.

### 5.6 Tables and writes

`RowTable_proofs` has what the proofs about both stores take from the tables. A statement is determined key by
key: `Changes` is every way to remove and add copies that keeps the rows of a
key, or replaces them by one row of the batch. A table in which keys are unique (`KeysUnique`) still is
one after a change of `insert_ignore` or `upsert`.

* Lakes: nothing enforces keys there, so `WritesInv` must show that what waits for a COMMIT is
  still a change to the table as it is (`Fresh`). With one writer the table has not changed since:
  `data` is what it was before the call, unless a COMMIT of this call was ambiguous (`Alone`), and then
  it is what one attempt leaves (`Repeated`). A second attempt changes nothing more
  for `insert_ignore`, and replaces rows of the batch for rows of the batch for `upsert`. For `execute_txn`,
  what has been added is a copy of each statement drawn so far, and at the COMMIT all have been.
  `OneRow`, `InsertedOnce`, `Harmless` and `LakesImplement` come from this one invariant.
* DuckDB: here threads do meet. `StoreInv` says of what waits for a COMMIT that, if it fits, it is a change
  that the write could make to the table as it is now (`Waiting`, `Prepared`). A COMMIT fits only if the rows that it
  removes are there and no key is doubled (2.4). Rows that an `insert_ignore` has left out had their keys
  in the table, and no write takes a key away. All this needs
  the table's constraint, which a prepared `ON CONFLICT` implies and which nothing removes.
  No hypothesis is added: `StoreImplements` and `ReturnStored` hold for any threads.

In both, a call maps to `Asks`, a COMMIT to `Returns` or, when it is ambiguous, to `StoresAndFails`, and an
exception that reaches the caller to `Raises`; the rest stutters.

### 5.7 The directories

`DirsInv` has four parts. `HelpersOK` and `EntriesOK` say what a helper can be at which point.
`AloneOK`: what a call that is alone has seen is still so (the link it is about to replace is one,
the entry it is about to make is missing), since nothing else takes steps; a target that is lost ends being alone.
`ResultsAreTrue` follows by cases on the last step, `PlainAlwaysWorks` from `HelpersOK`: without links no
call reaches a step that raises, whoever else creates the same directories.

`TopOK` is for `LinkIsThere`. Without kills and losses, if the top-level entry is missing,
either no helper has got it yet or some helper is about to make it (`Coming`): whoever unlinks is about to
link. If it is there, it is `Owned`: a helper that wants this entry has it or has gone on below, or
there is something below, or somebody is about to put it there. When all have come to an end, an entry
that is not the link would be owned by a helper that wants something else, or have an entry below it, and
`SomebodyLinks` excludes both in its antecedent.

### 5.8 Only model-checked

Liveness under fairness and `ENABLED` are beyond the prover and stay with TLC: `EveryRowStored`,
`FlushReturns` and `CloseAlwaysReturns` of `writer_live`, `EveryoneServed` of `limiter_safety`,
`RequestEnds` of `request_retries`, `CallsReturn` of `registry_safety`,
`ShutdownReturns` and `ExitReturns` of `log_shutdown`. Everything else that a passing run checks
is the statement of a theorem.

## 6. Where the code does less than one might expect

One run states what a docstring says and is violated:

* `writer_close_loses`, of "flushing any remaining data": `add_rows` reads `_closed`
  (line 205) and appends (219) without anything that `close` takes. A `close` in between flushes, shuts down and
  returns; the row remains in the buffer of a closed writer and no one is told.

The other limits show in the passing runs as bounds or antecedents: with the change that
is named, the run's property fails.

* A `submit` that is refused by an executor that is shut down raises with `is_flushing`
  set and the rows taken. `flush()` without a timeout then never returns, and no
  `flush` ever sees the table again (`writer_live` with `BackendRecovers` alone in the place of
  `Undisturbed`: `FlushReturns`).
* A second `close()` returns at once while the first one is still in its final flush. Its caller may take
  the writer for finished and close the backend while workers still store rows
  (`writer_safety`: that nothing is stored once any `close()` has returned,
  `closeResult # {} => UNCHANGED stored`, fails, and `StoreFrozenAfterClose` therefore tells the two
  ways of returning apart).
* `flush()` without a timeout looks through the tables until one pass finds nothing pending. While another
  thread keeps adding it need not return, although everything it was called for has long been
  stored (`AddingStops`; no bounded run shows it).
* Eviction looks at `active_count` and `last_access`, not at `backoff_until`: a backoff longer than
  `max_idle_seconds` is forgotten when its key goes idle (`limiter_safety` with `MaxIdle = 1` and
  `Durations = {1, 3}`: `BackoffHonoured`).
* A token bucket has its wait behind the look at the backoff: a request that waits for a token sends
  although another one has been told to slow down meanwhile (`request_retries` with `MaxRate = 1`,
  `Leak = 1`: `HostSlowsDown`). A `rate_limited_min_wait` of 0 signals a backoff of 0
  (with `LimitedMinWait = 0`: `RateLimitHeard`).
* Two calls of `detach_lake` for one alias may both find it in `_lakes`. When the first has finished and an
  `attach_lake` has attached it again, the second detaches that database before its name is in the
  list, and `_lakes.remove` raises `ValueError`; the `attach_lake` then registers a lake that DuckDB does not have
  (`registry_safety` with a second detacher: `RegistryAgrees`).
* Nothing in a lake enforces a key: two writers of one table double it, and what one has read is no longer so at
  its COMMIT (`lake_insert` with two writers: `OneRowPerStoredKey`, `StoredOnce`,
  `RepeatHarmless` and `ImplementsWrites`).
* A transient failure of `schema_sql` is retried from the start of `_once()`, which finds the alias
  registered and returns: `attach_lake` succeeds and the schema was never set up. No property says
  that it is; `AttachMeansAttached` says what such a call still gives, that its lake is attached. An
  `attach_lake` that meets a detach between DuckDB and the list does not even give that: it finds
  the alias in `_lakes` and returns, the lake being gone (the antecedent on `unregister`).
* A retry of `execute_txn` over an iterator commits what is left of it (`lake_insert`
  with `OneShot = {TRUE}`: `ImplementsWrites`).
* `gzip_file(force=True)` unlinks the archive before it opens its source, and
  `gunzip_file` likewise: called again after a call that deleted the source, it removes the only copy and
  raises (`files` without the caution `"sourceThere"`: `NothingLost`). `os.replace` would have
  overwritten the archive without the unlink.
* Without force, a file is deleted when there is any archive of its name, also one of
  an older content (without `"sameContent"`: `NothingLost`).
* Two calls for one path share the temporary file, and one renames what the other is
  still writing (without `"apart"`: `PublishedFrozen`, `ImplementsPair`).
* While one helper replaces a top-level link, another one of the same configuration that
  has just made the link and creates a directory below it makes a real top-level directory in the gap
  (`mkdir(parents=True)`). Later helpers then fail with "exists and is not a symlink"
  (`dirs` without the conjunct on `sub`: `SomebodyLinks`).
* `create_symlink` looks with `exists()`, which follows the link, and fails over a link to a lost target that
  `_create_dir_symlink` would replace (a disjunct of `Reason`).
* An exit waits for the feeder, and the feeder for a listener that has met the
  sentinel: with more records behind it than the pipe holds, the program does not end
  (`log_shutdown` without `FewLeft`: `ExitReturns`).
* `queue_maxsize` of `LogConfig` is read by nothing: the queue is not bounded.

Two more, which no run states because no document promises the contrary: `last_access` is set only on entry, so
that a key whose last block outlasted `max_idle_seconds` is evicted by that block's
own cleanup and its next user finds a full set of tokens; and a path that an
`IOHelper` has created once is returned from its cache although the directory may be
gone.

## 7. Not modelled

| part | why |
| --- | --- |
| `ParquetBackend` | one COPY into a file of a fresh name; what a failed one leaves is decided inside of DuckDB |
| a power failure | the code calls no `fsync()`; which of its writes reach the disk is not up to it |
| handlers that hang or raise, a listener thread that dies | a hanging handler also holds the lock that `h.flush()` takes, so the time limit of the shutdown does not help; the module has handlers that return |
| two `LogHelper`s of one name | they share a `logging` logger, and the second replaces the first one's queue handler |
| directories that are disabled or have no configuration | an exception before the first step |
| `DuckDbInetLpmIndex` | the longest match is found by PyTricia; what is left in the code is the choice between two tries, by a colon, and the order in which rows are inserted |
| `pydantic_to_arrow`, `TableConfig`, the text of schema SQL, IPC messages, IP helpers | conversions of one argument, with nothing to interleave; the writer sees from them that a row may be rejected |
| `get_with_retry`, `run_coro_sync` | one call each, of what is modelled or of the standard library |
| contents of rows, SQL text, log messages, config strings | no property depends on them |
| which statuses are retried, how Retry-After is parsed | any answer may be of any class, and any Retry-After may be given |
| NULL in key columns | a NULL equals nothing, so `ANTI JOIN`, `MERGE` and a UNIQUE constraint let rows with it through; such rows have no key in the sense of `RowTable`, and the properties about keys do not speak of them |
| memory | a buffer is not bounded in the code and no promise is made about it |
| a backend that hangs | `close()` then hangs as well, by the call of `shutdown(wait=True)` |

## 8. Plan

Done, in this order: the writer and its log; the limiter; requests
on top of it; the registry; writes on top of it; files; the log; writes to DuckDB,
and what both stores promise; directories. All of their safety properties are proved.

Left: the rate over several buckets of one key, as a property of the limiter (each
eviction gives a key a new bucket).

## 9. Running

    tlc -workers 2 -config writer_safety.cfg MCBufferedWriter
    tlapm BufferedWriter_proofs.tla
    tlapm RateLimiter_proofs.tla
    tlapm RowTable_proofs.tla
    tlapm Lake_proofs.tla
    tlapm DuckDbInsert_proofs.tla
    tlapm FileOps_proofs.tla
    tlapm IOHelper_proofs.tla
    tlapm LogHelper_proofs.tla

`PROJECT.json` names the module and the configuration of each run, the faults that each
property detects, and the source lines of every definition. The largest run,
`dirs`, has 3.3 million distinct states, `writer_safety` and `writer_faults` have between one and
1.6 million, `lake_insert` half a million, `writer_live` 360 thousand, the others fewer. `writer_live` takes
about three minutes, most of them for its liveness properties, the others two at most.
