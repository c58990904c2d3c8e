# Convex backend: verification of its core

The Convex backend runs JavaScript queries, mutations and actions against a
database with serializable transactions, and pushes new query results to
clients when a write changes what a query read. This directory models the parts
of it that keep state across threads, processes and failures: the commit path
and what follows it, the background workers that rewrite the database while it
is in use, the schedulers, and the protocol with the client. The models are in
TLA+; TLC checks them on small instances, and TLAPS proves theorems about some
of them for every instance.

Paths below are relative to `src/crates/`.

## The system

| Component | State | Operations | Hard behaviour |
|---|---|---|---|
| Lease (`postgres/src/lib.rs`) | the `leases` row, `lease_ts` of each process | `acquire`, `transact` | a deposed or dead process whose writes arrive late |
| Committer (`database/src/committer.rs`) | `pending_writes`, `persistence_writes`, `last_assigned_ts` | `start_commit`, `publish_commit`, `bump_max_repeatable_ts`, bootstrap messages | several writes in flight, landing in any order; failure with unknown outcome |
| Write log (`database/src/write_log.rs`) | `by_ts`, `purged_ts`, waiters | `append`, `is_stale`, `refresh_token`, `wait_for_higher_ts`, `enforce_retention_policy` | tokens older than the log; lost wake-ups |
| Snapshot manager (`database/src/snapshot_manager.rs`) | versions, `persisted_max_repeatable_ts` | `push`, `bump_persisted_max_repeatable_ts`, `overwrite_last_snapshot` | snapshots computed before the commits under them are durable |
| Start-up (`database/src/database.rs`) | `snapshot_ts` | `new_idle_repeatable_ts`, `Database::load` | another leader appears during the load |
| Subscriptions (`database/src/subscription.rs`) | per manager: channel, slab, `processed_ts`; per subscription: `Validity`, a watch channel | `subscribe`, `advance_log`, `remove`, `extend_validity` | managers that lag each other, slots that are reused, a trimmed log |
| Retention (`database/src/retention.rs`) | `SnapshotBounds`, `Checkpoint`, four persistence globals | `advance_timestamp`, `go_delete_indexes`, `go_delete_documents`, `checkpoint`, validation | crashes between every two steps, readers in progress, two deleters that depend on each other |
| Table iteration (`database/src/table_iteration.rs`) | cursor, buffered revisions | pages at increasing timestamps | rows that change under the walk |
| Index workers (`database/src/database_index_workers`) | index metadata, progress rows, queue of backfills | backfill, opt in to retention, own retention, finish | a snapshot copied beside commits and retention; failures between chunks |
| Tables (`database/src/table_registry.rs`, `table_summary.rs`) | `_tables` rows, registry, summaries, checkpoints | create, activate, delete, purge, bootstrap of summaries | summaries computed in the background and rebased on pending commits |
| Search and vector indexes (`database/src/search_index_workers`, `search`, `vector`) | segments, memory index, index metadata | flush, compact, fast-forward, bootstrap, query | deletes that race a compaction; restarts in the middle |
| Schema worker (`application/src/schema_worker`) | schema rows, registry, progress rows | push, validate, enforce on write | pushes that overtake each other while the documents are walked |
| Snapshot import (`application/src/snapshot_import`) | import rows, checkpoint, hidden tablet | attempt, batches, finalize, complete, cancel | an attempt that is resumed after some of it happened |
| Scheduled jobs (`application/src/scheduled_jobs`, `model/src/scheduled_jobs`) | job documents, `running_job_ids`, timers | schedule, cancel, execute, retry, collect | effects at most once over crashes and failed transactions |
| Cron jobs (`application/src/cron_jobs`, `model/src/cron_jobs`) | job documents, next runs | deploy, execute, skip, give up | a deployment while a run is in progress |
| Query cache (`application/src/cache`) | waiting and ready entries | plan, wait for a peer, execute, validate, put | peers that time out, are dropped or are of another identity |
| Sync worker (`sync`) | `SyncState`, update in progress, operation queue | modify query set, authenticate, mutate, act, transition | updates that the query set overtakes |
| Client (`convex`) | local and remote query set, ongoing requests | subscribe, call, receive, reconnect | a connection that ends with requests unanswered |
| Function execution, storage, HTTP, authentication | none of their own that matters here | | input and output |

How they interact: a client's transaction reads the snapshot manager's latest
version and is sent to the committer, which checks it against the write log and
its own pending writes, starts a persistence write under the lease, and when
that write is the head of the queue moves it to the write log and the snapshot
manager. Appending to the write log wakes the subscription managers, which
invalidate subscriptions, report the timestamp they have processed and trim the
log. Retention follows the persisted repeatable timestamp that the committer
bumps; readers everywhere validate what they read against retention. The
workers (indexes, search, schemas, imports, summaries, jobs) are clients of the
same database: they take a snapshot, compute for a long time, and commit into a
database that has moved on. The sync worker sits on top: it runs queries through
the query cache, holds their subscriptions and sends transitions to the client.

What must hold, by component: *commit path*: what is durable is serializable in
timestamp order, an answer to a client is true, a readable timestamp never
changes any more, a commit heard of is seen by whoever starts later.
*Subscriptions*: a subscription that looks valid is valid, one that is not says
so in the end, the log is not trimmed under a manager. *Retention*: a read that
passes validation is complete, nothing expired is skipped for ever, no index
row points to a deleted document. *Workers*: what they derive (an index, a
summary, segments, a validated schema, an imported table) is exactly what the
documents say at the timestamp it claims, and they finish. *Schedulers*: effects
at most once, nothing fails without a cause, nothing is forgotten. *Cache*: a
result is right for whoever is served it. *Sync*: the client sees all its queries
at one timestamp, never goes back, and every call is answered. PROJECT.json
lists the hazards line by line, with the properties that would catch each.

## Modules

| Module | Models | Run |
|---|---|---|
| `Committer` | lease, start-up, transactions, committer, persistence writes, failures | `committer_failover`, `progress` |
| `RepeatableStore` | the abstract specification `Committer` implements | |
| `CommitterInvariant`, `CommitterProofs` | the inductive invariant of `Committer` and its proofs | |
| `Subscriptions`, `SubscriptionsProofs` | write log, subscription managers, retention coordinator, clients; proofs | `subscriptions` |
| `Retention`, `RetentionProofs` | minimum snapshots, both deleters, checkpoints, readers; proofs | `retention` |
| `TableIteration`, `TableIterationProofs` | the walk of a snapshot beside changes; proofs | `table_scans` |
| `IndexBackfill`, `IndexBackfillProofs` | one index being built, beside commits and retention; proofs | `derived` |
| `IndexWorker` | the scheduling of several builds | `progress`, `index_worker` |
| `QueryCache`, `QueryCacheProofs` | concurrent requests that share results; proofs | `query_cache` |
| `JobQueue` | the abstract specification `ScheduledJobs` implements | |
| `ScheduledJobs` | table and executor of scheduled functions | `jobs` |
| `CronJobs` | table and executor of cron jobs | `jobs` |
| `JobExecutors`, `JobExecutorsProofs` | the two executors side by side; proofs about both | `jobs` |
| `SyncChannel`, `SyncWorker`, `ConvexClient` | messages; server side; client side | |
| `SyncSession`, `SyncSessionProofs` | client and workers composed; proofs | `sync`, `progress` |
| `TableLifecycle` | `_tables`, registry, summaries and their bootstrap, purge | `derived` |
| `SnapshotImport` | imports into one table | `workers`, `import_resumed` |
| `SearchIndex` | one text or vector index | `workers` |
| `SchemaValidation` | schemas, enforcement, the worker, imports | `table_scans` |
| `MC...` | instances for TLC | |

Every module has a `TypeOK` that documents its state. Where there are proofs it
is a theorem; no run spends time on it.

### Committer

One member of `Backends` is one incarnation of the server process; a restart is
another member. Persistence (`documents`, `max_repeatable`, `lease`) is shared.
Each backend has the memory of `Lease`, `SnapshotManager`, `WriteLog`,
`PendingWrites` and `Committer`, under the code's names. `txn[t]` is what the
client of an attempt knows; a retry is another attempt.

* Start-up is `AcquireLease` (or `LeaseRefused`), `IdleRepeatableTs`,
  `WriteIdleRepeatableTs`, `LoadSnapshot`, `FinishLoad` (or `LoadRace`). Each is
  one access to persistence, so another backend may act between any two.
* `Begin` reads the latest snapshot. `RejectCommit`/`StartCommit` are
  `Committer::start_commit` with `validate_commit`, the one step the committer
  loop runs for a commit message; the timestamp is consumed in both.
* A persistence write is an item of `persistence_writes`; `LandCommit` and
  `LandBump` make it durable, in any order, provided the lease still holds, and
  also after the backend died. `PublishCommit` and `PublishMaxRepeatableTs`
  handle the head of the queue (`FuturesOrdered`).
* `LeaseLost` is `transact`'s shutdown; `Crash` is a crash or the committer's
  return on a failed persistence write.

Abstractions: a document's value is the timestamp of the commit that wrote it
and a key stands for anything that reads and writes may share (an index
interval, a document), so conflicts and versions are exact while index keys are
not spelled out. Every written key is in the read set, as `Writes` ensures. The
clock is any timestamp that the code's `max` allows. A transaction that stays
open covers `begin_with_ts`. A lease transaction is atomic and fenced; the row
locks and statements that make it so in Postgres are not modelled.

### Subscriptions

`writes` is everything ever appended, `log` what `purged_ts` leaves. A manager's
loop (`run_worker`) is at `pc`: it selects, is registered as a waiter, advances,
reports to the coordinator (`UpdateProcessed`), trims (`EnforceRetention`): the
two locks of the coordinator and the log are two steps. `queue` is the bounded
request channel, `subscribers` the slab with its reused slots and sequence
numbers, `closed_subscriptions` the futures that wait for a client to leave. A
subscription's atomics (`valid_ts`, `invalid_ts`) and its watch channel are
separate, because splayed invalidation sets them at different times.
`extend_validity` is two steps, since it reads `current_ts` before the log.
Reads and writes overlap when they share a key; the interval and search maps
are not modelled.

### Retention

`history` is every revision; `documents` and `indexes` are what is left of the
two tables. `advance_timestamp` is computed, persisted and put in memory in
three steps, any of which may be the last. Both deleters have one definition,
parameterised by type, since `go_delete_indexes` and `go_delete_documents` have
the same shape: `StartDelete`, `TakeChunk`, `DeletePart` (the parts of a chunk in
any order), `DeleteReturns`, `CheckpointPersist`, `CheckpointMemory` and the
failures. `Restart` forgets the leader's memory. A reader reads the rows, then
validates, as leader (bounds in memory) or follower (bounds from persistence).

Abstractions: the scan for expired rows is one step (documents that appear
meanwhile are above its range); one index, always present; a request the leader
abandoned is not delivered after a restart.

### TableIteration, IndexBackfill, IndexWorker

`TableIteration` reads each page at a recent timestamp, drops what changed since
the snapshot and finds it again in the document log; each piece of the log is
read once and remembered for every registered table. `IndexBackfill` copies the
snapshot into an index in chunks that land in any order, reports a cursor
through a channel that its own failures do not empty, opts the index in to
retention, deletes what expired meanwhile and declares the index backfilled;
commits write to the index all the time, and the deleter of `Retention` meets a
set of indexes that grows. `IndexWorker` is the loop around them: pending
backfills, running tasks, reports. Timestamps there are told apart only when
somebody read them: a task reads the latest one in `Snapshot`, which another open
transaction may have read too, and initializes its indexes at it in `Initialize`;
every commit moves `clock` past the timestamps that were read.

### QueryCache

A request is in a `phase`: it plans under the lock (own a waiting entry, wait for a
peer, use a ready entry, or go), waits for a broadcast, executes at a timestamp,
validates the result against the write log, and completes. The lock is released
between planning and completing, and between the removal of a waiting entry and
the put of its result. A query's result is what the documents say at its
timestamp, its page, and whether it looked at the caller's identity, all of
which commits change. A waiter whose own time ends plans again (`StopWaiting`),
which counts as a fault. Sizes and recency are abstracted: a put may evict anything.

### ScheduledJobs, CronJobs, JobExecutors

A job is its document: state, next run, completion, parent, attempts. The
executor's memory is `running_job_ids`, its view of the next job due, and a task
per running job, at the step it has reached with the document it read. A
transaction that reads and writes only the job is one step, since its commit
validates what it read; the transaction of a mutation is long, so its begin and
its commit are two. Mutations schedule and cancel other jobs and themselves; an
action schedules while it runs. `Crash` forgets tasks, `StopBackend` keeps the
table and stops the executor, `Push` redeploys a function as another type, and
any transaction may fail. A retry is of the job that `execute_job` was given, so
after an action was started it finds a changed document and writes nothing. Times
of completion and the check for a canceled parent are at the begin of the
transaction. `started`, `committed`, `blamed` and `canceled` are
histories. One namespace; arguments and logs are abstracted. An action ends
within its timeout (`Tick` waits for it), which the runner enforces.

`CronJobs` has the same shape over `_cron_jobs` and `_cron_next_run`, with
deployments that change or delete a job while it runs, runs skipped because
they are late, and actions given up. A calendar schedule is a set of multiples
of a period; the logs are histories. `JobExecutors` has both under one roof; the
executors are two copies of the same code that share no document.

### SyncChannel, SyncWorker, ConvexClient, SyncSession

One iteration of the worker's `select` loop is one step. A query update begins
and finishes in two, so that the query set, the identity and the database move
between them. When a connection ends, the mutations it was asked to run may
still commit: the one that runs if the worker fails, all unanswered ones if the
network breaks. Mutations are deduplicated by session and request. The client is
its base client and two tasks with a queue and a response channel of one place;
the send buffer of the socket is part of the wire. `restarted` is a history
variable: the client has reconnected and replayed its state. `callers` is what the
application has of a call: the receiver of its result once `communicate` returned,
or an error if the worker failed before that (`HandOver`); the request is tracked
and resent in both cases. An identity is set once and not cleared; the limit on
mutations is the channel's size and the one being run, as if the worker always
polled it; the count of transitions includes those on the wire. Pings, journals, log lines,
chunked transitions, backoff and `max_observed_timestamp` (which one database
always passes) are left out.

### TableLifecycle, SnapshotImport

A commit's timestamp is its place in the log. The committer keeps a registry and
summaries per snapshot and applies each commit to the last pending one; the
summary worker computes from the indexes or from its checkpoint, forwards or
backwards along the log, writes a checkpoint and asks the committer to
`overwrite_last_snapshot` and recompute the pending ones. Conflicts of the
worker are by the rows it read; within a commit revisions come in commit order
also on a walk backwards, which may then fail and is tried again; a restart keeps any subset of what was pending.
One table name; a summary is its number of documents. `LongOutage = FALSE`
assumes that document retention stays behind the checkpoint.

`SnapshotImport` has the import rows with their states, one worker, attempts
that fail or stop anywhere, the checkpoint with the hidden tablet, batches,
`finalize_import`, `complete_import` and cancellation, the wait for the indexes of a
new tablet (`EnableIndexes`; that it ends is `IndexesBackfilled`), in the modes Append,
Replace and RequireEmpty, beside mutations. Rows have no `_id`; parsing, storage
and components are left out.

### SearchIndex

A timestamp is a position of the log of commits to the indexed table and to the
index metadata. A segment is a set of documents with the positions they were
indexed at and a set of deletes; the memory index is a window of the log. The
backfill flusher, the live flusher, the compactor and pushes write the metadata;
flushers and compactor build from metadata read earlier and reconcile under the
writer's lock. The bootstrap replays the log in the background and is handed to
the committer, which replays what was committed since. A conflict is a failed
job. Ranking, term statistics, filters, sizes, storage, version upgrades and the
restart from `last_segment_ts` are left out; document ids are not reused.

### SchemaValidation

A schema is the set of values it allows, the table one or two documents. Every
transaction runs on the snapshot it began at and commits if nothing it read was
written since, by key. Pushes submit, mark validated or failed, and activate;
mutations are checked against the active schema and fail the others; the worker
walks the documents at a timestamp with its progress rows; the table is dropped;
an import swaps a tablet in. The rows of one commit reach the registry in either
order. Deletion of old schemas is nondeterministic. `panic=abort` makes a panic
of the worker the end of the process.

## Runs

There are ten passing runs and two that find a violation (see Observations). A run
has the instances that answer one kind of question. Where it has several models
or several useful sets of bounds, the MC module declares them as
instances over their own variables and `Init` chooses the one that moves: they
share no state, so a product would say nothing more. Where one instance would be
too large, a `CONSTRAINT` (`Explored`) names regions of it, each closed under the
steps that lead to it, so that every state of a region is reached.

| Run | Instance | Checks |
|---|---|---|
| `committer_failover` | 2 keys, 2 transactions, 2 backends, timestamps to 3, log retention 0 | `Serializable`, `OutcomeTruthful`, `RealTimeOrder`, `RepeatableReads`, `ImplementsStore` |
| `subscriptions` | 2 managers with 1 subscription, or 2 subscriptions in one manager's slab; timestamps to 2, log retention 0, queue of 1 | `ManagersInRetention`, `ExtendSound`, `InvalidatedForCause`, `ValiditySound`, `EventuallyInvalidated` |
| `retention` | 1 document, 2 values, timestamps to 4 | `AcceptedReadsTrue`, `NoDanglingReference`, `NoSkippedRevision` |
| `derived` | index: 2 documents, 2 chunks at once, 1 change, 1 failure; tables: 2 tablets, 3 commits, 1 restart, minimum document timestamps 2 and 3 | `OwnRetentionComplete`, `BackfilledReadable`, `SummariesExact`, `PurgedOutOfRetention` |
| `query_cache` | 2 requests, 2 identities, 1 journal, 1 commit, 1 fault | `AnswersTrue`, `NoOrphanedEntry`, `EventuallyAnswered` |
| `jobs` | 2 jobs, 1 slot: with 1 crash or failed transaction, 1 redeployment and 1 stop to time 2 (`scheduled`), and without them to time 3 (`collected`); 1 cron job, 5 schedules, 2 deployments | `FailedForCause`, `TickRunsOnce`, `CancelIsRecursive`, `RefinesJobQueue`, `EventuallyEnds` |
| `sync` | 2 queries, 3 requests, 1 identity, 3 connections, in 5 regions | `ConsistentView`, `OncePerSession`, `ResultsMonotone` |
| `progress` | committer: 1 key, 2 transactions, 2 backends; session: 1 query, 1 request, 1 fault; index worker: 2 indexes of a table, 1 slot, 2 failures | `CommitsResolve`, `EventuallyFresh`, `EveryCallResolves`, `IndexesBackfilled` |
| `workers` | search, 2 documents, parts of 1: text with a failed build, a compaction and a restart at any time; text with a restart, a push and a fast-forward; vectors with replaced documents, compaction, a push and a failed build. Imports: 1 or 4 rows, 2 imports, 2 failures, 1 crash, 1 cancellation, 1 deletion | `SegmentsExact`, `SearchExact`, `BackfillEnds`, `NoPartialData`, `ImportEnds` |
| `table_scans` | walk: 3 documents in 2 tables, pages of 1, 2 commits; schemas: 1 or 2 documents, 2 or 3 schemas, 1 mutation, 3 pushes, in 5 instances | `YieldsSnapshot`, `DocumentsMatch`, `PendingSchemaDecided` |
| `index_worker` | 3 indexes of 2 tables, 2 slots, 2 failures, near backfills that begin at one timestamp | `CopiesBeforeRetention` (violated) |
| `import_resumed` | 2 imports of 1 row, 1 failure, 1 deletion | `NoIntermediateState` (violated) |

What they show: PROJECT.json says it for each run in a sentence; the comment at
each property says what the code promises and how it could fail.

Why the bounds are enough for the cases that matter. With two backends and
timestamps to 3, a deposed leader with a write in flight, a new leader that
loads, commits and bumps, and the arrival of the old write fit in one behaviour.
Two managers are the fewest that can disagree on what to trim; two subscriptions
the fewest that share a slot. Four timestamps let a document be written, changed,
deleted and written again while retention is in the middle of its history. Two
documents in chunks of one land in either order. Two requests are the fewest of
which one waits for the other and both may be dropped; two jobs let one schedule
or cancel the other while it runs. Three commits let a table be created, filled
and replaced while its summaries are being computed. One fault, placed anywhere,
is a crash between any two steps; a second one meets the state the first left
(`progress`, `workers`). Retention of jobs is 2, so a job that was canceled at
time 0 can be collected at time 3, before its action is completed. A table that
the first commit creates and the second drops is purged once the minimum document
timestamp is 3, while the snapshot of the third commit is pending. Each property has a mutant in PROJECT.json, the definition as a
plausible bug would have it, under which the same run fails: the bounds reach
every one of those bugs.

`CHECK_DEADLOCK FALSE` is used since all models may stop: bounded inputs run out
and every process may be down.

**Fairness.** `Committer` assumes, per backend, that a persistence write that can
commit does, that the head of the queue is published once durable (the loop's
`select_biased!` polls it before new messages) and that a lost lease is noticed
by the write that needs it; nothing of clients, bumps, start-up or crashes.
`Subscriptions`: each manager's task keeps running and the delay of a splayed
invalidation ends. `QueryCache`: each request's future is polled and a function
returns. `ScheduledJobs`: the executor's loop, its tasks and the clock go on;
`EventuallyEnds` is conditional on the backend being started at last. `Sync`: the
client's tasks, the server's reads and answers, and functions go on; nothing of
what other clients do, of the application, or of mutations whose connection is
gone. `IndexWorker`: the loop and the tasks go on; reports are not owed.
`SnapshotImport`: the worker goes on (`WorkerStep \/ Error`), and parsing and
completing are strongly fair, since their errors are transient and retried. `SearchIndex`: flushers pick up
work, end their jobs and release the lock, and the bootstrap ends.
`SchemaValidation`: the worker's task goes on. All of these are tasks spawned on
the runtime and supervised or retried in a loop, with timeouts around calls. In
`progress` and `workers` a liveness property has the fairness of its component as
its hypothesis. Where a run has both a
constraint and a temporal property (`subscriptions`, `jobs`), TLC checks the
property on behaviours that stay inside the constraint.

**Conditions.** Some properties hold under a condition that the run states:

* `jobs`: `ActionsStayActions`, no action in progress is redeployed as a mutation
  (else the job runs a second time, see Observations). The same condition is a
  hypothesis of the theorems.
* `jobs`: `EventuallyEnds` but for a job that waits behind one whose
  `complete_action` never ends (`Stuck`, see Observations). `TickRunsOnce` accounts
  for the ticks of cron jobs that were not redeployed since they were created.
* `derived`: `SummariesExact` with document retention behind the checkpoint.
* `workers`: `SegmentsExact` and `SearchExact` but for the old versions that a merge
  of vectors was seen to keep (`kept`, a history variable); `BackfillEnds` but for a
  backfill whose end the index manager refuses for ever after a restart in the
  middle of it (`Refused`); `NoPartialData` until a mutation deletes a document,
  which `import_resumed` shows to be needed; `ImportEnds` in mode Replace. Vector
  instances have no unindexable documents and no restart.
* `progress`: `EventuallyFresh` without a change of identity.
* `table_scans`: `DocumentsMatch` not in the instance where an import is resumed.
* `sync`: the part of `ConsistentView` on identity and completeness until the
  client first replays its state to a new session (`restarted`).

## Observations

Modelling met places where a comment, an assertion or a page of the
documentation says something else than the code does. Each was reproduced by
TLC with a property that states what the text says. Two of them are runs of this
project and findings in PROJECT.json: `index_worker` and `import_resumed`.

*Commit path and subscriptions.* `Lease::acquire` is documented to block while
there is another holder; it takes the row at once if its clock is higher, and
fails at once if not. `invalid_ts` is documented as the earliest conflicting
timestamp; a manager that lags behind a token replays entries the query has seen
and may report one of those.

*Retention and indexes.* `database/src/retention.rs:1249` says a pass of the
deleter covered all index rows up to the new cursor; the set of indexes is read
up to the persisted repeatable timestamp, so an index that opted in after it is
in neither count and rows that expired between the worker's own retention and
the checkpoint stay. `database_index_workers/mod.rs:87` says `pending` has no
index that is in progress; a failed task that moves its cursor queues a second
entry. `backfill_state.rs:17` says that once `retention_started` is set only
retention is left to do (`index_worker`). The snapshot of a backfill is the begin
timestamp of a transaction, so two tasks of a table may have equal cursors. If
both fail and the report of one comes late, the queue has both at that cursor,
which become one task, and one of them at a later cursor, which becomes another:
the one begins retention of the index while the other starts to copy it again. In
`IndexBackfill` no copy comes after retention started (`PhaseInv`), so its theorems
speak of indexes that one task works on at a time.

*Query cache.* `application/src/cache/mod.rs:462` says a hit bumps the token of
the cached result; `complete` puts only for the owner of a waiting entry, which
a hit never is.

*Scheduled jobs.* `run_function` decides by the type deployed now and
`handle_mutation` does not look at the job's state: an interrupted action
redeployed as a mutation is run again. `complete_action` retries until the state
has changed, but a collected document is an error to it, not a changed state: the
loop then never ends, and its slot is not freed (`Stuck`). *Cron jobs.* `CronModel::update` keeps `InProgress` under a
new time, so a run that never started is given up as interrupted.

*Sync.* The client draws a new session id for each connection, so a mutation
resent after a reconnect is not deduplicated; `RequestManager::restart` resends
in the reverse order of timestamps, and actions too; a transition to an older
timestamp resolves a completed mutation; messages left from an earlier reconnect
precede the refreshed query set; after a reconnect watchers may see old results
beside new ones. A call whose worker fails before its messages are flushed is an
error to the application, while its request stays tracked and is sent again, so
it may still take effect. A connection need not have opened for this: attempts that fail
leave replayed requests in the queue, and the second answer to a request that was
resent fails the client on its first connection.

*Tables.* The summary worker only computes from its checkpoint and cannot when
document retention has passed it; a tablet deleted while hidden keeps its
summary until the next start; a walk backwards does not bring back the entry of a
tablet dropped meanwhile; `hard_delete_tablet_document` counts rows it does not
delete.

*Search.* The vector `merge_deletes` handles removals only, so the old vector of a
document replaced during a compaction is live again; an update to an unindexable
vector leaves the old one; an index created or enabled during the bootstrap has
no entry until the next change; after a restart in the middle of a backfill the
assertion of `text_index_manager.rs:466` fails each time the backfill would end,
so it never does; a push that disables an index
during a merge is undone by it; the text `merge_deletes` fails on a document in a
segment outside the compaction.

*Schemas and imports.* `initial_schemas` is read anew in every attempt, so rows
of an earlier attempt are not checked against a schema pushed between; the
progress tracker divides by a threshold that is zero when the table was emptied;
progress rows of a schema overwritten meanwhile stay. `finalize_import` and
`complete_import` are two transactions: an attempt resumed between them inserts
into the active table rows that users deleted, which the documentation of imports
rules out (`import_resumed`); an attempt resumed from a checkpoint does not wait for
the indexes of its tablet and does not enable them; an append has no checkpoint and
repeats rows; an import canceled after its tables were activated reports failure
and keeps the data; RequireEmpty is checked before, not in, the transaction that
replaces the table.

## Proofs

### Committer

`CommitterAssumption` is all that is assumed of the constants: the bounds are
naturals and `NoBackend` is not a backend. Keys, transactions and backends are
arbitrary sets.

Every safety property the runs check of `Committer` is a theorem, for any number
of backends, transactions in flight, keys and timestamps. None of them is
inductive by itself. `CommitterInvariant` has the inductive invariant in four
layers, each proved on top of the ones before it, so that no step has to carry
more than it needs; `CommitterProofs` takes them in this order. TLC checked the
whole of it (`Inv`) on instances like that of `committer_failover` before it
was proved.

1. The module begins with `TypeCorrect`.
2. It goes on with `LocalInv`, which a backend keeps by itself. The queue
   of persistence writes and the pending writes describe the same commits in the
   same order, with at most one bump (`QueueInv`); every pending commit is above
   what is published, and a bump in the queue below every pending commit
   (`OrderInv`). Theorems `LocallyOrdered` and `AssertionsNeverFail`.
3. Then `FenceInv`, which relates backends to persistence.
   Lease timestamps are unique, so there is one holder (`LeaseInv`). Whatever a
   deposed backend has landed, and may therefore still publish, is at or below
   the holder's load timestamp (`DeposedInv`): this is why `latest_ts` of a
   deposed leader stays behind every later commit. `HolderInv` says that nobody
   but the holder moves the repeatable timestamp, which makes overwriting it
   monotone; `PublishedInv` that no durable commit hides between what a backend
   has published and what it will publish. Theorems `Fenced`,
   `ReadsAreRepeatable`, `MaxRepeatableNeverRegresses`.
4. `SerialInv`. The log has every durable commit of its
   window (`LogInv`), so a conflict check that finds none is complete;
   `HolderConflictInv` carries that check from `start_commit` to the moment the
   write lands; `PendingSnapshotInv` says which writes a snapshot computed in
   advance contains, in terms of pending commits alone, since those may not be
   durable yet. Theorems `CommitsAreSerializable`, `SnapshotsAreFaithful` and
   `CommitterImplementsStore`: a commit that lands is `RepeatableStore!Commit`, a
   bump that lands or a start-up's write is `Advance` or changes nothing, and
   every other step is a stutter.
5. It ends with `ClientInv`. A pending write belongs to one client,
   still waiting or told nothing certain (`TxnInv`); an acknowledged timestamp is
   at or below what the holder serves (`AckedInv`). Theorems
   `OutcomesAreTruthful` and `RealTimeOrderHolds`.

### Subscriptions

`SubscriptionsAssumption`: finitely many subscriptions and managers, at least one
manager, channels that hold at least one request, and naturals for the bounds
and for the retention of the log. Keys are an arbitrary set.

All four invariants of the run are theorems (`LogKeptForManagers`,
`ValidityIsSound`, `ExtensionsAreSound`, `InvalidationsHaveCause`), and so is an
action property that no run checks, `ValidityNeverMovesBack`. The argument has
three parts, each a group of conjuncts of `Inv`:

1. *The log reaches back far enough* (`LogOrder`, `TrimOrder`). What is trimmed is
   below what every manager reported. The coordinator's decision and the trim
   are two steps; the proof needs that a manager between them is still the
   slowest, which holds because it alone could report a newer timestamp for
   itself.
2. *A subscription is in one place* (`QueueInv`, `SlabInv`, `SlotInv`): one channel
   once, or one slot of one slab. Slots are reused, so a key that waits for its
   client may name a slot of somebody else; sequence numbers grow with every
   insertion, so such a key is older than the subscriber in the slot and
   `get_subscriber` does not find it.
3. *Clean up to what is processed* (`SubscriberInv`, `ExtendInv`). A subscriber has
   no overlapping write up to its manager's `processed_ts`; `advance_log` compares
   the rest. `extend_validity` reads `current_ts` before the log, and what it read
   stays clean as writes only come at higher timestamps.

### Retention

`RetentionAssumption`: `MaxTs` and the delays are naturals, `Deleted` is not a value.
Documents and values are arbitrary.

All three invariants of the run are theorems (`ReadsAreTrue`, `IndexNeverDangles`,
`NothingIsSkipped`), with two more that no run checks: `BoundsStayOrdered`, the
order of the bounds in persistence and in memory, and `CheckpointsAreTrue`, the
meaning of the cursor that the comment at `delete` states. The inductive
invariant (`Inv`), which TLC checked with timestamps to 4 and with two documents
before it was proved, says:

1. `BoundsInv`, `AdvanceInv`: channel, memory, persistence and repeatable
   timestamp are ordered at every step of `advance_timestamp`, and document
   retention is below what index retention has *confirmed in persistence*, not
   only below its checkpoint in memory, which is what survives a restart.
2. `DocumentsInv`, `IndexInv`: what is gone was replaced below the bound, or is a
   tombstone; and of a key of the index the oldest rows go first (`Cleared`). The
   second half is what `ReadsAreTrue` needs: were an older row left below a
   deleted tombstone, a scan would resurrect it.
3. `IndexDeleterInv`, `DocumentDeleterInv`: up to the cursor everything obsolete is
   cleared; from there to the end, what is not cleared is in the rest of the scan
   or in the chunk. A chunk may split a timestamp, hence `new_cursor` is one less
   than its last timestamp. A scan is complete because documents have expired
   only below the confirmed cursor (`ScannedPresent`), which is the circular
   dependency of the two deleters made precise.
4. `ReaderInv`: a read that came back wrong is below the bound in memory at once
   and ever after, so both validators reject it.

### Query cache

`QueryCacheAssumption`: at least one identity, and naturals for the number of
pages and the bounds. Requests are an arbitrary set.

Both invariants of the run are theorems, `AnswersAreTrue` and `EntriesAreOwned`,
and so is `CacheIsSound`, what the cache itself promises. `QueryCacheProofs` has
the inductive invariant; TLC checked it first on the instance of `query_cache`.

1. *What is right* (`RightFor`, `RightUnder`). A result is right for a key from
   the timestamp it was computed at to that of its token. Where
   `cache_keys_after_execution` lets it be stored it is right for whoever looks
   there (`StoredWhereRight`), and what a request finds under one of its keys is
   right for the request (`FoundWhereRight`).
2. *One interval per version* (`HistoryInv`). A version of what the query reads is
   seen in one interval of timestamps, so a token that can be refreshed covers
   everything in between (`RefreshedIsRight`); commits leave the past alone, so
   what is right stays right (`RightStays`).
3. *Peers agree on the key* (`HolderInv`). The owner of a waiting entry and
   everyone who waits for it have the same stored key, which is why
   `is_for_peers` may decide for all of them with the owner's. That a peer can
   find the owner at all is `NoOrphanedEntry`, so the two are proved together.
4. `RequestInv` and `CacheInv` carry these facts through the phases of a request
   and the entries of the cache.

### Table iteration

`TableIterationAssumption`: documents are numbered from 1, every one is in a
table, there is a table, and page size and the last timestamp are positive. It is
a hypothesis of the theorems, and the run evaluates it for its instance.

`WalkYieldsTheSnapshot` is the invariant of the run; `IteratorChecksHold` says that
the `anyhow::ensure!` calls of the iterator cannot fail. The argument:

1. *Exactly one way to a row* (`UnchangedRows`). A document of the snapshot is
   either unchanged at the timestamp of the page, and then the page has it as it
   was, or it has an entry in the log between the two.
2. *The first entry leads back* (`FirstEntryLeads`, `RevisionFound`). `prev_ts` links
   each revision to the one before it (`DocumentsInv`), so the first entry after the
   snapshot names the revision of the snapshot; later entries do not, and the
   buffers keep the first (`BufferInv`).
3. *The page is a prefix* (`PageIs`). The `page_size` least keys beyond the cursor are
   all the keys up to the last of them, and all there are when the page is short.
4. `WalkInv`: what was yielded is the snapshot up to the cursor, and the skipped keys
   are the changed rows beyond it. `MergePage` reads the log up to the timestamp of
   the page (`TimeInv`), which makes 1 exhaustive.

### Index backfill

`IndexBackfillAssumption`: naturals for the bounds and the delay, at least one
chunk in flight, and a first timestamp, which the initial documents need. Both
invariants of `IndexBackfill` that the run checks are theorems,
`BackfilledIndexReadable` and `OwnRetentionIsComplete`. The argument, in the
conjuncts of `Inv`:

1. *Where rows come from* (`RowsInv`). A row is from a commit after
   `created_lower_bound`, or the copy of a revision that was current there. This is
   why retention may begin at that timestamp: revisions before it made nothing
   obsolete that the index ever held.
2. *Commits since then need no copy* (`UpdatesInv`). Each row of such a commit is in
   the index, unless retention deleted it, and then with every older row of its
   key: deleting only the tombstone would bring a document back.
3. *A cursor holds for later snapshots* (`CoverInv`, `CoveredLater`). The cursor in
   the metadata may come from a task that died and copied an older snapshot. It
   still says that everything up to it is there, because what is current in the
   later snapshot and older than the index was current in the earlier one.
   `Reached` collects the cursors that may be in use: persisted, in the channel, or
   the task's own.
4. *No copy after retention* (`PhaseInv`). Retention starts when nothing is left to
   copy, so a deleted row is not written again by a late chunk.

### Scheduled jobs

`ScheduledJobsAssumption`: jobs are finitely many positive numbers, limits and
bounds are naturals, at least one job runs at a time. A transaction moves
the document of each job along one edge of `JobStep` (absent to pending, pending to
in progress, success, failed or canceled, and so on), whoever runs it and
whatever it read before; the proof shows this once for each action (`NextJobs`)
and derives everything about effects from the graph. The conjuncts that connect
the executor to it are `TasksHoldLive` (what a task read when it started was live)
and, for the results about running once, `MutationsArePending`.

`FailuresHaveCause`, `StateAlwaysTellsRuns` and `CanceledJobsNeverRun` hold without
a condition. `JobsRunAtMostOnce` and the refinement `JobsImplementQueue` have the
hypothesis `[]ActionsStayActions`, the condition of the run: without it they are
false (see Observations).

`CancellationIsInherited` (`CancelIsRecursive`) has the hypothesis
`ActionTimeout < Retention`, which the defaults of both knobs satisfy by far. The
child of an action looks at the document of its parent, and the garbage collector
may delete that of a canceled one; `ActionsInTime` says why it does not while the
action runs: the document cannot be ended before the action began, and the clock
does not pass the time limit.

### Cron jobs

`TicksRunOnce` states `TickRunsOnce`, for any number of cron jobs, specifications,
deployments, crashes and failed transactions. `CronAssumption`: specifications have
a positive period and one of the two kinds of schedule, bounds are naturals. The
invariant `CronInv` adds to the types what a cron job knows of its own past:

1. *Runs are behind the previous run* (`CronPassed`): a tick that ran is at or
   before `prev_ts`, or it is the action in progress, at `next_ts`. As `next_ts` is
   always later than `prev_ts`, the tick of a pending run has not run. A deployment
   may break this by moving the next run under an action in progress, and those
   cron jobs are `moved`, the exception in the property.
2. *What ran at the tick in progress is an action* (`CronPassed`, on the type): a
   deployment may turn the run in progress into one of a mutation, which then
   commits at the same tick, but no mutation has committed there before.
3. *Tasks act on what they read* (`CronTasks`): a task runs a job that was due, and
   only actions in progress complete as actions, so with the check that the cron
   job is unchanged, completing the run completes the tick that ran.
4. *What is passed is accounted for* (`CronStarted`, `CronAccounted`): every
   multiple of the interval before `next_ts`, from the first run on, has run or is
   in a log. Completing a run moves `next_ts` one period past the last run that is
   in the past, so by arithmetic on multiples no tick lies between the ones it logs.

A deployment gives a created cron job an id that no run has, so both parts start
over with no history.

### Client and sync worker

Assumed of the constants: tokens, query ids and requests are finite, ids and
requests are numbered from 1, identities are positive numbers, search tokens are
tokens, and the limits are as large as the code needs them. So the theorems hold
for any number of queries, subscribers, requests, identities, connections, faults
and buffered transitions.

All three safety properties of the `sync` run are theorems. `MutationsOnce`
(`OncePerSession`) needs types only: a mutation commits after it found no record of
its session and request, in the same step. The other two, `ViewsConsistent`
(`ConsistentView`) and `ResultsNeverOlder` (`ResultsMonotone`), rest on
`SessionInvariant`, which relates the two ends over everything on the wire. TLC
checked it with the state it quantifies over as a history variable. Two things in
it are in no variable, so `SessionInv` says that they exist:

* `tok`, the token of every query id the client ever gave out, also of those no
  longer subscribed, of which old messages still speak;
* `vs`, one view for each place in the stream of messages to the client: what the
  client shows once it has handled the messages before it, and a bound on the
  timestamps of the results handed out by then.

The argument, in the conjuncts of `Core`:

1. *Every message leads from view to view* (`Chain`, `Link`). A `Transition` takes a
   good view at its start version to a good view at its end version; at a new
   connection the chain goes back to the empty view, and the bound does not, which
   is why results never get older over connections: an update always goes to the
   latest timestamp. A view is good (`Good`) if its results are those of one
   identity at its timestamp.
2. *The worker's hashes are the last view of the chain* (`Serves`). Between updates
   they are equal (`Idle`). During one (`Busy`) they are but for the queries it
   removes; a query that keeps its subscription has a hash of the old timestamp, so
   that extending the subscription makes it one of the new timestamp
   (`Refreshable`), and a new identity leaves no subscription to extend.
3. *Messages to the worker come in order* (`Line`, `Precedes`, `Follows`): a query is
   added once, and again only by the replay of a reconnect, which is based on
   version 0. So a worker that already has queries rejects what the replay for
   another session adds.
4. *Until the first reconnect the worker's knowledge is the client's past* (`Known`,
   `PipelineOK`): every subscribed query is with the worker or on its way, and
   versions only fall behind, so a view at the client's versions is of its identity
   and lacks no query.

The proof corrected the model. `ConsistentView` used to say "on the first
connection" where it now says `~restarted`; that was no invariant, and held in the
run because its instances allowed one fault. With two, both attempts to connect
fail, the client replays twice, the request queued twice is answered twice, and
the second answer fails the client, which reconnects and still has a transition
of its first connection before it: TLC found this at once with `MaxFaults = 2`.

### Only model-checked

Liveness (`CommitsResolve`, `EventuallyInvalidated`, `EventuallyAnswered`,
`EventuallyEnds`, `EventuallyFresh`, `EveryCallResolves`, `IndexesBackfilled`,
`ImportEnds`, `BackfillEnds`, `PendingSchemaDecided`) needs fairness and `ENABLED`, which the provers do not
handle. The other properties without a theorem rest on what a fold or a filter
over data returns, an induction that is out of their reach as well:
`SummariesExact` and `PurgedOutOfRetention` compare the state with a fold over the
log, the segments of `SegmentsExact` and `SearchExact` are built by folds over
parts of it, `NoPartialData` needs that a tablet with all the rows of a file counts at least as many documents,
and `DocumentsMatch` the registry after the rows of a commit were applied one by
one. These are checked on the
instances above. A theorem speaks of every instance of the model, with the abstractions
listed for its module.

## Not modelled

Transactions' own code (reads, nested writes, limits) is sequential. SQL
batching, retries inside a connection, usage tracking, metrics and tracing are
left out. MySQL repeats Postgres' contract and SQLite is a single process.
Snapshot export is a walk (`TableIteration`) into a file. `async_lru` has the
shape of the query cache. Function execution, file storage, log streaming,
authentication and HTTP have no concurrent state of this kind. The repository is
a product with 249 thousand lines of Rust, most of them such code around the
core; the map of PROJECT.json covers the files that carry the protocols above.

## Plan

1. Proofs for the components that have none, which first need a formulation without
   folds over sequences: the builders of `SearchIndex` (`SegmentsExact`) and the
   summaries of `TableLifecycle`.
2. `IndexBackfill` with two tasks on one index, as `index_worker` shows them: whether
   rows that are copied again after retention started can be read.
