---------------------------- MODULE IndexBackfill ----------------------------
(***************************************************************************)
(* The backfill of one new database index (database_index_workers) beside  *)
(* commits that already write to it and index retention that deletes from  *)
(* it (retention.rs).  The worker copies the documents of a snapshot in    *)
(* chunks that land in any order, checkpoints a cursor through a channel   *)
(* that its own failures do not empty, opts the index into retention,      *)
(* deletes what expired meanwhile, and only then declares it backfilled.   *)
(* The task may fail, and the process restart, between any two steps.      *)
(*                                                                         *)
(* A chunk is one document.  The snapshot is read by a TableIterator, which*)
(* yields it exactly (TableIteration).  Advancing the minimum snapshot and *)
(* a pass of the deleter are coarser than in Retention, which has their    *)
(* failures; here they meet a changing set of indexes.                     *)
(***************************************************************************)
EXTENDS Naturals, FiniteSets, FiniteSetsExt, Sequences

CONSTANTS
  NumIds,      \* documents 1..NumIds of the table, in by_id order
  NumValues,   \* the indexed field holds 1..NumValues
  Workers,     \* INDEX_BACKFILL_WORKERS: chunks being written at once
  Delay,       \* INDEX_RETENTION_DELAY
  MaxChanges,  \* bound: changes to documents after the index was added
  MaxTs,       \* bound: the largest timestamp
  MaxFailures  \* bound: failed tasks and restarts

Ids == 1..NumIds
Timestamps == 0..MaxTs

\* The value of a tombstone.
Deleted == 0

ASSUME IndexBackfillAssumption ==
  /\ NumIds \in Nat /\ NumValues \in Nat /\ Workers \in Nat \ {0}
  /\ Delay \in Nat /\ MaxChanges \in Nat /\ MaxTs \in Nat \ {0} /\ MaxFailures \in Nat

VARIABLES
  documents,    \* revisions: [id, ts, value]
  rows,         \* the rows of the index: [id, value, ts, deleted]
  index,        \* its metadata in _index
  progress,     \* its document in _index_backfills
  latest_ts, repeatable_ts,
  min_snapshot, \* min_index_snapshot_ts
  deleter,      \* go_delete_indexes
  task,         \* backfill_tablet
  channel,      \* progress_rx
  failures

storeVars == <<documents, latest_ts, repeatable_ts>>
retentionVars == <<min_snapshot, deleter>>
vars == <<storeVars, rows, index, progress, retentionVars, task, channel, failures>>

Revisions == [id : Ids, ts : Timestamps, value : 0..NumValues]

NoTask == [step |-> "idle", snapshot_ts |-> 0, written |-> {}, cursor |-> 0,
           sent |-> 0, begin_ts |-> 0, min_ts |-> 0]

TypeOK ==
  /\ documents \subseteq Revisions
  /\ rows \subseteq [id : Ids, value : 1..NumValues, ts : Timestamps, deleted : BOOLEAN]
  /\ index \in [state : {"none", "backfilling", "backfilled"}, created_lower_bound : Timestamps,
                retention_started : BOOLEAN, started_ts : Timestamps]
  /\ progress \in [snapshot_ts : Timestamps, cursor : {0} \cup Ids]
  /\ latest_ts \in Timestamps /\ repeatable_ts \in Timestamps
  /\ min_snapshot \in Timestamps
  /\ deleter \in [step : {"wait", "pass"}, cursor : Timestamps, end : Timestamps,
                  checkpoint : Timestamps,
                  before : BOOLEAN, known : BOOLEAN]
  /\ task \in [step : {"idle", "initialize", "copy", "retention", "min", "delete", "finish"},
               snapshot_ts : Timestamps, written : SUBSET Ids, cursor : {0} \cup Ids,
               sent : {0} \cup Ids, begin_ts : Timestamps, min_ts : Timestamps]
  /\ channel \in Seq(Ids)
  /\ failures \in 0..MaxFailures

\* One transaction inserted what the table holds; the index does not exist.
Init ==
  /\ \E live \in SUBSET Ids : \E values \in [live -> 1..NumValues] :
       documents = {[id |-> id, ts |-> 1, value |-> values[id]] : id \in live}
  /\ rows = {}
  /\ index = [state |-> "none", created_lower_bound |-> 0,
              retention_started |-> FALSE, started_ts |-> 0]
  /\ progress = [snapshot_ts |-> 0, cursor |-> 0]
  /\ latest_ts = 1 /\ repeatable_ts = 1 /\ min_snapshot = 0
  /\ deleter = [step |-> "wait", cursor |-> 0, end |-> 0, checkpoint |-> 0, before |-> FALSE,
                known |-> FALSE]
  /\ task = NoTask /\ channel = <<>> /\ failures = 0

-----------------------------------------------------------------------------
(* Commits.                                                                *)

\* The revision of id current at ts: a set of at most one.
Current(id, ts) ==
  {r \in documents : r.id = id /\ r.ts <= ts /\
     \A q \in documents : q.id = id /\ q.ts <= ts => q.ts <= r.ts}

\* What the table holds at ts: <<id, value>>.
DocumentsAt(ts) ==
  {<<r.id, r.value>> : r \in {q \in UNION {Current(id, ts) : id \in Ids} : q.value # Deleted}}

\* The commit timestamp of the next transaction.
commit_ts == latest_ts + 1

\* index_updates: the rows of a revision that replaces prev.
index_updates(rev, prev) ==
  {[id |-> rev.id, value |-> p.value, ts |-> rev.ts, deleted |-> TRUE] :
     p \in {q \in prev : q.value # rev.value}}
  \cup {[id |-> rev.id, value |-> v, ts |-> rev.ts, deleted |-> FALSE] :
          v \in {rev.value} \ {Deleted}}

\* A transaction changes one document; an index that exists gets its rows,
\* whatever its state.
Commit(id, value) ==
  LET prev == Current(id, latest_ts)
      rev == [id |-> id, ts |-> commit_ts, value |-> value] IN
  /\ commit_ts <= MaxTs
  /\ Cardinality({r \in documents : r.ts > 1}) < MaxChanges
  /\ \A p \in prev : p.value # Deleted
  /\ documents' = documents \cup {rev}
  /\ rows' = IF index.state = "none" THEN rows ELSE rows \cup index_updates(rev, prev)
  /\ latest_ts' = commit_ts
  /\ UNCHANGED <<repeatable_ts, index, progress, retentionVars, task, channel, failures>>

\* A transaction that changes metadata only.
MetadataCommit ==
  /\ commit_ts <= MaxTs
  /\ latest_ts' = commit_ts
  /\ UNCHANGED <<documents, repeatable_ts>>

\* add_application_index: created_lower_bound is the begin timestamp of the
\* transaction that adds the index.
AddIndex ==
  /\ index.state = "none"
  /\ MetadataCommit
  /\ index' = [index EXCEPT !.state = "backfilling", !.created_lower_bound = latest_ts]
  /\ UNCHANGED <<rows, progress, retentionVars, task, channel, failures>>

BumpRepeatable ==
  /\ repeatable_ts < latest_ts
  /\ repeatable_ts' = latest_ts
  /\ UNCHANGED <<documents, latest_ts, rows, index, progress, retentionVars, task,
                 channel, failures>>

-----------------------------------------------------------------------------
(* The worker.                                                             *)

\* run and begin_backfill: the task starts where the metadata says.  With a
\* cursor it resumes in the old snapshot, otherwise it takes a new one.
StartTask ==
  /\ task.step = "idle" /\ index.state = "backfilling"
  /\ task' =
       IF index.retention_started THEN [NoTask EXCEPT !.step = "retention"]
       ELSE IF progress.cursor # 0
         THEN [NoTask EXCEPT !.step = "copy", !.snapshot_ts = progress.snapshot_ts,
                             !.cursor = progress.cursor, !.sent = progress.cursor]
       ELSE [NoTask EXCEPT !.step = "initialize", !.snapshot_ts = latest_ts]
  /\ UNCHANGED <<storeVars, rows, index, progress, retentionVars, channel, failures>>

\* initialize_database_index_backfill resets the progress to the snapshot.
InitializeBackfill ==
  /\ task.step = "initialize"
  /\ MetadataCommit
  /\ progress' = [snapshot_ts |-> task.snapshot_ts, cursor |-> 0]
  /\ task' = [task EXCEPT !.step = "copy"]
  /\ UNCHANGED <<rows, index, retentionVars, channel, failures>>

\* The documents still to be copied, in id order.
ToCopy ==
  {d[1] : d \in {e \in DocumentsAt(task.snapshot_ts) :
                   e[1] > task.cursor /\ e[1] \notin task.written}}

\* A copied document is indexed at the timestamp of its own revision.
copy_row(r) == [id |-> r.id, value |-> r.value, ts |-> r.ts, deleted |-> FALSE]

\* A chunk lands; up to Workers chunks are in flight, results keep order.
WriteChunk(id) ==
  /\ task.step = "copy" /\ id \in ToCopy
  /\ Cardinality({i \in ToCopy \cup task.written : i < id /\ i > task.sent}) < Workers
  /\ rows' = rows \cup {copy_row(r) : r \in Current(id, task.snapshot_ts)}
  /\ task' = [task EXCEPT !.written = @ \cup {id}]
  /\ UNCHANGED <<storeVars, index, progress, retentionVars, channel, failures>>

\* Fault: a chunk is reported when it is done, before earlier ones are.
reportable_unordered(id) == id \in task.written

\* buffered: a chunk's result is seen after those of all chunks before it.
reportable(id) == id \in task.written /\ \A i \in ToCopy : i > id

\* The progress interval has passed: the cursor is sent to the worker.
SendProgress(id) ==
  /\ task.step = "copy" /\ reportable(id) /\ id > task.sent
  /\ channel' = Append(channel, id)
  /\ task' = [task EXCEPT !.sent = id]
  /\ UNCHANGED <<storeVars, rows, index, progress, retentionVars, failures>>

\* The worker writes a cursor it received, whichever task sent it; or skips it
\* while table summaries are bootstrapping.
ReceiveProgress ==
  /\ channel # <<>>
  /\ channel' = Tail(channel)
  /\ \/ /\ MetadataCommit
        /\ progress' = [progress EXCEPT !.cursor = Head(channel)]
     \/ UNCHANGED <<storeVars, progress>>
  /\ UNCHANGED <<rows, index, retentionVars, task, failures>>

\* Fault: retention runs from the snapshot that was copied.
retention_begin_at_snapshot == progress.snapshot_ts

\* begin_retention returns index_created_lower_bound.
retention_begin == index.created_lower_bound

\* begin_retention: the index is opted into retention.
BeginRetention ==
  /\ \/ task.step = "copy" /\ ToCopy = {}
     \/ task.step = "retention"
  /\ index.state = "backfilling"
  /\ MetadataCommit
  /\ index' = [index EXCEPT !.retention_started = TRUE, !.started_ts = commit_ts]
  /\ task' = [task EXCEPT !.step = "min", !.begin_ts = retention_begin]
  /\ UNCHANGED <<rows, progress, retentionVars, channel, failures>>

\* run_retention reads the minimum snapshot.
ReadMinSnapshot ==
  /\ task.step = "min"
  /\ task' = [task EXCEPT !.step = "delete", !.min_ts = min_snapshot]
  /\ UNCHANGED <<storeVars, rows, index, progress, retentionVars, channel, failures>>

\* expired_index_entries: what revisions in from..(to - 1) make deletable: a
\* key of the index and the last timestamp to delete.
expired_index_entries(from, to) ==
  UNION {LET prev == {p \in Current(r.id, r.ts - 1) : p.value # Deleted} IN
         {<<r.id, p.value, p.ts>> : p \in prev}
         \cup {<<r.id, p.value, r.ts>> : p \in {q \in prev : q.value # r.value}} :
         r \in {q \in documents : from <= q.ts /\ q.ts < to}}

\* The rows that deleting these entries removes: theirs and older ones.
ExpiredRows(entries) ==
  {row \in rows : \E e \in entries :
     e[1] = row.id /\ e[2] = row.value /\ row.ts <= e[3]}

\* delete_all_no_checkpoint, one entry at a time.
DeleteEntry(e) ==
  /\ task.step = "delete"
  /\ e \in expired_index_entries(task.begin_ts, task.min_ts)
  /\ ExpiredRows({e}) # {}
  /\ rows' = rows \ ExpiredRows({e})
  /\ UNCHANGED <<storeVars, index, progress, retentionVars, task, channel, failures>>

\* finish_backfill.
FinishBackfill ==
  /\ task.step = "delete"
  /\ ExpiredRows(expired_index_entries(task.begin_ts, task.min_ts)) = {}
  /\ index.state = "backfilling"
  /\ MetadataCommit
  /\ index' = [index EXCEPT !.state = "backfilled"]
  /\ task' = NoTask
  /\ UNCHANGED <<rows, progress, retentionVars, channel, failures>>

\* The task fails; the worker starts another one.
TaskFails ==
  /\ task.step # "idle" /\ failures < MaxFailures
  /\ task' = NoTask /\ failures' = failures + 1
  /\ UNCHANGED <<storeVars, rows, index, progress, retentionVars, channel>>

-----------------------------------------------------------------------------
(* Index retention.                                                        *)

\* accumulate_index_document: whether the index is in all_indexes once _index
\* has been read up to ts, exclusive.
accumulates(ts) == index.retention_started /\ index.started_ts < ts

AdvanceMinSnapshot ==
  /\ repeatable_ts >= Delay /\ min_snapshot < repeatable_ts - Delay
  /\ min_snapshot' = repeatable_ts - Delay
  /\ UNCHANGED <<storeVars, rows, index, progress, deleter, task, channel, failures>>

\* A pass of go_delete_indexes: the set of indexes is brought up to date.
StartPass ==
  /\ deleter.step = "wait" /\ deleter.cursor + 1 < min_snapshot
  /\ LET known == deleter.known \/ accumulates(repeatable_ts) IN
     deleter' = [deleter EXCEPT !.step = "pass", !.end = min_snapshot,
                                !.before = known, !.known = known]
  /\ UNCHANGED <<storeVars, rows, index, progress, min_snapshot, task, channel, failures>>

\* delete, one entry at a time.
PassDeletes(e) ==
  /\ deleter.step = "pass" /\ deleter.before
  /\ e \in expired_index_entries(deleter.cursor, deleter.end)
  /\ ExpiredRows({e}) # {}
  /\ rows' = rows \ ExpiredRows({e})
  /\ UNCHANGED <<storeVars, index, progress, retentionVars, task, channel, failures>>

\* The cursor advances unless an index was added meanwhile.
pass_cursor(known) ==
  IF known = deleter.before THEN deleter.end - 1 ELSE deleter.cursor

\* The end of a pass; the rate limiter decides whether it is checkpointed.
EndPass ==
  /\ deleter.step = "pass"
  /\ deleter.before =>
       ExpiredRows(expired_index_entries(deleter.cursor, deleter.end)) = {}
  /\ LET known == deleter.known \/ accumulates(repeatable_ts)
         cursor == pass_cursor(known) IN
     \E saved \in {deleter.checkpoint, cursor} :
       deleter' = [deleter EXCEPT !.step = "wait", !.known = known, !.cursor = cursor,
                                  !.end = 0, !.checkpoint = saved]
  /\ UNCHANGED <<storeVars, rows, index, progress, min_snapshot, task, channel, failures>>

\* The process restarts.  The load has bumped the repeatable timestamp, and
\* retention reads _index up to the latest timestamp before it starts.
Restart ==
  /\ failures < MaxFailures /\ failures' = failures + 1
  /\ task' = NoTask /\ channel' = <<>>
  /\ repeatable_ts' = latest_ts
  /\ deleter' = [deleter EXCEPT !.step = "wait", !.end = 0, !.cursor = deleter.checkpoint,
                                !.known = accumulates(latest_ts)]
  /\ UNCHANGED <<documents, latest_ts, rows, index, progress, min_snapshot>>

Next ==
  \/ \E id \in Ids, value \in 0..NumValues : Commit(id, value)
  \/ AddIndex \/ BumpRepeatable
  \/ StartTask \/ InitializeBackfill
  \/ \E id \in Ids : WriteChunk(id) \/ SendProgress(id)
  \/ ReceiveProgress
  \/ BeginRetention \/ ReadMinSnapshot \/ FinishBackfill \/ TaskFails
  \/ \E e \in Ids \X (1..NumValues) \X Timestamps : DeleteEntry(e) \/ PassDeletes(e)
  \/ AdvanceMinSnapshot \/ StartPass \/ EndPass \/ Restart

Spec == Init /\ [][Next]_vars

-----------------------------------------------------------------------------
(* Properties.                                                             *)

\* What an index scan at ts returns.
IndexAt(ts) ==
  {<<row.id, row.value>> : row \in {x \in rows : x.ts <= ts /\ ~x.deleted /\
     \A y \in rows : y.id = x.id /\ y.value = x.value /\ y.ts <= ts => y.ts <= x.ts}}

\* A backfilled index can be read: at every timestamp from the copied snapshot
\* on that retention still allows, it returns exactly the documents of the
\* table, however the copy was interrupted, resumed with a cursor of another
\* task and interleaved with commits and deletions ("index snapshot reads at
\* >=ts are valid").
BackfilledReadable ==
  index.state = "backfilled" =>
    \A ts \in Max({progress.snapshot_ts, min_snapshot})..latest_ts :
      IndexAt(ts) = DocumentsAt(ts)

\* The rows that revisions in from..(to - 1) made deletable are gone.
Purged(from, to) == ExpiredRows(expired_index_entries(from, to)) = {}

\* The worker's own retention is complete: when it is about to declare the
\* index backfilled, nothing that expired before the minimum snapshot it read
\* is left from the whole life of the index.
OwnRetentionComplete ==
  task.step = "delete" /\ Purged(task.begin_ts, task.min_ts) => Purged(0, task.min_ts)

==============================================================================
