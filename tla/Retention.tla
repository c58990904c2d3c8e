------------------------------ MODULE Retention ------------------------------
(***************************************************************************)
(* Retention (database/src/retention.rs): one task raises the minimum      *)
(* snapshot timestamps, in persistence first and then in memory; one task  *)
(* deletes expired index rows, another expired document revisions, in      *)
(* chunks whose parts are separate transactions; readers on the leader and *)
(* on followers read first and validate their snapshot afterwards.         *)
(*                                                                         *)
(* The leader may stop between any two steps and restart from what is      *)
(* persisted.  That a deposed leader writes nothing is shown in Committer; *)
(* here a leader stops when its successor starts.                          *)
(***************************************************************************)
EXTENDS Naturals, FiniteSets, FiniteSetsExt

CONSTANTS
  Ids,      \* documents
  Values,   \* what an indexed field of a document holds
  Deleted,  \* the value of a tombstone
  MaxTs,    \* bound: the largest timestamp
  Delay     \* INDEX_ and DOCUMENT_RETENTION_DELAY, by retention type

RetentionTypes == {"index", "document"}

Timestamps == 0..MaxTs

ASSUME RetentionAssumption ==
  /\ Deleted \notin Values
  /\ MaxTs \in Nat
  /\ Delay \in [RetentionTypes -> Nat]

VARIABLES
  history,     \* every revision ever committed: [id, ts, value, prev_ts]
  documents,   \* the revisions still in the documents table
  indexes,     \* the rows of the indexes table: [id, value, ts, deleted]
  latest_ts,   \* timestamp of the last commit
  repeatable_ts, \* persisted_max_repeatable_ts
  min_persisted, \* the *RetentionMinSnapshotTimestamp globals, by type
  confirmed,   \* the *RetentionConfirmedDeletedTimestamp globals, by type
  bounds,      \* SnapshotBounds in the leader's memory, by type
  checkpoint,  \* Checkpoint in the leader's memory, by type (0: None)
  watch,       \* the min snapshot channels, by type
  advance,     \* go_advance_min_snapshot: its step, type and timestamp
  deleter,     \* go_delete_indexes and go_delete_documents, by type
  reader       \* a read in progress

storeVars == <<history, documents, indexes, latest_ts, repeatable_ts>>
leaderVars == <<bounds, checkpoint, watch, advance, deleter>>
vars == <<storeVars, min_persisted, confirmed, leaderVars, reader>>

\* An expired row: found when the revision at `scan' was read, deleted with
\* all older rows of its key.
ExpiredRows == [scan : Timestamps, id : Ids, value : Values \cup {Deleted},
                ts : Timestamps]

TypeOK ==
  /\ history \in SUBSET [id : Ids, ts : Timestamps,
                         value : Values \cup {Deleted}, prev_ts : Timestamps]
  /\ documents \subseteq history
  /\ indexes \in SUBSET [id : Ids, value : Values, ts : Timestamps,
                         deleted : BOOLEAN]
  /\ latest_ts \in Timestamps /\ repeatable_ts \in Timestamps
  /\ min_persisted \in [RetentionTypes -> Timestamps]
  /\ confirmed \in [RetentionTypes -> Timestamps]
  /\ bounds \in [RetentionTypes -> Timestamps]
  /\ checkpoint \in [RetentionTypes -> Timestamps]
  /\ watch \in [RetentionTypes -> Timestamps]
  /\ advance \in [step : {"idle", "persist", "memory", "emit"}, type : RetentionTypes,
                  ts : Timestamps]
  /\ deleter \in [RetentionTypes ->
       [step : {"wait", "delete", "checkpoint", "confirmed"},
        cursor : Timestamps, end : Timestamps, new_cursor : Timestamps,
        todo : SUBSET ExpiredRows, chunk : SUBSET ExpiredRows]]
  /\ reader \in [step : {"idle", "read", "accepted"}, leader : BOOLEAN,
                 type : RetentionTypes, ts : Timestamps, good : BOOLEAN]

\* A deleter that waits for its min snapshot to pass its cursor.
Waiting(cursor) ==
  [step |-> "wait", cursor |-> cursor, end |-> 0, new_cursor |-> 0,
   todo |-> {}, chunk |-> {}]

Idle == [step |-> "idle", type |-> "index", ts |-> 0]

NoRead == [step |-> "idle", leader |-> FALSE, type |-> "index", ts |-> 0,
           good |-> TRUE]

Zero == [type \in RetentionTypes |-> 0]

Init ==
  /\ history = {} /\ documents = {} /\ indexes = {}
  /\ latest_ts = 0 /\ repeatable_ts = 0
  /\ min_persisted = Zero /\ confirmed = Zero
  /\ bounds = Zero /\ checkpoint = Zero /\ watch = Zero
  /\ advance = Idle
  /\ deleter = [type \in RetentionTypes |-> Waiting(0)]
  /\ reader = NoRead

-----------------------------------------------------------------------------
(* Commits.                                                                *)

\* The revision of id that is current at ts.
IsCurrent(r, ts) ==
  /\ r.ts <= ts
  /\ \A q \in history : q.id = r.id /\ q.ts <= ts => q.ts <= r.ts

\* The index rows of a revision that replaces prev (a set of at most one).
IndexRows(id, ts, value, prev) ==
  {[id |-> id, value |-> p.value, ts |-> ts, deleted |-> TRUE] :
     p \in {q \in prev : q.value # value}}
  \cup {[id |-> id, value |-> v, ts |-> ts, deleted |-> FALSE] :
          v \in {value} \ {Deleted}}

\* A commit writes one document, with its index rows.  The id of a deleted
\* document is not used again; value Deleted with no previous revision is a
\* document created and deleted by one transaction.
Commit(id, value) ==
  LET ts == latest_ts + 1
      prev == {r \in history : r.id = id /\ IsCurrent(r, latest_ts)}
      rev == [id |-> id, ts |-> ts, value |-> value,
              prev_ts |-> IF prev = {} THEN 0 ELSE Max({r.ts : r \in prev})]
  IN
  /\ ts <= MaxTs
  /\ \A r \in prev : r.value # Deleted
  /\ history' = history \cup {rev}
  /\ documents' = documents \cup {rev}
  /\ indexes' = indexes \cup IndexRows(id, ts, value, prev)
  /\ latest_ts' = ts
  /\ UNCHANGED <<repeatable_ts, min_persisted, confirmed, leaderVars, reader>>

\* The committer publishes a new max repeatable timestamp.
BumpRepeatable ==
  /\ repeatable_ts < latest_ts
  /\ repeatable_ts' = latest_ts
  /\ UNCHANGED <<history, documents, indexes, latest_ts, min_persisted,
                 confirmed, leaderVars, reader>>

-----------------------------------------------------------------------------
(* go_advance_min_snapshot.                                                *)

\* Fault: documents expire on their own schedule.
candidate_min_snapshot_ts_unchecked(type) ==
  {repeatable_ts - Delay[type] : d \in {0} \cap 0..(repeatable_ts - Delay[type])}

\* candidate_min_snapshot_ts, none if the delay reaches before time 0: for
\* documents, not past what index retention has confirmed.
candidate_min_snapshot_ts(type) ==
  LET candidate == repeatable_ts - Delay[type] IN
  IF Delay[type] > repeatable_ts THEN {}
  ELSE IF type = "index" THEN {candidate}
  ELSE {Min({candidate, checkpoint["index"]})}

\* Fault: the timestamp is persisted after memory is advanced, if at all.
PersistBound_later(type, ts) == UNCHANGED min_persisted

\* write_persistence_global of the new minimum.
PersistBound(type, ts) == min_persisted' = [min_persisted EXCEPT ![type] = ts]

\* advance_timestamp: the new minimum is computed, if there is one.
AdvanceTimestamp(type, ts) ==
  /\ advance.step = "idle"
  /\ ts \in candidate_min_snapshot_ts(type)
  /\ bounds[type] < ts
  /\ advance' = [step |-> "persist", type |-> type, ts |-> ts]
  /\ UNCHANGED <<storeVars, min_persisted, confirmed, bounds, checkpoint,
                 watch, deleter, reader>>

\* It is written to persistence.
AdvancePersist ==
  /\ advance.step = "persist"
  /\ PersistBound(advance.type, advance.ts)
  /\ advance' = [advance EXCEPT !.step = "memory"]
  /\ UNCHANGED <<storeVars, confirmed, bounds, checkpoint, watch, deleter,
                 reader>>

\* Then to the bounds in memory.
AdvanceMemory ==
  /\ advance.step = "memory"
  /\ bounds' = [bounds EXCEPT ![advance.type] = Max({@, advance.ts})]
  /\ advance' = [advance EXCEPT !.step = "emit"]
  /\ UNCHANGED <<storeVars, min_persisted, confirmed, checkpoint, watch,
                 deleter, reader>>

\* The write failed, or succeeded with an error: memory keeps its bound.
AdvanceFails ==
  /\ advance.step \in {"persist", "memory"}
  /\ advance' = Idle
  /\ UNCHANGED <<storeVars, min_persisted, confirmed, bounds, checkpoint,
                 watch, deleter, reader>>

\* emit_timestamp, unless reading the checkpoint back failed.
EmitTimestamp ==
  /\ advance.step = "emit"
  /\ \/ watch' = [watch EXCEPT ![advance.type] = advance.ts]
     \/ UNCHANGED watch
  /\ advance' = Idle
  /\ UNCHANGED <<storeVars, min_persisted, confirmed, bounds, checkpoint,
                 deleter, reader>>

-----------------------------------------------------------------------------
(* The deleters.                                                           *)

\* expired_index_entries for one revision: the row of the previous revision,
\* and the tombstone if the key went away.  Without the previous revision
\* nothing can be deleted.
ExpiredByIndex(r) ==
  UNION {{[scan |-> r.ts, id |-> p.id, value |-> p.value, ts |-> p.ts]}
         \cup {[scan |-> r.ts, id |-> p.id, value |-> p.value, ts |-> r.ts] :
                 v \in {r.value} \ {p.value}} :
         p \in {q \in documents :
                  q.id = r.id /\ q.ts = r.prev_ts /\ q.value # Deleted}}

\* expired_documents for one revision: the previous one, and a tombstone.
ExpiredByDocument(r) ==
  {[scan |-> r.ts, id |-> r.id, value |-> Deleted, ts |-> ts] :
     ts \in ({r.prev_ts} \ {0})
            \cup (IF r.value = Deleted THEN {r.ts} ELSE {})}

\* Fault: revisions at the minimum snapshot itself count as expired.
Expired_through_end(type, cursor, end) ==
  UNION {IF type = "index" THEN ExpiredByIndex(r) ELSE ExpiredByDocument(r) :
           r \in {q \in documents : cursor <= q.ts /\ q.ts <= end}}

\* What the revisions in cursor..end, end excluded, have made obsolete.
Expired(type, cursor, end) ==
  UNION {IF type = "index" THEN ExpiredByIndex(r) ELSE ExpiredByDocument(r) :
           r \in {q \in documents : cursor <= q.ts /\ q.ts < end}}

\* The deleter of a type moves to d.
Deleter(type, d) == deleter' = [deleter EXCEPT ![type] = d]

\* The channel shows a minimum past the cursor: scan for expired rows.
\* Document retention may stop short of it (max_end_cursor).  The scan pages
\* through revisions no other task deletes, so it is taken in one step.
StartDelete(type, end) ==
  LET d == deleter[type] IN
  /\ d.step = "wait"
  /\ d.cursor + 1 < watch[type]
  /\ d.cursor < end /\ end <= watch[type]
  /\ type = "index" => end = watch[type]
  /\ Deleter(type, [d EXCEPT !.step = "delete", !.end = end,
                             !.new_cursor = d.cursor,
                             !.todo = Expired(type, d.cursor, end)])
  /\ UNCHANGED <<storeVars, min_persisted, confirmed, bounds, checkpoint,
                 watch, advance, reader>>

\* A chunk may end in the middle of a timestamp: only the ones before its
\* last are fully deleted.
chunk_cursor(chunk) == Max({x.scan : x \in chunk}) - 1

\* The next chunk of expired rows, in timestamp order.
TakeChunk(type, chunk) ==
  LET d == deleter[type] IN
  /\ d.step = "delete" /\ d.chunk = {}
  /\ chunk # {}
  /\ \A x \in chunk, y \in d.todo \ chunk : x.scan <= y.scan
  /\ Deleter(type, [d EXCEPT !.chunk = chunk, !.todo = @ \ chunk,
                             !.new_cursor = Max({@, chunk_cursor(chunk)})])
  /\ UNCHANGED <<storeVars, min_persisted, confirmed, bounds, checkpoint,
                 watch, advance, reader>>

\* delete_chunk for one part: the parts of a chunk are concurrent and every
\* key is in one of them.  DELETE takes the row and all older ones.
DeletePart(type, x) ==
  LET d == deleter[type]
      part == {y \in d.chunk : y.id = x.id /\ y.value = x.value}
      covers(row) == \E y \in part : y.id = row.id /\ row.ts <= y.ts
  IN
  /\ d.step = "delete" /\ x \in d.chunk
  /\ \/ /\ type = "index"
        /\ indexes' = {row \in indexes : row.value # x.value \/ ~covers(row)}
        /\ UNCHANGED documents
     \/ /\ type = "document"
        /\ documents' = {row \in documents : ~covers(row)}
        /\ UNCHANGED indexes
  /\ Deleter(type, [d EXCEPT !.chunk = @ \ part])
  /\ UNCHANGED <<history, latest_ts, repeatable_ts, min_persisted, confirmed,
                 bounds, checkpoint, watch, advance, reader>>

\* delete returns: everything before end is gone, or it stops early.  The
\* checkpoint is rate limited.
DeleteReturns(type, step) ==
  LET d == deleter[type] IN
  /\ d.step = "delete" /\ d.chunk = {}
  /\ \/ d.todo = {} /\ Deleter(type, [Waiting(d.end - 1) EXCEPT !.step = step])
     \/ /\ d.new_cursor > d.cursor
        /\ Deleter(type, [Waiting(d.new_cursor) EXCEPT !.step = step])
  /\ UNCHANGED <<storeVars, min_persisted, confirmed, bounds, checkpoint,
                 watch, advance, reader>>

\* A persistence error, or an index was added meanwhile: what was deleted
\* is, and the cursor stays.
DeleteFails(type) ==
  LET d == deleter[type] IN
  /\ d.step = "delete"
  /\ Deleter(type, Waiting(d.cursor))
  /\ UNCHANGED <<storeVars, min_persisted, confirmed, bounds, checkpoint,
                 watch, advance, reader>>

\* checkpoint: the persistence write.
CheckpointPersist(type) ==
  LET d == deleter[type] IN
  /\ d.step = "checkpoint"
  /\ confirmed' = [confirmed EXCEPT ![type] = d.cursor]
  /\ Deleter(type, [d EXCEPT !.step = "confirmed"])
  /\ UNCHANGED <<storeVars, min_persisted, bounds, checkpoint, watch, advance,
                 reader>>

\* Then advance_checkpoint in memory.
CheckpointMemory(type) ==
  LET d == deleter[type] IN
  /\ d.step = "confirmed"
  /\ checkpoint' = [checkpoint EXCEPT ![type] = Max({@, d.cursor})]
  /\ Deleter(type, Waiting(d.cursor))
  /\ UNCHANGED <<storeVars, min_persisted, confirmed, bounds, watch, advance,
                 reader>>

\* The checkpoint's write failed, or succeeded with an error: the deleter
\* goes on from the cursor it has reached.
CheckpointFails(type) ==
  LET d == deleter[type] IN
  /\ d.step \in {"checkpoint", "confirmed"}
  /\ Deleter(type, Waiting(d.cursor))
  /\ UNCHANGED <<storeVars, min_persisted, confirmed, bounds, checkpoint,
                 watch, advance, reader>>

\* The leader stops; LeaderRetentionManager::new and start_retention load
\* the bounds and the cursors from persistence, with no checkpoint.
Restart ==
  /\ bounds' = min_persisted
  /\ watch' = min_persisted
  /\ checkpoint' = Zero
  /\ advance' = Idle
  /\ deleter' = [type \in RetentionTypes |-> Waiting(confirmed[type])]
  /\ reader' = IF reader.leader THEN NoRead ELSE reader
  /\ UNCHANGED <<storeVars, min_persisted, confirmed>>

-----------------------------------------------------------------------------
(* Readers.                                                                *)

\* index_scan at ts: per key the last row at or before ts, if not deleted.
IndexScan(ts) ==
  {row \in indexes :
     /\ row.ts <= ts /\ ~row.deleted
     /\ \A other \in indexes :
          other.id = row.id /\ other.value = row.value /\ other.ts <= ts
            => other.ts <= row.ts}

\* It returns exactly the revisions current at ts, with their documents.
IndexScanGood(ts) ==
  /\ {[id |-> row.id, value |-> row.value, ts |-> row.ts] :
        row \in IndexScan(ts)}
       = {[id |-> r.id, value |-> r.value, ts |-> r.ts] :
            r \in {q \in history : IsCurrent(q, ts) /\ q.value # Deleted}}
  /\ \A row \in IndexScan(ts) :
       \E r \in documents : r.id = row.id /\ r.ts = row.ts

\* A read of the documents log from ts finds every later revision and the
\* documents current at ts.
DocumentScanGood(ts) ==
  \A r \in history :
    r.ts > ts \/ (IsCurrent(r, ts) /\ r.value # Deleted) => r \in documents

\* The bound a validator compares with: the leader's memory, or for a
\* follower what persistence holds when it looks.
Bound(leader, type) == IF leader THEN bounds[type] ELSE min_persisted[type]

\* The rows are read, at a repeatable timestamp.  read_snapshot checks the
\* bound in memory first (optimistic_validate_snapshot); a follower's may be
\* of any age, and the documents log is read without the check.
Read(leader, type, ts) ==
  /\ reader.step = "idle"
  /\ ts <= repeatable_ts
  /\ leader /\ type = "index" => bounds["index"] <= ts
  /\ reader' = [step |-> "read", leader |-> leader, type |-> type, ts |-> ts,
                good |-> IF type = "index" THEN IndexScanGood(ts)
                                           ELSE DocumentScanGood(ts)]
  /\ UNCHANGED <<storeVars, min_persisted, confirmed, leaderVars>>

\* validate_snapshot or validate_document_snapshot, after the read.
ValidateSnapshot ==
  /\ reader.step = "read"
  /\ reader' = IF reader.ts < Bound(reader.leader, reader.type) THEN NoRead
               ELSE [NoRead EXCEPT !.step = "accepted", !.good = reader.good]
  /\ UNCHANGED <<storeVars, min_persisted, confirmed, leaderVars>>

\* The caller is done with the result.
FinishRead ==
  /\ reader.step = "accepted"
  /\ reader' = NoRead
  /\ UNCHANGED <<storeVars, min_persisted, confirmed, leaderVars>>

Next ==
  \/ \E id \in Ids, value \in Values \cup {Deleted} : Commit(id, value)
  \/ BumpRepeatable
  \/ \E type \in RetentionTypes :
       \/ \E ts \in Timestamps : AdvanceTimestamp(type, ts)
       \/ \E end \in Timestamps : StartDelete(type, end)
       \/ \E chunk \in SUBSET deleter[type].todo : TakeChunk(type, chunk)
       \/ \E x \in deleter[type].chunk : DeletePart(type, x)
       \/ \E step \in {"wait", "checkpoint"} : DeleteReturns(type, step)
       \/ DeleteFails(type)
       \/ CheckpointPersist(type)
       \/ CheckpointMemory(type)
       \/ CheckpointFails(type)
       \/ \E leader \in BOOLEAN, ts \in Timestamps : Read(leader, type, ts)
  \/ AdvancePersist
  \/ AdvanceMemory
  \/ AdvanceFails
  \/ EmitTimestamp
  \/ Restart
  \/ ValidateSnapshot
  \/ FinishRead

Spec == Init /\ [][Next]_vars

-----------------------------------------------------------------------------
(* Properties.                                                             *)

\* A read whose snapshot was validated after it returned is complete and
\* current, on the leader and on a follower, whatever was deleted while it
\* ran and whatever part of a deletion a crash left undone ("we will never
\* read something that has been deleted", advance_timestamp).
AcceptedReadsTrue == reader.step = "accepted" => reader.good

\* No row of the index points to a revision that document retention has
\* deleted: "prevents us from deleting documents before their indexes are
\* deleted" (candidate_min_snapshot_ts; index_scan fails with "Dangling
\* index reference").
NoDanglingReference ==
  \A row \in indexes : ~row.deleted =>
    \E r \in documents : r.id = row.id /\ r.ts = row.ts

\* Index retention finds the previous revision of everything it has not yet
\* confirmed, so no row is skipped for good (expired_index_entries: "It has
\* a prev_ts ... but no previous revision").
NoSkippedRevision ==
  \A r \in documents : confirmed["index"] <= r.ts /\ r.prev_ts # 0 =>
    \E p \in documents : p.id = r.id /\ p.ts = r.prev_ts

\* "The cursor is a timestamp which has been fully deleted, along with all
\* prior timestamps" (delete): once a checkpoint is persisted, no row that a
\* revision at or below it made obsolete is left, though chunks end in the
\* middle of a timestamp and deletions are abandoned half-way.
ConfirmedDeleted ==
  \A r, p \in history :
    p.id = r.id /\ p.ts = r.prev_ts /\ r.ts <= confirmed["index"] =>
      \A row \in indexes : row.id = p.id /\ row.value = p.value =>
        /\ row.ts > p.ts
        /\ r.value # p.value => row.ts > r.ts

\* min_document_snapshot_ts <= min_index_snapshot_ts <= max_repeatable_ts in
\* persistence (latest_retention_min_snapshot_ts), documents expire only
\* where index retention is confirmed (candidate_min_snapshot_ts), and
\* "persistence >= memory" at every moment (advance_timestamp).
BoundsOrdered ==
  /\ min_persisted["document"] <= confirmed["index"]
  /\ min_persisted["document"] <= min_persisted["index"]
  /\ min_persisted["index"] <= repeatable_ts
  /\ \A type \in RetentionTypes :
       /\ watch[type] <= bounds[type] /\ bounds[type] <= min_persisted[type]
       /\ confirmed[type] <= min_persisted[type]

==============================================================================
