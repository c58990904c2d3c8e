--------------------------- MODULE TableIteration ---------------------------
(***************************************************************************)
(* MultiTableIterator (database/src/table_iteration.rs): walks the tables  *)
(* of a snapshot that may be out of retention.  Each page is read from the *)
(* index at a recent timestamp; documents that changed since the snapshot  *)
(* are dropped from the page and found again in the document log, of which *)
(* each piece is read once and remembered for every registered table.      *)
(* Commits go on all the time.                                             *)
(*                                                                         *)
(* A document held in memory and one evicted to its id (IterationDocument) *)
(* are the same here: both name a revision.  Reads that fail end the walk  *)
(* or are retried at a later timestamp, which changes no state.            *)
(***************************************************************************)
EXTENDS Naturals, FiniteSets, FiniteSetsExt

CONSTANTS
  Tables,     \* the tables
  TableOf,    \* the table of each document, a function on 1..N
  NumValues,  \* an indexed field holds 1..NumValues
  PageSize,   \* page_size
  MaxTs       \* bound: the largest timestamp

Ids == DOMAIN TableOf
NumDocs == Cardinality(Ids)
Timestamps == 0..MaxTs

\* The value of a tombstone.
Deleted == 0

\* What is assumed of the constants.
TableIterationAssumption ==
  /\ NumDocs \in Nat /\ Ids = 1..NumDocs
  /\ Tables # {} /\ \A id \in Ids : TableOf[id] \in Tables
  /\ NumValues \in Nat /\ PageSize \in Nat \ {0} /\ MaxTs \in Nat \ {0}

VARIABLES
  documents,   \* the documents log: [id, ts, value, prev_ts], prev_ts 0: None
  latest_ts,   \* the timestamp of the last commit
  recent_ts,   \* new_static_repeatable_recent
  snapshot_ts, \* the snapshot walked
  end_ts,      \* the document log has been read up to here
  buffered,    \* buffered_documents: per registered table, id |-> prev_ts
  walk         \* the stream of one table

vars == <<documents, latest_ts, recent_ts, snapshot_ts, end_ts, buffered, walk>>

\* Index keys: the indexed value, then the id.
Key(r) == r.value * (NumDocs + 1) + r.id

Keys == 0..((NumValues + 1) * (NumDocs + 1))

\* CursorPosition::End.
End == (NumValues + 1) * (NumDocs + 1)

Revisions == [id : Ids, ts : Timestamps, value : 0..NumValues, prev_ts : Timestamps]

\* A walk of no table: before the first and between two.
NoWalk(tables) ==
  [step |-> "idle", table |-> CHOOSE t \in Tables : TRUE, cursor |-> 0,
   page |-> {}, page_end |-> 0, page_ts |-> 0, skipped |-> {},
   observed |-> {}, yielded |-> {}, done |-> tables]

Walks ==
  [step : {"idle", "page", "log", "failed"}, table : Tables, cursor : Keys,
   page : SUBSET Revisions, page_end : Keys, page_ts : Timestamps,
   skipped : SUBSET Revisions, observed : SUBSET Ids, yielded : SUBSET Revisions,
   done : SUBSET Tables]

TypeOK ==
  /\ documents \subseteq Revisions
  /\ {latest_ts, recent_ts, snapshot_ts, end_ts} \subseteq Timestamps
  /\ DOMAIN buffered \subseteq Tables
  /\ \A t \in DOMAIN buffered : \E ids \in SUBSET Ids : buffered[t] \in [ids -> Timestamps]
  /\ walk \in Walks

\* A transaction has inserted some documents, at timestamp 1, and the iterator
\* is made at that snapshot: TableIterator::multi(tables), or a single-table
\* iterator, which registers no table.
Init ==
  /\ \E live \in SUBSET Ids : \E values \in [live -> 1..NumValues] :
       documents = {[id |-> id, ts |-> 1, value |-> values[id], prev_ts |-> 0] :
                      id \in live}
  /\ latest_ts = 1 /\ recent_ts = 1
  /\ snapshot_ts = 1 /\ end_ts = 1
  /\ \E reg \in {Tables, {}} :
       buffered = [t \in reg |-> [id \in {} |-> 0]]
  /\ walk = NoWalk({})

-----------------------------------------------------------------------------
(* The database.                                                           *)

\* The live revision of every document as of ts.
At(ts) ==
  {r \in documents :
     /\ r.ts <= ts /\ r.value # Deleted
     /\ \A q \in documents : q.id = r.id /\ q.ts <= ts => q.ts <= r.ts}

\* A commit writes one document; a deleted one is not written again, and one
\* inserted and deleted by one transaction is a tombstone with no prev_ts.
Commit(id, value) ==
  LET prev == {r.ts : r \in {q \in documents : q.id = id}}
      ts == latest_ts + 1 IN
  /\ ts <= MaxTs
  /\ \A r \in documents : r.id = id => r.value # Deleted
  /\ documents' = documents \cup
       {[id |-> id, ts |-> ts, value |-> value, prev_ts |-> Max(prev \cup {0})]}
  /\ latest_ts' = ts
  /\ UNCHANGED <<recent_ts, snapshot_ts, end_ts, buffered, walk>>

\* The repeatable timestamp follows.
BumpRepeatable ==
  /\ recent_ts < latest_ts
  /\ recent_ts' = latest_ts
  /\ UNCHANGED <<documents, latest_ts, snapshot_ts, end_ts, buffered, walk>>

-----------------------------------------------------------------------------
(* The iterator.                                                           *)

\* Fault: a document's latest entry in the log is taken for the snapshot's.
revision_at_snapshot_latest(id, prev_ts) ==
  {r \in documents : r.id = id /\ r.value # Deleted /\ r.ts <= end_ts /\
     \A q \in documents : q.id = id => q.ts <= r.ts}

\* load_revisions_at_snapshot_ts: the revision a prev_ts points to, if live.
revision_at_snapshot(id, prev_ts) ==
  {r \in documents : r.id = id /\ r.ts = prev_ts /\ r.value # Deleted}

\* The first log entry of every document in (from, to].
FirstEntries(from, to) ==
  {r \in documents : from < r.ts /\ r.ts <= to /\
     \A q \in documents : q.id = r.id /\ from < q.ts => r.ts <= q.ts}

\* stream_documents_in_table_by_index begins: skipped keys come from what the
\* walks of earlier tables have read of the log.
StartTable(t) ==
  /\ walk.step = "idle" /\ t \notin walk.done
  /\ \/ t \in DOMAIN buffered
     \/ snapshot_ts = end_ts
  /\ LET seen == IF t \in DOMAIN buffered THEN buffered[t] ELSE [id \in {} |-> 0] IN
     walk' = [NoWalk(walk.done) EXCEPT
       !.step = "page", !.table = t, !.observed = DOMAIN seen,
       !.skipped = UNION {revision_at_snapshot(id, seen[id]) : id \in DOMAIN seen}]
  /\ UNCHANGED <<documents, latest_ts, recent_ts, snapshot_ts, end_ts, buffered>>

\* new_ts: recent, but never before the snapshot.
new_ts == Max({snapshot_ts, recent_ts})

\* fetch_page: the next page_size keys of the index at new_ts.
FetchPage ==
  LET live == {r \in At(new_ts) : TableOf[r.id] = walk.table /\ Key(r) > walk.cursor}
      page == {r \in live : Cardinality({q \in live : Key(q) <= Key(r)}) <= PageSize}
  IN
  /\ walk.step = "page"
  /\ walk' = [walk EXCEPT !.step = "log", !.page = page, !.page_ts = new_ts,
       !.page_end = IF Cardinality(page) < PageSize THEN End
                    ELSE Max({Key(r) : r \in page})]
  /\ UNCHANGED <<documents, latest_ts, recent_ts, snapshot_ts, end_ts, buffered>>

\* Rows of the page that are as they were in the snapshot.
page_at_snapshot == {r \in walk.page : r.ts <= snapshot_ts}

\* walk_document_log: the ids of this table seen for the first time.
newly_observed(entries) == {r.id : r \in entries}

\* Entries are added to a table's buffer, the first prev_ts of an id stays.
buffer_entries(buffer, entries) ==
  [id \in DOMAIN buffer \cup {r.id : r \in entries} |->
     IF id \in DOMAIN buffer THEN buffer[id]
     ELSE (CHOOSE r \in entries : r.id = id).prev_ts]

\* fetch_skipped_keys from end_ts to the page's timestamp, then the merged
\* page is yielded; the walk ends with CursorPosition::End.
MergePage ==
  LET all == FirstEntries(end_ts, walk.page_ts)
      entries == {r \in all : TableOf[r.id] = walk.table /\ r.id \notin walk.observed}
      revs == UNION {revision_at_snapshot(r.id, r.prev_ts) :
                       r \in {e \in entries : e.prev_ts # 0}}
      skipped == walk.skipped \cup {r \in revs : Key(r) > walk.cursor}
      merged == page_at_snapshot \cup {r \in skipped : Key(r) <= walk.page_end}
      next == [walk EXCEPT
        !.step = IF walk.page_end = End THEN "idle" ELSE "page",
        !.done = IF walk.page_end = End THEN @ \cup {walk.table} ELSE @,
        !.cursor = walk.page_end,
        !.page = {},
        !.skipped = {r \in skipped : Key(r) > walk.page_end},
        !.observed = @ \cup newly_observed(entries),
        !.yielded = @ \cup merged]
  IN
  /\ walk.step = "log"
  /\ IF /\ end_ts <= walk.page_ts
        /\ \A r, q \in merged : r.id = q.id => r = q
        /\ \A r \in skipped : walk.cursor < Key(r)
        /\ \A r \in merged : r.ts <= snapshot_ts /\ walk.cursor < Key(r) /\ Key(r) <= walk.page_end
        /\ walk.page_end = End => \A r \in skipped : Key(r) <= walk.page_end
        /\ \A r \in entries : r.prev_ts <= snapshot_ts
     THEN walk' = next
     ELSE walk' = [walk EXCEPT !.step = "failed"]
  /\ end_ts' = walk.page_ts
  /\ buffered' = [t \in DOMAIN buffered |->
       buffer_entries(buffered[t], {r \in all : TableOf[r.id] = t})]
  /\ UNCHANGED <<documents, latest_ts, recent_ts, snapshot_ts>>

\* unregister_table drops a table's buffer.
UnregisterTable(t) ==
  /\ walk.step = "idle" /\ t \in walk.done /\ t \in DOMAIN buffered
  /\ buffered' = [u \in DOMAIN buffered \ {t} |-> buffered[u]]
  /\ UNCHANGED <<documents, latest_ts, recent_ts, snapshot_ts, end_ts, walk>>

Next ==
  \/ \E id \in Ids, value \in 0..NumValues : Commit(id, value)
  \/ BumpRepeatable
  \/ \E t \in Tables : StartTable(t) \/ UnregisterTable(t)
  \/ FetchPage
  \/ MergePage

Spec == Init /\ [][Next]_vars

-----------------------------------------------------------------------------
(* Properties.                                                             *)

\* Exactly the snapshot: however the table changes during the walk, what has
\* been yielded is what the table held at the snapshot, with the keys it had
\* then, up to the cursor: nothing is lost, repeated or from another time
\* (stream_documents_in_table_by_index).
YieldsSnapshot ==
  walk.step # "failed" =>
    walk.yielded = {r \in At(snapshot_ts) :
                      TableOf[r.id] = walk.table /\ Key(r) <= walk.cursor}

=============================================================================
