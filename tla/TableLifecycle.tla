-------------------------- MODULE TableLifecycle --------------------------
(***************************************************************************)
(* The life of a table and the counts kept of it: rows of `_tables` are    *)
(* created Hidden or Active, activated (replacing the active tablet of the *)
(* name), marked Deleting and at last removed; every snapshot carries a    *)
(* table registry and, once bootstrapped, one summary per tablet.          *)
(*                                                                         *)
(* The committer keeps both by applying each commit to the last pending    *)
(* snapshot.  The summaries are missing after a start: the summary worker  *)
(* computes them in the background (from the by_id indexes or from its     *)
(* last checkpoint, then along the log), writes a checkpoint, and asks the *)
(* committer to overwrite the last snapshot and rebase the pending ones.   *)
(*                                                                         *)
(* A commit's timestamp is its place in the log: a bump of the maximum     *)
(* repeatable timestamp only moves to a place where nothing was committed. *)
(* The model has one table name; a summary is its number of documents.     *)
(***************************************************************************)
EXTENDS Integers, Sequences, FiniteSets, SequencesExt

CONSTANTS Tablets,      \* TabletIds, each used for at most one row
          NoTablet,     \* no active tablet has the name
          NoSummaries,  \* None: not bootstrapped, or no checkpoint
          Failed,       \* a computation that ended in an error
          MaxTs,        \* bound: commits in the log
          MaxDocs,      \* bound: documents of a tablet
          MaxRestarts,  \* bound: restarts of the process
          MinDocs,      \* bound: the values min_document_snapshot_ts takes
          LongOutage    \* TRUE: document retention may pass the checkpoint

\* What is assumed of the constants.
LifecycleAssumption ==
    /\ NoTablet \notin Tablets
    /\ MinDocs \subseteq Nat
    /\ MaxTs \in Nat /\ MaxDocs \in Nat /\ MaxRestarts \in Nat
    /\ LongOutage \in BOOLEAN

VARIABLES
    log,         \* commits in timestamp order, those still pending included
    latest,      \* timestamp of the last published snapshot
    snapshot,    \* that snapshot
    pending,     \* snapshots of the pending writes, one per commit > latest
    recent,      \* persisted MaxRepeatableTimestamp
    minDoc,      \* min_document_snapshot_ts
    checkpoint,  \* persisted TableSummarySnapshot, or NoSummaries
    worker,      \* the table summary worker
    toDelete,    \* tablets_to_delete of the retention worker
    purged,      \* tablets whose documents retention has deleted
    deletedRx,   \* tablets sent to cleanup_deleted_tablets
    counted,     \* tablets counted by log_tablet_hard_deleted
    restarts

vars == <<log, latest, snapshot, pending, recent, minDoc, checkpoint, worker,
          toDelete, purged, deletedRx, counted, restarts>>

-----------------------------------------------------------------------------
(* Changes and commits                                                     *)

RowStates == {"absent", "Hidden", "Active", "Deleting"}

Change(kind, t) == [kind |-> kind, tablet |-> t]
IsRow(c) == c.kind \notin {"insert", "remove"}

\* What a sequence of changes makes of the rows of `_tables` and of the
\* documents: the truth every summary and registry is compared with.
NextRow(row, kind) ==
    CASE kind = "create_hidden" -> "Hidden"
      [] kind \in {"create_active", "activate"} -> "Active"
      [] kind = "drop" -> "Deleting"
      [] kind = "hard_delete" -> "absent"
      [] OTHER -> row

EmptyData == [rows |-> [t \in Tablets |-> "absent"],
              docs |-> [t \in Tablets |-> 0]]

Written(data, c) ==
    [rows |-> [data.rows EXCEPT ![c.tablet] = NextRow(@, c.kind)],
     docs |-> [data.docs EXCEPT ![c.tablet] =
                  @ + (CASE c.kind = "insert" -> 1
                         [] c.kind = "remove" -> -1
                         [] OTHER -> 0)]]

DataAt(ts) == FoldLeft(Written, EmptyData, FlattenSeq(SubSeq(log, 1, ts)))

ActiveTablet(rows) ==
    IF \E t \in Tablets : rows[t] = "Active"
    THEN CHOOSE t \in Tablets : rows[t] = "Active"
    ELSE NoTablet

\* Deleted tables first, then created ones, then documents.
table_dependency_sort_key(c) ==
    CASE c.kind \in {"drop", "hard_delete"} -> 1
      [] c.kind \in {"create_hidden", "create_active", "activate"} -> 3
      [] OTHER -> 5

Ordered(changes) ==
    SetToSortSeq(changes, LAMBDA a, b :
        table_dependency_sort_key(a) < table_dependency_sort_key(b))

-----------------------------------------------------------------------------
(* Snapshots                                                               *)

\* table_mapping_and_states, and a snapshot without summaries.
LoadSnapshot(rows) ==
    [states |-> rows, name |-> ActiveTablet(rows), ok |-> TRUE,
     mapping |-> {t \in Tablets : rows[t] \in {"Active", "Hidden"}},
     summaries |-> NoSummaries]

\* begin_update: the mode of the change.  A replacement of a row is a Drop
\* only for an active tablet; for a hidden one it is no table update.
UpdateMode(s, c) ==
    CASE ~IsRow(c) -> "none"
      [] c.kind = "drop" /\ s.states[c.tablet] # "Active" -> "none"
      [] OTHER -> c.kind

\* TableRegistry's Update::apply.
RegistryUpdate(s, c, mode) ==
    CASE mode = "none" -> s
      [] mode \in {"create_active", "activate"} ->
           [s EXCEPT !.states[c.tablet] = "Active", !.name = c.tablet,
                     !.mapping = @ \cup {c.tablet}]
      [] mode = "create_hidden" ->
           [s EXCEPT !.states[c.tablet] = "Hidden",
                     !.mapping = @ \cup {c.tablet}]
      [] mode = "drop" ->
           [s EXCEPT !.states[c.tablet] = "Deleting",
                     !.mapping = @ \ {c.tablet},
                     !.name = IF @ = c.tablet THEN NoTablet ELSE @]
      [] mode = "hard_delete" -> [s EXCEPT !.states[c.tablet] = "absent"]

\* The checks that fail or panic: a duplicate active table, a tablet hard
\* deleted before it was marked, a summary that is there when the table is
\* created or hard deleted, or missing when a document is written.
UpdateSucceeds(s, c, mode) ==
    LET sums == s.summaries IN
    /\ mode = "create_active" => s.name = NoTablet
    /\ mode = "hard_delete" => s.states[c.tablet] = "Deleting"
    /\ sums # NoSummaries =>
         CASE mode \in {"create_hidden", "create_active", "hard_delete"} ->
                c.tablet \notin DOMAIN sums
           [] c.kind = "insert" -> c.tablet \in DOMAIN sums
           [] c.kind = "remove" -> c.tablet \in DOMAIN sums
                                   /\ sums[c.tablet] > 0
           [] OTHER -> TRUE

\* TableSummaries::update.
SummariesUpdate(sums, c, mode) ==
    IF sums = NoSummaries THEN NoSummaries
    ELSE LET keep == DOMAIN sums \ {c.tablet} IN
         CASE mode \in {"create_hidden", "create_active"} ->
                [t \in DOMAIN sums \cup {c.tablet} |->
                    IF t = c.tablet THEN 0 ELSE sums[t]]
           [] mode \in {"drop", "hard_delete"} -> [t \in keep |-> sums[t]]
           [] c.kind = "insert" /\ c.tablet \in DOMAIN sums ->
                [sums EXCEPT ![c.tablet] = @ + 1]
           [] c.kind = "remove" /\ c.tablet \in DOMAIN sums ->
                [sums EXCEPT ![c.tablet] = @ - 1]
           [] OTHER -> sums

\* Snapshot::update for one change.
Updated(s, c) ==
    LET mode == UpdateMode(s, c) IN
    [RegistryUpdate(s, c, mode) EXCEPT
        !.summaries = SummariesUpdate(@, c, mode),
        !.ok = @ /\ UpdateSucceeds(s, c, mode)]

Applied(s, changes) == FoldLeft(Updated, s, changes)

LatestPending == IF pending = <<>> THEN snapshot ELSE Last(pending)

\* Each pending write's snapshot again, from the new base.
recompute_pending_snapshots(base) ==
    [i \in DOMAIN pending |->
        Applied(base, FlattenSeq(SubSeq(log, latest + 1, latest + i)))]

-----------------------------------------------------------------------------
(* Transactions on tables                                                  *)

\* What a change reads or writes besides documents: a tablet's row, and the
\* table name when the active tablet of it is created or replaced.
RowKeys(rows, c) ==
    {c.tablet} \cup
        (IF c.kind \in {"create_active", "activate"} \/ rows[c.tablet] = "Active"
         THEN {NoTablet} ELSE {})

\* A transaction begun at latest conflicts with a pending write of what it
\* read; two documents of one tablet never conflict.
Conflicts(changes) ==
    LET rows == DataAt(latest).rows IN
    \E i \in latest + 1 .. Len(log) : \E p \in Range(log[i]) :
        \E c \in changes :
            /\ IsRow(p)
            /\ (RowKeys(rows, p) \cap
                   (IF IsRow(c) THEN RowKeys(rows, c) ELSE {c.tablet})) # {}

Commit(changes) ==
    /\ Len(log) < MaxTs
    /\ ~Conflicts(changes)
    /\ log' = Append(log, Ordered(changes))
    /\ pending' = Append(pending, Applied(LatestPending, Ordered(changes)))
    /\ UNCHANGED <<latest, snapshot, recent, minDoc, checkpoint, worker,
                   toDelete, purged, deletedRx, counted, restarts>>

RowAt(t) == DataAt(latest).rows[t]

\* A new tablet, with its first document when a write created the table.
CreateTable(t) ==
    /\ \A i \in DOMAIN log : \A c \in Range(log[i]) : c.tablet # t
    /\ \E kind \in {"create_hidden", "create_active"} :
         /\ kind = "create_active" => snapshot.name = NoTablet
         /\ \E docs \in {{}, {Change("insert", t)}} :
              Commit({Change(kind, t)} \cup docs)

InsertDocument(t) ==
    /\ RowAt(t) \in {"Hidden", "Active"}
    /\ DataAt(Len(log)).docs[t] < MaxDocs
    /\ Commit({Change("insert", t)})

\* The document exists in the snapshot and no pending write removes it.
RemoveDocument(t) ==
    /\ RowAt(t) \in {"Hidden", "Active"}
    /\ Cardinality({i \in latest + 1 .. Len(log) :
           Change("remove", t) \in Range(log[i])}) < DataAt(latest).docs[t]
    /\ Commit({Change("remove", t)})

\* activate_tables: the active tablet of the name is deleted in the same
\* commit, which must_count allows only once there are summaries.
ActivateTable(t) ==
    /\ RowAt(t) = "Hidden"
    /\ snapshot.name # NoTablet => snapshot.summaries # NoSummaries
    /\ Commit({Change("activate", t)} \cup
              {Change("drop", old) : old \in {snapshot.name} \ {NoTablet}})

\* delete_active_table, or delete_hidden_table by cleanup_hidden_tables.
DeleteTable(t) ==
    /\ RowAt(t) \in {"Active", "Hidden"}
    /\ Commit({Change("drop", t)})

-----------------------------------------------------------------------------
(* The committer                                                           *)

\* The oldest pending write has landed: its snapshot becomes the latest.
Publish ==
    /\ pending # <<>>
    /\ latest' = latest + 1
    /\ snapshot' = Head(pending)
    /\ pending' = Tail(pending)
    /\ UNCHANGED <<log, recent, minDoc, checkpoint, worker, toDelete, purged,
                   deletedRx, counted, restarts>>

\* The timestamp below the first pending write is persisted as repeatable.
BumpMaxRepeatableTs ==
    /\ recent < latest
    /\ recent' = latest
    /\ UNCHANGED <<log, latest, snapshot, pending, minDoc, checkpoint, worker,
                   toDelete, purged, deletedRx, counted, restarts>>

-----------------------------------------------------------------------------
(* Computing summaries                                                     *)

\* A summary entry, created empty when it is missing.
Entry(tables, t, n) ==
    [u \in DOMAIN tables \cup {t} |-> IF u = t THEN n ELSE tables[u]]

CountOf(tables, t) == IF t \in DOMAIN tables THEN tables[t] ELSE 0

\* One revision of the log; removing from an empty summary is an error.
add_revision(tables, c) ==
    CASE tables = Failed -> Failed
      [] c.kind = "insert" -> Entry(tables, c.tablet, CountOf(tables, c.tablet) + 1)
      [] c.kind = "remove" ->
           IF CountOf(tables, c.tablet) = 0 THEN Failed
           ELSE Entry(tables, c.tablet, tables[c.tablet] - 1)
      [] c.kind \in {"create_hidden", "create_active"} ->
           Entry(tables, c.tablet, CountOf(tables, c.tablet))
      [] c.kind = "hard_delete" ->
           [u \in DOMAIN tables \ {c.tablet} |-> tables[u]]
      [] OTHER -> tables

time_reverse_revision_pair(c) ==
    [c EXCEPT !.kind =
        CASE @ = "insert" -> "remove"
          [] @ = "remove" -> "insert"
          [] @ \in {"create_hidden", "create_active"} -> "hard_delete"
          [] @ = "hard_delete" -> "create_hidden"
          [] OTHER -> @]

\* The revisions of some commits that retention has left.  Within a commit
\* they are in commit order, whichever way the log is walked.
Revisions(commits) ==
    SelectSeq(FlattenSeq(commits), LAMBDA c : IsRow(c) \/ c.tablet \notin purged)

\* collect_snapshot: walks the by_id index of every tablet mapped at recent.
CollectSnapshot ==
    LET data == DataAt(recent) IN
    [ts |-> recent,
     tables |-> [t \in LoadSnapshot(data.rows).mapping |-> data.docs[t]]]

\* The summaries at target, or Failed: from the checkpoint, or from scratch at
\* the recent timestamp, then along the log forwards or backwards.  The walk
\* is refused when it starts before the document retention's minimum.
Bootstrap(target) ==
    LET base == IF checkpoint = NoSummaries THEN CollectSnapshot ELSE checkpoint
        forward == base.ts < target
        from == 1 + (IF forward THEN base.ts ELSE target)
        commits == SubSeq(log, from, IF forward THEN target ELSE base.ts)
        Add(tables, c) ==
            add_revision(tables, IF forward THEN c
                                 ELSE time_reverse_revision_pair(c))
    IN  [ts |-> target,
         tables |-> CASE base.ts = target -> base.tables
                      [] from < minDoc -> Failed
                      [] OTHER ->
                           FoldLeft(Add, base.tables,
                                    Revisions(IF forward THEN commits
                                              ELSE Reverse(commits)))]

\* Fault: an empty table gets no summary.
NewSummariesFault(tables, mapping) ==
    [t \in {u \in DOMAIN tables \cap mapping : tables[u] > 0} |-> tables[t]]

\* TableSummaries::new: only tablets of the mapping are kept.
NewSummaries(tables, mapping) ==
    [t \in DOMAIN tables \cap mapping |-> tables[t]]

-----------------------------------------------------------------------------
(* The table summary worker                                                *)

Idle == [pc |-> "idle", target |-> 0, result |-> NoSummaries,
         bootstrapped |-> FALSE]

\* compute: the target is the latest snapshot when the computation starts.
WorkerBegin ==
    /\ worker.pc = "idle"
    /\ worker' = [worker EXCEPT !.pc = "compute", !.target = latest]
    /\ UNCHANGED <<log, latest, snapshot, pending, recent, minDoc, checkpoint,
                   toDelete, purged, deletedRx, counted, restarts>>

\* An error ends the round; the next one is ten seconds later.
WorkerCompute ==
    /\ worker.pc = "compute"
    /\ \E result \in {Bootstrap(worker.target)} :
       worker' = IF result.tables = Failed
                 THEN [worker EXCEPT !.pc = "idle", !.target = 0]
                 ELSE [worker EXCEPT !.pc = "write", !.result = result]
    /\ UNCHANGED <<log, latest, snapshot, pending, recent, minDoc, checkpoint,
                   toDelete, purged, deletedRx, counted, restarts>>

\* write_snapshot, then the message to the committer when the checkpoint is
\* recent enough; one of the latest snapshot always is.
WorkerWrite ==
    /\ worker.pc = "write"
    /\ checkpoint' = worker.result
    /\ \E is_recent \in IF worker.target = latest THEN {TRUE} ELSE BOOLEAN :
         worker' = [worker EXCEPT
             !.pc = IF worker.bootstrapped \/ ~is_recent THEN "idle" ELSE "finish",
             !.target = 0, !.result = NoSummaries]
    /\ UNCHANGED <<log, latest, snapshot, pending, recent, minDoc, toDelete,
                   purged, deletedRx, counted, restarts>>

\* The committer, between two commits: the summaries at its latest snapshot
\* replace that snapshot's, and the pending snapshots are computed again.
finish_table_summary_bootstrap ==
    /\ worker.pc = "finish"
    /\ \E result \in {Bootstrap(latest)} :
       LET base == [snapshot EXCEPT
                       !.summaries = NewSummaries(result.tables, snapshot.mapping)]
       IN  IF result.tables = Failed
           THEN /\ worker' = [worker EXCEPT !.pc = "idle"]
                /\ UNCHANGED <<snapshot, pending>>
           ELSE /\ snapshot' = base
                /\ pending' = recompute_pending_snapshots(base)
                /\ worker' = [worker EXCEPT !.pc = "idle", !.bootstrapped = TRUE]
    /\ UNCHANGED <<log, latest, recent, minDoc, checkpoint, toDelete, purged,
                   deletedRx, counted, restarts>>

-----------------------------------------------------------------------------
(* Retention of deleted tablets                                            *)

CheckpointTs == IF checkpoint = NoSummaries THEN recent ELSE checkpoint.ts

\* min_document_snapshot_ts follows the repeatable timestamp, weeks behind:
\* without a long outage the checkpoint is always younger.
AdvanceMinDocumentSnapshot ==
    /\ \E ts \in MinDocs \cap (minDoc + 1 .. recent) :
         /\ LongOutage
            \/ /\ ts <= CheckpointTs
               /\ worker.pc \in {"compute", "write"} => ts <= worker.target
         /\ minDoc' = ts
    /\ UNCHANGED <<log, latest, snapshot, pending, recent, checkpoint, worker,
                   toDelete, purged, deletedRx, counted, restarts>>

\* The timestamp of the row's revision that marked the tablet Deleting.
DeletingTs(t) ==
    CHOOSE ts \in DOMAIN log : Change("drop", t) \in Range(log[ts])

\* Fault: a deleted tablet inside the retention window is not skipped.
DeleteTabletFault(t) ==
    /\ t \in toDelete
    /\ toDelete' = toDelete \ {t}
    /\ purged' = purged \cup {t}
    /\ deletedRx' = deletedRx \cup {t}
    /\ UNCHANGED <<log, latest, snapshot, pending, recent, minDoc, checkpoint,
                   worker, counted, restarts>>

\* delete_documents_in_tablets for one tablet, down to the last row.
DeleteDocumentsInTablet(t) ==
    /\ t \in toDelete
    /\ DeletingTs(t) < minDoc
    /\ toDelete' = toDelete \ {t}
    /\ purged' = purged \cup {t}
    /\ deletedRx' = deletedRx \cup {t}
    /\ UNCHANGED <<log, latest, snapshot, pending, recent, minDoc, checkpoint,
                   worker, counted, restarts>>

\* cleanup_deleted_tablets: hard_delete_tablet_document deletes the row of a
\* tablet that is in the table mapping; the counter is incremented anyway.
CleanupDeletedTablet(t) ==
    LET changes == IF t \in snapshot.mapping THEN {Change("hard_delete", t)}
                   ELSE {}
    IN  /\ t \in deletedRx
        /\ changes # {} => ~Conflicts(changes)
        /\ deletedRx' = deletedRx \ {t}
        /\ counted' = counted \cup {t}
        /\ log' = IF changes = {} THEN log ELSE Append(log, Ordered(changes))
        /\ pending' = IF changes = {} THEN pending
                      ELSE Append(pending, Applied(LatestPending, Ordered(changes)))
        /\ UNCHANGED <<latest, snapshot, recent, minDoc, checkpoint, worker,
                       toDelete, purged, restarts>>

-----------------------------------------------------------------------------
(* The process                                                             *)

\* tablets_to_delete: the Deleting rows when the workers start.
TabletsToDelete(rows) == {t \in Tablets : rows[t] = "Deleting"}

\* The process stops and loads again: of the pending writes those that had
\* landed are part of the log, the rest never happened.
Restart ==
    /\ restarts < MaxRestarts
    /\ restarts' = restarts + 1
    /\ \E landed \in SUBSET (latest + 1 .. Len(log)) :
         LET kept == SelectSeq([i \in 1 .. Len(log) |-> i],
                               LAMBDA i : i <= latest \/ i \in landed)
             newLog == [i \in DOMAIN kept |-> log[kept[i]]]
             rows == FoldLeft(Written, EmptyData, FlattenSeq(newLog)).rows
         IN  /\ log' = newLog
             /\ latest' = Len(newLog)
             /\ snapshot' = LoadSnapshot(rows)
             /\ toDelete' = TabletsToDelete(rows)
    /\ pending' = <<>>
    /\ worker' = Idle
    /\ deletedRx' = {}
    /\ UNCHANGED <<recent, minDoc, checkpoint, purged, counted>>

Init ==
    /\ log = <<>> /\ latest = 0 /\ recent = 0 /\ minDoc = 0
    /\ snapshot = LoadSnapshot(EmptyData.rows)
    /\ pending = <<>>
    /\ checkpoint = NoSummaries
    /\ worker = Idle
    /\ toDelete = {} /\ purged = {} /\ deletedRx = {} /\ counted = {}
    /\ restarts = 0

TransactionStep ==
    \E t \in Tablets :
        \/ CreateTable(t)
        \/ InsertDocument(t)
        \/ RemoveDocument(t)
        \/ ActivateTable(t)
        \/ DeleteTable(t)

RetentionStep ==
    \/ AdvanceMinDocumentSnapshot
    \/ \E t \in Tablets : DeleteDocumentsInTablet(t) \/ CleanupDeletedTablet(t)

WorkerStep == WorkerBegin \/ WorkerCompute \/ WorkerWrite

Next ==
    \/ TransactionStep
    \/ Publish
    \/ BumpMaxRepeatableTs
    \/ WorkerStep
    \/ finish_table_summary_bootstrap
    \/ RetentionStep
    \/ Restart

Spec == Init /\ [][Next]_vars

\* The committer's loop and the summary worker's task keep running.  A
\* computation and a message to the committer always can end; that they do is
\* weak fairness of WorkerCompute and finish_table_summary_bootstrap.
FairSpec ==
    /\ Spec
    /\ WF_vars(Publish) /\ WF_vars(WorkerBegin) /\ WF_vars(WorkerWrite)
    /\ []<>(worker.pc # "compute")
    /\ []<>(worker.pc # "finish")

-----------------------------------------------------------------------------
(* Properties                                                              *)

\* Types, and the order of the timestamps: nothing is repeatable before it is
\* published, and retention stays behind what is repeatable.
TypeOK ==
    /\ latest \in 0 .. Len(log)
    /\ Len(pending) = Len(log) - latest
    /\ recent \in 0 .. latest
    /\ minDoc \in 0 .. recent
    /\ snapshot.states \in [Tablets -> RowStates]
    /\ worker.pc \in {"idle", "compute", "write", "finish"}
    /\ UNION {toDelete, purged, deletedRx, counted} \subseteq Tablets

\* The published snapshot and every pending one, with their timestamps.
AllSnapshots ==
    {<<latest, snapshot>>} \cup {<<latest + i, pending[i]>> : i \in DOMAIN pending}

\* Summaries are exact wherever they exist: the published snapshot and every
\* pending one count, for each tablet that exists and none that is not mapped,
\* the documents the log holds at that snapshot's timestamp, however the
\* bootstrap, the commits, retention and restarts were interleaved
\* (committer.rs finish_table_summary_bootstrap, Snapshot::update).
SummariesExact ==
    \A e \in AllSnapshots :
        e[2].summaries # NoSummaries =>
            LET data == DataAt(e[1])
                existing == LoadSnapshot(data.rows).mapping
            IN  /\ existing \subseteq DOMAIN e[2].summaries
                /\ DOMAIN e[2].summaries \subseteq e[2].mapping
                /\ \A t \in existing : e[2].summaries[t] = data.docs[t]

\* Documents are deleted only of tablets that no readable snapshot contains:
\* the tablet was marked Deleting before the minimum document snapshot, and
\* no later commit brought it back (retention.rs delete_documents_in_tablets).
PurgedOutOfRetention ==
    \A t \in purged : \A ts \in minDoc .. Len(log) :
        DataAt(ts).rows[t] \in {"Deleting", "absent"}

=============================================================================
