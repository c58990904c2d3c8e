----------------------------- MODULE SearchIndex -----------------------------
(***************************************************************************)
(* One text or vector search index: its segments on disk, described by the *)
(* index metadata document, and its memory index, kept by the index        *)
(* manager of the latest snapshot.                                         *)
(*                                                                         *)
(* Four tasks write the metadata.  The backfill flusher walks the table at *)
(* a fixed timestamp, one part at a time; the live flusher moves the       *)
(* snapshot forward along the document log; the compactor merges segments; *)
(* a push creates, enables, disables and drops the index.  Flushers and    *)
(* compactor build from metadata they read earlier and reconcile under one *)
(* lock when they commit.  The fast-forward worker moves the timestamp     *)
(* that a start-up reads the log from; a start-up rebuilds the memory      *)
(* index in the background and hands it to the committer.                  *)
(*                                                                         *)
(* A timestamp is a position of log, which holds the commits to the        *)
(* indexed table and to the index metadata.  Commits elsewhere take no     *)
(* position.                                                               *)
(***************************************************************************)
EXTENDS Naturals, Sequences, FiniteSets, SequencesExt, FiniteSetsExt

CONSTANTS
    Kind,                   \* "text" or "vector"
    Docs,                   \* document ids, in table order: 1..n
    PartSize,               \* documents of one part of a backfill
    MinCompactionSegments,  \* knob of the compactor
    MaxCompactionSegments,  \* knob of the compactor
    MaxWrites,              \* bound: commits to the table
    MaxPushes,              \* bound: pushes that enable, disable or drop
    MaxFaults,              \* bound: failed jobs
    MaxRestarts,            \* bound: restarts of the process
    MaxCompactions,         \* bound: compaction jobs
    MaxFastForwards,        \* bound: fast-forwards
    Replaces,               \* documents may be replaced
    Unindexable,            \* a document may have no valid vector
    PushWhileBootstrapping, \* pushes while the memory index is rebuilt
    RestartMidBackfill,     \* restarts after the first part of a backfill
    CanDrop                 \* the index may be dropped

\* What is assumed of the constants.
SearchIndexAssumption ==
    /\ Kind \in {"text", "vector"}
    /\ Docs \subseteq Nat \ {0} /\ IsFiniteSet(Docs)
    /\ PartSize \in Nat \ {0}
    /\ MinCompactionSegments \in Nat \ {0}
    /\ MaxCompactionSegments \in Nat \ {0}
    /\ Unindexable => Kind = "vector"

VARIABLES
    log,      \* the commits: documents of the table, and metadata changes
    meta,     \* the index metadata document, on disk
    ff,       \* the fast-forward timestamp, on disk
    mgr,      \* the index manager of the latest snapshot
    boot,     \* what the bootstrap worker read at start-up
    flush,    \* the job of each flusher
    comp,     \* the job of the compactor
    lock,     \* holder of the metadata writer's lock while it merges
    used      \* the bounds used up

vars == <<log, meta, ff, mgr, boot, flush, comp, lock, used>>

Flushers == {"Backfill", "Live"}
Nobody == "nobody"
Compactor == "Compactor"
Now == Len(log)

-----------------------------------------------------------------------------
(* The table. *)

MetadataCommit == [doc |-> 0, value |-> "metadata"]
Values == {"valid", "invalid", "deleted"}

\* The revisions of the table in the log between two timestamps.
Revisions(lo, hi) == {p \in (lo + 1)..hi : log[p].doc # 0}

\* The timestamp of the latest revision of d at ts, or 0.
RevisionAt(d, ts) == Max({0} \cup {p \in 1..ts : log[p].doc = d})

Exists(p) == p > 0 /\ log[p].value # "deleted"

\* A document without a valid vector is not in a vector index.  A text index
\* holds every document.
Indexable(p) == p > 0 /\ log[p].value = "valid"

\* What a search of every document at ts returns.
IndexableAt(ts) ==
    {<<d, RevisionAt(d, ts)>> : d \in {e \in Docs : Indexable(RevisionAt(e, ts))}}

-----------------------------------------------------------------------------
(* Segments: immutable points, and the ones that are not deleted.  The id   *)
(* of a segment survives deletes; compaction makes a new one.               *)

Segment(id, points) == [id |-> id, points |-> points, live |-> points]
NumDeleted(s) == Cardinality(s.points \ s.live)
Ids(segments) == {s.id : s \in segments}
Live(segments) == UNION {s.live : s \in segments}

HasDocument(s, d) == \E p \in s.live : p[1] = d
WithoutDocument(s, d) == [s EXCEPT !.live = {p \in @ : p[1] # d}]

\* PreviousTextSegments::delete_document: the first segment that has it.
\* Segments with equal documents are not expected, so which one is left open.
DeleteDocument(segments, d) ==
    LET s == CHOOSE t \in segments : HasDocument(t, d)
    IN  (segments \ {s}) \cup {WithoutDocument(s, d)}

\* PreviousVectorSegments::maybe_delete_convex: every segment that has it.
MaybeDelete(segments, d) == {WithoutDocument(s, d) : s \in segments}

NoSegment == 0

\* A fresh object key.
FreshId ==
    LET InUse == Ids(meta.segments) \cup Ids(mgr.disk) \cup Ids(boot.meta.segments)
                 \cup UNION {Ids(flush[f].segments) \cup Ids(flush[f].job.segments) : f \in Flushers}
                 \cup Ids(comp.segments) \cup Ids(comp.new)
    IN  Min((1..(Cardinality(InUse) + 1)) \ InUse)

-----------------------------------------------------------------------------
(* Building a segment from a part of the log.                              *)

Stream(lo, hi, order) ==
    SetToSortSeq(Revisions(lo, hi), LAMBDA p, q : IF order = "Asc" THEN p < q ELSE p > q)

NothingBuilt(segments) ==
    [points |-> {}, segments |-> segments, processed |-> {}, dangling |-> {}, ok |-> TRUE]

\* One revision pair of build_new_segment and of the text merge_deletes.
TextStep(lower, acc, p) ==
    LET d == log[p].doc
        prev == RevisionAt(d, p - 1)
        added == [acc EXCEPT
                    !.processed = @ \cup {d},
                    !.dangling = IF Exists(p) THEN @ \ {d} ELSE @,
                    !.points = IF Exists(p) /\ d \notin acc.dangling
                               THEN @ \cup {<<d, p>>} ELSE @]
    IN  IF d \in acc.processed \/ ~acc.ok THEN acc
        ELSE IF ~Exists(prev) THEN added
        ELSE IF prev > lower
             THEN [added EXCEPT !.dangling = @ \cup {d}, !.processed = @ \ {d}]
        ELSE IF \E s \in acc.segments : HasDocument(s, d)
             THEN [added EXCEPT !.segments = DeleteDocument(@, d)]
        ELSE [added EXCEPT !.ok = FALSE]

TextBuild(segments, lo, hi, order) ==
    LET Step(acc, p) == TextStep(lo, acc, p)
        built == FoldLeft(Step, NothingBuilt(segments), Stream(lo, hi, order))
    IN  [built EXCEPT !.ok = @ /\ built.dangling = {}]

\* One entry of the vector build_disk_index.  A document without a valid
\* vector is skipped before the previous segments are looked at.
VectorStep(acc, p) ==
    LET d == log[p].doc
        others == {q \in acc.points : q[1] # d}
    IN  IF Exists(p) /\ ~Indexable(p) THEN acc
        ELSE [acc EXCEPT !.points = IF Exists(p) THEN others \cup {<<d, p>>} ELSE others,
                         !.segments = MaybeDelete(@, d)]

VectorBuild(segments, lo, hi) ==
    FoldLeft(VectorStep, NothingBuilt(segments), Stream(lo, hi, "Asc"))

BuildDiskIndex(segments, lo, hi) ==
    IF Kind = "text" THEN TextBuild(segments, lo, hi, "Desc")
    ELSE VectorBuild(segments, lo, hi)

\* Fault: a compaction forgets the deletes of the flushes that overlap it.
VectorMergeStepFault(acc, p) == acc

\* The vector merge_deletes looks at deletions only.
VectorMergeStep(acc, p) ==
    IF Exists(p) THEN acc ELSE [acc EXCEPT !.segments = MaybeDelete(@, log[p].doc)]

MergeDeletes(segments, lo, hi) ==
    IF Kind = "text" THEN TextBuild(segments, lo, hi, "Asc")
    ELSE FoldLeft(VectorMergeStep, NothingBuilt(segments), Stream(lo, hi, "Asc"))

-----------------------------------------------------------------------------
(* The index manager: the entry of the index in the latest snapshot, with  *)
(* the segments that searches read and the revisions since then.           *)

NoEntry ==
    [ready |-> TRUE, has |-> FALSE, state |-> "none", disk |-> {}, diskTs |-> 0,
     minTs |-> 0, revisions |-> {}]
Bootstrapping == [NoEntry EXCEPT !.ready = FALSE]

HasSnapshot(m) == m.state \in {"backfilled", "enabled"}

\* truncate: what the snapshot at ts holds leaves the memory index.
Truncate(revisions, ts) == {p \in revisions : p > ts}

\* A change of the metadata that the entry follows: an index that becomes
\* enabled, or one with a first or later snapshot.  The segments of a
\* compaction are not installed.
SnapshotChanged(old, new) ==
    \/ old.state # "enabled" /\ new.state = "enabled"
    \/ HasSnapshot(old) => old.ts < new.ts

\* TextIndexManager::update and VectorIndexManager::update for a change of
\* the metadata from old to new in the commit at ts.
ManagerUpdate(old, new, ts) ==
    LET Ok(m) == [ok |-> TRUE, mgr |-> m]
        Refused == [ok |-> FALSE, mgr |-> mgr]
        installed ==
            [mgr EXCEPT !.state = IF new.state = "enabled" THEN "ready" ELSE "backfilled",
                        !.disk = new.segments, !.diskTs = new.ts, !.minTs = new.ts + 1,
                        !.revisions = Truncate(@, new.ts)]
    IN  CASE ~mgr.ready -> Ok(mgr)
          [] new.state = "none" -> Ok(NoEntry)
          [] old.state = "none" ->
                Ok([NoEntry EXCEPT !.has = TRUE, !.state = "backfilling", !.minTs = ts])
          [] new.state = "backfilling" ->
                IF old.state = "backfilling" THEN Ok(mgr) ELSE Refused
          [] old.state = "backfilling" /\ new.state = "enabled" -> Refused
          [] old.state = "enabled" /\ new.state = "backfilled"
             /\ ~(old.ts = new.ts /\ old.segments = new.segments /\ new.staged) -> Refused
          [] ~SnapshotChanged(old, new) -> Ok(mgr)
          [] OTHER ->
                IF /\ mgr.has
                   /\ HasSnapshot(old) => old.ts <= new.ts
                   /\ ~HasSnapshot(old) /\ Kind = "text" => mgr.minTs <= new.ts
                   /\ mgr.minTs <= new.ts + 1
                THEN Ok(installed) ELSE Refused

\* A transaction that replaces the metadata: the committer's snapshot update
\* accepts it, or the transaction fails and changes nothing.
CommitMetadata(new) ==
    LET update == ManagerUpdate(meta, new, Now + 1)
    IN  IF update.ok
        THEN /\ log' = Append(log, MetadataCommit)
             /\ meta' = new
             /\ mgr' = update.mgr
        ELSE UNCHANGED <<log, meta, mgr>>

-----------------------------------------------------------------------------
(* Initial state: an empty table and no index. *)

NoIndex == [state |-> "none", segments |-> {}, ts |-> 0, cursor |-> 0, staged |-> FALSE]

NoFlush ==
    [pc |-> "idle", job |-> NoIndex, segments |-> {}, new |-> NoSegment, ts |-> 0,
     done |-> FALSE, cursor |-> 0]
NoCompaction ==
    [pc |-> "idle", job |-> NoIndex, segments |-> {}, new |-> {}]
NoBootstrap == [meta |-> NoIndex, ff |-> 0, ts |-> 0]

Init ==
    /\ log = << >>
    /\ meta = NoIndex
    /\ ff = 0
    /\ mgr = NoEntry
    /\ boot = NoBootstrap
    /\ flush = [f \in Flushers |-> NoFlush]
    /\ comp = NoCompaction
    /\ lock = Nobody
    /\ used = [created |-> FALSE, pushes |-> 0, faults |-> 0, restarts |-> 0, compactions |-> 0,
               fastForwards |-> 0]

-----------------------------------------------------------------------------
(* Commits to the table. *)

\* A document is inserted, replaced or deleted; ids are not used again.  The
\* committer updates the memory index with it.  A vector index that the
\* registry has and the manager lacks makes the commit fail.
Write(d, value) ==
    /\ Cardinality(Revisions(0, Now)) < MaxWrites
    /\ value = "invalid" => Unindexable
    /\ LET prev == RevisionAt(d, Now)
       IN  \/ prev = 0 /\ value # "deleted"
           \/ Exists(prev) /\ (value = "deleted" \/ Replaces)
    /\ mgr.ready /\ ~mgr.has /\ meta.state # "none" => Kind = "text"
    /\ log' = Append(log, [doc |-> d, value |-> value])
    /\ mgr' = IF mgr.ready /\ mgr.has THEN [mgr EXCEPT !.revisions = @ \cup {Now + 1}] ELSE mgr
    /\ UNCHANGED <<meta, ff, boot, flush, comp, lock, used>>

-----------------------------------------------------------------------------
(* Pushes. *)

Push ==
    /\ used.pushes < MaxPushes
    /\ mgr.ready \/ PushWhileBootstrapping
    /\ used' = [used EXCEPT !.pushes = @ + 1]
    /\ UNCHANGED <<ff, boot, flush, comp, lock>>

\* One index: another one has another id and its own state.
Create ==
    /\ ~used.created
    /\ mgr.ready \/ PushWhileBootstrapping
    /\ CommitMetadata([NoIndex EXCEPT !.state = "backfilling"])
    /\ used' = [used EXCEPT !.created = TRUE]
    /\ UNCHANGED <<ff, boot, flush, comp, lock>>

Enable ==
    /\ meta.state = "backfilled"
    /\ Push
    /\ CommitMetadata([meta EXCEPT !.state = "enabled", !.staged = FALSE])

Disable ==
    /\ meta.state = "enabled"
    /\ Push
    /\ CommitMetadata([meta EXCEPT !.state = "backfilled", !.staged = TRUE])

Drop ==
    /\ CanDrop /\ meta.state # "none"
    /\ Push
    /\ CommitMetadata(NoIndex)

-----------------------------------------------------------------------------
(* The flushers. *)

SetFlush(f, job) == flush' = [flush EXCEPT ![f] = job]

\* Fault: a backfill that has a part is taken for done.
NeedsBackfillPartFault(f) ==
    /\ mgr.ready
    /\ IF f = "Backfill" THEN meta.state = "backfilling" /\ meta.segments = {}
       ELSE HasSnapshot(meta) /\ mgr.has /\ mgr.revisions # {}

\* needs_backfill: sizes of memory indexes are not known while they are
\* rebuilt, and then the step fails.  A snapshot is flushed when the memory
\* index is too large, or when it is not empty and too old.
NeedsBackfill(f) ==
    /\ mgr.ready
    /\ IF f = "Backfill" THEN meta.state = "backfilling"
       ELSE /\ HasSnapshot(meta)
            /\ mgr.has /\ (Kind = "text" => mgr.state # "backfilling")
            /\ mgr.revisions # {}

FlushPick(f) ==
    /\ flush[f].pc = "idle"
    /\ NeedsBackfill(f)
    /\ SetFlush(f, [NoFlush EXCEPT !.pc = "picked", !.job = meta])
    /\ UNCHANGED <<log, meta, ff, mgr, boot, comp, lock, used>>

\* IncrementalComplete: the next documents of the table after the cursor, at
\* the timestamp the backfill started at.
BuildPart(job) ==
    LET ts == IF job.ts = 0 THEN Now ELSE job.ts
        rest == {d \in Docs : d > job.cursor /\ Exists(RevisionAt(d, ts))}
        part == {d \in rest : Cardinality({e \in rest : e <= d}) <= PartSize}
        points == {p \in IndexableAt(ts) : p[1] \in part}
        new == IF points = {} THEN {} ELSE {Segment(FreshId, points)}
    IN  [pc |-> "built", job |-> job, segments |-> job.segments \cup new,
         new |-> IF points = {} THEN NoSegment ELSE FreshId, ts |-> ts,
         done |-> part = rest, cursor |-> Max({0} \cup part)]

\* Partial: the log from the snapshot, or from the fast-forward timestamp, to
\* now.  NoFlush when the build fails.
BuildPartial(job) ==
    LET built == BuildDiskIndex(job.segments, Max({job.ts, ff}), Now)
        new == IF built.points = {} THEN {} ELSE {Segment(FreshId, built.points)}
    IN  IF built.ok
        THEN [NoFlush EXCEPT !.pc = "built", !.job = job,
                             !.segments = built.segments \cup new,
                             !.new = IF built.points = {} THEN NoSegment ELSE FreshId,
                             !.ts = Now]
        ELSE NoFlush

FlushBuild(f) ==
    /\ flush[f].pc = "picked"
    /\ SetFlush(f, IF flush[f].job.state = "backfilling" THEN BuildPart(flush[f].job)
                   ELSE BuildPartial(flush[f].job))
    /\ UNCHANGED <<log, meta, ff, mgr, boot, comp, lock, used>>

NewSegment(j) == {s \in j.segments : s.id = j.new}

\* commit_backfill_flush: the new segment joins the current ones.
CommitBackfillFlush(f) ==
    LET j == flush[f]
        segments == meta.segments \cup NewSegment(j)
    IN  /\ j.pc = "built" /\ j.job.state = "backfilling" /\ lock = Nobody
        /\ IF meta.state = "backfilling"
           THEN CommitMetadata(
                  IF j.done THEN [meta EXCEPT !.state = "backfilled", !.segments = segments,
                                              !.ts = j.ts, !.cursor = 0]
                  ELSE [meta EXCEPT !.segments = segments, !.ts = j.ts, !.cursor = j.cursor])
           ELSE UNCHANGED <<log, meta, mgr>>
        /\ SetFlush(f, NoFlush)
        /\ UNCHANGED <<ff, boot, comp, lock, used>>

\* A compaction removed one of the segments that the flush started from.
IsMergeFlushRequired(j) == ~(Ids(j.segments) \ {j.new} \subseteq Ids(meta.segments))

\* commit_snapshot_flush without a merge.
CommitSnapshotFlush(f) ==
    LET j == flush[f]
    IN  /\ j.pc = "built" /\ j.job.state # "backfilling" /\ lock = Nobody
        /\ ~HasSnapshot(meta) \/ ~IsMergeFlushRequired(j)
        /\ IF HasSnapshot(meta)
           THEN CommitMetadata([meta EXCEPT !.segments = j.segments, !.ts = j.ts])
           ELSE UNCHANGED <<log, meta, mgr>>
        /\ SetFlush(f, NoFlush)
        /\ UNCHANGED <<ff, boot, comp, lock, used>>

\* With one: the transaction is dropped, the deletes since the snapshot are
\* merged into the current segments ...
MergeFlush(f) ==
    LET j == flush[f]
        merged == MergeDeletes(meta.segments, meta.ts, j.ts)
    IN  /\ j.pc = "built" /\ j.job.state # "backfilling" /\ lock = Nobody
        /\ HasSnapshot(meta) /\ IsMergeFlushRequired(j)
        /\ IF merged.ok
           THEN /\ SetFlush(f, [j EXCEPT !.pc = "merging", !.job = meta,
                                         !.segments = merged.segments \cup NewSegment(j)])
                /\ lock' = f
           ELSE SetFlush(f, NoFlush) /\ UNCHANGED lock
        /\ UNCHANGED <<log, meta, ff, mgr, boot, comp, used>>

\* ... and a new one writes the state that the dropped one read.
CommitMergedFlush(f) ==
    LET j == flush[f]
    IN  /\ j.pc = "merging"
        /\ IF meta.state # "none"
           THEN CommitMetadata([j.job EXCEPT !.segments = j.segments, !.ts = j.ts])
           ELSE UNCHANGED <<log, meta, mgr>>
        /\ SetFlush(f, NoFlush)
        /\ lock' = Nobody
        /\ UNCHANGED <<ff, boot, comp, used>>

\* Storage, the database or a conflict fails the job; the worker starts over.
FlushFail(f) ==
    /\ used.faults < MaxFaults
    /\ flush[f].pc # "idle"
    /\ SetFlush(f, NoFlush)
    /\ lock' = IF lock = f THEN Nobody ELSE lock
    /\ used' = [used EXCEPT !.faults = @ + 1]
    /\ UNCHANGED <<log, meta, ff, mgr, boot, comp>>

-----------------------------------------------------------------------------
(* The compactor. *)

\* find_segments_to_compact: enough segments of one size class, or one with
\* too many deletes.
SegmentsToCompact ==
    {S \in SUBSET meta.segments :
        \/ Cardinality(S) \in MinCompactionSegments..MaxCompactionSegments
        \/ \E s \in S : S = {s} /\ NumDeleted(s) > 0}

\* needs_compaction and compact: the new segment has the points that are live
\* in the segments as they were when the job was made.
Compact(S) ==
    /\ used.compactions < MaxCompactions
    /\ comp.pc = "idle"
    /\ meta.state # "none" /\ meta.ts > 0
    /\ comp' = [pc |-> "built", job |-> meta, segments |-> S,
                new |-> {Segment(FreshId, Live(S))}]
    /\ used' = [used EXCEPT !.compactions = @ + 1]
    /\ UNCHANGED <<log, meta, ff, mgr, boot, flush, lock>>

\* A segment got deletes from a flush since the job was made.
IsCompactionMergeRequired ==
    \E s \in comp.segments, t \in meta.segments :
        s.id = t.id /\ NumDeleted(s) # NumDeleted(t)

SegmentsRemain == Ids(comp.segments) \subseteq Ids(meta.segments)

Compacted(new) == {s \in meta.segments : s.id \notin Ids(comp.segments)} \cup new

\* commit_compaction without a merge.
CommitCompaction ==
    /\ comp.pc = "built" /\ lock = Nobody
    /\ SegmentsRemain => ~IsCompactionMergeRequired
    /\ IF meta.state # "none" /\ SegmentsRemain
       THEN CommitMetadata([meta EXCEPT !.segments = Compacted(comp.new)])
       ELSE UNCHANGED <<log, meta, mgr>>
    /\ comp' = NoCompaction
    /\ UNCHANGED <<ff, boot, flush, lock, used>>

\* With one: the deletes since the job was made are merged into the new
\* segment.  The text index fails on a document of another segment.
MergeCompaction ==
    LET merged == MergeDeletes(comp.new, comp.job.ts, meta.ts)
    IN  /\ comp.pc = "built" /\ lock = Nobody
        /\ meta.state # "none" /\ SegmentsRemain /\ IsCompactionMergeRequired
        /\ IF merged.ok
           THEN /\ comp' = [comp EXCEPT !.pc = "merging", !.job = meta, !.new = merged.segments]
                /\ lock' = Compactor
           ELSE comp' = [NoCompaction EXCEPT !.pc = "failed"] /\ UNCHANGED lock
        /\ UNCHANGED <<log, meta, ff, mgr, boot, flush, used>>

\* The segments are read again, the rest of the state is not.
CommitMergedCompaction ==
    /\ comp.pc = "merging"
    /\ IF meta.state # "none"
       THEN CommitMetadata([comp.job EXCEPT !.segments = Compacted(comp.new)])
       ELSE UNCHANGED <<log, meta, mgr>>
    /\ comp' = NoCompaction
    /\ lock' = Nobody
    /\ UNCHANGED <<ff, boot, flush, used>>

\* A job fails for another reason.
CompactionFail ==
    /\ used.faults < MaxFaults
    /\ comp.pc \in {"built", "merging"}
    /\ comp' = [NoCompaction EXCEPT !.pc = "failed"]
    /\ lock' = IF lock = Compactor THEN Nobody ELSE lock
    /\ used' = [used EXCEPT !.faults = @ + 1]
    /\ UNCHANGED <<log, meta, ff, mgr, boot, flush>>

\* The worker starts over after its back-off.
CompactionRetry ==
    /\ comp.pc = "failed"
    /\ comp' = NoCompaction
    /\ UNCHANGED <<log, meta, ff, mgr, boot, flush, lock, used>>

-----------------------------------------------------------------------------
(* The fast-forward worker. *)

FastForward ==
    /\ used.fastForwards < MaxFastForwards
    /\ mgr.ready /\ mgr.has /\ HasSnapshot(meta)
    /\ Kind = "text" => mgr.state # "backfilling"
    /\ mgr.revisions = {}
    /\ ff < Now
    /\ ff' = Now
    /\ used' = [used EXCEPT !.fastForwards = @ + 1]
    /\ UNCHANGED <<log, meta, mgr, boot, flush, comp, lock>>

-----------------------------------------------------------------------------
(* Restarts and the bootstrap of the memory index. *)

\* The process stops and starts again, and the bootstrap worker gets the
\* metadata of the moment.  Start-up writes elsewhere before any flush begins.
Restart ==
    /\ used.restarts < MaxRestarts
    /\ meta.state = "backfilling" /\ meta.ts > 0 => RestartMidBackfill
    /\ boot' = [meta |-> meta, ff |-> ff, ts |-> Now]
    /\ log' = Append(log, MetadataCommit)
    /\ mgr' = Bootstrapping
    /\ flush' = [f \in Flushers |-> NoFlush]
    /\ comp' = NoCompaction
    /\ lock' = Nobody
    /\ used' = [used EXCEPT !.restarts = @ + 1]
    /\ UNCHANGED <<meta, ff>>

\* IndexesToBootstrap: the memory index of a snapshot holds the revisions
\* since it, read from the log from the fast-forward timestamp on; the one of
\* an index that is backfilled starts after the upper bound.
Bootstrapped ==
    LET b == boot.meta
        current == Max({b.ts, boot.ff})
    IN  CASE b.state = "none" -> NoEntry
          [] b.state = "backfilling" ->
                [NoEntry EXCEPT !.has = TRUE, !.state = "backfilling",
                                !.minTs = boot.ts + (IF Kind = "text" THEN 1 ELSE 2)]
          [] OTHER ->
                [NoEntry EXCEPT !.has = TRUE,
                                !.state = IF b.state = "enabled" THEN "ready" ELSE "backfilled",
                                !.disk = b.segments,
                                !.diskTs = IF Kind = "text" THEN current ELSE b.ts,
                                !.minTs = b.ts + 1,
                                !.revisions = {p \in Revisions(current, boot.ts) : p > b.ts}]

\* finish_search_and_vector_bootstrap, in the committer: the revisions of the
\* indexed tables since the upper bound are applied, changes of the metadata
\* are not, and the last snapshot gets the indexes.
FinishBootstrap ==
    /\ ~mgr.ready
    /\ mgr' = IF Bootstrapped.has /\ meta.state # "none"
              THEN [Bootstrapped EXCEPT !.revisions = @ \cup Revisions(boot.ts, Now)]
              ELSE Bootstrapped
    /\ boot' = NoBootstrap
    /\ UNCHANGED <<log, meta, ff, flush, comp, lock, used>>

-----------------------------------------------------------------------------

FlushStep(f) ==
    FlushPick(f) \/ FlushBuild(f) \/ CommitBackfillFlush(f) \/ CommitSnapshotFlush(f)
    \/ MergeFlush(f) \/ CommitMergedFlush(f)

CompactionStep ==
    \/ \E S \in SegmentsToCompact : Compact(S)
    \/ CommitCompaction \/ MergeCompaction \/ CommitMergedCompaction \/ CompactionRetry

Next ==
    \/ \E d \in Docs, value \in Values : Write(d, value)
    \/ Create \/ Enable \/ Disable \/ Drop
    \/ \E f \in Flushers : FlushStep(f) \/ FlushFail(f)
    \/ CompactionStep \/ CompactionFail
    \/ FastForward
    \/ Restart \/ FinishBootstrap

Spec == Init /\ [][Next]_vars

\* The workers run in loops and their jobs end, the bootstrap worker retries
\* until it is done, and the committer handles its message.
Fairness ==
    /\ \A f \in Flushers : WF_vars(FlushPick(f)) /\ []<>(flush[f].pc = "idle")
    /\ []<>(lock = Nobody)
    /\ []<>mgr.ready

FairSpec == Spec /\ Fairness

-----------------------------------------------------------------------------
(* Properties. *)

\* The types of the variables, and who can hold the writer's lock.
TypeOK ==
    /\ log \in Seq([doc : Docs \cup {0}, value : Values \cup {"metadata"}])
    /\ meta.state \in {"none", "backfilling", "backfilled", "enabled"}
    /\ \A s \in meta.segments : s.live \subseteq s.points
    /\ meta.ts <= Now /\ ff <= Now
    /\ mgr.state \in {"none", "backfilling", "backfilled", "ready"}
    /\ mgr.revisions \subseteq 1..Now
    /\ \A f \in Flushers : flush[f].pc \in {"idle", "picked", "built", "merging"}
    /\ comp.pc \in {"idle", "built", "merging", "failed"}
    /\ \A f \in Flushers : flush[f].pc = "merging" <=> lock = f
    /\ comp.pc = "merging" <=> lock = Compactor

\* A merge after a flush and a compaction that overlap: of vectors it merges
\* the deletions and keeps the old versions of documents that were replaced
\* meanwhile, which stay live beside the new ones until the next change.
Merges ==
    \/ comp.pc = "merging" /\ comp'.pc = "idle"
    \/ \E f \in Flushers : flush[f].pc = "merging" /\ flush'[f].pc = "idle"

KeptByMerge ==
    IF Merges /\ Kind = "vector"
    THEN {p \in Live(meta'.segments) : p[2] < RevisionAt(p[1], meta'.ts)
                                      /\ Exists(RevisionAt(p[1], meta'.ts))}
    ELSE {}

\* The segments on disk hold exactly the documents of the table at the
\* snapshot's timestamp, each in one segment; during a backfill those up to
\* the cursor.  Flushes and compactions that overlap neither lose a document
\* nor bring back a deleted one, and keep no old version but those that the
\* merge of vectors does not look at.
SegmentsExactExcept(kept) ==
    meta.state # "none" =>
        /\ Live(meta.segments) \ kept =
              {p \in IndexableAt(meta.ts) : meta.state = "backfilling" => p[1] <= meta.cursor}
        /\ \A s, t \in meta.segments :
              s # t => {p[1] : p \in s.live \ kept} \cap {p[1] : p \in t.live \ kept} = {}

\* Fault: newer versions in memory do not hide the ones on disk.
SearchResultsFault ==
    Live(mgr.disk)
    \cup {<<log[p].doc, p>> : p \in {q \in mgr.revisions :
             Indexable(q) /\ q = RevisionAt(log[q].doc, Now)}}

\* What a search returns: the disk index without the documents that the memory
\* index has newer versions or deletions of, and the memory index.
SearchResults ==
    LET later == {p \in mgr.revisions : p > mgr.diskTs}
        updated == {log[p].doc : p \in {q \in later : Indexable(RevisionAt(log[q].doc, q - 1))}}
    IN  {p \in Live(mgr.disk) : p[1] \notin updated}
        \cup {<<log[p].doc, p>> : p \in {q \in mgr.revisions :
                 Indexable(q) /\ q = RevisionAt(log[q].doc, Now)}}

\* A search of a ready index returns the documents of the latest snapshot,
\* whatever flushes, compactions, fast-forwards and restarts came before, and
\* the old versions that a merge of vectors kept.
SearchExactExcept(kept) ==
    mgr.ready /\ mgr.state = "ready" /\ meta.state = "enabled" =>
        SearchResults \ kept = IndexableAt(Now)

\* The index manager refuses the end of this backfill, now and for ever: after
\* a restart its memory index begins later than the snapshot that the backfill
\* has been walking since before.
Refused ==
    /\ meta.state = "backfilling" /\ meta.ts > 0
    /\ mgr.ready /\ mgr.has /\ mgr.minTs > meta.ts + (IF Kind = "text" THEN 0 ELSE 1)

\* A backfill ends, although jobs fail and the process restarts, unless a
\* restart came after its first part: then it never does.
BackfillEnds ==
    meta.state = "backfilling" ~> meta.state # "backfilling" \/ Refused

=============================================================================
