------------------------------ MODULE MCWorkers ------------------------------
(***************************************************************************)
(* The instances of SearchIndex and SnapshotImport that TLC checks: what   *)
(* the workers of search indexes and of imports write beside pushes,       *)
(* mutations, failures and restarts.  The two models share no variable and *)
(* their instances differ in their bounds, so Init chooses the instance    *)
(* that moves.                                                             *)
(***************************************************************************)
EXTENDS Naturals

CONSTANT Instances  \* the instances of this configuration

VARIABLE instance   \* the one that moves

VARIABLES
    log, meta, ff, mgr, boot, flush, comp, lock, search_used,
    kept            \* history: the old versions that merges of vectors kept

searchVars == <<log, meta, ff, mgr, boot, flush, comp, lock, search_used, kept>>

\* A text index whose jobs fail, also while a restart interrupts its backfill.
Fair == INSTANCE SearchIndex WITH
    Kind <- "text", Docs <- 1..2, PartSize <- 1, MinCompactionSegments <- 2,
    MaxCompactionSegments <- 2, MaxWrites <- 3, MaxPushes <- 0, MaxFaults <- 1,
    MaxRestarts <- 1, MaxCompactions <- 1, MaxFastForwards <- 0, Replaces <- FALSE,
    Unindexable <- FALSE, PushWhileBootstrapping <- FALSE, RestartMidBackfill <- TRUE,
    CanDrop <- FALSE, used <- search_used

\* A text index that is enabled, fast-forwarded and loaded again.
Restarted == INSTANCE SearchIndex WITH
    Kind <- "text", Docs <- 1..2, PartSize <- 1, MinCompactionSegments <- 2,
    MaxCompactionSegments <- 2, MaxWrites <- 3, MaxPushes <- 1, MaxFaults <- 0,
    MaxRestarts <- 1, MaxCompactions <- 0, MaxFastForwards <- 1, Replaces <- TRUE,
    Unindexable <- FALSE, PushWhileBootstrapping <- FALSE, RestartMidBackfill <- TRUE,
    CanDrop <- FALSE, used <- search_used

\* A vector index that is flushed, compacted and dropped while its documents
\* are replaced and deleted.
Vectors == INSTANCE SearchIndex WITH
    Kind <- "vector", Docs <- 1..2, PartSize <- 1, MinCompactionSegments <- 2,
    MaxCompactionSegments <- 2, MaxWrites <- 3, MaxPushes <- 1, MaxFaults <- 1,
    MaxRestarts <- 0, MaxCompactions <- 1, MaxFastForwards <- 0, Replaces <- TRUE,
    Unindexable <- FALSE, PushWhileBootstrapping <- FALSE, RestartMidBackfill <- TRUE,
    CanDrop <- TRUE, used <- search_used

VARIABLES imports, tablets, made, active, deleting, worker, import_used

importVars == <<imports, tablets, made, active, deleting, worker, import_used>>

\* Failed, rejected and canceled attempts.
Import == INSTANCE SnapshotImport WITH
    Modes <- {"Replace"}, Rows <- 1, MaxImports <- 2, MaxTablets <- 3, MaxInserts <- 1,
    MaxDeletes <- 0, MaxCancels <- 1, MaxCopies <- 2, MaxRejects <- 1, MaxCrashes <- 1,
    MaxFailures <- 2, used <- import_used

\* Files of four rows, in attempts that fail.
Retried == INSTANCE SnapshotImport WITH
    Modes <- {"Replace", "RequireEmpty"}, Rows <- 4, MaxImports <- 2, MaxTablets <- 4,
    MaxInserts <- 1, MaxDeletes <- 0, MaxCancels <- 0, MaxCopies <- 2, MaxRejects <- 0,
    MaxCrashes <- 1, MaxFailures <- 2, used <- import_used

\* Cancellations and mutations that delete, in all modes.
Canceled == INSTANCE SnapshotImport WITH
    Modes <- {"Append", "Replace", "RequireEmpty"}, Rows <- 1, MaxImports <- 2,
    MaxTablets <- 3, MaxInserts <- 1, MaxDeletes <- 1, MaxCancels <- 1, MaxCopies <- 2,
    MaxRejects <- 0, MaxCrashes <- 0, MaxFailures <- 1, used <- import_used

ASSUME
    /\ Fair!SearchIndexAssumption /\ Restarted!SearchIndexAssumption
    /\ Vectors!SearchIndexAssumption
    /\ Import!ImportAssumption /\ Retried!ImportAssumption /\ Canceled!ImportAssumption

MCInit ==
    /\ instance \in Instances
    /\ Fair!Init /\ kept = {}
    /\ IF instance = "retried" THEN Retried!Init ELSE Import!Init

SearchNext ==
    /\ UNCHANGED importVars
    /\ \/ instance = "fair" /\ Fair!Next /\ UNCHANGED kept
       \/ instance = "restarted" /\ Restarted!Next /\ UNCHANGED kept
       \/ instance = "vectors" /\ Vectors!Next /\ kept' = kept \cup Vectors!KeptByMerge

ImportNext ==
    /\ UNCHANGED searchVars
    /\ \/ instance = "import" /\ Import!Next
       \/ instance = "retried" /\ Retried!Next
       \/ instance = "canceled" /\ Canceled!Next

MCNext == instance' = instance /\ (SearchNext \/ ImportNext)

mcvars == <<instance, searchVars, importVars>>

MCSpec == MCInit /\ [][MCNext]_mcvars

\* The segments hold exactly what was indexed (SearchIndex).
SegmentsExact == Fair!SegmentsExactExcept(kept)

\* A search finds exactly the documents of the latest snapshot (SearchIndex).
SearchExact == Fair!SearchExactExcept(kept)

\* A backfill ends, or was interrupted after its first part (SearchIndex).
BackfillEnds == instance = "fair" /\ Fair!Fairness => Fair!BackfillEnds

\* No row goes into the table before all have been imported, unless a mutation
\* deleted one (SnapshotImport).
NoPartialData ==
    [][/\ instance = "import" => Import!NoPartialDataStep
       /\ instance = "retried" => Retried!NoPartialDataStep
       /\ instance = "canceled" /\ import_used.deletes = 0 => Canceled!NoPartialDataStep]_mcvars

\* No row goes into the table before all have been imported, whatever mutations
\* do to the table (SnapshotImport).
NoIntermediateState == [][Canceled!NoPartialDataStep]_mcvars

\* An import that has been confirmed ends (SnapshotImport).
ImportEnds == instance = "import" /\ Import!Fairness => Import!ImportEnds
===============================================================================
