------------------------------- MODULE MCDerived ------------------------------
(***************************************************************************)
(* The instances of IndexBackfill and TableLifecycle that TLC checks: two  *)
(* kinds of data derived from the documents of a table, the rows of an     *)
(* index and the counts of its tablets, that are built beside commits,     *)
(* retention and restarts.  The two models share no variable, so a         *)
(* behaviour of both says no more than one behaviour of each: Init chooses *)
(* the component that moves.                                               *)
(***************************************************************************)
EXTENDS IndexBackfill

CONSTANTS t1, t2, NoTablet, NoSummaries, Failed

VARIABLES
  component,  \* the one that moves
  log, latest, snapshot, pending, recent, minDoc, checkpoint, worker,
  toDelete, purged, deletedRx, counted, restarts

\* A tablet that is created and dropped by the first two commits is out of the
\* documents' retention once its minimum is 3.
Tables == INSTANCE TableLifecycle WITH
  Tablets <- {t1, t2}, MaxTs <- 3, MaxDocs <- 1, MaxRestarts <- 1, MinDocs <- {2, 3},
  LongOutage <- FALSE

ASSUME Tables!LifecycleAssumption

tableVars ==
  <<log, latest, snapshot, pending, recent, minDoc, checkpoint, worker, toDelete, purged,
    deletedRx, counted, restarts>>

MCInit ==
  /\ component \in {"backfill", "tables"}
  /\ Init /\ Tables!Init
  /\ component # "backfill" => documents = {}

MCNext ==
  /\ component' = component
  /\ \/ component = "backfill" /\ Next /\ UNCHANGED tableVars
     \/ component = "tables" /\ Tables!Next /\ UNCHANGED vars

MCSpec == MCInit /\ [][MCNext]_<<component, vars, tableVars>>

\* The summaries count what the log holds (TableLifecycle).
SummariesExact == Tables!SummariesExact

\* Documents are deleted only of tablets out of retention (TableLifecycle).
PurgedOutOfRetention == Tables!PurgedOutOfRetention
===============================================================================
