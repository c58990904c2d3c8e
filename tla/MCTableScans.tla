----------------------------- MODULE MCTableScans -----------------------------
(***************************************************************************)
(* The instances of TableIteration and SchemaValidation that TLC checks:   *)
(* how a snapshot is walked while the tables change, and how schemas are   *)
(* validated by such a walk.  The two models share no variable and the     *)
(* instances of SchemaValidation differ in their bounds, so Init chooses   *)
(* the instance that moves.                                                *)
(***************************************************************************)
EXTENDS TableIteration

VARIABLES
    instance,
    rows, created, progress, registry, table, hidden, tx, worker, import, used

\* Two documents in one table, one in the other.
MCTableOf == <<"a", "a", "b">>

\* Schemas that allow one value, the other, or both.
AllSchemas == {{"a"}, {"b"}, {"a", "b"}}
TwoSchemas == {{"a"}, {"b"}}

\* The worker is scheduled fairly.
Fair == INSTANCE SchemaValidation WITH
    Docs <- {1}, Values <- {"a", "b"}, Schemas <- TwoSchemas, MaxSchemas <- 2,
    MaxWrites <- 1, MaxPushes <- 3, MaxImports <- 0, MaxDrops <- 0, MaxFaults <- 1,
    MaxRetries <- 0, CommitFailures <- 1, Summaries <- BOOLEAN

\* Pushes that overtake each other.
Pushed == INSTANCE SchemaValidation WITH
    Docs <- {1}, Values <- {"a", "b"}, Schemas <- AllSchemas, MaxSchemas <- 2,
    MaxWrites <- 1, MaxPushes <- 3, MaxImports <- 0, MaxDrops <- 0, MaxFaults <- 0,
    MaxRetries <- 0, CommitFailures <- 2, Summaries <- {TRUE}

\* A table of two documents that is walked while it changes or is dropped.
Scanned == INSTANCE SchemaValidation WITH
    Docs <- 1..2, Values <- {"a", "b"}, Schemas <- TwoSchemas, MaxSchemas <- 2,
    MaxWrites <- 1, MaxPushes <- 2, MaxImports <- 0, MaxDrops <- 1, MaxFaults <- 0,
    MaxRetries <- 0, CommitFailures <- 2, Summaries <- {FALSE}

\* Schemas beside an import.
Imported == INSTANCE SchemaValidation WITH
    Docs <- {1}, Values <- {"a", "b"}, Schemas <- TwoSchemas, MaxSchemas <- 2,
    MaxWrites <- 0, MaxPushes <- 2, MaxImports <- 1, MaxDrops <- 0, MaxFaults <- 0,
    MaxRetries <- 0, CommitFailures <- 2, Summaries <- {TRUE}

\* Schemas beside an import that is resumed after a crash.
Resumed == INSTANCE SchemaValidation WITH
    Docs <- {1}, Values <- {"a", "b"}, Schemas <- TwoSchemas, MaxSchemas <- 2,
    MaxWrites <- 0, MaxPushes <- 1, MaxImports <- 1, MaxDrops <- 0, MaxFaults <- 1,
    MaxRetries <- 1, CommitFailures <- 2, Summaries <- {FALSE}

ASSUME TableIterationAssumption
ASSUME /\ Fair!SchemaAssumption /\ Pushed!SchemaAssumption /\ Scanned!SchemaAssumption
       /\ Imported!SchemaAssumption /\ Resumed!SchemaAssumption

schemaVars == <<rows, created, progress, registry, table, hidden, tx, worker, import, used>>
mcvars == <<instance, vars, schemaVars>>

MCInit ==
    /\ Init
    /\ \/ instance \in {"iteration", "pushed", "imported", "resumed"} /\ Pushed!Init
       \/ instance = "fair" /\ Fair!Init
       \/ instance = "scanned" /\ Scanned!Init
    /\ IF instance = "iteration" THEN table = Pushed!NoDocs
       ELSE documents = {} /\ buffered = <<>>

MCNext ==
    /\ instance' = instance
    /\ \/ instance = "iteration" /\ Next /\ UNCHANGED schemaVars
       \/ instance = "fair" /\ Fair!Next /\ UNCHANGED vars
       \/ instance = "pushed" /\ Pushed!Next /\ UNCHANGED vars
       \/ instance = "scanned" /\ Scanned!Next /\ UNCHANGED vars
       \/ instance = "imported" /\ Imported!Next /\ UNCHANGED vars
       \/ instance = "resumed" /\ Resumed!Next /\ UNCHANGED vars

\* The fairness of SchemaValidation, for the instance that is scheduled fairly.
MCSpec ==
    MCInit /\ [][MCNext]_mcvars /\ WF_schemaVars(instance = "fair" /\ Fair!WorkerStep)

\* Every document matches the schemas that are validated or active
\* (SchemaValidation).  Not where imports are resumed: a resumed import does
\* not check the rows it has skipped.
DocumentsMatch ==
    /\ instance = "fair" => Fair!SchemasHold
    /\ instance = "pushed" => Pushed!SchemasHold
    /\ instance = "scanned" => Scanned!SchemasHold
    /\ instance = "imported" => Imported!SchemasHold

\* A pending schema is decided (SchemaValidation).
PendingSchemaDecided ==
    \A i \in 1..2 : (instance = "fair" /\ rows[i].state = "Pending" /\ worker.pc # "dead")
                      ~> (rows[i].state # "Pending" \/ worker.pc = "dead")
===============================================================================
