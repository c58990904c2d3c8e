---------------------------- MODULE SnapshotImport ----------------------------
(***************************************************************************)
(* Snapshot imports into one table: the `_snapshot_imports` rows, which     *)
(* clients upload, confirm and cancel, and the worker that brings one       *)
(* import at a time from Uploaded to Completed or Failed.                   *)
(*                                                                         *)
(* The worker fills a hidden tablet in batches, notes the tablet in a       *)
(* checkpoint, makes it the table's active tablet in one transaction, and   *)
(* completes the import in another one.  An attempt may fail or the process *)
(* stop at any point; the next attempt goes on with the tablet of the       *)
(* checkpoint, after as many rows as it has.  Mutations write to the active *)
(* tablet all the time.                                                     *)
(*                                                                         *)
(* The rows of the imported file have no `_id`.  Schemas are the subject of *)
(* SchemaValidation.                                                        *)
(***************************************************************************)
EXTENDS Naturals, FiniteSets, FiniteSetsExt

CONSTANTS
    Modes,        \* subset of {"Append", "Replace", "RequireEmpty"}
    Rows,         \* number of rows of an imported file
    MaxImports,   \* bound: imports
    MaxTablets,   \* bound: tablets
    MaxInserts,   \* bound: documents that mutations insert
    MaxDeletes,   \* bound: documents that mutations delete
    MaxCancels,   \* bound: cancellations
    MaxCopies,    \* bound: copies of a row that attempts leave in a tablet
    MaxRejects,   \* bound: attempts that fail for the user's reasons
    MaxCrashes,   \* bound: stops of the process
    MaxFailures   \* SNAPSHOT_IMPORT_MAX_SYSTEM_FAILURES

\* What the models of the import assume of the constants.
ImportAssumption ==
    /\ Modes \subseteq {"Append", "Replace", "RequireEmpty"}
    /\ {Rows, MaxImports, MaxTablets, MaxInserts, MaxDeletes, MaxCancels,
        MaxCopies, MaxRejects, MaxCrashes, MaxFailures} \subseteq Nat

VARIABLES
    imports,   \* the rows of `_snapshot_imports`
    tablets,   \* what each tablet holds: how often each row, and other documents
    made,      \* number of tablets created
    active,    \* the active tablet of the table, 0 for none
    deleting,  \* tablets in state Deleting
    worker,    \* the snapshot import worker
    used       \* the bounds used up

vars == <<imports, tablets, made, active, deleting, worker, used>>
stored == <<imports, tablets, made, active, deleting>>

Ids == 1..MaxImports
TabletIds == 1..MaxTablets
Unfinished == {"Uploaded", "WaitingForConfirmation", "InProgress"}

NoImport == [state |-> "none", mode |-> "none", tablet |-> 0]
Empty == [rows |-> [k \in Ids \X (1..Rows) |-> 0], others |-> 0]
Idle == [pc |-> "idle", id |-> 0, tablet |-> 0, at |-> 0, failures |-> 0, token |-> TRUE]

Count(t) ==
    IF t = 0 THEN 0
    ELSE MapThenSumSet(LAMBDA k : tablets[t].rows[k], Ids \X (1..Rows)) + tablets[t].others

Init ==
    /\ imports = [i \in Ids |-> NoImport]
    /\ tablets = [t \in TabletIds |-> Empty] /\ made = 0 /\ active = 0
    /\ deleting = {}
    /\ worker = Idle
    /\ used = [inserts |-> 0, deletes |-> 0, cancels |-> 0, rejects |-> 0, crashes |-> 0]

Use(bound, max) == used[bound] < max /\ used' = [used EXCEPT ![bound] = @ + 1]

-----------------------------------------------------------------------------
(* Clients. *)

\* update_state: the transitions that are not errors.
MayBecome(old, new) ==
    <<old, new>> \in ({"Uploaded"} \X {"WaitingForConfirmation", "Failed"})
                     \cup ({"WaitingForConfirmation"} \X {"InProgress", "Failed"})
                     \cup ({"InProgress"} \X {"InProgress", "Completed", "Failed"})

\* A client writes the state of import i, which wakes a waiting worker.
Set(i, new) ==
    /\ imports' = [imports EXCEPT ![i].state = new]
    /\ worker' = [worker EXCEPT !.token = FALSE]
    /\ UNCHANGED <<tablets, made, active, deleting>>

\* start_stored_import.
Upload(mode) ==
    \E i \in Ids :
        /\ imports[i].state = "none" /\ \A j \in 1..(i - 1) : imports[j].state # "none"
        /\ imports' = [imports EXCEPT ![i] = [NoImport EXCEPT !.state = "Uploaded", !.mode = mode]]
        /\ worker' = [worker EXCEPT !.token = FALSE]
        /\ UNCHANGED <<tablets, made, active, deleting, used>>

\* confirm_import.
Confirm(i) ==
    /\ imports[i].state = "WaitingForConfirmation"
    /\ Set(i, "InProgress")
    /\ UNCHANGED used

\* cancel_import.
Cancel(i) ==
    /\ imports[i].state \in Unfinished
    /\ Use("cancels", MaxCancels)
    /\ Set(i, "Failed")

\* A mutation inserts a document, and the table if there is none.
Insert ==
    LET new == IF active = 0 THEN made + 1 ELSE active
    IN  /\ new \in TabletIds
        /\ Use("inserts", MaxInserts)
        /\ tablets' = [tablets EXCEPT ![new].others = @ + 1]
        /\ active' = new /\ made' = Max({made, new})
        /\ UNCHANGED <<imports, deleting, worker>>

\* A mutation deletes a document: one that was imported, or another one.
Delete ==
    /\ active # 0 /\ Use("deletes", MaxDeletes)
    /\ \/ /\ tablets[active].others > 0
          /\ tablets' = [tablets EXCEPT ![active].others = @ - 1]
       \/ \E k \in Ids \X (1..Rows) :
             /\ tablets[active].rows[k] > 0
             /\ tablets' = [tablets EXCEPT ![active].rows[k] = @ - 1]
    /\ UNCHANGED <<imports, made, active, deleting, worker>>

-----------------------------------------------------------------------------
(* The worker. *)

To(w) == worker' = w /\ UNCHANGED <<stored, used>>
Here == imports[worker.id]

\* run_once returns an error: the worker backs off.  More failures than count
\* are not told apart.
BackOff == [Idle EXCEPT !.failures = Min({worker.failures + 1, MaxFailures})]

\* fail_import.
FailImport ==
    IF MayBecome(Here.state, "Failed")
    THEN /\ imports' = [imports EXCEPT ![worker.id].state = "Failed"]
         /\ worker' = [worker EXCEPT !.pc = "wait", !.token = FALSE]
         /\ UNCHANGED <<tablets, made, active, deleting>>
    ELSE worker' = BackOff /\ UNCHANGED stored

\* Fault: every error of the system is retried.
NeverGivesUp == FALSE

GivesUp == worker.failures >= MaxFailures

\* What handle_uploaded_state and handle_in_progress_state do with an error of
\* the system.
SystemError ==
    IF GivesUp THEN FailImport ELSE worker' = BackOff /\ UNCHANGED stored

\* run_once: uploaded imports go first.
RunOnce ==
    /\ worker.pc = "idle"
    /\ LET In(s) == {i \in Ids : imports[i].state = s}
       IN  To([worker EXCEPT
                 !.token = TRUE,
                 !.pc = IF In("Uploaded") # {} THEN "parse"
                        ELSE IF In("InProgress") # {} THEN "prepare" ELSE "wait",
                 !.id = IF In("Uploaded") # {} THEN Min(In("Uploaded"))
                        ELSE IF In("InProgress") # {} THEN Min(In("InProgress")) ELSE 0])

\* handle_uploaded_state: info_message_for_import and mark_waiting_for_confirmation.
HandleUploaded ==
    /\ worker.pc = "parse"
    /\ IF Here.mode = "RequireEmpty" /\ Count(active) > 0 THEN FailImport
       ELSE IF MayBecome(Here.state, "WaitingForConfirmation")
            THEN /\ imports' = [imports EXCEPT ![worker.id].state = "WaitingForConfirmation"]
                 /\ worker' = [worker EXCEPT !.pc = "wait", !.token = FALSE]
                 /\ UNCHANGED <<tablets, made, active, deleting>>
       ELSE worker' = BackOff /\ UNCHANGED stored
    /\ UNCHANGED used

\* How many rows of the file the next attempt skips.
NumToSkip(t) == Count(t)

\* prepare_table_for_import.
Prepare ==
    /\ worker.pc = "prepare"
    /\ IF Here.tablet # 0
       THEN IF Here.mode = "Append" \/ Here.tablet \in deleting THEN SystemError
            ELSE /\ worker' = [worker EXCEPT !.pc = "insert", !.tablet = Here.tablet,
                                             !.at = Min({NumToSkip(Here.tablet), Rows})]
                 /\ UNCHANGED stored
       ELSE IF Here.mode = "Append" /\ active # 0
            THEN worker' = [worker EXCEPT !.pc = "insert", !.tablet = active] /\ UNCHANGED stored
       ELSE IF Here.mode = "RequireEmpty" /\ Count(active) > 0 THEN FailImport
       ELSE worker' = [worker EXCEPT !.pc = "create"] /\ UNCHANGED stored
    /\ UNCHANGED used

\* Fault: an existing table is filled in place.
CreateTableInPlace ==
    LET new == IF active = 0 THEN made + 1 ELSE active
    IN  /\ worker.pc = "create" /\ new \in TabletIds
        /\ made' = Max({made, new})
        /\ imports' = [imports EXCEPT ![worker.id].tablet = new]
        /\ worker' = [worker EXCEPT !.pc = "insert", !.tablet = new, !.token = FALSE]
        /\ UNCHANGED <<tablets, active, deleting, used>>

\* create_empty_table: the hidden tablet and its checkpoint in one transaction.
CreateTable ==
    /\ worker.pc = "create" /\ made < MaxTablets
    /\ made' = made + 1
    /\ imports' = [imports EXCEPT ![worker.id].tablet = made + 1]
    /\ worker' = [worker EXCEPT !.pc = "indexes", !.tablet = made + 1, !.token = FALSE]
    /\ UNCHANGED <<tablets, active, deleting, used>>

\* backfill_and_enable_indexes_on_table: the index worker has backfilled the
\* indexes of the tablet.  An attempt that resumes does not wait for it.
EnableIndexes == worker.pc = "indexes" /\ To([worker EXCEPT !.pc = "insert"])

\* insert_import_objects for the next n rows of the file.
InsertRows(n) ==
    /\ worker.pc = "insert" /\ worker.at + n <= Rows
    /\ \A r \in worker.at + 1 .. worker.at + n :
          tablets[worker.tablet].rows[<<worker.id, r>>] < MaxCopies
    /\ IF worker.tablet \in deleting THEN SystemError
       ELSE /\ tablets' = [tablets EXCEPT ![worker.tablet].rows =
                             [k \in Ids \X (1..Rows) |->
                                IF k[1] = worker.id /\ k[2] \in worker.at + 1 .. worker.at + n
                                THEN @[k] + 1 ELSE @[k]]]
            /\ worker' = [worker EXCEPT !.at = @ + n]
            /\ UNCHANGED <<imports, made, active, deleting>>
    /\ UNCHANGED used

\* add_checkpoint_message after the last row.
Checkpoint ==
    /\ worker.pc = "insert" /\ worker.at = Rows
    /\ IF MayBecome(Here.state, "InProgress")
       THEN worker' = [worker EXCEPT !.pc = "finalize", !.token = FALSE] /\ UNCHANGED stored
       ELSE SystemError
    /\ UNCHANGED used

\* finalize_import may go on only for an import that is in progress.
MayFinalize(i) == imports[i].state = "InProgress"

\* finalize_import with activate_tables.
Finalize ==
    /\ worker.pc = "finalize"
    /\ IF ~MayFinalize(worker.id) \/ worker.tablet \in deleting THEN SystemError
       ELSE /\ active' = worker.tablet
            /\ deleting' = IF active \in {0, worker.tablet} THEN deleting ELSE deleting \cup {active}
            /\ worker' = [worker EXCEPT !.pc = "complete"]
            /\ UNCHANGED <<imports, tablets, made>>
    /\ UNCHANGED used

\* complete_import.
Complete ==
    /\ worker.pc = "complete"
    /\ IF MayBecome(Here.state, "Completed")
       THEN /\ imports' = [imports EXCEPT ![worker.id].state = "Completed"]
            /\ worker' = [worker EXCEPT !.pc = "wait", !.token = FALSE]
            /\ UNCHANGED <<tablets, made, active, deleting>>
       ELSE worker' = BackOff /\ UNCHANGED stored
    /\ UNCHANGED used

\* A step of an attempt fails.  Errors of mark_waiting_for_confirmation, the
\* last step of "parse", and of complete_import are not handled.
Error ==
    /\ \/ /\ worker.pc \in {"parse", "prepare", "create", "indexes", "insert", "finalize"}
          /\ SystemError
       \/ /\ worker.pc \in {"parse", "complete"}
          /\ worker' = BackOff /\ UNCHANGED stored
    /\ UNCHANGED used

\* The import is too old, the file is malformed or a schema refuses a row.
Reject ==
    /\ worker.pc \in {"parse", "prepare", "insert", "finalize"}
    /\ Use("rejects", MaxRejects)
    /\ FailImport

\* wait_for_invalidation.
Wake == worker.pc = "wait" /\ ~worker.token /\ To(Idle)

Crash == Use("crashes", MaxCrashes) /\ worker' = Idle /\ UNCHANGED stored

WorkerStep ==
    \/ RunOnce \/ HandleUploaded \/ Prepare \/ CreateTable \/ EnableIndexes \/ Checkpoint
    \/ Finalize \/ Complete \/ Wake \/ \E n \in 1..Rows : InsertRows(n)

Next ==
    \/ \E mode \in Modes : Upload(mode)
    \/ \E i \in Ids : Confirm(i) \/ Cancel(i)
    \/ Insert \/ Delete
    \/ WorkerStep \/ Error \/ Reject \/ Crash

Spec == Init /\ [][Next]_vars

\* The worker's loop goes on, in spite of errors, and the errors that are not
\* handled are not there every time: they are of the system, and "all system
\* failures should be transient".
Fairness == WF_vars(WorkerStep \/ Error) /\ SF_vars(HandleUploaded) /\ SF_vars(Complete)

FairSpec == Spec /\ Fairness

-----------------------------------------------------------------------------
(* Properties. *)

TypeOK ==
    /\ imports \in [Ids -> [state : Unfinished \cup {"none", "Completed", "Failed"},
                            mode : Modes \cup {"none"}, tablet : TabletIds \cup {0}]]
    /\ tablets \in [TabletIds -> [rows : [Ids \X (1..Rows) -> Nat], others : Nat]]
    /\ made \in 0..MaxTablets /\ active \in 0..made /\ deleting \subseteq 1..made
    /\ worker.tablet \in 0..made /\ worker.at \in 0..Rows /\ worker.failures \in 0..MaxFailures

\* "Queries and mutations will not view intermediate states where partial data
\* is imported": a row of an import that does not append never goes into the
\* table itself.
NoPartialDataStep ==
    \A i \in Ids : imports[i].mode # "Append" =>
        \A t \in TabletIds, r \in 1..Rows :
            tablets'[t].rows[<<i, r>>] > tablets[t].rows[<<i, r>>] => t # active

\* An import that has been confirmed ends, and one that was uploaded is parsed.
ImportEnds ==
    \A i \in Ids : /\ imports[i].state = "InProgress" ~> imports[i].state # "InProgress"
                   /\ imports[i].state = "Uploaded" ~> imports[i].state # "Uploaded"

=============================================================================
