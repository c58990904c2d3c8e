--------------------------- MODULE SchemaValidation ---------------------------
(***************************************************************************)
(* The schemas of one namespace and the documents of one table.            *)
(*                                                                         *)
(* A push submits a schema as pending, the schema worker validates it      *)
(* against the documents of the table at a timestamp, and the push makes   *)
(* it active.  Meanwhile mutations write documents, which the active       *)
(* schema refuses and a pending or validated one is failed by; other       *)
(* pushes overwrite schemas; and a snapshot import fills a hidden tablet   *)
(* that replaces the table in the end.                                     *)
(*                                                                         *)
(* Every transaction runs on the snapshot it began at and commits later,   *)
(* unless a commit in between wrote something it read.  A schema is the    *)
(* set of the values that it allows.                                       *)
(***************************************************************************)
EXTENDS Naturals, FiniteSets, FiniteSetsExt, SequencesExt, TLC

CONSTANTS
    Docs,         \* document ids: 1..n, in table order
    Values,       \* what documents hold
    Schemas,      \* sets of values
    MaxSchemas,   \* bound: schema documents
    MaxWrites,    \* bound: mutations
    MaxPushes,    \* bound: transactions of pushes
    MaxImports,   \* bound: imports
    MaxDrops,     \* bound: deletions of the table
    MaxFaults,    \* bound: crashes of the process
    MaxRetries,   \* bound: further attempts of imports
    CommitFailures, \* MAX_COMMIT_FAILURES of the schema worker
    Summaries     \* whether the table summaries are there: subset of BOOLEAN

\* What is assumed of the constants.
SchemaAssumption ==
    /\ Docs \subseteq Nat \ {0} /\ IsFiniteSet(Docs)
    /\ Schemas \subseteq SUBSET Values
    /\ MaxSchemas \in Nat /\ CommitFailures \in Nat \ {0}
    /\ Summaries \subseteq BOOLEAN /\ Summaries # {}

VARIABLES
    rows,      \* the `_schemas` table
    created,   \* number of schemas created
    progress,  \* schemas with a row of `_schema_validation_progress`
    registry,  \* the schema registry of the latest snapshot
    table,     \* the documents of the active tablet
    hidden,    \* the documents of the import's hidden tablet
    tx,        \* the open transaction of each actor
    worker,    \* the schema worker
    import,    \* the snapshot import
    used       \* the bounds used up

vars == <<rows, created, progress, registry, table, hidden, tx, worker, import, used>>

Ids == 1..MaxSchemas
NoDoc == "none"
NoRow == [state |-> "none", schema |-> {}]
UniqueStates == {"Pending", "Validated", "Active"}
NoEntry == [id |-> 0, schema |-> {}]
NoDocs == [d \in Docs |-> NoDoc]
Actors == {"mutation", "push", "worker", "import"}

Row(state, schema) == [state |-> state, schema |-> schema]

-----------------------------------------------------------------------------
(* The schema registry. *)

\* NamespacedSchemaRegistry::update for a row that changes from old to new.
RegistryUpdate(reg, id, old, new) ==
    LET cached == old.state \in UniqueStates /\ reg[old.state].id # 0
                  /\ reg[old.state].schema = old.schema
        removed == IF cached THEN [reg EXCEPT ![old.state] = NoEntry] ELSE reg
    IN  IF old.state \notin UniqueStates \cup {"none"} THEN reg
        ELSE IF new.state \in UniqueStates
             THEN [removed EXCEPT ![new.state] = [id |-> id, schema |-> new.schema]]
        ELSE removed

-----------------------------------------------------------------------------
(* Transactions. *)

NoWrites == [x \in {} |-> NoDoc]
NoTx == [pc |-> "none"]
Conflicted == [pc |-> "conflict"]

Begin ==
    [pc |-> "open", reads |-> {<<"table">>}, registry |-> registry, rows |-> [i \in {} |-> NoRow],
     progress |-> [i \in {} |-> FALSE], docs |-> NoWrites, hidden |-> NoWrites, swap |-> FALSE]

RowOf(t, id) == IF id \in DOMAIN t.rows THEN t.rows[id] ELSE rows[id]
HasProgress(t, id) == IF id \in DOMAIN t.progress THEN t.progress[id] ELSE id \in progress

Reads(t, keys) == [t EXCEPT !.reads = @ \cup keys]

\* SystemMetadataModel::insert, patch and delete.
WriteRow(t, id, new) ==
    [t EXCEPT !.rows = (id :> new) @@ @, !.reads = @ \cup {<<"row", id>>},
              !.registry = RegistryUpdate(@, id, RowOf(t, id), new)]

WriteProgress(t, id, exists) ==
    [t EXCEPT !.progress = (id :> exists) @@ @, !.reads = @ \cup {<<"progress", id>>}]

\* What the commit of t writes, as the keys of rows and index ranges.
WrittenKeys(t) ==
    UNION {{<<"row", i>>, <<"state", rows[i].state>>, <<"state", t.rows[i].state>>, <<"schemas">>} :
              i \in DOMAIN t.rows}
    \cup {<<"progress", i>> : i \in DOMAIN t.progress}
    \cup {<<"doc", d>> : d \in DOMAIN t.docs}
    \cup (IF t.swap THEN {<<"table">>} ELSE {})

\* The registry of the new snapshot: the rows are applied in the order of
\* their ids, which are random.
Applied(t, order) ==
    LET Step(reg, id) == RegistryUpdate(reg, id, rows[id], t.rows[id])
        ids == SetToSortSeq(DOMAIN t.rows, LAMBDA i, j : IF order = "Asc" THEN i < j ELSE i > j)
    IN  FoldLeft(Step, registry, ids)

\* The committer: a transaction without conflict takes effect, and the open
\* ones that read what it wrote will not.
Commit(a) ==
    LET t == tx[a]
        keys == WrittenKeys(t)
    IN  /\ t.pc = "open"
        /\ rows' = t.rows @@ rows
        /\ created' = Max({created} \cup DOMAIN t.rows)
        /\ progress' = {i \in Ids : HasProgress(t, i)}
        /\ \E order \in {"Asc", "Desc"} : registry' = Applied(t, order)
        /\ table' = IF t.swap THEN t.docs ELSE t.docs @@ table
        /\ hidden' = t.hidden @@ hidden
        /\ tx' = [b \in Actors |->
                    IF b = a THEN NoTx
                    ELSE IF tx[b].pc = "open" /\ tx[b].reads \cap keys # {} THEN Conflicted
                    ELSE tx[b]]

\* Fault: the worker follows only the active schema.
TokenKeysActive == {<<"state", "Active">>}

\* The keys that the subscription of the worker follows.
TokenKeys == {<<"state", "Pending">>, <<"state", "Active">>, <<"table">>}

\* The worker's token after the commit of a.
WorkerAfter(a, w) ==
    [w EXCEPT !.token = @ /\ WrittenKeys(tx[a]) \cap TokenKeys = {}]

-----------------------------------------------------------------------------
(* SchemaModel: what its methods do to a transaction.                      *)

\* SchemaRegistry::get_by_state takes the read dependency itself.
GetByState(t, state) == t.registry[state]

StateKeys == {<<"state", s>> : s \in UniqueStates}

\* delete_old_failed_and_overwritten_schemas: those up to k are old enough.
DeleteOld(t, k) ==
    LET old == {i \in 1..k : RowOf(t, i).state \in {"Failed", "Overwritten"}}
    IN  FoldSet(LAMBDA i, u : WriteRow(u, i, NoRow), Reads(t, {<<"schemas">>}), old)

DeleteProgress(t, id) ==
    IF HasProgress(t, id) THEN WriteProgress(t, id, FALSE)
    ELSE Reads(t, {<<"progress", id>>})

MarkOverwritten(t, id, k) ==
    DeleteProgress(DeleteOld(WriteRow(t, id, Row("Overwritten", RowOf(t, id).schema)), k), id)

\* mark_failed of a schema that is not active.
MarkFailed(t, id, k) ==
    LET failed == IF RowOf(t, id).state \in {"Pending", "Validated"}
                  THEN WriteRow(t, id, Row("Failed", RowOf(t, id).schema))
                  ELSE Reads(t, {<<"row", id>>})
    IN  DeleteProgress(DeleteOld(failed, k), id)

\* The schema that is neither active nor done, if there is one.
InProgress(t) ==
    IF GetByState(t, "Pending").id # 0 THEN GetByState(t, "Pending") ELSE GetByState(t, "Validated")

\* enforce_with_table_mapping for a document that the active schema allows.
Enforce(t, value, k) ==
    LET s == InProgress(t)
        u == Reads(t, StateKeys)
    IN  IF s.id # 0 /\ value \notin s.schema THEN MarkFailed(u, s.id, k) ELSE u

ActiveRefuses(t, value) ==
    GetByState(t, "Active").id # 0 /\ value \notin GetByState(t, "Active").schema

OverwriteByState(t, state, k) ==
    LET u == Reads(t, {<<"state", state>>})
    IN  IF GetByState(t, state).id # 0 THEN MarkOverwritten(u, GetByState(t, state).id, k) ELSE u

\* submit_pending.
SubmitPending(t, schema, k) ==
    LET active == GetByState(t, "Active")
        current == InProgress(t)
        cleared == OverwriteByState(OverwriteByState(Reads(t, StateKeys), "Pending", k),
                                    "Validated", k)
    IN  IF active.id # 0 /\ active.schema = schema THEN cleared
        ELSE IF current.id # 0 /\ current.schema = schema THEN Reads(t, StateKeys)
        ELSE WriteRow(cleared, created + 1, Row("Pending", schema))

\* apply: mark_active of a schema that is validated or active.
Apply(t, id, k) ==
    LET u == DeleteProgress(Reads(t, {<<"state", "Active">>, <<"row", id>>}), id)
    IN  IF RowOf(t, id).state = "Active" THEN u
        ELSE WriteRow(OverwriteByState(u, "Active", k), id, Row("Active", RowOf(t, id).schema))

-----------------------------------------------------------------------------
(* Mutations and pushes. *)

Idle == [pc |-> "idle", id |-> 0, schema |-> {}, docs |-> NoDocs, at |-> 0, every |-> 0,
         failures |-> 0, token |-> TRUE]
NoImport == [pc |-> "none", initial |-> [s \in UniqueStates |-> NoEntry]]

Init ==
    /\ rows = [i \in Ids |-> NoRow] /\ created = 0 /\ progress = {}
    /\ registry = [s \in UniqueStates |-> NoEntry]
    /\ table \in [Docs -> Values \cup {NoDoc}] /\ hidden = NoDocs
    /\ tx = [a \in Actors |-> NoTx]
    /\ worker = Idle /\ import = NoImport
    /\ used = [writes |-> 0, pushes |-> 0, imports |-> 0, drops |-> 0, faults |-> 0, retries |-> 0]

stored == <<rows, created, progress, registry, table, hidden>>

\* Opens the transaction t for a, which uses up one of the bound.
Open(a, t, bound, max) ==
    /\ tx[a] = NoTx /\ used[bound] < max
    /\ tx' = [tx EXCEPT ![a] = t]
    /\ used' = [used EXCEPT ![bound] = @ + 1]
    /\ UNCHANGED <<stored, worker, import>>

\* insert_document, patch_inner and replace_inner: refused by the active schema.
Write(d, v) ==
    /\ v # table[d] /\ ~ActiveRefuses(Begin, v)
    /\ \E k \in 0..created :
          Open("mutation", [Reads(Enforce(Begin, v, k), {<<"doc", d>>}) EXCEPT !.docs = d :> v],
               "writes", MaxWrites)

\* delete_inner: no schema is asked.
Delete(d) ==
    /\ table[d] # NoDoc
    /\ Open("mutation", [Reads(Begin, {<<"doc", d>>}) EXCEPT !.docs = d :> NoDoc],
            "writes", MaxWrites)

\* start_push.
PushSubmit(schema) ==
    /\ created < MaxSchemas
    /\ \E k \in 0..created : Open("push", SubmitPending(Begin, schema, k), "pushes", MaxPushes)

\* finish_push.
PushApply(id) ==
    /\ rows[id].state \in {"Validated", "Active"}
    /\ \E k \in 0..created : Open("push", Apply(Begin, id, k), "pushes", MaxPushes)

\* finish_push without a schema: clear_active.
PushClear ==
    \E k \in 0..created : Open("push", OverwriteByState(Begin, "Active", k), "pushes", MaxPushes)

\* delete_tables: enforce_table_deletion, where every schema defines the table.
DropTable ==
    /\ registry["Active"].id = 0
    /\ \E k \in 0..created :
          LET t == Reads(Begin, StateKeys)
              u == IF InProgress(t).id # 0 THEN MarkFailed(t, InProgress(t).id, k) ELSE t
          IN  Open("push", [u EXCEPT !.docs = NoDocs, !.swap = TRUE], "drops", MaxDrops)

\* The committer takes the transaction of a mutation or a push.
Committed(a) ==
    /\ Commit(a)
    /\ worker' = WorkerAfter(a, worker)
    /\ UNCHANGED <<import, used>>

\* A transaction with a conflict: the caller may begin again.
Retry(a) ==
    /\ tx[a] = Conflicted
    /\ tx' = [tx EXCEPT ![a] = NoTx]
    /\ UNCHANGED <<stored, worker, import, used>>

-----------------------------------------------------------------------------
(* The schema worker. *)

WorkerTo(w) == worker' = w /\ UNCHANGED <<stored, tx, import, used>>
WorkerBegins(t) == tx' = [tx EXCEPT !["worker"] = t] /\ UNCHANGED <<stored, worker, import, used>>
WorkerAt(pc) == worker.pc = pc /\ tx["worker"] = NoTx

\* Fault: the active schema must overlap with the new one only.
SkipsOverlap(schema, summary) ==
    \/ registry["Active"].id # 0 /\ registry["Active"].schema \cap schema # {}
    \/ summary /\ \A d \in Docs : table[d] \in schema \cup {NoDoc}

\* must_revalidate_table is false.
Skips(schema, summary) ==
    \/ registry["Active"].id # 0 /\ registry["Active"].schema \subseteq schema
    \/ summary /\ \A d \in Docs : table[d] \in schema \cup {NoDoc}

\* run: the pending schema, the active one and the documents at one timestamp.
WorkerRun ==
    /\ WorkerAt("idle")
    /\ LET pending == registry["Pending"]
       IN  IF pending.id = 0 THEN WorkerTo([Idle EXCEPT !.pc = "wait"])
           ELSE \E summary \in Summaries :
                  WorkerTo([Idle EXCEPT !.pc = "init", !.id = pending.id, !.schema = pending.schema,
                              !.docs = IF Skips(pending.schema, summary) THEN NoDocs ELSE table])

Present(docs) == {d \in Docs : docs[d] # NoDoc}

\* SchemaValidationProgressTracker::new: the row, and after how many documents
\* to report: never here without summaries, and 5% of the documents there are
\* now, rounded up, with them.
WorkerInit ==
    /\ WorkerAt("init")
    /\ \E summary \in Summaries :
          worker' = [worker EXCEPT !.every = IF ~summary THEN Cardinality(Docs) + 1
                                             ELSE IF Present(table) = {} THEN 0 ELSE 1]
    /\ tx' = [tx EXCEPT !["worker"] = WriteProgress(Begin, worker.id, TRUE)]
    /\ UNCHANGED <<stored, import, used>>

\* validate_tables: the next document of the table at the timestamp.
\* record_document_validated divides by the number of documents per report.
WorkerScan ==
    /\ WorkerAt("scan")
    /\ LET left == {d \in Present(worker.docs) : d > worker.at}
           d == Min(left)
       IN  WorkerTo(
             IF left = {} THEN [worker EXCEPT !.pc = "finish"]
             ELSE IF worker.docs[d] \notin worker.schema THEN [worker EXCEPT !.pc = "fail"]
             ELSE [worker EXCEPT !.at = d, !.pc = IF worker.every = 0 THEN "dead"
                                                  ELSE IF worker.every = 1 THEN "report" ELSE "scan"])

\* update_schema_validation_progress: without a row the validation ends,
\* unless all is validated.
WorkerReport ==
    /\ WorkerAt("report") \/ WorkerAt("finish")
    /\ IF worker.id \in progress THEN WorkerBegins(WriteProgress(Begin, worker.id, TRUE))
       ELSE WorkerTo([worker EXCEPT !.pc = IF worker.pc = "report" THEN "wait" ELSE "validate"])

\* The schema that the worker marks as failed.
WorkerTarget == worker.id

WorkerFail ==
    /\ WorkerAt("fail")
    /\ IF rows[WorkerTarget].state \in {"none", "Active"} THEN WorkerTo(Idle)
       ELSE \E k \in 0..created : WorkerBegins(MarkFailed(Begin, WorkerTarget, k))

\* mark_validated.
WorkerValidate ==
    /\ WorkerAt("validate")
    /\ IF rows[worker.id].state # "Pending" THEN WorkerTo(Idle)
       ELSE WorkerBegins(WriteRow(Begin, worker.id, Row("Validated", rows[worker.id].schema)))

After(pc) ==
    CASE pc = "init" -> "scan" [] pc = "report" -> "scan" [] pc = "finish" -> "validate"
      [] OTHER -> "wait"

WorkerCommitted ==
    /\ Commit("worker")
    /\ worker' = WorkerAfter("worker", [worker EXCEPT !.pc = After(@)])
    /\ UNCHANGED <<import, used>>

\* A conflict ends the run, but for mark_failed: that is tried again and given
\* up after MAX_COMMIT_FAILURES.
WorkerConflict ==
    /\ tx["worker"] = Conflicted
    /\ tx' = [tx EXCEPT !["worker"] = NoTx]
    /\ worker' = IF worker.pc # "fail" THEN Idle
                 ELSE IF worker.failures + 1 < CommitFailures
                      THEN [worker EXCEPT !.failures = @ + 1]
                 ELSE [worker EXCEPT !.pc = "wait"]
    /\ UNCHANGED <<stored, import, used>>

\* wait_for_invalidation.
WorkerWake == WorkerAt("wait") /\ ~worker.token /\ WorkerTo(Idle)

-----------------------------------------------------------------------------
(* The snapshot import. *)

\* parse_import: schemas_for_import.  A new import has a new tablet.
ImportStart ==
    /\ import.pc = "none" /\ used.imports < MaxImports
    /\ import' = [pc |-> "insert", initial |-> registry]
    /\ hidden' = NoDocs
    /\ used' = [used EXCEPT !.imports = @ + 1]
    /\ UNCHANGED <<rows, created, progress, registry, table, tx, worker>>

\* The next attempt: parse_import again, with the tablet of the checkpoint.
ImportResume ==
    /\ import.pc = "failed" /\ used.retries < MaxRetries
    /\ import' = [pc |-> "insert", initial |-> registry]
    /\ used' = [used EXCEPT !.retries = @ + 1]
    /\ UNCHANGED <<stored, tx, worker>>

\* insert_import_objects: a document that the active schema refuses ends the
\* import.
ImportInsert(d, v) ==
    /\ import.pc = "insert" /\ tx["import"] = NoTx /\ hidden[d] = NoDoc
    /\ IF ActiveRefuses(Begin, v)
       THEN /\ import' = NoImport
            /\ UNCHANGED <<stored, tx, worker, used>>
       ELSE \E k \in 0..created :
              /\ tx' = [tx EXCEPT !["import"] = [Enforce(Begin, v, k) EXCEPT !.hidden = d :> v]]
              /\ UNCHANGED <<stored, worker, import, used>>

\* ImportSchemaConstraints::validate.
SchemasUnchanged(t) == t.registry = import.initial

\* finalize_import.
ImportFinalize ==
    /\ import.pc = "insert" /\ tx["import"] = NoTx
    /\ IF ~SchemasUnchanged(Begin)
       THEN /\ import' = NoImport
            /\ UNCHANGED <<stored, tx, worker, used>>
       ELSE /\ tx' = [tx EXCEPT !["import"] =
                        [Reads(Begin, StateKeys) EXCEPT !.docs = hidden, !.swap = TRUE]]
            /\ UNCHANGED <<stored, worker, import, used>>

ImportCommitted ==
    /\ Commit("import")
    /\ worker' = WorkerAfter("import", worker)
    /\ import' = IF tx["import"].swap THEN NoImport ELSE import
    /\ UNCHANGED used

\* An attempt that fails for another reason than the user's data.
ImportError ==
    /\ import.pc = "insert" /\ tx["import"] = NoTx /\ used.retries < MaxRetries
    /\ import' = [import EXCEPT !.pc = "failed"]
    /\ UNCHANGED <<stored, tx, worker, used>>

-----------------------------------------------------------------------------

\* The process stops, its open transactions with it, and starts again.
Crash ==
    /\ used.faults < MaxFaults
    /\ used' = [used EXCEPT !.faults = @ + 1]
    /\ tx' = [a \in Actors |-> NoTx]
    /\ worker' = Idle
    /\ import' = IF import.pc = "none" THEN NoImport ELSE [import EXCEPT !.pc = "failed"]
    /\ UNCHANGED stored

WorkerStep ==
    \/ WorkerRun \/ WorkerInit \/ WorkerScan \/ WorkerReport \/ WorkerFail \/ WorkerValidate
    \/ WorkerCommitted \/ WorkerConflict \/ WorkerWake

ImportStep ==
    \/ ImportStart \/ ImportResume \/ ImportFinalize \/ ImportCommitted \/ ImportError
    \/ \E d \in Docs, v \in Values : ImportInsert(d, v)

Next ==
    \/ \E d \in Docs : Delete(d) \/ \E v \in Values : Write(d, v)
    \/ \E s \in Schemas : PushSubmit(s)
    \/ \E id \in Ids : PushApply(id)
    \/ PushClear \/ DropTable
    \/ \E a \in {"mutation", "push"} : Committed(a)
    \/ \E a \in {"mutation", "push", "import"} : Retry(a)
    \/ WorkerStep \/ ImportStep \/ Crash

Spec == Init /\ [][Next]_vars

\* The worker's loop runs on, and the committer decides on what it is given.
Fairness == WF_vars(WorkerStep)

FairSpec == Spec /\ Fairness

-----------------------------------------------------------------------------
(* Properties. *)

TypeOK ==
    /\ rows \in [Ids -> [state : UniqueStates \cup {"none", "Failed", "Overwritten"},
                         schema : SUBSET Values]]
    /\ created \in 0..MaxSchemas /\ progress \subseteq Ids
    /\ registry \in [UniqueStates -> [id : Ids \cup {0}, schema : SUBSET Values]]
    /\ table \in [Docs -> Values \cup {NoDoc}] /\ hidden \in [Docs -> Values \cup {NoDoc}]
    /\ worker.id \in Ids \cup {0}

\* Every document of the table matches a schema that is validated or active,
\* though the worker looks at an old snapshot, skips tables, and documents
\* arrive by mutations and by imports at any time.
SchemasHold ==
    \A i \in Ids : rows[i].state \in {"Validated", "Active"} =>
        \A d \in Docs : table[d] \in rows[i].schema \cup {NoDoc}

=============================================================================
