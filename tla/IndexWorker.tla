----------------------------- MODULE IndexWorker -----------------------------
(***************************************************************************)
(* How IndexWorker (database_index_workers/mod.rs) schedules backfills: the*)
(* loop of run, the queue of pending backfills, the map of running tasks   *)
(* and the channel of progress reports.  Pending backfills of one table at *)
(* the same cursor become one task.  What a task writes into its indexes is*)
(* IndexBackfill; here a task only goes through its steps.                 *)
(***************************************************************************)
EXTENDS Naturals, FiniteSets, Sequences, SequencesExt, Functions

CONSTANTS
  NumIndexes,      \* indexes 1..NumIndexes, in by_id order
  TabletOf,        \* the table of each index
  MaxConcurrency,  \* INDEX_BACKFILL_CONCURRENCY
  MaxClock,        \* bound: timestamps that transactions read
  MaxFailures      \* bound: tasks that fail and restarts of the process

Indexes == 1..NumIndexes

\* What is assumed of the constants.
IndexWorkerAssumption ==
  /\ NumIndexes \in Nat /\ MaxConcurrency \in Nat \ {0}
  /\ MaxClock \in Nat \ {0} /\ MaxFailures \in Nat
  /\ DOMAIN TabletOf = Indexes

VARIABLES
  index,        \* _index: state and retention_started
  progress,     \* the cursor in _index_backfills
  in_progress_index_ids,
  in_progress,  \* JoinMap: the indexes of a task -> the task
  pending,      \* sequence of [index, cursor]
  channel,      \* progress_rx: the indexes a report is about
  pc,           \* "poll": run starts; "select": it waits
  observed,     \* what the subscription of run covers, as read
  clock,        \* the latest timestamp; those that nobody read are not told apart
  failures

metadataVars == <<index, progress>>
workerVars == <<in_progress_index_ids, in_progress, pending>>
vars == <<metadataVars, workerVars, channel, pc, observed, clock, failures>>

\* BackfillCursor: a snapshot and whether documents were copied from it.
NoCursor == [snapshot |-> 0, copied |-> FALSE]
Cursors == [snapshot : 0..MaxClock, copied : BOOLEAN]

Steps ==
  {"begin", "snapshot", "initialize", "copy", "retention", "finish", "done", "failed"}

TypeOK ==
  /\ index \in [Indexes -> [state : {"none", "backfilling", "backfilled"},
                            retention_started : BOOLEAN]]
  /\ progress \in [Indexes -> Cursors]
  /\ in_progress_index_ids \subseteq Indexes
  /\ \A key \in DOMAIN in_progress :
       /\ key \in Seq(Indexes)
       /\ in_progress[key] \in [cursor : Cursors, step : Steps, needs : SUBSET Indexes,
                                reported : BOOLEAN, ts : 0..MaxClock]
  /\ Cardinality(DOMAIN in_progress) <= MaxConcurrency
  /\ pending \in Seq([index : Indexes, cursor : Cursors])
  /\ channel \in Seq(SUBSET Indexes)
  /\ pc \in {"poll", "select"}
  /\ clock \in 1..MaxClock /\ failures \in 0..MaxFailures

Init ==
  /\ index = [i \in Indexes |-> [state |-> "none", retention_started |-> FALSE]]
  /\ progress = [i \in Indexes |-> NoCursor]
  /\ in_progress_index_ids = {} /\ in_progress = <<>> /\ pending = <<>>
  /\ channel = <<>> /\ pc = "poll" /\ observed = <<>>
  /\ clock = 1 /\ failures = 0

TimestampsRead ==
  {in_progress[key].ts : key \in DOMAIN in_progress} \cup
  {e.cursor.snapshot : e \in Range(pending)} \cup {progress[i].snapshot : i \in Indexes}

\* A commit has a later timestamp than every transaction that began before it.
Commit ==
  IF clock \in TimestampsRead
  THEN clock < MaxClock /\ clock' = clock + 1
  ELSE UNCHANGED clock

\* add_application_index.
AddIndex(i) ==
  /\ index[i].state = "none"
  /\ index' = [index EXCEPT ![i].state = "backfilling"]
  /\ Commit
  /\ UNCHANGED <<progress, workerVars, channel, pc, observed, failures>>

-----------------------------------------------------------------------------
(* The loop of run.                                                        *)

\* A backfill that is neither running nor queued at this cursor.
is_new(i) ==
  /\ index[i].state = "backfilling"
  /\ i \notin in_progress_index_ids
  /\ [index |-> i, cursor |-> progress[i]] \notin Range(pending)

new_entries ==
  LET new == SelectSeq([i \in Indexes |-> i], is_new) IN
  [n \in DOMAIN new |-> [index |-> new[n], cursor |-> progress[new[n]]]]

NewTask(cursor) ==
  [cursor |-> cursor, step |-> "begin", needs |-> {}, reported |-> FALSE, ts |-> 0]

\* queue_index_backfill: the head of the queue and every entry of its table at
\* its cursor become one task.  A task with the same indexes is replaced.
queue_index_backfill(w) ==
  LET head == Head(w.pending)
      same(e) == TabletOf[e.index] = TabletOf[head.index] /\ e.cursor = head.cursor
      entries == <<head>> \o SelectSeq(Tail(w.pending), same)
      key == [n \in DOMAIN entries |-> entries[n].index] IN
  [tasks |-> [k \in DOMAIN w.tasks \cup {key} |->
                IF k = key THEN NewTask(head.cursor) ELSE w.tasks[k]],
   pending |-> SelectSeq(Tail(w.pending), LAMBDA e : ~same(e)),
   ids |-> w.ids \cup Range(key)]

has_capacity(w) == Cardinality(DOMAIN w.tasks) < MaxConcurrency

\* run up to its select: the metadata is read, and work started.
Poll ==
  LET queue == pending \o new_entries
      start(w, n) == IF has_capacity(w) /\ w.pending # <<>> THEN queue_index_backfill(w) ELSE w
      started == FoldLeft(start, [tasks |-> in_progress, pending |-> queue,
                                  ids |-> in_progress_index_ids], queue) IN
  /\ pc = "poll"
  /\ in_progress' = started.tasks
  /\ pending' = started.pending
  /\ in_progress_index_ids' = started.ids
  /\ pc' = "select" /\ observed' = metadataVars
  /\ UNCHANGED <<metadataVars, channel, clock, failures>>

Finished == {key \in DOMAIN in_progress : in_progress[key].step \in {"done", "failed"}}

\* Fault: the indexes of a task that failed stay in progress.
released_if_done(key) ==
  IF in_progress[key].step = "done" THEN in_progress_index_ids \ Range(key)
  ELSE in_progress_index_ids

released(key) == in_progress_index_ids \ Range(key)

\* join_next.
Joined(key) ==
  /\ pc = "select" /\ key \in Finished
  /\ in_progress_index_ids' = released(key)
  /\ in_progress' = Restrict(in_progress, DOMAIN in_progress \ {key})
  /\ pc' = "poll"
  /\ UNCHANGED <<metadataVars, pending, channel, observed, clock, failures>>

\* progress_rx.recv, unless a task has finished: the cursors move, or stay
\* while table summaries are bootstrapping.
ReceiveProgress ==
  /\ pc = "select" /\ Finished = {} /\ channel # <<>>
  /\ channel' = Tail(channel)
  /\ \/ progress' = [i \in Indexes |-> IF i \in Head(channel)
                                       THEN [progress[i] EXCEPT !.copied = TRUE]
                                       ELSE progress[i]]
     \/ UNCHANGED progress
  /\ Commit
  /\ pc' = "poll"
  /\ UNCHANGED <<index, workerVars, observed, failures>>

\* wait_for_invalidation.
Invalidated ==
  /\ pc = "select" /\ Finished = {} /\ channel = <<>>
  /\ observed # metadataVars
  /\ pc' = "poll"
  /\ UNCHANGED <<metadataVars, workerVars, channel, observed, clock, failures>>

-----------------------------------------------------------------------------
(* backfill_tablet.                                                        *)

Step(key, step) == in_progress' = [in_progress EXCEPT ![key].step = step]

Running(key, step) == key \in DOMAIN in_progress /\ in_progress[key].step = step

AllBackfilling(key) == \A i \in Range(key) : index[i].state = "backfilling"

\* The indexes that retention has not been started for.
needs_backfill(key) == {i \in Range(key) : ~index[i].retention_started}

\* begin_backfill and the decision to resume, start or skip the copy.
Begin(key) ==
  /\ Running(key, "begin")
  /\ LET needs == needs_backfill(key) IN
     in_progress' = [in_progress EXCEPT
       ![key].needs = needs,
       ![key].step = CASE ~AllBackfilling(key)           -> "failed"
                       [] needs = {}                     -> "retention"
                       [] in_progress[key].cursor.copied -> "copy"
                       [] OTHER                          -> "snapshot"]
  /\ UNCHANGED <<metadataVars, in_progress_index_ids, pending, channel, pc, observed, clock, failures>>

\* begin_system: the transaction reads the latest timestamp, which other
\* transactions that are open may have read too.
Snapshot(key) ==
  /\ Running(key, "snapshot")
  /\ in_progress' = [in_progress EXCEPT ![key].ts = clock, ![key].step = "initialize"]
  /\ UNCHANGED <<metadataVars, in_progress_index_ids, pending, channel, pc, observed, clock,
                 failures>>

\* initialize_database_index_backfill for each of them at the timestamp the
\* transaction began at, and its commit, which has a later one.
Initialize(key) ==
  /\ Running(key, "initialize")
  /\ progress' = [i \in Indexes |-> IF i \in in_progress[key].needs
                                    THEN [snapshot |-> in_progress[key].ts, copied |-> FALSE]
                                    ELSE progress[i]]
  /\ Commit
  /\ Step(key, "copy")
  /\ UNCHANGED <<index, in_progress_index_ids, pending, channel, pc, observed, failures>>

\* write_index_entries reports a cursor; one report per task.
Report(key) ==
  /\ Running(key, "copy") /\ ~in_progress[key].reported
  /\ channel' = Append(channel, in_progress[key].needs)
  /\ in_progress' = [in_progress EXCEPT ![key].reported = TRUE]
  /\ UNCHANGED <<metadataVars, in_progress_index_ids, pending, pc, observed, clock, failures>>

\* backfill_from_ts returns.
Copied(key) ==
  /\ Running(key, "copy")
  /\ Step(key, "retention")
  /\ UNCHANGED <<metadataVars, in_progress_index_ids, pending, channel, pc, observed, clock, failures>>

\* begin_retention for each index; one that is not backfilling fails the task.
BeginRetention(key) ==
  /\ Running(key, "retention")
  /\ IF AllBackfilling(key)
     THEN /\ index' = [i \in Indexes |-> [index[i] EXCEPT !.retention_started = @ \/ i \in Range(key)]]
          /\ Commit /\ Step(key, "finish")
     ELSE Step(key, "failed") /\ UNCHANGED <<index, clock>>
  /\ UNCHANGED <<progress, in_progress_index_ids, pending, channel, pc, observed, failures>>

\* run_retention and finish_backfill.
Finish(key) ==
  /\ Running(key, "finish")
  /\ IF AllBackfilling(key)
     THEN /\ index' = [i \in Indexes |-> IF i \in Range(key)
                                         THEN [index[i] EXCEPT !.state = "backfilled"]
                                         ELSE index[i]]
          /\ Commit /\ Step(key, "done")
     ELSE Step(key, "failed") /\ UNCHANGED <<index, clock>>
  /\ UNCHANGED <<progress, in_progress_index_ids, pending, channel, pc, observed, failures>>

\* Any step may fail.
Fails(key) ==
  /\ key \in DOMAIN in_progress \ Finished /\ failures < MaxFailures
  /\ Step(key, "failed")
  /\ failures' = failures + 1
  /\ UNCHANGED <<metadataVars, in_progress_index_ids, pending, channel, pc, observed, clock>>

\* The process restarts.
Restart ==
  /\ failures < MaxFailures /\ failures' = failures + 1
  /\ in_progress_index_ids' = {} /\ in_progress' = <<>> /\ pending' = <<>>
  /\ channel' = <<>> /\ pc' = "poll" /\ observed' = <<>>
  /\ UNCHANGED <<metadataVars, clock>>

TaskStep(key) ==
  \/ Begin(key) \/ Snapshot(key) \/ Initialize(key) \/ Copied(key)
  \/ BeginRetention(key) \/ Finish(key)

Run == Poll \/ (\E key \in DOMAIN in_progress : Joined(key)) \/ ReceiveProgress \/ Invalidated

Next ==
  \/ \E i \in Indexes : AddIndex(i)
  \/ Run
  \/ \E key \in DOMAIN in_progress : TaskStep(key) \/ Report(key) \/ Fails(key)
  \/ Restart

Spec == Init /\ [][Next]_vars

\* The loop and every task make progress; reports, failures and restarts are
\* not owed.
Fairness == WF_vars(Run) /\ WF_vars(\E key \in DOMAIN in_progress : TaskStep(key))

FairSpec == Spec /\ Fairness

-----------------------------------------------------------------------------
(* Properties.                                                             *)

\* "We have done the backfill and the only step left is catch up retention"
\* (of retention_started): no task copies documents into an index that has been
\* handed to retention, by this task or another.
CopiesBeforeRetention ==
  \A key \in DOMAIN in_progress :
    in_progress[key].step = "copy" =>
      \A i \in in_progress[key].needs : ~index[i].retention_started

\* Every index that is added is backfilled in the end, although tasks fail, the
\* process restarts and the queue holds entries that are out of date: a report
\* that comes late queues an index a second time, and the entry of an index that
\* is done fails the task it is grouped with.
IndexesBackfilled ==
  []<>(\A i \in Indexes : index[i].state # "backfilling")

==============================================================================
