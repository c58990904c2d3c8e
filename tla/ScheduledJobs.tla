----------------------------- MODULE ScheduledJobs -----------------------------
(***************************************************************************)
(* Scheduled functions: the _scheduled_jobs table and SchedulerModel       *)
(* (model/src/scheduled_jobs), and the executor that scans the table, runs *)
(* the jobs that are due and records how they ended, with its garbage      *)
(* collector (application/src/scheduled_jobs).  The process may crash      *)
(* anywhere, any transaction may fail, functions may be redeployed as      *)
(* another type and the backend may be stopped.                            *)
(*                                                                         *)
(* A transaction that only reads and writes the job is one step, because   *)
(* its commit validates what it read; the transaction a mutation runs in   *)
(* is long, so its begin and its commit are separate steps.  One namespace *)
(* is modelled.                                                            *)
(***************************************************************************)
EXTENDS Naturals, FiniteSets, FiniteSetsExt

CONSTANTS
  Jobs,           \* ids of _scheduled_jobs documents
  Parallelism,    \* SCHEDULED_JOB_EXECUTION_PARALLELISM
  Retention,      \* SCHEDULED_JOB_RETENTION
  BatchSize,      \* SCHEDULED_JOB_GARBAGE_COLLECTION_BATCH_SIZE, and the limit of cancel_all
  ActionTimeout,  \* how long an action may run
  FunctionTypes,  \* what a scheduled function may be deployed as
  MaxTs,          \* bound: the clock
  MaxFaults,      \* bound: crashes and failed transactions
  MaxPushes,      \* bound: deployments that change a function's type
  MaxStops        \* bound: how often the backend is stopped

ASSUME ScheduledJobsAssumption ==
  /\ Jobs \subseteq Nat \ {0} /\ IsFiniteSet(Jobs)
  /\ Parallelism \in Nat \ {0} /\ Retention \in Nat /\ BatchSize \in Nat \ {0}
  /\ ActionTimeout \in Nat /\ MaxTs \in Nat \ {0}
  /\ FunctionTypes \subseteq {"mutation", "action", "invalid"}
  /\ MaxFaults \in Nat /\ MaxPushes \in Nat /\ MaxStops \in Nat

VARIABLES
  jobs,                 \* the ScheduledJobMetadata document of each id
  udf_type,             \* what the function of each job is deployed as
  now,
  stopped,              \* BackendState::is_stopped
  running_job_ids,
  next_job_ready_time,
  job_finished,         \* the job_finished channel
  subscription,         \* what run_once waits on; NoSubscription before a scan
  task,                 \* the background task executing each job
  started,              \* history: how often each job's action was started
  committed,            \* history: how often each job's mutation committed
  canceled,             \* history: the jobs that were ever canceled
  blamed,               \* history: jobs whose function failed on its own account
  faults, pushes, stops

tableVars == <<jobs, udf_type, now, stopped>>
executorVars == <<running_job_ids, next_job_ready_time, job_finished, subscription>>
historyVars == <<started, committed, canceled, blamed>>
boundVars == <<faults, pushes, stops>>
vars == <<tableVars, executorVars, task, historyVars, boundVars>>

None == 0
Timestamps == 1..MaxTs
NoSubscription == <<>>

Terminal == {"Success", "Failed", "Canceled"}
Live == {"Pending", "InProgress"}

Metadata(state, next_ts, completed_ts, parent) ==
  [state |-> state, next_ts |-> next_ts, completed_ts |-> completed_ts,
   attempts |-> 0, parent |-> parent]

Absent == Metadata("none", None, None, None)
Deleted == Metadata("Deleted", None, None, None)

Idle == [phase |-> "idle", job |-> Absent, begin |-> None, ok |-> FALSE]

MetadataType ==
  [state : Terminal \cup Live \cup {"none", "Deleted"},
   next_ts : Timestamps \cup {None}, completed_ts : Timestamps \cup {None},
   attempts : Nat, parent : Jobs \cup {None}]

Phases == {"idle", "start", "mutation", "fail", "handle_action", "action", "complete", "retry"}

\* The types of all variables.  The fields agree with the state as types.rs
\* says: next_ts is set while a job waits or is in progress, completed_ts once
\* it has ended, so that each of the two indexes finds exactly its jobs.
TypeOK ==
  /\ jobs \in [Jobs -> MetadataType]
  /\ \A j \in Jobs :
       /\ (jobs[j].next_ts # None) = (jobs[j].state \in Live)
       /\ (jobs[j].completed_ts # None) = (jobs[j].state \in Terminal)
  /\ udf_type \in [Jobs -> FunctionTypes] /\ now \in Timestamps /\ stopped \in BOOLEAN
  /\ running_job_ids \subseteq Jobs /\ job_finished \subseteq Jobs
  /\ next_job_ready_time \in Timestamps \cup {None}
  /\ task \in [Jobs -> [phase : Phases, job : MetadataType,
                        begin : Timestamps \cup {None}, ok : BOOLEAN]]
  /\ started \in [Jobs -> Nat] /\ committed \in [Jobs -> Nat]
  /\ canceled \subseteq Jobs /\ blamed \subseteq Jobs
  /\ faults \in 0..MaxFaults /\ pushes \in 0..MaxPushes /\ stops \in 0..MaxStops

\* The executor starts with an empty table (ScheduledJobExecutor::run).
Init ==
  /\ jobs = [j \in Jobs |-> Absent]
  /\ udf_type \in [Jobs -> FunctionTypes]
  /\ now = 1 /\ stopped = FALSE
  /\ running_job_ids = {} /\ next_job_ready_time = None
  /\ job_finished = {} /\ subscription = NoSubscription
  /\ task = [j \in Jobs |-> Idle]
  /\ started = [j \in Jobs |-> 0] /\ committed = [j \in Jobs |-> 0]
  /\ canceled = {} /\ blamed = {}
  /\ faults = 0 /\ pushes = 0 /\ stops = 0

-------------------------------------------------------------------------------
(* SchedulerModel: what a transaction does to the table.                   *)

\* complete: a job canceled in the meantime stays canceled.
Complete(doc, state, ts) ==
  IF doc.state \in Live
  THEN [doc EXCEPT !.state = state, !.next_ts = None, !.completed_ts = ts]
  ELSE doc

\* cancel: ends a job that has not ended, leaves any other alone.  The time is
\* the begin of the transaction.
CancelJobs(table, ids, begin) ==
  [j \in Jobs |-> IF j \in ids /\ table[j].state \in Live
                  THEN Complete(table[j], "Canceled", begin)
                  ELSE table[j]]

\* schedule: the new document; the child of a canceled job is born canceled.
NewJob(table, parent, ts, begin) ==
  IF parent # None /\ table[parent].state = "Canceled"
  THEN Metadata("Canceled", None, begin, parent)
  ELSE Metadata("Pending", ts, None, parent)

\* A transaction replaces the table.
Commit(table) ==
  /\ jobs' = table
  /\ canceled' = canceled \cup {j \in Jobs : table[j].state = "Canceled"}

\* The times schedule may store: never in the past.
ScheduleTimes == now..MaxTs

\* A client, or an action through it, schedules a job.
Schedule(j, parent, ts) ==
  /\ jobs[j] = Absent
  /\ Commit([jobs EXCEPT ![j] = NewJob(jobs, parent, ts, now)])
  /\ UNCHANGED <<udf_type, now, stopped, executorVars, task, started, committed, blamed, boundVars>>

\* A function called from outside schedules.
ClientSchedules(j) ==
  /\ \A k \in Jobs : jobs[k] = Absent => ~(k < j)
  /\ \E ts \in ScheduleTimes : Schedule(j, None, ts)

\* A running action schedules a follow-up, with itself as the parent.
ActionSchedules(j) ==
  /\ \A k \in Jobs : jobs[k] = Absent => ~(k < j)
  /\ \E parent \in Jobs : task[parent].phase = "action" /\ Schedule(j, parent, now)

\* The dashboard or ctx.scheduler.cancel.
Cancel(j) ==
  /\ jobs[j].state \in Live
  /\ Commit(CancelJobs(jobs, {j}, now))
  /\ UNCHANGED <<udf_type, now, stopped, executorVars, task, started, committed, blamed, boundVars>>

\* The first of these jobs in an index order given by Key, at most n of them.
IsFirst(some, all, n, Key(_)) ==
  /\ some \subseteq all
  /\ Cardinality(some) = IF Cardinality(all) < n THEN Cardinality(all) ELSE n
  /\ \A a \in some, b \in all \ some : Key(a) <= Key(b)

NextTs(j) == jobs[j].next_ts
CompletedTs(j) == jobs[j].completed_ts

\* cancel_all: up to the limit, in the order of next_ts.
CancelAll ==
  \E ids \in SUBSET Jobs :
    /\ ids # {} /\ IsFirst(ids, {j \in Jobs : NextTs(j) # None}, BatchSize, NextTs)
    /\ Commit(CancelJobs(jobs, ids, now))
    /\ UNCHANGED <<udf_type, now, stopped, executorVars, task, started, committed, blamed, boundVars>>
-------------------------------------------------------------------------------
(* The executor's loop.                                                    *)

\* Fault: the scan of the table is not part of the subscription.
ReadsBackendOnly(scanned, bound) == [scanned |-> scanned, stopped |-> stopped, docs |-> {}]

\* What the transaction of run_once has read: the backend state and, if it
\* scanned, the index up to the first job it could not start.
Reads(scanned, bound) ==
  [scanned |-> scanned, stopped |-> stopped,
   docs |-> IF scanned
            THEN {<<j, jobs[j]>> : j \in {k \in Jobs : NextTs(k) # None
                                          /\ (bound = None \/ NextTs(k) <= bound)}}
            ELSE {}]

Unstarted == {j \in Jobs : NextTs(j) # None} \ running_job_ids

\* query_and_start_jobs: starts the jobs that are due, in order, as far as the
\* limit allows; the next ready time is that of the first one left.
QueryAndStartJobs ==
  LET due == {j \in Unstarted : NextTs(j) <= now} IN
  \E ids \in SUBSET due :
    /\ IsFirst(ids, due, Parallelism - Cardinality(running_job_ids), NextTs)
    /\ running_job_ids' = running_job_ids \cup ids
    /\ task' = [j \in Jobs |-> IF j \in ids
                               THEN [Idle EXCEPT !.phase = "start", !.job = jobs[j]]
                               ELSE task[j]]
    /\ LET left == Unstarted \ ids
           ready == IF left = {} THEN None ELSE Min({NextTs(j) : j \in left}) IN
       /\ next_job_ready_time' = ready
       /\ subscription' = Reads(TRUE, ready)

\* run_once, up to its select.
RunOnce ==
  /\ subscription = NoSubscription
  /\ \/ /\ stopped
        /\ next_job_ready_time' = None
        /\ subscription' = Reads(FALSE, None)
        /\ UNCHANGED <<running_job_ids, task>>
     \/ /\ ~stopped /\ Cardinality(running_job_ids) = Parallelism
        /\ subscription' = Reads(FALSE, None)
        /\ UNCHANGED <<next_job_ready_time, running_job_ids, task>>
     \/ /\ ~stopped /\ Cardinality(running_job_ids) # Parallelism
        /\ QueryAndStartJobs
  /\ UNCHANGED <<tableVars, job_finished, historyVars, boundVars>>

\* recv_many: takes every finished job at once.
ReceiveFinished ==
  /\ job_finished # {}
  /\ running_job_ids' = running_job_ids \ job_finished
  /\ job_finished' = {}

\* The three branches of run_once's select.
Wake ==
  /\ subscription # NoSubscription
  /\ \/ ReceiveFinished
     \/ /\ job_finished = {} /\ next_job_ready_time \in 1..now
        /\ UNCHANGED <<running_job_ids, job_finished>>
     \/ /\ job_finished = {}
        /\ subscription # Reads(subscription.scanned, next_job_ready_time)
        /\ UNCHANGED <<running_job_ids, job_finished>>
  /\ subscription' = NoSubscription
  /\ UNCHANGED <<tableVars, next_job_ready_time, task, historyVars, boundVars>>
-------------------------------------------------------------------------------
(* execute_job, in a task of its own.                                      *)

InPhase(j, phase) == task[j].phase = phase

To(j, phase) == task' = [task EXCEPT ![j].phase = phase] /\ UNCHANGED job_finished

\* The task ends and its id is sent to the executor.
Finish(j) ==
  /\ task' = [task EXCEPT ![j] = Idle]
  /\ job_finished' = job_finished \cup {j}

\* new_transaction_for_job_state: the document still is the expected one.
Matches(j) == jobs[j] = task[j].job
IsMissing(j) == jobs[j] = Deleted

UnchangedByTask ==
  UNCHANGED <<udf_type, now, stopped, running_job_ids, next_job_ready_time, subscription, boundVars>>

UnchangedTable == UNCHANGED <<jobs, historyVars>>

\* The job has changed: nothing to run.  It is gone: a system error.
StateChanged(j) ==
  /\ \/ ~IsMissing(j) /\ ~Matches(j) /\ Finish(j)
     \/ IsMissing(j) /\ To(j, "retry")
  /\ UnchangedTable

\* A transaction that ends the job and nothing else.
CompleteAs(j, state) == Commit([jobs EXCEPT ![j] = Complete(jobs[j], state, now)])

\* run_function: decides by the deployed type.
RunFunction(j) ==
  /\ InPhase(j, "start")
  /\ \/ StateChanged(j)
     \/ /\ Matches(j)
        /\ \/ /\ udf_type[j] = "mutation"
              /\ task' = [task EXCEPT ![j].phase = "mutation", ![j].begin = now]
              /\ UNCHANGED job_finished /\ UnchangedTable
           \/ udf_type[j] = "action" /\ To(j, "handle_action") /\ UnchangedTable
           \/ /\ udf_type[j] = "invalid"
              /\ CompleteAs(j, "Failed") /\ blamed' = blamed \cup {j}
              /\ Finish(j) /\ UNCHANGED <<started, committed>>
  /\ UnchangedByTask

\* What the transaction of a mutation does to its own job, and the follow-up
\* that it may schedule.
Done(j, table) == [table EXCEPT ![j] = Complete(table[j], "Success", task[j].begin)]
FollowUp(j, table, c) == [table EXCEPT ![c] = NewJob(table, j, now, task[j].begin)]
Unused == {c \in Jobs : jobs[c] = Absent /\ \A k \in Jobs : jobs[k] = Absent => c <= k}

\* What the mutation of j may cancel: to cancel an action that was started after
\* its transaction began is a conflict.
Cancelable(j) == {k \in Jobs : task[k].phase = "action" => task[k].begin <= task[j].begin}
Canceling(j, table, ids) == CancelJobs(table, ids, task[j].begin)

\* The follow-up and the job it may cancel come in either order, in the
\* transaction that completes its own job.
MutationWrites(j) ==
  {Done(j, Canceling(j, jobs, ids)) : ids \in {{}} \cup {{k} : k \in Cancelable(j)}}
    \cup {Done(j, FollowUp(j, Canceling(j, jobs, ids), c)) : ids \in {{}, {j}}, c \in Unused}
    \cup {Done(j, Canceling(j, FollowUp(j, jobs, c), ids)) : ids \in {{}, {j}}, c \in Unused}

\* The commit of a mutation validates the job and the deployed function.
Validated(j) == Matches(j) /\ udf_type[j] = "mutation"

\* handle_mutation, the function succeeded: commit, or an OCC error.
CommitMutation(j) ==
  /\ InPhase(j, "mutation")
  /\ \/ /\ Validated(j)
        /\ \E table \in MutationWrites(j) : Commit(table)
        /\ committed' = [committed EXCEPT ![j] = @ + 1]
        /\ Finish(j) /\ UNCHANGED <<started, blamed>>
     \/ ~Validated(j) /\ To(j, "retry") /\ UnchangedTable
  /\ UnchangedByTask

\* handle_mutation, the function threw: the job is failed in a transaction of
\* its own.
MutationThrows(j) ==
  /\ InPhase(j, "mutation") /\ To(j, "fail") /\ UnchangedTable /\ UnchangedByTask

FailMutation(j) ==
  /\ InPhase(j, "fail")
  /\ \/ StateChanged(j)
     \/ /\ Matches(j) /\ CompleteAs(j, "Failed") /\ blamed' = blamed \cup {j}
        /\ Finish(j) /\ UNCHANGED <<started, committed>>
  /\ UnchangedByTask

\* Fault: an action found in progress is run again.
RestartAction(j) ==
  /\ InPhase(j, "handle_action")
  /\ \/ StateChanged(j)
     \/ /\ Matches(j)
        /\ LET doc == [jobs[j] EXCEPT !.state = "InProgress"] IN
           /\ Commit([jobs EXCEPT ![j] = doc])
           /\ started' = [started EXCEPT ![j] = @ + 1]
           /\ task' = [task EXCEPT ![j].phase = "action", ![j].job = doc, ![j].begin = now]
        /\ UNCHANGED <<job_finished, committed, blamed>>
  /\ UnchangedByTask

\* handle_action: a pending action is marked in progress and then run; one
\* found in progress was interrupted and is failed.
HandleAction(j) ==
  /\ InPhase(j, "handle_action")
  /\ \/ StateChanged(j)
     \/ /\ Matches(j) /\ jobs[j].state = "Pending"
        /\ LET doc == [jobs[j] EXCEPT !.state = "InProgress"] IN
           /\ Commit([jobs EXCEPT ![j] = doc])
           /\ started' = [started EXCEPT ![j] = @ + 1]
           /\ task' = [task EXCEPT ![j].phase = "action", ![j].job = doc, ![j].begin = now]
        /\ UNCHANGED <<job_finished, committed, blamed>>
     \/ /\ Matches(j) /\ jobs[j].state = "InProgress"
        /\ CompleteAs(j, "Failed") /\ Finish(j)
        /\ UNCHANGED <<started, committed, blamed>>
  /\ UnchangedByTask

\* The action returns or throws.
ActionReturns(j) ==
  /\ InPhase(j, "action")
  /\ \E ok \in BOOLEAN : task' = [task EXCEPT ![j].phase = "complete", ![j].ok = ok]
  /\ UNCHANGED job_finished /\ UnchangedTable /\ UnchangedByTask

\* complete_action, tried until it succeeds or finds another state; while the
\* document is missing every try is an error.
CompleteAction(j) ==
  /\ InPhase(j, "complete") /\ ~IsMissing(j)
  /\ \/ ~Matches(j) /\ Finish(j) /\ UnchangedTable
     \/ /\ Matches(j)
        /\ CompleteAs(j, IF task[j].ok THEN "Success" ELSE "Failed")
        /\ blamed' = IF task[j].ok THEN blamed ELSE blamed \cup {j}
        /\ Finish(j) /\ UNCHANGED <<started, committed>>
  /\ UnchangedByTask

\* Fault: a job that failed is not offered again.
RetryDrops(j, ts) == [jobs[j] EXCEPT !.attempts = @ + 1, !.next_ts = None, !.state = "Failed", !.completed_ts = ts]

\* schedule_retry: counts the failure and backs off.
Retried(j, ts) == [jobs[j] EXCEPT !.attempts = @ + 1, !.next_ts = ts]

ScheduleRetry(j) ==
  /\ InPhase(j, "retry")
  /\ \/ ~Matches(j) /\ UnchangedTable
     \/ /\ Matches(j)
        /\ \E ts \in now..(IF now < MaxTs THEN now + 1 ELSE now) :
             Commit([jobs EXCEPT ![j] = Retried(j, ts)])
        /\ UNCHANGED <<started, committed, blamed>>
  /\ Finish(j) /\ UnchangedByTask
-------------------------------------------------------------------------------
(* Faults and the environment.                                             *)

CountFault == faults < MaxFaults /\ faults' = faults + 1 /\ UNCHANGED <<pushes, stops>>

\* A system error.  execute_job retries with the job it was given, which for an
\* action that was started is the one still pending.  An error in
\* schedule_retry is only reported; one in complete_action is tried again.
TaskFails(j) ==
  /\ CountFault
  /\ \/ task[j].phase \in {"start", "mutation", "fail", "handle_action"} /\ To(j, "retry")
     \/ /\ InPhase(j, "action")
        /\ task' = [task EXCEPT ![j].phase = "retry", ![j].job.state = "Pending"]
        /\ UNCHANGED job_finished
     \/ InPhase(j, "retry") /\ Finish(j)
  /\ UnchangedTable
  /\ UNCHANGED <<udf_type, now, stopped, running_job_ids, next_job_ready_time, subscription>>

\* The process stops and a new executor starts.
Crash ==
  /\ CountFault
  /\ running_job_ids' = {} /\ next_job_ready_time' = None /\ job_finished' = {}
  /\ subscription' = NoSubscription
  /\ task' = [j \in Jobs |-> Idle]
  /\ UNCHANGED <<tableVars, historyVars>>

Push(j, type) ==
  /\ pushes < MaxPushes /\ pushes' = pushes + 1
  /\ udf_type[j] # type /\ udf_type' = [udf_type EXCEPT ![j] = type]
  /\ UNCHANGED <<jobs, now, stopped, executorVars, task, historyVars, faults, stops>>

StopBackend ==
  /\ ~stopped /\ stops < MaxStops /\ stops' = stops + 1 /\ stopped' = TRUE
  /\ UNCHANGED <<jobs, udf_type, now, executorVars, task, historyVars, faults, pushes>>

StartBackend ==
  /\ stopped /\ stopped' = FALSE
  /\ UNCHANGED <<jobs, udf_type, now, executorVars, task, historyVars, boundVars>>

\* Time passes; an action is stopped by its time limit.
Tick ==
  /\ now < MaxTs /\ now' = now + 1
  /\ \A j \in Jobs : InPhase(j, "action") => now < task[j].begin + ActionTimeout
  /\ UNCHANGED <<jobs, udf_type, stopped, executorVars, task, historyVars, boundVars>>

\* Fault: jobs are collected when they complete.
CollectableEarly == {j \in Jobs : CompletedTs(j) # None}

\* ScheduledJobGarbageCollector: what the retention no longer keeps.
Collectable == {j \in Jobs : CompletedTs(j) # None /\ CompletedTs(j) + Retention <= now}

CollectGarbage ==
  \E ids \in SUBSET Jobs :
    /\ ids # {} /\ IsFirst(ids, Collectable, BatchSize, CompletedTs)
    /\ Commit([j \in Jobs |-> IF j \in ids THEN Deleted ELSE jobs[j]])
    /\ UNCHANGED <<udf_type, now, stopped, executorVars, task, started, committed, blamed, boundVars>>

TaskStep(j) ==
  \/ RunFunction(j) \/ CommitMutation(j) \/ MutationThrows(j) \/ FailMutation(j)
  \/ HandleAction(j) \/ ActionReturns(j) \/ CompleteAction(j) \/ ScheduleRetry(j)

Next ==
  \/ RunOnce \/ Wake \/ CancelAll \/ CollectGarbage
  \/ Crash \/ StopBackend \/ StartBackend \/ Tick
  \/ \E j \in Jobs :
       \/ ClientSchedules(j) \/ ActionSchedules(j) \/ Cancel(j)
       \/ TaskStep(j) \/ TaskFails(j)
       \/ \E type \in FunctionTypes : Push(j, type)

Spec == Init /\ [][Next]_vars

\* The executor's loop, its tasks and the clock go on; functions return.
Fairness ==
  /\ WF_vars(RunOnce) /\ WF_vars(Wake) /\ WF_vars(Tick)
  /\ \A j \in Jobs : WF_vars(TaskStep(j))

FairSpec == Spec /\ Fairness
-------------------------------------------------------------------------------
(* Properties.                                                             *)

Status == [j \in Jobs |-> jobs[j].state]
Runs == [j \in Jobs |-> started[j] + committed[j]]

\* What the promises about effects assume of deployments: the function of an
\* action in progress is not redeployed as a mutation.  One that is, is run
\* once more by the retry after a crash, because handle_mutation does not look
\* at the state of the job.
ActionsStayActions == \A j \in Jobs : jobs[j].state = "InProgress" => udf_type[j] # "mutation"

\* The table and the effects of its jobs behave as the promise of JobQueue:
\* however scans, cancellations, retries, crashes and collections interleave,
\* a mutation takes effect once and with its completion, an action is started
\* at most once, and an ended job never changes again.
Queue == INSTANCE JobQueue WITH status <- Status, runs <- Runs
RefinesJobQueue == Queue!Spec

\* scheduled-functions.mdx: mutations run exactly once, actions at most once.
\* A job that succeeded ran once and no job ran twice.
RunsAtMostOnce ==
  \A j \in Jobs : Runs[j] <= 1 /\ (jobs[j].state = "Success" => Runs[j] = 1)

\* Only a started action can be lost to a crash or a system error: any other
\* job that failed, failed because its function threw or was not runnable.
FailedForCause ==
  \A j \in Jobs : jobs[j].state = "Failed" /\ j \notin blamed => started[j] = 1

\* A job that was canceled before it took effect never does, although a task
\* with its old metadata may already be running.
CanceledNeverRuns ==
  [][\A j \in canceled : started'[j] = started[j] /\ committed'[j] = committed[j]]_vars

\* A job whose parent was canceled before is never runnable: the cancellation
\* reaches the follow-ups a running action still schedules, as long as the
\* retention outlasts the action.
CancelIsRecursive ==
  [][\A j \in Jobs : jobs[j] = Absent /\ jobs'[j].parent \in canceled
                       => jobs'[j].state = "Canceled"]_vars

\* complete_action finds no document, and tries again for ever: the job was
\* canceled while its action ran, and collected before the action was completed.
Stuck(j) == InPhase(j, "complete") /\ IsMissing(j)

\* If the backend is not stopped for good, every job that waits or is in
\* progress ends: no wake-up is lost at the limit, behind a later job, across a
\* crash, a failed transaction or a restart of the backend.  The exception is a
\* task that complete_action keeps for ever, and with it its place in the limit.
EventuallyEnds ==
  <>[](~stopped) =>
    \A j \in Jobs : (jobs[j].state \in Live) ~>
      (jobs[j].state \notin Live \/ \E k \in Jobs : Stuck(k))

===============================================================================
