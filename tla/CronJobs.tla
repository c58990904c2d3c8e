------------------------------- MODULE CronJobs -------------------------------
(***************************************************************************)
(* Cron jobs: the _cron_jobs and _cron_next_run tables and CronModel       *)
(* (model/src/cron_jobs), and the executor that runs what is due           *)
(* (application/src/cron_jobs).  A deployment may create, change or delete *)
(* cron jobs while they run, the process may crash and transactions fail.  *)
(*                                                                         *)
(* A cron job and its next run are read and written together and are one   *)
(* record here.  Transactions are treated as in ScheduledJobs; the type of *)
(* a function goes with its path, so it is part of the specification.      *)
(***************************************************************************)
EXTENDS Naturals, FiniteSets, FiniteSetsExt

CONSTANTS
  Crons,        \* cron identifiers
  Specs,        \* cron specifications: schedule, period and function type
  Parallelism,  \* SCHEDULED_JOB_EXECUTION_PARALLELISM
  CloseRuns,    \* runs within this time are close together (30 s in the code)
  MaxTs,        \* bound: the clock
  MaxFaults,    \* bound: crashes and failed transactions
  MaxPushes     \* bound: deployments

Schedules == {"interval", "calendar"}

\* What is assumed of the constants.
CronJobsAssumption ==
  /\ Specs \subseteq [schedule : Schedules, period : Nat \ {0}, type : {"mutation", "action"}]
  /\ IsFiniteSet(Crons) /\ Parallelism \in Nat \ {0} /\ CloseRuns \in Nat
  /\ MaxTs \in Nat /\ MaxFaults \in Nat /\ MaxPushes \in Nat

VARIABLES
  crons,                \* each cron job with its next run, or NoCron
  now,
  stopped,              \* BackendState::is_stopped
  running_job_ids,
  next_job_ready_time,
  job_finished,         \* the job_finished channel
  subscription,         \* what run_once waits on; NoSubscription before a scan
  task,                 \* the background task executing each job
  ran,                  \* history: tick and specification of every run, with its number
  skipped,              \* history: the ticks logged as canceled
  given_up,             \* history: the ticks logged as a transient error
  moved,                \* history: cron jobs whose next run a deployment moved while in progress
  faults, pushes

executorVars == <<running_job_ids, next_job_ready_time, job_finished, subscription>>
historyVars == <<ran, skipped, given_up, moved>>
vars == <<crons, now, stopped, executorVars, task, historyVars, faults, pushes>>

NoTs == 0
NoCron == <<>>
NoSpec == <<>>
NoSubscription == <<>>

Cron(id, spec, state, prev_ts, next_ts) ==
  [id |-> id, spec |-> spec, state |-> state, prev_ts |-> prev_ts, next_ts |-> next_ts]

Idle == [phase |-> "idle", job |-> NoCron]

Exists(c) == crons[c] # NoCron
Tick(c, job) == <<c, job.id, job.next_ts>>

Ticks == Crons \X (0..MaxPushes) \X Nat
CronType ==
  [id : 0..MaxPushes, spec : Specs, state : {"Pending", "InProgress"}, prev_ts : Nat, next_ts : Nat]

\* The types of all variables.  The next run of a cron job is later than its
\* previous one, whatever deployments did to its schedule in between, so that
\* no tick comes up twice.
TypeOK ==
  /\ \A c \in Crons : Exists(c) => crons[c] \in CronType /\ crons[c].next_ts > crons[c].prev_ts
  /\ now \in 1..MaxTs /\ stopped \in BOOLEAN
  /\ running_job_ids \subseteq Crons /\ job_finished \subseteq Crons
  /\ next_job_ready_time \in Nat
  /\ \A c \in Crons :
       /\ task[c].phase \in {"idle", "start", "mutation", "fail", "action", "complete"}
       /\ task[c].job = NoCron \/ task[c].job \in CronType
  /\ ran \subseteq (Ticks \X Specs) \X Nat /\ skipped \subseteq Ticks /\ given_up \subseteq Ticks
  /\ moved \subseteq Crons \X (0..MaxPushes)
  /\ faults \in 0..MaxFaults /\ pushes \in 0..MaxPushes

Init ==
  /\ crons = [c \in Crons |-> NoCron]
  /\ now = 1 /\ stopped = FALSE
  /\ running_job_ids = {} /\ next_job_ready_time = NoTs /\ job_finished = {}
  /\ subscription = NoSubscription
  /\ task = [c \in Crons |-> Idle]
  /\ ran = {} /\ skipped = {} /\ given_up = {} /\ moved = {}
  /\ faults = 0 /\ pushes = 0
-------------------------------------------------------------------------------
(* Schedules and deployments.                                              *)

\* compute_next_ts: an interval counts from the previous run, a calendar
\* schedule takes the first of its times after now.
compute_next_ts(spec, prev_ts, ts) ==
  IF spec.schedule = "interval"
  THEN IF prev_ts = NoTs THEN ts ELSE prev_ts + spec.period
  ELSE ((ts \div spec.period) + 1) * spec.period

\* CronModel::create.
Created(spec) == Cron(pushes', spec, "Pending", NoTs, compute_next_ts(spec, NoTs, now))

\* Runs on the old schedule are so close together that update leaves the next
\* run alone, to keep out of the way of the executor.
RunsAreClose(spec) ==
  LET next_ts == compute_next_ts(spec, NoTs, now) IN
  compute_next_ts(spec, next_ts, next_ts) - now <= CloseRuns

\* CronModel::update: the state of the run is left as it is.
Updated(cron, spec) ==
  IF <<spec.schedule, spec.period>> # <<cron.spec.schedule, cron.spec.period>>
     /\ ~RunsAreClose(cron.spec)
  THEN [cron EXCEPT !.spec = spec, !.next_ts = compute_next_ts(spec, cron.prev_ts, now)]
  ELSE [cron EXCEPT !.spec = spec]

\* CronModel::apply, for one identifier.
Applied(c, spec) ==
  CASE spec = NoSpec -> NoCron
    [] spec # NoSpec /\ ~Exists(c) -> Created(spec)
    [] OTHER -> IF crons[c].spec = spec THEN crons[c] ELSE Updated(crons[c], spec)

\* A deployment replaces all cron specifications in one transaction.
Apply ==
  /\ pushes < MaxPushes /\ pushes' = pushes + 1
  /\ \E new \in [Crons -> Specs \cup {NoSpec}] :
       crons' = [c \in Crons |-> Applied(c, new[c])]
  /\ moved' = moved \cup {<<c, crons[c].id>> : c \in {d \in Crons :
       /\ Exists(d) /\ crons[d].state = "InProgress"
       /\ crons'[d] # NoCron /\ crons'[d].next_ts # crons[d].next_ts}}
  /\ UNCHANGED <<now, stopped, executorVars, task, ran, skipped, given_up, faults>>
-------------------------------------------------------------------------------
(* The executor's loop.                                                    *)

\* What run_once has read and subscribes to: the runs up to the first one it
\* could not start; at its limit it does not scan.
Reads(scanned, bound) ==
  [scanned |-> scanned, stopped |-> stopped,
   docs |-> IF scanned
            THEN {<<c, crons[c]>> : c \in {d \in Crons : Exists(d)
                                           /\ (bound = NoTs \/ crons[d].next_ts <= bound)}}
            ELSE {}]

\* query_and_start_jobs: what is due, earliest first, as far as the limit allows.
QueryAndStartJobs ==
  LET unstarted == {c \in Crons : Exists(c)} \ running_job_ids
      due == {c \in unstarted : crons[c].next_ts <= now}
      free == Parallelism - Cardinality(running_job_ids) IN
  \E ids \in SUBSET due :
    /\ Cardinality(ids) = IF Cardinality(due) < free THEN Cardinality(due) ELSE free
    /\ \A c \in ids, d \in due \ ids : crons[c].next_ts <= crons[d].next_ts
    /\ running_job_ids' = running_job_ids \cup ids
    /\ task' = [c \in Crons |-> IF c \in ids THEN [phase |-> "start", job |-> crons[c]] ELSE task[c]]
    /\ LET left == unstarted \ ids
           ready == IF left = {} THEN NoTs ELSE Min({crons[c].next_ts : c \in left}) IN
       next_job_ready_time' = ready /\ subscription' = Reads(TRUE, ready)

\* run_once, up to its select.
RunOnce ==
  /\ subscription = NoSubscription
  /\ \/ /\ stopped
        /\ next_job_ready_time' = NoTs /\ subscription' = Reads(FALSE, NoTs)
        /\ UNCHANGED <<running_job_ids, task>>
     \/ /\ ~stopped /\ Cardinality(running_job_ids) = Parallelism
        /\ subscription' = Reads(FALSE, NoTs)
        /\ UNCHANGED <<running_job_ids, next_job_ready_time, task>>
     \/ ~stopped /\ Cardinality(running_job_ids) # Parallelism /\ QueryAndStartJobs
  /\ UNCHANGED <<crons, now, stopped, job_finished, historyVars, faults, pushes>>

\* The branches of run_once's select; finished jobs are taken one by one.
Wake ==
  /\ subscription # NoSubscription
  /\ \/ \E c \in job_finished :
          /\ running_job_ids' = running_job_ids \ {c}
          /\ job_finished' = job_finished \ {c}
     \/ /\ job_finished = {} /\ next_job_ready_time \in 1..now
        /\ UNCHANGED <<running_job_ids, job_finished>>
     \/ /\ job_finished = {} /\ subscription # Reads(subscription.scanned, next_job_ready_time)
        /\ UNCHANGED <<running_job_ids, job_finished>>
  /\ subscription' = NoSubscription
  /\ UNCHANGED <<crons, now, stopped, next_job_ready_time, task, historyVars, faults, pushes>>
-------------------------------------------------------------------------------
(* execute_job, in a task of its own: tried until run_function returns.    *)

InPhase(c, phase) == task[c].phase = phase
To(c, phase) == task' = [task EXCEPT ![c].phase = phase] /\ UNCHANGED job_finished
Finish(c) == task' = [task EXCEPT ![c] = Idle] /\ job_finished' = job_finished \cup {c}

\* new_transaction_for_job_state: the cron job and its next run are unchanged.
Matches(c) == crons[c] = task[c].job

UnchangedByTask ==
  UNCHANGED <<now, stopped, running_job_ids, next_job_ready_time, subscription, pushes>>

\* The runs of an interval that are already in the past.
SkippedRuns(job) ==
  IF job.spec.schedule = "interval"
  THEN {ts \in 1..(now - 1) : ts > job.next_ts /\ (ts - job.next_ts) % job.spec.period = 0}
  ELSE {}

\* complete_job_run: the next run is the first one not in the past; the others
\* are logged as canceled.
CompleteJobRun(c, job) ==
  LET past == SkippedRuns(job)
      next_ts == compute_next_ts(job.spec, Max(past \cup {job.next_ts}), now) IN
  /\ crons' = [crons EXCEPT ![c] = Cron(job.id, job.spec, "Pending", job.next_ts, next_ts)]
  /\ skipped' = skipped \cup {<<c, job.id, ts>> : ts \in past}

\* Records one more run of the tick the job was started for.
Count(c) ==
  LET run == <<Tick(c, task[c].job), task[c].job.spec>> IN
  ran' = ran \cup {<<run, 1 + Cardinality({r \in ran : r[1] = run})>>}

\* handle_action, pending: the transaction that checked the state marks the run
\* in progress, then the action starts.
StartAction(c) ==
  /\ task[c].job.state = "Pending"
  /\ crons' = [crons EXCEPT ![c].state = "InProgress"]
  /\ task' = [task EXCEPT ![c] = [phase |-> "action", job |-> crons'[c]]]
  /\ Count(c) /\ UNCHANGED <<job_finished, skipped, given_up, moved>>

\* Fault: an interrupted action is tried again.
GiveUpNever(c) ==
  /\ task[c].job.state = "InProgress"
  /\ task' = [task EXCEPT ![c].phase = "action"]
  /\ Count(c) /\ UNCHANGED <<crons, job_finished, skipped, given_up, moved>>

\* handle_action, in progress: the run is logged as a transient error.
GiveUp(c) ==
  /\ task[c].job.state = "InProgress"
  /\ CompleteJobRun(c, task[c].job)
  /\ given_up' = given_up \cup {Tick(c, task[c].job)}
  /\ Finish(c) /\ UNCHANGED <<ran, moved>>

\* run_function: does nothing if the cron job has changed.
RunFunction(c) ==
  /\ InPhase(c, "start")
  /\ \/ ~Matches(c) /\ Finish(c) /\ UNCHANGED <<crons, historyVars>>
     \/ /\ Matches(c) /\ task[c].job.spec.type = "mutation"
        /\ To(c, "mutation") /\ UNCHANGED <<crons, historyVars>>
     \/ /\ Matches(c) /\ task[c].job.spec.type = "action"
        /\ StartAction(c) \/ GiveUp(c)
  /\ UnchangedByTask /\ UNCHANGED faults

\* handle_mutation: the writes, the log and the next run commit together, if
\* the cron job is still as it was read; otherwise the function runs again.
CommitMutation(c) ==
  /\ InPhase(c, "mutation")
  /\ \/ /\ Matches(c) /\ CompleteJobRun(c, task[c].job)
        /\ Count(c) /\ Finish(c) /\ UNCHANGED <<given_up, moved>>
     \/ ~Matches(c) /\ To(c, "start") /\ UNCHANGED <<crons, historyVars>>
  /\ UnchangedByTask /\ UNCHANGED faults

MutationThrows(c) ==
  /\ InPhase(c, "mutation") /\ To(c, "fail")
  /\ UNCHANGED <<crons, historyVars, faults>> /\ UnchangedByTask

\* handle_mutation, the function threw: only the log and the next run.
FailMutation(c) ==
  /\ InPhase(c, "fail")
  /\ \/ /\ Matches(c) /\ CompleteJobRun(c, task[c].job)
        /\ Count(c) /\ UNCHANGED <<given_up, moved>>
     \/ ~Matches(c) /\ UNCHANGED <<crons, historyVars>>
  /\ Finish(c) /\ UnchangedByTask /\ UNCHANGED faults

ActionReturns(c) ==
  /\ InPhase(c, "action") /\ To(c, "complete")
  /\ UNCHANGED <<crons, historyVars, faults>> /\ UnchangedByTask

\* complete_action_run.
CompleteAction(c) ==
  /\ InPhase(c, "complete")
  /\ \/ /\ Matches(c) /\ CompleteJobRun(c, task[c].job) /\ UNCHANGED <<ran, given_up, moved>>
     \/ ~Matches(c) /\ UNCHANGED <<crons, historyVars>>
  /\ Finish(c) /\ UnchangedByTask /\ UNCHANGED faults
-------------------------------------------------------------------------------
(* Faults and the environment.                                             *)

CountFault == faults < MaxFaults /\ faults' = faults + 1

\* A system error: execute_job tries again with the job it was given, which for
\* an action that was started is the one still pending.  While an action
\* completes, only that step is repeated.
TaskFails(c) ==
  /\ CountFault
  /\ \/ task[c].phase \in {"mutation", "fail"} /\ To(c, "start")
     \/ /\ InPhase(c, "action") /\ UNCHANGED job_finished
        /\ task' = [task EXCEPT ![c].phase = "start", ![c].job.state = "Pending"]
  /\ UNCHANGED <<crons, historyVars>> /\ UnchangedByTask

\* The process stops and a new executor starts.
Crash ==
  /\ CountFault
  /\ running_job_ids' = {} /\ next_job_ready_time' = NoTs /\ job_finished' = {}
  /\ subscription' = NoSubscription
  /\ task' = [c \in Crons |-> Idle]
  /\ UNCHANGED <<crons, now, stopped, historyVars, pushes>>

Advance ==
  /\ now < MaxTs /\ now' = now + 1
  /\ UNCHANGED <<crons, stopped, executorVars, task, historyVars, faults, pushes>>

\* The backend is stopped or started.
SwitchBackend ==
  /\ stopped' = ~stopped
  /\ UNCHANGED <<crons, now, executorVars, task, historyVars, faults, pushes>>

TaskStep(c) ==
  \/ RunFunction(c) \/ CommitMutation(c) \/ MutationThrows(c) \/ FailMutation(c)
  \/ ActionReturns(c) \/ CompleteAction(c)

Next ==
  \/ Apply \/ RunOnce \/ Wake \/ Crash \/ Advance \/ SwitchBackend
  \/ \E c \in Crons : TaskStep(c) \/ TaskFails(c)

Spec == Init /\ [][Next]_vars

\* The executor's loop, its tasks and the clock go on; functions return.
Fairness ==
  /\ WF_vars(RunOnce) /\ WF_vars(Wake) /\ WF_vars(Advance)
  /\ \A c \in Crons : WF_vars(TaskStep(c))
-------------------------------------------------------------------------------
(* Properties.                                                             *)

\* No tick of a schedule that has passed is lost silently: it was run, or the
\* logs have it as canceled or as a transient error.
TicksAccounted ==
  \A c \in Crons : Exists(c) /\ crons[c].spec.schedule = "interval" /\ crons[c].id = pushes =>
    \A ts \in 1..crons[c].prev_ts :
      LET tick == <<c, crons[c].id, ts>> IN
      /\ (crons[c].next_ts - ts) % crons[c].spec.period = 0
      /\ \E r \in ran : r[1][1][1] = c /\ r[1][1][2] = crons[c].id /\ r[1][1][3] <= ts
      => tick \in skipped \cup given_up \/ \E r \in ran : r[1][1] = tick

\* For no tick of a schedule is the action started twice or the mutation
\* committed twice, and none is lost: not after a crash, a system error, a
\* conflict with a deployment, or deployments that move the schedule and move
\* it back.  The exception is a run in progress whose time a deployment moves.
TickRunsOnce ==
  /\ \A r \in ran : r[2] = 1 \/ <<r[1][1][1], r[1][1][2]>> \in moved
  /\ TicksAccounted

===============================================================================
