-------------------------------- MODULE MCJobs --------------------------------
(***************************************************************************)
(* The instances of ScheduledJobs and CronJobs that TLC checks.  The two   *)
(* executors share no document, so a behaviour of both says no more than   *)
(* one behaviour of each: Init chooses the executor that moves.            *)
(***************************************************************************)
EXTENDS JobExecutors

\* Ids are numbers, so that new jobs take them in order and no two states
\* differ only in their names.
MCJobIds == 1..2

VARIABLE executor  \* the one that moves

CronSpec(schedule, period, type) == [schedule |-> schedule, period |-> period, type |-> type]

MCCronSpecs ==
  {CronSpec("interval", 1, "mutation"), CronSpec("interval", 1, "action"),
   CronSpec("interval", 3, "mutation"), CronSpec("calendar", 2, "action"),
   CronSpec("calendar", 3, "action")}

jobVars == <<jobs, udf_type, task, historyVars, stops>>
cronVars == <<crons, cron_task, ran, skipped, given_up, moved>>

\* The executor of scheduled jobs in two instances: with deployments and a
\* stopped backend while no job is collected, and for as long as it takes to
\* collect one.
JobExecutorClock == [scheduled |-> 2, collected |-> MaxTs]

Within(A) ==
  /\ executor \in DOMAIN JobExecutorClock /\ A
  /\ now' <= JobExecutorClock[executor]
  /\ \A j \in Jobs : jobs'[j].next_ts <= JobExecutorClock[executor]

MCInit == executor \in {"scheduled", "collected", "crons"} /\ Init /\ Cron!Init

MCNext ==
  \/ Within(Next) /\ UNCHANGED <<executor, cronVars>>
  \/ executor = "crons" /\ Cron!Next /\ UNCHANGED <<executor, jobVars>>

\* The fairness of ScheduledJobs, where its executor is the one that moves.
MCFairness ==
  /\ WF_vars(Within(RunOnce)) /\ WF_vars(Within(Wake)) /\ WF_vars(Within(Tick))
  /\ \A j \in Jobs : WF_vars(Within(TaskStep(j)))

MCSpec == MCInit /\ [][MCNext]_<<vars, executor, cronVars>> /\ MCFairness

\* Functions are redeployed as another type in behaviours without faults, and
\* no action in progress is redeployed as a mutation: that is outside the promise
\* of JobQueue.
Redeployed ==
  /\ executor = "scheduled" => (pushes > 0 => faults = 0 /\ stops = 0) /\ ActionsStayActions
  /\ executor = "collected" => faults = 0 /\ pushes = 0 /\ stops = 0

===============================================================================
