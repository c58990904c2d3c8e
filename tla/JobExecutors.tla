----------------------------- MODULE JobExecutors -----------------------------
(***************************************************************************)
(* ScheduledJobs and CronJobs side by side.  The two executors are the     *)
(* same code in two copies: they keep the same variables, but share no     *)
(* document.                                                               *)
(***************************************************************************)
EXTENDS ScheduledJobs

CONSTANTS
  Crons, CronSpecs, CloseRuns,   \* of CronJobs
  MaxCronTs, MaxCronPushes       \* its bounds

VARIABLES crons, cron_task, ran, skipped, given_up, moved

Cron == INSTANCE CronJobs WITH
  Specs <- CronSpecs, MaxTs <- MaxCronTs, MaxPushes <- MaxCronPushes, task <- cron_task

ASSUME CronAssumption == Cron!CronJobsAssumption

\* For no tick of a schedule is the action started twice or the mutation
\* committed twice, and none is lost silently (CronJobs, TickRunsOnce).
TickRunsOnce == Cron!TickRunsOnce

===============================================================================
