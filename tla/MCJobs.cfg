\* Scheduled functions with crashes, failed transactions, a redeployment and a
\* stopped backend; cron jobs with deployments.
SPECIFICATION MCSpec
CONSTANTS
  Jobs <- MCJobIds
  Parallelism = 1
  Retention = 2
  BatchSize = 1
  ActionTimeout = 1
  FunctionTypes = {"mutation", "action"}
  MaxTs = 3
  MaxFaults = 1
  MaxPushes = 1
  MaxStops = 1
  Crons = {"c1"}
  CronSpecs <- MCCronSpecs
  CloseRuns = 2
  MaxCronTs = 3
  MaxCronPushes = 2
CONSTRAINT Redeployed
CHECK_DEADLOCK FALSE
INVARIANTS
  FailedForCause
  TickRunsOnce
PROPERTIES
  CancelIsRecursive
  RefinesJobQueue
  EventuallyEnds
