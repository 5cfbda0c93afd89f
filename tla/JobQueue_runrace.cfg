\* One worker and one /run request on one workflow.
CONSTANTS
  Jobs <- OneJob
  Workflow <- First
  Backfill <- None
  Workers <- OneWorker
  LateWorkers <- None
  Triggers <- None
  Runners <- OneRunner
  Clients <- None
  MaxAttempts = 2
  MaxCrashes = 0
  MaxLocked = 0
SPECIFICATION Spec
CHECK_DEADLOCK FALSE
INVARIANT ExclusiveExecution
