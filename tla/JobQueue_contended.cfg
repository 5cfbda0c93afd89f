\* One workflow: a /run request competes with a worker that crashes and restarts; cancel requests.
CONSTANTS
  Jobs <- OneJob
  Workflow <- First
  Backfill <- None
  Workers <- OneWorker
  LateWorkers <- None
  Triggers <- None
  Runners <- OneRunner
  Clients <- OneClient
  MaxAttempts = 2
  MaxCrashes = 2
  MaxLocked = 0
SPECIFICATION Spec
CHECK_DEADLOCK FALSE
PROPERTIES CancelledWorkflowStaysCancelled
