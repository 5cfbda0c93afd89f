\* One worker, one plain job, one cancel request.
CONSTANTS
  Jobs <- OneJob
  Workflow <- None
  Backfill <- None
  Workers <- OneWorker
  LateWorkers <- None
  Triggers <- None
  Runners <- None
  Clients <- OneClient
  MaxAttempts = 2
  MaxCrashes = 0
  MaxLocked = 0
SPECIFICATION Spec
CHECK_DEADLOCK FALSE
PROPERTY CancelledIsTerminal
