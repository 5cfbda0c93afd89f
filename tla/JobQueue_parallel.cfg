\* Two workers and a trigger share the queue; cancel requests; a terminal commit meets a locked database.
CONSTANTS
  Jobs <- TwoJobs
  Workflow <- First
  Backfill <- None
  Workers <- TwoWorkers
  LateWorkers <- None
  Triggers <- OneTrigger
  Runners <- None
  Clients <- OneClient
  MaxAttempts = 2
  MaxCrashes = 0
  MaxLocked = 1
SPECIFICATION Spec
CHECK_DEADLOCK FALSE
INVARIANTS TypeOK ExclusiveExecution
PROPERTIES FinishedStays ImplementsLifecycle
