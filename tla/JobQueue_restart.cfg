\* One worker that crashes and is restarted, jobs of two kinds, cancel requests.
CONSTANTS
  Jobs <- TwoJobs
  Workflow <- First
  Backfill <- Second
  Workers <- OneWorker
  LateWorkers <- None
  Triggers <- None
  Runners <- None
  Clients <- OneClient
  MaxAttempts = 2
  MaxCrashes = 2
  MaxLocked = 0
SPECIFICATION FairSpec
CHECK_DEADLOCK FALSE
INVARIANTS StartsBounded AttemptsAreStarts RowConsistent AuditExplainsStatus
PROPERTIES EventuallyTerminal
