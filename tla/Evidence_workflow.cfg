\* A workflow, changes of the paper and its documents by the user, a worker that dies.
CONSTANTS
  j1 = j1
  c1 = c1
  c2 = c2
  Jobs <- OneJob
  Confirmed <- OneJob
  Contents <- TwoContents
  Coverage <- OneReadable
  Created <- Records
  MaxAttempts = 2
  MaxChanges = 1
  MaxFaults = 1
  MaxLocked = 1
  None = None
CHECK_DEADLOCK FALSE
SPECIFICATION Spec
INVARIANTS EvTypeOK CancelledStops RunsClosed
PROPERTIES SuccessRestsOnText UserTextFirst Ends FollowsLifecycle
