\* Two of the three calls belong to one process and share its owner id.
CONSTANTS
  Calls <- ThreeCalls
  Owners <- ThreeProcesses
  Owner <- SharedProcess
  NoOne = "no one"
  Ttl = 2
  Interval = 1
  MaxTime = 7
SPECIFICATION Spec
CHECK_DEADLOCK FALSE
INVARIANT OneInLease
