\* Four calls: two of one process, two in processes of their own.
CONSTANTS
  Calls <- FourCalls
  Owners <- ThreeProcesses
  Owner <- TwoOfThree
  NoOne = "no one"
  Ttl = 2
  Interval = 2
  MaxTime = 4
SPECIFICATION Spec
CHECK_DEADLOCK FALSE
INVARIANTS TypeOK OneAtATime AloneWithinLease
PROPERTY Spaced
