\* A challenge that was started before the decision ends after it.
CONSTANTS
  c1 = c1
  c2 = c2
  c3 = c3
  d1 = d1
  d2 = d2
  p1 = p1
  p2 = p2
  x1 = x1
  x2 = x2
  q1 = q1
  q2 = q2
  f1 = f1
  Challengers <- TwoChallengers
  Deciders <- OneDecider
  Planners <- OnePlanner
  Contexts <- TwoContexts
  Eligible <- EligibleContext
  Queries <- OneQuery
  Findings <- OneFinding
  None = None
  Idle = Idle
  Done = Done
CHECK_DEADLOCK FALSE
SPECIFICATION Spec
INVARIANT ConfirmedIsReviewed
