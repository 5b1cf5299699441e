\* One handler in flight, which shares nothing with other handlers, and a ring
\* that wraps around with samples that differ.
SPECIFICATION FairSpec
CONSTANTS
  Requests = {r1}
  Sessions = {c1, c2, c3}
  Samples = {x1, x2}
  None = None
  Capacity = 3
  BackoffInitial = 1
  BackoffMax = 3
  FailureBound = 2
INVARIANTS
  StatusAgrees
  SessionsOwned
  BackoffFollowsFailures
PROPERTIES
  WindowSpec
  Acquires
