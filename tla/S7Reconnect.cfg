\* The README's promise of reconnection, checked with the PLC reachable.
SPECIFICATION ReachableSpec
CONSTANTS
  Maintainers = {m1, m2}
  Requests = {r1}
  Sessions = {s1, s2}
  None = None
  BackoffInitial = 1
  BackoffMax = 4
  RetryMax = 0
PROPERTIES
  ReconnectsWhileDesired
