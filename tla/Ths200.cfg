\* One PUT at a time, which may come while main starts its own publisher or
\* shuts down.  The driver may really stop: two restarts that overlap can leave
\* callers waiting for a publisher that nothing cancels.
CHECK_DEADLOCK FALSE
SPECIFICATION ReachableSpec
CONSTANTS
  Requests = {r1}
  Main = Main
  Publishers = {g1, g2}
  None = None
INVARIANTS
  OnePublisher
  LatestConfig
  TicksOwnClient
PROPERTIES
  CancelledReturns
  Publishes
