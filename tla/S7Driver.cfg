\* One transfer in flight, two gos7 clients, a limit of two attempts.
SPECIFICATION ReachableSpec
CONSTANTS
  Maintainers = {m1, m2}
  Requests = {r1}
  Sessions = {s1, s2}
  None = None
  BackoffInitial = 1
  BackoffMax = 4
  RetryMax = 2
INVARIANTS
  SingleMaintainer
  ConnectedHasSession
  RetryLimitBacksOff
PROPERTIES
  LinkSpec
  MaintainerReconnects
  DisconnectStopsMaintainer
