\* One request, as the lock admits one at a time, two targets, and one poll
\* thread that may outlive its join.
SPECIFICATION AnsweringSpec
CONSTANTS
  Handlers = {h1}
  Pollers = {p1, p2}
  Targets = {t1, t2}
  None = None
  Registers = 2
  RetryMax = 2
INVARIANTS
  LinkIsPolled
PROPERTIES
  SamplesCurrentDevice
  ConnectReturns
  Polls
