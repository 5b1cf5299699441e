\* One handler in flight and two files, which is all they can hold at once.
SPECIFICATION AnsweringSpec
CONSTANTS
  Collectors = {c1, c2}
  Requests = {r1}
  Ports = {p1, p2}
  NoPort = NoPort
  Bauds = {9600}
  BadBaud = 300
  RetryInitial = 1
  RetryMax = 3
  RetryBound = 2
INVARIANTS
  ReadsOpenPort
  ShutdownReleasesPort
  BackoffMatchesRetries
PROPERTIES
  CollectorPolls
  ShutdownCompletes
