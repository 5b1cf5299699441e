\* All three programs, two attempts a poll, at most two answers under way: one
\* late answer and the answer to the latest request.
SPECIFICATION FairSpec
CONSTANTS
  Drivers = {"ths1000", "rh", "ambient"}
  RetryMax = 2
  CounterWidth = 2
  LineBound = 2
INVARIANTS
  ClosedLineAnswers
  CountersAgree
  GivingUpResyncs
PROPERTIES
  Polls
  ShutdownCompletes
