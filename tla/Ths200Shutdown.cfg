\* The shutdown timeout of the README, with a PUT that overlaps the start of main.
\* As in Ths200.cfg, the callers may really end up waiting for ever.
CHECK_DEADLOCK FALSE
SPECIFICATION ReachableSpec
CONSTANTS
  Requests = {r1}
  Main = Main
  Publishers = {g1, g2}
  None = None
PROPERTIES
  ShutdownCompletes
