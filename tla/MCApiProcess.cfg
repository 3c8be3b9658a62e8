\* Three keys for two windows of three seconds with two calls each; two sockets
\* with queues of one event.
CONSTANTS
  Keys = {1, 2, 3}
  Limit = 2
  WindowSeconds = 3
  MaxKeys = 2
  MaxTime = 6
  MaxCalls = 6
  Sockets = {w1, w2}
  QueueSize = 1
  MaxEvents = 3

SPECIFICATION MCSpec
SYMMETRY Symmetry

INVARIANTS
  MemoryIsBounded
  RefusalIsEarned
  BurstsAreBounded
  RegisteredIsServed
  WritersEndFirst
  ShutdownLeavesNothing

\* The clock and the calls are bounded, and a hub that was shut down stops.
CHECK_DEADLOCK FALSE
