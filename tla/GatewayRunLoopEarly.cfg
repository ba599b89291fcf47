\* A restart is requested while start() is pending.
SPECIFICATION RunLoopSpec
CONSTANTS
  Lanes = {main}
  MaxEntries = 1
  MaxConcurrency = 1
  MaxGeneration = 1
  Waiters = {1}
  Deadlined = {1}
  MaxRequests = 1
  MaxFailures = 0
  MaxThrows = 0
  EarlySignals = TRUE
INVARIANT RefusesOnlyInWindow
CHECK_DEADLOCK FALSE
