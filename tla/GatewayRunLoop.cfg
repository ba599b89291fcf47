\* Signals come only once a server runs; two restarts or stops, one failed start, one
\* drain or close that throws.
SPECIFICATION RunLoopLiveSpec
CONSTANTS
  Lanes = {main}
  MaxEntries = 2
  MaxConcurrency = 1
  MaxGeneration = 2
  Waiters = {1, 2}
  Deadlined = {1, 2}
  MaxRequests = 2
  MaxFailures = 1
  MaxThrows = 1
  EarlySignals = FALSE
INVARIANTS
  RunLoopTypeOK
  RefusesOnlyInWindow
  PortFreeAtStart
  LockWhileServing
  CloseWaitsForTurns
PROPERTY RestartCompletes
CHECK_DEADLOCK FALSE
