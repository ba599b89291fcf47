\* Two manual runs, in the two slots of lane Cron.
CONSTANTS
  Jobs = {a, b}
  OneShots = {b}
  Initial = {a}
  StuckRun = 1
  Backoff = 1
  MaxMissed = 1
  MaxConcurrentRuns = 2
  Requests = {m1, m2}
  BusyReload = FALSE
  MaxTime = 2
  MaxServices = 1
  MaxCalls = 2
  MaxMishaps = 1
SPECIFICATION Spec
INVARIANT NoOverlap
CHECK_DEADLOCK TRUE
