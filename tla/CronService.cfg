CONSTANTS
  Jobs = {a, b}
  OneShots = {b}
  Initial = {a}
  StuckRun = 1
  Backoff = 1
  MaxMissed = 1
  MaxConcurrentRuns = 2
  Requests = {m1}
  BusyReload = FALSE
  MaxTime = 3
  MaxServices = 2
  MaxCalls = 1
  MaxMishaps = 1
SPECIFICATION Spec
INVARIANTS TypeOK SlotOnce TimerAlive
PROPERTIES DueSlotKept
CHECK_DEADLOCK TRUE
