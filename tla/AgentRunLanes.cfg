\* Two sessions and the global lanes, with limits of 1 and 2; room for two runs
\* or a cron task with its turn.
SPECIFICATION RunLiveSpec
CONSTANTS
  Sessions = {s, t}
  Main = main
  Cron = cron
  CronNested = cronNested
  Lanes = {s, t, main, cron, cronNested}
  MaxEntries = 4
  MaxConcurrency = 2
  MaxGeneration = 1
  Waiters = {}
  Deadlined = {}
INVARIANTS
  WaitsAcyclic
  SessionExclusive
PROPERTY RunsSettle
CHECK_DEADLOCK FALSE
