\* The queue overflows before its drain begins.
SPECIFICATION Spec
CONSTANTS
  Modes = {"followup"}
  Caps = {2}
  Drops = {"summarize"}
  Routes = {1}
  Auths = {1}
  Origins <- MCOrigins
  Settings <- MCSettings
  MaxMessages = 3
  MaxQueues = 1
  MaxClears = 0
  MaxMainRuns = 1
  MaxEmbedded = 0
  MaxFailures = 0
INVARIANT NoSilentLoss
CHECK_DEADLOCK FALSE
