\* Three messages of three origins, queues of two items, one clear, one failed run,
\* one embedded run without a reply operation.
SPECIFICATION Spec
CONSTANTS
  Modes = {"collect", "followup"}
  Caps = {2}
  Drops = {"summarize", "new"}
  Routes = {1, 2}
  Auths = {1, 2}
  Origins <- MCOrigins
  Settings <- MCSettings
  MaxMessages = 3
  MaxQueues = 2
  MaxClears = 1
  MaxMainRuns = 1
  MaxEmbedded = 1
  MaxFailures = 1
INVARIANTS
  TypeOK
  AtMostOnce
  RunsInOrder
  RunsAreUniform
PROPERTY DriverIsKept
CHECK_DEADLOCK FALSE
