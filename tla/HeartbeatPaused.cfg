\* One runner, one target; heartbeats are turned off and on again.
SPECIFICATION Spec
CONSTANTS
  Targets = {"main"}
  Main = "main"
  NoTarget = "none"
  MaxRunners = 1
INVARIANTS
  BeatResumes
CHECK_DEADLOCK FALSE
