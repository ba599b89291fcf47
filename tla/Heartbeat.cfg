\* Two targets; a runner and its successor, which may overlap.
SPECIFICATION Spec
CONSTANTS
  Targets = {"main", "session"}
  Main = "main"
  NoTarget = "none"
  MaxRunners = 2
INVARIANTS
  TypeOK
  WakeArmed
  EventKept
  OverlapBounded
  BeatGoesOn
PROPERTIES
  RetryCoolsDown
CHECK_DEADLOCK FALSE
