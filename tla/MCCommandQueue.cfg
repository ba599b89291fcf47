\* Two lanes, three entries, one reset of each lane, one restart waiter.
SPECIFICATION Spec
CONSTANTS
  Lanes = {main, session}
  MaxEntries = 3
  MaxConcurrency = 2
  MaxGeneration = 1
  Waiters = {w}
  Deadlined = {w}
SYMMETRY LaneSymmetry
INVARIANTS
  TypeOK
  SlotsExact
  LaneNeverIdle
  StartsInOrder
  NoLostWakeup
  DrainedMeansReleased
PROPERTY StartRespectsCap
CHECK_DEADLOCK FALSE
