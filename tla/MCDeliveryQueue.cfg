\* One ordinary and one bestEffort message, a crash, a failed file operation.
SPECIFICATION LiveSpec
CONSTANTS
  recovery = recovery
  drain = drain
  MaxMessages = 2
  Recoveries = {recovery}
  Drains = {drain}
  Matches <- FirstMatches
  BestEffort = {2}
  Reported = {2}
  MaxRetries = 2
  MaxCrashes = 1
  MaxFaults = 1
INVARIANTS
  TypeOK
  ClaimsExact
  NoLoss
  DuplicatesHaveCause
  RetriesBounded
PROPERTIES
  AckedNotResent
  ImplementsOutbox
  EntrySettles
CHECK_DEADLOCK FALSE
