CONSTANTS
  Watchdogs = {w1}
  NumRanks = 2
  FAIL_THRESHOLD = 2
  MAX_RECOVERIES = 1
  ReadyChecks = 2
  MaxFaults = 4
  SshCanFail = FALSE
  RemoveCanFail = FALSE
  HealthCanLie = TRUE
SPECIFICATION Spec
INVARIANTS
  BoundedRelaunches
