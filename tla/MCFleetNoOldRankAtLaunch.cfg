CONSTANTS
  Watchdogs = {w1}
  NumRanks = 2
  FAIL_THRESHOLD = 2
  MAX_RECOVERIES = 1
  ReadyChecks = 2
  MaxFaults = 4
  SshCanFail = TRUE
  RemoveCanFail = FALSE
  HealthCanLie = FALSE
SPECIFICATION Spec
INVARIANTS
  NoOldRankAtLaunch
