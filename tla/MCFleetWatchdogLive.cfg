CONSTANTS
  Watchdogs = {w1}
  NumRanks = 3
  FAIL_THRESHOLD = 2
  MAX_RECOVERIES = 2
  ReadyChecks = 2
  MaxFaults = 3
  SshCanFail = TRUE
  RemoveCanFail = TRUE
  HealthCanLie = TRUE
SPECIFICATION FairSpec
PROPERTIES
  ServesOrGivesUp
