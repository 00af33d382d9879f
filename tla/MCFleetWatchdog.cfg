CONSTANTS
  Watchdogs = {w1, w2}
  NumRanks = 3
  FAIL_THRESHOLD = 3
  MAX_RECOVERIES = 3
  ReadyChecks = 2
  MaxFaults = 4
  SshCanFail = FALSE
  RemoveCanFail = FALSE
  HealthCanLie = FALSE
SPECIFICATION Spec
SYMMETRY WatchdogSymmetry
INVARIANTS
  TypeOK
  OneActor
  GivenUpIsQuiet
  BoundedRelaunches
  NoOldRankAtLaunch
