CONSTANTS
  Callers = {p1, p2}
  Recoverers = {r1, r2}
  BasePort = 65534
  MaxPort = 65535
  Free = Free
SPECIFICATION FairScenarioSpec
INVARIANTS ServersDistinct ProcessesAccounted StatusTruth Isolation ReapNeverRefused
PROPERTIES ServesLifecycle ServerDecided RecoveryReclaims
CHECK_DEADLOCK FALSE
