CONSTANTS
  Fields <- MCFields
  Capabilities <- MCFields
  SchemaVersion = 1
  LeadIn = 5
  TickLimit = 5
  Nothing = Nothing
  MaxPreps = 1
  Accounts = {alice, bob}
  Catalog <- MCCatalog
  Demo <- MCDemo
  TakeoverTicks <- MCTakeoverTicks
  MaxFreshness = 1
  TTL = 1
  MaxClock = 2
  FetchFailures = {"store_denied", "replay_invalid"}
  Cancellers = {c1, c2}
  Waiters = {w1}
SPECIFICATION FairSpec
INVARIANTS GrantSettled RevisionHonest
PROPERTIES CancelStopsFetch KeepsLifecycle EveryoneServed
CHECK_DEADLOCK FALSE
