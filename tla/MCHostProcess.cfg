CONSTANTS
  Stoppers = {s1, s2}
  Waiters = {w1}
  MaxUnread = 2
SPECIFICATION FairSpec
INVARIANTS TerminalTruth OutputDelivered StopOutcome
PROPERTIES MeetsContract WaitersReturn
CHECK_DEADLOCK FALSE
