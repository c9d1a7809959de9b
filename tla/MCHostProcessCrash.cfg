CONSTANTS
  Stoppers = {s1}
  Waiters = {}
  MaxUnread = 1
SPECIFICATION FairSpec
PROPERTY UnexpectedExitIsCrash
CHECK_DEADLOCK FALSE
