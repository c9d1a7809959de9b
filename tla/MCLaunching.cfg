CONSTANTS
  Callers = {c1, c2}
  MaxGeneration = 3
  MaxLaunches = 5
  MaxRestarts = 2
SPECIFICATION Spec
INVARIANTS FreshSpool NoTrace ChildrenHeld
PROPERTIES SpoolKept
CHECK_DEADLOCK FALSE
