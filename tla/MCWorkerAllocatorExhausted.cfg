CONSTANTS
  Callers = {c1}
  Recoverers = {r1}
  BasePort = 65534
  MaxPort = 65535
  Free = Free
SPECIFICATION Spec
INVARIANT ExhaustedOnlyInUse
