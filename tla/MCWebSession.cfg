CONSTANTS
  Requests = {k1, k2}
  Ids = {s1, s2}
  Tokens = {t1, t2}
  Accounts = {a1, a2}
  None = None
SYMMETRY MCSymmetry
SPECIFICATION Spec
INVARIANTS FormsStayValid OwnFormsOnly
PROPERTIES MeetsConsole
CHECK_DEADLOCK FALSE
