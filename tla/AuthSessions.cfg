SPECIFICATION Spec
CONSTANTS
  k1 = k1
  k2 = k2
  k3 = k3
  a = a
  b = b
  c1 = c1
  c2 = c2
  c3 = c3
  Tokens = {k1, k2, k3}
  Tabs = {a, b}
  Calls = {c1, c2, c3}
  TabOf <- MCTabOf
  None = None
  MaxLoads = 1
  MaxFaults = 1
  MaxEnds = 1
INVARIANTS
  TypeOK OneLiveToken  CookieIsCurrent WaitersAreWoken
PROPERTIES
  NotSentToLogin
SYMMETRY Symmetric
CHECK_DEADLOCK FALSE
