SPECIFICATION Spec
CONSTANTS
  f1 = f1
  f2 = f2
  w1 = w1
  w2 = w2
  c1 = c1
  l1 = l1
  None = None
  Files = {f1, f2}
  Parts = 1
  Workers = {w1}
  Chats = {c1}
  MaxTries = 2
  MaxStalls = 0
  MaxFaults = 1
  MaxChats = 0
  Lists = {l1}
  MaxDeletes = 1
INVARIANTS
  NobodyForgotten ListRepairs
SYMMETRY Symmetric
CHECK_DEADLOCK FALSE
