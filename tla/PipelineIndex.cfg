SPECIFICATION FairSpec
CONSTANTS
  f1 = f1
  f2 = f2
  w1 = w1
  w2 = w2
  c1 = c1
  l1 = l1
  None = None
  Files = {f1}
  Parts = 2
  Workers = {w1, w2}
  Chats = {c1}
  MaxTries = 2
  MaxStalls = 1
  MaxFaults = 1
  MaxChats = 2
  Lists = {}
  MaxDeletes = 0
INVARIANTS
  TypeOK CompletedIsSearchable
PROPERTIES
  UploadedIsSettled
CHECK_DEADLOCK FALSE
