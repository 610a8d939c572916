SPECIFICATION PollSpec
CONSTANTS
  f1 = f1
  f2 = f2
  w1 = w1
  w2 = w2
  c1 = c1
  l1 = l1
  None = None
  Files = {f1}
  Parts = 1
  Workers = {w1}
  Chats = {}
  MaxTries = 2
  MaxStalls = 1
  MaxFaults = 2
  MaxChats = 0
  Lists = {l1}
  MaxDeletes = 0
PROPERTIES
  StillProcessingEnds
CHECK_DEADLOCK FALSE
