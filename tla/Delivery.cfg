SPECIFICATION FairSpec
CONSTANTS
  whatsapp = whatsapp
  w1 = w1
  w2 = w2
  NoWorker = NoWorker
  Deliveries = {whatsapp}
  Workers = {w1, w2}
  DeferUntil <- MCDeferUntil
  Skew = 1
  MaxAttempts = 2
  MaxStalls = 1
  MaxJobs = 4
  MaxNow = 3
  MaxFaults = 2
INVARIANTS
  TypeOK UnsentIsFollowed
PROPERTIES
  KeepsContract QueuedIsSettled
CHECK_DEADLOCK FALSE
