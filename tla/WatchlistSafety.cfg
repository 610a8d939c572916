SPECIFICATION Spec
CONSTANTS
  t1 = t1
  t2 = t2
  u1 = u1
  u2 = u2
  a = a
  b = b
  Tenders = {t1}
  Users = {u1}
  Runs = {a, b}
  Types = {"CLOSING_24H", "CLOSING_2H"}
  Urgent = {"CLOSING_2H"}
  Closings = {0, 3}
  Lead <- Leads
  TaskDueAt = 1
  TaskLead = 1
  EmailLimit = 1
  Window = 1
  Day = 2
  MaxNow = 2
  MaxEdits = 1
  MaxDeaths = 1
INVARIANTS
  TypeOK ToldOnce WithinLimit
PROPERTIES
  CollectedIsTold
SYMMETRY Symmetric
CHECK_DEADLOCK FALSE
