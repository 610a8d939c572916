SPECIFICATION Spec
CONSTANTS
  t1 = t1
  t2 = t2
  r1 = r1
  r2 = r2
  Tasks = {t1}
  Runs = {r1, r2}
  DueDates = {1, 3}
  DueHours = 2
  Lead = 1
  DayLength = 2
  MaxNow = 3
  MaxScans = 2
  MaxEdits = 0
  MaxFaults = 0
INVARIANT
  OverdueOncePerDay
CHECK_DEADLOCK FALSE
