SPECIFICATION Spec
CONSTANTS
  e1 = e1
  e2 = e2
  x = x
  y = y
  r1 = r1
  r2 = r2
  q1 = q1
  tpl = tpl
  Events = {e1, e2}
  Sources <- MCSources
  Rules = {r1, r2}
  Shapes <- MCShapes
  Tenders = {x, y}
  Templates = {tpl}
  Requests = {q1}
  Automations = {"off", "escalating"}
  None = None
  Never = Never
  MaxRules = 2
  TemplateCooldown = 1
  MaxTime = 1
  MaxEdits = 1
  MaxFaults = 1
INVARIANTS
  TypeOK AlertsAreDue LostOnlyByDelete
PROPERTIES
  CooldownKept
SYMMETRY Symmetric
CHECK_DEADLOCK FALSE
