SPECIFICATION Spec
CONSTANTS
  o = o
  u1 = u1
  u2 = u2
  u3 = u3
  i1 = i1
  i2 = i2
  q1 = q1
  q2 = q2
  Users = {o, u1, u2, u3}
  Owner = o
  Invites = {i1, i2}
  Requests = {q1, q2}
  MaxMembers = 2
  GivenRoles = {"MEMBER", "OWNER"}
  Life = 0
  MaxNow = 1
  MaxFaults = 1
  MaxStarted = 3
INVARIANTS
  TypeOK WithinLimit SeatsAgree AcceptedHasJoined
PROPERTIES
  OwnerKeepsBilling
SYMMETRY Symmetric
CHECK_DEADLOCK FALSE
