SPECIFICATION FromPopulated
CONSTANTS
  Requests = {r1, r2, r3}
  u1 = u1
  u2 = u2
  u3 = u3
  u4 = u4
  Users = {u1, u2, u3, u4}
  e1 = e1
  e2 = e2
  e3 = e3
  e4 = e4
  Emails = {e1, e2, e3, e4}
  s1 = s1
  s2 = s2
  Slugs = {s1, s2}
  MaxCompanies = 2
  MaxBusy = 2
  None = None
SYMMETRY Symmetry
INVARIANTS MembershipsInStep FailuresExplained PasswordKnown
PROPERTY RemovalTakesOwnUsers
CHECK_DEADLOCK FALSE
