SPECIFICATION Spec
CONSTANTS
  Pods = {p1}
  Users = {u1}
  Sessions = {s1, s2}
  Requests = {r1, r2}
  Rates <- OneRate
  Delay = 1
  MinUnlockWindow = 1
  Intro = 1
  InitialCredit = 2
  TopUps = {}
  MaxCredit = 2
  MaxClock = 2
  NoRow = NoRow
  NoRequest = NoRequest
SYMMETRY Symmetry
INVARIANT OneSessionPerPod
