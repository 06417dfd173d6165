SPECIFICATION FairSpec
CONSTANTS
  Pods = {p1, p2}
  Users = {u1}
  Sessions = {s1, s2}
  Requests = {r1, r2}
  Rates <- OneRate
  Delay = 0
  MinUnlockWindow = 0
  Intro = 0
  InitialCredit = 1
  TopUps = {}
  MaxCredit = 1
  MaxClock = 0
  NoRow = NoRow
  NoRequest = NoRequest
PROPERTY RequestsAnswered
