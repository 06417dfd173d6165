SPECIFICATION Spec
CONSTANTS
  Pods = {p1}
  Users = {u1}
  Sessions = {s1, s2}
  Requests = {r1, r2}
  Rates <- OneRate
  Delay = 1
  MinUnlockWindow = 1
  Intro = 1
  InitialCredit = 1
  TopUps = {1}
  MaxCredit = 2
  MaxClock = 3
  NoRow = NoRow
  NoRequest = NoRequest
SYMMETRY Symmetry
INVARIANTS NoDoubleBooking HoldRespected PaidExactlyOnce ChangesGetPublished
PROPERTIES ImplementsReservations UnlockEndsActiveSession
