SPECIFICATION FairDoorSpec
CONSTANTS
  Pods = {p1, p2}
  Calls = {c1, c2, c3}
  Duration = 2
  NoTimer = NoTimer
INVARIANTS LockIsComing WindowKept
PROPERTY DoorRelocks
