SPECIFICATION Spec
CONSTANTS
  Tasks = {t1, t2}
  Lengths = {1}
  Second = 1
  Intro = 1
  Delay = 1
  MinTTL = 1
  Grace = 1
  MemoryAge = 0
  MaxChanges = 2
  MaxClock = 3
  NoSession = NoSession
  Nothing = Nothing
SYMMETRY Symmetry
INVARIANT LatestServed
