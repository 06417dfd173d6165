SPECIFICATION FairSpec
CONSTANTS
  Tasks = {t1, t2}
  Lengths = {1}
  Second = 1
  Intro = 0
  Delay = 1
  MinTTL = 1
  Grace = 1
  MemoryAge = 0
  MaxChanges = 2
  MaxClock = 1
  NoSession = NoSession
  Nothing = Nothing
INVARIANTS RedisFollowsChanges MemoryFollowsChanges SingleFlight
PROPERTY PollsAnswered
