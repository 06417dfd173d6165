SPECIFICATION FairSpec
CONSTANTS
  Processes = {p1}
  Requests = {r1, r2}
  Handlers = {h1}
  Nobody = Nobody
  Attempts = 2
  Threshold = 3
  Timeout = 1
  OpenTime = 1
  StatusTTL = 1
  RoleTTL = 1
  RedisTTL = 1
  MemoryTTL = 1
  Lag = 1
  MaxChanges = 0
PROPERTIES RequestsAnswered RecoversFromFailures
