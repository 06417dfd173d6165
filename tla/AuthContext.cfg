SPECIFICATION Spec
CONSTANTS
  Processes = {p1}
  Requests = {r1}
  Handlers = {h1, h2}
  Nobody = Nobody
  Attempts = 2
  Threshold = 1
  Timeout = 1
  OpenTime = 1
  StatusTTL = 1
  RoleTTL = 1
  RedisTTL = 2
  MemoryTTL = 1
  Lag = 1
  MaxChanges = 1
SYMMETRY Sym
INVARIANTS ContextIsRecent OneAnswer
