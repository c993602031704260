\* One eviction against two jobs.
SPECIFICATION ManagerSpec
CONSTANTS
  t1 = t1
  t2 = t2
  a1 = a1
  b1 = b1
  b2 = b2
  s1 = s1
  s2 = s2
  Jobs = {t1, t2}
  Admins = {a1}
  Ops = {"evict"}
  Backends = {b1, b2}
  Shapes = {s1}
  AnyShape = AnyShape
  KillOnEvict = {}
  Capacity = 1
  None = None
  Dead = Dead
  Empty = Empty
  MaxPolls = 1
  MaxCalls = 1
  MaxCrashes = 0
PROPERTIES PinnedKeepsWeights
CHECK_DEADLOCK FALSE
