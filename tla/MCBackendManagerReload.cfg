\* One job at a time, as by default, whose worker may die, and a preload of another shape.
SPECIFICATION ManagerSpec
CONSTANTS
  t1 = t1
  t2 = t2
  a1 = a1
  b1 = b1
  b2 = b2
  s1 = s1
  s2 = s2
  Jobs = {t1}
  Admins = {a1}
  Ops = {"preload"}
  Backends = {b1}
  Shapes = {s1, s2}
  AnyShape = AnyShape
  KillOnEvict = {}
  Capacity = 1
  None = None
  Dead = Dead
  Empty = Empty
  MaxPolls = 1
  MaxCalls = 1
  MaxCrashes = 1
INVARIANTS ShapeIsServed
