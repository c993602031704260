\* Two jobs over two backends that do not both fit, one of which frees its VRAM only
\* by dying; one thread of admin calls of every kind.
SPECIFICATION ManagerSpec
CONSTANTS
  t1 = t1
  t2 = t2
  a1 = a1
  b1 = b1
  b2 = b2
  s1 = s1
  s2 = s2
  Jobs = {t1, t2}
  Admins = {a1}
  Ops = {"preload", "evict", "evict_all", "respawn", "respawn_hot", "zero", "shutdown_idle", "health", "ensure_vram"}
  Backends = {b1, b2}
  Shapes = {s1}
  AnyShape = AnyShape
  KillOnEvict = {b2}
  Capacity = 1
  None = None
  Dead = Dead
  Empty = Empty
  MaxPolls = 1
  MaxCalls = 1
  MaxCrashes = 1
INVARIANTS ManagerConsistent PinGuarantee NoForgottenWeights OvercommitOnlyByRace
SYMMETRY Alike
