SPECIFICATION SupervisorSpec
CONSTANTS
  s1 = s1
  s2 = s2
  c1 = c1
  c2 = c2
  here = here
  there = there
  NoOne = NoOne
  Supervisors = {s1, s2}
  Clients = {c1, c2}
  Dirs = {here}
  DirOf <- OneDir
  ClientDir = here
  Slots = 1
  MaxDepth = 1
  External = {c2}
  MaxTroubles = 1
INVARIANTS SupervisorConsistent ServingIsReachable RestartsAreClean
PROPERTIES FallbackIsAlone ClientsDecide StopIsObeyed
CHECK_DEADLOCK FALSE
