CONSTANTS
  p1 = p1
  p2 = p2
  r1 = r1
  r2 = r2
  c1 = c1
  c2 = c2
  NULL = NULL
  Contexts = {c1, c2}
  Procs = {p1, p2}
  Resources = {r1, r2}
  Counting = TRUE
  AllocFails = TRUE
  MaxItems = 2
SPECIFICATION ErlSpec
INVARIANTS
  ContextsCounted
  ContextsUnshared
  NoUseAfterFree
PROPERTIES
  CallsAnswer
CHECK_DEADLOCK FALSE
