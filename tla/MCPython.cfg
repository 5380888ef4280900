CONSTANTS
  t1 = t1
  t2 = t2
  c1 = c1
  b1 = b1
  r1 = r1
  d1 = d1
  NULL = NULL
  Contexts = {c1}
  Threads = {t1, t2}
  Builders = {b1}
  Routers = {r1}
  Dispatchers = {d1}
  Counting = TRUE
  AllocFails = TRUE
  BuildRouter = TRUE
  Failing = {"router", "dispatcher"}
  MaxHeld = 2
SPECIFICATION PySpec
SYMMETRY SymmetryDef
INVARIANTS
  CountsExact
  DispatchersResolve
CHECK_DEADLOCK FALSE
