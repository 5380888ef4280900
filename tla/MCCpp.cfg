CONSTANTS
  b1 = b1
  b2 = b2
  r1 = r1
  r2 = r2
  n1 = n1
  n2 = n2
  d1 = d1
  h1 = h1
  h2 = h2
  NULL = NULL
  Builders = {b1, b2}
  Routers = {r1, r2}
  Natives = {n1, n2}
  Dispatchers = {d1}
  Contexts = {h1, h2}
  Counting = FALSE
  AllocFails = TRUE
  MaxRoutes = 2
SPECIFICATION CppSpec
SYMMETRY SymmetryDef
INVARIANTS
  OwnedOnce
  HandlersBesideRoutes
  DispatchersKeepRouters
CHECK_DEADLOCK FALSE
