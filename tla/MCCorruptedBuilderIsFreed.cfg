CONSTANTS
  c1 = c1
  c2 = c2
  r1 = r1
  r2 = r2
  NULL = NULL
  Names <- NamesDef
  Contexts = {c1, c2}
  Patterns <- PatternsDef
  MaxChildren = 2
  MaxSymbols = 1
  AllocFails = TRUE
  RefCounting = TRUE
  Routers = {r1, r2}
  Fallback = c1
  MaxSize = 7
  MaxRoutes = 3
SPECIFICATION LifeSpec
CONSTRAINT FewRoutes
INVARIANT
  CorruptedBuilderIsFreed
CHECK_DEADLOCK FALSE
