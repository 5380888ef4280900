CONSTANTS
  c1 = c1
  c2 = c2
  NULL = NULL
  Names <- NamesDef
  Contexts = {c1}
  Patterns <- PatternsDef
  MaxChildren = 2
  MaxSymbols = 3
  AllocFails = TRUE
  RefCounting = TRUE
  MaxRoutes = 3
SPECIFICATION LogSpec
CONSTRAINT FewRoutes
INVARIANTS
  TypeOK
  RoutesCompatible
  BuildsSoundTrees
  TreeIsCanonical
  SymbolsExact
PROPERTIES
  ImplementsRouteTable
  RefusalsJustified
