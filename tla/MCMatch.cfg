CONSTANTS
  d1 = d1
  d2 = d2
  fallback = fallback
  NULL = NULL
  Names <- NamesDef
  Contexts <- ContextsDef
  MaxChildren = 3
  Trees <- TreesDef
  MaxSize = 25
  LinearSearch = 1
  Dispatchers = {d1, d2}
  Paths <- PathsDef
  Fallback = fallback
SPECIFICATION SomeSpec
INVARIANTS
  TerminalsSorted
  FillsAllocation
  GraphIsTree
  MaxParamsExact
  ExactRouteFound
  WildcardIsMostSpecific
  FallbackIsLast
PROPERTIES
  RequestsAnswered
CHECK_DEADLOCK FALSE
