CONSTANTS
  d1 = d1
  d2 = d2
  fallback = fallback
  NULL = NULL
  Names <- NamesDef
  Contexts <- ContextsDef
  MaxChildren = 3
  Trees <- TreesDef
  MaxSize = 25
  LinearSearch = 1
  Dispatchers = {d1, d2}
  Paths <- PathsDef
  Fallback = fallback
SPECIFICATION SomeSpec
INVARIANT
  ParamsWithinArray
CHECK_DEADLOCK FALSE
