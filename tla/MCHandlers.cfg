CONSTANTS
  Requests <- RequestsDef
  Bindings <- BindingsDef
  Chars <- CharsDef
  NULL = NULL
  MaxSize = 11
  SizeMod = 64
  AllocFails = TRUE
  MaxDepth = 2
  MaxKept = 2
SPECIFICATION HandlersSpec
INVARIANTS
  SnapshotsFaithful
  SnapshotsWithinLimit
  HandlersSeeTheirOwn
