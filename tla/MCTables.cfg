CONSTANTS
  Strings <- StringsDef
  MaxSymbols = 5
  Capacity0 = 1
  BlockSize = 6
  Bases <- BasesDef
  MallocFails = TRUE
  MaxBlocks = 4
  Sizes = {1, 3, 9}
  Alignments = {1, 4}
SPECIFICATION TablesSpec
CONSTRAINT FewAllocs
INVARIANTS
  AllocationsApart
  SlotsFilled
  RegionFilledExactly
  ResolvesExactly
CHECK_DEADLOCK FALSE
