CONSTANTS
  c1 = c1
  c2 = c2
  NoCpu = NoCpu
  Cpu = {c1, c2}
  NumZones = 2
  Region <- MCRegion
  MaxOrder = 8
  PageSize = 8
  ApPage = 2
  Sizes = {1}
  MaxHeld = 2
  MaxBorrows = 2
  Chunk = 2
  InitialChunk = 4
  InitialHeapSize = 8
  HeapIncSize = 8
  Layouts <- MCLayouts
  MaxBlocks = 2
CHECK_DEADLOCK FALSE
SPECIFICATION Spec
INVARIANTS PagesTile SpaceExact HeapTiles 
PROPERTIES AllocReturns ImplementsBlocks
