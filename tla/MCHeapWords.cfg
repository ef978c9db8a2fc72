SPECIFICATION Spec
CONSTANTS
  HEAP_SIZE = 11
  BLOCK_SIZES <- Sizes
  MinHole = 2
  Layouts <- SomeLayouts
  HostSizes = {1, 2, 4}
  Null = Null
INVARIANTS BlocksDisjoint BlocksFit NoBlockLost SizeIntact
PROPERTY ImplementsHeap
CHECK_DEADLOCK FALSE
