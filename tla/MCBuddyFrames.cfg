SPECIFICATION Spec
CONSTANTS
  MapBits = 5
  BUDDY_LEVELS = 4
  LEVEL_2MIB = 2
  Memmap <- Ragged
  MaxRequest = 5
INVARIANT Conserved
INVARIANT Coalesced
INVARIANT FindsFreeRun
PROPERTY ImplementsOwnership
