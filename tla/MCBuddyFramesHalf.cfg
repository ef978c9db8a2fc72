SPECIFICATION Spec
CONSTANTS
  MapBits = 5
  BUDDY_LEVELS = 4
  LEVEL_2MIB = 2
  Memmap <- PastHalf
  MaxRequest = 5
INVARIANT Conserved
