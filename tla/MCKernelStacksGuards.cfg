SPECIFICATION KSpec
CONSTANTS
  MapBits = 8
  BUDDY_LEVELS = 6
  LEVEL_2MIB = 3
  Memmap <- Memory
  MaxRequest = 4
  N_LARGE_KERNEL_STACKS = 3
  LARGE_KERNEL_STACK_PAGES = 3
  N_SMALL_KERNEL_STACKS = 8
  SMALL_KERNEL_STACK_PAGES = 1
  KernelBottom = 1
  SchedBottom = 129
  SCHEDULER_STACK_SIZE = 4
  HeapPages = 16
  TableSpan = 8
  HugeGroups <- HugeSpans
  Direct <- SmallPages
INVARIANT GuardsHold
CHECK_DEADLOCK FALSE
