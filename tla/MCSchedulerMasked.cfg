SPECIFICATION Spec
CONSTANTS
  t1 = t1
  t2 = t2
  t3 = t3
  Tasks <- AllThree
  Yielding <- FirstOnly
  Cooperative <- NoTask
  Returning <- NoTask
  Allocating <- NoTask
  Sched = Sched
  None = None
  FirstId = 1
  IdSpace = 5
  SliceOutlastsSwitch = TRUE
  BlockCap = 2
  MaxDepth = 4
INVARIANT TaskInterruptible
