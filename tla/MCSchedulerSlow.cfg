SPECIFICATION Spec
CONSTANTS
  t1 = t1
  t2 = t2
  t3 = t3
  Tasks <- AllThree
  Yielding <- FirstOnly
  Cooperative <- NoTask
  Returning <- FirstOnly
  Allocating <- FirstOnly
  Sched = Sched
  None = None
  FirstId = 1
  IdSpace = 4
  SliceOutlastsSwitch = FALSE
  BlockCap = 2
  MaxDepth = 5
INVARIANT EachTaskOnce
INVARIANT CurrentAccurate
INVARIANT FreshSlice
INVARIANT SavedStackIsOwn
INVARIANT TaskIdsDistinct
PROPERTY ImplementsRoundRobin
CHECK_DEADLOCK FALSE
