SPECIFICATION FairSpec
CONSTANTS
  h1 = h1
  h2 = h2
  h3 = h3
  Handles <- ThreeHandles
  EventMax = 2
  MaxNest = 3
  StallTimes = {0, 1, 2}
  UsPerMs = 2
  CounterMax = 5
  Calibrations = {2, 5}
  PortMax = 1
  Offsets = {0, 1, 2}
INVARIANTS MaskedWhileNested LockInfallible PortsExact StallRunsItsCourse StallsAccepted
PROPERTY StallsReturn
CHECK_DEADLOCK FALSE
