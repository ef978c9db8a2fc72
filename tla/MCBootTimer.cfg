SPECIFICATION FairSpec
CONSTANTS
  Pins = {0, 2, 9}
  Tables <- AllTables
  Extras = {0, 2}
  HpetIrqs <- Lines
  PitPeriod = 3
  PIT_INTERVAL = 5
  CalibrationUs = 10
  UsPerMs = 4
  SleepUs = 3
  CounterMax = 11
  SleepOutlastsArming = TRUE
INVARIANTS PitRouted OverridesApplied CalibrationCoversIntervals SleepRunsItsCourse SleepLongEnough
PROPERTY SleepsReturn
