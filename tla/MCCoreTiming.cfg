CONSTANTS
  NumCores = 2  MAX_SLICE_LENGTH = 6  min_delay = 1  Overshoot = 2  Blocks = {4}
  Delays = {0, 4}  MaxEvents = 2  MaxTicks = 14  MaxLoads = 1
SPECIFICATION Spec
INVARIANTS
  NoEventInSlice
  OnTime
  QueuedOnTime
  CoresInStep
CHECK_DEADLOCK FALSE
