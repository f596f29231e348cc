SPECIFICATION DaySpec
CONSTANTS
  Window = 2
  Threshold = 1
  Apps = {"xcode", "firefox"}
  Horizon = 4
  MaxFaults = 1
  MaxHooks = 2
INVARIANTS
  DayIsNotInflated
  CountersCoverBatches
CHECK_DEADLOCK FALSE
