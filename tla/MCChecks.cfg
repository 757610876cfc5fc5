SPECIFICATION Spec
CONSTANTS
  Workers = {w1, w2}
  Second = 1
  Hour = 1
  Day = 3
  Realtime = 2
  Earlier = {"hourly"}
  MaxRetries = 1
  MaxRetryTime = 2
  Idle = idle
  MaxTime = 4
  MaxTroubles = 2
INVARIANTS TypeOK RetryStatusTruthful  NoneTwice
SYMMETRY Symmetry
CHECK_DEADLOCK FALSE
