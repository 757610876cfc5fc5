SPECIFICATION LiveSpec
CONSTANTS
  Workers = {w1, w2}
  Senders = {s1, s2}
  Capacity = 2
  MaxBatch = 2
  MaxRetries = 2
  MaxMetrics = 3
PROPERTY StopReturns
CHECK_DEADLOCK FALSE
