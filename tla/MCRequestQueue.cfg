SPECIFICATION LiveSpec
CONSTANTS
  q1 = q1
  q2 = q2
  q3 = q3
  Requests = {q1, q2, q3}
  Reporters = {r1, r2}
  Capacity = 2
  RetryLimit = 1
  LastPost = 0
  Priority <- MCPriority
  NoOne = NoOne
  Nothing = Nothing
INVARIANTS TypeOK Custody GetFindsEntry NoStrandedEntry RetryBudget BackoffSchedule
PROPERTIES DeliverySpec AllSettle
CHECK_DEADLOCK FALSE
