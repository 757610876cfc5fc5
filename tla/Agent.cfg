SPECIFICATION LiveSpec
CONSTANTS
  MaxMessages = 3
  MaxLosses = 1
INVARIANTS TypeOK NoRestartLost
PROPERTIES RestartServed QuitObeyed Restarted Reconnected
CHECK_DEADLOCK FALSE
