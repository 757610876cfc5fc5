SPECIFICATION LiveSpec
CONSTANTS
  Buffer = 1
  MaxConns = 3
  MaxLosses = 2
PROPERTY RecoveryAnswered
CHECK_DEADLOCK FALSE
