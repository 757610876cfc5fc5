SPECIFICATION LiveSpec
CONSTANTS
  Buffer = 1
  MaxConns = 3
  MaxLosses = 1
INVARIANTS TypeOK OneRecovery
PROPERTY RecoveryAnswered
CHECK_DEADLOCK FALSE
