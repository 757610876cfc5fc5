SPECIFICATION Spec
CONSTANTS
  MaxMessages = 2
  MaxLosses = 0
INVARIANT NoPanic
CHECK_DEADLOCK FALSE
