SPECIFICATION LiveSpec
CONSTANTS
  Goroutines = {g1, g2}
  Info = info
  Names = {u}
  Values = {a, zero}
  Zero = zero
  Gone = gone
  Absent = absent
  NoOne = NoOne
  MaxEdits = 1
  MaxFaults = 1
INVARIANTS TypeOK Converges
PROPERTIES MirrorSpec SyncEnds
CHECK_DEADLOCK FALSE
