SPECIFICATION LiveSpec
CONSTANTS
  Names = {"a", "ab"}
  NamePrefix <- MCNamePrefix
  Home <- MCHome
  Umasked <- MCUmasked
  MaxDepth = 4
  Trees <- MCTrees
  Requests <- MCRequests
  MaxCommands = 2
  MaxEdits = 1
INVARIANTS TypeOK SuccessIsComplete FailureIsContained ListingIsExact
PROPERTIES SourceKept EveryCommandAnswered
CHECK_DEADLOCK FALSE
