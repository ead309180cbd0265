CONSTANTS
  Capacity = 2
  MaxRequests = 4
  Descriptors = 5
  UINT_MAX = 99
  MAX_RESERVATION_SIZE = 3
  StaleDigits = {"", "9"}
  Scripts <- MCScripts
SPECIFICATION ProgramSpec
INVARIANTS TypeOK Framing RepliesMatch PipesOnPaths OnlyRefusedLeak NoMutualWait AtLineStart ScriptExecuted
PROPERTIES CallsRunOnce LinesKeptApart CallsMeanLines SessionEnds WorkerReturns
CHECK_DEADLOCK FALSE
