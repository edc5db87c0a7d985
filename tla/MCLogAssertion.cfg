CONSTANTS
  Page <- MCPage
  Data = {"blank", "log"}
  IntRange = 16
  MaxCapacity = 1
  Key = {1, 2}
  Value = {1}
  PageCapacity = 2
  LogCapacity = 2
  SectorsPerChunk = 4
  ws_min = 2
  NumBlocks = 2
  NumLists = 2
  MaxNodes = 1
  NotFound = NotFound
SPECIFICATION Spec
INVARIANT LogAssertionHolds
CHECK_DEADLOCK FALSE
