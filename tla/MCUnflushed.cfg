CONSTANTS
  Page <- MCPage
  Data = {"blank", "log"}
  IntRange = 16
  MaxCapacity = 1
  Key = {0, 1, 3}
  Value = {1, 2}
  PageCapacity = 2
  LogCapacity = 1
  SectorsPerChunk = 2
  ws_min = 1
  NumBlocks = 2
  NumLists = 1
  MaxNodes = 2
  NotFound = NotFound
SPECIFICATION Spec
INVARIANT UnflushedIsReturned
CHECK_DEADLOCK FALSE
