CONSTANTS
  Key = {1, 2, 3}
  Value = {1, 2}
  BufferSize = 2
  NumLevels = 3
  FenceAt = 2
SPECIFICATION LSMSpec
INVARIANT FlushedEntriesStay
CHECK_DEADLOCK FALSE
