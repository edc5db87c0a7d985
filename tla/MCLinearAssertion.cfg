CONSTANTS
  Key = {1, 2, 3, 5}
  Value = {1, 2}
  Initialsize = 1
  BucketMax = 2
  PagesPerChunk = 2
  MaxPages = 2
  MaxTable = 4
  MaxSize = 4
SPECIFICATION Spec
INVARIANT AssertionsHold
CHECK_DEADLOCK FALSE
