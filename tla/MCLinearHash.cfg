CONSTANTS
  Key = {1, 2, 3, 4, 5, 6, 7, 8}
  Value = {1, 2}
  UpdatedKey = 7
  Initialsize = 1
  BucketMax = 3
  PagesPerChunk = 2
  MaxPages = 6
  MaxTable = 8
  MaxSize = 6
SPECIFICATION Spec
CONSTRAINT Bounds
INVARIANTS TypeOK EntriesInPlace LookupIsLastValue PagesNotShared
CHECK_DEADLOCK FALSE
