CONSTANTS
  Key = {1, 3, 5}
  Value = {1, 2}
  InitialDepth = 1
  bucket_size = 2
  PagesPerChunk = 2
  MaxSize = 6
  MaxPages = 2
  MaxDepth = 2
SPECIFICATION Spec
INVARIANTS TypeOK DirectoryConsistent EntriesInPlace LookupIsLastValue PagesNotShared SplitsEnd
CHECK_DEADLOCK FALSE
