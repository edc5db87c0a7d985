CONSTANTS
  Key = {1, 2, 3}
  Value = {1, 2}
  BufferSize = 2
  NumLevels = 3
  FenceAt = 2
  LSKey = {1, 4, 6, 7}
  TableBaseSize = 4
  bmaxsize = 2
  MaxRuns = 3
  Rounds = 3
  ListKey = {0, 1, 2, 3}
  MAX_LEVEL1 = 3
  MaxListNodes = 4
  Data = {1, 2}
  PagesPerChunk = 2
  LastPage = 3
  ErasedChunks = 1
  MaxBuckets = 6
  MaxFaults = 1
SPECIFICATION Spec
INVARIANTS
  TypeOK
  DeepLevelsEmpty
  NeverMissesHeld
  OneRunOnDevice
  LiveKeysKept
  EntriesWhereDue
  InFlight
  UsageTracksDevice
  PagesReadBack
  RefusedOnlyPastErased
PROPERTIES
  SkiplistIsSortedChain
  FlushKeepsBuffer
  ExchangeEnds
CHECK_DEADLOCK FALSE
