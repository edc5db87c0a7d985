CONSTANTS
  max_os_threads = 2
  nsectr = 2
  nchunk = 6
  npunit = 2
  npugrp = 2
  ws_min = 1
  RunPages = {3, 4, 8}
  MaxPages = 24
SPECIFICATION FairSpec
INVARIANTS TypeOK BuffersOutliveThreads ThreadsOnOwnLUNs RefusedOnlyWhenFull RunIsRecoverable
PROPERTY CallsReturn
CHECK_DEADLOCK FALSE
