SPECIFICATION MCFairSpec
CONSTANTS
  Block = {b1, b2}
  MaxBlks = 1
  MaxBuf = 2
  Threshold = 2
  SeqMod = 256
  Torn = TRUE
  Flushing = TRUE
  Misses = TRUE
  Prealloc = TRUE
  CanFill = TRUE
  Failing = TRUE
  MaxOps = 2
  MaxCrash = 1
  FewOps = 1
INVARIANT TypeOK
PROPERTY SyncEnds
CHECK_DEADLOCK FALSE
