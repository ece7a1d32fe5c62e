SPECIFICATION MCSpec
CONSTANTS
  Block = {b1, b2, b3}
  MaxBlks = 3
  MaxBuf = 2
  Threshold = 2
  SeqMod = 256
  Torn = TRUE
  Flushing = TRUE
  Misses = TRUE
  Prealloc = FALSE
  CanFill = FALSE
  Failing = FALSE
  MaxOps = 3
  MaxCrash = 2
  MaxBlk = 5
  Capacity = 4
  SafeEof = TRUE
  Sized = {TRUE, FALSE}
  Undelete = FALSE
  Busy = FALSE
  Batch = 2
  MaxTree = 3
  MaxCalls = 5
SYMMETRY Symmetry
INVARIANTS WholeRecoverable ReadCurrent FreeExact FilesStay ScanRight ReportRight
PROPERTIES StoreSpec CleanMeansWritten UnmountClean
CHECK_DEADLOCK FALSE
