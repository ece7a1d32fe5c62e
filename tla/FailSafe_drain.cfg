SPECIFICATION Spec
CONSTANTS
  Block = {b1, b2, b3}
  MaxBlks = 3
  MaxBuf = 2
  Threshold = 2
  SeqMod = 256
  Torn = FALSE
  Flushing = TRUE
  Misses = TRUE
  Prealloc = FALSE
  CanFill = FALSE
  Failing = FALSE
  MaxOps = 3
  MaxCrash = 2
INVARIANT UnappliedRecoverable
CHECK_DEADLOCK FALSE
