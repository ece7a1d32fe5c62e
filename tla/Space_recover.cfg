SPECIFICATION Spec
CONSTANTS
  MaxBlk = 6
  Capacity = 5
  SafeEof = TRUE
  Sized = {TRUE, FALSE}
  Undelete = FALSE
  Busy = TRUE
  Batch = 2
  MaxTree = 3
  MaxCalls = 5
INVARIANT FreeExact
CHECK_DEADLOCK FALSE
