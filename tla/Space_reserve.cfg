SPECIFICATION Spec
CONSTANTS
  MaxBlk = 6
  Capacity = 5
  SafeEof = TRUE
  Sized = {FALSE}
  Undelete = FALSE
  Busy = FALSE
  Batch = 2
  MaxTree = 3
  MaxCalls = 5
PROPERTY GrantsBacked
CHECK_DEADLOCK FALSE
