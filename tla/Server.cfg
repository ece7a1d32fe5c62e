SPECIFICATION MCSpec
CONSTANTS
  Limit = 3
  AutoFlush = TRUE
  Early = TRUE
  MaxTicks = 7
  MaxOps = 4
  Pid = {p1, p2, p3}
  Lock = {l1, l2}
  Entry = {e1, e2, e3, e4}
  Stack = Stack
  Free = Free
  Client = {p1, p2}
  Nobody = Nobody
  MaxRes = 1
  LongReply = TRUE
  Freeze = TRUE
  Reuse = TRUE
  Tags = TRUE
  MaxReq = 3
  MaxGen = 2
INVARIANTS TimerRuns LocksConsistent ReplyIsMine NothingLost
PROPERTIES TimerServes Answered
CHECK_DEADLOCK FALSE
