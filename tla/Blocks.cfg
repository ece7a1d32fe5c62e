SPECIFICATION MCSpec
CONSTANTS
  Buf = {a, b, c}
  Nil = Nil
  Blk = {1, 2, 3, 4}
  Mid = {0, 1}
  Size = 5
  Hash <- MCHash
  MaxBuf = 2
  MaxTouch = 3
  Limit <- MCLimit
  Failing = FALSE
  solo = solo
  trio = trio
  plain = plain
  NoFs = NoFs
  MaxMnt = 3
  MaxExt = 4
  MaxTime = 1
  MaxBotched = 2
SYMMETRY Symmetry
INVARIANT BlocksKept MountsOwn RecordsLocated
CHECK_DEADLOCK FALSE
