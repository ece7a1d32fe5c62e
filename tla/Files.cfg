SPECIFICATION MCSpec
CONSTANTS
  Client = {c1, c2, c3}
  Root = Root
  Sub = Sub
  File = {f1}
  Linkable = {f1}
  Name = {n1}
  None = None
  CanFill = FALSE
  Touching = FALSE
  Drives = FALSE
  SameSecond = FALSE
  MaxTime = 2
  MaxCount = 5
SYMMETRY Symmetry
INVARIANTS FilesKept CallsRight NamesRight Restored
CHECK_DEADLOCK FALSE
