SPECIFICATION Spec
CONSTANTS
  Recs <- MCHalfNode
  NodeCap = 8
  RootCap = 7
  Over = 0
  PtrLen = 0
  NBlocks = 8
  MaxLev = 4
INVARIANT NoAssert
