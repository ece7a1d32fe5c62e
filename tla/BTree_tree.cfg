\* Deadlock: the server stops taking requests of a file once one left it half changed.
SPECIFICATION Spec
CONSTANTS
  Recs <- MCRecs
  NodeCap = 6
  RootCap = 6
  Over = 0
  PtrLen = 0
  NBlocks = 9
  MaxLev = 4
INVARIANTS KeysRead TreeWhole NoAssert SpaceSuffices
PROPERTY EachTurnLess
VIEW Shape
