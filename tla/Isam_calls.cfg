SPECIFICATION MCSpec
CONSTANTS
  Client = {"c1", "c2"}
  Own <- MCOwn
  S = {1, 2}
  D = {1}
  Chain <- MCChain
  MaxNum = 2
  MaxCalls <- MCMaxCalls
  Reading = {}
  ByNumber = {"rewrec", "delrec"}
  Modes = {"NEXT"}
  Careful = TRUE
  Dies = TRUE
  Admin = TRUE
INVARIANT IndexesAgree ReplacedKept ScanComplete ServedRight FilesTogether
CHECK_DEADLOCK FALSE
