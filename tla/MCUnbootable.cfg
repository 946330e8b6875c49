SPECIFICATION Spec
CONSTANTS
  RegionPages = 2
  HeaderPages = 1
  Page <- MCPage
  Reader = {r1}
  Mark <- MCMark
  Writer = {"apply", "handler", "restore", "sqlite"}
  Threshold = 1
  MaxFrames = 3
  MaxTxn = 2
  MaxSalt = 2
  MaxStarts = 1
CONSTRAINT Busy
INVARIANT StartsAgain
CHECK_DEADLOCK FALSE
