SPECIFICATION Spec
CONSTANTS
  RegionPages = 4
  HeaderPages = 1
  Page <- MCThreePages
  Reader = {}
  Mark <- MCMark
  Writer = {"apply", "restore"}
  Threshold = 9
  MaxFrames = 5
  MaxTxn = 4
  MaxSalt = 1
  MaxStarts = 0
CONSTRAINT SmallInTurn
INVARIANT LookupFindsLast
CHECK_DEADLOCK FALSE
