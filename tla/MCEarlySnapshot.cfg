SPECIFICATION Spec
CONSTANTS
  Page = {p1, p2}
  Trailing = 1
  MaxIndex = 3
  MaxStarts = 1
INVARIANT SnapshotIsComplete
CHECK_DEADLOCK FALSE
