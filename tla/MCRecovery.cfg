SPECIFICATION Spec
CONSTANTS
  Page = {p1, p2}
  Trailing = 1
  MaxIndex = 3
  MaxStarts = 2
CONSTRAINT InTurn
INVARIANT Converged
INVARIANT BaseAgrees
INVARIANT ReplayPossible
INVARIANT SnapshotIsUsable
PROPERTY RestoreEnds
CHECK_DEADLOCK FALSE
