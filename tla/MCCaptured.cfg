SPECIFICATION Spec
CONSTANTS
  Page = {p1, p2}
  Val = {v1, v2}
  Slots = 2
  Epochs = 1
  None = None
SYMMETRY Symmetry
INVARIANT CapturedIsTransaction
