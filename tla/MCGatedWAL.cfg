SPECIFICATION Spec
CONSTANTS
  Page = {p1, p2}
  Val = {v1, v2}
  Slots = 3
  Epochs = 2
  None = None
SYMMETRY Symmetry
CONSTRAINTS Clean Shorter
INVARIANT TypeOK
INVARIANT ProposalIsTransaction
INVARIANT RecoveredIsApproved
