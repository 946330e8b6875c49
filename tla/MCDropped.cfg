CONSTANTS
  Node = {n1, n2}
  Txn = {t1, t2}
  None = None
  MaxTerm = 2
  Forwarding = FALSE
SPECIFICATION Spec
SYMMETRY Symmetry
INVARIANT LastAppliedIsMaterialized
CHECK_DEADLOCK FALSE
