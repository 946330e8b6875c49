CONSTANTS
  Node = {n1, n2}
  Txn = {t1, t2}
  None = None
  MaxTerm = 1
  Forwarding = TRUE
SPECIFICATION FairSpec
INVARIANT TypeOK
PROPERTY WriteResolves
CHECK_DEADLOCK FALSE
