CONSTANTS
  Node = {n1, n2}
  Txn = {t1, t2}
  None = None
  MaxTerm = 2
  Forwarding = FALSE
SPECIFICATION FairSpec
PROPERTIES LeaderGetsReady Converges
CHECK_DEADLOCK FALSE
