CONSTANTS
  Node = {n1, n2}
  Txn = {t1, t2}
  None = None
  MaxTerm = 3
  Forwarding = TRUE
SPECIFICATION Spec
SYMMETRY Symmetry
CONSTRAINTS Clean FewTerms FewCalls
INVARIANT ReplicaIsPrefix
INVARIANT NoLostUpdate
INVARIANT SafeToRetry
INVARIANT ReadyIsDrained
INVARIANT CommittedOnce
PROPERTY KeepsPromise
CHECK_DEADLOCK FALSE
