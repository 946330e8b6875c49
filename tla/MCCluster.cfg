SPECIFICATION Spec
CONSTANTS
  Node = {n1, n2, n3}
  Addr = {a1, a2, a3, a4}
  Seed = n1
  Admin = admin
  NoNode = NoNode
  NoAddr = NoAddr
  MaxTerm = 2
  MaxConfs = 4
  MaxStarts = 4
  MaxLate = 1
CONSTRAINTS OneAtATime Waiting Apart InTurn Orderly Alone
SYMMETRY Symmetry
INVARIANT ShutdownProceeds
INVARIANT HopsFollowTerms
INVARIANT OneCluster
INVARIANT ReachableAtAddress
CHECK_DEADLOCK FALSE
