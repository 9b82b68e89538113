\* List calls that take up to two intervals; the deadline and the attempt
\* bound both reachable; WInv and BInv are the invariants of the proofs.
CONSTANTS
  p1 = p1
  p2 = p2
  Pods <- MCPods
  MaxRetries = 3
  MaxLatency = 2
SYMMETRY MCPodSymmetry
SPECIFICATION Spec
INVARIANTS
  NoEarlyGiveUp
  WorstCaseBound
  WInv
  BInv
\* The wait ends in a final state.
CHECK_DEADLOCK FALSE
