\* Instantaneous list calls; two pods, of which only one may be ready.
CONSTANTS
  p1 = p1
  p2 = p2
  Pods <- MCPods
  MaxRetries = 3
  MaxLatency = 0
SYMMETRY MCPodSymmetry
SPECIFICATION Spec
PROPERTIES
  AnyReadyPodSeen
\* The wait ends in a final state.
CHECK_DEADLOCK FALSE
