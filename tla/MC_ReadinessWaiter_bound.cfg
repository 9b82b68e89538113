\* A list call may take one interval: one started on the last tick returns
\* after the deadline.
CONSTANTS
  p1 = p1
  p2 = p2
  Pods <- MCPods
  MaxRetries = 3
  MaxLatency = 1
SYMMETRY MCPodSymmetry
SPECIFICATION Spec
INVARIANTS
  ReadinessBound
\* The wait ends in a final state.
CHECK_DEADLOCK FALSE
