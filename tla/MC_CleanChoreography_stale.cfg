\* One Clean call; running pods may be deleted by others.
CONSTANTS
  n1 = n1
  n2 = n2
  Nodes <- MCNodes
  MaxGen <- MCMaxGen
  MaxCleans = 1
  PodsMayBeDeleted = TRUE
SYMMETRY MCNodeSymmetry
SPECIFICATION Spec
PROPERTIES
  CheckpointSafe
\* The model stops once the bounded Clean calls have returned and the
\* controller has nothing left to do.
CHECK_DEADLOCK FALSE
