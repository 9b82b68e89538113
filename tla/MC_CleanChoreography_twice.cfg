\* Two Clean calls, pods deleted only by the controller.
CONSTANTS
  n1 = n1
  n2 = n2
  Nodes <- MCNodes
  MaxGen <- MCMaxGen
  MaxCleans = 2
  PodsMayBeDeleted = FALSE
SYMMETRY MCNodeSymmetry
SPECIFICATION Spec
INVARIANTS
  CleanSuccessRestores
\* The model stops once the bounded Clean calls have returned and the
\* controller has nothing left to do.
CHECK_DEADLOCK FALSE
