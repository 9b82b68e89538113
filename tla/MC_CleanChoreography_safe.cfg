\* One Clean call from the steady state; pods deleted only by the controller.
\* The invariants are the strengthenings the proofs use.
CONSTANTS
  n1 = n1
  n2 = n2
  Nodes <- MCNodes
  MaxGen <- MCMaxGen
  MaxCleans = 1
  PodsMayBeDeleted = FALSE
SYMMETRY MCNodeSymmetry
SPECIFICATION Spec
INVARIANTS
  SelectorInv
  CheckpointInv
PROPERTIES
  CheckpointSafe
\* The model stops once the bounded Clean calls have returned and the
\* controller has nothing left to do.
CHECK_DEADLOCK FALSE
