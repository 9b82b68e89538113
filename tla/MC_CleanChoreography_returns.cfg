\* Two Clean calls, pods also deleted by others; the fair specification.
\* No symmetry: it is unsound for liveness checking.
CONSTANTS
  n1 = n1
  n2 = n2
  Nodes <- MCNodes
  MaxGen <- MCMaxGen
  MaxCleans = 2
  PodsMayBeDeleted = TRUE
SPECIFICATION FairSpec
PROPERTIES
  CleanReturns
\* The model stops once the bounded Clean calls have returned and the
\* controller has nothing left to do.
CHECK_DEADLOCK FALSE
