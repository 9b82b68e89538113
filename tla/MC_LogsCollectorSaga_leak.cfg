\* A create call may fail after the API server stored the object.
CONSTANTS
  MaxTeardowns <- MCMaxTeardowns
  CreateMayLeak <- MCLossyCreate
SPECIFICATION Spec
INVARIANTS
  NoSilentOrphan
CHECK_DEADLOCK FALSE
