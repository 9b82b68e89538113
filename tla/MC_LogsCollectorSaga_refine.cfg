\* Reliable creates; up to two teardown calls; the abstract saga as property.
CONSTANTS
  MaxTeardowns <- MCMaxTeardowns
  CreateMayLeak <- MCReliableCreate
SPECIFICATION Spec
PROPERTIES
  SagaRefinement
\* The call and the teardowns end in a final state.
CHECK_DEADLOCK FALSE
