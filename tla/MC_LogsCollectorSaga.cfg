\* Reliable creates, up to two teardown calls: the safety properties and the
\* proof's inductive invariant.  A call of CreateAndStart ends in a final
\* state: the model stops there.
CONSTANTS
  MaxTeardowns <- MCMaxTeardowns
  CreateMayLeak <- MCReliableCreate
SPECIFICATION Spec
INVARIANTS
  NoSilentOrphan
  CommittedComplete
  DependencyRespected
  IInv
CHECK_DEADLOCK FALSE
