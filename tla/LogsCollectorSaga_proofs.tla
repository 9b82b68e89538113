---------------------- MODULE LogsCollectorSaga_proofs ----------------------
(***************************************************************************)
(* Proofs about the CreateAndStart saga for every value of MaxTeardowns.    *)
(* The safety theorems assume create calls fail cleanly (~CreateMayLeak):  *)
(* with lossy creates NoSilentOrphan is false (run saga_lossy_create).     *)
(***************************************************************************)
EXTENDS LogsCollectorSaga, TLAPS

(* Facts about the constant tables Order, TeardownOrder and Deps.          *)
LEMMA OrderFacts ==
  /\ \A i \in 1..NumKinds : Order[i] \in Kinds
  /\ \A i \in 1..NumKinds : TeardownOrder[i] \in Kinds
  /\ Created(0) = {}
  /\ Created(NumKinds) = Kinds
  /\ \A n \in 0..(NumKinds - 1) : Created(n + 1) = Created(n) \cup {Order[n + 1]}
  /\ TeardownAhead(1) = Kinds
  /\ TeardownAhead(NumKinds + 1) = {}
  /\ \A n \in 1..NumKinds :
       TeardownAhead(n) = {TeardownOrder[n]} \cup TeardownAhead(n + 1)
BY DEF Order, TeardownOrder, Kinds, NumKinds, Created, TeardownAhead

(* The dependency table, evaluated.                                        *)
LEMMA DepsValues ==
  /\ Deps["Namespace"] = {}
  /\ Deps["ServiceAccount"] = {"Namespace"}
  /\ Deps["ClusterRole"] = {}
  /\ Deps["ClusterRoleBinding"] = {"Namespace", "ServiceAccount", "ClusterRole"}
  /\ Deps["ConfigMap"] = {"Namespace"}
  /\ Deps["DaemonSet"] = {"Namespace", "ConfigMap", "ServiceAccount"}
BY DEF Deps, Kinds

(* The created prefixes and the teardown suffixes, evaluated.               *)
LEMMA PrefixValues ==
  /\ Created(1) = {"Namespace"}
  /\ Created(2) = {"Namespace", "ServiceAccount"}
  /\ Created(3) = {"Namespace", "ServiceAccount", "ClusterRole"}
  /\ Created(4) = {"Namespace", "ServiceAccount", "ClusterRole", "ClusterRoleBinding"}
  /\ Created(5) = {"Namespace", "ServiceAccount", "ClusterRole",
                   "ClusterRoleBinding", "ConfigMap"}
  /\ TeardownAhead(2) = {"ConfigMap", "ClusterRoleBinding", "ClusterRole",
                         "ServiceAccount", "Namespace"}
  /\ TeardownAhead(3) = {"ClusterRoleBinding", "ClusterRole", "ServiceAccount", "Namespace"}
  /\ TeardownAhead(4) = {"ClusterRole", "ServiceAccount", "Namespace"}
  /\ TeardownAhead(5) = {"ServiceAccount", "Namespace"}
  /\ TeardownAhead(6) = {"Namespace"}
BY DEF Created, TeardownAhead, Order, TeardownOrder, NumKinds

(* A removal takes out more than its own object only for the namespace,   *)
(* which is first in Order and last in TeardownOrder.                      *)
LEMMA RemovedValues ==
  /\ \A k \in Kinds \ {"Namespace"} : Removed(k) = {k}
  /\ \A i \in 1..NumKinds : Order[i] = "Namespace" => i = 1
  /\ \A i \in 1..NumKinds : TeardownOrder[i] = "Namespace" => i = NumKinds
BY DEF Removed, Kinds, Order, TeardownOrder, NumKinds

(* An object depends only on objects created before it, and the teardown   *)
(* func removes an object only after everything that depends on it.        *)
LEMMA DepsFacts ==
  /\ \A n \in 0..NumKinds : \A k \in Created(n) : Deps[k] \subseteq Created(n)
  /\ \A n \in 1..NumKinds : \A k \in Created(n - 1) : Order[n] \notin Deps[k]
  /\ \A n \in 1..NumKinds : \A k \in TeardownAhead(n + 1) :
       TeardownOrder[n] \notin Deps[k]
<1>1. \A n \in 0..NumKinds : \A k \in Created(n) : Deps[k] \subseteq Created(n)
  <2> SUFFICES ASSUME NEW n \in 0..NumKinds, NEW k \in Created(n)
               PROVE Deps[k] \subseteq Created(n)
    OBVIOUS
  <2>1. n \in {0, 1, 2, 3, 4, 5, 6}
    BY DEF NumKinds
  <2> QED
    BY <2>1, DepsValues, PrefixValues, OrderFacts DEF NumKinds, Kinds
<1>2. \A n \in 1..NumKinds : \A k \in Created(n - 1) : Order[n] \notin Deps[k]
  <2> SUFFICES ASSUME NEW n \in 1..NumKinds, NEW k \in Created(n - 1)
               PROVE Order[n] \notin Deps[k]
    OBVIOUS
  <2>1. n \in {1, 2, 3, 4, 5, 6}
    BY DEF NumKinds
  <2> QED
    BY <2>1, DepsValues, PrefixValues, OrderFacts DEF Order
<1>3. \A n \in 1..NumKinds : \A k \in TeardownAhead(n + 1) :
        TeardownOrder[n] \notin Deps[k]
  <2> SUFFICES ASSUME NEW n \in 1..NumKinds, NEW k \in TeardownAhead(n + 1)
               PROVE TeardownOrder[n] \notin Deps[k]
    OBVIOUS
  <2>1. n \in {1, 2, 3, 4, 5, 6}
    BY DEF NumKinds
  <2> QED
    BY <2>1, DepsValues, PrefixValues, OrderFacts DEF TeardownOrder, NumKinds
<1>4. QED
  BY <1>1, <1>2, <1>3

-----------------------------------------------------------------------------
(* Type correctness.                                                        *)
LEMMA TypeInit == Init => TypeOK
BY MaxTeardownsAssumption DEF Init, TypeOK, NumKinds

LEMMA TypeStep == TypeOK /\ [Next]_vars => TypeOK'
<1> SUFFICES ASSUME TypeOK, [Next]_vars PROVE TypeOK'
  OBVIOUS
<1>1. CASE GenerateGuid
  BY <1>1 DEF GenerateGuid, TypeOK
<1>2. CASE CreateResource
  <2>1. Order[stack + 1] \in Kinds
    BY <1>2, OrderFacts DEF CreateResource, TypeOK, NumKinds
  <2>2. CASE /\ Registered(Order[stack + 1])
             /\ UNCHANGED <<pc, reported, outcome, td, teardowns>>
    BY <1>2, <2>1, <2>2 DEF CreateResource, Registered, TypeOK, NumKinds
  <2>3. CASE CreateFails(Order[stack + 1])
    BY <2>1, <2>3 DEF CreateFails, TypeOK
  <2>4. QED
    BY <1>2, <2>2, <2>3 DEF CreateResource
<1>3. CASE CreateDaemonSet
  <2>1. CASE /\ Registered("DaemonSet")
             /\ pc' = "waiting"
             /\ UNCHANGED <<reported, outcome, td, teardowns>>
    BY <1>3, <2>1 DEF CreateDaemonSet, Registered, TypeOK, Kinds, NumKinds
  <2>2. CASE CreateFails("DaemonSet")
    BY <2>2 DEF CreateFails, TypeOK, Kinds
  <2>3. QED
    BY <1>3, <2>1, <2>2 DEF CreateDaemonSet
<1>4. CASE AwaitReadiness
  BY <1>4 DEF AwaitReadiness, TypeOK
<1>5. CASE RunDeferred
  BY <1>5, OrderFacts DEF RunDeferred, Remove, TypeOK, NumKinds
<1>6. CASE Return
  BY <1>6 DEF Return, TypeOK
<1>7. CASE StartTeardown
  BY <1>7, MaxTeardownsAssumption DEF StartTeardown, TypeOK, NumKinds
<1>8. CASE TeardownStep
  BY <1>8, OrderFacts DEF TeardownStep, Remove, TypeOK, NumKinds
<1>9. CASE TeardownReturn
  BY <1>9 DEF TeardownReturn, TypeOK
<1>10. CASE UNCHANGED vars
  BY <1>10 DEF vars, TypeOK
<1>11. QED
  BY <1>1, <1>2, <1>3, <1>4, <1>5, <1>6, <1>7, <1>8, <1>9, <1>10 DEF Next

LEMMA TypeCorrect == Spec => []TypeOK
BY TypeInit, TypeStep, PTL DEF Spec

-----------------------------------------------------------------------------
(* IInv is inductive when create calls fail cleanly.                        *)
LEMMA IInvInit == Init => IInv
BY TypeInit, OrderFacts
   DEF Init, IInv, DependencyRespected

LEMMA IInvStep ==
  ASSUME ~CreateMayLeak
  PROVE  IInv /\ [Next]_vars => IInv'
<1> SUFFICES ASSUME IInv, [Next]_vars PROVE IInv'
  OBVIOUS
<1>0. TypeOK'
  BY TypeStep DEF IInv
<1> USE <1>0 DEF IInv, DependencyRespected
<1>1. CASE GenerateGuid
  <2>1. CASE pc' = "creating" /\ UNCHANGED outcome
    BY <1>1, <2>1, OrderFacts DEF GenerateGuid, NumKinds
  <2>2. CASE pc' = "returned" /\ outcome' = "err"
    BY <1>1, <2>2 DEF GenerateGuid
  <2>3. QED
    BY <1>1, <2>1, <2>2 DEF GenerateGuid
<1>2. CASE CreateResource
  <2>1. stack + 1 \in 1..NumKinds
    BY <1>2 DEF CreateResource, TypeOK, NumKinds
  <2>2. CASE /\ Registered(Order[stack + 1])
             /\ UNCHANGED <<pc, reported, outcome, td, teardowns>>
    BY <1>2, <2>1, <2>2, OrderFacts, DepsFacts DEF CreateResource, Registered, NumKinds, TypeOK
  <2>3. CASE CreateFails(Order[stack + 1])
    BY <1>2, <2>3 DEF CreateFails, CreateResource
  <2>4. QED
    BY <1>2, <2>2, <2>3 DEF CreateResource
<1>3. CASE CreateDaemonSet
  <2>1. CASE /\ Registered("DaemonSet")
             /\ pc' = "waiting"
             /\ UNCHANGED <<reported, outcome, td, teardowns>>
    BY <1>3, <2>1, OrderFacts, DepsFacts DEF CreateDaemonSet, Registered, NumKinds, Order, TypeOK
  <2>2. CASE CreateFails("DaemonSet")
    BY <1>3, <2>2 DEF CreateFails, CreateDaemonSet
  <2>3. QED
    BY <1>3, <2>1, <2>2 DEF CreateDaemonSet
<1>4. CASE AwaitReadiness
  BY <1>4, OrderFacts DEF AwaitReadiness
<1>5. CASE RunDeferred
  <2>1. stack \in 1..NumKinds
    BY <1>5 DEF RunDeferred, TypeOK, NumKinds
  <2>2. CASE Order[stack] # "Namespace"
    <3>1. Removed(Order[stack]) = {Order[stack]}
      BY <2>1, <2>2, RemovedValues, OrderFacts
    <3> QED
      BY <1>5, <2>1, <3>1, OrderFacts, DepsFacts DEF RunDeferred, Remove, TypeOK, NumKinds
  <2>3. CASE Order[stack] = "Namespace"
    <3>1. stack = 1
      BY <2>1, <2>3, RemovedValues
    <3>2. stack' = 0 /\ UNCHANGED <<pc, armed, outcome, td, teardowns>>
      BY <1>5, <3>1 DEF RunDeferred
    <3>3. (pc = "returning" /\ outcome = "err") => cluster \ reported \subseteq {"Namespace"}
      BY <3>1, PrefixValues
    <3>4. cluster' \subseteq cluster /\ reported \subseteq reported'
      BY <1>5 DEF RunDeferred, Remove
    <3>5. (pc = "returning" /\ outcome = "err") => cluster' \ reported' = {}
      BY <1>5, <2>3, <3>3, <3>4 DEF RunDeferred, Remove, Removed
    <3>6. (pc = "returning" /\ outcome = "ok") => UNCHANGED <<cluster, reported>>
      BY <1>5, <2>3 DEF RunDeferred
    <3> QED
      BY <1>5, <3>2, <3>4, <3>5, <3>6, OrderFacts DEF RunDeferred, TypeOK
  <2> QED
    BY <2>2, <2>3
<1>6. CASE Return
  BY <1>6, OrderFacts DEF Return, TypeOK
<1>7. CASE StartTeardown
  BY <1>7, OrderFacts DEF StartTeardown, TypeOK
<1>8. CASE TeardownStep
  <2>1. td \in 1..NumKinds
    BY <1>8 DEF TeardownStep
  <2>2. CASE TeardownOrder[td] # "Namespace"
    <3>1. Removed(TeardownOrder[td]) = {TeardownOrder[td]}
      BY <2>1, <2>2, RemovedValues, OrderFacts
    <3> QED
      BY <1>8, <2>1, <3>1, OrderFacts, DepsFacts DEF TeardownStep, Remove, TypeOK, NumKinds
  <2>3. CASE TeardownOrder[td] = "Namespace"
    <3>1. td = NumKinds
      BY <2>1, <2>3, RemovedValues
    <3>2. td' = NumKinds + 1 /\ UNCHANGED <<pc, stack, armed, outcome, teardowns>>
      BY <1>8, <3>1 DEF TeardownStep
    <3>3. cluster \ reported \subseteq {"Namespace"}
      BY <1>8, <3>1, PrefixValues DEF TeardownStep, NumKinds
    <3>4. cluster' \ reported' = {}
      BY <1>8, <2>3, <3>3 DEF TeardownStep, Remove, Removed
    <3> QED
      BY <1>8, <3>2, <3>4, OrderFacts DEF TeardownStep, TypeOK, NumKinds
  <2> QED
    BY <2>2, <2>3
<1>9. CASE TeardownReturn
  BY <1>9, OrderFacts DEF TeardownReturn, NumKinds
<1>10. CASE UNCHANGED vars
  BY <1>10 DEF vars
<1>11. QED
  BY <1>1, <1>2, <1>3, <1>4, <1>5, <1>6, <1>7, <1>8, <1>9, <1>10 DEF Next


(* The strengthening holds in every reachable state.                        *)
THEOREM SagaInvariant ==
  ASSUME ~CreateMayLeak
  PROVE  Spec => []IInv
BY IInvInit, IInvStep, PTL DEF Spec

(* IInv implies each of the three safety properties in the same state.      *)
LEMMA IInvImpliesSafety ==
  IInv => NoSilentOrphan /\ CommittedComplete /\ DependencyRespected
BY DEF IInv, NoSilentOrphan, CommittedComplete

(* Atomicity of CreateAndStart: when create calls fail cleanly, a failed    *)
(* call and a completed teardown leave no object that was not reported as  *)
(* needing manual removal, whatever removals fail.                          *)
THEOREM NoSilentOrphanTheorem ==
  ASSUME ~CreateMayLeak
  PROVE  Spec => []NoSilentOrphan
BY SagaInvariant, IInvImpliesSafety, PTL

(* Commit point: a successful CreateAndStart leaves all six objects in the *)
(* cluster until the caller's teardown func runs.                           *)
THEOREM CommittedCompleteTheorem ==
  ASSUME ~CreateMayLeak
  PROVE  Spec => []CommittedComplete
BY SagaInvariant, IInvImpliesSafety, PTL

(* Removal order: the LIFO defers and the teardown func never remove an    *)
(* object while an unreported object that names it is still present.       *)
THEOREM DependencyRespectedTheorem ==
  ASSUME ~CreateMayLeak
  PROVE  Spec => []DependencyRespected
BY SagaInvariant, IInvImpliesSafety, PTL

-----------------------------------------------------------------------------
(* Refinement of SagaAbstract.  The initial state maps to the abstract     *)
(* initial state; every step, in a state and its successor satisfying      *)
(* IInv, maps to an abstract step or to a stutter.                          *)
LEMMA RefineInit == Init => Abs!Init
BY DEF Init, Abs!Init, AbsPhase

LEMMA RefineStep ==
  ASSUME IInv, IInv', [Next]_vars
  PROVE  [Abs!Next]_Abs!vars
<1> USE DEF Abs!vars
<1>1. CASE GenerateGuid
  <2>1. CASE pc' = "creating" /\ UNCHANGED outcome
    <3>1. AbsPhase = "idle" /\ AbsPhase' = "starting"
      BY <1>1, <2>1 DEF GenerateGuid, AbsPhase
    <3>2. UNCHANGED (cluster \ reported)
      BY <1>1 DEF GenerateGuid
    <3> QED
      BY <3>1, <3>2 DEF Abs!Next, Abs!Begin
  <2>2. CASE pc' = "returned" /\ outcome' = "err"
    <3>1. AbsPhase = "idle" /\ AbsPhase' = "failed"
      BY <1>1, <2>2 DEF GenerateGuid, AbsPhase
    <3>2. cluster \ reported = {} /\ UNCHANGED (cluster \ reported)
      BY <1>1 DEF GenerateGuid, IInv
    <3> QED
      BY <3>1, <3>2 DEF Abs!Next, Abs!Abort
  <2>3. QED
    BY <1>1, <2>1, <2>2 DEF GenerateGuid
<1>2. CASE CreateResource \/ CreateDaemonSet \/ AwaitReadiness \/ RunDeferred
  <2>1. pc \in {"creating", "waiting", "returning"}
        /\ pc' \in {"creating", "waiting", "returning"}
    BY <1>2 DEF CreateResource, CreateDaemonSet, AwaitReadiness, RunDeferred,
               CreateFails
  <2>2. AbsPhase = "starting" /\ AbsPhase' = "starting"
    BY <2>1 DEF AbsPhase
  <2>3. (cluster \ reported)' \subseteq Kinds
    BY DEF IInv, TypeOK
  <2> QED
    BY <2>2, <2>3 DEF Abs!Next, Abs!Change
<1>3. CASE Return
  <2>1. AbsPhase = "starting"
    BY <1>3 DEF Return, AbsPhase
  <2>2. UNCHANGED (cluster \ reported)
    BY <1>3 DEF Return
  <2>3. CASE outcome = "ok"
    <3>1. teardowns = 0
      BY <1>3 DEF Return, IInv, TypeOK
    <3>2. AbsPhase' = "up"
      BY <1>3, <2>3, <3>1 DEF Return, AbsPhase
    <3>3. cluster \ reported = Kinds
      BY <1>3, <2>3, <3>1 DEF Return, IInv
    <3> QED
      BY <2>1, <2>2, <3>2, <3>3 DEF Abs!Next, Abs!Commit
  <2>4. CASE outcome # "ok"
    <3>1. outcome = "err"
      BY <1>3, <2>4 DEF Return, IInv, TypeOK
    <3>2. AbsPhase' = "failed"
      BY <1>3, <3>1 DEF Return, AbsPhase
    <3>3. cluster \ reported = {}
      BY <1>3, <3>1 DEF Return, IInv
    <3> QED
      BY <2>1, <2>2, <3>2, <3>3 DEF Abs!Next, Abs!Abort
  <2> QED
    BY <2>3, <2>4
<1>4. CASE StartTeardown
  <2>1. AbsPhase \in {"up", "down"} /\ AbsPhase' = "stopping"
    BY <1>4 DEF StartTeardown, AbsPhase, IInv, TypeOK
  <2>2. UNCHANGED (cluster \ reported)
    BY <1>4 DEF StartTeardown
  <2> QED
    BY <2>1, <2>2 DEF Abs!Next, Abs!StopBegin
<1>5. CASE TeardownStep
  <2>1. AbsPhase = "stopping" /\ AbsPhase' = "stopping"
    BY <1>5 DEF TeardownStep, AbsPhase
  <2>2. (cluster \ reported)' \subseteq cluster \ reported
    BY <1>5 DEF TeardownStep, Remove
  <2> QED
    BY <2>1, <2>2 DEF Abs!Next, Abs!Shrink
<1>6. CASE TeardownReturn
  <2>1. AbsPhase = "stopping"
    BY <1>6 DEF TeardownReturn, AbsPhase
  <2>2. teardowns > 0 /\ outcome = "ok"
    BY <1>6 DEF TeardownReturn, IInv
  <2>3. AbsPhase' = "down"
    BY <1>6, <2>2 DEF TeardownReturn, AbsPhase
  <2>4. cluster \ reported = {}
    BY <1>6, OrderFacts DEF TeardownReturn, IInv, NumKinds
  <2>5. UNCHANGED (cluster \ reported)
    BY <1>6 DEF TeardownReturn
  <2> QED
    BY <2>1, <2>3, <2>4, <2>5 DEF Abs!Next, Abs!StopEnd
<1>7. CASE UNCHANGED vars
  BY <1>7 DEF vars, AbsPhase
<1>8. QED
  BY <1>1, <1>2, <1>3, <1>4, <1>5, <1>6, <1>7 DEF Next

(* CreateAndStart and its teardown func implement SagaAbstract: a call     *)
(* ends committed with all six objects or failed with none left silently,  *)
(* and a teardown only removes objects and ends with none left.            *)
THEOREM SagaRefinementTheorem ==
  ASSUME ~CreateMayLeak
  PROVE  Spec => SagaRefinement
<1>1. Spec => []IInv
  BY SagaInvariant
<1>2. []IInv /\ [][Next]_vars => [][Abs!Next]_Abs!vars
  BY RefineStep, PTL
<1> QED
  BY <1>1, <1>2, RefineInit, PTL DEF Spec, SagaRefinement, Abs!Spec

=============================================================================
