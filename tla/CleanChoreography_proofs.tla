---------------------- MODULE CleanChoreography_proofs ----------------------
(***************************************************************************)
(* Proofs about Clean and the DaemonSet controller, for every set of nodes *)
(* and every MaxGen.  Type correctness holds for any number of calls; the  *)
(* two safety properties are proved for a single Clean call, the case in   *)
(* which they hold (runs clean_zero_pods_after_failure and                 *)
(* clean_stale_pod_list show them failing for a second call or with pods   *)
(* deleted by others).                                                      *)
(***************************************************************************)
EXTENDS CleanChoreography, TLAPS

TInv == TypeOK /\ PodsStarted

LEMMA TInvInit == Init => TInv
BY MaxGenAssumption, MaxCleansAssumption DEF Init, TInv, TypeOK, PodsStarted

LEMMA TInvStep == TInv /\ [Next]_vars => TInv'
<1> SUFFICES ASSUME TInv, [Next]_vars PROVE TInv'
  OBVIOUS
<1> USE MaxGenAssumption, MaxCleansAssumption DEF TInv, TypeOK, PodsStarted
<1>1. CASE ListPods
  <2>1. {<<n, gen[n]>> : n \in {m \in Nodes : pod[m] # "absent"}}
          \subseteq Nodes \X (1..MaxGen)
    OBVIOUS
  <2> QED
    BY <1>1, <2>1 DEF ListPods
<1>2. CASE Evict
  BY <1>2 DEF Evict, Fail
<1>3. CASE AwaitTermination
  BY <1>3 DEF AwaitTermination, Fail
<1>4. CASE RemoveDirFromNode
  BY <1>4 DEF RemoveDirFromNode, Fail
<1>5. CASE Restore
  BY <1>5 DEF Restore, Fail
<1>6. CASE AwaitReady
  BY <1>6 DEF AwaitReady, Fail
<1>7. CASE \E n \in Nodes : SchedulePod(n)
  BY <1>7 DEF SchedulePod
<1>8. CASE \E n \in Nodes : BecomeReady(n) \/ DeletePod(n) \/ PodGone(n)
  BY <1>8 DEF BecomeReady, DeletePod, PodGone
<1>9. CASE UNCHANGED vars
  BY <1>9 DEF vars
<1>10. QED
  BY <1>1, <1>2, <1>3, <1>4, <1>5, <1>6, <1>7, <1>8, <1>9 DEF Next

(* Every reachable state of Clean and the controller is well typed.        *)
THEOREM CleanTypeCorrect == Spec => []TypeOK
<1>1. Spec => []TInv
  BY TInvInit, TInvStep, PTL DEF Spec
<1> QED
  BY <1>1, PTL DEF TInv

-----------------------------------------------------------------------------
(* One call: the selector invariant.                                        *)
LEMMA SelectorInit == Init => SelectorInv
BY DEF Init, SelectorInv

LEMMA SelectorStep ==
  ASSUME MaxCleans <= 1
  PROVE  TInv /\ SelectorInv /\ [Next]_vars => SelectorInv'
<1> SUFFICES ASSUME TInv, SelectorInv, [Next]_vars PROVE SelectorInv'
  OBVIOUS
<1> USE MaxCleansAssumption DEF SelectorInv, TInv, TypeOK
<1>1. CASE ListPods
  <2>1. cleans = 0 /\ selector = "none"
    BY <1>1 DEF ListPods
  <2> QED
    BY <1>1, <2>1 DEF ListPods
<1>2. CASE Evict
  BY <1>2 DEF Evict, Fail
<1>3. CASE AwaitTermination
  BY <1>3 DEF AwaitTermination, Fail
<1>4. CASE RemoveDirFromNode
  BY <1>4 DEF RemoveDirFromNode, Fail
<1>5. CASE Restore
  BY <1>5 DEF Restore, Fail
<1>6. CASE AwaitReady
  BY <1>6 DEF AwaitReady, Fail
<1>7. CASE \E n \in Nodes : SchedulePod(n) \/ BecomeReady(n) \/ DeletePod(n) \/ PodGone(n)
  BY <1>7 DEF SchedulePod, BecomeReady, DeletePod, PodGone
<1>8. CASE UNCHANGED vars
  BY <1>8 DEF vars
<1>9. QED
  BY <1>1, <1>2, <1>3, <1>4, <1>5, <1>6, <1>7, <1>8 DEF Next

(* With at most one Clean call, outside deletions allowed: the evict       *)
(* selector is set only between the evict patch and the restoring patch of *)
(* cleanFluentbitCheckpoints, or is left behind by a call that failed in   *)
(* between.                                                                *)
THEOREM SelectorInvariant ==
  ASSUME MaxCleans <= 1
  PROVE  Spec => []SelectorInv
<1>1. Spec => [](TInv /\ SelectorInv)
  BY TInvInit, TInvStep, SelectorInit, SelectorStep, PTL DEF Spec
<1> QED
  BY <1>1, PTL

(* A single Clean call that reports success has restored the empty node    *)
(* selector: the zero-pod success and the final readiness success are     *)
(* reached only with the daemon set schedulable.                           *)
THEOREM CleanSuccessRestoresTheorem ==
  ASSUME MaxCleans <= 1
  PROVE  Spec => []CleanSuccessRestores
<1>1. Spec => [](TInv /\ SelectorInv)
  BY TInvInit, TInvStep, SelectorInit, SelectorStep, PTL DEF Spec
<1>2. TInv /\ SelectorInv => CleanSuccessRestores
  BY DEF SelectorInv, CleanSuccessRestores, TInv, TypeOK
<1> QED
  BY <1>1, <1>2, PTL

-----------------------------------------------------------------------------
(* One call, no outside deletions: the checkpoint invariant.                *)
LEMMA CheckpointInit == Init => CheckpointInv
BY DEF Init, CheckpointInv

LEMMA CheckpointStep ==
  ASSUME MaxCleans <= 1, ~PodsMayBeDeleted
  PROVE  TInv /\ SelectorInv /\ CheckpointInv /\ [Next]_vars => CheckpointInv'
<1> SUFFICES ASSUME TInv, SelectorInv, CheckpointInv, [Next]_vars
             PROVE CheckpointInv'
  OBVIOUS
<1> USE MaxCleansAssumption DEF TInv, TypeOK
<1>1. CASE ListPods
  <2>1. cleans = 0
    BY <1>1 DEF ListPods
  <2>2. \A n \in Nodes : pod[n] # "absent" => pod[n] = "running"
    BY <2>1 DEF CheckpointInv
  <2> QED
    BY <1>1, <2>1, <2>2 DEF ListPods, CheckpointInv
<1>2. CASE Evict
  BY <1>2 DEF Evict, Fail, CheckpointInv, Mounted
<1>3. CASE AwaitTermination
  <2> SUFFICES ASSUME NEW p \in listed, Terminated(p), listed' = listed \ {p},
                      UNCHANGED <<selector, pod, gen, ready, cpc, nodeNames,
                                  wiped, result, cleans>>
               PROVE CheckpointInv'
    BY <1>3 DEF AwaitTermination, Fail, CheckpointInv
  <2> QED
    BY DEF CheckpointInv, Terminated, Mounted
<1>4. CASE RemoveDirFromNode
  <2>1. CASE Fail
    BY <2>1 DEF Fail, CheckpointInv
  <2>2. CASE ~Fail
    <3> SUFFICES ASSUME NEW n \in nodeNames, nodeNames' = nodeNames \ {n},
                        UNCHANGED <<selector, pod, gen, ready, cpc, listed,
                                    result, cleans>>
                 PROVE CheckpointInv'
      BY <1>4, <2>2 DEF RemoveDirFromNode
    <3> QED
      BY DEF CheckpointInv, Mounted
  <2> QED
    BY <2>1, <2>2
<1>5. CASE Restore
  BY <1>5 DEF Restore, Fail, CheckpointInv
<1>6. CASE AwaitReady
  BY <1>6 DEF AwaitReady, Fail, CheckpointInv
<1>7. ASSUME NEW n \in Nodes, SchedulePod(n) PROVE CheckpointInv'
  <2>1. cpc # "awaitTermination"
    BY <1>7 DEF SchedulePod, CheckpointInv
  <2>2. cpc = "evicting" => n \notin nodeNames
    BY <1>7 DEF SchedulePod, CheckpointInv
  <2> QED
    BY <1>7, <2>1, <2>2 DEF SchedulePod, CheckpointInv, SelectorInv
<1>8. ASSUME NEW n \in Nodes, DeletePod(n) PROVE CheckpointInv'
  <2>1. selector = "evict"
    BY <1>8 DEF DeletePod
  <2>2. cleans # 0 /\ cpc # "evicting"
    BY <2>1 DEF SelectorInv
  <2> QED
    BY <1>8, <2>2 DEF DeletePod, CheckpointInv, Mounted
<1>9. ASSUME NEW n \in Nodes, BecomeReady(n) \/ PodGone(n) PROVE CheckpointInv'
  <2>1. CASE BecomeReady(n)
    BY <2>1 DEF BecomeReady, CheckpointInv, Mounted
  <2>2. CASE PodGone(n)
    <3>1. cleans # 0
      BY <2>2 DEF PodGone, CheckpointInv
    <3>2. cpc = "evicting" => n \notin nodeNames
      BY <2>2 DEF PodGone, CheckpointInv
    <3> QED
      BY <2>2, <3>1, <3>2 DEF PodGone, CheckpointInv, Mounted
  <2> QED
    BY <1>9, <2>1, <2>2
<1>10. CASE UNCHANGED vars
  BY <1>10 DEF vars, CheckpointInv, Mounted
<1>11. QED
  BY <1>1, <1>2, <1>3, <1>4, <1>5, <1>6, <1>7, <1>8, <1>9, <1>10 DEF Next

(* With one Clean call and no outside deletions: while the call evicts,   *)
(* every node it listed still runs the listed pod, and while it awaits     *)
(* termination a node whose checkpoints are not yet removed is mounted     *)
(* only by the pod the call listed and still awaits.                       *)
THEOREM CheckpointInvariant ==
  ASSUME MaxCleans <= 1, ~PodsMayBeDeleted
  PROVE  Spec => []CheckpointInv
<1>1. Spec => [](TInv /\ SelectorInv /\ CheckpointInv)
  BY TInvInit, TInvStep, SelectorInit, SelectorStep, CheckpointInit,
     CheckpointStep, PTL DEF Spec
<1> QED
  BY <1>1, PTL

(* The step condition of CheckpointSafe follows from the invariants.        *)
LEMMA CheckpointSafeStep ==
  TInv /\ CheckpointInv /\ [Next]_vars => [\A n \in wiped' \ wiped : ~Mounted(n)]_vars
<1> SUFFICES ASSUME TInv, CheckpointInv, [Next]_vars
             PROVE  [\A n \in wiped' \ wiped : ~Mounted(n)]_vars
  OBVIOUS
<1>1. CASE RemoveDirFromNode
  BY <1>1 DEF RemoveDirFromNode, Fail, CheckpointInv, Mounted
<1>2. CASE ListPods
  BY <1>2 DEF ListPods
<1>3. CASE ~RemoveDirFromNode /\ ~ListPods
  BY <1>3 DEF Next, Evict, Fail, AwaitTermination, Restore, AwaitReady,
             SchedulePod, BecomeReady, DeletePod, PodGone, vars
<1> QED
  BY <1>1, <1>2, <1>3

(* A single Clean call with the controller as the only deleter removes a   *)
(* node's checkpoint directory only once no pod on the node mounts it:     *)
(* every listed pod has been seen terminated and no replacement can start  *)
(* under the evict selector.                                                *)
THEOREM CheckpointSafeTheorem ==
  ASSUME MaxCleans <= 1, ~PodsMayBeDeleted
  PROVE  Spec => CheckpointSafe
<1>1. Spec => [](TInv /\ SelectorInv /\ CheckpointInv)
  BY TInvInit, TInvStep, SelectorInit, SelectorStep, CheckpointInit,
     CheckpointStep, PTL DEF Spec
<1> QED
  BY <1>1, CheckpointSafeStep, PTL DEF Spec, CheckpointSafe

=============================================================================
