------------------------- MODULE CleanChoreography -------------------------
(***************************************************************************)
(* fluentbitLogsCollector.Clean (fluentbit_logs_collector_daemonset.go)    *)
(* against a model of the DaemonSet controller.  Clean lists the pods of   *)
(* the daemon set, patches its node selector to a label no node has, waits *)
(* for every listed pod to terminate, removes the checkpoint directory on  *)
(* every listed node, re-fetches the daemon set, patches its node selector *)
(* back to empty and waits for a ready pod.  Every step returns on error;  *)
(* nothing is rolled back.                                                  *)
(*                                                                         *)
(* The controller (not code of this repository) runs pods on nodes while   *)
(* the selector matches, deletes them once it does not; a pod keeps the    *)
(* node's checkpoint volume mounted until it has terminated.  Someone else *)
(* may delete a running pod, after which the controller starts a new one   *)
(* on the node (a new pod identity, gen).                                   *)
(***************************************************************************)
EXTENDS Naturals, FiniteSets

CONSTANTS
  Nodes,             \* cluster nodes eligible for the daemon set
  MaxGen,            \* bound on the pods started per node
  MaxCleans,         \* bound on the Clean calls made, one after another
  PodsMayBeDeleted   \* TRUE: running pods may be deleted by others

ASSUME NodesAssumption == IsFiniteSet(Nodes) /\ Nodes # {}
ASSUME MaxGenAssumption == MaxGen \in Nat \ {0}
ASSUME MaxCleansAssumption == MaxCleans \in Nat
ASSUME PodsMayBeDeletedAssumption == PodsMayBeDeleted \in BOOLEAN

VARIABLES
  selector,   \* the daemon set's node selector: "none" or "evict"
  pod,        \* pod[n]: "absent", "running" or "terminating" (volume mounted)
  gen,        \* gen[n]: identity of the latest pod started on n
  ready,      \* ready[n]: the pod on n reports its first container ready
  cpc,        \* where the current Clean call is
  listed,     \* pods <<node, gen>> recorded by the listing, not yet seen gone
  nodeNames,  \* nodes of the listing whose checkpoint dir is not yet removed
  wiped,      \* nodes whose checkpoint dir the current call has removed
  result,     \* result of the last Clean call: "none", "ok" or "err"
  cleans      \* Clean calls started

vars == <<selector, pod, gen, ready, cpc, listed, nodeNames, wiped, result, cleans>>

(* A pod still holds the node's checkpoint volume.                          *)
Mounted(n) == pod[n] # "absent"

(* The recorded pod <<n, g>> has terminated.                                *)
Terminated(p) == pod[p[1]] = "absent" \/ gen[p[1]] # p[2]

-----------------------------------------------------------------------------
(* The state CreateAndStart leaves: the selector is empty, and the         *)
(* controller has started pods on some of the nodes.                       *)
Init ==
  /\ selector = "none"
  /\ pod \in [Nodes -> {"absent", "running"}]
  /\ gen = [n \in Nodes |-> IF pod[n] = "running" THEN 1 ELSE 0]
  /\ ready \in [Nodes -> BOOLEAN]
  /\ \A n \in Nodes : ready[n] => pod[n] = "running"
  /\ cpc = "idle"
  /\ listed = {}
  /\ nodeNames = {}
  /\ wiped = {}
  /\ result = "none"
  /\ cleans = 0

(* An error return of Clean: nothing is rolled back.                        *)
Fail ==
  /\ cpc' = "idle"
  /\ result' = "err"
  /\ UNCHANGED <<selector, pod, gen, ready, listed, nodeNames, wiped, cleans>>

(* GetPodsManagedByDaemonSet and the empty-list check.  With no pods the   *)
(* code returns stacktrace.Propagate(err, ...) where err is nil, and       *)
(* Propagate of a nil cause returns nil: Clean reports success.            *)
ListPods ==
  /\ cpc = "idle"
  /\ cleans < MaxCleans
  /\ cleans' = cleans + 1
  /\ wiped' = {}
  /\ LET onNodes == {n \in Nodes : pod[n] # "absent"} IN
       \/ /\ cpc' = "idle"
          /\ result' = "err"
          /\ listed' = {}
          /\ nodeNames' = {}
       \/ /\ onNodes = {}
          /\ cpc' = "idle"
          /\ result' = "ok"
          /\ listed' = {}
          /\ nodeNames' = {}
       \/ /\ onNodes # {}
          /\ listed' = {<<n, gen[n]>> : n \in onNodes}
          /\ nodeNames' = onNodes
          /\ cpc' = "evicting"
          /\ result' = "none"
  /\ UNCHANGED <<selector, pod, gen, ready>>

(* Mutant of Evict: the patch is sent with an empty selector map.         *)
EvictKeepsSelector ==
  /\ cpc = "evicting"
  /\ \/ /\ selector' = "none"
        /\ cpc' = "awaitTermination"
        /\ UNCHANGED <<pod, gen, ready, listed, nodeNames, wiped, result, cleans>>
     \/ Fail

(* UpdateDaemonSetWithNodeSelectors with the non-existent label.            *)
Evict ==
  /\ cpc = "evicting"
  /\ \/ /\ selector' = "evict"
        /\ cpc' = "awaitTermination"
        /\ UNCHANGED <<pod, gen, ready, listed, nodeNames, wiped, result, cleans>>
     \/ Fail

(* WaitForPodTermination for one listed pod: returns once it is gone, or   *)
(* fails (its own timeout or a backend error).                              *)
AwaitTermination ==
  /\ cpc = "awaitTermination"
  /\ listed # {}
  /\ \E p \in listed :
       \/ /\ Terminated(p)
          /\ listed' = listed \ {p}
          /\ UNCHANGED <<selector, pod, gen, ready, cpc, nodeNames, wiped, result, cleans>>
       \/ Fail

(* Mutant of RemoveDirFromNode: the wait for pod termination is skipped.   *)
RemoveDirFromNodeNoWait ==
  /\ cpc = "awaitTermination"
  /\ nodeNames # {}
  /\ \E n \in nodeNames :
       \/ /\ nodeNames' = nodeNames \ {n}
          /\ wiped' = wiped \cup {n}
          /\ UNCHANGED <<selector, pod, gen, ready, cpc, listed, result, cleans>>
       \/ Fail

(* RemoveDirPathFromNode on one node of the listing.                        *)
RemoveDirFromNode ==
  /\ cpc = "awaitTermination"
  /\ listed = {}
  /\ nodeNames # {}
  /\ \E n \in nodeNames :
       \/ /\ nodeNames' = nodeNames \ {n}
          /\ wiped' = wiped \cup {n}
          /\ UNCHANGED <<selector, pod, gen, ready, cpc, listed, result, cleans>>
       \/ Fail

(* Mutant of Restore: the restoring patch passes evictNodeSelectors.       *)
RestoreWithEvictSelector ==
  /\ cpc = "awaitTermination"
  /\ listed = {}
  /\ nodeNames = {}
  /\ \/ /\ selector' = "evict"
        /\ cpc' = "awaitReady"
        /\ UNCHANGED <<pod, gen, ready, listed, nodeNames, wiped, result, cleans>>
     \/ Fail

(* GetDaemonSet, then UpdateDaemonSetWithNodeSelectors with an empty map.  *)
Restore ==
  /\ cpc = "awaitTermination"
  /\ listed = {}
  /\ nodeNames = {}
  /\ \/ /\ selector' = "none"
        /\ cpc' = "awaitReady"
        /\ UNCHANGED <<pod, gen, ready, listed, nodeNames, wiped, result, cleans>>
     \/ Fail

(* waitForAtLeastOneActivePodManagedByDaemonSet: success needs a ready pod *)
(* (the 1s polling is abstracted); it may time out at any time.            *)
AwaitReady ==
  /\ cpc = "awaitReady"
  /\ \/ /\ \E n \in Nodes : pod[n] = "running" /\ ready[n]
        /\ cpc' = "idle"
        /\ result' = "ok"
        /\ UNCHANGED <<selector, pod, gen, ready, listed, nodeNames, wiped, cleans>>
     \/ Fail

-----------------------------------------------------------------------------
(* The DaemonSet controller and the kubelet.                                *)
SchedulePod(n) ==
  /\ selector = "none"
  /\ pod[n] = "absent"
  /\ gen[n] < MaxGen
  /\ pod' = [pod EXCEPT ![n] = "running"]
  /\ gen' = [gen EXCEPT ![n] = gen[n] + 1]
  /\ UNCHANGED <<selector, ready, cpc, listed, nodeNames, wiped, result, cleans>>

BecomeReady(n) ==
  /\ pod[n] = "running"
  /\ ~ready[n]
  /\ ready' = [ready EXCEPT ![n] = TRUE]
  /\ UNCHANGED <<selector, pod, gen, cpc, listed, nodeNames, wiped, result, cleans>>

(* The controller deletes a pod the selector no longer admits; someone     *)
(* else may delete a running pod.  Its containers stop, the volume stays   *)
(* mounted until the pod is gone.                                           *)
DeletePod(n) ==
  /\ pod[n] = "running"
  /\ selector = "evict" \/ PodsMayBeDeleted
  /\ pod' = [pod EXCEPT ![n] = "terminating"]
  /\ ready' = [ready EXCEPT ![n] = FALSE]
  /\ UNCHANGED <<selector, gen, cpc, listed, nodeNames, wiped, result, cleans>>

PodGone(n) ==
  /\ pod[n] = "terminating"
  /\ pod' = [pod EXCEPT ![n] = "absent"]
  /\ UNCHANGED <<selector, gen, ready, cpc, listed, nodeNames, wiped, result, cleans>>

Next ==
  \/ ListPods
  \/ Evict
  \/ AwaitTermination
  \/ RemoveDirFromNode
  \/ Restore
  \/ AwaitReady
  \/ \E n \in Nodes :
       SchedulePod(n) \/ BecomeReady(n) \/ DeletePod(n) \/ PodGone(n)

Spec == Init /\ [][Next]_vars

(* Fairness.  The controller keeps reconciling: it deletes a pod the       *)
(* selector no longer admits and the kubelet finishes terminating it.      *)
(* Each backend call of Clean eventually answers; an answer may be an      *)
(* error, but errors are not forced (no fairness on Fail).  The readiness  *)
(* wait always returns, by success or by its own deadline.                 *)
Fairness ==
  /\ WF_vars(Evict /\ cpc' # "idle")
  /\ WF_vars(AwaitTermination /\ cpc' # "idle")
  /\ WF_vars(RemoveDirFromNode /\ cpc' # "idle")
  /\ WF_vars(Restore /\ cpc' # "idle")
  /\ WF_vars(AwaitReady)
  /\ \A n \in Nodes : WF_vars(selector = "evict" /\ DeletePod(n))
  /\ \A n \in Nodes : WF_vars(PodGone(n))

FairSpec == Spec /\ Fairness

-----------------------------------------------------------------------------
TypeOK ==
  /\ selector \in {"none", "evict"}
  /\ pod \in [Nodes -> {"absent", "running", "terminating"}]
  /\ gen \in [Nodes -> 0..MaxGen]
  /\ ready \in [Nodes -> BOOLEAN]
  /\ cpc \in {"idle", "evicting", "awaitTermination", "awaitReady"}
  /\ listed \subseteq Nodes \X (1..MaxGen)
  /\ nodeNames \subseteq Nodes
  /\ wiped \subseteq Nodes
  /\ result \in {"none", "ok", "err"}
  /\ cleans \in 0..MaxCleans

(* Cleanup ordering (spec 8): Clean removes a node's checkpoint directory  *)
(* only when no pod on that node still has the checkpoint volume mounted.  *)
CheckpointSafe ==
  [][\A n \in wiped' \ wiped : ~Mounted(n)]_vars

(* A Clean call that reports success has left the daemon set schedulable:  *)
(* its node selector is empty again.                                        *)
CleanSuccessRestores ==
  (cpc = "idle" /\ result = "ok") => selector = "none"

(* Every Clean call returns: the evict patch makes the controller delete   *)
(* every pod, so each WaitForPodTermination on a listed pod ends, and the  *)
(* remaining steps do not block.                                            *)
CleanReturns ==
  cpc # "idle" ~> cpc = "idle"

-----------------------------------------------------------------------------
(* Inductive strengthenings proved in CleanChoreography_proofs, for one    *)
(* Clean call (MaxCleans <= 1).  A pod on a node has been started at least *)
(* once.                                                                    *)
PodsStarted == \A n \in Nodes : pod[n] # "absent" => gen[n] >= 1

(* The selector is "evict" only between the evict patch and the restoring  *)
(* patch, or after a call that failed in between.                          *)
SelectorInv ==
  /\ cleans = 0 => selector = "none" /\ cpc = "idle"
  /\ selector = "evict" => cpc = "awaitTermination" \/ result = "err"
  /\ cpc \in {"evicting", "awaitReady"} => selector = "none"

(* With no outside deletions: before the evict patch every node of the     *)
(* listing still runs the listed pod; after it, a node whose checkpoint    *)
(* directory is still to be removed is mounted only by its listed pod,    *)
(* which the call still awaits.                                            *)
CheckpointInv ==
  /\ cleans = 0 => \A n \in Nodes : pod[n] # "terminating"
  /\ cpc = "evicting" =>
       \A n \in nodeNames : pod[n] = "running" /\ <<n, gen[n]>> \in listed
  /\ cpc = "awaitTermination" => selector = "evict"
  /\ cpc = "awaitTermination" =>
       \A n \in nodeNames : Mounted(n) => <<n, gen[n]>> \in listed

=============================================================================
