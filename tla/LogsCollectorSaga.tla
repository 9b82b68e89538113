------------------------- MODULE LogsCollectorSaga -------------------------
(***************************************************************************)
(* The provisioning saga of fluentbitLogsCollector.CreateAndStart          *)
(* (fluentbit_logs_collector_daemonset.go).  One call creates six          *)
(* Kubernetes objects in dependency order.  After each successful create   *)
(* the code registers a deferred closure guarded by a flag                 *)
(* shouldRemoveLogsCollector<Kind>; any early return runs the deferred     *)
(* closures in LIFO order and each one whose flag is still TRUE removes    *)
(* its object.  Only after the readiness wait succeeds are all flags set   *)
(* FALSE; the caller then owns a teardown func that removes the six        *)
(* objects in reverse order.  A failed removal is only logged ("ACTION     *)
(* REQUIRED"); the model records it in reported.                           *)
(*                                                                         *)
(* Data abstraction: an object is identified by its kind (one call uses    *)
(* one fresh GUID, so names never collide); the cluster is the set of      *)
(* kinds whose object exists.  The readiness waiter is abstracted to its   *)
(* two outcomes (ReadinessWaiter models it in detail).                     *)
(***************************************************************************)
EXTENDS Naturals, Sequences, FiniteSets

CONSTANTS
  MaxTeardowns,   \* how many times the caller invokes the returned teardown func
  CreateMayLeak   \* TRUE: a create call may return an error although the
                  \* API server has stored the object (reply lost, ctx deadline)

ASSUME MaxTeardownsAssumption == MaxTeardowns \in Nat
ASSUME CreateMayLeakAssumption == CreateMayLeak \in BOOLEAN

VARIABLES
  pc,         \* where the CreateAndStart call (or the teardown func) is
  stack,      \* number of deferred removal closures registered and not yet run
  armed,      \* kinds whose shouldRemoveLogsCollector<Kind> flag is TRUE
  cluster,    \* kinds whose object exists in the cluster
  reported,   \* kinds named in an "ACTION REQUIRED: ... manually remove" log
  outcome,    \* "none" until the call decides, then "ok" or "err"
  td,         \* next position in the teardown func's removal sequence
  teardowns   \* how many times the teardown func has been invoked

vars == <<pc, stack, armed, cluster, reported, outcome, td, teardowns>>

Kinds == {"Namespace", "ServiceAccount", "ClusterRole",
          "ClusterRoleBinding", "ConfigMap", "DaemonSet"}

NumKinds == 6

(* The creation order of CreateAndStart.                                    *)
Order == <<"Namespace", "ServiceAccount", "ClusterRole",
           "ClusterRoleBinding", "ConfigMap", "DaemonSet">>

(* Mutant of TeardownOrder: the config map is removed before the daemon    *)
(* set that mounts it.                                                      *)
TeardownOrderSwapped == <<"ConfigMap", "DaemonSet", "ClusterRoleBinding",
                          "ClusterRole", "ServiceAccount", "Namespace">>

(* The explicit call sequence of removeLogsCollectorFunc.                   *)
TeardownOrder == <<"DaemonSet", "ConfigMap", "ClusterRoleBinding",
                   "ClusterRole", "ServiceAccount", "Namespace">>

(* The objects each create call takes the name of: the service account,    *)
(* config map and daemon set live in the namespace, the binding names the  *)
(* service account and the cluster role, the daemon set mounts the config  *)
(* map and runs as the service account.                                     *)
Deps == [k \in Kinds |->
          CASE k = "ServiceAccount"     -> {"Namespace"}
            [] k = "ClusterRoleBinding" -> {"Namespace", "ServiceAccount", "ClusterRole"}
            [] k = "ConfigMap"          -> {"Namespace"}
            [] k = "DaemonSet"          -> {"Namespace", "ConfigMap", "ServiceAccount"}
            [] OTHER                    -> {}]

(* The objects created in the namespace: Kubernetes deletes them together  *)
(* with it.                                                                  *)
Namespaced == {"ServiceAccount", "ConfigMap", "DaemonSet"}

(* What a successful Remove call takes out of the cluster: the object, and  *)
(* for the namespace everything it contains.                                *)
Removed(k) == IF k = "Namespace" THEN {k} \cup Namespaced ELSE {k}

-----------------------------------------------------------------------------
(* One removeXFunc closure: the Remove call either deletes the object or    *)
(* fails, and the failure is logged with an ACTION REQUIRED line.           *)
Remove(k) ==
  \/ /\ cluster' = cluster \ Removed(k)
     /\ UNCHANGED reported
  \/ /\ reported' = reported \cup {k}
     /\ UNCHANGED cluster

(* Mutant of Registered: the cluster role's flag is initialised FALSE.     *)
RegisteredFlagOff(k) ==
  /\ cluster' = cluster \cup {k}
  /\ stack' = stack + 1
  /\ armed' = IF k = "ClusterRole" THEN armed ELSE armed \cup {k}

(* A create call succeeded: the object exists, its removal closure is      *)
(* deferred and its flag is TRUE.                                           *)
Registered(k) ==
  /\ cluster' = cluster \cup {k}
  /\ stack' = stack + 1
  /\ armed' = armed \cup {k}

(* A step of the chain failed (attribute provider, port spec, or the       *)
(* create call itself): CreateAndStart returns the error, which starts the *)
(* deferred closures.  With CreateMayLeak the object may exist anyway.     *)
CreateFails(k) ==
  /\ pc' = "returning"
  /\ outcome' = "err"
  /\ \E leaked \in IF CreateMayLeak THEN BOOLEAN ELSE {FALSE} :
       cluster' = IF leaked THEN cluster \cup {k} ELSE cluster
  /\ UNCHANGED <<stack, armed, reported, td, teardowns>>

-----------------------------------------------------------------------------
Init ==
  /\ pc = "idle"
  /\ stack = 0
  /\ armed = {}
  /\ cluster = {}
  /\ reported = {}
  /\ outcome = "none"
  /\ td = 0
  /\ teardowns = 0

(* uuid_generator.GenerateUUIDString: on error nothing exists yet.          *)
GenerateGuid ==
  /\ pc = "idle"
  /\ \/ /\ pc' = "creating"
        /\ UNCHANGED outcome
     \/ /\ pc' = "returned"
        /\ outcome' = "err"
  /\ UNCHANGED <<stack, armed, cluster, reported, td, teardowns>>

(* Namespace, service account, cluster role, binding, config map: create   *)
(* the next object of Order, then defer its removal.                        *)
CreateResource ==
  /\ pc = "creating"
  /\ stack < NumKinds - 1
  /\ \/ /\ Registered(Order[stack + 1])
        /\ UNCHANGED <<pc, reported, outcome, td, teardowns>>
     \/ CreateFails(Order[stack + 1])

(* Port specs, container ports and the daemon set; on success the call     *)
(* goes on to wait for readiness.                                           *)
CreateDaemonSet ==
  /\ pc = "creating"
  /\ stack = NumKinds - 1
  /\ \/ /\ Registered("DaemonSet")
        /\ pc' = "waiting"
        /\ UNCHANGED <<reported, outcome, td, teardowns>>
     \/ CreateFails("DaemonSet")

(* Mutant of AwaitReadiness: the daemon set's flag is not disarmed.       *)
AwaitReadinessKeepsFlag ==
  /\ pc = "waiting"
  /\ pc' = "returning"
  /\ \/ /\ outcome' = "ok"
        /\ armed' = armed \cap {"DaemonSet"}
     \/ /\ outcome' = "err"
        /\ UNCHANGED armed
  /\ UNCHANGED <<stack, cluster, reported, td, teardowns>>

(* waitForAtLeastOneActivePodManagedByDaemonSet, then either return the    *)
(* error or disarm every flag and return the objects and teardown func.    *)
AwaitReadiness ==
  /\ pc = "waiting"
  /\ pc' = "returning"
  /\ \/ /\ outcome' = "ok"
        /\ armed' = {}
     \/ /\ outcome' = "err"
        /\ UNCHANGED armed
  /\ UNCHANGED <<stack, cluster, reported, td, teardowns>>

(* On return Go runs the deferred closures last-registered first; each     *)
(* removes its object only if its flag is still TRUE.                       *)
RunDeferred ==
  /\ pc = "returning"
  /\ stack > 0
  /\ \/ /\ Order[stack] \in armed
        /\ Remove(Order[stack])
     \/ /\ Order[stack] \notin armed
        /\ UNCHANGED <<cluster, reported>>
  /\ stack' = stack - 1
  /\ UNCHANGED <<pc, armed, outcome, td, teardowns>>

Return ==
  /\ pc = "returning"
  /\ stack = 0
  /\ pc' = "returned"
  /\ UNCHANGED <<stack, armed, cluster, reported, outcome, td, teardowns>>

(* The caller invokes removeLogsCollectorFunc (any number of times).        *)
StartTeardown ==
  /\ pc = "returned"
  /\ outcome = "ok"
  /\ teardowns < MaxTeardowns
  /\ pc' = "tearingDown"
  /\ td' = 1
  /\ teardowns' = teardowns + 1
  /\ UNCHANGED <<stack, armed, cluster, reported, outcome>>

TeardownStep ==
  /\ pc = "tearingDown"
  /\ td \in 1..NumKinds
  /\ Remove(TeardownOrder[td])
  /\ td' = td + 1
  /\ UNCHANGED <<pc, stack, armed, outcome, teardowns>>

TeardownReturn ==
  /\ pc = "tearingDown"
  /\ td = NumKinds + 1
  /\ pc' = "returned"
  /\ UNCHANGED <<stack, armed, cluster, reported, outcome, td, teardowns>>

Next ==
  \/ GenerateGuid
  \/ CreateResource
  \/ CreateDaemonSet
  \/ AwaitReadiness
  \/ RunDeferred
  \/ Return
  \/ StartTeardown
  \/ TeardownStep
  \/ TeardownReturn

Spec == Init /\ [][Next]_vars

-----------------------------------------------------------------------------
TypeOK ==
  /\ pc \in {"idle", "creating", "waiting", "returning", "returned", "tearingDown"}
  /\ stack \in 0..NumKinds
  /\ armed \subseteq Kinds
  /\ cluster \subseteq Kinds
  /\ reported \subseteq Kinds
  /\ outcome \in {"none", "ok", "err"}
  /\ td \in 0..(NumKinds + 1)
  /\ teardowns \in 0..MaxTeardowns

(* Atomicity (spec 8): once CreateAndStart has returned an error, or the   *)
(* teardown func has returned, every object still in the cluster has been  *)
(* named in an ACTION REQUIRED log: the deferred closures and the teardown *)
(* never leave an orphan silently.                                          *)
NoSilentOrphan ==
  (pc = "returned" /\ (outcome = "err" \/ teardowns > 0))
    => cluster \subseteq reported

(* Commit point: a successful CreateAndStart leaves all six objects in the *)
(* cluster, i.e. no deferred closure removes anything once the flags are   *)
(* disarmed (until the caller runs the teardown func).                      *)
CommittedComplete ==
  (pc = "returned" /\ outcome = "ok" /\ teardowns = 0) => cluster = Kinds

(* Removal order: in every state, an object that exists and has not been   *)
(* reported as an orphan has every object it names still present; the      *)
(* deferred closures (LIFO) and the teardown func remove dependents first. *)
DependencyRespected ==
  \A k \in cluster \ reported : Deps[k] \subseteq cluster

-----------------------------------------------------------------------------
(* The inductive strengthening of TypeOK, NoSilentOrphan, CommittedComplete *)
(* and DependencyRespected that LogsCollectorSaga_proofs proves.  While     *)
(* the chain is built, the cluster holds exactly the created prefix of      *)
(* Order, all armed; while the deferred closures run after an error, every  *)
(* unreported object is armed and still below the top of the defer stack;  *)
(* during a teardown, every unreported object is still ahead in            *)
(* TeardownOrder.                                                           *)
Created(n) == {Order[i] : i \in 1..n}

TeardownAhead(n) == {TeardownOrder[i] : i \in n..NumKinds}

IInv ==
  /\ TypeOK
  /\ pc = "idle" =>
       /\ stack = 0 /\ armed = {} /\ cluster = {} /\ reported = {}
       /\ outcome = "none"
  /\ pc \in {"creating", "waiting"} =>
       /\ outcome = "none"
       /\ cluster = Created(stack)
       /\ armed = cluster
       /\ reported = {}
  /\ pc = "creating" => stack < NumKinds
  /\ pc = "waiting" => stack = NumKinds
  /\ pc \in {"returning", "returned", "tearingDown"} => outcome # "none"
  /\ (pc = "returning" /\ outcome = "err") =>
       cluster \ reported \subseteq Created(stack) \cap armed
  /\ outcome = "ok" => armed = {}
  /\ teardowns > 0 => outcome = "ok" /\ pc \in {"returned", "tearingDown"}
  /\ (pc \in {"returning", "returned"} /\ outcome = "ok" /\ teardowns = 0) =>
       cluster = Kinds /\ reported = {}
  /\ (pc = "returned" /\ outcome = "err") => cluster \subseteq reported
  /\ (pc = "returned" /\ teardowns > 0) => cluster \subseteq reported
  /\ pc = "tearingDown" =>
       /\ teardowns > 0
       /\ td \in 1..(NumKinds + 1)
       /\ cluster \ reported \subseteq TeardownAhead(td)
  /\ DependencyRespected

-----------------------------------------------------------------------------
(* Refinement mapping onto SagaAbstract: the objects the caller may count  *)
(* on are those that exist and were not reported for manual removal; the  *)
(* phase is read off the program counter and the returned outcome.         *)
AbsPhase ==
  CASE pc = "idle"                                        -> "idle"
    [] pc \in {"creating", "waiting", "returning"}         -> "starting"
    [] pc = "returned" /\ outcome = "err"                  -> "failed"
    [] pc = "returned" /\ outcome # "err" /\ teardowns = 0 -> "up"
    [] pc = "returned" /\ outcome # "err" /\ teardowns > 0 -> "down"
    [] pc = "tearingDown"                                   -> "stopping"

Abs == INSTANCE SagaAbstract WITH
         Objects <- Kinds, phase <- AbsPhase, live <- cluster \ reported

(* CreateAndStart and its teardown func implement the promise of           *)
(* SagaAbstract: every call ends fully committed or with nothing silently  *)
(* left, and a teardown only removes.                                       *)
SagaRefinement == Abs!Spec

=============================================================================
