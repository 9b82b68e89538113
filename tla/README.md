# TLA+ models of the Kubernetes Fluent Bit logs collector

This directory holds TLA+ models of the logs collector lifecycle in
`src/container-engine-lib/.../logs_collector_functions/implementations/fluentbit/fluentbit_logs_collector_daemonset.go`
(below called "the file"). It also holds the TLC configurations that
model-check the models, and the TLAPS proofs about them.

## 1. The system

The file starts, tears down and cleans a Fluent Bit DaemonSet and its
supporting objects. It does this through a `KubernetesManager` client, which
lives outside `src/`.

| Part | Code | State it changes | Interacts with |
|---|---|---|---|
| Resource provisioner (`CreateAndStart`, lines 40-251) | creates Namespace, ServiceAccount, ClusterRole, ClusterRoleBinding, ConfigMap, DaemonSet in that order; each success arms a `shouldRemove…` flag and a deferred removal | cluster objects; flags on the Go stack | readiness waiter; backend client |
| Teardown function (`removeLogsCollectorFunc`, 235-242) | returned on success; removes DS, CM, CRB, CR, SA, NS in that order, using the same closures | cluster objects | backend client |
| Readiness waiter (578-606) | 1 s ticker, 30 s deadline, polls `GetPodsManagedByDaemonSet`, ready when `pods[0]`'s first container is ready | none (only the result) | provisioner, Clean |
| Cleanup choreographer (`Clean`, 698-768) | list pods, evict (node selector set to a label no node has), wait for each listed pod to terminate, remove the checkpoint directory on each listed node, restore the selector, wait for readiness | DaemonSet selector; node directories | DaemonSet controller; readiness waiter |
| Config renderer (423-555) | Fluent Bit config text | none | ConfigMap create |
| Object construction (257-421, 557-692) | object specs: volumes, a preStop hook, ports | none | the create calls |
| CLI cluster config v3 (`src/cli/...`) | plain data struct | none | nothing here |

These behaviours are hard to test:

- A create, a removal or a patch can fail at any step.
- Removals run in LIFO defer order on an error return, and in a separate,
  hand-written order in the teardown function.
- A create can report an error even though the server stored the object.
- The DaemonSet controller runs at the same time as `Clean`, and pods can be
  deleted and replaced while `Clean` works from its list.
- `Clean` can be called again after an earlier call failed partway.
- The readiness deadline races its ticker.

## 2. Modules

### `LogsCollectorSaga` (with `MC_LogsCollectorSaga`, `LogsCollectorSaga_proofs`)

This module models `CreateAndStart` and the teardown function it returns.

**State**

| Variable | Meaning |
|---|---|
| `pc` | where the call is |
| `stack` | the number of deferred removals registered, i.e. the Go defer stack |
| `armed` | kinds whose `shouldRemove…` flag is true |
| `cluster` | the objects that exist |
| `reported` | objects whose removal failed and was logged "ACTION REQUIRED" |
| `outcome` | what the call returned |
| `td` | the position inside a teardown call |
| `teardowns` | the number of teardown calls made |

**Actions**

| Action | What it models |
|---|---|
| `GenerateGuid` | the GUID, which may fail |
| `CreateResource` | one of the first five creates |
| `CreateDaemonSet` | the DaemonSet create |
| `AwaitReadiness` | the wait, followed by disarming every flag on success |
| `RunDeferred` | one deferred closure on an error return; it removes its object if the flag is armed |
| `Return` | the return from the call |
| `StartTeardown`, `TeardownStep`, `TeardownReturn` | a teardown call |

`Remove(k)` is one removal closure. It either deletes the object or logs
"ACTION REQUIRED". Deleting the namespace also deletes what was created in it
(`Namespaced`: the service account, the ConfigMap and the DaemonSet), as
Kubernetes does. The model takes the cascade as immediate: the code never
looks at the namespace's contents after removing it. `Deps` records which objects reference which, taken from the
arguments each create receives (for example, the DaemonSet is given the
namespace, the ConfigMap and the service account).

The constant `CreateMayLeak` decides whether a failed create may still have
stored its object.

### `SagaAbstract`

This module states what `CreateAndStart` and its teardown promise, without the
order of calls. It has a `phase` (idle, starting, up, failed, stopping, down)
and a set `live` of objects. While starting, `live` may change in any way. The
call commits (`up`) only with every kind live, and fails only with nothing
live. A teardown only shrinks `live`, and ends with it empty.

`LogsCollectorSaga` implements it under the refinement mapping
`Abs == INSTANCE SagaAbstract WITH Objects <- Kinds, phase <- AbsPhase,
live <- cluster \ reported`. Objects that were reported "ACTION REQUIRED" are
handed to the operator, so they do not count as live. `AbsPhase` maps the
call's position: creating, waiting and unwinding map to `starting`; an error
return maps to `failed`; a success maps to `up`; a teardown in progress maps to
`stopping`; a finished teardown maps to `down`.

### `ReadinessWaiter` (with `MC_ReadinessWaiter`, `ReadinessWaiter_proofs`)

This module models `waitForAtLeastOneActivePodManagedByDaemonSet` (lines
578-606). Time is counted in retry intervals.

| Variable | Meaning |
|---|---|
| `now` | intervals since the call began; the deadline is `MaxRetries` |
| `tick` | the ticker channel holds a tick (its buffer is one) |
| `wpc` | `select`, `polling` (a list call in flight) or `done` |
| `attempt` | the loop counter |
| `pollEnd` | when the list call in flight returns |
| `result` | ok, timeout, exceeded, err |
| `podState[p]` | absent, running, ready or gone |

| Action | What it models |
|---|---|
| `SelectDeadline` | `case <-timeoutCtx.Done()` |
| `SelectTick` | `case <-ticker.C` and the start of `GetPodsManagedByDaemonSet(ctx, ...)`; it takes 0..`MaxLatency` intervals |
| `PollFails` | the error return of the list call |
| `PollReturns` | the `pods[0]` check, then `attempt++` and the loop condition, or the "exceeded" return |
| `Advance` | one interval passes and the ticker fires |
| `PodStep` | the cluster starts, readies or removes a pod |

When both select cases are ready, either action may be taken, as in Go.
The caller's `ctx` is never cancelled, and it has no deadline earlier than
`timeoutCtx`. A cancelled caller would also fire `Done()` at line 586 and end
the wait before its budget. `NoEarlyGiveUp` holds only for callers that do
not cancel.
`Advance` is disabled while the goroutine has a ready case or a returned call to
handle. A runnable goroutine is not kept waiting for a whole interval.

### `CleanChoreography` (with `MC_CleanChoreography`, `CleanChoreography_proofs`)

This module models `Clean`, composed with the DaemonSet controller and kubelet.

**State**

| Variable | Meaning |
|---|---|
| `selector` | the DaemonSet's node selector: `none` or `evict` |
| `pod[n]` | the pod on node `n`: absent, running or terminating (still mounting the checkpoint volume) |
| `gen[n]` | the identity of the latest pod on `n`, so a replacement pod is a different pod |
| `ready[n]` | whether the pod on `n` is ready |
| `cpc` | where the current `Clean` call is |
| `listed` | the pods of the listing still awaited |
| `nodeNames` | the nodes whose directory is still to remove |
| `wiped` | the nodes whose directory was removed |
| `result` | the result of the last call |
| `cleans` | the number of `Clean` calls made |

**Actions**

| Action | What it models |
|---|---|
| `ListPods` | the listing, including the zero-pod branch |
| `Evict` | the evict patch |
| `AwaitTermination` | one `WaitForPodTermination` |
| `RemoveDirFromNode` | one `RemoveDirPathFromNode` |
| `Restore` | `GetDaemonSet` and the restoring patch |
| `AwaitReady` | the readiness wait |
| `Fail` | any error return |

The environment has four actions: `SchedulePod`, `BecomeReady`, `DeletePod`
and `PodGone`. The controller only schedules pods while the selector is `none`.
It deletes pods once the selector is `evict`. When `PodsMayBeDeleted` is true,
someone else may also delete a running pod.

About the zero-pod branch (line 707): it returns `stacktrace.Propagate(err, …)`
where `err` is the nil error of the successful listing. The stacktrace library
returns nil when the cause is nil, so the call reports success. The model
follows the code here.

## 3. Runs

| Run | Config | Expect | What it shows |
|---|---|---|---|
| saga_safety | `MC_LogsCollectorSaga.cfg` | pass | `NoSilentOrphan`: after an error return or a teardown, every object left in the cluster has been reported. `CommittedComplete`: a successful start leaves all six objects. `DependencyRespected`: no unreported object outlives an object it references. `IInv` is the inductive invariant of the proofs. |
| saga_lossy_create | `MC_LogsCollectorSaga_leak.cfg` | violation | With `CreateMayLeak = TRUE`, the namespace create fails after the server stored it. No removal was armed, the call returns an error, and the namespace stays with no ACTION REQUIRED log. A leaked cluster role or binding would survive in the same way. A leaked namespaced object goes when the deferred namespace removal succeeds. |
| clean_checkpoint_safe | `MC_CleanChoreography_safe.cfg` | pass | `CheckpointSafe`: one `Clean` never removes the directory of a node whose pod still mounts it, when only the controller deletes pods. `SelectorInv` and `CheckpointInv` are the invariants the `Clean` proofs rest on. |
| clean_restores | `MC_CleanChoreography_restores.cfg` | pass | `CleanSuccessRestores`: a single successful `Clean` has put the selector back. |
| clean_stale_pod_list | `MC_CleanChoreography_stale.cfg` | violation | A listed pod is deleted and replaced before the evict patch. The wait on the old pod returns at once, and the directory is removed under the new pod. |
| clean_zero_pods_after_failure | `MC_CleanChoreography_twice.cfg` | violation | The first `Clean` evicts and then fails. The second sees zero pods and reports success with the selector still `evict`. |
| clean_returns | `MC_CleanChoreography_returns.cfg` | pass | `CleanReturns`: under the fairness below, every `Clean` call returns. This holds with two calls and with outside deletions. |
| saga_refinement | `MC_LogsCollectorSaga_refine.cfg` | pass | `SagaRefinement`: with reliable creates, the saga implements `SagaAbstract`. |
| waiter_budget | `MC_ReadinessWaiter_budget.cfg` | pass | `NoEarlyGiveUp`: a timeout or "exceeded" result comes only after the full budget. `WorstCaseBound`: the call is over by `Horizon` = 1 + maxRetries × latency (maxRetries when calls are instant). The run checks that the bound holds. No run checks that it is reached. `WInv` and `BInv` are the invariants of the waiter proofs. |
| waiter_deadline_overrun | `MC_ReadinessWaiter_bound.cfg` | violation | `ReadinessBound` (spec §7: done by the deadline) fails. The select takes the last tick, and the list call runs on the caller's ctx past the deadline. |
| waiter_first_pod_only | `MC_ReadinessWaiter_firstpod.cfg` | violation | `AnyReadyPodSeen` (spec §4.2: one ready pod is enough) fails. A poll lists a not-ready pod first and a ready one second, and the wait goes on. |

**Bounds**

- The saga has only six kinds. The model explores every failure point and every
  removal outcome of one call. `MaxTeardowns = 2` lets the teardown run twice,
  the second time over objects that are already gone.
- `Clean` runs with two nodes, treated as symmetric, and at most three pods per
  node (`MaxGen = 3`). This is enough for a pod to be replaced twice.
- The waiter runs with `MaxRetries = 3` and two symmetric pods. This is
  enough for the deadline and the third tick to be ready together, and for a
  poll to list a ready pod behind a not-ready one. Latencies of 1 and 2
  intervals make calls outlast the deadline and ticks pile up in the buffer.
  Latency 0 isolates the `pods[0]` check.
- `MaxCleans = 1` is used for the safe properties. With 2 calls, the second call
  can list a pod that is still terminating from the first call, and reach the
  stale-list problem that way. That is the same hazard.

The saga, `Clean` and teardown all end in final states, so deadlock checking is
off.

**Mutants.** Each property is checked against a plausible bug:

| Property | Mutant | The bug it stands for |
|---|---|---|
| `NoSilentOrphan` | `RegisteredFlagOff` | a forgotten `shouldRemove := true` |
| `CommittedComplete` | `AwaitReadinessKeepsFlag` | a flag never disarmed |
| `DependencyRespected` | `TeardownOrderSwapped` | ConfigMap removed before DaemonSet |
| `CheckpointSafe` | `RemoveDirFromNodeNoWait` | no wait for termination |
| `CleanSuccessRestores`, `SelectorInv` | `RestoreWithEvictSelector` | the wrong selector map |
| `CleanReturns`, `CheckpointInv` | `EvictKeepsSelector` | the evict patch not applied |
| `SagaRefinement` | `AwaitReadinessKeepsFlag` | a flag never disarmed |
| `NoEarlyGiveUp`, `WInv` | `SelectDeadlineEarly` | a deadline one interval short |
| `WorstCaseBound`, `BInv` | `PollReturnsNoCount` | a failed check not counted as an attempt |

**Fairness** (`CleanChoreography!Fairness`, used only by clean_returns):

- Weak fairness on the successful outcome of each `Clean` step, and on
  `AwaitReady`. `Clean` is one goroutine that is never blocked on anything the
  model leaves out. The assumption is that backend calls return, which is the
  client's business (`ctx` is the caller's). Errors are not forced, and not
  excluded.
- Weak fairness on the controller's `DeletePod` only while the selector is
  `evict`. Deleting the pods that no longer match is what the DaemonSet
  controller does, while outside deletions are optional.
- Weak fairness on `PodGone`, because kubelet finishes terminating a pod.

No fairness is assumed for scheduling or readiness. `AwaitReady` covers them
as one outcome that may be an error. SYMMETRY is not used in the liveness run.

## 4. Proofs

### `LogsCollectorSaga_proofs`

These results are proved by TLAPS for every value of `MaxTeardowns`:

- `TypeCorrect`: `Spec => []TypeOK`.
- `SagaInvariant`: under the assumption `~CreateMayLeak` (a failed create
  stores nothing), `Spec => []IInv`.
- Three theorems derived from `SagaInvariant`: `NoSilentOrphanTheorem`,
  `CommittedCompleteTheorem` and `DependencyRespectedTheorem`.

Safety does not hold without the `~CreateMayLeak` assumption, as the
saga_lossy_create run shows.

**Why the invariant needs strengthening.** `IInv` strengthens the three
properties. They are not inductive on their own, because they say nothing about
the call while it is in progress. `IInv` ties each phase to the cluster contents:

- While creating or waiting, the cluster equals the first `stack` kinds of
  `Order`, and every one of them is armed.
- While unwinding after an error, an unreported object is still on the defer
  stack and still armed.
- Once disarmed on success, the whole of `Kinds` exists.
- During a teardown at position `td`, every unreported object is at or after
  position `td` in `TeardownOrder`.

The key lemma, `DepsFacts`, says that removing in `TeardownOrder` or in reverse
`Order` always removes an object before the objects it references.
`RemovedValues` covers the namespace's cascade. The namespace is first in
`Order` and last in `TeardownOrder`. So when it is removed, `IInv` says it is
the only unreported object left, and the cascade takes away nothing that an
unreported object still references.

`SagaRefinementTheorem` (also under `~CreateMayLeak`) proves
`Spec => SagaRefinement`. `RefineInit` maps the initial state to an abstract
initial state. `RefineStep` shows that every step between two `IInv` states is
an abstract step or a stutter. Most steps are a `Change` or a stutter. The
disarming step is the abstract `Commit`: `IInv` says the whole of `Kinds`
exists then. An error return is `Abort`: `IInv` says nothing unreported is left.

### `CleanChoreography_proofs`

These results hold for every set of nodes and every `MaxGen`:

- `CleanTypeCorrect` holds for any number of calls. It rests on `PodsStarted`:
  a pod that exists has a generation of at least 1.
- `SelectorInvariant` and `CleanSuccessRestoresTheorem` assume
  `MaxCleans <= 1`. They allow outside deletions. The invariant is `SelectorInv`,
  proved together with `TInv`:
  - with no call made, the selector is `none`;
  - the `evict` selector is present only while awaiting termination or after an
    error;
  - the selector is `none` while evicting and during the final wait.
- `CheckpointInvariant` and `CheckpointSafeTheorem` assume `MaxCleans <= 1`
  and `~PodsMayBeDeleted`. `CheckpointInv` strengthens `SelectorInv`:
  - before the call, no pod is terminating;
  - while evicting, every listed node runs exactly the listed pod;
  - while awaiting termination, every mounted node's current pod is still in
    `listed`.
  It follows that a directory is removed only after the node's pod was seen
  gone.

The assumptions are the ones the violation runs show to be needed:
clean_zero_pods_after_failure needs a second call, and clean_stale_pod_list
needs an outside deletion.

### `ReadinessWaiter_proofs`

These results hold for every `MaxRetries`, every `MaxLatency` and every set of
pods:

- `WaiterTypeCorrect`.
- `WInvariant` and `NoEarlyGiveUpTheorem`.
- `BudgetInvariant` and `WorstCaseBoundTheorem`.

`NoEarlyGiveUp` is not inductive on its own: nothing in it says that
`attempt` cannot run ahead of time. `WInv` adds that every list call consumed a
tick, and that at most one tick arrives per interval. So `attempt`, plus the
call in flight, plus the buffered tick, is never more than `now`. An
"exceeded" return then comes at `now >= attempt + 1 = MaxRetries`.

`WorstCaseBound` is not inductive either: it says nothing about how much time
is still to come. `BInv` bounds the clock by the attempts made so far. With
instant list calls (`MaxLatency = 0`), no time passes after the deadline
interval, so `now <= MaxRetries`, and a poll ends when it starts. With slow
calls, one iteration of the loop costs at most `MaxLatency` intervals. This
includes the wait for the tick that starts it: a tick is waited for only when
the previous call returned within its own interval. So while a call is being
selected, `now <= attempt × MaxLatency`, plus one interval once the tick has
arrived. A poll ends by `1 + (attempt + 1) × MaxLatency`. The return comes by
`1 + MaxRetries × MaxLatency`, which is `Horizon`.

The products are nonlinear, and the SMT backend does not handle them well. So
the proof names `k × MaxLatency` as an opaque `Cost(k)`. Three lemmas give
all it needs:
- `Cost(k)` is a natural number;
- `Cost(k + 1) = Cost(k) + MaxLatency`;
- `Cost(k) <= Cost(MaxRetries)` when `k <= MaxRetries`.
`BInv` is split into `Instant` and `Slow`, one per sign of `MaxLatency`, and
each part is preserved by its own step lemma.

### Model-checked only, not proved

- `CleanReturns`, and liveness in general. TLAPS cannot reason about
  fairness or ENABLED here.
- The runs with `CreateMayLeak`, several `Clean` calls, or outside deletions,
  where the properties fail.

## 5. Not modelled

- **Config rendering and object specs.** These are pure data.
- **The cluster config DTO.** It is a plain data struct with no operations.
- **The readiness waiter inside the saga and `Clean`.** There it is one ok/err
  step, and `ReadinessWaiter` models its timing on its own. Composing the two
  would add time to every module and say nothing new: the saga treats every
  waiter error in the same way.
- **Pods with no node yet** (empty `NodeName`, line 711).
- **A crash during `CreateAndStart`.** The file has no recovery path.

## 6. Plan

1. Done: `LogsCollectorSaga` with its proofs and its refinement of
   `SagaAbstract`.
2. Done: `CleanChoreography` with its proofs and the `CleanReturns` liveness
   property.
3. Done: `ReadinessWaiter` with its proofs.
4. Next: a composed module in which `CreateAndStart`, teardown and `Clean`
   share the cluster and the DaemonSet. One question for it: can a teardown
   after a failed `Clean` remove everything?
5. Next: pods that are pending (no node) when `Clean` lists them.
