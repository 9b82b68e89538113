--------------------------- MODULE ReadinessWaiter ---------------------------
(***************************************************************************)
(* waitForAtLeastOneActivePodManagedByDaemonSet                            *)
(* (fluentbit_logs_collector_daemonset.go).  A context with deadline       *)
(* maxRetries * retryInterval, a ticker of period retryInterval, and a     *)
(* loop of at most maxRetries iterations, each a select between the        *)
(* deadline and a tick.  On a tick it lists the daemon set's pods with the *)
(* caller's ctx (not the deadline context) and succeeds when the first     *)
(* container of the first listed pod is ready.                             *)
(*                                                                         *)
(* Time is counted in retry intervals.  The ticker fires at every whole    *)
(* interval and its channel holds one tick (further ticks are dropped).    *)
(* A list call takes up to MaxLatency intervals.  The pods are made ready  *)
(* and deleted by the cluster, in any order.                               *)
(***************************************************************************)
EXTENDS Naturals

CONSTANTS
  MaxRetries,   \* maxRetries; the deadline is MaxRetries intervals
  MaxLatency,   \* longest time a GetPodsManagedByDaemonSet call takes
  Pods          \* pods the daemon set may have

ASSUME MaxRetriesAssumption == MaxRetries \in Nat \ {0}
ASSUME MaxLatencyAssumption == MaxLatency \in Nat

VARIABLES
  now,       \* intervals elapsed since the call
  tick,      \* the ticker channel holds a tick
  wpc,       \* "select", "polling" or "done"
  attempt,   \* the loop counter
  pollEnd,   \* when the list call in flight returns
  result,    \* "none", "ok", "timeout", "exceeded" or "err"
  podState   \* podState[p]: "absent", "running", "ready" or "gone"

vars == <<now, tick, wpc, attempt, pollEnd, result, podState>>

(* The longest a call can last.  The first tick comes after one interval; *)
(* when a list call takes at least one interval the next tick is already   *)
(* buffered, so maxRetries slow calls run back to back, past the deadline. *)
(* With instant calls the deadline ends the loop.                          *)
Horizon ==
  IF MaxLatency = 0 THEN MaxRetries ELSE 1 + MaxRetries * MaxLatency

Listed == {p \in Pods : podState[p] \in {"running", "ready"}}

Deadline == now >= MaxRetries

Init ==
  /\ now = 0
  /\ tick = FALSE
  /\ wpc = "select"
  /\ attempt = 0
  /\ pollEnd = 0
  /\ result = "none"
  /\ podState \in [Pods -> {"absent", "running", "ready"}]

-----------------------------------------------------------------------------
(* Leaving the loop: the deadline case returns a timeout error, running    *)
(* out of iterations returns the max-retries error.                        *)
Finish(r) ==
  /\ wpc' = "done"
  /\ result' = r

(* Mutant of SelectDeadline: the deadline is one interval short.            *)
SelectDeadlineEarly ==
  /\ wpc = "select"
  /\ now >= MaxRetries - 1
  /\ Finish("timeout")
  /\ UNCHANGED <<now, tick, attempt, pollEnd, podState>>

(* case <-timeoutCtx.Done(): either ready case of the select may be taken. *)
SelectDeadline ==
  /\ wpc = "select"
  /\ Deadline
  /\ Finish("timeout")
  /\ UNCHANGED <<now, tick, attempt, pollEnd, podState>>

(* case <-ticker.C: the list call starts.                                   *)
SelectTick ==
  /\ wpc = "select"
  /\ tick
  /\ tick' = FALSE
  /\ wpc' = "polling"
  /\ \E d \in 0..MaxLatency : pollEnd' = now + d
  /\ UNCHANGED <<now, attempt, result, podState>>

(* The list call returns an error: the wait ends with it.                  *)
PollFails ==
  /\ wpc = "polling"
  /\ now = pollEnd
  /\ Finish("err")
  /\ UNCHANGED <<now, tick, attempt, pollEnd, podState>>

(* Mutant of PollReturns: a failed check does not count as an attempt.    *)
PollReturnsNoCount ==
  /\ wpc = "polling"
  /\ now = pollEnd
  /\ \/ /\ \E first \in Listed : podState[first] = "ready"
        /\ Finish("ok")
     \/ /\ Listed = {} \/ \E first \in Listed : podState[first] # "ready"
        /\ wpc' = "select" /\ UNCHANGED result
  /\ UNCHANGED <<now, tick, attempt, pollEnd, podState>>

(* The list call returns the pods in some order.  Success when the first   *)
(* one is ready; otherwise attempt++ and the loop condition.               *)
PollReturns ==
  /\ wpc = "polling"
  /\ now = pollEnd
  /\ \/ /\ \E first \in Listed : podState[first] = "ready"
        /\ Finish("ok")
        /\ UNCHANGED attempt
     \/ /\ Listed = {} \/ \E first \in Listed : podState[first] # "ready"
        /\ attempt' = attempt + 1
        /\ IF attempt + 1 < MaxRetries
             THEN wpc' = "select" /\ UNCHANGED result
             ELSE Finish("exceeded")
  /\ UNCHANGED <<now, tick, pollEnd, podState>>

-----------------------------------------------------------------------------
(* One interval passes; the ticker fires.  Time does not pass while the    *)
(* goroutine has a ready select case or a returned call to handle.         *)
Advance ==
  /\ wpc # "done"
  /\ ~(wpc = "select" /\ (tick \/ Deadline))
  /\ ~(wpc = "polling" /\ now = pollEnd)
  /\ now' = now + 1
  /\ tick' = TRUE
  /\ UNCHANGED <<wpc, attempt, pollEnd, result, podState>>

(* The DaemonSet controller and kubelet: pods start, become ready, go.     *)
PodStep(p) ==
  /\ \/ podState[p] = "absent" /\ podState' = [podState EXCEPT ![p] = "running"]
     \/ podState[p] = "running" /\ podState' = [podState EXCEPT ![p] = "ready"]
     \/ podState[p] \in {"running", "ready"}
        /\ podState' = [podState EXCEPT ![p] = "gone"]
  /\ UNCHANGED <<now, tick, wpc, attempt, pollEnd, result>>

Next ==
  \/ SelectDeadline
  \/ SelectTick
  \/ PollFails
  \/ PollReturns
  \/ Advance
  \/ \E p \in Pods : PodStep(p)

Spec == Init /\ [][Next]_vars

-----------------------------------------------------------------------------
TypeOK ==
  /\ now \in Nat
  /\ tick \in BOOLEAN
  /\ wpc \in {"select", "polling", "done"}
  /\ attempt \in 0..MaxRetries
  /\ pollEnd \in Nat
  /\ result \in {"none", "ok", "timeout", "exceeded", "err"}
  /\ podState \in [Pods -> {"absent", "running", "ready", "gone"}]

(* Spec 7 (readiness bound): the waiter returns at or before               *)
(* maxRetries * retryInterval.  The list call runs on the caller's ctx,    *)
(* so a call started at the deadline is not cut short by it.               *)
ReadinessBound ==
  wpc = "done" => now <= MaxRetries

(* The real bound: however the deadline and the ticks interleave, the     *)
(* loop makes at most maxRetries list calls on the caller's ctx, and after *)
(* the deadline no iteration waits for a tick, so the call is over by      *)
(* Horizon.  This is the bound a caller of CreateAndStart or Clean gets.   *)
WorstCaseBound ==
  now <= Horizon

(* The waiter gives up (timeout or exhausted attempts) only once the whole *)
(* budget of maxRetries intervals has elapsed, whatever the latency of     *)
(* the list calls and however many ticks were dropped meanwhile.           *)
NoEarlyGiveUp ==
  result \in {"timeout", "exceeded"} => now >= MaxRetries

(* The inductive strengthening of NoEarlyGiveUp: every list call used a   *)
(* tick and at most one tick is delivered per interval, so the attempts    *)
(* made, the call in flight and the buffered tick never outnumber the      *)
(* intervals elapsed; a call in flight returns no earlier than now.        *)
WInv ==
  /\ TypeOK
  /\ wpc # "done" => result = "none" /\ attempt < MaxRetries
  /\ wpc = "select" => attempt <= now
  /\ wpc = "select" /\ tick => attempt + 1 <= now
  /\ wpc = "polling" => attempt + 1 <= now
  /\ wpc = "polling" /\ tick => attempt + 2 <= now
  /\ wpc = "polling" => now <= pollEnd
  /\ NoEarlyGiveUp

(* The inductive strengthening of WorstCaseBound.  With slow list calls   *)
(* each iteration costs at most MaxLatency intervals, the wait for a tick  *)
(* included, because a tick is waited for only when the previous call      *)
(* returned within its own interval; the first tick costs the one extra    *)
(* interval.  With instant calls no time passes after the deadline.        *)
BInv ==
  /\ WInv
  /\ MaxLatency = 0 => now <= MaxRetries /\ (wpc = "polling" => pollEnd = now)
  /\ MaxLatency > 0 =>
       /\ wpc = "select" /\ ~tick => now <= attempt * MaxLatency
       /\ wpc = "select" => now <= 1 + attempt * MaxLatency
       /\ wpc = "polling" /\ ~tick => now <= 1 + attempt * MaxLatency
       /\ wpc = "polling" => pollEnd <= 1 + (attempt + 1) * MaxLatency
       /\ wpc = "done" => now <= Horizon

(* Spec 4.2: a poll that finds at least one ready pod ends the wait with   *)
(* success.  The code looks only at the first pod of the list.             *)
AnyReadyPodSeen ==
  [][ /\ wpc = "polling" /\ wpc' # "polling" /\ result' # "err"
      /\ \E p \in Listed : podState[p] = "ready"
      => result' = "ok" ]_vars

=============================================================================
