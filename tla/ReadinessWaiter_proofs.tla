----------------------- MODULE ReadinessWaiter_proofs -----------------------
(***************************************************************************)
(* Proofs about waitForAtLeastOneActivePodManagedByDaemonSet for every     *)
(* maxRetries, every list-call latency and every set of pods.              *)
(***************************************************************************)
EXTENDS ReadinessWaiter, TLAPS

USE MaxRetriesAssumption, MaxLatencyAssumption

LEMMA WInvInit == Init => WInv
<1> SUFFICES ASSUME Init PROVE WInv
  OBVIOUS
<1>1. podState \in [Pods -> {"absent", "running", "ready", "gone"}]
  BY DEF Init
<1>2. attempt \in 0..MaxRetries /\ now \in Nat /\ pollEnd \in Nat
  BY DEF Init
<1>3. TypeOK
  BY <1>1, <1>2 DEF Init, TypeOK
<1> QED
  BY <1>3 DEF Init, WInv, NoEarlyGiveUp

LEMMA WInvStep == WInv /\ [Next]_vars => WInv'
<1> SUFFICES ASSUME WInv, [Next]_vars PROVE WInv'
  OBVIOUS
<1> USE DEF WInv, TypeOK, NoEarlyGiveUp
<1>1. CASE SelectDeadline
  BY <1>1 DEF SelectDeadline, Finish, Deadline
<1>2. CASE SelectTick
  <2>1. PICK d \in 0..MaxLatency : pollEnd' = now + d
    BY <1>2 DEF SelectTick
  <2>2. /\ wpc = "select" /\ tick = TRUE /\ wpc' = "polling" /\ tick' = FALSE
        /\ now' = now /\ attempt' = attempt /\ result' = result
        /\ podState' = podState
    BY <1>2 DEF SelectTick
  <2>3. attempt + 1 <= now
    BY <2>2
  <2>4. TypeOK'
    <3>1. pollEnd' \in Nat
      BY <2>1, <2>2
    <3>2. tick' \in BOOLEAN /\ wpc' \in {"select", "polling", "done"}
      BY <2>2
    <3>3. podState' \in [Pods -> {"absent", "running", "ready", "gone"}]
      BY <2>2
    <3>4. now' \in Nat /\ attempt' \in 0..MaxRetries
      BY <2>2
    <3> QED
      BY <2>2, <3>1, <3>2, <3>3, <3>4
  <2>5. (wpc # "done" => result = "none" /\ attempt < MaxRetries)'
    BY <2>2
  <2>6. (wpc = "polling" => attempt + 1 <= now)'
    BY <2>2, <2>3
  <2>7. (wpc = "polling" => now <= pollEnd)'
    BY <2>1, <2>2
  <2>8. NoEarlyGiveUp'
    BY <2>2
  <2> QED
    BY <2>2, <2>4, <2>5, <2>6, <2>7, <2>8
<1>3. CASE PollFails
  BY <1>3 DEF PollFails, Finish
<1>4. CASE PollReturns
  <2>1. attempt + 1 <= now
    BY <1>4 DEF PollReturns
  <2> QED
    BY <1>4, <2>1 DEF PollReturns, Finish
<1>5. CASE Advance
  BY <1>5 DEF Advance, Deadline
<1>6. ASSUME NEW p \in Pods, PodStep(p) PROVE WInv'
  BY <1>6 DEF PodStep
<1>7. CASE UNCHANGED vars
  BY <1>7 DEF vars
<1> QED
  BY <1>1, <1>2, <1>3, <1>4, <1>5, <1>6, <1>7 DEF Next

(* The waiter reports a timeout or exhausted retries only after the full   *)
(* maxRetries intervals have elapsed, for every maxRetries and latency:    *)
(* a dropped tick or a slow list call never makes it give up early.        *)
THEOREM NoEarlyGiveUpTheorem == Spec => []NoEarlyGiveUp
<1>1. Spec => []WInv
  BY WInvInit, WInvStep, PTL DEF Spec
<1> QED
  BY <1>1, PTL DEF WInv

(* The strengthening NoEarlyGiveUp needed holds in every reachable state. *)
THEOREM WInvariant == Spec => []WInv
BY WInvInit, WInvStep, PTL DEF Spec

-----------------------------------------------------------------------------
(* The time k list calls of the longest latency take.  The proofs below   *)
(* keep it opaque and use only the three facts that follow.               *)
Cost(k) == k * MaxLatency

LEMMA CostNat ==
  ASSUME NEW k \in Nat
  PROVE  Cost(k) \in Nat
BY DEF Cost

LEMMA CostSucc ==
  ASSUME NEW k \in Nat
  PROVE  Cost(k + 1) = Cost(k) + MaxLatency
BY DEF Cost

LEMMA CostMonotone ==
  ASSUME NEW k \in Nat, k <= MaxRetries
  PROVE  Cost(k) <= Cost(MaxRetries)
<1>1. k * MaxLatency <= MaxRetries * MaxLatency
  OBVIOUS
<1> QED
  BY <1>1 DEF Cost

(* With slow list calls, Horizon is the cost of maxRetries calls plus the *)
(* first interval.                                                         *)
LEMMA HorizonSlow ==
  ASSUME MaxLatency > 0
  PROVE  Horizon = 1 + Cost(MaxRetries)
BY DEF Horizon, Cost

LEMMA BInvInit == Init => BInv
<1> SUFFICES ASSUME Init PROVE BInv
  OBVIOUS
<1>1. WInv
  BY WInvInit
<1> QED
  BY <1>1 DEF Init, BInv

(* The two halves of BInv, for instant and for slow list calls.          *)
Instant == MaxLatency = 0 => now <= MaxRetries /\ (wpc = "polling" => pollEnd = now)

Slow ==
  MaxLatency > 0 =>
    /\ wpc = "select" /\ ~tick => now <= Cost(attempt)
    /\ wpc = "select" => now <= 1 + Cost(attempt)
    /\ wpc = "polling" /\ ~tick => now <= 1 + Cost(attempt)
    /\ wpc = "polling" => pollEnd <= 1 + Cost(attempt + 1)
    /\ wpc = "done" => now <= 1 + Cost(MaxRetries)

LEMMA BInvSplit == BInv <=> WInv /\ Instant /\ Slow
<1>1. MaxLatency > 0 => Horizon = 1 + Cost(MaxRetries)
  BY HorizonSlow
<1> QED
  BY <1>1 DEF BInv, Instant, Slow, Cost

LEMMA InstantStep == WInv /\ Instant /\ [Next]_vars => Instant'
<1> SUFFICES ASSUME WInv, Instant, [Next]_vars, MaxLatency = 0
             PROVE  (now <= MaxRetries /\ (wpc = "polling" => pollEnd = now))'
  BY DEF Instant
<1> USE DEF WInv, TypeOK, Instant
<1>1. CASE SelectDeadline
  BY <1>1 DEF SelectDeadline, Finish
<1>2. CASE SelectTick
  BY <1>2 DEF SelectTick
<1>3. CASE PollFails
  BY <1>3 DEF PollFails, Finish
<1>4. CASE PollReturns
  BY <1>4 DEF PollReturns, Finish
<1>5. CASE Advance
  BY <1>5 DEF Advance, Deadline
<1>6. ASSUME NEW p \in Pods, PodStep(p) PROVE Instant'
  BY <1>6 DEF PodStep
<1>7. CASE UNCHANGED vars
  BY <1>7 DEF vars
<1> QED
  BY <1>1, <1>2, <1>3, <1>4, <1>5, <1>6, <1>7 DEF Next

LEMMA SlowStep == WInv /\ Slow /\ [Next]_vars => Slow'
<1> SUFFICES ASSUME WInv, Slow, [Next]_vars, MaxLatency > 0
             PROVE  Slow'
  BY DEF Slow
<1> USE DEF Slow
<1>w. /\ now \in Nat /\ pollEnd \in Nat /\ attempt \in 0..MaxRetries
      /\ wpc # "done" => attempt < MaxRetries
      /\ wpc = "polling" => now <= pollEnd
  BY DEF WInv, TypeOK
<1>a. /\ attempt \in Nat /\ Cost(attempt) \in Nat /\ Cost(attempt + 1) \in Nat
      /\ Cost(MaxRetries) \in Nat
  BY <1>w, CostNat
<1>b. Cost(attempt + 1) = Cost(attempt) + MaxLatency
  BY <1>a, CostSucc
<1>1. CASE SelectDeadline
  <2>1. Cost(attempt) <= Cost(MaxRetries)
    BY <1>w, CostMonotone
  <2>2. wpc = "select" /\ wpc' = "done" /\ now' = now
    BY <1>1 DEF SelectDeadline, Finish
  <2> QED
    BY <1>w, <1>a, <2>1, <2>2
<1>2. CASE SelectTick
  <2>1. PICK d \in 0..MaxLatency : pollEnd' = now + d
    BY <1>2 DEF SelectTick
  <2>2. /\ wpc = "select" /\ tick = TRUE /\ wpc' = "polling" /\ tick' = FALSE
        /\ now' = now /\ attempt' = attempt
    BY <1>2 DEF SelectTick
  <2> QED
    BY <1>w, <1>a, <1>b, <2>1, <2>2
<1>3. ASSUME wpc = "polling", now = pollEnd, wpc' = "done",
             UNCHANGED <<now, attempt>>
      PROVE  Slow'
  <2>1. Cost(attempt + 1) <= Cost(MaxRetries)
    BY <1>3, <1>w, CostMonotone
  <2> QED
    BY <1>3, <1>w, <1>a, <2>1
<1>4. CASE PollFails
  <2>1. wpc = "polling" /\ now = pollEnd /\ wpc' = "done"
        /\ now' = now /\ attempt' = attempt
    BY <1>4 DEF PollFails, Finish
  <2> QED
    BY <1>3, <1>w, <2>1
<1>5. CASE PollReturns
  <2>1. CASE wpc' = "done"
    <3>1. now' = now /\ wpc = "polling" /\ now = pollEnd
      BY <1>5 DEF PollReturns
    <3>2. CASE attempt' = attempt
      BY <1>3, <1>w, <2>1, <3>1, <3>2
    <3>3. CASE attempt' = attempt + 1
      <4>1. Cost(attempt + 1) <= Cost(MaxRetries)
        BY <1>w, <3>1, CostMonotone
      <4> QED
        BY <1>w, <1>a, <1>b, <2>1, <3>1, <3>3, <4>1
    <3> QED
      BY <1>5, <3>2, <3>3 DEF PollReturns, Finish
  <2>2. CASE wpc' # "done"
    <3>1. /\ wpc = "polling" /\ now = pollEnd /\ wpc' = "select"
          /\ attempt' = attempt + 1 /\ now' = now /\ tick' = tick
      BY <1>5, <2>2 DEF PollReturns, Finish
    <3> QED
      BY <1>w, <1>a, <1>b, <3>1
  <2> QED
    BY <2>1, <2>2
<1>6. CASE Advance
  <2>1. /\ wpc # "done" /\ ~(wpc = "select" /\ tick) /\ ~(wpc = "polling" /\ now = pollEnd)
        /\ now' = now + 1 /\ tick' = TRUE /\ wpc' = wpc /\ attempt' = attempt
        /\ pollEnd' = pollEnd
    BY <1>6 DEF Advance
  <2> QED
    BY <1>w, <1>a, <2>1
<1>7. ASSUME NEW p \in Pods, PodStep(p) PROVE Slow'
  <2>1. now' = now /\ tick' = tick /\ wpc' = wpc /\ attempt' = attempt
        /\ pollEnd' = pollEnd
    BY <1>7 DEF PodStep
  <2> QED
    BY <1>w, <1>a, <2>1
<1>8. CASE UNCHANGED vars
  <2>1. now' = now /\ tick' = tick /\ wpc' = wpc /\ attempt' = attempt
        /\ pollEnd' = pollEnd
    BY <1>8 DEF vars
  <2> QED
    BY <1>w, <1>a, <2>1
<1> QED
  BY <1>1, <1>2, <1>4, <1>5, <1>6, <1>7, <1>8 DEF Next

LEMMA BInvStep == BInv /\ [Next]_vars => BInv'
<1> SUFFICES ASSUME BInv, [Next]_vars PROVE BInv'
  OBVIOUS
<1>1. WInv /\ Instant /\ Slow
  BY BInvSplit
<1>2. WInv' /\ Instant' /\ Slow'
  BY <1>1, WInvStep, InstantStep, SlowStep
<1> QED
  BY <1>2 DEF BInv, Horizon, Instant, Slow, Cost

(* BInv, the time bookkeeping of the retry loop, holds in every state of *)
(* every run: each iteration of the loop in                              *)
(* waitForAtLeastOneActivePodManagedByDaemonSet costs at most one list-  *)
(* call latency, the tick that starts it included.                       *)
THEOREM BudgetInvariant == Spec => []BInv
BY BInvInit, BInvStep, PTL DEF Spec

(* The call returns by Horizon, 1 + maxRetries * latency intervals (or    *)
(* maxRetries with instant list calls), for every value of the constants: *)
(* the tick-driven loop cannot stretch it further, though it may overrun  *)
(* the deadline.                                                           *)
THEOREM WorstCaseBoundTheorem == Spec => []WorstCaseBound
<1>1. Spec => []BInv
  BY BudgetInvariant
<1>2. BInv => WorstCaseBound
  <2> SUFFICES ASSUME WInv, Instant, Slow PROVE now <= Horizon
    BY BInvSplit DEF WorstCaseBound
  <2> USE DEF WInv, TypeOK
  <2>1. CASE MaxLatency = 0
    BY <2>1 DEF Horizon, Instant
  <2>2. CASE MaxLatency > 0
    <3>1. Cost(attempt) <= Cost(MaxRetries)
      BY CostMonotone
    <3>2. wpc # "done" => Cost(attempt + 1) <= Cost(MaxRetries)
      BY CostMonotone
    <3>3. Horizon = 1 + Cost(MaxRetries)
      BY <2>2, HorizonSlow
    <3> QED
      BY <2>2, <3>1, <3>2, <3>3, CostNat DEF Slow
  <2> QED
    BY <2>1, <2>2
<1> QED
  BY <1>1, <1>2, PTL

(* Every reachable state of the waiter is well typed.                      *)
THEOREM WaiterTypeCorrect == Spec => []TypeOK
BY WInvInit, WInvStep, PTL DEF Spec, WInv

=============================================================================
