---------------------------- MODULE SagaAbstract ----------------------------
(***************************************************************************)
(* What a provisioning call with compensation promises its caller (spec    *)
(* 4.1 and 8), with no creation order and no defer stack.  live is the set *)
(* of objects that exist and that no operator has been told to remove by   *)
(* hand.  A call ends either with every object live (committed) or with   *)
(* none live (failed); a teardown call only removes objects and ends with  *)
(* none live; it may be repeated.                                          *)
(***************************************************************************)
CONSTANT Objects

VARIABLES phase, live

vars == <<phase, live>>

Init ==
  /\ phase = "idle"
  /\ live = {}

Begin ==
  /\ phase = "idle"
  /\ phase' = "starting"
  /\ UNCHANGED live

(* While a call works, objects come and go.                                 *)
Change ==
  /\ phase = "starting"
  /\ live' \subseteq Objects
  /\ UNCHANGED phase

Commit ==
  /\ phase = "starting"
  /\ live = Objects
  /\ phase' = "up"
  /\ UNCHANGED live

Abort ==
  /\ phase \in {"idle", "starting"}
  /\ live = {}
  /\ phase' = "failed"
  /\ UNCHANGED live

StopBegin ==
  /\ phase \in {"up", "down"}
  /\ phase' = "stopping"
  /\ UNCHANGED live

(* A teardown never brings an object back.                                  *)
Shrink ==
  /\ phase = "stopping"
  /\ live' \subseteq live
  /\ UNCHANGED phase

StopEnd ==
  /\ phase = "stopping"
  /\ live = {}
  /\ phase' = "down"
  /\ UNCHANGED live

Next == Begin \/ Change \/ Commit \/ Abort \/ StopBegin \/ Shrink \/ StopEnd

Spec == Init /\ [][Next]_vars

=============================================================================
