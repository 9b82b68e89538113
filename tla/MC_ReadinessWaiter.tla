------------------------ MODULE MC_ReadinessWaiter -------------------------
(* Model-checking instance of ReadinessWaiter: two pods and a budget of    *)
(* three intervals (the code has thirty; the loop and the deadline behave  *)
(* alike at every budget, and three already lets ticks be dropped while a  *)
(* slow list call is in flight).                                            *)
EXTENDS ReadinessWaiter, TLC

CONSTANTS p1, p2

MCPods == {p1, p2}

MCPodSymmetry == Permutations(MCPods)
=============================================================================
