----------------------- MODULE MC_CleanChoreography ------------------------
(* Model-checking instance of CleanChoreography: two nodes; each node can  *)
(* run three pods in turn (the initial one, one replacement, one started   *)
(* after the selector is restored).                                         *)
EXTENDS CleanChoreography, TLC

CONSTANTS n1, n2

MCNodes == {n1, n2}

MCMaxGen == 3

MCNodeSymmetry == Permutations(MCNodes)
=============================================================================
