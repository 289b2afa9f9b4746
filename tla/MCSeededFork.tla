---------------------------- MODULE MCSeededFork ----------------------------
(***************************************************************************)
(* The forked oracle with a budget of two and another one with a budget of *)
(* one, each asked once more than that; a seed that covers both, one that  *)
(* misses the forked oracle, and one with twice the answers of it.         *)
(***************************************************************************)
EXTENDS SeededFork, TLC

CONSTANTS q1, q2

MCBudget == (q1 :> 2) @@ (q2 :> 1)
MCSeedLists == {<<q1, q2>>, <<q2>>, <<q1, q2, q1>>}
MCMaxAsked == (q1 :> 3) @@ (q2 :> 2)
=============================================================================
