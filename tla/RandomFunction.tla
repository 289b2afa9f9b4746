-------------------------- MODULE RandomFunction --------------------------
(***************************************************************************)
(* What a lazily sampled random oracle promises: its answers are those of  *)
(* one total function that was fixed before the first query.  The function *)
(* is not known in advance, so the specification keeps the set of the      *)
(* functions that are still possible; a query picks an answer some         *)
(* possible function gives and discards the functions that disagree.       *)
(* Nothing here knows of caches, seeds or of the order of sampling.        *)
(***************************************************************************)
EXTENDS QueryTracking

VARIABLES
    worlds,     \* the functions [Domain -> Answer] still possible
    history     \* the answered queries, in order

Init ==
    /\ worlds = [Domain -> Answer]
    /\ history = <<>>

Ask(t, u) ==
    /\ \E f \in worlds : f[t] = u
    /\ worlds' = {f \in worlds : f[t] = u}
    /\ history' = LogQuery(history, t, u)

Next == \E t \in Domain, u \in Answer : Ask(t, u)

Spec == Init /\ [][Next]_<<worlds, history>>
=============================================================================
