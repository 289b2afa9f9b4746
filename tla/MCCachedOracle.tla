-------------------------- MODULE MCCachedOracle --------------------------
(***************************************************************************)
(* Two oracle indices and two answers.  One index may hold up to two seed  *)
(* values, so that a second value can be left over after a cache hit, the  *)
(* other at most one; budgets run from none to three, and the computation  *)
(* asks up to five times, enough to exhaust a budget and the seed of one   *)
(* index and ask again.                                                    *)
(***************************************************************************)
EXTENDS CachedOracle, TLC

CONSTANTS q1, q2

MCSeeds ==
    {(q1 :> s) @@ (q2 :> r) :
        s \in {<<>>} \cup [1..1 -> Answer] \cup [1..2 -> Answer],
        r \in {<<>>} \cup [1..1 -> Answer]}

MCBudgets == {(q1 :> m) @@ (q2 :> n) : m \in 0..3, n \in 1..2}
=============================================================================
