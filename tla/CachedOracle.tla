--------------------------- MODULE CachedOracle ---------------------------
(***************************************************************************)
(* A computation run by simulateQ against a stack of query handlers:       *)
(*                                                                         *)
(*   enforceOracle             a budget of queries for each oracle index   *)
(*     over withCachingLogging (a cache and an append-only log)            *)
(*     over withPregen         (a seed of answers drawn in advance)        *)
(*     over the live oracle    (a fresh answer, counted by withCounting).  *)
(*                                                                         *)
(* SeededOracle.lean warns that the order of the two middle layers is      *)
(* subtle: CacheFirst = TRUE is so.withPregen.withCaching, FALSE is        *)
(* so.withCaching.withPregen.  The computation is an arbitrary OracleComp: *)
(* it may ask any index at any time, at most MaxQueries times.             *)
(***************************************************************************)
EXTENDS QueryTracking

CONSTANTS
    Default,        \* `default : spec.Range t`, returned when over budget
    Seeds,          \* the seeds a run may start from
    Budgets,        \* the budgets a run may start from
    CacheFirst,     \* which of the two middle layers is asked first
    MaxQueries      \* bound on the length of the computation

ASSUME CachedOracleAssumption ==
    /\ Default \in Answer
    /\ Seeds \subseteq QuerySeed
    /\ Budgets \subseteq [Domain -> Nat]
    /\ CacheFirst \in BOOLEAN
    /\ MaxQueries \in Nat

VARIABLES
    cache,      \* StateT layer of withCaching
    log,        \* WriterT layer of withCachingLogging / withLogging
    seed,       \* StateT layer of withPregen
    budget,     \* StateT layer of enforceOracle
    calls,      \* AddWriterT layer of withCounting under the whole stack
    view,       \* history: the answers the computation received
    seed0,      \* history: the seed the run started from
    budget0     \* history: the budget the run started from

vars == <<cache, log, seed, budget, calls, view, seed0, budget0>>

TypeOK ==
    /\ cache \in QueryCache
    /\ log \in QueryLog
    /\ seed \in QuerySeed
    /\ budget \in [Domain -> Nat]
    /\ calls \in [Domain -> Nat]
    /\ view \in QueryLog
    /\ seed0 \in Seeds
    /\ budget0 \in Budgets

Init ==
    /\ cache = EmptyCache
    /\ log = <<>>
    /\ seed0 \in Seeds
    /\ seed = seed0
    /\ budget0 \in Budgets
    /\ budget = budget0
    /\ calls = [t \in Domain |-> 0]
    /\ view = <<>>

\* Faulty variant of Denied: the last query of the budget is dropped too.
DeniedEarly(t) ==
    /\ Len(view) < MaxQueries
    /\ budget[t] <= 1
    /\ view' = LogQuery(view, t, Default)
    /\ UNCHANGED <<cache, log, seed, budget, calls, seed0, budget0>>

\* enforceOracle, exhausted: the default is returned and no layer is reached
Denied(t) ==
    /\ Len(view) < MaxQueries
    /\ budget[t] = 0
    /\ view' = LogQuery(view, t, Default)
    /\ UNCHANGED <<cache, log, seed, budget, calls, seed0, budget0>>

\* Faulty variant of Forward: natural subtraction in place of the guard.
ForwardUnguarded(t, u) ==
    /\ Len(view) < MaxQueries
    /\ budget' = [budget EXCEPT ![t] = IF @ > 0 THEN @ - 1 ELSE 0]
    /\ log' = LogQuery(log, t, u)
    /\ view' = LogQuery(view, t, u)
    /\ UNCHANGED <<seed0, budget0>>

\* enforceOracle, within budget: forward the query, charge the index, and
\* hand the answer u back; the logging layer sees every forwarded query
Forward(t, u) ==
    /\ Len(view) < MaxQueries
    /\ budget[t] > 0
    /\ budget' = [budget EXCEPT ![t] = @ - 1]
    /\ log' = LogQuery(log, t, u)
    /\ view' = LogQuery(view, t, u)
    /\ UNCHANGED <<seed0, budget0>>

\* withCaching, hit: the answer is replayed and nothing below is consulted
FromCache(t) ==
    /\ cache[t] # NoAnswer
    /\ CacheFirst \/ seed[t] = <<>>
    /\ Forward(t, cache[t])
    /\ UNCHANGED <<cache, seed, calls>>

\* Faulty variants of FromSeed: a seed value is used although the index is
\* cached; a seed value is not cached; a seed value is cached in both orders.
FromSeedAlways(t) ==
    /\ seed[t] # <<>>
    /\ Forward(t, Head(seed[t]))
    /\ seed' = PopSeed(seed, t)
    /\ cache' = IF CacheFirst THEN CacheQuery(cache, t, Head(seed[t])) ELSE cache
    /\ UNCHANGED calls

FromSeedUncached(t) ==
    /\ seed[t] # <<>>
    /\ CacheFirst => cache[t] = NoAnswer
    /\ Forward(t, Head(seed[t]))
    /\ seed' = PopSeed(seed, t)
    /\ UNCHANGED <<cache, calls>>

FromSeedCached(t) ==
    /\ seed[t] # <<>>
    /\ CacheFirst => cache[t] = NoAnswer
    /\ Forward(t, Head(seed[t]))
    /\ seed' = PopSeed(seed, t)
    /\ cache' = CacheQuery(cache, t, Head(seed[t]))
    /\ UNCHANGED calls

\* withPregen, seed available: the head is returned and consumed; the answer
\* passes through the cache only when the cache is the outer layer
FromSeed(t) ==
    /\ seed[t] # <<>>
    /\ CacheFirst => cache[t] = NoAnswer
    /\ Forward(t, Head(seed[t]))
    /\ seed' = PopSeed(seed, t)
    /\ cache' = IF CacheFirst THEN CacheQuery(cache, t, Head(seed[t])) ELSE cache
    /\ UNCHANGED calls

\* Faulty variant of Fresh: the live answer is returned but not cached.
FreshUncached(t, u) ==
    /\ cache[t] = NoAnswer
    /\ seed[t] = <<>>
    /\ Forward(t, u)
    /\ calls' = [calls EXCEPT ![t] = @ + 1]
    /\ UNCHANGED <<cache, seed>>

\* neither layer can answer: the live oracle samples u, which is cached
Fresh(t, u) ==
    /\ cache[t] = NoAnswer
    /\ seed[t] = <<>>
    /\ Forward(t, u)
    /\ cache' = CacheQuery(cache, t, u)
    /\ calls' = [calls EXCEPT ![t] = @ + 1]
    /\ UNCHANGED seed

Next ==
    \E t \in Domain :
        \/ Denied(t)
        \/ FromCache(t)
        \/ FromSeed(t)
        \/ \E u \in Answer : Fresh(t, u)

Spec == Init /\ [][Next]_vars

-----------------------------------------------------------------------------
(* Properties of either order of the layers. *)

\* enforceOracle is silent about denial, so the only account of it is the
\* number of forwarded queries: of the queries the computation made at t,
\* exactly the first budget0[t] reached the layers below.
BudgetAccounting ==
    \A t \in Domain :
        LET asked == CountQ(view, t)
        IN /\ CountQ(log, t) = IF asked < budget0[t] THEN asked ELSE budget0[t]
           /\ budget[t] + CountQ(log, t) = budget0[t]

\* Enforcement is transparent (enforceOracle.fst_map_run_simulateQ): a
\* computation that stays within its bound cannot tell that it is enforced.
EnforcementTransparent ==
    (\A t \in Domain : CountQ(view, t) <= budget0[t]) => view = log

-----------------------------------------------------------------------------
(* Properties of so.withPregen.withCaching (CacheFirst). *)

\* The cache and the log tell the same story: every logged answer is the
\* cached one, and nothing is cached that was not asked.
CacheMatchesLog ==
    /\ \A i \in DOMAIN log : cache[log[i].q] = log[i].a
    /\ \A t \in Domain :
          cache[t] # NoAnswer => \E i \in DOMAIN log : log[i].q = t

\* Under a cache a seed advances at most once at each index, however often
\* the index is asked, and the value it gave up is the cached answer; a live
\* call happens only where the seed was empty from the start, once.
SeedUsedOnce ==
    \A t \in Domain :
        \/ /\ cache[t] = NoAnswer
           /\ seed[t] = seed0[t]
           /\ calls[t] = 0
        \/ /\ seed0[t] # <<>>
           /\ seed[t] = Tail(seed0[t])
           /\ cache[t] = Head(seed0[t])
           /\ calls[t] = 0
        \/ /\ seed0[t] = <<>>
           /\ seed[t] = <<>>
           /\ cache[t] # NoAnswer
           /\ calls[t] = 1

\* The functions that agree with what has been sampled so far.
PossibleWorlds == {f \in [Domain -> Answer] : AgreesWithFn(f, cache)}

RF == INSTANCE RandomFunction WITH worlds <- PossibleWorlds, history <- log

\* Lazy sampling with a cache implements a function fixed in advance, seeded
\* or not (what randomOracle promises its callers).
ImplementsRandomFunction == RF!Spec

-----------------------------------------------------------------------------
(* Properties of so.withCaching.withPregen (~CacheFirst). *)

\* With the seed outermost the k-th query at t is answered by the k-th seed
\* value and later ones by a single cached live answer; seed values are never
\* cached, so a repeated query may change its answer until the seed runs out.
SeedServedInOrder ==
    /\ \A i \in DOMAIN log :
          LET t == log[i].q
              k == Ordinal(log, i)
          IN log[i].a = IF k < Len(seed0[t]) THEN seed0[t][k + 1] ELSE cache[t]
    /\ \A t \in Domain :
          LET asked == CountQ(log, t)
              n == Len(seed0[t])
          IN /\ seed[t] = SubSeq(seed0[t], asked + 1, n)
             /\ calls[t] = IF asked > n THEN 1 ELSE 0
             /\ cache[t] # NoAnswer <=> asked > n
=============================================================================
