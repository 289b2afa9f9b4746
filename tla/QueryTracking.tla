--------------------------- MODULE QueryTracking ---------------------------
(***************************************************************************)
(* The data structures of VCVio/OracleComp/QueryTracking/Structures.lean   *)
(* that the oracle handlers keep in their StateT and WriterT layers: the   *)
(* cache (a partial table of answers), the log (every answered query, in   *)
(* order) and the seed (answers drawn before the run, one list for each    *)
(* oracle index).  The index-dependent answer types of the source are      *)
(* abstracted to one set Answer; Option.none is the value NoAnswer.        *)
(***************************************************************************)
EXTENDS Naturals, Sequences, FiniteSets

CONSTANTS
    Domain,     \* oracle indices (spec.Domain)
    Answer,     \* responses (spec.Range t)
    NoAnswer    \* Option.none

ASSUME AnswerAssumption == Answer # {} /\ NoAnswer \notin Answer

QueryCache == [Domain -> Answer \cup {NoAnswer}]

QueryLog == Seq([q : Domain, a : Answer])

QuerySeed == [Domain -> Seq(Answer)]

EmptyCache == [t \in Domain |-> NoAnswer]

\* QueryCache.cacheQuery: an overwriting update, not an insert-if-absent
CacheQuery(cache, t, u) == [cache EXCEPT ![t] = u]

\* QueryLog.logQuery
LogQuery(log, t, u) == Append(log, [q |-> t, a |-> u])

\* QueryLog.countQ at the predicate (. = t)
CountQ(log, t) == Cardinality({k \in DOMAIN log : log[k].q = t})

\* the k-th entry is the n-th answer at its index (QueryLog.getQueryValue?), from 0
Ordinal(log, k) == Cardinality({n \in 1 .. k - 1 : log[n].q = log[k].q})

\* QuerySeed.pop after a successful match: the head is consumed
PopSeed(seed, t) == [seed EXCEPT ![t] = Tail(@)]

\* QuerySeed.takeAtIndex: the first n answers of an index
TakeAtIndex(seed, t, n) == [seed EXCEPT ![t] = SubSeq(@, 1, IF n < Len(@) THEN n ELSE Len(@))]

\* QuerySeed.addValue
AddValue(seed, t, u) == [seed EXCEPT ![t] = Append(@, u)]

\* QueryCache.AgreesWithFn: the total function f extends the cache
AgreesWithFn(f, cache) ==
    \A t \in Domain : cache[t] # NoAnswer => f[t] = cache[t]
=============================================================================
