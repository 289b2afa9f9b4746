----------------------------- MODULE SeededFork -----------------------------
(***************************************************************************)
(* seededFork of VCVio/CryptoFoundations/SeededFork.lean: a computation is *)
(* run on a generated seed, then run again on the seed with the answer at  *)
(* the fork point replaced and the ones behind it dropped.                 *)
(*                                                                         *)
(* `main` is an arbitrary OracleComp, but the same one in both runs: what  *)
(* it asks and returns depends on the answers it has received, and on      *)
(* nothing else.  The second run therefore repeats the first for as long   *)
(* as their answers agree; from there on it is arbitrary again.            *)
(***************************************************************************)
EXTENDS QueryTracking

CONSTANTS
    i,          \* the forked oracle
    qb,         \* the query budget of each index
    SeedLists,  \* the lists the seed may be generated from
    None,       \* `none` of cf
    MaxAsked    \* bound on the queries of a run at each index

ASSUME SeededForkAssumption ==
    /\ i \in Domain
    /\ qb \in [Domain -> Nat]
    /\ SeedLists \subseteq Seq(Domain)
    /\ MaxAsked \in [Domain -> Nat]
    /\ None \notin Nat

VARIABLES
    js,         \* the list the seed is generated from
    pc,         \* "generate", "first", "resample", "second" or "done"
    generated,  \* the generated seed
    seed,       \* StateT layer of seededOracle, in the run under way
    first,      \* the queries of the first run, with their answers
    s,          \* cf of its result
    forked,     \* the seed the second run starts from
    second,     \* the queries of the second run
    live,       \* history: live queries of the run under way
    outcome     \* "none", or "some" with the results of both runs

vars == <<js, pc, generated, seed, first, s, forked, second, live, outcome>>

EmptySeed == [t \in Domain |-> <<>>]
NoCalls == [t \in Domain |-> 0]

Init ==
    /\ js \in SeedLists
    /\ pc = "generate"
    /\ generated = EmptySeed /\ seed = EmptySeed /\ forked = EmptySeed
    /\ first = <<>> /\ s = None /\ second = <<>>
    /\ live = NoCalls /\ outcome = "none"

\* generateSeed: qb t answers for each occurrence of t in js
SeedLength(t) == qb[t] * Cardinality({k \in DOMAIN js : js[k] = t})

GenerateSeed ==
    /\ pc = "generate" /\ pc' = "first"
    /\ generated' \in [Domain -> UNION {[1 .. SeedLength(t) -> Answer] : t \in Domain}]
    /\ \A t \in Domain : generated'[t] \in [1 .. SeedLength(t) -> Answer]
    /\ seed' = generated'
    /\ UNCHANGED <<js, first, s, forked, second, live, outcome>>

\* seededOracle: the next answer of the seed, or a live one
Pregenerated(t, u) ==
    /\ seed[t] # <<>> /\ u = Head(seed[t])
    /\ seed' = PopSeed(seed, t)
    /\ UNCHANGED live
Live(t) ==
    /\ seed[t] = <<>>
    /\ live' = [live EXCEPT ![t] = @ + 1]
    /\ UNCHANGED seed
SeededOracle(t, u) == Pregenerated(t, u) \/ Live(t)

FirstQuery(t, u) ==
    /\ pc = "first" /\ CountQ(first, t) < MaxAsked[t]
    /\ SeededOracle(t, u)
    /\ first' = LogQuery(first, t, u)
    /\ UNCHANGED <<js, pc, generated, s, forked, second, outcome>>

\* the first run returns, and cf selects a fork point or none
FirstReturns ==
    /\ pc = "first"
    /\ s' \in 0 .. qb[i] \cup {None}
    /\ pc' = IF s' = None THEN "done" ELSE "resample"
    /\ UNCHANGED <<js, generated, seed, first, forked, second, live, outcome>>

\* Faulty variant of Collides: compared with the answer before it.
CollidesBefore(u) == s \in DOMAIN generated[i] /\ generated[i][s] = u

\* `(seed i)[s]? = some u`, where s counts from 0
Collides(u) == s + 1 \in DOMAIN generated[i] /\ generated[i][s + 1] = u

\* Faulty variants of ForkedSeed: the answers of all indices are cut off at the
\* fork point; one answer more stays.
ForkedSeedAll(u) ==
    [[t \in Domain |-> TakeAtIndex(generated, t, s)[t]] EXCEPT ![i] = Append(@, u)]
ForkedSeedLate(u) == AddValue(TakeAtIndex(generated, i, s + 1), i, u)

ForkedSeed(u) == AddValue(TakeAtIndex(generated, i, s), i, u)

Resample(u) ==
    /\ pc = "resample"
    /\ IF Collides(u)
       THEN pc' = "done" /\ UNCHANGED <<seed, forked, live>>
       ELSE /\ pc' = "second"
            /\ forked' = ForkedSeed(u) /\ seed' = forked'
            /\ live' = NoCalls
    /\ UNCHANGED <<js, generated, first, s, second, outcome>>

\* so far the second run has received the answers of the first
Repeated == \A k \in DOMAIN second : k \in DOMAIN first /\ second[k] = first[k]

SecondQuery(t, u) ==
    /\ pc = "second" /\ CountQ(second, t) < MaxAsked[t]
    /\ Repeated => Len(second) < Len(first) /\ t = first[Len(second) + 1].q
    /\ SeededOracle(t, u)
    /\ second' = LogQuery(second, t, u)
    /\ UNCHANGED <<js, pc, generated, first, s, forked, outcome>>

\* the second run returns, and succeeds if cf selects the same fork point
SecondReturns ==
    /\ pc = "second" /\ pc' = "done"
    /\ \E again \in 0 .. qb[i] \cup {None} :
          /\ Repeated => Len(second) = Len(first) /\ again = s
          /\ outcome' = IF again = s THEN "some" ELSE "none"
    /\ UNCHANGED <<js, generated, seed, first, s, forked, second, live>>

Next ==
    \/ GenerateSeed \/ FirstReturns \/ SecondReturns
    \/ \E t \in Domain, u \in Answer : FirstQuery(t, u) \/ SecondQuery(t, u)
    \/ \E u \in Answer : Resample(u)

Spec == Init /\ [][Next]_vars

-----------------------------------------------------------------------------
(* Properties. *)

\* Every variable keeps its type; cf selects one of the budgeted queries or the one
\* after them (Fin (qb i + 1)), and only a finished experiment has a result.
TypeOK ==
    /\ js \in SeedLists
    /\ pc \in {"generate", "first", "resample", "second", "done"}
    /\ generated \in QuerySeed /\ seed \in QuerySeed /\ forked \in QuerySeed
    /\ first \in QueryLog /\ second \in QueryLog
    /\ s \in Nat \cup {None} /\ live \in [Domain -> Nat]
    /\ outcome \in {"none", "some"} /\ (pc # "done" => outcome = "none")
    /\ pc \in {"resample", "second"} \/ outcome = "some" => s \in 0 .. qb[i]

\* SeedListCovers
Covers == \A t \in Domain : qb[t] > 0 => \E k \in DOMAIN js : js[k] = t

\* IsPerIndexQueryBound, of one run
WithinBudget(log) == \A t \in Domain : CountQ(log, t) <= qb[t]

\* The runs share their randomness: whatever they ask, and in whichever order, the
\* n-th answers of an index are the same as long as the generated seed holds them;
\* of the forked oracle, those before the fork point.
SharedAnswers ==
    \A k \in DOMAIN first, l \in DOMAIN second :
        LET t == first[k].q
            n == Ordinal(first, k)
        IN second[l].q = t /\ Ordinal(second, l) = n /\ n < Len(generated[t]) /\ (t = i => n < s)
               => second[l].a = first[k].a

\* after the same answers
SamePast(k) == \A n \in 1 .. k - 1 : second[n] = first[n]

\* The runs part at the fork and nowhere else: after the same answers they ask the
\* same index, and, unless the seed had run out, are answered alike but for the
\* query at the fork point, where the answers differ.
DivergesAtFork ==
    \A k \in DOMAIN first \cap DOMAIN second :
        LET t == first[k].q
            n == Ordinal(first, k)
        IN SamePast(k) =>
              /\ second[k].q = t
              /\ n < Len(generated[t]) => (second[k].a = first[k].a <=> t # i \/ n # s)

\* What a success means, for a seed that covers the budget and a first run within
\* it: both runs ask the query at the fork point after the same answers, and its
\* answers differ, unless the first run never asked it: then cf has selected the
\* same result twice.
SuccessIsFork ==
    outcome = "some" /\ Covers /\ WithinBudget(first) =>
        IF CountQ(first, i) > s
        THEN \E k \in DOMAIN first \cap DOMAIN second :
                /\ SamePast(k) /\ first[k].q = i /\ Ordinal(first, k) = s
                /\ second[k].q = i /\ second[k].a # first[k].a
        ELSE second = first

\* isPerIndexQueryBound_seededForkWithSeedValue: of a computation within its budget
\* the first run makes no live query, and the second only such as come after the
\* fork point, to the forked oracle.
LiveAfterFork ==
    Covers =>
        /\ pc \in {"first", "resample"} /\ WithinBudget(first) => live = NoCalls
        /\ pc = "second" /\ WithinBudget(second) =>
              \A t \in Domain : live[t] # 0 => t = i /\ live[t] + s + 1 <= qb[i]
=============================================================================
