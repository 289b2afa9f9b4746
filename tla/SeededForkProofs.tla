-------------------------- MODULE SeededForkProofs --------------------------
(***************************************************************************)
(* What the two runs of SeededFork share, where they part and what they    *)
(* ask live, for every computation, seed, budget and fork point.           *)
(***************************************************************************)
EXTENDS SeededFork, QueryTrackingProofs

USE AnswerAssumption, SeededForkAssumption

-----------------------------------------------------------------------------
(* Types. *)

\* Answering a query keeps the seed and the counter of live queries in their types.
LEMMA OracleType ==
    ASSUME TypeOK, NEW t \in Domain, NEW u \in Answer, SeededOracle(t, u)
    PROVE  seed' \in QuerySeed /\ live' \in [Domain -> Nat]
<1>1. CASE Pregenerated(t, u)
  <2>1. seed[t] \in Seq(Answer) /\ seed[t] # <<>>
    BY <1>1 DEF Pregenerated, TypeOK, QuerySeed
  <2>2. Tail(seed[t]) \in Seq(Answer)
    BY <2>1
  <2>3. QED
    BY <1>1, <2>2 DEF Pregenerated, PopSeed, TypeOK, QuerySeed
<1>2. CASE Live(t)
  BY <1>2 DEF Live, TypeOK
<1>3. QED
  BY <1>1, <1>2 DEF SeededOracle

\* The generated seed has a list of answers for each index.
LEMMA GeneratedType ==
    ASSUME TypeOK, GenerateSeed
    PROVE  /\ generated' \in QuerySeed
           /\ \A t \in Domain : Len(generated'[t]) = SeedLength(t)
<1>1. \A t \in Domain : SeedLength(t) \in Nat
  <2> SUFFICES ASSUME NEW t \in Domain PROVE SeedLength(t) \in Nat
    OBVIOUS
  <2>1. js \in Seq(Domain)
    BY DEF TypeOK
  <2>2. {k \in DOMAIN js : js[k] = t} \in SUBSET (1 .. Len(js)) /\ Len(js) \in Nat
    BY <2>1
  <2>3. Cardinality({k \in DOMAIN js : js[k] = t}) \in Nat
    BY <2>2, PositionsFinite
  <2>4. QED
    BY <2>3 DEF SeedLength
<1>2. ASSUME NEW t \in Domain
      PROVE  generated'[t] \in Seq(Answer) /\ Len(generated'[t]) = SeedLength(t)
  <2>1. ASSUME NEW n \in Nat, NEW f \in [1 .. n -> Answer]
        PROVE  f \in Seq(Answer) /\ Len(f) = n
    OBVIOUS
  <2>2. generated'[t] \in [1 .. SeedLength(t) -> Answer]
    BY DEF GenerateSeed
  <2>3. QED
    BY <1>1, <2>1, <2>2
<1>3. generated' = [t \in Domain |-> generated'[t]]
  BY DEF GenerateSeed
<1>4. QED
  BY <1>2, <1>3 DEF QuerySeed

\* What replacing the answer at the fork point does to the seed.
LEMMA ForkedFacts ==
    ASSUME TypeOK, s \in Nat, NEW u \in Answer
    PROVE  LET n == IF s < Len(generated[i]) THEN s ELSE Len(generated[i])
           IN /\ ForkedSeed(u) \in QuerySeed
              /\ \A t \in Domain \ {i} : ForkedSeed(u)[t] = generated[t]
              /\ Len(ForkedSeed(u)[i]) = n + 1
              /\ \A m \in 1 .. n : ForkedSeed(u)[i][m] = generated[i][m]
              /\ ForkedSeed(u)[i][n + 1] = u
<1> DEFINE n == IF s < Len(generated[i]) THEN s ELSE Len(generated[i])
           kept == SubSeq(generated[i], 1, n)
<1>1. generated \in QuerySeed /\ generated[i] \in Seq(Answer)
  BY DEF TypeOK, QuerySeed
<1>2. n \in 0 .. Len(generated[i])
  BY <1>1
<1>3. kept \in Seq(Answer) /\ Len(kept) = n /\ \A m \in 1 .. n : kept[m] = generated[i][m]
  BY <1>1, <1>2
<1>4. ForkedSeed(u) = [generated EXCEPT ![i] = Append(kept, u)]
  BY <1>1 DEF ForkedSeed, AddValue, TakeAtIndex, QuerySeed
<1> HIDE DEF n, kept
<1>5. /\ Append(kept, u) \in Seq(Answer) /\ Len(Append(kept, u)) = n + 1
      /\ \A m \in 1 .. n : Append(kept, u)[m] = kept[m]
      /\ Append(kept, u)[n + 1] = u
  BY <1>2, <1>3
<1>6. QED
  BY <1>1, <1>3, <1>4, <1>5 DEF n, QuerySeed

LEMMA TypeInit == Init => TypeOK
  BY DEF Init, TypeOK, EmptySeed, NoCalls, QuerySeed, QueryLog

LEMMA TypeStep == TypeOK /\ [Next]_vars => TypeOK'
<1> SUFFICES ASSUME TypeOK, [Next]_vars PROVE TypeOK'
  OBVIOUS
<1>1. CASE GenerateSeed
  BY <1>1, GeneratedType DEF GenerateSeed, TypeOK
<1>2. CASE FirstReturns
  <2>1. qb[i] \in Nat
    OBVIOUS
  <2>2. s' \in Nat \cup {None}
    BY <1>2, <2>1 DEF FirstReturns
  <2>3. pc' = "resample" => s' \in 0 .. qb[i]
    BY <1>2 DEF FirstReturns
  <2>4. pc' \in {"done", "resample"} /\ outcome = "none"
    BY <1>2 DEF FirstReturns, TypeOK
  <2>5. QED
    BY <1>2, <2>2, <2>3, <2>4 DEF FirstReturns, TypeOK
<1>3. CASE SecondReturns
  BY <1>3 DEF SecondReturns, TypeOK
<1>4. ASSUME NEW t \in Domain, NEW u \in Answer, FirstQuery(t, u) PROVE TypeOK'
  BY <1>4, OracleType, LogQueryType DEF FirstQuery, TypeOK
<1>5. ASSUME NEW t \in Domain, NEW u \in Answer, SecondQuery(t, u) PROVE TypeOK'
  BY <1>5, OracleType, LogQueryType DEF SecondQuery, TypeOK
<1>6. ASSUME NEW u \in Answer, Resample(u) PROVE TypeOK'
  <2>1. s \in 0 .. qb[i] /\ s \in Nat
    BY <1>6 DEF Resample, TypeOK
  <2>2. CASE Collides(u)
    BY <1>6, <2>1, <2>2 DEF Resample, TypeOK
  <2>3. CASE ~Collides(u)
    <3>1. ForkedSeed(u) \in QuerySeed
      BY <2>1, ForkedFacts
    <3>2. QED
      BY <1>6, <2>1, <2>3, <3>1 DEF Resample, TypeOK, NoCalls
  <2>4. QED
    BY <2>2, <2>3
<1>7. CASE UNCHANGED vars
  BY <1>7 DEF vars, TypeOK
<1>8. QED
  BY <1>1, <1>2, <1>3, <1>4, <1>5, <1>6, <1>7 DEF Next

\* Every variable keeps its type.
THEOREM TypeCorrect == Spec => []TypeOK
  BY TypeInit, TypeStep, PTL DEF Spec

-----------------------------------------------------------------------------
(* The inductive invariant. *)

\* What a run that started from `start` has left of its seed, and has asked live.
Left(log, start, left, calls) ==
    \A t \in Domain :
        LET asked == CountQ(log, t)
            given == Len(start[t])
        IN /\ asked <= given => Len(left[t]) = given - asked /\ calls[t] = 0
           /\ asked > given => Len(left[t]) = 0 /\ calls[t] = asked - given
           /\ \A m \in 1 .. Len(left[t]) : left[t][m] = start[t][m + asked]

\* Its queries were answered from that seed, in order, while it lasted.
Served(log, start) ==
    \A k \in DOMAIN log :
        LET t == log[k].q
            n == Ordinal(log, k)
        IN n < Len(start[t]) => log[k].a = start[t][n + 1]

\* Every ordinal below the count of an index is that of a query.
Reached(log) ==
    \A t \in Domain, n \in Nat :
        n < CountQ(log, t) => \E j \in DOMAIN log : log[j].q = t /\ Ordinal(log, j) = n

FirstInv ==
    /\ pc = "generate" => first = <<>> /\ live = NoCalls
    /\ pc \in {"first", "resample"} => Left(first, generated, seed, live)
    /\ pc # "generate" => Served(first, generated)
    /\ pc # "generate" => \A t \in Domain : Len(generated[t]) = SeedLength(t)
    /\ Reached(first)

Started == pc = "second" \/ second # <<>> \/ outcome = "some"

\* The seed of the second run against that of the first.
Forked ==
    LET n == IF s < Len(generated[i]) THEN s ELSE Len(generated[i])
    IN /\ \A t \in Domain \ {i} : forked[t] = generated[t]
       /\ Len(forked[i]) = n + 1
       /\ \A m \in 1 .. n : forked[i][m] = generated[i][m]
       /\ s < Len(generated[i]) => forked[i][s + 1] # generated[i][s + 1]

Determined ==
    \A k \in DOMAIN second : SamePast(k) => k \in DOMAIN first /\ second[k].q = first[k].q

Parted == \E k \in DOMAIN first \cap DOMAIN second : SamePast(k) /\ second[k] # first[k]

SecondInv ==
    /\ pc \in {"generate", "first", "resample"} => second = <<>>
    /\ pc # "done" => outcome = "none"
    /\ pc = "second" => Left(second, forked, seed, live)
    /\ Started => s \in 0 .. qb[i] /\ Forked /\ Served(second, forked)
    /\ Determined
    /\ Repeated \/ Parted
    /\ outcome = "some" /\ Repeated => Len(second) = Len(first)

IInv == TypeOK /\ FirstInv /\ SecondInv

-----------------------------------------------------------------------------
(* What a query does to a run. *)

\* A run that has asked nothing has its whole seed left.
LEMMA LeftStart ==
    ASSUME NEW start \in QuerySeed
    PROVE  Left(<<>>, start, start, NoCalls) /\ Served(<<>>, start) /\ Reached(<<>>)
<1>1. \A t \in Domain : start[t] \in Seq(Answer) /\ Len(start[t]) \in Nat
  BY DEF QuerySeed
<1>2. Left(<<>>, start, start, NoCalls)
  BY <1>1, CountEmpty DEF Left, NoCalls
<1>3. QED
  BY <1>2, CountEmpty DEF Served, Reached

\* The oracle consumes the seed of the index it is asked, or asks live.
LEMMA OracleLeft ==
    ASSUME TypeOK, NEW log \in QueryLog, NEW start \in QuerySeed,
           Left(log, start, seed, live),
           NEW t \in Domain, NEW u \in Answer, SeededOracle(t, u)
    PROVE  Left(LogQuery(log, t, u), start, seed', live')
<1> DEFINE new == LogQuery(log, t, u)
<1>0. SUFFICES ASSUME NEW d \in Domain
             PROVE  /\ CountQ(new, d) <= Len(start[d]) =>
                          Len(seed'[d]) = Len(start[d]) - CountQ(new, d) /\ live'[d] = 0
                    /\ CountQ(new, d) > Len(start[d]) =>
                          Len(seed'[d]) = 0 /\ live'[d] = CountQ(new, d) - Len(start[d])
                    /\ \A m \in 1 .. Len(seed'[d]) :
                          seed'[d][m] = start[d][m + CountQ(new, d)]
  BY DEF Left
<1>1. CountQ(log, d) \in Nat /\ CountQ(new, d) = CountQ(log, d) + (IF d = t THEN 1 ELSE 0)
  BY CountQuery
<1>2. /\ start[d] \in Seq(Answer) /\ Len(start[d]) \in Nat
      /\ seed[d] \in Seq(Answer) /\ Len(seed[d]) \in Nat
      /\ seed \in [Domain -> Seq(Answer)] /\ live \in [Domain -> Nat] /\ live[d] \in Nat
  <2>1. start \in [Domain -> Seq(Answer)]
    BY DEF QuerySeed
  <2>2. seed \in [Domain -> Seq(Answer)] /\ live \in [Domain -> Nat]
    BY DEF TypeOK, QuerySeed
  <2>3. start[d] \in Seq(Answer) /\ seed[d] \in Seq(Answer) /\ live[d] \in Nat
    BY <2>1, <2>2
  <2>4. QED
    BY <2>2, <2>3
<1>3. /\ CountQ(log, d) <= Len(start[d]) =>
            Len(seed[d]) = Len(start[d]) - CountQ(log, d) /\ live[d] = 0
      /\ CountQ(log, d) > Len(start[d]) =>
            Len(seed[d]) = 0 /\ live[d] = CountQ(log, d) - Len(start[d])
      /\ \A m \in 1 .. Len(seed[d]) : seed[d][m] = start[d][m + CountQ(log, d)]
  BY DEF Left
<1> HIDE DEF new
<1>4. CASE d # t
  <2>1. seed'[d] = seed[d] /\ live'[d] = live[d]
    BY <1>2, <1>4 DEF SeededOracle, Pregenerated, Live, PopSeed
  <2>2. QED
    BY <1>1, <1>3, <1>4, <2>1
<1>5. CASE d = t /\ Pregenerated(t, u)
  <2>1. seed[d] # <<>> /\ seed'[d] = Tail(seed[d]) /\ live'[d] = live[d]
    BY <1>2, <1>5 DEF Pregenerated, PopSeed
  <2>0. ASSUME NEW S, NEW l \in Seq(S), l # <<>>
        PROVE  /\ Len(l) > 0 /\ Len(Tail(l)) = Len(l) - 1
               /\ \A m \in 1 .. Len(Tail(l)) : Tail(l)[m] = l[m + 1]
    BY <2>0
  <2>2. /\ Len(seed[d]) > 0 /\ Len(seed'[d]) = Len(seed[d]) - 1
        /\ \A m \in 1 .. Len(seed'[d]) : seed'[d][m] = seed[d][m + 1]
    BY <1>2, <2>0, <2>1
  <2>3. \A m \in 1 .. Len(seed'[d]) : m + 1 \in 1 .. Len(seed[d])
    BY <1>2, <2>2
  <2>4. CountQ(log, d) < Len(start[d]) /\ CountQ(new, d) = CountQ(log, d) + 1
    BY <1>1, <1>2, <1>3, <1>5, <2>2
  <2>5. \A m \in 1 .. Len(seed'[d]) : seed'[d][m] = start[d][(m + 1) + CountQ(log, d)]
    BY <1>3, <2>2, <2>3
  <2>6. \A m \in 1 .. Len(seed'[d]) :
            (m + 1) + CountQ(log, d) = m + CountQ(new, d)
    BY <1>1, <1>2, <2>4
  <2>7. \A m \in 1 .. Len(seed'[d]) : seed'[d][m] = start[d][m + CountQ(new, d)]
    BY <2>5, <2>6
  <2>8. /\ CountQ(new, d) <= Len(start[d])
        /\ Len(seed'[d]) = Len(start[d]) - CountQ(new, d) /\ live'[d] = 0
    <3>1. CountQ(log, d) \in Nat /\ Len(start[d]) \in Nat
      BY <1>1, <1>2
    <3>2. CountQ(log, d) <= Len(start[d])
      BY <2>4, <3>1
    <3>3. Len(seed[d]) = Len(start[d]) - CountQ(log, d) /\ live[d] = 0
      BY <1>3, <3>2
    <3>4. ASSUME NEW c \in Nat, NEW n \in Nat, c < n
          PROVE  c + 1 <= n /\ (n - c) - 1 = n - (c + 1)
      BY <3>4
    <3>5. /\ CountQ(log, d) + 1 <= Len(start[d])
          /\ (Len(start[d]) - CountQ(log, d)) - 1 = Len(start[d]) - (CountQ(log, d) + 1)
      BY <2>4, <3>1, <3>4
    <3>6. QED
      BY <2>1, <2>2, <2>4, <3>3, <3>5
  <2>9. CountQ(new, d) \in Nat
    BY <1>1
  <2>10. QED
    BY <1>2, <2>7, <2>8, <2>9
<1>6. CASE d = t /\ Live(t)
  <2>1. seed[d] = <<>> /\ seed'[d] = <<>> /\ live'[d] = live[d] + 1
    BY <1>2, <1>6 DEF Live
  <2>2. Len(seed[d]) = 0 /\ Len(seed'[d]) = 0
    BY <2>1
  <2>3. QED
    BY <1>1, <1>2, <1>3, <1>6, <2>1, <2>2
<1>7. QED
  BY <1>4, <1>5, <1>6 DEF SeededOracle

\* It answers from the seed while there is some.
LEMMA OracleServed ==
    ASSUME TypeOK, NEW log \in QueryLog, NEW start \in QuerySeed,
           Left(log, start, seed, live), Served(log, start),
           NEW t \in Domain, NEW u \in Answer, SeededOracle(t, u)
    PROVE  Served(LogQuery(log, t, u), start)
<1> DEFINE new == LogQuery(log, t, u)
<1>1. /\ Len(log) \in Nat /\ DOMAIN log = 1 .. Len(log) /\ DOMAIN new = 1 .. Len(log) + 1
      /\ new[Len(log) + 1] = [q |-> t, a |-> u]
      /\ \A k \in 1 .. Len(log) : new[k] = log[k]
  BY LogQueryType
<1>2. /\ Ordinal(new, Len(log) + 1) = CountQ(log, t)
      /\ \A k \in 1 .. Len(log) : Ordinal(new, k) = Ordinal(log, k)
  BY OrdinalQuery
<1>3. CountQ(log, t) \in Nat
  BY CountQuery
<1>4. CountQ(log, t) < Len(start[t]) => u = start[t][CountQ(log, t) + 1]
  <2> SUFFICES ASSUME CountQ(log, t) < Len(start[t]) PROVE u = start[t][CountQ(log, t) + 1]
    OBVIOUS
  <2>1. /\ start[t] \in Seq(Answer) /\ Len(start[t]) \in Nat /\ seed[t] \in Seq(Answer)
    BY DEF TypeOK, QuerySeed
  <2>2. Len(seed[t]) > 0 /\ \A m \in 1 .. Len(seed[t]) : seed[t][m] = start[t][m + CountQ(log, t)]
    BY <1>3, <2>1 DEF Left
  <2>3. seed[t] # <<>> /\ seed[t][1] = start[t][1 + CountQ(log, t)]
    BY <2>1, <2>2
  <2>4. u = seed[t][1]
    BY <2>1, <2>3 DEF SeededOracle, Pregenerated, Live
  <2>5. QED
    BY <1>3, <2>3, <2>4
<1> HIDE DEF new
<1>5. QED
  BY <1>1, <1>2, <1>4 DEF Served, new

\* The ordinals of an index are reached one after the other.
LEMMA OracleReached ==
    ASSUME NEW log \in QueryLog, Reached(log), NEW t \in Domain, NEW u \in Answer
    PROVE  Reached(LogQuery(log, t, u))
<1> DEFINE new == LogQuery(log, t, u)
<1>1. /\ Len(log) \in Nat /\ DOMAIN log = 1 .. Len(log) /\ DOMAIN new = 1 .. Len(log) + 1
      /\ new[Len(log) + 1] = [q |-> t, a |-> u]
      /\ \A k \in 1 .. Len(log) : new[k] = log[k]
  BY LogQueryType
<1>2. /\ Ordinal(new, Len(log) + 1) = CountQ(log, t)
      /\ \A k \in 1 .. Len(log) : Ordinal(new, k) = Ordinal(log, k)
  BY OrdinalQuery
<1>3. \A d \in Domain : /\ CountQ(log, d) \in Nat
                        /\ CountQ(new, d) = CountQ(log, d) + (IF d = t THEN 1 ELSE 0)
  BY CountQuery
<1> HIDE DEF new
<1>4. SUFFICES ASSUME NEW d \in Domain, NEW n \in Nat, n < CountQ(new, d)
               PROVE  \E j \in DOMAIN new : new[j].q = d /\ Ordinal(new, j) = n
  BY DEF Reached, new
<1>5. CASE n < CountQ(log, d)
  <2>1. PICK j \in DOMAIN log : log[j].q = d /\ Ordinal(log, j) = n
    BY <1>5 DEF Reached
  <2>2. j \in DOMAIN new /\ new[j].q = d /\ Ordinal(new, j) = n
    BY <1>1, <1>2, <2>1
  <2>3. QED
    BY <2>2
<1>6. CASE ~(n < CountQ(log, d))
  <2>1. d = t /\ n = CountQ(log, t)
    BY <1>3, <1>4, <1>6
  <2>2. Len(log) + 1 \in DOMAIN new /\ new[Len(log) + 1].q = d
    BY <1>1, <2>1
  <2>3. QED
    BY <1>2, <2>1, <2>2
<1>7. QED
  BY <1>5, <1>6

-----------------------------------------------------------------------------
(* The invariant is inductive. *)

\* Past the generation of the seed nothing changes what the first run has asked but
\* the first run.
LEMMA FirstKept ==
    ASSUME IInv, UNCHANGED <<js, generated, first>>, pc # "generate", pc' # "generate",
           pc' \in {"first", "resample"} =>
               pc \in {"first", "resample"} /\ UNCHANGED <<seed, live>>
    PROVE  FirstInv'
<1>1. \A t \in Domain : SeedLength(t)' = SeedLength(t)
  BY DEF SeedLength
<1>2. \A t \in Domain : Len(generated'[t]) = SeedLength(t)'
  BY <1>1 DEF IInv, FirstInv
<1>3. Served(first', generated') /\ Reached(first')
  BY DEF IInv, FirstInv
<1>4. pc' \in {"first", "resample"} => Left(first', generated', seed', live')
  BY DEF IInv, FirstInv
<1>5. QED
  BY <1>2, <1>3, <1>4 DEF FirstInv

\* Before the second run there is nothing to say of it.
LEMMA SecondIdle ==
    ASSUME second' = <<>>, outcome' = "none", pc' # "second"
    PROVE  SecondInv'
<1>1. DOMAIN second' = {}
  OBVIOUS
<1>2. Determined' /\ Repeated'
  BY <1>1 DEF Determined, Repeated
<1>3. QED
  BY <1>2 DEF SecondInv, Started

LEMMA InvInit == Init => IInv
<1> SUFFICES ASSUME Init PROVE IInv
  OBVIOUS
<1>1. TypeOK
  BY TypeInit
<1>2. Reached(<<>>)
  BY <1>1, LeftStart DEF TypeOK
<1>3. FirstInv
  BY <1>2 DEF Init, FirstInv
<1>4. Determined /\ Repeated
  BY DEF Init, Determined, Repeated
<1>5. SecondInv
  BY <1>4 DEF Init, SecondInv, Started
<1>6. QED
  BY <1>1, <1>3, <1>5 DEF IInv

LEMMA FirstStep == IInv /\ [Next]_vars => FirstInv'
<1> SUFFICES ASSUME IInv, [Next]_vars PROVE FirstInv'
  OBVIOUS
<1>0. TypeOK
  BY DEF IInv
<1>1. CASE GenerateSeed
  <2>1. first' = <<>> /\ live' = NoCalls /\ seed' = generated' /\ pc' = "first" /\ js' = js
    BY <1>1 DEF GenerateSeed, IInv, FirstInv
  <2>2. generated' \in QuerySeed /\ \A t \in Domain : Len(generated'[t]) = SeedLength(t)
    BY <1>0, <1>1, GeneratedType
  <2>3. \A t \in Domain : SeedLength(t)' = SeedLength(t)
    BY <2>1 DEF SeedLength
  <2>4. Left(<<>>, generated', generated', NoCalls) /\ Served(<<>>, generated') /\ Reached(<<>>)
    BY <2>2, LeftStart
  <2>5. QED
    BY <2>1, <2>2, <2>3, <2>4 DEF FirstInv
<1>2. CASE FirstReturns
  BY <1>2, FirstKept DEF FirstReturns
<1>3. CASE SecondReturns
  BY <1>3, FirstKept DEF SecondReturns
<1>4. ASSUME NEW t \in Domain, NEW u \in Answer, FirstQuery(t, u) PROVE FirstInv'
  <2>1. /\ pc = "first" /\ pc' = pc /\ js' = js /\ generated' = generated
        /\ SeededOracle(t, u) /\ first' = LogQuery(first, t, u)
    BY <1>4 DEF FirstQuery
  <2>2. /\ Left(first, generated, seed, live) /\ Served(first, generated) /\ Reached(first)
        /\ \A d \in Domain : Len(generated[d]) = SeedLength(d)
        /\ first \in QueryLog /\ generated \in QuerySeed
    BY <1>0, <2>1 DEF IInv, FirstInv, TypeOK
  <2>3. Left(first', generated', seed', live')
    BY <1>0, <2>1, <2>2, OracleLeft
  <2>4. Served(first', generated')
    BY <1>0, <2>1, <2>2, OracleServed
  <2>5. Reached(first')
    BY <2>1, <2>2, OracleReached
  <2>6. \A d \in Domain : SeedLength(d)' = SeedLength(d)
    BY <2>1 DEF SeedLength
  <2>7. \A d \in Domain : Len(generated'[d]) = SeedLength(d)'
    BY <2>1, <2>2, <2>6
  <2>8. QED
    BY <2>1, <2>3, <2>4, <2>5, <2>7 DEF FirstInv
<1>5. ASSUME NEW t \in Domain, NEW u \in Answer, SecondQuery(t, u) PROVE FirstInv'
  BY <1>5, FirstKept DEF SecondQuery
<1>6. ASSUME NEW u \in Answer, Resample(u) PROVE FirstInv'
  BY <1>6, FirstKept DEF Resample
<1>7. CASE UNCHANGED vars
  <2>1. \A d \in Domain : SeedLength(d)' = SeedLength(d)
    BY <1>7 DEF SeedLength, vars
  <2>2. QED
    BY <1>7, <2>1 DEF vars, IInv, FirstInv
<1>8. QED
  BY <1>1, <1>2, <1>3, <1>4, <1>5, <1>6, <1>7 DEF Next

\* A query of the second run: the one the first run asked here, if they have received
\* the same answers, and from then on they have parted.
LEMMA SecondQueryStep ==
    ASSUME IInv, NEW t \in Domain, NEW u \in Answer, SecondQuery(t, u)
    PROVE  SecondInv'
<1>0. PICK last \in Nat : last = Len(second) + 1
  BY DEF IInv, TypeOK, QueryLog
<1>1. /\ pc = "second" /\ pc' = pc /\ outcome' = outcome /\ outcome = "none"
      /\ generated' = generated /\ first' = first /\ s' = s /\ forked' = forked
      /\ SeededOracle(t, u) /\ second' = LogQuery(second, t, u)
      /\ Repeated => Len(second) < Len(first) /\ t = first[last].q
  BY <1>0 DEF SecondQuery, IInv, SecondInv
<1>2. /\ TypeOK /\ second \in QueryLog /\ forked \in QuerySeed
      /\ Left(second, forked, seed, live) /\ Served(second, forked)
      /\ s \in 0 .. qb[i] /\ Forked /\ Determined /\ (Repeated \/ Parted)
  BY <1>1 DEF IInv, SecondInv, Started, TypeOK
<1>3. /\ Len(second) \in Nat /\ last = Len(second) + 1 /\ DOMAIN second = 1 .. Len(second)
      /\ DOMAIN second' = 1 .. last
      /\ second'[last] = [q |-> t, a |-> u]
      /\ \A k \in 1 .. Len(second) : second'[k] = second[k]
      /\ Len(first) \in Nat /\ DOMAIN first = 1 .. Len(first)
  <2>1. first \in QueryLog /\ Len(first) \in Nat /\ DOMAIN first = 1 .. Len(first)
    BY <1>2 DEF TypeOK, QueryLog
  <2>2. QED
    BY <1>0, <1>1, <1>2, <2>1, LogQueryType
<1>4. Left(second', forked', seed', live') /\ Served(second', forked')
  BY <1>1, <1>2, OracleLeft, OracleServed
<1>5. s' \in 0 .. qb[i] /\ Forked'
  BY <1>1, <1>2 DEF Forked
<1>6. \A k \in 1 .. last : SamePast(k)' <=> SamePast(k)
  BY <1>1, <1>3 DEF SamePast
<1>7. SamePast(last) <=> Repeated
  <2>1. ASSUME SamePast(last), NEW k \in 1 .. Len(second)
        PROVE  k \in DOMAIN first /\ second[k] = first[k]
    BY <1>2, <1>3, <2>1 DEF SamePast, Determined
  <2>2. ASSUME Repeated PROVE SamePast(last)
    BY <1>3, <2>2 DEF SamePast, Repeated
  <2>3. QED
    BY <1>3, <2>1, <2>2 DEF Repeated
<1>8. Repeated => last \in DOMAIN first
  BY <1>1, <1>3
<1>9. Determined'
  <2>1. SUFFICES ASSUME NEW k \in 1 .. last, SamePast(k)
                 PROVE  k \in DOMAIN first /\ second'[k].q = first[k].q
    BY <1>1, <1>3, <1>6 DEF Determined
  <2>2. CASE k = last
    BY <1>1, <1>3, <1>7, <1>8, <2>1, <2>2
  <2>3. CASE k # last
    <3>1. k \in 1 .. Len(second)
      BY <1>3, <2>3
    <3>2. QED
      BY <1>2, <1>3, <2>1, <3>1 DEF Determined
  <2>4. QED
    BY <2>2, <2>3
<1>10. (Repeated \/ Parted)'
  <2>1. CASE Parted
    <3>1. PICK k \in DOMAIN first \cap DOMAIN second : SamePast(k) /\ second[k] # first[k]
      BY <2>1 DEF Parted
    <3>2. k \in 1 .. last /\ k \in 1 .. Len(second)
      BY <1>3, <3>1
    <3>3. /\ k \in DOMAIN first' \cap DOMAIN second'
          /\ SamePast(k)' /\ second'[k] # first'[k]
      BY <1>1, <1>3, <1>6, <3>1, <3>2
    <3>4. QED
      BY <3>3 DEF Parted
  <2>2. CASE Repeated /\ second'[last] = first[last]
    <3>1. ASSUME NEW k \in 1 .. last
          PROVE  k \in DOMAIN first' /\ second'[k] = first'[k]
      <4>1. k = last \/ k \in 1 .. Len(second)
        BY <1>3
      <4>2. QED
        BY <1>1, <1>3, <1>8, <2>2, <4>1 DEF Repeated
    <3>2. QED
      BY <1>3, <3>1 DEF Repeated
  <2>3. CASE Repeated /\ second'[last] # first[last]
    <3>1. last \in 1 .. last
      BY <1>3
    <3>2. last \in DOMAIN first' \cap DOMAIN second' /\ SamePast(last)'
      BY <1>1, <1>3, <1>6, <1>7, <1>8, <2>3, <3>1
    <3>3. QED
      BY <1>1, <2>3, <3>2 DEF Parted
  <2>4. QED
    BY <1>2, <2>1, <2>2, <2>3
<1>11. QED
  BY <1>1, <1>4, <1>5, <1>9, <1>10 DEF SecondInv

LEMMA SecondStep == IInv /\ [Next]_vars => SecondInv'
<1> SUFFICES ASSUME IInv, [Next]_vars PROVE SecondInv'
  OBVIOUS
<1>0. TypeOK /\ SecondInv
  BY DEF IInv
<1>1. CASE GenerateSeed
  BY <1>0, <1>1, SecondIdle DEF GenerateSeed, SecondInv
<1>2. CASE FirstReturns
  BY <1>0, <1>2, SecondIdle DEF FirstReturns, SecondInv
<1>3. CASE SecondReturns
  <2>1. /\ pc = "second" /\ pc' = "done" /\ second' = second /\ s' = s
        /\ generated' = generated /\ forked' = forked /\ first' = first
        /\ Repeated => Len(second) = Len(first)
    BY <1>3 DEF SecondReturns
  <2>2. s \in 0 .. qb[i] /\ Forked /\ Served(second, forked)
    BY <1>0, <2>1 DEF SecondInv, Started
  <2>3. Forked' /\ (Repeated' <=> Repeated) /\ (Determined' <=> Determined) /\ (Parted' <=> Parted)
    BY <2>1, <2>2 DEF Forked, Repeated, Determined, Parted, SamePast
  <2>4. QED
    BY <1>0, <2>1, <2>2, <2>3 DEF SecondInv
<1>4. ASSUME NEW t \in Domain, NEW u \in Answer, FirstQuery(t, u) PROVE SecondInv'
  BY <1>0, <1>4, SecondIdle DEF FirstQuery, SecondInv
<1>5. ASSUME NEW t \in Domain, NEW u \in Answer, SecondQuery(t, u) PROVE SecondInv'
  BY <1>5, SecondQueryStep
<1>6. ASSUME NEW u \in Answer, Resample(u) PROVE SecondInv'
  <2>1. /\ pc = "resample" /\ second' = <<>> /\ outcome' = "none"
        /\ generated' = generated /\ first' = first /\ s' = s
    BY <1>0, <1>6 DEF Resample, SecondInv
  <2>2. CASE Collides(u)
    BY <1>6, <2>1, <2>2, SecondIdle DEF Resample
  <2>3. CASE ~Collides(u)
    <3>1. pc' = "second" /\ forked' = ForkedSeed(u) /\ seed' = forked' /\ live' = NoCalls
      BY <1>6, <2>3 DEF Resample
    <3>2. s \in 0 .. qb[i] /\ s \in Nat /\ generated[i] \in Seq(Answer)
      BY <1>0, <2>1 DEF TypeOK, QuerySeed
    <3>3. LET n == IF s < Len(generated[i]) THEN s ELSE Len(generated[i])
          IN /\ forked' \in QuerySeed
             /\ \A t \in Domain \ {i} : forked'[t] = generated[t]
             /\ Len(forked'[i]) = n + 1
             /\ \A m \in 1 .. n : forked'[i][m] = generated[i][m]
             /\ forked'[i][n + 1] = u
      BY <1>0, <3>1, <3>2, ForkedFacts
    <3>4. s < Len(generated[i]) => generated[i][s + 1] # u
      BY <2>3, <3>2 DEF Collides
    <3>5. Forked'
      BY <2>1, <3>3, <3>4 DEF Forked
    <3>6. Left(second', forked', seed', live') /\ Served(second', forked')
      BY <2>1, <3>1, <3>3, LeftStart
    <3>7. DOMAIN second' = {}
      BY <2>1
    <3>8. Determined' /\ Repeated'
      BY <3>7 DEF Determined, Repeated
    <3>9. QED
      BY <2>1, <3>1, <3>2, <3>5, <3>6, <3>8 DEF SecondInv
  <2>4. QED
    BY <2>2, <2>3
<1>7. CASE UNCHANGED vars
  <2>1. /\ Forked' <=> Forked
        /\ Repeated' <=> Repeated
        /\ Determined' <=> Determined
        /\ Parted' <=> Parted
        /\ Started' <=> Started
    BY <1>7 DEF vars, Forked, Repeated, Determined, Parted, SamePast, Started
  <2>2. QED
    BY <1>0, <1>7, <2>1 DEF vars, SecondInv
<1>8. QED
  BY <1>1, <1>2, <1>3, <1>4, <1>5, <1>6, <1>7 DEF Next

LEMMA InvHolds == Spec => []IInv
<1>1. IInv /\ [Next]_vars => IInv'
  BY TypeStep, FirstStep, SecondStep DEF IInv
<1>2. QED
  BY InvInit, <1>1, PTL DEF Spec

-----------------------------------------------------------------------------
(* What follows from it. *)

\* Two entries after the same answers have the same ordinal.
LEMMA SameOrdinal ==
    ASSUME NEW k \in Nat, SamePast(k), second[k].q = first[k].q
    PROVE  Ordinal(second, k) = Ordinal(first, k)
<1>1. \A n \in 1 .. k - 1 : second[n] = first[n]
  BY DEF SamePast
<1>2. {n \in 1 .. k - 1 : second[n].q = second[k].q} = {n \in 1 .. k - 1 : first[n].q = first[k].q}
  BY <1>1
<1>3. QED
  BY <1>2 DEF Ordinal

\* A seed that covers the budgets has an answer for each query of a budget.
LEMMA CoveredLength ==
    ASSUME IInv, Covers, pc # "generate", NEW t \in Domain
    PROVE  qb[t] <= Len(generated[t])
<1> DEFINE places == {k \in DOMAIN js : js[k] = t}
<1>1. js \in Seq(Domain) /\ Len(js) \in Nat /\ DOMAIN js = 1 .. Len(js)
  BY DEF IInv, TypeOK
<1>2. places \in SUBSET (1 .. Len(js))
  BY <1>1
<1>3. IsFiniteSet(places) /\ Cardinality(places) \in Nat
  BY <1>1, <1>2, PositionsFinite
<1>4. Len(generated[t]) = qb[t] * Cardinality(places)
  BY DEF IInv, FirstInv, SeedLength
<1>5. qb[t] > 0 => places # {}
  BY DEF Covers
<1> HIDE DEF places
<1>6. qb[t] \in Nat
  OBVIOUS
<1>7. ASSUME NEW b \in Nat, NEW c \in Nat, b > 0 => c > 0
      PROVE  b <= b * c
  <2>1. CASE b = 0
    BY <2>1
  <2>2. CASE c > 0
    <3>1. c - 1 \in Nat /\ b * (c - 1) \in Nat
      BY <2>2
    <3>2. b * c = b * (c - 1) + b
      BY <2>2
    <3>3. QED
      BY <3>1, <3>2
  <2>3. QED
    BY <1>7, <2>1, <2>2
<1>8. qb[t] > 0 => Cardinality(places) > 0
  BY <1>3, <1>5, FS_EmptySet
<1>9. QED
  BY <1>3, <1>4, <1>6, <1>7, <1>8

\* Answers at a position of the generated seed, in the two runs.
LEMMA SeedAnswers ==
    ASSUME IInv, NEW k \in DOMAIN first, NEW l \in DOMAIN second,
           second[l].q = first[k].q, Ordinal(second, l) = Ordinal(first, k),
           Ordinal(first, k) < Len(generated[first[k].q])
    PROVE  LET t == first[k].q
               n == Ordinal(first, k)
           IN /\ t # i \/ n < s => second[l].a = first[k].a
              /\ t = i /\ n = s => second[l].a # first[k].a
<1> DEFINE t == first[k].q
           n == Ordinal(first, k)
<1>1. /\ TypeOK /\ first \in QueryLog /\ second # <<>>
      /\ s \in 0 .. qb[i] /\ Forked /\ Served(second, forked)
  BY DEF IInv, SecondInv, Started, TypeOK
<1>2. Served(first, generated)
  BY <1>1 DEF IInv, FirstInv, SecondInv
<1>3. t \in Domain /\ n \in Nat /\ s \in Nat
  BY <1>1, EntryType, OrdinalBounds
<1>4. generated[t] \in Seq(Answer) /\ Len(generated[t]) \in Nat /\ Len(generated[i]) \in Nat
  BY <1>1, <1>3 DEF TypeOK, QuerySeed
<1>5. first[k].a = generated[t][n + 1]
  BY <1>2 DEF Served
<1>6. n < Len(forked[t]) => second[l].a = forked[t][n + 1]
  BY <1>1 DEF Served
<1>0. n < Len(generated[t]) /\ t = first[k].q /\ n = Ordinal(first, k)
  OBVIOUS
<1> HIDE DEF t, n
<1>7. CASE t # i
  <2>1. forked[t] = generated[t]
    BY <1>1, <1>3, <1>7 DEF Forked
  <2>2. QED
    BY <1>0, <1>5, <1>6, <1>7, <2>1
<1>8. CASE t = i
  <2>1. n < s => n < Len(forked[t]) /\ forked[t][n + 1] = generated[t][n + 1]
    BY <1>0, <1>1, <1>3, <1>4, <1>8 DEF Forked
  <2>2. n = s => n < Len(forked[t]) /\ forked[t][n + 1] # generated[t][n + 1]
    BY <1>0, <1>1, <1>3, <1>4, <1>8 DEF Forked
  <2>3. QED
    BY <1>0, <1>5, <1>6, <1>8, <2>1, <2>2
<1>9. QED
  BY <1>7, <1>8

LEMMA InvDiverges == IInv => DivergesAtFork
<1> SUFFICES ASSUME IInv PROVE DivergesAtFork
  OBVIOUS
<1>1. TypeOK /\ first \in QueryLog /\ DOMAIN first = 1 .. Len(first) /\ Len(first) \in Nat
  BY DEF IInv, TypeOK, QueryLog
<1>2. second \in QueryLog /\ DOMAIN second = 1 .. Len(second) /\ Len(second) \in Nat
  BY DEF IInv, TypeOK, QueryLog
\* the same entry at the fork point
<1>3. ASSUME NEW j \in DOMAIN first \cap DOMAIN second, SamePast(j),
             first[j].q = i, Ordinal(first, j) = s, s < Len(generated[i])
      PROVE  second[j].a # first[j].a
  <2>1. second[j].q = first[j].q
    BY <1>3 DEF IInv, SecondInv, Determined
  <2>2. Ordinal(second, j) = Ordinal(first, j)
    BY <1>1, <1>3, <2>1, SameOrdinal
  <2>3. QED
    BY <1>3, <2>1, <2>2, SeedAnswers
<1>4. SUFFICES ASSUME NEW k \in DOMAIN first \cap DOMAIN second, SamePast(k)
               PROVE  /\ second[k].q = first[k].q
                      /\ Ordinal(first, k) < Len(generated[first[k].q]) =>
                            (second[k].a = first[k].a <=> first[k].q # i \/ Ordinal(first, k) # s)
  BY DEF DivergesAtFork
<1>5. second[k].q = first[k].q /\ Ordinal(second, k) = Ordinal(first, k)
  <2>1. second[k].q = first[k].q
    BY <1>4 DEF IInv, SecondInv, Determined
  <2>2. QED
    BY <1>1, <1>4, <2>1, SameOrdinal
<1>6. ASSUME Ordinal(first, k) < Len(generated[first[k].q])
      PROVE  second[k].a = first[k].a <=> first[k].q # i \/ Ordinal(first, k) # s
  <2>1. CASE first[k].q # i \/ Ordinal(first, k) < s
    <3>1. second[k].a = first[k].a
      BY <1>5, <1>6, <2>1, SeedAnswers
    <3>2. Ordinal(first, k) \in Nat /\ (first[k].q = i => Ordinal(first, k) # s)
      BY <1>1, <2>1, OrdinalBounds
    <3>3. QED
      BY <3>1, <3>2
  <2>2. CASE first[k].q = i /\ Ordinal(first, k) = s
    BY <1>5, <1>6, <2>2, SeedAnswers
  <2>3. CASE first[k].q = i /\ s < Ordinal(first, k)
    <3>1. second # <<>> /\ s \in Nat /\ i \in Domain /\ Ordinal(first, k) \in Nat
      <4>1. second # <<>>
        BY <1>2
      <4>2. s \in 0 .. qb[i]
        BY <4>1 DEF IInv, SecondInv, Started
      <4>3. QED
        BY <1>1, <4>1, <4>2, OrdinalBounds
    <3>2. s < CountQ(first, i) /\ CountQ(first, i) \in Nat
      <4>1. CountQ(first, i) \in Nat
        BY <1>1, <3>1, CountQuery
      <4>2. Ordinal(first, k) < CountQ(first, i)
        BY <1>1, <2>3, OrdinalBounds
      <4>3. QED
        BY <2>3, <3>1, <4>1, <4>2
    <3>3. PICK j \in DOMAIN first : first[j].q = i /\ Ordinal(first, j) = s
      BY <3>1, <3>2 DEF IInv, FirstInv, Reached
    <3>4. j < k
      BY <1>1, <2>3, <3>3, OrdinalBounds
    <3>5. /\ j \in DOMAIN second /\ j \in 1 .. k - 1
          /\ SamePast(j) /\ second[j] = first[j]
      BY <1>1, <1>2, <1>4, <3>4 DEF SamePast
    <3>6. s < Len(generated[i])
      <4>1. Len(generated[i]) \in Nat
        BY <1>1 DEF TypeOK, QuerySeed
      <4>2. QED
        BY <1>6, <2>3, <3>1, <4>1
    <3>7. QED
      BY <1>3, <3>3, <3>5, <3>6
  <2>4. Ordinal(first, k) \in Nat /\ s \in Nat
    <3>1. second # <<>>
      BY <1>2
    <3>2. s \in 0 .. qb[i]
      BY <3>1 DEF IInv, SecondInv, Started
    <3>3. QED
      BY <1>1, <3>2, OrdinalBounds
  <2>5. QED
    BY <2>1, <2>2, <2>3, <2>4
<1>7. QED
  BY <1>5, <1>6

\* The two runs give the same answer to the same query, from the seed, for every
\* computation and seed.
THEOREM SharedAnswersHolds == Spec => []SharedAnswers
<1>1. IInv => SharedAnswers
  BY SeedAnswers DEF SharedAnswers
<1>2. QED
  BY <1>1, InvHolds, PTL

\* After the same answers the two runs of the computation differ at the fork point and
\* nowhere else.
THEOREM DivergesAtForkHolds == Spec => []DivergesAtFork
  BY InvDiverges, InvHolds, PTL

LEMMA InvSuccess == IInv => SuccessIsFork
<1> SUFFICES ASSUME IInv, outcome = "some", Covers, WithinBudget(first)
             PROVE  IF CountQ(first, i) > s
                    THEN \E k \in DOMAIN first \cap DOMAIN second :
                            /\ SamePast(k) /\ first[k].q = i /\ Ordinal(first, k) = s
                            /\ second[k].q = i /\ second[k].a # first[k].a
                    ELSE second = first
  BY DEF SuccessIsFork
<1>1. /\ TypeOK /\ first \in QueryLog /\ DOMAIN first = 1 .. Len(first) /\ Len(first) \in Nat
      /\ second \in QueryLog /\ DOMAIN second = 1 .. Len(second) /\ Len(second) \in Nat
  BY DEF IInv, TypeOK, QueryLog
<1>2. /\ pc = "done" /\ s \in 0 .. qb[i] /\ s \in Nat
      /\ Repeated => Len(second) = Len(first)
      /\ Repeated \/ Parted
  <2>1. pc = "done" /\ s \in 0 .. qb[i]
    BY <1>1 DEF TypeOK
  <2>2. s \in Nat
    BY <2>1
  <2>3. (Repeated => Len(second) = Len(first)) /\ (Repeated \/ Parted)
    BY DEF IInv, SecondInv
  <2>4. QED
    BY <2>1, <2>2, <2>3
<1>3. DivergesAtFork
  BY InvDiverges
<1>4. \A t \in Domain : /\ CountQ(first, t) \in Nat /\ Len(generated[t]) \in Nat
                        /\ CountQ(first, t) <= Len(generated[t])
  <2> SUFFICES ASSUME NEW t \in Domain
               PROVE  /\ CountQ(first, t) \in Nat /\ Len(generated[t]) \in Nat
                      /\ CountQ(first, t) <= Len(generated[t])
    OBVIOUS
  <2>1. qb[t] <= Len(generated[t])
    BY <1>2, CoveredLength
  <2>2. CountQ(first, t) <= qb[t] /\ qb[t] \in Nat
    BY DEF WithinBudget
  <2>3. CountQ(first, t) \in Nat
    BY <1>1, CountQuery
  <2>4. Len(generated[t]) \in Nat
    BY <1>1 DEF TypeOK, QuerySeed
  <2>5. QED
    BY <2>1, <2>2, <2>3, <2>4
\* where the runs part, the first one asks the query at the fork point
<1>5. ASSUME NEW k \in DOMAIN first \cap DOMAIN second, SamePast(k), second[k] # first[k]
      PROVE  /\ first[k].q = i /\ Ordinal(first, k) = s /\ s < CountQ(first, i)
             /\ second[k].q = i /\ second[k].a # first[k].a
  <2>1. second[k].q = first[k].q
    BY <1>3, <1>5 DEF DivergesAtFork
  <2>2. second[k] \in [q : Domain, a : Answer] /\ first[k] \in [q : Domain, a : Answer]
    BY <1>1, EntryType
  <2>3. second[k].a # first[k].a
    BY <1>5, <2>1, <2>2
  <2>4. first[k].q \in Domain /\ Ordinal(first, k) \in Nat /\ Ordinal(first, k) < CountQ(first, first[k].q)
    BY <1>1, EntryType, OrdinalBounds
  <2>5. Ordinal(first, k) < Len(generated[first[k].q])
    BY <1>4, <2>4
  <2>6. first[k].q = i /\ Ordinal(first, k) = s
    BY <1>3, <1>5, <2>3, <2>5 DEF DivergesAtFork
  <2>7. QED
    BY <2>1, <2>3, <2>4, <2>6
<1>6. CASE Parted
  <2>1. PICK k \in DOMAIN first \cap DOMAIN second : SamePast(k) /\ second[k] # first[k]
    BY <1>6 DEF Parted
  <2>2. /\ first[k].q = i /\ Ordinal(first, k) = s /\ s < CountQ(first, i)
        /\ second[k].q = i /\ second[k].a # first[k].a
    BY <1>5, <2>1
  <2>3. CountQ(first, i) > s
    BY <1>2, <1>4, <2>2
  <2>4. QED
    BY <2>1, <2>2, <2>3
<1>7. CASE Repeated
  <2>1. /\ Len(second) = Len(first)
        /\ \A k \in 1 .. Len(second) : second[k] = first[k]
    BY <1>1, <1>2, <1>7 DEF Repeated
  <2>2. CASE CountQ(first, i) > s
    <3>0. i \in Domain /\ s < CountQ(first, i)
      BY <1>2, <1>4, <2>2
    <3>1. PICK j \in DOMAIN first : first[j].q = i /\ Ordinal(first, j) = s
      BY <1>2, <3>0 DEF IInv, FirstInv, Reached
    <3>2. j \in DOMAIN first \cap DOMAIN second /\ SamePast(j) /\ second[j] = first[j]
      BY <1>1, <2>1, <3>1 DEF SamePast
    <3>3. s < Len(generated[i])
      BY <1>2, <1>4, <3>0
    <3>4. QED
      BY <1>3, <3>1, <3>2, <3>3 DEF DivergesAtFork
  <2>3. CASE ~(CountQ(first, i) > s)
    <3>1. second = first
      BY <1>1, <2>1 DEF QueryLog
    <3>2. QED
      BY <2>3, <3>1
  <2>4. QED
    BY <2>2, <2>3
<1>8. QED
  BY <1>2, <1>6, <1>7

\* A fork that succeeds is one: the two runs part at the query cf selected, or cf has
\* selected a query that was not asked, and they are the same.
THEOREM SuccessIsForkHolds == Spec => []SuccessIsFork
  BY InvSuccess, InvHolds, PTL

LEMMA InvLive == IInv => LiveAfterFork
<1> SUFFICES ASSUME IInv, Covers PROVE LiveAfterFork
  BY DEF LiveAfterFork
<1>1. TypeOK /\ first \in QueryLog /\ second \in QueryLog
  BY DEF IInv, TypeOK
<1>2. \A t \in Domain : /\ qb[t] \in Nat /\ Len(generated[t]) \in Nat
                        /\ CountQ(first, t) \in Nat /\ CountQ(second, t) \in Nat
  <2>1. generated \in [Domain -> Seq(Answer)]
    BY <1>1 DEF TypeOK, QuerySeed
  <2>2. \A t \in Domain : CountQ(first, t) \in Nat /\ CountQ(second, t) \in Nat
    BY <1>1, CountQuery
  <2>3. QED
    BY <2>1, <2>2
<1>3. ASSUME pc \in {"first", "resample"}, WithinBudget(first) PROVE live = NoCalls
  <2>1. ASSUME NEW t \in Domain PROVE live[t] = 0
    <3>1. qb[t] <= Len(generated[t]) /\ CountQ(first, t) <= qb[t]
      BY <1>3, CoveredLength DEF WithinBudget
    <3>2. CountQ(first, t) <= Len(generated[t])
      BY <1>2, <3>1
    <3>3. QED
      BY <1>3, <3>2 DEF IInv, FirstInv, Left
  <2>2. live \in [Domain -> Nat]
    BY <1>1 DEF TypeOK
  <2>3. QED
    BY <2>1, <2>2 DEF NoCalls
<1>4. ASSUME pc = "second", WithinBudget(second), NEW t \in Domain, live[t] # 0
      PROVE  t = i /\ live[t] + s + 1 <= qb[i]
  <2>1. /\ s \in 0 .. qb[i] /\ s \in Nat /\ Forked /\ Left(second, forked, seed, live)
        /\ forked[t] \in Seq(Answer) /\ Len(forked[t]) \in Nat
    <3>1. s \in 0 .. qb[i] /\ Forked /\ Left(second, forked, seed, live)
      BY <1>4 DEF IInv, SecondInv, Started
    <3>2. forked \in [Domain -> Seq(Answer)]
      BY <1>1 DEF TypeOK, QuerySeed
    <3>3. QED
      BY <3>1, <3>2
  <2>2. qb[t] <= Len(generated[t]) /\ CountQ(second, t) <= qb[t]
    BY <1>4, CoveredLength DEF WithinBudget
  <2>3. CountQ(second, t) > Len(forked[t]) /\ live[t] = CountQ(second, t) - Len(forked[t])
    BY <1>2, <1>4, <2>1 DEF Left
  <2>4. CASE t # i
    <3>1. forked[t] = generated[t]
      BY <2>1, <2>4 DEF Forked
    <3>2. QED
      BY <1>2, <2>2, <2>3, <3>1
  <2>5. CASE t = i
    <3>1. s <= Len(generated[i])
      BY <1>2, <2>1, <2>2, <2>5
    <3>2. Len(forked[i]) = s + 1
      BY <1>2, <2>1, <3>1 DEF Forked
    <3>3. QED
      BY <1>2, <2>1, <2>2, <2>3, <2>5, <3>2
  <2>6. QED
    BY <2>4, <2>5
<1>5. pc \in {"first", "resample"} /\ WithinBudget(first) => live = NoCalls
  BY <1>3
<1>6. pc = "second" /\ WithinBudget(second) =>
          \A t \in Domain : live[t] # 0 => t = i /\ live[t] + s + 1 <= qb[i]
  BY <1>4
<1>7. QED
  BY <1>5, <1>6 DEF LiveAfterFork

\* A computation within its budget asks nothing live in its first run, and in the
\* second only behind the fork point.
THEOREM LiveAfterForkHolds == Spec => []LiveAfterFork
  BY InvLive, InvHolds, PTL
=============================================================================
