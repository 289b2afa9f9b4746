------------------------ MODULE OracleHandlerProofs ------------------------
(***************************************************************************)
(* The invariants of CachedOracle and of ProgrammedPair, two systems over  *)
(* the same caches and logs, and that the former implements RandomFunction *)
(* (for every domain, answer set, seed, budget, policy and initial cache,  *)
(* and computations of any length).                                        *)
(***************************************************************************)
EXTENDS CachedOracle, ProgrammedPair, QueryTrackingProofs, SequenceTheorems

USE AnswerAssumption, CachedOracleAssumption, ProgrammedPairAssumption

\* A non-empty list of answers has an answer at its head and a list behind it.
LEMMA PopType ==
    ASSUME NEW s \in Seq(Answer), s # <<>>
    PROVE  Head(s) \in Answer /\ Tail(s) \in Seq(Answer)
  OBVIOUS

\* What every forwarding action does to the layers it shares.
LEMMA ForwardType ==
    ASSUME TypeOK, NEW t \in Domain, NEW u \in Answer, Forward(t, u)
    PROVE  /\ budget' \in [Domain -> Nat]
           /\ log' \in QueryLog /\ view' \in QueryLog
           /\ seed0' \in Seeds /\ budget0' \in Budgets
<1>1. budget' \in [Domain -> Nat]
  <2>1. budget[t] \in Nat /\ budget[t] - 1 \in Nat
    BY DEF TypeOK, Forward
  <2>2. QED
    BY <2>1 DEF TypeOK, Forward
<1>2. log' \in QueryLog /\ view' \in QueryLog
  BY LogQueryType DEF TypeOK, Forward
<1>3. QED
  BY <1>1, <1>2 DEF TypeOK, Forward

\* Every layer of the stack keeps its type, in either order of the layers.
THEOREM TypeCorrect == Spec => []TypeOK
<1>1. Init => TypeOK
  BY DEF Init, TypeOK, EmptyCache, QueryCache, QueryLog
<1>2. TypeOK /\ [Next]_vars => TypeOK'
  <2> SUFFICES ASSUME TypeOK, [Next]_vars PROVE TypeOK'
    OBVIOUS
  <2>1. ASSUME NEW t \in Domain, Denied(t) PROVE TypeOK'
    BY <2>1, LogQueryType DEF TypeOK, Denied
  <2>2. ASSUME NEW t \in Domain, FromCache(t) PROVE TypeOK'
    <3>1. cache[t] \in Answer
      BY <2>2 DEF TypeOK, FromCache, QueryCache
    <3>2. QED
      BY <2>2, <3>1, ForwardType DEF TypeOK, FromCache
  <2>3. ASSUME NEW t \in Domain, FromSeed(t) PROVE TypeOK'
    <3>1. seed[t] \in Seq(Answer) /\ seed[t] # <<>>
      BY <2>3 DEF TypeOK, FromSeed, QuerySeed
    <3>2. Head(seed[t]) \in Answer /\ Tail(seed[t]) \in Seq(Answer)
      BY <3>1, PopType
    <3>3. seed' \in QuerySeed
      BY <2>3, <3>2 DEF TypeOK, FromSeed, QuerySeed, PopSeed
    <3>4. cache' \in QueryCache
      BY <2>3, <3>2 DEF TypeOK, FromSeed, QueryCache, CacheQuery
    <3>5. Forward(t, Head(seed[t])) /\ UNCHANGED calls
      BY <2>3 DEF FromSeed
    <3>6. QED
      BY <3>2, <3>3, <3>4, <3>5, ForwardType DEF TypeOK
  <2>4. ASSUME NEW t \in Domain, NEW u \in Answer, Fresh(t, u) PROVE TypeOK'
    <3>1. cache' \in QueryCache /\ calls' \in [Domain -> Nat] /\ seed' \in QuerySeed
      BY <2>4 DEF TypeOK, Fresh, QueryCache, CacheQuery
    <3>2. QED
      BY <2>4, <3>1, ForwardType DEF TypeOK, Fresh
  <2>5. CASE UNCHANGED vars
    BY <2>5 DEF TypeOK, vars
  <2>6. QED
    BY <2>1, <2>2, <2>3, <2>4, <2>5 DEF Next
<1>3. QED
  BY <1>1, <1>2, PTL DEF Spec

-----------------------------------------------------------------------------
(* The budget, in either order of the layers. *)

\* The queries that reached the layers below are those that the budget paid for, and
\* a query more than the budget is the only reason for the view to differ.
BudgetInv ==
    /\ \A t \in Domain :
          /\ budget[t] + CountQ(log, t) = budget0[t]
          /\ IF budget[t] > 0 THEN CountQ(view, t) = CountQ(log, t)
                              ELSE CountQ(view, t) >= CountQ(log, t)
    /\ view = log \/ \E t \in Domain : CountQ(view, t) > budget0[t]

\* A denied query is counted in the view alone.
LEMMA DeniedBudget ==
    ASSUME TypeOK, BudgetInv, NEW t \in Domain, Denied(t)
    PROVE  BudgetInv'
<1>1. /\ view' = LogQuery(view, t, Default) /\ budget[t] = 0
      /\ UNCHANGED <<log, budget, budget0>>
  BY DEF Denied
<1>2. \A d \in Domain :
         /\ CountQ(view, d) \in Nat /\ CountQ(log, d) \in Nat
         /\ CountQ(view', d) = CountQ(view, d) + (IF d = t THEN 1 ELSE 0)
  BY <1>1, CountQuery DEF TypeOK
<1>3. CountQ(view', t) > budget0[t]
  BY <1>1, <1>2 DEF BudgetInv, TypeOK
<1>4. \A d \in Domain : budget[d] \in Nat /\ CountQ(log', d) = CountQ(log, d)
  BY <1>1 DEF TypeOK
<1>5. \A d \in Domain :
         IF budget[d] > 0 THEN CountQ(view', d) = CountQ(log, d)
                          ELSE CountQ(view', d) >= CountQ(log, d)
  BY <1>1, <1>2, <1>4 DEF BudgetInv
<1>6. QED
  BY <1>1, <1>3, <1>4, <1>5 DEF BudgetInv

\* A forwarded query is counted on both sides.
LEMMA ForwardBudget ==
    ASSUME TypeOK, BudgetInv, NEW t \in Domain, NEW u \in Answer, Forward(t, u)
    PROVE  BudgetInv'
<1>1. /\ view' = LogQuery(view, t, u) /\ log' = LogQuery(log, t, u)
      /\ budget' = [budget EXCEPT ![t] = @ - 1] /\ budget[t] > 0 /\ budget0' = budget0
  BY DEF Forward
<1>2. \A d \in Domain :
         /\ CountQ(view, d) \in Nat /\ CountQ(log, d) \in Nat
         /\ CountQ(view', d) = CountQ(view, d) + (IF d = t THEN 1 ELSE 0)
         /\ CountQ(log', d) = CountQ(log, d) + (IF d = t THEN 1 ELSE 0)
  BY <1>1, CountQuery DEF TypeOK
<1>3. \A d \in Domain :
         budget[d] \in Nat /\ budget'[d] = budget[d] - (IF d = t THEN 1 ELSE 0)
  BY <1>1 DEF TypeOK
<1>4. \A d \in Domain :
         /\ budget'[d] + CountQ(log', d) = budget0[d]
         /\ IF budget'[d] > 0 THEN CountQ(view', d) = CountQ(log', d)
                              ELSE CountQ(view', d) >= CountQ(log', d)
  BY <1>1, <1>2, <1>3 DEF BudgetInv
<1>5. CASE view = log
  BY <1>1, <1>4, <1>5 DEF BudgetInv
<1>6. CASE view # log
  <2>1. PICK d \in Domain : CountQ(view, d) > budget0[d]
    BY <1>6 DEF BudgetInv
  <2>2. budget0[d] \in Nat
    BY DEF TypeOK
  <2>3. CountQ(view', d) > budget0[d]
    BY <1>2, <2>1, <2>2
  <2>4. QED
    BY <1>1, <1>4, <2>3 DEF BudgetInv
<1>7. QED
  BY <1>5, <1>6

LEMMA BudgetInvariant == Spec => []BudgetInv
<1>1. Init => BudgetInv
  <2> SUFFICES ASSUME Init PROVE BudgetInv
    OBVIOUS
  <2>1. \A t \in Domain : CountQ(log, t) = 0 /\ CountQ(view, t) = 0 /\ budget[t] \in Nat
    BY CountEmpty DEF Init
  <2>2. QED
    BY <2>1 DEF Init, BudgetInv
<1>2. TypeOK /\ BudgetInv /\ [Next]_vars => BudgetInv'
  <2> SUFFICES ASSUME TypeOK, BudgetInv, [Next]_vars PROVE BudgetInv'
    OBVIOUS
  <2>1. ASSUME NEW t \in Domain, Denied(t) PROVE BudgetInv'
    BY <2>1, DeniedBudget
  <2>2. ASSUME NEW t \in Domain, FromCache(t) PROVE BudgetInv'
    BY <2>2, ForwardBudget DEF FromCache, TypeOK, QueryCache
  <2>3. ASSUME NEW t \in Domain, FromSeed(t) PROVE BudgetInv'
    BY <2>3, ForwardBudget, PopType DEF FromSeed, TypeOK, QuerySeed
  <2>4. ASSUME NEW t \in Domain, NEW u \in Answer, Fresh(t, u) PROVE BudgetInv'
    BY <2>4, ForwardBudget DEF Fresh
  <2>5. CASE UNCHANGED vars
    BY <2>5 DEF BudgetInv, vars
  <2>6. QED
    BY <2>1, <2>2, <2>3, <2>4, <2>5 DEF Next
<1>3. QED
  BY <1>1, <1>2, TypeCorrect, PTL DEF Spec

\* Exactly the first budget0[t] queries at t reach the layers below, in either order of
\* the layers and for every budget.
THEOREM BudgetAccountingHolds == Spec => []BudgetAccounting
<1>1. TypeOK /\ BudgetInv => BudgetAccounting
  <2> SUFFICES ASSUME TypeOK, BudgetInv, NEW t \in Domain
               PROVE  /\ CountQ(log, t) = IF CountQ(view, t) < budget0[t] THEN CountQ(view, t)
                                                                         ELSE budget0[t]
                      /\ budget[t] + CountQ(log, t) = budget0[t]
    BY DEF BudgetAccounting
  <2>1. CountQ(view, t) \in Nat /\ CountQ(log, t) \in Nat
    BY CountQuery DEF TypeOK
  <2>2. budget[t] \in Nat /\ budget0[t] \in Nat
    BY DEF TypeOK
  <2>3. QED
    BY <2>1, <2>2 DEF BudgetInv
<1>2. QED
  BY <1>1, TypeCorrect, BudgetInvariant, PTL

\* A computation within its budget receives the answers of the unenforced stack.
THEOREM EnforcementTransparentHolds == Spec => []EnforcementTransparent
<1>1. TypeOK /\ BudgetInv => EnforcementTransparent
  <2> SUFFICES ASSUME TypeOK, BudgetInv, \A t \in Domain : CountQ(view, t) <= budget0[t]
               PROVE  view = log
    BY DEF EnforcementTransparent
  <2>1. \A t \in Domain : CountQ(view, t) \in Nat /\ budget0[t] \in Nat
    BY CountQuery DEF TypeOK
  <2>2. QED
    BY <2>1 DEF BudgetInv
<1>2. QED
  BY <1>1, TypeCorrect, BudgetInvariant, PTL

-----------------------------------------------------------------------------
(* so.withPregen.withCaching: the cache is the outer layer. *)

\* A forwarded answer that the new cache holds keeps the cache and the log
\* in step, provided the cache did not change anywhere else.
LEMMA ForwardMatches ==
    ASSUME TypeOK, CacheMatchesLog, NEW t \in Domain, NEW u \in Answer,
           Forward(t, u), cache[t] \in {u, NoAnswer},
           cache' = CacheQuery(cache, t, u)
    PROVE  CacheMatchesLog'
<1>1. /\ log \in QueryLog
      /\ Len(log') = Len(log) + 1
      /\ log'[Len(log) + 1] = [q |-> t, a |-> u]
      /\ \A i \in 1..Len(log) : log'[i] = log[i]
  BY LogQueryType DEF TypeOK, Forward
<1>2. DOMAIN log = 1..Len(log) /\ DOMAIN log' = 1..(Len(log) + 1) /\ Len(log) \in Nat
  BY <1>1, LogQueryType DEF TypeOK, Forward, QueryLog
<1>3. cache'[t] = u /\ \A d \in Domain \ {t} : cache'[d] = cache[d]
  BY DEF TypeOK, QueryCache, CacheQuery
<1>4. ASSUME NEW i \in DOMAIN log' PROVE cache'[log'[i].q] = log'[i].a
  <2>1. CASE i = Len(log) + 1
    BY <1>1, <1>3, <2>1
  <2>2. CASE i \in 1..Len(log)
    <3>1. log[i].q \in Domain /\ log[i].a \in Answer
      BY <1>1, <1>2, <2>2, EntryType
    <3>2. cache[log[i].q] = log[i].a
      BY <1>2, <2>2 DEF CacheMatchesLog
    <3>3. CASE log[i].q = t
      BY <1>1, <1>3, <2>2, <3>1, <3>2, <3>3
    <3>4. CASE log[i].q # t
      BY <1>1, <1>3, <2>2, <3>1, <3>2, <3>4
    <3>5. QED
      BY <3>3, <3>4
  <2>3. QED
    BY <1>2, <2>1, <2>2
<1>5. ASSUME NEW d \in Domain, cache'[d] # NoAnswer
      PROVE  \E i \in DOMAIN log' : log'[i].q = d
  <2>1. CASE d = t
    BY <1>1, <1>2, <2>1
  <2>2. CASE d # t
    <3>1. PICK i \in DOMAIN log : log[i].q = d
      BY <1>3, <1>5, <2>2 DEF CacheMatchesLog
    <3>2. i \in DOMAIN log' /\ log'[i].q = d
      BY <1>1, <1>2, <3>1
    <3>3. QED
      BY <3>2
  <2>3. QED
    BY <2>1, <2>2
<1>6. QED
  BY <1>4, <1>5 DEF CacheMatchesLog

\* Caching twice what is cached already changes nothing.
LEMMA CacheQueryIdem ==
    ASSUME TypeOK, NEW t \in Domain
    PROVE  CacheQuery(cache, t, cache[t]) = cache
  BY DEF TypeOK, QueryCache, CacheQuery

\* Every step either forwards nothing and leaves cache and log alone, or
\* forwards an answer u that the next cache holds and that no cached answer
\* contradicts.  This is all the refinement and CacheMatchesLog depend on.
LEMMA StepShape ==
    ASSUME CacheFirst, TypeOK, [Next]_vars
    PROVE  \/ UNCHANGED <<cache, log>>
           \/ \E t \in Domain, u \in Answer :
                 /\ Forward(t, u)
                 /\ cache[t] \in {u, NoAnswer}
                 /\ cache' = CacheQuery(cache, t, u)
<1>1. ASSUME NEW t \in Domain, Denied(t) PROVE UNCHANGED <<cache, log>>
  BY <1>1 DEF Denied
<1>2. ASSUME NEW t \in Domain, FromCache(t)
      PROVE  \E u \in Answer : /\ Forward(t, u) /\ cache[t] \in {u, NoAnswer}
                               /\ cache' = CacheQuery(cache, t, u)
  <2>1. cache[t] \in Answer
    BY <1>2 DEF TypeOK, FromCache, QueryCache
  <2>2. cache' = CacheQuery(cache, t, cache[t])
    BY <1>2, CacheQueryIdem DEF FromCache
  <2>3. QED
    BY <1>2, <2>1, <2>2 DEF FromCache
<1>3. ASSUME NEW t \in Domain, FromSeed(t)
      PROVE  \E u \in Answer : /\ Forward(t, u) /\ cache[t] \in {u, NoAnswer}
                               /\ cache' = CacheQuery(cache, t, u)
  <2>1. Head(seed[t]) \in Answer
    BY <1>3, PopType DEF TypeOK, FromSeed, QuerySeed
  <2>2. QED
    BY <1>3, <2>1 DEF FromSeed
<1>4. ASSUME NEW t \in Domain, NEW u \in Answer, Fresh(t, u)
      PROVE  /\ Forward(t, u) /\ cache[t] \in {u, NoAnswer}
             /\ cache' = CacheQuery(cache, t, u)
  BY <1>4 DEF Fresh
<1>5. CASE UNCHANGED vars
  BY <1>5 DEF vars
<1>6. QED
  BY <1>1, <1>2, <1>3, <1>4, <1>5 DEF Next

\* The cache and the log agree throughout, for every seed and budget.
THEOREM CacheMatchesLogHolds ==
    ASSUME CacheFirst
    PROVE  Spec => []CacheMatchesLog
<1>1. Init => CacheMatchesLog
  BY DEF Init, CacheMatchesLog, EmptyCache
<1>2. TypeOK /\ CacheMatchesLog /\ [Next]_vars => CacheMatchesLog'
  <2> SUFFICES ASSUME TypeOK, CacheMatchesLog, [Next]_vars PROVE CacheMatchesLog'
    OBVIOUS
  <2>1. CASE UNCHANGED <<cache, log>>
    BY <2>1 DEF CacheMatchesLog
  <2>2. CASE \E t \in Domain, u \in Answer :
                 /\ Forward(t, u)
                 /\ cache[t] \in {u, NoAnswer}
                 /\ cache' = CacheQuery(cache, t, u)
    BY <2>2, ForwardMatches
  <2>3. QED
    BY <2>1, <2>2, StepShape
<1>3. QED
  BY <1>1, <1>2, TypeCorrect, PTL DEF Spec

\* The head of an initial seed is an answer, so it is not NoAnswer.
LEMMA SeededHeadsAnswer ==
    ASSUME TypeOK, NEW t \in Domain, seed0[t] # <<>>
    PROVE  Head(seed0[t]) # NoAnswer
<1>1. seed0[t] \in Seq(Answer)
  BY DEF TypeOK, QuerySeed
<1>2. QED
  BY <1>1, PopType

\* A seed is consumed at most once at each index and never skipped.
THEOREM SeedUsedOnceHolds ==
    ASSUME CacheFirst
    PROVE  Spec => []SeedUsedOnce
<1>1. Init => SeedUsedOnce
  BY DEF Init, SeedUsedOnce, EmptyCache
<1>2. TypeOK /\ SeedUsedOnce /\ [Next]_vars => SeedUsedOnce'
  <2> SUFFICES ASSUME TypeOK, SeedUsedOnce, [Next]_vars PROVE SeedUsedOnce'
    OBVIOUS
  <2>1. ASSUME NEW t \in Domain, Denied(t) PROVE SeedUsedOnce'
    BY <2>1 DEF Denied, SeedUsedOnce
  <2>2. ASSUME NEW t \in Domain, FromCache(t) PROVE SeedUsedOnce'
    BY <2>2 DEF FromCache, Forward, SeedUsedOnce
  <2>3. ASSUME NEW t \in Domain, FromSeed(t) PROVE SeedUsedOnce'
    <3>1. cache[t] = NoAnswer /\ seed[t] # <<>> /\ Head(seed[t]) \in Answer
      BY <2>3, PopType DEF TypeOK, FromSeed, QuerySeed
    <3>2. seed[t] = seed0[t] /\ calls[t] = 0
      BY <3>1, SeededHeadsAnswer DEF SeedUsedOnce
    <3>3. /\ cache'[t] = Head(seed0[t]) /\ seed'[t] = Tail(seed0[t])
          /\ \A d \in Domain \ {t} : cache'[d] = cache[d] /\ seed'[d] = seed[d]
      BY <2>3, <3>2 DEF TypeOK, FromSeed, QueryCache, QuerySeed, CacheQuery, PopSeed
    <3>4. UNCHANGED <<calls, seed0>>
      BY <2>3 DEF FromSeed, Forward
    <3>5. QED
      BY <3>1, <3>2, <3>3, <3>4 DEF SeedUsedOnce
  <2>4. ASSUME NEW t \in Domain, NEW u \in Answer, Fresh(t, u) PROVE SeedUsedOnce'
    <3>1. cache[t] = NoAnswer /\ seed[t] = <<>> /\ seed0[t] = <<>> /\ calls[t] = 0
      BY <2>4, SeededHeadsAnswer DEF Fresh, SeedUsedOnce
    <3>2. /\ cache'[t] = u /\ calls'[t] = 1
          /\ \A d \in Domain \ {t} : cache'[d] = cache[d] /\ calls'[d] = calls[d]
      BY <2>4, <3>1 DEF TypeOK, Fresh, QueryCache, CacheQuery
    <3>3. UNCHANGED <<seed, seed0>>
      BY <2>4 DEF Fresh, Forward
    <3>4. QED
      BY <3>1, <3>2, <3>3 DEF SeedUsedOnce
  <2>5. CASE UNCHANGED vars
    BY <2>5 DEF SeedUsedOnce, vars
  <2>6. QED
    BY <2>1, <2>2, <2>3, <2>4, <2>5 DEF Next
<1>3. QED
  BY <1>1, <1>2, TypeCorrect, PTL DEF Spec

-----------------------------------------------------------------------------
(* so.withCaching.withPregen: the seed is the outer layer. *)

\* What is left of a seed after its first k values, and after one more.
LEMMA RestOfSeed ==
    ASSUME NEW s \in Seq(Answer), NEW k \in Nat
    PROVE  LET rest == SubSeq(s, k + 1, Len(s))
           IN /\ rest = <<>> <=> k >= Len(s)
              /\ k < Len(s) => /\ Head(rest) = s[k + 1] /\ Head(rest) \in Answer
                              /\ Tail(rest) = SubSeq(s, k + 2, Len(s))
<1> DEFINE n == Len(s)
           rest == SubSeq(s, k + 1, n)
<1>1. n \in Nat /\ \A i \in 1 .. n : s[i] \in Answer
  BY ElementOfSeq
<1>2. CASE k >= n
  BY <1>1, <1>2, SubSeqEmpty
<1>3. CASE k < n
  <2>1. k + 1 \in 1 .. n /\ n \in k + 1 .. n /\ (k + 1) + 1 = k + 2
    BY <1>1, <1>3
  <2>2. Head(rest) = s[k + 1] /\ Tail(rest) = SubSeq(s, k + 2, n)
    BY <2>1, HeadTailOfSubSeq
  <2>3. Len(rest) = n - k
    <3>1. \A i \in k + 1 .. n : s[i] \in Answer
      BY <1>1, <2>1
    <3>2. Len(rest) = IF k + 1 <= n THEN n - (k + 1) + 1 ELSE 0
      BY <1>1, <2>1, <3>1, SubSeqProperties
    <3> QED BY <1>1, <1>3, <3>2
  <2>4. rest # <<>>
    <3> HIDE DEF n, rest
    <3> QED BY <1>1, <1>3, <2>3
  <2> QED BY <1>1, <1>3, <2>1, <2>2, <2>4
<1> QED BY <1>1, <1>2, <1>3

\* A forwarded answer at t is the next of t's answers, and the ones before it stay as
\* they are if what changes at t is used only from the next one on.
LEMMA ForwardServes ==
    ASSUME TypeOK, SeedServedInOrder, NEW t \in Domain, NEW u \in Answer, Forward(t, u),
           u = IF CountQ(log, t) < Len(seed0[t]) THEN seed0[t][CountQ(log, t) + 1]
                                                 ELSE cache'[t],
           \A d \in Domain \ {t} : UNCHANGED <<seed[d], cache[d], calls[d]>>,
           cache'[t] = cache[t] \/ CountQ(log, t) <= Len(seed0[t]),
           seed'[t] = SubSeq(seed0[t], CountQ(log, t) + 2, Len(seed0[t])),
           calls'[t] = IF CountQ(log, t) + 1 > Len(seed0[t]) THEN 1 ELSE 0,
           cache'[t] # NoAnswer <=> CountQ(log, t) + 1 > Len(seed0[t])
    PROVE  SeedServedInOrder'
<1>1. log \in QueryLog /\ log' = LogQuery(log, t, u) /\ seed0' = seed0
  BY DEF TypeOK, Forward
<1>2. /\ Len(log) \in Nat /\ DOMAIN log = 1 .. Len(log) /\ DOMAIN log' = 1 .. Len(log) + 1
      /\ log'[Len(log) + 1] = [q |-> t, a |-> u]
      /\ \A i \in 1 .. Len(log) : log'[i] = log[i]
      /\ Ordinal(log', Len(log) + 1) = CountQ(log, t)
      /\ \A i \in 1 .. Len(log) : Ordinal(log', i) = Ordinal(log, i)
  BY <1>1, LogQueryType, OrdinalQuery
<1>3. \A d \in Domain :
         /\ CountQ(log, d) \in Nat /\ Len(seed0[d]) \in Nat
         /\ CountQ(log', d) = CountQ(log, d) + (IF d = t THEN 1 ELSE 0)
  <2>1. \A d \in Domain : seed0[d] \in Seq(Answer)
    BY DEF TypeOK, QuerySeed
  <2> QED BY <1>1, <2>1, CountQuery
<1>4. ASSUME NEW i \in DOMAIN log'
      PROVE  log'[i].a = IF Ordinal(log', i) < Len(seed0[log'[i].q])
                         THEN seed0[log'[i].q][Ordinal(log', i) + 1] ELSE cache'[log'[i].q]
  <2>1. CASE i = Len(log) + 1
    BY <1>2, <2>1
  <2>2. CASE i \in 1 .. Len(log)
    <3> DEFINE d == log[i].q
               k == Ordinal(log, i)
    <3>1. d \in Domain /\ k \in Nat /\ k < CountQ(log, d)
      BY <1>1, <1>2, <2>2, EntryType, OrdinalBounds
    <3>2. log[i].a = IF k < Len(seed0[d]) THEN seed0[d][k + 1] ELSE cache[d]
      BY <1>2, <2>2 DEF SeedServedInOrder
    <3>3. ~(k < Len(seed0[d])) => cache'[d] = cache[d]
      BY <1>3, <3>1
    <3> HIDE DEF k
    <3>4. log[i].a = IF k < Len(seed0[d]) THEN seed0[d][k + 1] ELSE cache'[d]
      BY <3>2, <3>3
    <3> QED BY <1>2, <2>2, <3>4 DEF k
  <2> QED BY <1>2, <2>1, <2>2
<1>5. ASSUME NEW d \in Domain
      PROVE  /\ seed'[d] = SubSeq(seed0[d], CountQ(log', d) + 1, Len(seed0[d]))
             /\ calls'[d] = IF CountQ(log', d) > Len(seed0[d]) THEN 1 ELSE 0
             /\ cache'[d] # NoAnswer <=> CountQ(log', d) > Len(seed0[d])
  <2>1. CASE d = t
    <3>1. CountQ(log', d) = CountQ(log, t) + 1 /\ (CountQ(log, t) + 1) + 1 = CountQ(log, t) + 2
      BY <1>3, <2>1
    <3> QED BY <2>1, <3>1
  <2>2. CASE d # t
    <3>1. CountQ(log', d) = CountQ(log, d) /\ UNCHANGED <<seed[d], cache[d], calls[d]>>
      BY <1>3, <2>2
    <3>2. /\ seed[d] = SubSeq(seed0[d], CountQ(log, d) + 1, Len(seed0[d]))
          /\ calls[d] = IF CountQ(log, d) > Len(seed0[d]) THEN 1 ELSE 0
          /\ cache[d] # NoAnswer <=> CountQ(log, d) > Len(seed0[d])
      BY DEF SeedServedInOrder
    <3> QED BY <3>1, <3>2
  <2> QED BY <2>1, <2>2
<1> QED BY <1>1, <1>4, <1>5 DEF SeedServedInOrder

\* With the seed outermost its values are handed out in order, one for each query, and
\* then one live answer for ever, for every seed and every computation.
THEOREM SeedServedInOrderHolds ==
    ASSUME ~CacheFirst
    PROVE  Spec => []SeedServedInOrder
<1>1. Init => SeedServedInOrder
  <2> SUFFICES ASSUME Init PROVE SeedServedInOrder
    OBVIOUS
  <2>1. log = <<>> /\ DOMAIN log = {} /\ \A t \in Domain : CountQ(log, t) = 0
    BY CountEmpty DEF Init
  <2>2. ASSUME NEW t \in Domain
        PROVE  /\ seed[t] = SubSeq(seed0[t], 1, Len(seed0[t]))
               /\ calls[t] = 0 /\ cache[t] = NoAnswer /\ ~(0 > Len(seed0[t]))
    <3>1. seed0[t] \in Seq(Answer) /\ seed[t] = seed0[t]
      BY DEF Init, QuerySeed
    <3>2. SubSeq(seed0[t], 1, Len(seed0[t])) = seed0[t] /\ Len(seed0[t]) \in Nat
      BY <3>1, SubSeqFull
    <3> QED BY <3>1, <3>2 DEF Init, EmptyCache
  <2> QED BY <2>1, <2>2 DEF SeedServedInOrder
<1>2. TypeOK /\ SeedServedInOrder /\ [Next]_vars => SeedServedInOrder'
  <2> SUFFICES ASSUME TypeOK, SeedServedInOrder, [Next]_vars PROVE SeedServedInOrder'
    OBVIOUS
  <2>1. \A t \in Domain :
           /\ CountQ(log, t) \in Nat /\ Len(seed0[t]) \in Nat /\ seed0[t] \in Seq(Answer)
           /\ seed[t] = SubSeq(seed0[t], CountQ(log, t) + 1, Len(seed0[t]))
           /\ calls[t] = IF CountQ(log, t) > Len(seed0[t]) THEN 1 ELSE 0
           /\ cache[t] # NoAnswer <=> CountQ(log, t) > Len(seed0[t])
    <3>1. \A t \in Domain : seed0[t] \in Seq(Answer)
      BY DEF TypeOK, QuerySeed
    <3> QED BY <3>1, CountQuery DEF TypeOK, SeedServedInOrder
  <2>2. ASSUME NEW t \in Domain, Denied(t) PROVE SeedServedInOrder'
    BY <2>2 DEF Denied, SeedServedInOrder
  <2>3. ASSUME NEW t \in Domain, FromCache(t) PROVE SeedServedInOrder'
    <3>1. cache[t] \in Answer /\ UNCHANGED <<cache, seed, calls>> /\ Forward(t, cache[t])
      BY <2>3 DEF FromCache, TypeOK, QueryCache
    <3>2. CountQ(log, t) > Len(seed0[t]) /\ seed[t] = <<>> /\ calls[t] = 1
      BY <2>1, <2>3 DEF FromCache
    <3>3. SubSeq(seed0[t], CountQ(log, t) + 2, Len(seed0[t])) = <<>>
      BY <2>1, <3>2, SubSeqEmpty
    <3> QED BY <2>1, <3>1, <3>2, <3>3, ForwardServes
  <2>4. ASSUME NEW t \in Domain, FromSeed(t) PROVE SeedServedInOrder'
    <3>1. seed[t] # <<>> /\ CountQ(log, t) < Len(seed0[t])
      BY <2>1, <2>4, RestOfSeed DEF FromSeed
    <3>2. /\ Head(seed[t]) = seed0[t][CountQ(log, t) + 1] /\ Head(seed[t]) \in Answer
          /\ Tail(seed[t]) = SubSeq(seed0[t], CountQ(log, t) + 2, Len(seed0[t]))
      <4>1. seed0[t] \in Seq(Answer) /\ CountQ(log, t) \in Nat
        BY <2>1
      <4>2. seed[t] = SubSeq(seed0[t], CountQ(log, t) + 1, Len(seed0[t]))
        BY <2>1
      <4> QED BY <3>1, <4>1, <4>2, RestOfSeed
    <3>3. /\ seed'[t] = Tail(seed[t]) /\ \A d \in Domain \ {t} : seed'[d] = seed[d]
          /\ cache' = cache /\ calls' = calls
      BY <2>4 DEF FromSeed, PopSeed, TypeOK, QuerySeed
    <3>4. cache[t] = NoAnswer /\ calls[t] = 0 /\ ~(CountQ(log, t) + 1 > Len(seed0[t]))
      BY <2>1, <3>1
    <3>5. Forward(t, Head(seed[t]))
      BY <2>4 DEF FromSeed
    <3> QED BY <2>1, <3>1, <3>2, <3>3, <3>4, <3>5, ForwardServes
  <2>5. ASSUME NEW t \in Domain, NEW u \in Answer, Fresh(t, u) PROVE SeedServedInOrder'
    <3>1. cache[t] = NoAnswer /\ seed[t] = <<>>
      BY <2>5 DEF Fresh
    <3>2. CountQ(log, t) = Len(seed0[t]) /\ calls[t] = 0
      BY <2>1, <3>1, RestOfSeed
    <3>3. /\ cache'[t] = u /\ calls'[t] = 1 /\ seed' = seed
          /\ \A d \in Domain \ {t} : cache'[d] = cache[d] /\ calls'[d] = calls[d]
          /\ Forward(t, u)
      BY <2>5, <3>2 DEF Fresh, TypeOK, QueryCache, CacheQuery
    <3>4. u # NoAnswer /\ SubSeq(seed0[t], CountQ(log, t) + 2, Len(seed0[t])) = <<>>
      BY <2>1, <3>2, SubSeqEmpty
    <3>5. ~(CountQ(log, t) < Len(seed0[t])) /\ CountQ(log, t) <= Len(seed0[t])
          /\ CountQ(log, t) + 1 > Len(seed0[t])
      BY <2>1, <3>2
    <3> QED BY <3>1, <3>3, <3>4, <3>5, ForwardServes
  <2>6. CASE UNCHANGED vars
    BY <2>6 DEF SeedServedInOrder, vars
  <2> QED BY <2>2, <2>3, <2>4, <2>5, <2>6 DEF Next
<1> QED BY <1>1, <1>2, TypeCorrect, PTL DEF Spec

-----------------------------------------------------------------------------
(* The refinement. *)

\* Caching an answer u that the cache does not contradict discards exactly
\* the possible functions that disagree with u, and never all of them: the
\* cache has a total extension that takes the value u at t.
LEMMA WorldsStep ==
    ASSUME TypeOK, NEW t \in Domain, NEW u \in Answer,
           cache[t] \in {u, NoAnswer}, cache' = CacheQuery(cache, t, u)
    PROVE  /\ \E f \in PossibleWorlds : f[t] = u
           /\ PossibleWorlds' = {f \in PossibleWorlds : f[t] = u}
<1>1. cache'[t] = u /\ \A d \in Domain \ {t} : cache'[d] = cache[d]
  BY DEF TypeOK, QueryCache, CacheQuery
<1>2. DEFINE g == [d \in Domain |-> IF d # t /\ cache[d] # NoAnswer THEN cache[d] ELSE u]
<1>3. g \in [Domain -> Answer] /\ g[t] = u
  BY DEF TypeOK, QueryCache
<1>4. g \in PossibleWorlds
  BY <1>3 DEF PossibleWorlds, AgreesWithFn
<1>5. ASSUME NEW f \in [Domain -> Answer]
      PROVE  AgreesWithFn(f, cache') <=> AgreesWithFn(f, cache) /\ f[t] = u
  BY <1>1 DEF AgreesWithFn
<1>6. PossibleWorlds' = {f \in PossibleWorlds : f[t] = u}
  BY <1>5 DEF PossibleWorlds
<1>7. QED
  BY <1>3, <1>4, <1>6

\* A cached oracle, seeded or not, enforced or not, is indistinguishable from
\* a function fixed in advance: every step of the handler stack is a query of
\* RandomFunction or leaves it alone.
THEOREM Refinement ==
    ASSUME CacheFirst
    PROVE  Spec => ImplementsRandomFunction
<1>1. Init => RF!Init
  BY DEF Init, RF!Init, PossibleWorlds, AgreesWithFn, EmptyCache
<1>2. TypeOK /\ [Next]_vars => [RF!Next]_<<PossibleWorlds, log>>
  <2> SUFFICES ASSUME TypeOK, [Next]_vars
               PROVE  [RF!Next]_<<PossibleWorlds, log>>
    OBVIOUS
  <2>1. CASE UNCHANGED <<cache, log>>
    BY <2>1 DEF PossibleWorlds, AgreesWithFn
  <2>2. ASSUME NEW t \in Domain, NEW u \in Answer, Forward(t, u),
               cache[t] \in {u, NoAnswer}, cache' = CacheQuery(cache, t, u)
        PROVE  RF!Ask(t, u)
    <3>1. log' = LogQuery(log, t, u)
      BY <2>2 DEF Forward
    <3>2. QED
      BY <2>2, <3>1, WorldsStep DEF RF!Ask, RF!LogQuery, LogQuery
  <2>3. QED
    BY <2>1, <2>2, StepShape DEF RF!Next
<1>3. QED
  BY <1>1, <1>2, TypeCorrect, PTL DEF Spec, ImplementsRandomFunction, RF!Spec

-----------------------------------------------------------------------------
(* The programmed pair. *)

\* A handler step keeps a side in its type.
LEMMA ProgStepType ==
    ASSUME NEW s \in Side, NEW t \in Domain, NEW u \in Answer, policy \in QueryCache
    PROVE  ProgStep(s, t, u) \in Side
<1>1. s.cache[t] \in Answer \cup {NoAnswer} /\ policy[t] \in Answer \cup {NoAnswer}
  BY DEF Side, QueryCache
<1>2. ASSUME NEW v \in Answer PROVE LogQuery(s.view, t, v) \in QueryLog
  BY DEF LogQuery, QueryLog, Side
<1>3. ASSUME NEW v \in Answer PROVE CacheQuery(s.cache, t, v) \in QueryCache
  BY DEF CacheQuery, QueryCache, Side
<1>4. CASE s.cache[t] # NoAnswer
  BY <1>1, <1>2, <1>4 DEF ProgStep, Hit, Side
<1>5. CASE s.cache[t] = NoAnswer
  BY <1>1, <1>2, <1>3, <1>5 DEF ProgStep, Miss, Side, Programmed
<1>6. QED
  BY <1>4, <1>5

LEMMA TrackStepType ==
    ASSUME NEW s \in Side, NEW t \in Domain, NEW u \in Answer
    PROVE  TrackStep(s, t, u) \in Side
<1>1. s.cache[t] \in Answer \cup {NoAnswer}
  BY DEF Side, QueryCache
<1>2. ASSUME NEW v \in Answer PROVE LogQuery(s.view, t, v) \in QueryLog
  BY DEF LogQuery, QueryLog, Side
<1>3. ASSUME NEW v \in Answer PROVE CacheQuery(s.cache, t, v) \in QueryCache
  BY DEF CacheQuery, QueryCache, Side
<1>4. CASE s.cache[t] # NoAnswer
  BY <1>1, <1>2, <1>4 DEF TrackStep, Hit, Side
<1>5. CASE s.cache[t] = NoAnswer
  <2>1. s.bad \/ Programmed(t) \in BOOLEAN
    BY DEF Side, Programmed
  <2>2. QED
    BY <1>2, <1>3, <1>5, <2>1 DEF TrackStep, Miss, Side
<1>6. QED
  BY <1>4, <1>5

\* Both sides stay in StateT (QueryCache x Bool), whatever is asked.
THEOREM PairTypeCorrect == PairSpec => []PairTypeOK
<1>1. PairInit => PairTypeOK
  BY DEF PairInit, PairTypeOK, Side, QueryLog
<1>2. PairTypeOK /\ [PairNext]_pairVars => PairTypeOK'
  <2> SUFFICES ASSUME PairTypeOK, [PairNext]_pairVars PROVE PairTypeOK'
    OBVIOUS
  <2>0. policy \in QueryCache
    BY DEF PairTypeOK
  <2>1. ASSUME NEW t \in Domain, NEW u \in Answer, Together(t, u) PROVE PairTypeOK'
    BY <2>0, <2>1, ProgStepType, TrackStepType DEF PairTypeOK, Together
  <2>2. ASSUME NEW t \in Domain, NEW u \in Answer, ProgAlone(t, u) PROVE PairTypeOK'
    BY <2>0, <2>2, ProgStepType DEF PairTypeOK, ProgAlone
  <2>3. ASSUME NEW t \in Domain, NEW u \in Answer, TrackAlone(t, u) PROVE PairTypeOK'
    BY <2>3, TrackStepType DEF PairTypeOK, TrackAlone
  <2>4. CASE UNCHANGED pairVars
    BY <2>4 DEF PairTypeOK, pairVars
  <2>5. QED
    BY <2>1, <2>2, <2>3, <2>4 DEF PairNext
<1>3. QED
  BY <1>1, <1>2, PTL DEF PairSpec

\* From a common state with the flags down one query either leaves the sides
\* in a common state with the flags down or raises both flags.
LEMMA StepTogether ==
    ASSUME NEW s \in Side, NEW t \in Domain, NEW u \in Answer, ~s.bad
    PROVE  \/ /\ ProgStep(s, t, u) = TrackStep(s, t, u)
              /\ ~ProgStep(s, t, u).bad
           \/ /\ ProgStep(s, t, u).bad
              /\ TrackStep(s, t, u).bad
<1>1. CASE s.cache[t] # NoAnswer
  BY <1>1 DEF ProgStep, TrackStep, Hit, Side
<1>2. CASE s.cache[t] = NoAnswer /\ Programmed(t)
  BY <1>2 DEF ProgStep, TrackStep, Miss, Side
<1>3. CASE s.cache[t] = NoAnswer /\ ~Programmed(t)
  BY <1>3 DEF ProgStep, TrackStep, Miss, Side
<1>4. QED
  BY <1>1, <1>2, <1>3

\* A raised flag stays up on either side.
LEMMA FlagStays ==
    ASSUME NEW s \in Side, NEW t \in Domain, NEW u \in Answer, s.bad
    PROVE  ProgStep(s, t, u).bad /\ TrackStep(s, t, u).bad
<1>1. CASE s.cache[t] # NoAnswer
  BY <1>1 DEF ProgStep, TrackStep, Hit, Side
<1>2. CASE s.cache[t] = NoAnswer
  BY <1>2 DEF ProgStep, TrackStep, Miss, Side
<1>3. QED
  BY <1>1, <1>2

\* Identical until bad, for every instance: it is inductive given the types,
\* because the sides can only be asked apart after their views have differed.
THEOREM IdenticalUntilBadHolds == PairSpec => []IdenticalUntilBad
<1>1. PairInit => IdenticalUntilBad
  BY DEF PairInit, IdenticalUntilBad
<1>2. PairTypeOK /\ IdenticalUntilBad /\ [PairNext]_pairVars => IdenticalUntilBad'
  <2> SUFFICES ASSUME PairTypeOK, IdenticalUntilBad, [PairNext]_pairVars
               PROVE  IdenticalUntilBad'
    OBVIOUS
  <2>0. prog \in Side /\ track \in Side
    BY DEF PairTypeOK
  <2>1. ASSUME NEW t \in Domain, NEW u \in Answer, Together(t, u)
        PROVE  IdenticalUntilBad'
    <3>1. prog' = ProgStep(prog, t, u) /\ track' = TrackStep(track, t, u)
      BY <2>1 DEF Together
    <3>2. CASE prog.bad
      BY <2>0, <3>1, <3>2, FlagStays DEF IdenticalUntilBad
    <3>3. CASE ~prog.bad
      <4>1. track = prog
        BY <3>3 DEF IdenticalUntilBad
      <4>2. CASE prog' = track' /\ ~prog'.bad
        BY <4>2 DEF IdenticalUntilBad
      <4>3. CASE prog'.bad /\ track'.bad
        <5>1. prog' \in Side /\ track' \in Side
          BY <2>0, <3>1, ProgStepType, TrackStepType DEF PairTypeOK
        <5>2. prog'.bad = track'.bad
          BY <4>3, <5>1 DEF Side
        <5>3. QED
          BY <4>3, <5>2 DEF IdenticalUntilBad
      <4>4. QED
        BY <2>0, <3>1, <3>3, <4>1, <4>2, <4>3, StepTogether
    <3>4. QED
      BY <3>2, <3>3
  <2>2. ASSUME NEW t \in Domain, NEW u \in Answer, ProgAlone(t, u)
        PROVE  IdenticalUntilBad'
    <3>1. prog.bad /\ track.bad
      BY <2>2 DEF ProgAlone, IdenticalUntilBad
    <3>2. QED
      BY <2>0, <2>2, <3>1, FlagStays DEF ProgAlone, IdenticalUntilBad
  <2>3. ASSUME NEW t \in Domain, NEW u \in Answer, TrackAlone(t, u)
        PROVE  IdenticalUntilBad'
    <3>1. prog.bad /\ track.bad
      BY <2>3 DEF TrackAlone, IdenticalUntilBad
    <3>2. QED
      BY <2>0, <2>3, <3>1, FlagStays DEF TrackAlone, IdenticalUntilBad
  <2>4. CASE UNCHANGED pairVars
    BY <2>4 DEF IdenticalUntilBad, pairVars
  <2>5. QED
    BY <2>1, <2>2, <2>3, <2>4 DEF PairNext
<1>3. QED
  BY <1>1, <1>2, PairTypeCorrect, PTL DEF PairSpec

-----------------------------------------------------------------------------
(* The flag, and the answers of one side. *)

\* A side that has answered: its cache extends the initial one by what was asked and
\* answers as it did, and its flag is up once a point was asked that the policy programs
\* and the initial cache does not hold.
SideInv(s) ==
    /\ \A d \in Domain : cache0[d] # NoAnswer => s.cache[d] = cache0[d]
    /\ \A i \in DOMAIN s.view : s.cache[s.view[i].q] = s.view[i].a
    /\ \A d \in Domain :
          s.cache[d] # NoAnswer /\ cache0[d] = NoAnswer => \E i \in DOMAIN s.view : s.view[i].q = d
    /\ s.bad <=> \E i \in DOMAIN s.view :
                    Programmed(s.view[i].q) /\ cache0[s.view[i].q] = NoAnswer

\* On the side that is programmed the policy has the last word.
PolicyInv ==
    \A d \in Domain :
        Programmed(d) /\ cache0[d] = NoAnswer => prog.cache[d] \in {NoAnswer, policy[d]}

\* What both handlers make of a side: an answer v that the cache does not contradict is
\* cached and returned, and the flag is raised by a miss on a programmed point.
Answered(s, next, t, v) ==
    /\ s.cache[t] \in {v, NoAnswer}
    /\ next.cache = CacheQuery(s.cache, t, v)
    /\ next.view = LogQuery(s.view, t, v)
    /\ next.bad <=> s.bad \/ (s.cache[t] = NoAnswer /\ Programmed(t))

LEMMA ProgAnswers ==
    ASSUME NEW s \in Side, NEW t \in Domain, NEW u \in Answer, policy \in QueryCache
    PROVE  \E v \in Answer :
              /\ Answered(s, ProgStep(s, t, u), t, v)
              /\ Programmed(t) /\ s.cache[t] = NoAnswer => v = policy[t]
<1>1. s.cache[t] \in Answer \cup {NoAnswer} /\ policy[t] \in Answer \cup {NoAnswer}
  BY DEF Side, QueryCache
<1>2. CASE s.cache[t] # NoAnswer
  <2>1. Hit(s, t) = [s EXCEPT !.view = LogQuery(s.view, t, s.cache[t])]
    BY DEF Hit
  <2>2. s.cache = CacheQuery(s.cache, t, s.cache[t])
    BY DEF Side, QueryCache, CacheQuery
  <2>3. Answered(s, ProgStep(s, t, u), t, s.cache[t])
    BY <1>2, <2>1, <2>2 DEF Answered, ProgStep, Side
  <2> QED BY <1>1, <1>2, <2>3
<1>3. CASE s.cache[t] = NoAnswer /\ Programmed(t)
  BY <1>1, <1>3 DEF Answered, ProgStep, Miss, Programmed
<1>4. CASE s.cache[t] = NoAnswer /\ ~Programmed(t)
  BY <1>1, <1>4 DEF Answered, ProgStep, Miss
<1> QED BY <1>2, <1>3, <1>4

LEMMA TrackAnswers ==
    ASSUME NEW s \in Side, NEW t \in Domain, NEW u \in Answer
    PROVE  \E v \in Answer : Answered(s, TrackStep(s, t, u), t, v)
<1>1. s.cache[t] \in Answer \cup {NoAnswer}
  BY DEF Side, QueryCache
<1>2. CASE s.cache[t] # NoAnswer
  <2>1. Hit(s, t) = [s EXCEPT !.view = LogQuery(s.view, t, s.cache[t])]
    BY DEF Hit
  <2>2. s.cache = CacheQuery(s.cache, t, s.cache[t])
    BY DEF Side, QueryCache, CacheQuery
  <2>3. Answered(s, TrackStep(s, t, u), t, s.cache[t])
    BY <1>2, <2>1, <2>2 DEF Answered, TrackStep, Side
  <2> QED BY <1>1, <1>2, <2>3
<1>3. CASE s.cache[t] = NoAnswer
  BY <1>1, <1>3 DEF Answered, TrackStep, Miss
<1> QED BY <1>2, <1>3

\* An answer keeps a side as it should be: a point that is answered from the cache was
\* in the initial one or was asked, and flagged, before.
LEMMA AnsweredInv ==
    ASSUME NEW s \in Side, NEW next, NEW t \in Domain, NEW v \in Answer,
           SideInv(s), Answered(s, next, t, v)
    PROVE  SideInv(next)
<1> DEFINE n == Len(s.view)
<1>1. s.view \in QueryLog /\ next.view = LogQuery(s.view, t, v)
  BY DEF Side, Answered
<1>2. /\ n \in Nat /\ DOMAIN s.view = 1 .. n /\ DOMAIN next.view = 1 .. n + 1
      /\ next.view[n + 1] = [q |-> t, a |-> v]
      /\ \A i \in 1 .. n : next.view[i] = s.view[i]
      /\ \A i \in 1 .. n : s.view[i].q \in Domain /\ s.view[i].a \in Answer
  BY <1>1, LogQueryType, EntryType
<1>3. next.cache[t] = v /\ \A d \in Domain \ {t} : next.cache[d] = s.cache[d]
  BY DEF Side, QueryCache, CacheQuery, Answered
<1>4. s.cache[t] \in {v, NoAnswer} /\ v # NoAnswer
  BY DEF Answered
<1> HIDE DEF n
<1>5. ASSUME NEW d \in Domain, cache0[d] # NoAnswer PROVE next.cache[d] = cache0[d]
  <2>1. s.cache[d] = cache0[d]
    BY <1>5 DEF SideInv
  <2> QED BY <1>3, <1>4, <1>5, <2>1
<1>6. ASSUME NEW i \in DOMAIN next.view PROVE next.cache[next.view[i].q] = next.view[i].a
  <2>1. CASE i = n + 1
    BY <1>2, <1>3, <2>1
  <2>2. CASE i \in 1 .. n
    <3>1. s.cache[s.view[i].q] = s.view[i].a /\ s.view[i].a \in Answer /\ s.view[i].q \in Domain
      BY <1>2, <2>2 DEF SideInv
    <3>2. s.view[i].q = t => s.view[i].a = v
      BY <1>4, <3>1
    <3>3. next.cache[s.view[i].q] = s.view[i].a
      BY <1>3, <3>1, <3>2
    <3> QED BY <1>2, <2>2, <3>3
  <2> QED BY <1>2, <2>1, <2>2
<1>7. ASSUME NEW d \in Domain, next.cache[d] # NoAnswer, cache0[d] = NoAnswer
      PROVE  \E i \in DOMAIN next.view : next.view[i].q = d
  <2>1. CASE d = t
    BY <1>2, <2>1
  <2>2. CASE d # t
    <3>1. PICK i \in DOMAIN s.view : s.view[i].q = d
      BY <1>3, <1>7, <2>2 DEF SideInv
    <3> QED BY <1>2, <3>1
  <2> QED BY <2>1, <2>2
<1> DEFINE Flags(q) == Programmed(q) /\ cache0[q] = NoAnswer
<1>8. next.bad <=> \E i \in DOMAIN next.view : Flags(next.view[i].q)
  <2>1. s.bad <=> \E i \in 1 .. n : Flags(s.view[i].q)
    BY <1>2 DEF SideInv
  <2>2. next.bad <=> s.bad \/ (s.cache[t] = NoAnswer /\ Programmed(t))
    BY DEF Answered
  <2>3. s.cache[t] = NoAnswer => cache0[t] = NoAnswer
    BY DEF SideInv
  <2>4. s.cache[t] # NoAnswer /\ cache0[t] = NoAnswer => \E i \in 1 .. n : s.view[i].q = t
    BY <1>2 DEF SideInv
  <2>5. (\E i \in DOMAIN next.view : Flags(next.view[i].q))
           <=> Flags(t) \/ \E i \in 1 .. n : Flags(s.view[i].q)
    <3> HIDE DEF Flags
    <3>1. \A i \in 1 .. n + 1 : i = n + 1 \/ i \in 1 .. n
      BY <1>2
    <3>2. n + 1 \in 1 .. n + 1 /\ \A i \in 1 .. n : i \in 1 .. n + 1
      BY <1>2
    <3>3. next.view[n + 1].q = t
      BY <1>2
    <3> QED BY <1>2, <3>1, <3>2, <3>3
  <2>6. Flags(t) /\ s.cache[t] # NoAnswer => s.bad
    BY <2>1, <2>4
  <2> QED BY <2>1, <2>2, <2>3, <2>5, <2>6
<1> QED BY <1>5, <1>6, <1>7, <1>8 DEF SideInv

LEMMA SidesInvariant == PairSpec => [](SideInv(prog) /\ SideInv(track) /\ PolicyInv)
<1>1. PairInit => SideInv(prog) /\ SideInv(track) /\ PolicyInv
  BY DEF PairInit, SideInv, PolicyInv
<1>2. PairTypeOK /\ SideInv(prog) /\ SideInv(track) /\ PolicyInv /\ [PairNext]_pairVars
         => (SideInv(prog) /\ SideInv(track) /\ PolicyInv)'
  <2> SUFFICES ASSUME PairTypeOK, SideInv(prog), SideInv(track), PolicyInv, [PairNext]_pairVars
               PROVE  (SideInv(prog) /\ SideInv(track) /\ PolicyInv)'
    OBVIOUS
  <2>1. /\ prog \in Side /\ track \in Side /\ policy \in QueryCache
        /\ policy' = policy /\ cache0' = cache0
    BY DEF PairTypeOK, PairNext, Together, ProgAlone, TrackAlone, pairVars
  <2>2. SideInv(prog') => SideInv(prog)'
    BY <2>1 DEF SideInv, Programmed
  <2>3. SideInv(track') => SideInv(track)'
    BY <2>1 DEF SideInv, Programmed
  <2>4. ASSUME NEW t \in Domain, NEW u \in Answer, prog' = ProgStep(prog, t, u)
        PROVE  SideInv(prog') /\ PolicyInv'
    <3>1. PICK v \in Answer :
             /\ Answered(prog, prog', t, v)
             /\ Programmed(t) /\ prog.cache[t] = NoAnswer => v = policy[t]
      BY <2>1, <2>4, ProgAnswers
    <3>2. /\ prog.cache[t] \in {v, NoAnswer}
          /\ prog'.cache[t] = v /\ \A d \in Domain \ {t} : prog'.cache[d] = prog.cache[d]
      BY <2>1, <3>1 DEF Side, QueryCache, CacheQuery, Answered
    <3>3. PolicyInv'
      BY <2>1, <3>1, <3>2 DEF PolicyInv, Programmed
    <3> QED BY <2>1, <3>1, <3>3, AnsweredInv
  <2>5. ASSUME NEW t \in Domain, NEW u \in Answer, track' = TrackStep(track, t, u)
        PROVE  SideInv(track')
    BY <2>1, <2>5, TrackAnswers, AnsweredInv
  <2>6. prog' = prog => PolicyInv'
    BY <2>1 DEF PolicyInv, Programmed
  <2>7. ASSUME NEW t \in Domain, NEW u \in Answer, Together(t, u)
        PROVE  SideInv(prog') /\ SideInv(track') /\ PolicyInv'
    BY <2>4, <2>5, <2>7 DEF Together
  <2>8. ASSUME NEW t \in Domain, NEW u \in Answer, ProgAlone(t, u)
        PROVE  SideInv(prog') /\ SideInv(track') /\ PolicyInv'
    BY <2>4, <2>8 DEF ProgAlone
  <2>9. ASSUME NEW t \in Domain, NEW u \in Answer, TrackAlone(t, u)
        PROVE  SideInv(prog') /\ SideInv(track') /\ PolicyInv'
    BY <2>5, <2>6, <2>9 DEF TrackAlone
  <2>10. ASSUME UNCHANGED pairVars PROVE SideInv(prog') /\ SideInv(track') /\ PolicyInv'
    BY <2>6, <2>10 DEF pairVars
  <2>11. SideInv(prog') /\ SideInv(track') /\ PolicyInv'
    BY <2>6, <2>7, <2>8, <2>9, <2>10 DEF PairNext, pairVars
  <2> QED BY <2>2, <2>3, <2>11
<1>3. QED
  BY <1>1, <1>2, PairTypeCorrect, PTL DEF PairSpec

\* The flag accounts for every observable use of the policy and for nothing else, on
\* either side and for every policy, initial cache and computation.
THEOREM BadIffProgrammedPointAskedHolds == PairSpec => []BadIffProgrammedPointAsked
<1>1. SideInv(prog) /\ SideInv(track) => BadIffProgrammedPointAsked
  BY DEF SideInv, BadIffProgrammedPointAsked
<1>2. QED
  BY <1>1, SidesInvariant, PTL

\* Programming cannot be detected by repeating a query, and the programmed side answers
\* with the policy wherever the initial cache was silent.
THEOREM ConsistentAnswersHolds == PairSpec => []ConsistentAnswers
<1>1. PairTypeOK /\ SideInv(prog) /\ SideInv(track) /\ PolicyInv => ConsistentAnswers
  <2> SUFFICES ASSUME PairTypeOK, SideInv(prog), SideInv(track), PolicyInv PROVE ConsistentAnswers
    OBVIOUS
  <2>1. ASSUME NEW i \in DOMAIN prog.view, Programmed(prog.view[i].q),
               cache0[prog.view[i].q] = NoAnswer
        PROVE  prog.view[i].a = policy[prog.view[i].q]
    <3>1. prog.view[i].q \in Domain /\ prog.view[i].a \in Answer
      BY EntryType DEF PairTypeOK, Side
    <3>2. prog.cache[prog.view[i].q] = prog.view[i].a
      BY DEF SideInv
    <3> QED BY <2>1, <3>1, <3>2 DEF PolicyInv
  <2> QED BY <2>1 DEF SideInv, ConsistentAnswers
<1>2. QED
  BY <1>1, PairTypeCorrect, SidesInvariant, PTL
=============================================================================
