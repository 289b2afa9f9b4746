------------------------ MODULE QueryTrackingProofs ------------------------
(***************************************************************************)
(* Facts about the structures of QueryTracking that the proofs about the   *)
(* handlers share.                                                         *)
(***************************************************************************)
EXTENDS QueryTracking, FiniteSetTheorems, TLAPS

\* The entry a log ends with after a query, and those it keeps.
LEMMA LogQueryType ==
    ASSUME NEW l \in QueryLog, NEW t \in Domain, NEW u \in Answer
    PROVE  /\ LogQuery(l, t, u) \in QueryLog
           /\ Len(l) \in Nat /\ DOMAIN l = 1 .. Len(l)
           /\ Len(LogQuery(l, t, u)) = Len(l) + 1
           /\ DOMAIN LogQuery(l, t, u) = 1 .. Len(l) + 1
           /\ LogQuery(l, t, u)[Len(l) + 1] = [q |-> t, a |-> u]
           /\ \A k \in 1 .. Len(l) : LogQuery(l, t, u)[k] = l[k]
  BY DEF LogQuery, QueryLog

\* An entry of a log is a query and its answer.
LEMMA EntryType ==
    ASSUME NEW l \in QueryLog, NEW k \in DOMAIN l
    PROVE  /\ l[k] \in [q : Domain, a : Answer]
           /\ l[k].q \in Domain /\ l[k].a \in Answer
<1>1. ASSUME NEW S, NEW m \in Seq(S), NEW j \in DOMAIN m PROVE m[j] \in S
  OBVIOUS
<1>2. l[k] \in [q : Domain, a : Answer]
  BY <1>1 DEF QueryLog
<1>3. QED
  BY <1>2

\* Positions up to a bound are finitely many.
LEMMA PositionsFinite ==
    ASSUME NEW n \in Nat, NEW S \in SUBSET (1 .. n)
    PROVE  IsFiniteSet(S) /\ Cardinality(S) \in Nat
<1>1. IsFiniteSet(1 .. n)
  BY FS_Interval
<1>2. IsFiniteSet(S)
  BY <1>1, FS_Subset
<1>3. QED
  BY <1>2, FS_CardinalityType

\* A query counts at its own index and at no other.
LEMMA CountQuery ==
    ASSUME NEW l \in QueryLog, NEW t \in Domain, NEW u \in Answer, NEW d \in Domain
    PROVE  /\ CountQ(l, d) \in Nat
           /\ CountQ(LogQuery(l, t, u), d) = CountQ(l, d) + (IF d = t THEN 1 ELSE 0)
<1> DEFINE new == LogQuery(l, t, u)
           before == {k \in DOMAIN l : l[k].q = d}
           after == {k \in DOMAIN new : new[k].q = d}
<1>1. /\ Len(l) \in Nat /\ DOMAIN l = 1 .. Len(l)
      /\ DOMAIN new = 1 .. Len(l) + 1
      /\ new[Len(l) + 1] = [q |-> t, a |-> u]
      /\ \A k \in 1 .. Len(l) : new[k] = l[k]
  BY LogQueryType
<1>2. before \in SUBSET (1 .. Len(l))
  BY <1>1
<1>3. IsFiniteSet(before) /\ Cardinality(before) \in Nat
  BY <1>1, <1>2, PositionsFinite
<1>0. CountQ(l, d) = Cardinality(before) /\ CountQ(new, d) = Cardinality(after)
  BY DEF CountQ
<1> HIDE DEF new, before, after
<1>4. CASE d = t
  <2>1. after = before \cup {Len(l) + 1} /\ Len(l) + 1 \notin before
    BY <1>1, <1>4 DEF before, after
  <2>2. Cardinality(after) = Cardinality(before) + 1
    BY <1>3, <2>1, FS_AddElement
  <2>3. QED
    BY <1>0, <1>3, <1>4, <2>2 DEF new
<1>5. CASE d # t
  <2>1. after = before
    BY <1>1, <1>5 DEF before, after
  <2>2. QED
    BY <1>0, <1>3, <1>5, <2>1 DEF new
<1>6. QED
  BY <1>4, <1>5 DEF new

\* The ordinal of a new entry is the number of queries to its index before; the
\* others keep theirs.
LEMMA OrdinalQuery ==
    ASSUME NEW l \in QueryLog, NEW t \in Domain, NEW u \in Answer
    PROVE  /\ Ordinal(LogQuery(l, t, u), Len(l) + 1) = CountQ(l, t)
           /\ \A k \in 1 .. Len(l) : Ordinal(LogQuery(l, t, u), k) = Ordinal(l, k)
<1> DEFINE new == LogQuery(l, t, u)
<1>1. /\ Len(l) \in Nat /\ DOMAIN l = 1 .. Len(l)
      /\ new[Len(l) + 1] = [q |-> t, a |-> u]
      /\ \A k \in 1 .. Len(l) : new[k] = l[k]
  BY LogQueryType
<1> HIDE DEF new
<1>2. Ordinal(new, Len(l) + 1) = CountQ(l, t)
  <2> DEFINE earlier == {n \in 1 .. Len(l) + 1 - 1 : new[n].q = new[Len(l) + 1].q}
             all == {n \in DOMAIN l : l[n].q = t}
  <2>1. earlier = all
    BY <1>1
  <2>2. Ordinal(new, Len(l) + 1) = Cardinality(earlier) /\ CountQ(l, t) = Cardinality(all)
    BY DEF Ordinal, CountQ
  <2> HIDE DEF earlier, all
  <2>3. QED
    BY <2>1, <2>2
<1>3. ASSUME NEW k \in 1 .. Len(l) PROVE Ordinal(new, k) = Ordinal(l, k)
  <2>1. {n \in 1 .. k - 1 : new[n].q = new[k].q} = {n \in 1 .. k - 1 : l[n].q = l[k].q}
    BY <1>1
  <2>2. QED
    BY <2>1 DEF Ordinal
<1>4. QED
  BY <1>2, <1>3 DEF new

\* An ordinal counts some of the queries, and not the one it belongs to; of two
\* queries to an index the earlier one has the smaller ordinal.
LEMMA OrdinalBounds ==
    ASSUME NEW l \in QueryLog, NEW k \in DOMAIN l
    PROVE  /\ Ordinal(l, k) \in Nat
           /\ Ordinal(l, k) < CountQ(l, l[k].q)
           /\ \A j \in DOMAIN l : l[j].q = l[k].q /\ Ordinal(l, j) < Ordinal(l, k) => j < k
<1> DEFINE before(j) == {n \in 1 .. j - 1 : l[n].q = l[j].q}
           all == {n \in DOMAIN l : l[n].q = l[k].q}
<1>1. Len(l) \in Nat /\ DOMAIN l = 1 .. Len(l)
  BY DEF QueryLog
<1>2. /\ before(k) \in SUBSET all /\ k \in all /\ k \notin before(k)
      /\ all \in SUBSET (1 .. Len(l))
  BY <1>1
<1>3. \A j \in DOMAIN l : IsFiniteSet(before(j)) /\ Cardinality(before(j)) \in Nat
  <2> SUFFICES ASSUME NEW j \in DOMAIN l
               PROVE  IsFiniteSet(before(j)) /\ Cardinality(before(j)) \in Nat
    OBVIOUS
  <2>1. before(j) \in SUBSET (1 .. Len(l))
    BY <1>1
  <2>2. QED
    BY <1>1, <2>1, PositionsFinite
<1>4. IsFiniteSet(all) /\ Cardinality(all) \in Nat
  BY <1>1, <1>2, PositionsFinite
<1>5. \A j \in DOMAIN l : l[j].q = l[k].q /\ k <= j => before(k) \in SUBSET before(j)
  BY <1>1
<1>6. Ordinal(l, k) = Cardinality(before(k)) /\ CountQ(l, l[k].q) = Cardinality(all)
  BY DEF Ordinal, CountQ
<1>7. \A j \in DOMAIN l : Ordinal(l, j) = Cardinality(before(j))
  BY DEF Ordinal
<1> HIDE DEF before, all
<1>8. Cardinality(before(k)) < Cardinality(all)
  BY <1>2, <1>3, <1>4, FS_Subset
<1>9. ASSUME NEW j \in DOMAIN l, l[j].q = l[k].q, Ordinal(l, j) < Ordinal(l, k)
      PROVE  j < k
  <2>1. CASE k <= j
    <3>1. Cardinality(before(k)) <= Cardinality(before(j))
      BY <1>3, <1>5, <1>9, <2>1, FS_Subset
    <3>2. QED
      BY <1>3, <1>7, <1>9, <3>1
  <2>2. QED
    BY <1>1, <2>1
<1>10. QED
  BY <1>3, <1>6, <1>8, <1>9

\* Nothing has been asked of an empty log.
LEMMA CountEmpty == ASSUME NEW t PROVE CountQ(<<>>, t) = 0
<1>1. {k \in DOMAIN <<>> : <<>>[k].q = t} = {}
  OBVIOUS
<1>2. QED
  BY <1>1, FS_EmptySet DEF CountQ
=============================================================================
