------------------------ MODULE ConciseReportProofs -------------------------
(***************************************************************************)
(* What a report prints beside the rows of the single ranks, for any       *)
(* number of ranks, threads, callsites, calls, reports and resets: in a    *)
(* concise report the ranks that called a callsite, their sum and the      *)
(* extremes among them (ConciseAlways); the lists of the greatest, sorted  *)
(* and cut where they should be, with the totals of the calls              *)
(* (ListsAlways); and the rows of the histograms, which have the calls     *)
(* between the bounds that they print (HistogramsAlways).                  *)
(*                                                                         *)
(* The records of the collector represent the calls (CallsMerged, of       *)
(* CallsiteReportProofs), its totals do (TotalsMerged), and its histograms *)
(* are cells of their own, which have the calls (HistogramsKnown).  What   *)
(* is printed is made of them (ConcisePrinted, ListsPrinted,               *)
(* HistogramsPrinted).                                                     *)
(***************************************************************************)
EXTENDS CallsiteReportProofs

(***************************************************************************)
(* One row for a callsite.                                                 *)
(***************************************************************************)
(* The ranks that called x, with what they took, and those whose least     *)
(* counts.                                                                 *)
Callers(x) == {r \in Ranks : CallsOf({r}, {x}) # {}}
RankSum(x, f, r) == SumOf(CallsOf({r}, {x}), f)
Takers(x, f) ==
    IF setup.collective THEN {r \in Callers(x) : RankSum(x, f, r) > 0} ELSE Callers(x)
Greatest(x, f) == Max({RankSum(x, f, r) : r \in Callers(x)})
Least(x, f) == Min({RankSum(x, f, r) : r \in Takers(x, f)})
FirstWith(x, f, v) == Min({r \in Callers(x) : RankSum(x, f, r) = v})
Tasks(x, f) == IF f = "time" THEN Callers(x) ELSE Takers(x, f)

IsConcise(a) == a = [site |-> a.site, tasks |-> a.tasks, sum |-> a.sum, max |-> a.max,
                     min |-> a.min, maxRank |-> a.maxRank, minRank |-> a.minRank]

LEMMA ConciseForm ==
    ASSUME NEW x, NEW f
    PROVE  /\ IsConcise(ConciseFromCalls(x, f))
           /\ ConciseFromCalls(x, f).site = IdOf(x)
           /\ ConciseFromCalls(x, f).tasks = Cardinality(Tasks(x, f))
           /\ ConciseFromCalls(x, f).sum = SumOf(CallsOf(Ranks, {x}), f)
           /\ ConciseFromCalls(x, f).max = Greatest(x, f)
           /\ Greatest(x, f) > 0 =>
                 /\ ConciseFromCalls(x, f).min = Least(x, f)
                 /\ ConciseFromCalls(x, f).maxRank = FirstWith(x, f, Greatest(x, f))
                 /\ ConciseFromCalls(x, f).minRank = FirstWith(x, f, Least(x, f))
           /\ ~(Greatest(x, f) > 0) =>
                 /\ ConciseFromCalls(x, f).min = 0
                 /\ ConciseFromCalls(x, f).maxRank = NoRank
                 /\ ConciseFromCalls(x, f).minRank = NoRank
<1> DEFINE most == Greatest(x, f)
           least == IF most > 0 THEN Least(x, f) ELSE 0
           First(v) == IF most > 0 THEN FirstWith(x, f, v) ELSE NoRank
<1>1. ConciseFromCalls(x, f) =
         [site |-> IdOf(x), tasks |-> Cardinality(Tasks(x, f)),
          sum |-> SumOf(CallsOf(Ranks, {x}), f), max |-> most, min |-> least,
          maxRank |-> First(most), minRank |-> First(least)]
  BY DEF ConciseFromCalls, Tasks, Takers, Callers, Greatest, Least, FirstWith, RankSum
<1>2. /\ most > 0 => least = Least(x, f) /\ \A v : First(v) = FirstWith(x, f, v)
      /\ ~(most > 0) => least = 0 /\ \A v : First(v) = NoRank
  OBVIOUS
<1> HIDE DEF least, First
<1>3. /\ IsConcise(ConciseFromCalls(x, f))
      /\ ConciseFromCalls(x, f).site = IdOf(x)
      /\ ConciseFromCalls(x, f).tasks = Cardinality(Tasks(x, f))
      /\ ConciseFromCalls(x, f).sum = SumOf(CallsOf(Ranks, {x}), f)
      /\ ConciseFromCalls(x, f).max = most /\ ConciseFromCalls(x, f).min = least
      /\ ConciseFromCalls(x, f).maxRank = First(most)
      /\ ConciseFromCalls(x, f).minRank = First(least)
  BY <1>1 DEF IsConcise
<1>4. QED
  BY <1>2, <1>3

(* A printed row that has what the calls say. *)
LEMMA ConciseMatches ==
    ASSUME NEW x, NEW f, NEW a, IsConcise(a), a.site = IdOf(x),
           a.tasks = Cardinality(Tasks(x, f)), a.sum = SumOf(CallsOf(Ranks, {x}), f),
           a.max = Greatest(x, f),
           Greatest(x, f) > 0 => /\ a.min = Least(x, f)
                                 /\ a.maxRank = FirstWith(x, f, Greatest(x, f))
                                 /\ a.minRank = FirstWith(x, f, Least(x, f))
    PROVE  Definite(a) = ConciseFromCalls(x, f)
<1> DEFINE b == ConciseFromCalls(x, f)
<1>1. /\ IsConcise(b) /\ b.site = a.site /\ b.tasks = a.tasks /\ b.sum = a.sum /\ b.max = a.max
      /\ a.max > 0 => b.min = a.min /\ b.maxRank = a.maxRank /\ b.minRank = a.minRank
      /\ ~(a.max > 0) => b.min = 0 /\ b.maxRank = NoRank /\ b.minRank = NoRank
  BY ConciseForm
<1> HIDE DEF b
<1>2. CASE a.max > 0
  <2>1. Definite(a) = a
    BY <1>2 DEF Definite
  <2>2. QED
    BY <1>1, <1>2, <2>1 DEF IsConcise, b
<1>3. CASE ~(a.max > 0)
  <2>1. Definite(a) = [a EXCEPT !.min = 0, !.maxRank = NoRank, !.minRank = NoRank]
    BY <1>3 DEF Definite
  <2>2. Definite(a) = [site |-> a.site, tasks |-> a.tasks, sum |-> a.sum, max |-> a.max,
                       min |-> 0, maxRank |-> NoRank, minRank |-> NoRank]
    BY <2>1 DEF IsConcise
  <2>3. QED
    BY <1>1, <1>3, <2>2 DEF IsConcise, b
<1>4. QED
  BY <1>2, <1>3

LEMMA CallersKnown ==
    ASSUME RecordsKnown, NEW x, NEW f \in Fields
    PROVE  /\ IsFiniteSet(Callers(x))
           /\ x \in Keys => Callers(x) # {}
           /\ \A r : RankSum(x, f, r) \in Nat
           /\ \A r \in Ranks : r \notin Callers(x) => RankSum(x, f, r) = 0
<1>1. \A r, X : CallsOf({r}, X) \in SUBSET DOMAIN calls /\ calls \in Bags
  BY CallsOfFacts
<1>2. \A r : RankSum(x, f, r) = Amount(calls, CallsOf({r}, {x}), f)
  BY <1>1, SumsOfCalls DEF RankSum
<1>3. \A r : RankSum(x, f, r) \in Nat
  <2>1. SUFFICES ASSUME NEW r
                 PROVE  RankSum(x, f, r) \in Nat
    OBVIOUS
  <2> DEFINE K == CallsOf({r}, {x})
  <2>2. K \in SUBSET DOMAIN calls /\ calls \in Bags /\ RankSum(x, f, r) = Amount(calls, K, f)
    BY <1>1, <1>2
  <2> HIDE DEF K
  <2>3. QED
    BY <2>2, BagFacts
<1>4. \A r \in Ranks : r \notin Callers(x) => RankSum(x, f, r) = 0
  BY <1>2, SumEmpty DEF Callers, Amount
<1>5. IsFiniteSet(Callers(x))
  BY FS_Subset, ReportAssumption DEF Callers
<1>6. ASSUME x \in Keys
      PROVE  Callers(x) # {}
  <2>1. PICK k \in Counted : Key(k.site) = x
    BY <1>6 DEF Keys
  <2>2. k.rank \in Ranks
    <3>1. calls \in Bags /\ Counted \in SUBSET DOMAIN calls
      BY CallFacts
    <3>2. QED
      BY <3>1, BagFacts
  <2>3. k \in CallsOf({k.rank}, {x})
    BY <2>1 DEF CallsOf
  <2>4. QED
    BY <2>2, <2>3 DEF Callers
<1>7. QED
  BY <1>3, <1>4, <1>5, <1>6

HasSums(S, x, f) == \A p \in S : p.rank \in Ranks /\ p.sum[f] = RankSum(x, f, p.rank)
SumIn(S, f) == Total(S, LAMBDA p : p.sum[f])

(* The records of a callsite say what its callers took. *)
LEMMA SumsKnown ==
    ASSUME RecordsKnown, NEW S, NEW x, NEW f \in Fields, DataOf(S, x, f)
    PROVE  /\ HasSums(S, x, f)
           /\ \A p \in S : p.count > 0 <=> p.rank \in Callers(x)
           /\ \A p, q \in S : p.rank = q.rank => p = q
           /\ \A r \in Callers(x) : \E p \in S : p.rank = r
           /\ SumIn(S, f) = SumOf(CallsOf(Ranks, {x}), f)
<1>1. \A r, X : CallsOf({r}, X) \in SUBSET DOMAIN calls /\ calls \in Bags
  BY CallsOfFacts
<1>2. ASSUME NEW r
      PROVE  /\ Count(calls, CallsOf({r}, {x})) > 0 <=> CallsOf({r}, {x}) # {}
             /\ SumOf(CallsOf({r}, {x}), f) = Amount(calls, CallsOf({r}, {x}), f)
  <2> DEFINE K == CallsOf({r}, {x})
  <2>1. K \in SUBSET DOMAIN calls /\ calls \in Bags
    BY <1>1
  <2> HIDE DEF K
  <2>2. ASSUME K # {}
        PROVE  Count(calls, K) > 0
    BY <2>1, <2>2, AmountAbove
  <2>3. ASSUME K = {}
        PROVE  ~(Count(calls, K) > 0)
    <3>1. Count(calls, K) = 0
      BY <2>3, SumEmpty DEF Count
    <3>2. QED
      BY <3>1
  <2>4. SumOf(K, f) = Amount(calls, K, f)
    BY <2>1, SumsOfCalls
  <2>5. QED
    BY <2>2, <2>3, <2>4 DEF K
<1>3. ASSUME NEW p \in S
      PROVE  /\ p.rank \in Ranks /\ p.sum[f] = RankSum(x, f, p.rank)
             /\ p.count > 0 <=> p.rank \in Callers(x)
  <2>1. /\ p.rank \in Ranks /\ p.count = Count(calls, CallsOf({p.rank}, {x}))
        /\ p.sum[f] = Amount(calls, CallsOf({p.rank}, {x}), f)
    BY DataFacts, ZenonT(60)
  <2>2. QED
    BY <1>2, <2>1 DEF RankSum, Callers
<1>4. ASSUME NEW r \in Callers(x)
      PROVE  \E p \in S : p.rank = r
  <2>1. r \in Ranks /\ CallsOf({r}, {x}) # {}
    BY DEF Callers
  <2>2. PICK k : k \in CallsOf({r}, {x})
    BY <2>1
  <2>3. k \in CallsOf(Ranks, {x}) /\ k.rank = r
    BY <2>1, <2>2 DEF CallsOf
  <2>4. QED
    BY <2>1, <2>3 DEF DataOf
<1>5. CallsOf(RanksOf(S), {x}) = CallsOf(Ranks, {x})
  <2>1. RanksOf(S) \subseteq Ranks
    BY <1>3 DEF RanksOf
  <2>2. \A k \in CallsOf(Ranks, {x}) : k.rank \in RanksOf(S)
    BY DEF DataOf, RanksOf
  <2>3. QED
    BY <2>1, <2>2 DEF CallsOf
<1>6. SummaryRow(0, S, f).sum = SumOf(CallsOf(RanksOf(S), {x}), f)
  <2>1. S \in SUBSET S
    OBVIOUS
  <2>2. QED
    BY <2>1, SumsOver
<1>7. SummaryRow(0, S, f).sum = SumIn(S, f)
  BY DEF SummaryRow, SumIn
<1>8. \A p, q \in S : p.rank = q.rank => p = q
  BY DEF DataOf
<1>9. HasSums(S, x, f)
  BY <1>3 DEF HasSums
<1>10. QED
  BY <1>3, <1>4, <1>5, <1>6, <1>7, <1>8, <1>9

(* The greatest sum of a rank, and who has it. *)
LEMMA GreatestKnown ==
    ASSUME RecordsKnown, NEW x \in Keys, NEW f \in Fields
    PROVE  /\ Greatest(x, f) \in Nat
           /\ \E r \in Callers(x) : RankSum(x, f, r) = Greatest(x, f)
           /\ \A r \in Callers(x) : RankSum(x, f, r) <= Greatest(x, f)
<1> DEFINE V == {RankSum(x, f, r) : r \in Callers(x)}
<1>1. IsFiniteSet(Callers(x)) /\ Callers(x) # {} /\ \A r : RankSum(x, f, r) \in Nat
  BY CallersKnown
<1>2. IsFiniteSet(V)
  <2> DEFINE i == [r \in Callers(x) |-> RankSum(x, f, r)]
  <2>1. i \in Surjection(Callers(x), V)
    BY DEF Surjection
  <2> HIDE DEF i, V
  <2>2. QED
    BY <1>1, <2>1, FS_Surjection
<1>3. V # {} /\ V \subseteq Int /\ V \subseteq Nat
  BY <1>1
<1>4. PICK m \in V : \A n \in V : n <= m
  <2> HIDE DEF V
  <2>1. QED
    BY <1>2, <1>3, GreatestInteger
<1>5. Max(V) = m
  <2> HIDE DEF V
  <2>1. QED
    BY <1>3, <1>4, MaxIs
<1>6. Greatest(x, f) = m
  BY <1>5 DEF Greatest
<1>7. QED
  BY <1>3, <1>4, <1>6

(* The number of the records is that of their ranks. *)
LEMMA OnePerRank ==
    ASSUME NEW S, IsFiniteSet(S), \A p, q \in S : p.rank = q.rank => p = q, NEW C,
           \A p \in S : p.rank \in C, \A r \in C : \E p \in S : p.rank = r
    PROVE  Cardinality(S) = Cardinality(C)
<1> DEFINE i == [p \in S |-> p.rank]
<1>1. i \in [S -> C] /\ \A p \in S : i[p] = p.rank
  OBVIOUS
<1> HIDE DEF i
<1>2. i \in Bijection(S, C)
  BY <1>1 DEF Bijection, Injection, Surjection, IsInjective
<1>3. QED
  BY <1>2, FS_Bijection DEF ExistsBijection

(* The collector alone: the records are those of the callers. *)
LEMMA ConciseRowKnown ==
    ASSUME RecordsKnown, ~setup.collective, NEW x \in Keys, NEW f \in Fields,
           NEW S, DataOf(S, x, f), \A p \in S : p.rank \in Callers(x)
    PROVE  Definite(ConciseRow(IdOf(x), S, f)) = ConciseFromCalls(x, f)
<1> DEFINE value == [p \in S |-> p.sum[f]]
           own == [p \in S |-> p.rank]
           V == {RankSum(x, f, r) : r \in Callers(x)}
           G == Greatest(x, f)
           e == Extremes(value, own)
           a == ConciseRow(IdOf(x), S, f)
<1>1. /\ \A p \in S : p.rank \in Ranks /\ p.sum[f] = RankSum(x, f, p.rank)
      /\ \A p, q \in S : p.rank = q.rank => p = q
      /\ \A r \in Callers(x) : \E p \in S : p.rank = r
      /\ SumIn(S, f) = SumOf(CallsOf(Ranks, {x}), f)
  <2>1. \A p, q \in S : p.rank = q.rank => p = q
    BY SumsKnown
  <2>2. \A r \in Callers(x) : \E p \in S : p.rank = r
    BY SumsKnown
  <2>3. SumIn(S, f) = SumOf(CallsOf(Ranks, {x}), f)
    BY SumsKnown
  <2>4. HasSums(S, x, f)
    BY SumsKnown
  <2>5. QED
    BY <2>1, <2>2, <2>3, <2>4 DEF HasSums
<1>2. /\ G \in Nat /\ \E r \in Callers(x) : RankSum(x, f, r) = G
      /\ \A r \in Callers(x) : RankSum(x, f, r) <= G
  BY GreatestKnown
<1>3. \A r : RankSum(x, f, r) \in Nat
  BY CallersKnown
<1>4. DOMAIN value = S /\ \A p \in S : value[p] = RankSum(x, f, p.rank)
  BY <1>1
<1>5. Range(value) = V
  <2> HIDE DEF value
  <2>1. QED
    BY <1>1, <1>4 DEF Range
<1>6. Max(V) = G /\ Max(V \cup {0}) = G
  <2>1. V \subseteq Nat /\ G \in V /\ \A n \in V : n <= G
    BY <1>2, <1>3
  <2> HIDE DEF V, G
  <2>2. Max(V) = G
    BY <2>1, MaxIs
  <2>3. V \cup {0} \in SUBSET Int /\ G \in V \cup {0} /\ \A n \in V \cup {0} : n <= G
    BY <1>2, <2>1
  <2>4. Max(V \cup {0}) = G
    BY <2>3, MaxIs
  <2>5. QED
    BY <2>2, <2>4
<1>7. Min(V) = Least(x, f)
  BY DEF Least, Takers
<1>8. ASSUME NEW v
      PROVE  {own[p] : p \in {q \in DOMAIN value : value[q] = v}}
                = {r \in Callers(x) : RankSum(x, f, r) = v}
  <2>1. \A p \in S : own[p] = p.rank
    OBVIOUS
  <2> HIDE DEF value, own
  <2>2. QED
    BY <1>1, <1>4, <2>1
<1>9. Total(DOMAIN value, LAMBDA p : value[p]) = SumOf(CallsOf(Ranks, {x}), f)
  <2>1. [p \in DOMAIN value |-> value[p]] = [p \in S |-> p.sum[f]]
    OBVIOUS
  <2>2. Total(DOMAIN value, LAMBDA p : value[p]) = SumIn(S, f)
    BY <2>1 DEF Total, SumIn
  <2>3. QED
    BY <1>1, <2>2
<1>10. /\ e.max = G /\ e.min = Least(x, f) /\ e.sum = SumOf(CallsOf(Ranks, {x}), f)
       /\ G > 0 => e.maxRank = FirstWith(x, f, G)
       /\ e.minRank = FirstWith(x, f, Least(x, f))
  <2> DEFINE At(v) == Min({own[p] : p \in {q \in DOMAIN value : value[q] = v}})
  <2>1. \A v : At(v) = FirstWith(x, f, v)
    BY <1>8 DEF FirstWith
  <2>2. e = [max |-> Max(V \cup {0}), min |-> Min(V),
             maxRank |-> IF Max(V) > 0 THEN At(Max(V)) ELSE NoRank,
             minRank |-> At(Min(V)), sum |-> Total(DOMAIN value, LAMBDA p : value[p])]
    <3> HIDE DEF value, own, V
    <3>1. QED
      BY <1>5 DEF Extremes
  <2> HIDE DEF value, own, V, At, G, e
  <2>3. QED
    BY <1>6, <1>7, <1>9, <2>1, <2>2
<1>11. Tasks(x, f) = Callers(x)
  BY DEF Tasks, Takers
<1>12. Cardinality(S) = Cardinality(Tasks(x, f))
  <2>1. IsFiniteSet(S)
    BY DEF DataOf
  <2>2. QED
    BY <1>1, <1>11, <2>1, OnePerRank
<1>13. a = [site |-> IdOf(x), tasks |-> Cardinality(S), sum |-> e.sum, max |-> e.max,
            min |-> e.min, maxRank |-> e.maxRank, minRank |-> e.minRank]
  BY DEF ConciseRow
<1> HIDE DEF e, a, G
<1>14. /\ IsConcise(a) /\ a.site = IdOf(x) /\ a.tasks = Cardinality(Tasks(x, f))
       /\ a.sum = SumOf(CallsOf(Ranks, {x}), f) /\ a.max = Greatest(x, f)
       /\ Greatest(x, f) > 0 => /\ a.min = Least(x, f)
                                /\ a.maxRank = FirstWith(x, f, Greatest(x, f))
                                /\ a.minRank = FirstWith(x, f, Least(x, f))
  BY <1>10, <1>12, <1>13 DEF IsConcise, G
<1>15. QED
  BY <1>14, ConciseMatches DEF a

(* Together: a sum is a double, not greater than the greatest one. *)
SumsFit ==
    setup.collective =>
        \A x \in Keys, r \in Ranks : \A f \in Fields : SumOf(CallsOf({r}, {x}), f) <= Large

LEMMA LeastKnown ==
    ASSUME RecordsKnown, setup.collective, NEW x \in Keys, NEW f \in Fields, Greatest(x, f) > 0
    PROVE  /\ Takers(x, f) = {r \in Callers(x) : RankSum(x, f, r) > 0}
           /\ \E r \in Takers(x, f) : RankSum(x, f, r) = Least(x, f)
           /\ \A r \in Takers(x, f) : Least(x, f) <= RankSum(x, f, r)
           /\ Least(x, f) \in Nat
<1> DEFINE C == Takers(x, f)
           V == {RankSum(x, f, r) : r \in C}
<1>1. IsFiniteSet(Callers(x)) /\ \A r : RankSum(x, f, r) \in Nat
  BY CallersKnown
<1>2. C = {r \in Callers(x) : RankSum(x, f, r) > 0}
  BY DEF Takers
<1>3. C # {}
  <2>1. PICK r \in Callers(x) : RankSum(x, f, r) = Greatest(x, f)
    BY GreatestKnown
  <2>2. QED
    BY <1>2, <2>1
<1>4. IsFiniteSet(C)
  BY <1>1, <1>2, FS_Subset
<1>5. IsFiniteSet(V)
  <2> DEFINE i == [r \in C |-> RankSum(x, f, r)]
  <2>1. i \in Surjection(C, V)
    BY DEF Surjection
  <2> HIDE DEF i, V, C
  <2>2. QED
    BY <1>4, <2>1, FS_Surjection
<1>6. V # {} /\ V \subseteq Int /\ V \subseteq Nat
  BY <1>1, <1>3
<1>7. PICK m \in V : \A n \in V : m <= n
  <2> HIDE DEF V
  <2>1. QED
    BY <1>5, <1>6, LeastInteger
<1>8. Min(V) = m
  <2> HIDE DEF V
  <2>1. QED
    BY <1>6, <1>7, MinIs
<1>9. Least(x, f) = m
  BY <1>8 DEF Least
<1>10. QED
  BY <1>2, <1>6, <1>7, <1>9

LEMMA ReducedRowKnown ==
    ASSUME RecordsKnown, setup.collective, SumsFit, NEW x \in Keys, NEW f \in Fields,
           NEW data, \A r \in Ranks : data[r].rank = r,
           NEW S, S = {data[r] : r \in Ranks}, DataOf(S, x, f)
    PROVE  Definite(ReducedRow(IdOf(x), data, f, Tasks(x, f))) = ConciseFromCalls(x, f)
<1> DEFINE active == Active(S, f)
           G == Greatest(x, f)
           V == {p.sum[f] : p \in S}
           W == {p.sum[f] : p \in active}
           greatest == Max(V)
           least == Min(W \cup {Large})
           At(v, T) == Min({p.rank : p \in {q \in T : q.sum[f] = v}} \cup
                           IF T = {} THEN Ranks ELSE {})
           a == ReducedRow(IdOf(x), data, f, Tasks(x, f))
<1>1. HasSums(S, x, f) /\ SumIn(S, f) = SumOf(CallsOf(Ranks, {x}), f)
  BY SumsKnown
<1>2. /\ G \in Nat /\ \E r \in Callers(x) : RankSum(x, f, r) = G
      /\ \A r \in Callers(x) : RankSum(x, f, r) <= G
  BY GreatestKnown
<1>3. /\ \A r : RankSum(x, f, r) \in Nat
      /\ \A r \in Ranks : r \notin Callers(x) => RankSum(x, f, r) = 0
  BY CallersKnown
<1>4. \A r \in Ranks : \E p \in S : p.rank = r
  OBVIOUS
<1>5. \A p \in S : p.rank \in Ranks /\ p.sum[f] = RankSum(x, f, p.rank)
  BY <1>1 DEF HasSums
<1>6. Callers(x) \subseteq Ranks /\ S # {}
  BY ReportAssumption DEF Callers
<1>7. greatest = G
  <2>1. V \in SUBSET Int /\ G \in V /\ \A n \in V : n <= G
    <3>1. V \subseteq Nat
      BY <1>3, <1>5
    <3>2. G \in V
      <4>1. PICK r \in Callers(x) : RankSum(x, f, r) = G
        BY <1>2
      <4>2. PICK p \in S : p.rank = r
        BY <1>4, <1>6
      <4>3. p.sum[f] = G
        BY <1>5, <4>1, <4>2
      <4>4. QED
        BY <4>3
    <3>3. \A p \in S : p.sum[f] <= G
      <4>1. \A r \in Ranks : RankSum(x, f, r) <= G
        BY <1>2, <1>3
      <4>2. QED
        BY <1>5, <4>1
    <3>4. QED
      BY <3>1, <3>2, <3>3
  <2> HIDE DEF V
  <2>2. QED
    BY <2>1, MaxIs
<1>8. a = [site |-> IdOf(x), max |-> greatest, min |-> least,
           maxRank |-> At(greatest, S), minRank |-> At(least, active),
           sum |-> SumIn(S, f), tasks |-> Cardinality(Tasks(x, f))]
  BY DEF ReducedRow, SumIn
<1>9. ASSUME G > 0
      PROVE  /\ least = Least(x, f) /\ At(greatest, S) = FirstWith(x, f, G)
             /\ At(least, active) = FirstWith(x, f, Least(x, f))
  <2> DEFINE m == Least(x, f)
  <2>1. /\ Takers(x, f) = {r \in Callers(x) : RankSum(x, f, r) > 0}
        /\ \E r \in Takers(x, f) : RankSum(x, f, r) = m
        /\ \A r \in Takers(x, f) : m <= RankSum(x, f, r)
        /\ m \in Nat
    BY <1>9, LeastKnown
  <2>2. \A r \in Ranks : r \in Takers(x, f) <=> RankSum(x, f, r) > 0
    BY <1>3, <2>1
  <2>3. \A p : p \in active <=> p \in S /\ p.rank \in Takers(x, f)
    BY <1>5, <2>2 DEF Active
  <2>4. \A r \in Takers(x, f) : r \in Ranks /\ r \in Callers(x) /\ RankSum(x, f, r) <= Large
    <3>1. \A r \in Ranks : RankSum(x, f, r) <= Large
      BY DEF SumsFit, RankSum
    <3>2. QED
      BY <1>6, <2>1, <3>1
  <2>5. W \in SUBSET Int /\ m \in W /\ (\A n \in W : m <= n) /\ m <= Large
    <3>1. W \subseteq Int
      <4>1. \A p \in active : p.sum[f] \in Nat
        BY <1>3, <1>5, <2>3
      <4> HIDE DEF active
      <4>2. QED
        BY <4>1
    <3>2. m \in W /\ m <= Large
      <4>1. PICK r \in Takers(x, f) : RankSum(x, f, r) = m
        BY <2>1
      <4>2. PICK p \in S : p.rank = r
        BY <1>4, <2>4
      <4>3. p.sum[f] = m /\ p \in active
        BY <1>5, <2>3, <4>1, <4>2
      <4>4. QED
        BY <2>4, <4>1, <4>3
    <3>3. \A p \in active : m <= p.sum[f]
      BY <1>5, <2>1, <2>3
    <3>4. QED
      BY <3>1, <3>2, <3>3
  <2>6. least = m
    <3> HIDE DEF W, m
    <3>1. W \cup {Large} \in SUBSET Int /\ m \in W \cup {Large} /\ \A n \in W \cup {Large} : m <= n
      BY <2>5, FieldsFacts
    <3>2. QED
      BY <3>1, MinIs
  <2>7. active # {}
    BY <2>5
  <2>8. {p.rank : p \in {q \in S : q.sum[f] = G}} = {r \in Callers(x) : RankSum(x, f, r) = G}
    <3>1. \A r \in Ranks : RankSum(x, f, r) = G => r \in Callers(x)
      BY <1>3, <1>9
    <3>2. QED
      BY <1>4, <1>5, <1>6, <3>1
  <2>9. {p.rank : p \in {q \in active : q.sum[f] = m}} = {r \in Callers(x) : RankSum(x, f, r) = m}
    <3>1. \A r \in Callers(x) : RankSum(x, f, r) = m => r \in Takers(x, f)
      <4>1. m > 0
        BY <1>6, <2>1, <2>2, <2>4
      <4>2. QED
        BY <2>1, <4>1
    <3>2. \A r \in Takers(x, f) : \E p \in active : p.rank = r
      BY <1>4, <2>3, <2>4
    <3>3. \A p \in active : p.rank \in Takers(x, f) /\ p.sum[f] = RankSum(x, f, p.rank)
      BY <1>5, <2>3
    <3> HIDE DEF active, m
    <3>4. QED
      BY <2>4, <3>1, <3>2, <3>3
  <2>10. At(greatest, S) = FirstWith(x, f, G)
    <3> HIDE DEF G, greatest
    <3>1. QED
      BY <1>6, <1>7, <2>8 DEF FirstWith
  <2>11. At(least, active) = FirstWith(x, f, m)
    <3> HIDE DEF least, active, m
    <3>1. QED
      BY <2>6, <2>7, <2>9 DEF FirstWith
  <2>12. QED
    BY <2>6, <2>10, <2>11
<1> HIDE DEF a, greatest, least, At, active, G
<1>10. /\ IsConcise(a) /\ a.site = IdOf(x) /\ a.tasks = Cardinality(Tasks(x, f))
       /\ a.sum = SumOf(CallsOf(Ranks, {x}), f) /\ a.max = Greatest(x, f)
       /\ Greatest(x, f) > 0 => /\ a.min = Least(x, f)
                                /\ a.maxRank = FirstWith(x, f, Greatest(x, f))
                                /\ a.minRank = FirstWith(x, f, Least(x, f))
  BY <1>1, <1>7, <1>8, <1>9 DEF IsConcise, G
<1>11. QED
  BY <1>10, ConciseMatches DEF a

-----------------------------------------------------------------------------
(***************************************************************************)
(* The sections that the collector prints alone.                           *)
(***************************************************************************)
(* The callsites that a section shows, and their rows. *)
Told(f) == IF f = "time" THEN Keys ELSE {x \in Keys : SumOf(CallsOf(Ranks, {x}), f) > 0}
ConciseFor(X, f) == {ConciseFromCalls(x, f) : x \in X \cap Told(f)}
Definites(S) == {Definite(row) : row \in S}

(* A sum is positive if an amount is. *)
LEMMA SumPositive ==
    ASSUME RecordsKnown, NEW x, NEW f \in Fields, NEW R
    PROVE  SumOf(CallsOf(R, {x}), f) > 0 <=> \E k \in CallsOf(R, {x}) : k.amount[f] > 0
<1> DEFINE L == CallsOf(R, {x})
<1>1. L \in SUBSET DOMAIN calls /\ calls \in Bags
  BY CallsOfFacts
<1> HIDE DEF L
<1>2. SumOf(L, f) = Amount(calls, L, f)
  BY <1>1, SumsOfCalls
<1>3. Amount(calls, L, f) > 0 <=> \E k \in L : k.amount[f] > 0
  BY <1>1, AmountZero
<1>4. QED
  BY <1>2, <1>3 DEF L

LEMMA ToldBySum ==
    ASSUME RecordsKnown, NEW x \in Keys, NEW f \in Fields, f # "time"
    PROVE  x \in Told(f) <=> \E r \in Callers(x) : RankSum(x, f, r) > 0
<1>1. \A R : SumOf(CallsOf(R, {x}), f) > 0 <=> \E k \in CallsOf(R, {x}) : k.amount[f] > 0
  BY SumPositive
<1>2. x \in Told(f) <=> \E k \in CallsOf(Ranks, {x}) : k.amount[f] > 0
  BY <1>1 DEF Told
<1>3. \A r : RankSum(x, f, r) > 0 <=> \E k \in CallsOf({r}, {x}) : k.amount[f] > 0
  BY <1>1 DEF RankSum
<1>4. ASSUME NEW k \in CallsOf(Ranks, {x}), k.amount[f] > 0
      PROVE  \E r \in Callers(x) : RankSum(x, f, r) > 0
  <2>1. k.rank \in Ranks /\ k \in CallsOf({k.rank}, {x})
    BY DEF CallsOf
  <2>2. k.rank \in Callers(x)
    BY <2>1 DEF Callers
  <2>3. QED
    BY <1>3, <1>4, <2>1, <2>2
<1>5. ASSUME NEW r \in Callers(x), RankSum(x, f, r) > 0
      PROVE  \E k \in CallsOf(Ranks, {x}) : k.amount[f] > 0
  <2>1. r \in Ranks
    BY DEF Callers
  <2>2. PICK k \in CallsOf({r}, {x}) : k.amount[f] > 0
    BY <1>3, <1>5
  <2>3. k \in CallsOf(Ranks, {x})
    BY <2>1 DEF CallsOf
  <2>4. QED
    BY <2>2, <2>3
<1>6. QED
  BY <1>2, <1>4, <1>5

(* The sites that a section of the collector takes are those told. *)
LEMMA ToldSites ==
    ASSUME NEW h, Whole(h), h.stats \subseteq RecordsOf(Ranks), ~setup.collective, NEW f \in Fields
    PROVE  /\ f = "time" => SitesOf(h.stats) = {IdOf(x) : x \in Told(f)}
           /\ f # "time" => SitesOf(Active(h.stats, f)) = {IdOf(x) : x \in Told(f)}
<1> DEFINE S(x) == OfSite(h.stats, IdOf(x))
<1>1. RecordsKnown
  BY DEF Whole
<1>2. \A x \in Keys : DataOf(S(x), x, f)
  BY StatsData
<1>3. \A p \in h.stats : \E x \in Keys : p \in S(x)
  BY StatsSite
<1>4. \A x, p : p \in S(x) <=> p \in h.stats /\ p.csid = IdOf(x)
  BY DEF OfSite
<1> HIDE DEF S
<1>5. ASSUME NEW x \in Keys
      PROVE  HasSums(S(x), x, f) /\ \A r \in Callers(x) : \E p \in S(x) : p.rank = r
  BY <1>1, <1>2, SumsKnown
<1>6. ASSUME NEW x \in Keys
      PROVE  /\ \A p \in S(x) : p.rank \in Ranks /\ p.sum[f] = RankSum(x, f, p.rank)
             /\ Callers(x) # {}
             /\ \A r \in Ranks : r \notin Callers(x) => RankSum(x, f, r) = 0
  BY <1>1, <1>5, CallersKnown DEF HasSums
<1>7. ASSUME f = "time"
      PROVE  SitesOf(h.stats) = {IdOf(x) : x \in Told(f)}
  <2>1. Told(f) = Keys
    BY <1>7 DEF Told
  <2>2. ASSUME NEW x \in Keys
        PROVE  \E p \in h.stats : p.csid = IdOf(x)
    BY <1>4, <1>5, <1>6
  <2>3. \A p \in h.stats : \E x \in Keys : p.csid = IdOf(x)
    BY <1>3, <1>4
  <2>4. QED
    BY <2>1, <2>2, <2>3 DEF SitesOf
<1>8. ASSUME f # "time"
      PROVE  SitesOf(Active(h.stats, f)) = {IdOf(x) : x \in Told(f)}
  <2>1. \A x \in Keys : x \in Told(f) <=> \E r \in Callers(x) : RankSum(x, f, r) > 0
    BY <1>1, <1>8, ToldBySum
  <2>2. ASSUME NEW x \in Told(f)
        PROVE  \E p \in Active(h.stats, f) : p.csid = IdOf(x)
    <3>1. x \in Keys
      BY DEF Told
    <3>2. PICK r \in Callers(x) : RankSum(x, f, r) > 0
      BY <2>1, <3>1
    <3>3. PICK p \in S(x) : p.rank = r
      BY <1>5, <3>1
    <3>4. p \in h.stats /\ p.csid = IdOf(x) /\ p.sum[f] > 0
      BY <1>4, <1>6, <3>1, <3>2, <3>3
    <3>5. QED
      BY <3>4 DEF Active
  <2>3. ASSUME NEW p \in Active(h.stats, f)
        PROVE  \E x \in Told(f) : p.csid = IdOf(x)
    <3>1. p \in h.stats /\ p.sum[f] > 0
      BY DEF Active
    <3>2. PICK x \in Keys : p \in S(x)
      BY <1>3, <3>1
    <3>3. p.rank \in Ranks /\ RankSum(x, f, p.rank) > 0
      BY <1>6, <3>1, <3>2
    <3>4. p.rank \in Callers(x)
      BY <1>6, <3>2, <3>3
    <3>5. x \in Told(f) /\ p.csid = IdOf(x)
      BY <1>4, <2>1, <3>2, <3>3, <3>4
    <3>6. QED
      BY <3>5
  <2>4. QED
    BY <2>2, <2>3 DEF SitesOf
<1>9. QED
  BY <1>7, <1>8

LEMMA KeysFinite ==
    ASSUME RecordsKnown, NamesKnown, AllNamed, NEW X, X \subseteq Keys
    PROVE  IsFiniteSet(X) /\ Cardinality({IdOf(x) : x \in X}) = Cardinality(X)
<1> DEFINE k == [c \in Counted |-> Key(c.site)]
           i == [x \in X |-> IdOf(x)]
           J == {IdOf(x) : x \in X}
<1>1. IsFiniteSet(Counted)
  BY CallFacts, FS_Subset
<1>2. k \in Surjection(Counted, Keys)
  BY DEF Surjection, Keys
<1>3. IsFiniteSet(Keys)
  <2> HIDE DEF k
  <2>1. QED
    BY <1>1, <1>2, FS_Surjection
<1>4. IsFiniteSet(X)
  BY <1>3, FS_Subset
<1>5. \A x, y \in X : IdOf(x) = IdOf(y) => x = y
  BY KeyNumbers
<1>6. i \in Surjection(X, J) /\ i \in Injection(X, J)
  BY <1>5 DEF Surjection, Injection, IsInjective
<1> HIDE DEF i, J
<1>7. Cardinality(J) = Cardinality(X)
  BY <1>4, <1>6, FS_Surjection
<1>8. QED
  BY <1>4, <1>7 DEF J

LEMMA ConciseRowsKnown ==
    ASSUME NEW h, Whole(h), h.stats \subseteq RecordsOf(Ranks), ~setup.collective, NEW f \in Fields
    PROVE  Definites(ConciseRows(h.stats, f, {IdOf(x) : x \in Told(f)})) = ConciseFor(Keys, f)
<1> DEFINE row(site) == ConciseRow(site, OfSite(h.stats, site), f)
<1>1. Told(f) \subseteq Keys
  BY DEF Told
<1>2. ASSUME NEW x \in Keys
      PROVE  Definite(row(IdOf(x))) = ConciseFromCalls(x, f)
  <2> DEFINE S == OfSite(h.stats, IdOf(x))
  <2>1. RecordsKnown /\ DataOf(S, x, f)
    BY StatsData DEF Whole
  <2>2. \A p \in S : p.count > 0
    BY StatsSite DEF OfSite
  <2> HIDE DEF S
  <2>3. \A p \in S : p.count > 0 <=> p.rank \in Callers(x)
    BY <2>1, SumsKnown
  <2>4. \A p \in S : p.rank \in Callers(x)
    BY <2>2, <2>3
  <2>5. Definite(ConciseRow(IdOf(x), S, f)) = ConciseFromCalls(x, f)
    BY <2>1, <2>4, ConciseRowKnown
  <2>6. QED
    BY <2>5 DEF S
<1>3. ConciseRows(h.stats, f, {IdOf(x) : x \in Told(f)}) = {row(IdOf(x)) : x \in Told(f)}
  BY DEF ConciseRows
<1> HIDE DEF row
<1>4. Definites({row(IdOf(x)) : x \in Told(f)}) = {Definite(row(IdOf(x))) : x \in Told(f)}
  BY DEF Definites
<1>5. {Definite(row(IdOf(x))) : x \in Told(f)} = {ConciseFromCalls(x, f) : x \in Told(f)}
  BY <1>1, <1>2
<1>6. ConciseFor(Keys, f) = {ConciseFromCalls(x, f) : x \in Told(f)}
  BY <1>1 DEF ConciseFor
<1>7. QED
  BY <1>3, <1>4, <1>5, <1>6

(* A section whose total is zero has no callsite. *)
LEMMA NoneTold ==
    ASSUME NEW h, Whole(h), NEW f \in Fields, f # "time", ~(h.total[f] > 0)
    PROVE  Told(f) = {}
<1>1. RecordsKnown /\ h.total[f] \in Nat /\ \A k \in Counted : k.amount[f] <= h.total[f]
  BY DEF Whole, HasCalls
<1>2. calls \in Bags /\ Counted \in SUBSET DOMAIN calls
  BY <1>1, CallFacts
<1>3. \A k \in Counted : k.amount[f] \in Nat
  BY <1>2, BagFacts
<1>4. \A k \in Counted : ~(k.amount[f] > 0)
  BY <1>1, <1>3
<1>5. ASSUME NEW x \in Told(f)
      PROVE  FALSE
  <2>1. SumOf(CallsOf(Ranks, {x}), f) > 0
    BY DEF Told
  <2>2. PICK k \in CallsOf(Ranks, {x}) : k.amount[f] > 0
    BY <1>1, <2>1, SumPositive
  <2>3. k \in Counted
    BY DEF CallsOf
  <2>4. QED
    BY <1>4, <2>2, <2>3
<1>6. QED
  BY <1>5

(* What the collector prints of its tables h. *)
ConciseOf(h, f) ==
    CASE f = "time" -> ConciseTime(h, srcs) [] f = "sent" -> ConciseSent(h)
      [] f = "io" -> ConciseIO(h) [] f = "rma" -> ConciseRMA(h)

LEMMA ConciseSectionKnown ==
    ASSUME NEW h, Whole(h), h.stats \subseteq RecordsOf(Ranks), ~setup.collective,
           NEW f \in Fields, Cardinality(SitesOf(h.stats)) <= Cardinality(srcs)
    PROVE  Definites(ConciseOf(h, f)) =
              IF f # "time" /\ Cardinality(Told(f)) = 1 THEN {} ELSE ConciseFor(Keys, f)
<1> DEFINE J == {IdOf(x) : x \in Told(f)}
<1>1. Told(f) \subseteq Keys
  BY DEF Told
<1>2. IsFiniteSet(Told(f)) /\ Cardinality(J) = Cardinality(Told(f)) /\ Cardinality(Told(f)) \in Nat
  BY <1>1, KeysFinite, FS_CardinalityType DEF Whole
<1>3. Definites(ConciseRows(h.stats, f, J)) = ConciseFor(Keys, f)
  BY ConciseRowsKnown
<1>4. Definites(Absent) = {}
  BY DEF Definites, Absent
<1>5. /\ f = "time" => SitesOf(h.stats) = J
      /\ f # "time" => SitesOf(Active(h.stats, f)) = J
  BY ToldSites
<1> HIDE DEF J
<1>6. CASE f = "time"
  <2>1. SitesOf(h.stats) = J /\ Told(f) = Keys
    BY <1>5, <1>6 DEF Told
  <2>2. IsFiniteSet(srcs)
    BY DEF Whole, NamesKnown
  <2>3. Cardinality(srcs) \in Nat /\ Cardinality(SitesOf(h.stats)) \in Nat
    BY <1>2, <2>1, <2>2, FS_CardinalityType
  <2>4. ~Overrun(h.stats, srcs)
    BY <2>3 DEF Overrun
  <2>5. ConciseOf(h, f) = ConciseRows(h.stats, f, J)
    BY <1>6, <2>1, <2>4 DEF ConciseOf, ConciseTime
  <2>6. QED
    BY <1>3, <1>6, <2>5
<1>7. ASSUME f # "time"
      PROVE  Definites(ConciseSection(h, f)) = IF Cardinality(Told(f)) = 1 THEN {} ELSE ConciseFor(Keys, f)
  <2>1. SitesOf(Active(h.stats, f)) = J
    BY <1>5, <1>7
  <2>2. CASE Cardinality(Told(f)) > 1
    <3>1. ConciseSection(h, f) = ConciseRows(h.stats, f, J)
      BY <1>2, <2>1, <2>2 DEF ConciseSection
    <3>2. QED
      BY <1>2, <1>3, <2>2, <3>1
  <2>3. CASE ~(Cardinality(Told(f)) > 1)
    <3>1. ConciseSection(h, f) = Absent
      BY <1>2, <2>1, <2>3 DEF ConciseSection
    <3>2. Cardinality(Told(f)) # 1 => Told(f) = {}
      <4>1. Cardinality(Told(f)) # 1 => Cardinality(Told(f)) = 0
        BY <1>2, <2>3
      <4>2. QED
        BY <1>2, <4>1, FS_EmptySet
    <3>3. Cardinality(Told(f)) # 1 => ConciseFor(Keys, f) = {}
      BY <3>2 DEF ConciseFor
    <3>4. QED
      BY <1>4, <3>1, <3>3
  <2>4. QED
    BY <2>2, <2>3
<1>8. ASSUME f # "time", ~(h.total[f] > 0)
      PROVE  Cardinality(Told(f)) # 1 /\ ConciseFor(Keys, f) = {}
  <2>1. Told(f) = {}
    BY <1>8, NoneTold
  <2>2. Cardinality(Told(f)) = 0
    BY <2>1, FS_EmptySet
  <2>3. QED
    BY <2>1, <2>2 DEF ConciseFor
<1>9. ASSUME f # "time"
      PROVE  \/ ConciseOf(h, f) = ConciseSection(h, f)
             \/ ~(h.total[f] > 0) /\ ConciseOf(h, f) = Absent
  <2>1. f \in {"sent", "io", "rma"}
    BY <1>9, FieldsFacts
  <2>2. f = "sent" => ConciseOf(h, f) = ConciseSection(h, "sent")
    BY DEF ConciseOf, ConciseSent
  <2>3. f = "io" => ConciseOf(h, f) = IF h.total["io"] > 0 THEN ConciseSection(h, "io") ELSE Absent
    BY DEF ConciseOf, ConciseIO
  <2>4. f = "rma" => ConciseOf(h, f) = IF h.total["rma"] > 0 THEN ConciseSection(h, "rma") ELSE Absent
    BY DEF ConciseOf, ConciseRMA
  <2>5. QED
    BY <2>1, <2>2, <2>3, <2>4
<1>10. CASE f # "time"
  BY <1>4, <1>7, <1>8, <1>9, <1>10
<1>11. QED
  BY <1>6, <1>10

-----------------------------------------------------------------------------
(* A round of a concise section prints the row of its callsite. *)
LEMMA ConciseRoundKnown ==
    ASSUME Whole(g), ctl.pc # "run", setup.collective, setup.depth > 0, Style = "concise",
           Current \in g.agg, SumsFit, NEW f \in Fields, f # "rma", NEW x, x = SiteOf(Current)
    PROVE  Definites(RoundRows(f)) = {ConciseFromCalls(x, f)}
<1> DEFINE data == [r \in Ranks |-> Lookup(r)]
           S == Gathered
<1>1. RecordsKnown /\ IsRecord(Current) /\ IdOf(x) = Current.csid /\ x \in Keys
  BY AggregateSite DEF Whole
<1>2. DataOf(S, x, f)
  BY <1>1, GatheredKnown
<1>3. S = {data[r] : r \in Ranks}
  BY DEF Gathered
<1>4. \A r \in Ranks : data[r].rank = r
  <2>1. \A r \in Ranks : Lookup(r).rank = r
    <3>1. SUFFICES ASSUME NEW r \in Ranks
                   PROVE  Lookup(r).rank = r
      OBVIOUS
    <3> DEFINE K == CallsOf({r}, {x})
    <3>2. K = CallsOf({r}, {x})
      OBVIOUS
    <3> HIDE DEF K
    <3>3. QED
      BY <1>1, <3>2, LookupKnown
  <2>2. QED
    BY <2>1
<1>5. RoundRows(f) = ConciseRound(IdOf(x), data, f)
  BY <1>1 DEF RoundRows
<1>6. \A r \in Ranks : data[r] \in S
  BY <1>3
<1> HIDE DEF data, S
<1>7. /\ \A r \in Ranks : data[r].sum[f] = RankSum(x, f, r)
      /\ \A r \in Ranks : data[r].count > 0 <=> r \in Callers(x)
  <2>1. HasSums(S, x, f) /\ \A p \in S : p.count > 0 <=> p.rank \in Callers(x)
    BY <1>1, <1>2, SumsKnown
  <2>2. QED
    BY <1>4, <1>6, <2>1 DEF HasSums
<1>8. /\ \A r \in Ranks : r \notin Callers(x) => RankSum(x, f, r) = 0
      /\ Callers(x) \subseteq Ranks
  BY <1>1, CallersKnown DEF Callers
<1>9. RoundRows(f) = {ReducedRow(IdOf(x), data, f, Tasks(x, f))}
  <2>1. CASE f = "time"
    <3>1. RoundRows(f) = {ReducedRow(IdOf(x), data, "time", {r \in Ranks : data[r].count > 0})}
      BY <1>5, <2>1 DEF ConciseRound, ReducedTime
    <3>2. {r \in Ranks : data[r].count > 0} = Tasks(x, f)
      BY <1>7, <1>8, <2>1 DEF Tasks
    <3>3. QED
      BY <2>1, <3>1, <3>2
  <2>2. CASE f # "time"
    <3>1. RoundRows(f) = {ReducedRow(IdOf(x), data, f, WithData(data, f))}
      <4>1. f = "sent" => RoundRows(f) = {ReducedRow(IdOf(x), data, "sent", WithData(data, "sent"))}
        BY <1>5 DEF ConciseRound, ReducedSent
      <4>2. f = "io" => RoundRows(f) = {ReducedRow(IdOf(x), data, "io", WithData(data, "io"))}
        BY <1>5 DEF ConciseRound, ReducedIO
      <4>3. f = "sent" \/ f = "io"
        BY <2>2, FieldsFacts
      <4>4. QED
        BY <4>1, <4>2, <4>3
    <3>2. WithData(data, f) = Tasks(x, f)
      <4>1. WithData(data, f) = {r \in Ranks : RankSum(x, f, r) > 0}
        BY <1>7 DEF WithData
      <4>2. Tasks(x, f) = {r \in Callers(x) : RankSum(x, f, r) > 0}
        BY <2>2 DEF Tasks, Takers
      <4>3. \A r \in Ranks : RankSum(x, f, r) > 0 => r \in Callers(x)
        BY <1>8
      <4>4. QED
        BY <1>8, <4>1, <4>2, <4>3
    <3>3. QED
      BY <3>1, <3>2
  <2>3. QED
    BY <2>1, <2>2
<1>10. Definite(ReducedRow(IdOf(x), data, f, Tasks(x, f))) = ConciseFromCalls(x, f)
  BY <1>1, <1>2, <1>3, <1>4, ReducedRowKnown
<1>11. QED
  BY <1>9, <1>10 DEF Definites

(***************************************************************************)
(* The rounds of a concise section.                                        *)
(***************************************************************************)
(* A rank in a concise collective section. *)
ConciseRounds(l) ==
    /\ l.n \in 1 .. 5 /\ (l.at = "end" <=> l.n = 5)
    /\ l.at \in {"count", "record", "rows", "end"} /\ (l.at = "count" => l.i = 0)
    /\ l.at \in InRounds => l.i \in Nat /\ l.i < l.ac /\ l.ac = Len(Listed(Order[l.n]))

LEMMA ToldListed ==
    ASSUME Whole(g), setup.depth > 0, Style = "concise", NEW f \in Fields
    PROVE  /\ Len(Listed(f)) \in Nat
           /\ \A i \in 1 .. Len(Listed(f)) : Listed(f)[i] \in g.agg /\ SiteOf(Listed(f)[i]) \in Told(f)
           /\ \A x \in Told(f) : \E i \in 1 .. Len(Listed(f)) : Listed(f)[i].csid = IdOf(x)
<1> DEFINE L == IF f = "time" THEN g.agg ELSE Active(g.agg, f)
           v == [p \in L |-> p.sum[f]]
<1>1. RecordsKnown
  BY DEF Whole
<1>2. L \subseteq g.agg /\ IsFiniteSet(L)
  <2>1. IsFiniteSet(g.agg) /\ L \subseteq g.agg
    BY DEF Whole, HasCalls, Groups, Active
  <2> HIDE DEF L
  <2>2. QED
    BY <2>1, FS_Subset
<1>3. \A p \in g.agg : /\ SiteOf(p) \in Keys /\ IdOf(SiteOf(p)) = p.csid
                       /\ p.sum[f] = SumOf(CallsOf(Ranks, {SiteOf(p)}), f)
                       /\ p.sum[f] \in Nat
  <2>1. SUFFICES ASSUME NEW p \in g.agg
                 PROVE  /\ SiteOf(p) \in Keys /\ IdOf(SiteOf(p)) = p.csid
                        /\ p.sum[f] = SumOf(CallsOf(Ranks, {SiteOf(p)}), f)
                        /\ p.sum[f] \in Nat
    OBVIOUS
  <2> DEFINE K == CallsOf(Ranks, {SiteOf(p)})
  <2>2. /\ SiteOf(p) \in Keys /\ IdOf(SiteOf(p)) = p.csid
        /\ p.sum[f] = Amount(calls, K, f)
    BY AggregateSite
  <2>3. K \in SUBSET DOMAIN calls /\ calls \in Bags
    BY <1>1, CallsOfFacts
  <2> HIDE DEF K
  <2>4. Amount(calls, K, f) \in Nat /\ SumOf(K, f) = Amount(calls, K, f)
    BY <1>1, <2>3, BagFacts, SumsOfCalls
  <2>5. QED
    BY <2>2, <2>4 DEF K
<1>4. \A p \in g.agg : p \in L <=> SiteOf(p) \in Told(f)
  BY <1>3 DEF Told, Active
<1>5. v \in [L -> Int]
  <2> HIDE DEF L
  <2>1. ASSUME NEW p \in L
        PROVE  p.sum[f] \in Int
    <3>1. p \in g.agg
      BY <1>2
    <3> HIDE DEF v
    <3>2. p.sum[f] \in Nat
      BY <1>3, <3>1
    <3>3. QED
      BY <3>2
  <2>2. QED
    BY <2>1
<1>6. Listed(f) = Descending(v)
  <2>1. Style # "verbose"
    OBVIOUS
  <2>2. QED
    BY <2>1 DEF Listed
<1> HIDE DEF L, v
<1>7. /\ Cardinality(L) \in Nat
      /\ Descending(v) \in [1 .. Cardinality(L) -> L] /\ Len(Descending(v)) = Cardinality(L)
      /\ \A p \in L : \E i \in 1 .. Cardinality(L) : Descending(v)[i] = p
  BY <1>2, <1>5, DescendingFacts
<1>8. ASSUME NEW x \in Told(f)
      PROVE  \E i \in 1 .. Len(Listed(f)) : Listed(f)[i].csid = IdOf(x)
  <2>1. x \in Keys
    BY DEF Told
  <2>2. PICK p \in g.agg : p.csid = IdOf(x)
    BY <2>1, KeyAggregate
  <2>3. SiteOf(p) = x
    BY <1>3, <2>1, <2>2, KeyNumbers DEF Whole
  <2>4. p \in L
    BY <1>4, <2>3
  <2>5. QED
    BY <1>6, <1>7, <2>2, <2>4
<1>9. QED
  BY <1>2, <1>4, <1>6, <1>7, <1>8

LEMMA EnterConcise ==
    ASSUME NEW n \in 1 .. 5
    PROVE  /\ Enter("concise", n).n = n /\ Enter("concise", n).i = 0
           /\ Enter("concise", n).at = IF n = 5 THEN "end" ELSE "count"
<1> DEFINE at == IF n = 5 THEN "end" ELSE "count"
<1>1. n > Len(Order) <=> n = 5
  BY OrderFacts
<1>2. Enter("concise", n) = [Outside EXCEPT !.n = n, !.at = at]
  BY <1>1 DEF Enter
<1> HIDE DEF at
<1>3. Enter("concise", n) = [at |-> at, n |-> n, i |-> 0, ac |-> 0]
  BY <1>2 DEF Outside
<1>4. QED
  BY <1>3 DEF at

(* Where a round leads. *)
LEMMA NextConcise ==
    ASSUME Whole(g), setup.depth > 0, Style = "concise",
           NEW l, l = [at |-> l.at, n |-> l.n, i |-> l.i, ac |-> l.ac], l.n \in 1 .. 4,
           NEW f, f = Order[l.n], l.ac = Len(Listed(f)), l.i \in Nat, l.i <= l.ac,
           NEW m, m = Round(l, f)
    PROVE  /\ ConciseRounds(m) /\ (m.n = l.n \/ (m.n = l.n + 1 /\ m.at \notin InRounds))
           /\ ConciseFor(Passed(f, m), f) = ConciseFor(FirstOf(f, l.i), f)
<1>1. f \in Fields /\ l.n + 1 \in 1 .. 5 /\ l.n + 1 # 1
  BY OrderOnce
<1>2. /\ Len(Listed(f)) \in Nat
      /\ \A x \in Told(f) : \E i \in 1 .. Len(Listed(f)) : Listed(f)[i].csid = IdOf(x)
  BY <1>1, ToldListed
<1>3. CASE l.i < l.ac
  <2>1. RoundBegin(f) = "record"
    <3>1. Style # "verbose"
      OBVIOUS
    <3>2. QED
      BY <3>1 DEF RoundBegin
  <2>2. m = [l EXCEPT !.at = "record"]
    BY <1>3, <2>1 DEF Round
  <2>3. m.at = "record" /\ m.n = l.n /\ m.i = l.i /\ m.ac = l.ac
    BY <2>2
  <2>4. ConciseRounds(m)
    BY <1>3, <2>3 DEF ConciseRounds
  <2>5. m.at \in InRounds
    BY <2>3 DEF InRounds
  <2>6. Passed(f, m) = FirstOf(f, l.i)
    BY <2>3, <2>5, PassedHere
  <2>7. QED
    BY <2>3, <2>4, <2>6
<1>4. CASE ~(l.i < l.ac)
  <2>1. m = Enter("concise", l.n + 1)
    BY <1>4 DEF Round, Leave
  <2>2. m.n = l.n + 1 /\ m.i = 0 /\ m.at = IF l.n + 1 = 5 THEN "end" ELSE "count"
    BY <1>1, <2>1, EnterConcise
  <2>3. ConciseRounds(m) /\ m.at \notin InRounds
    BY <1>1, <2>2 DEF ConciseRounds, InRounds
  <2>4. Passed(f, m) = Keys
    BY <2>2, PassedHere
  <2>5. l.i = Len(Listed(f))
    BY <1>2, <1>4
  <2>6. Keys \cap Told(f) = FirstOf(f, l.i) \cap Told(f)
    BY <1>2, <2>5 DEF FirstOf
  <2>7. ConciseFor(Keys, f) = ConciseFor(FirstOf(f, l.i), f)
    BY <2>6 DEF ConciseFor
  <2>8. QED
    BY <2>2, <2>3, <2>4, <2>7
<1>5. QED
  BY <1>3, <1>4

LEMMA FirstOfMore ==
    ASSUME Whole(g), setup.depth > 0, Style = "concise", NEW f \in Fields,
           NEW i \in Nat, i < Len(Listed(f))
    PROVE  ConciseFor(FirstOf(f, i + 1), f) =
              ConciseFor(FirstOf(f, i), f) \cup {ConciseFromCalls(SiteOf(Listed(f)[i + 1]), f)}
<1> DEFINE p == Listed(f)[i + 1]
           x == SiteOf(p)
<1>1. p \in g.agg /\ x \in Told(f)
  <2>1. Len(Listed(f)) \in Nat
    BY ToldListed
  <2>2. i + 1 \in 1 .. Len(Listed(f))
    BY <2>1
  <2>3. QED
    BY <2>2, ToldListed
<1>2. x \in Keys /\ IdOf(x) = p.csid
  BY <1>1, AggregateSite
<1>3. \A y \in Keys : p.csid = IdOf(y) <=> y = x
  BY <1>2, KeyNumbers DEF Whole
<1>4. \A y : (\E j \in 1 .. (i + 1) : Listed(f)[j].csid = IdOf(y))
                <=> (\E j \in 1 .. i : Listed(f)[j].csid = IdOf(y)) \/ p.csid = IdOf(y)
  OBVIOUS
<1> HIDE DEF p, x
<1>5. FirstOf(f, i + 1) = FirstOf(f, i) \cup {x}
  BY <1>2, <1>3, <1>4 DEF FirstOf
<1>6. ConciseFor(FirstOf(f, i + 1), f) = ConciseFor(FirstOf(f, i), f) \cup {ConciseFromCalls(x, f)}
  BY <1>1, <1>5 DEF ConciseFor
<1>7. QED
  BY <1>6 DEF x, p

LEMMA AfterConcise ==
    ASSUME Whole(g), ctl.pc # "run", setup.collective, setup.depth > 0, Style = "concise",
           NEW l, l = loc[Collector], l = [at |-> l.at, n |-> l.n, i |-> l.i, ac |-> l.ac],
           l.at \in {"gate", "malloc", "count"} \cup InRounds, ConciseRounds(l),
           NEW f, f = Order[l.n], NEW m, m = After(Collector, f)
    PROVE  /\ ConciseRounds(m) /\ (m.n = l.n \/ (m.n = l.n + 1 /\ m.at \notin InRounds))
           /\ f # "rma" /\ l.at = "rows" /\ SumsFit =>
                 ConciseFor(Passed(f, m), f) = ConciseFor(Passed(f, l), f) \cup Definites(RoundRows(f))
           /\ l.at # "rows" =>
                 ConciseFor(Passed(f, m), f) = ConciseFor(Passed(f, l), f)
<1>1. l.n \in 1 .. 4 /\ f \in Fields /\ Len(Listed(f)) \in Nat /\ l.at \in {"count", "record", "rows"}
  <2>1. l.n \in 1 .. 4 /\ l.at \in {"count", "record", "rows"}
    BY DEF ConciseRounds, InRounds
  <2>2. f \in Fields
    BY <2>1, OrderOnce
  <2>3. QED
    BY <2>1, <2>2, ToldListed
<1>2. ASSUME NEW o
      PROVE  /\ o.n = l.n /\ o.at \notin InRounds => Passed(f, o) = {}
             /\ o.n = l.n /\ o.at \in InRounds => Passed(f, o) = FirstOf(f, o.i)
  BY <1>1, PassedHere
<1>3. CASE l.at = "count"
  <2> DEFINE o == [l EXCEPT !.ac = Len(Listed(f))]
  <2>1. m = Round(o, f)
    BY <1>3 DEF After, Rounds
  <2>2. o = [at |-> "count", n |-> l.n, i |-> 0, ac |-> Len(Listed(f))]
    BY <1>3 DEF ConciseRounds
  <2> HIDE DEF o
  <2>3. /\ o = [at |-> o.at, n |-> o.n, i |-> o.i, ac |-> o.ac] /\ o.n = l.n /\ o.i = 0
        /\ o.ac = Len(Listed(f))
    BY <2>2
  <2>4. /\ ConciseRounds(m) /\ (m.n = o.n \/ (m.n = o.n + 1 /\ m.at \notin InRounds))
        /\ ConciseFor(Passed(f, m), f) = ConciseFor(FirstOf(f, o.i), f)
    BY <1>1, <2>1, <2>3, NextConcise
  <2>5. Passed(f, l) = {}
    BY <1>2, <1>3 DEF InRounds
  <2>6. FirstOf(f, 0) = {}
    <3>1. ~ \E i \in 1 .. 0 : TRUE
      OBVIOUS
    <3>2. QED
      BY <3>1 DEF FirstOf
  <2>7. QED
    BY <1>3, <2>3, <2>4, <2>5, <2>6
<1>4. CASE l.at = "record"
  <2>1. m = [l EXCEPT !.at = "rows"]
    BY <1>4 DEF After
  <2>2. m.at = "rows" /\ m.n = l.n /\ m.i = l.i /\ m.ac = l.ac
    BY <2>1
  <2>3. ConciseRounds(m)
    BY <1>1, <1>4, <2>2 DEF ConciseRounds, InRounds
  <2>4. Passed(f, m) = Passed(f, l)
    BY <1>2, <1>4, <2>2 DEF InRounds
  <2>5. QED
    BY <1>4, <2>2, <2>3, <2>4
<1>5. CASE l.at = "rows"
  <2> DEFINE o == [l EXCEPT !.i = @ + 1]
             p == Current
  <2>1. m = Round(o, f)
    BY <1>5 DEF After, NextRound
  <2>2. l.i \in Nat /\ l.i < l.ac /\ l.ac = Len(Listed(f))
    BY <1>5 DEF ConciseRounds, InRounds
  <2>3. /\ o = [at |-> o.at, n |-> o.n, i |-> o.i, ac |-> o.ac] /\ o.n = l.n /\ o.i = l.i + 1
        /\ o.ac = Len(Listed(f)) /\ o.i \in Nat /\ o.i <= o.ac
    BY <1>1, <2>2
  <2> HIDE DEF o
  <2>4. /\ ConciseRounds(m) /\ (m.n = o.n \/ (m.n = o.n + 1 /\ m.at \notin InRounds))
        /\ ConciseFor(Passed(f, m), f) = ConciseFor(FirstOf(f, o.i), f)
    BY <1>1, <2>1, <2>3, NextConcise
  <2>5. p = Listed(f)[l.i + 1]
    BY DEF Field, Current
  <2>6. p \in g.agg
    <3>1. l.i + 1 \in 1 .. Len(Listed(f))
      BY <1>1, <2>2
    <3>2. QED
      BY <1>1, <2>5, <3>1, ToldListed
  <2>7. f # "rma" /\ SumsFit => Definites(RoundRows(f)) = {ConciseFromCalls(SiteOf(p), f)}
    BY <1>1, <2>6, ConciseRoundKnown
  <2> HIDE DEF p
  <2>8. ConciseFor(FirstOf(f, l.i + 1), f) = ConciseFor(FirstOf(f, l.i), f) \cup {ConciseFromCalls(SiteOf(p), f)}
    <3>1. l.i \in Nat /\ l.i < Len(Listed(f))
      BY <2>2
    <3>2. QED
      BY <1>1, <2>5, <3>1, FirstOfMore
  <2>9. Passed(f, l) = FirstOf(f, l.i)
    BY <1>2, <1>5 DEF InRounds
  <2>10. QED
    BY <1>5, <2>3, <2>4, <2>7, <2>8, <2>9
<1>6. QED
  BY <1>1, <1>3, <1>4, <1>5

-----------------------------------------------------------------------------
(***************************************************************************)
(* The rows that a concise report has printed.                             *)
(***************************************************************************)
(* What a section shows when it has come to the callsites X. *)
Promised(X, f) ==
    IF ~setup.detail THEN {}
    ELSE IF ~setup.collective /\ f # "time" /\ Cardinality(Told(f)) = 1 THEN {}
    ELSE ConciseFor(X, f)

(* The callsites that the concise report has shown. *)
Summed(f) ==
    IF ctl.pc = "collective" /\ Style = "concise" THEN Passed(f, loc[Collector]) ELSE Keys

ConciseShown ==
    /\ Fields \subseteq DOMAIN printed["concise"]
    /\ SumsFit => \A f \in Fields :
          Reliable(f) => Definites(printed["concise"][f]) = Promised(Summed(f), f)

ConcisePrinted ==
    /\ ctl.pc = "print" /\ Style = "concise" => "concise" \notin DOMAIN printed
    /\ ctl.pc = "collective" /\ Style = "concise" =>
          /\ "concise" \in DOMAIN printed
          /\ setup.depth > 0 => ConciseRounds(loc[Collector])
    /\ "concise" \in DOMAIN printed => ConciseShown

(* What ConciseFromCalls says, in the names of the parts. *)
ConciseMade(x, f) ==
    [site |-> IdOf(x), tasks |-> Cardinality(Tasks(x, f)),
     sum |-> SumOf(CallsOf(Ranks, {x}), f), max |-> Greatest(x, f),
     min |-> IF Greatest(x, f) > 0 THEN Least(x, f) ELSE 0,
     maxRank |-> IF Greatest(x, f) > 0 THEN FirstWith(x, f, Greatest(x, f)) ELSE NoRank,
     minRank |-> IF Greatest(x, f) > 0
                 THEN FirstWith(x, f, IF Greatest(x, f) > 0 THEN Least(x, f) ELSE 0)
                 ELSE NoRank]

LEMMA ConciseIsMade == \A x, f : ConciseFromCalls(x, f) = ConciseMade(x, f)
  BY DEF ConciseFromCalls, ConciseMade, Tasks, Takers, Callers, Greatest, Least, FirstWith, RankSum

LEMMA ConciseSame ==
    ASSUME UNCHANGED <<setup, calls, named>>
    PROVE  /\ Keys' = Keys /\ (SumsFit' <=> SumsFit)
           /\ \A S : Definites(S)' = Definites(S)
           /\ \A X, f : Promised(X, f)' = Promised(X, f)
<1>1. Counted' = Counted /\ \A site : Key(site)' = Key(site)
  BY DEF Counted, Key
<1>2. Keys' = Keys
  BY <1>1 DEF Keys
<1>3. \A R, X : CallsOf(R, X)' = CallsOf(R, X)
  BY <1>1 DEF CallsOf
<1>4. \A x : IdOf(x)' = IdOf(x)
  BY <1>1 DEF IdOf
<1>5. \A K, f : SumOf(K, f)' = SumOf(K, f)
  BY DEF SumOf, Total
<1>6. \A x, f, r : RankSum(x, f, r)' = RankSum(x, f, r)
  BY <1>3, <1>5 DEF RankSum
<1>7. \A x, f : ConciseFromCalls(x, f)' = ConciseFromCalls(x, f)
  <2>1. \A x : Callers(x)' = Callers(x)
    BY <1>3 DEF Callers
  <2>2. \A x, f : Takers(x, f)' = Takers(x, f)
    BY <2>1, <1>6 DEF Takers
  <2>3. \A x, f : Tasks(x, f)' = Tasks(x, f)
    BY <2>1, <2>2 DEF Tasks
  <2>4. \A x, f : Greatest(x, f)' = Greatest(x, f)
    BY <2>1, <1>6 DEF Greatest
  <2>5. \A x, f : Least(x, f)' = Least(x, f)
    BY <2>2, <1>6 DEF Least
  <2>6. \A x, f, v : FirstWith(x, f, v)' = FirstWith(x, f, v)
    BY <2>1, <1>6 DEF FirstWith
  <2>7. (\A x, f : ConciseFromCalls(x, f) = ConciseMade(x, f))'
    BY ConciseIsMade, PTL
  <2>8. \A x, f : SumOf(CallsOf(Ranks, {x}), f)' = SumOf(CallsOf(Ranks, {x}), f)
    BY <1>3, <1>5
  <2>9. \A x, f : ConciseMade(x, f)' = ConciseMade(x, f)
    BY <2>3, <2>4, <2>5, <2>6, <2>8, <1>4 DEF ConciseMade
  <2>10. QED
    BY <2>7, <2>9, ConciseIsMade
<1>8. \A f : Told(f)' = Told(f)
  BY <1>2, <1>3, <1>5 DEF Told
<1>9. \A X, f : ConciseFor(X, f)' = ConciseFor(X, f)
  BY <1>7, <1>8 DEF ConciseFor
<1>10. SumsFit' <=> SumsFit
  BY <1>2, <1>3, <1>5 DEF SumsFit
<1>11. \A S : Definites(S)' = Definites(S)
  BY DEF Definites, Definite
<1>12. \A X, f : Promised(X, f)' = Promised(X, f)
  BY <1>8, <1>9 DEF Promised
<1>13. QED
  BY <1>2, <1>10, <1>11, <1>12

LEMMA DefinitesUnion ==
    ASSUME NEW S, NEW T
    PROVE  Definites(S \cup T) = Definites(S) \cup Definites(T)
  BY DEF Definites

(* What a concise report prints of the tables h without the ranks. *)
LEMMA PageConcise ==
    \A h : /\ Fields \subseteq DOMAIN Concise(h)
           /\ \A f \in Fields : Concise(h)[f] = IF Detailed THEN ConciseOf(h, f) ELSE Absent
<1>1. \A h, tasks, rows :
        /\ Fields \subseteq DOMAIN Page(h, tasks, rows)
        /\ \A f \in Fields : Page(h, tasks, rows)[f] = IF Detailed THEN rows[f] ELSE Absent
  BY DEF Page, Fields
<1>2. SUFFICES ASSUME NEW h
               PROVE  /\ Fields \subseteq DOMAIN Concise(h)
                      /\ \A f \in Fields : Concise(h)[f] = IF Detailed THEN ConciseOf(h, f) ELSE Absent
  OBVIOUS
<1> DEFINE rows == [time |-> ConciseTime(h, srcs), sent |-> ConciseSent(h),
                    io |-> ConciseIO(h), rma |-> ConciseRMA(h)]
<1>3. Concise(h) = Page(h, ConciseTasks(h, AppTime), rows)
  BY DEF Concise
<1>4. \A f \in Fields : rows[f] = ConciseOf(h, f)
  BY DEF ConciseOf, Fields
<1> HIDE DEF rows
<1>5. QED
  BY <1>1, <1>3, <1>4

LEMMA ConciseRoundsSame ==
    ASSUME UNCHANGED <<setup, calls, named, g, ctl>>
    PROVE  \A l : ConciseRounds(l)' <=> ConciseRounds(l)
<1>1. \A f : Listed(f)' = Listed(f)
  BY DEF Listed, Style
<1>2. QED
  BY <1>1 DEF ConciseRounds

(* While the ranks meet only their place says what has been shown. *)
LEMMA PromisedTogether ==
    ASSUME setup.collective, NEW X, NEW f
    PROVE  Promised(X, f) = IF setup.detail THEN ConciseFor(X, f) ELSE {}
  BY DEF Promised

LEMMA MeetConcise ==
    ASSUME ReportInv, CallsMerged, RowsPrinted, ConcisePrinted, Meet
    PROVE  ConcisePrinted'
<1>0. /\ UNCHANGED <<setup, calls, named, g, ctl>>
      /\ ctl.pc = "collective" /\ loc[Collector].at # "end" /\ Collector \in Ranks
  BY ReportAssumption DEF Meet, bounds, caches, Collector
<1>1. PICK l : loc = [r \in Ranks |-> l] /\ Standing(l)
  BY <1>0 DEF ReportInv, PlacesKnown, Standing
<1>2. l = loc[Collector] /\ l.n \in 1 .. 4 /\ l = [at |-> l.at, n |-> l.n, i |-> l.i, ac |-> l.ac]
         /\ l.at \in {"gate", "malloc", "count"} \cup InRounds
  BY <1>0, <1>1 DEF Standing, InRounds
<1> DEFINE f == Order[l.n]
           m == After(Collector, f)
<1>3. f \in Fields /\ f = Field(Collector)
  BY <1>2, OrderFacts DEF Field
<1>4. loc'[Collector] = m
  BY <1>0, <1>2, <1>3 DEF Meet
<1>5. /\ setup.detail /\ setup.collective
      /\ Style = "concise" => "concise" \in DOMAIN printed
      /\ Style = "concise" /\ setup.depth > 0 => ConciseRounds(l)
      /\ "concise" \in DOMAIN printed => ConciseShown
  BY <1>0, <1>2 DEF RowsPrinted, ConcisePrinted
<1>6. Whole(g)
  BY <1>0, WholeNow
<1>7. Style' = Style /\ \A e : Reliable(e)' <=> Reliable(e)
  BY <1>0 DEF Style, Reliable
<1>8. /\ Keys' = Keys /\ (SumsFit' <=> SumsFit)
      /\ \A X, e : Promised(X, e)' = Promised(X, e)
      /\ \A k : ConciseRounds(k)' <=> ConciseRounds(k)
      /\ \A e, k : Passed(e, k)' = Passed(e, k)
      /\ \A S : Definites(S)' = Definites(S)
  BY <1>0, ConciseSame, RoundsSame, ConciseRoundsSame
<1>9. /\ l.at = "rows" =>
            printed' = [printed EXCEPT ![Style] =
                           [printed[Style] EXCEPT ![f] = printed[Style][f] \cup RoundRows(f)]]
      /\ l.at # "rows" => printed' = printed
  <2>1. \A e : e = Field(Collector) =>
           printed' = IF loc[Collector].at = "rows"
                      THEN [printed EXCEPT ![Style] =
                              [printed[Style] EXCEPT ![e] = printed[Style][e] \cup RoundRows(e)]]
                      ELSE printed
    BY DEF Meet
  <2>2. printed' = IF l.at = "rows"
                   THEN [printed EXCEPT ![Style] =
                           [printed[Style] EXCEPT ![f] = printed[Style][f] \cup RoundRows(f)]]
                   ELSE printed
    BY <1>2, <1>3, <2>1
  <2>3. QED
    BY <2>2
<1>10. DOMAIN printed' = DOMAIN printed
  BY <1>9
<1>11. ASSUME Style = "concise", setup.depth > 0
       PROVE  /\ ConciseRounds(m) /\ (m.n = l.n \/ (m.n = l.n + 1 /\ m.at \notin InRounds))
              /\ f # "rma" /\ l.at = "rows" /\ SumsFit =>
                    ConciseFor(Passed(f, m), f) = ConciseFor(Passed(f, l), f) \cup Definites(RoundRows(f))
              /\ l.at # "rows" =>
                    ConciseFor(Passed(f, m), f) = ConciseFor(Passed(f, l), f)
  <2>1. ConciseRounds(l) /\ ctl.pc # "run"
    BY <1>0, <1>5, <1>11
  <2>2. QED
    BY <1>2, <1>5, <1>6, <1>11, <2>1, AfterConcise
<1> HIDE DEF f, m
<1>12. ASSUME "concise" \in DOMAIN printed, Style = "concise"
       PROVE  ConciseShown'
  <2> DEFINE old == printed["concise"]
             new == printed'["concise"]
  <2>1. /\ l.at = "rows" => new = [old EXCEPT ![f] = old[f] \cup RoundRows(f)]
        /\ l.at # "rows" => new = old
    <3>1. ASSUME NEW v, printed' = [printed EXCEPT !["concise"] = v]
          PROVE  printed'["concise"] = v
      BY <1>12, <3>1
    <3>2. QED
      BY <1>9, <1>12, <3>1
  <2>2. /\ Fields \subseteq DOMAIN old
        /\ SumsFit => \A e \in Fields :
              Reliable(e) => Definites(old[e]) = ConciseFor(Passed(e, l), e)
    <3>1. ConciseShown /\ \A e : Summed(e) = Passed(e, l)
      BY <1>0, <1>2, <1>5, <1>12 DEF Summed
    <3>2. \A e : Promised(Passed(e, l), e) = ConciseFor(Passed(e, l), e)
      BY <1>5, PromisedTogether
    <3>3. QED
      BY <3>1, <3>2 DEF ConciseShown
  <2> HIDE DEF old, new
  <2>3. Fields \subseteq DOMAIN new
    BY <2>1, <2>2
  <2>4. ASSUME SumsFit, NEW e \in Fields, Reliable(e)
        PROVE  Definites(new[e]) = ConciseFor(Passed(e, m), e)
    <3>1. e # "rma" /\ setup.depth > 0
      BY <1>5, <2>4 DEF Reliable
    <3>2. Definites(old[e]) = ConciseFor(Passed(e, l), e)
      BY <2>2, <2>4
    <3>3. CASE e # f
      <4>1. new[e] = old[e]
        BY <2>1, <2>2, <3>3
      <4>2. Passed(e, m) = Passed(e, l)
        BY <1>2, <1>11, <1>12, <3>1, <3>3, PassedElsewhere DEF f
      <4>3. QED
        BY <3>2, <4>1, <4>2
    <3>4. CASE e = f /\ l.at = "rows"
      <4>1. new[e] = old[e] \cup RoundRows(f)
        BY <2>1, <2>2, <3>4
      <4>2. Definites(new[e]) = Definites(old[e]) \cup Definites(RoundRows(f))
        BY <4>1, DefinitesUnion
      <4>3. ConciseFor(Passed(e, m), e) = ConciseFor(Passed(e, l), e) \cup Definites(RoundRows(f))
        BY <1>11, <1>12, <2>4, <3>1, <3>4
      <4>4. QED
        BY <3>2, <4>2, <4>3
    <3>5. CASE e = f /\ l.at # "rows"
      <4>1. new[e] = old[e]
        BY <2>1, <3>5
      <4>2. ConciseFor(Passed(e, m), e) = ConciseFor(Passed(e, l), e)
        BY <1>11, <1>12, <3>1, <3>5
      <4>3. QED
        BY <3>2, <4>1, <4>2
    <3>6. QED
      BY <3>3, <3>4, <3>5
  <2>5. \A e : Summed(e)' = Passed(e, m)
    BY <1>0, <1>4, <1>7, <1>8, <1>12 DEF Summed
  <2>6. \A e : Promised(Passed(e, m), e) = ConciseFor(Passed(e, m), e)
    BY <1>5, PromisedTogether
  <2>7. \A e : Definites(printed["concise"][e])' = Definites(new[e])
    BY <1>8 DEF new
  <2>8. \A e : Promised(Summed(e), e)' = ConciseFor(Passed(e, m), e)
    BY <1>8, <2>5, <2>6
  <2>9. SumsFit' => \A e \in Fields : Reliable(e)' =>
           Definites(printed["concise"][e])' = Promised(Summed(e), e)'
    BY <1>7, <1>8, <2>4, <2>7, <2>8
  <2>10. QED
    BY <2>3, <2>9 DEF ConciseShown, new
<1>13. ASSUME "concise" \in DOMAIN printed, Style # "concise"
       PROVE  ConciseShown'
  <2>1. printed'["concise"] = printed["concise"]
    BY <1>9, <1>13
  <2>2. \A e : Summed(e) = Keys /\ Summed(e)' = Keys
    BY <1>7, <1>8, <1>13 DEF Summed
  <2>3. /\ \A e : Definites(printed["concise"][e])' = Definites(printed["concise"][e])
        /\ \A e : Promised(Summed(e), e)' = Promised(Summed(e), e)
    BY <1>8, <2>1, <2>2
  <2>4. QED
    BY <1>5, <1>7, <1>8, <1>13, <2>1, <2>3 DEF ConciseShown
<1>14. Style' = "concise" /\ setup'.depth > 0 => ConciseRounds(loc[Collector])'
  <2>1. Style = "concise" /\ setup.depth > 0 => ConciseRounds(m)
    BY <1>11
  <2>2. ConciseRounds(loc[Collector])' <=> ConciseRounds(m)
    BY <1>4, <1>8
  <2>3. QED
    BY <1>0, <1>7, <2>1, <2>2
<1>15. QED
  BY <1>0, <1>5, <1>7, <1>10, <1>12, <1>13, <1>14 DEF ConcisePrinted

LEMMA PrintConcise ==
    ASSUME ReportInv, CallsMerged, RowsPrinted, ConcisePrinted, ProfilePrint
    PROVE  ConcisePrinted'
<1> DEFINE style == Head(ctl.styles)
           h == ConciseApp(g, AppTime)
           new == IF style = "verbose" THEN Verbose(VerboseApp(g, AppTime)) ELSE Concise(h)
<1>0. /\ UNCHANGED <<setup, calls, named>> /\ ctl.pc = "print" /\ Collector \in Ranks
      /\ style = "concise" => "concise" \notin DOMAIN printed
      /\ "concise" \in DOMAIN printed => ConciseShown
      /\ ctl.styles = <<"concise", "verbose">> \/ ctl.styles = <<style>>
      /\ ctl = [pc |-> ctl.pc, pending |-> ctl.pending, from |-> ctl.from,
                style |-> ctl.style, styles |-> ctl.styles]
  BY ReportAssumption DEF ReportInv, ReportKnown, RowsPrinted, ConcisePrinted, ProfilePrint,
     bounds, caches, Style, Collector
<1>1. printed' = [p \in DOMAIN printed \cup {style} |->
                     IF p \in DOMAIN printed THEN printed[p] ELSE new]
  BY DEF ProfilePrint
<1>2. IF setup.detail /\ setup.collective
      THEN ctl' = [ctl EXCEPT !.pc = "collective"] /\ loc' = [r \in Ranks |-> Enter(style, 1)]
      ELSE ctl' = NextStyle(ctl)
  BY DEF ProfilePrint
<1>3. /\ NextStyle(ctl).pc \in {"run", "print"}
      /\ NextStyle(ctl).pc = "print" => style = "concise" /\ NextStyle(ctl).styles = <<"verbose">>
  <2>1. ctl.styles = <<"concise", "verbose">> \/ (\E s : ctl.styles = <<s>>)
    BY <1>0
  <2>2. QED
    BY <1>0, <2>1, StylesLeft
<1>4. \A e : Reliable(e)' <=> Reliable(e)
  BY <1>0 DEF Reliable
<1>5. /\ Keys' = Keys /\ (SumsFit' <=> SumsFit)
      /\ \A X, e : Promised(X, e)' = Promised(X, e)
      /\ \A S : Definites(S)' = Definites(S)
  BY <1>0, ConciseSame
<1>6. Enter("concise", 1).n = 1 /\ Enter("concise", 1).i = 0 /\ Enter("concise", 1).at = "count"
  BY EnterConcise
<1>7. style = "concise" => printed'["concise"] = Concise(h)
  <2>1. style = "concise" => printed'["concise"] = new
    <3> HIDE DEF new, style
    <3>1. QED
      BY <1>0, <1>1
  <2>2. style = "concise" => new = Concise(h)
    OBVIOUS
  <2>3. QED
    BY <2>1, <2>2
<1>8. /\ "concise" \in DOMAIN printed => printed'["concise"] = printed["concise"]
      /\ "concise" \in DOMAIN printed' <=> "concise" \in DOMAIN printed \/ style = "concise"
  <2> HIDE DEF new, style
  <2>1. QED
    BY <1>1
<1>9. /\ setup.detail /\ setup.collective =>
            ctl'.pc = "collective" /\ Style' = style /\ loc'[Collector] = Enter(style, 1)
      /\ ~(setup.detail /\ setup.collective) => ctl'.pc \in {"run", "print"}
      /\ ctl'.pc = "print" => Style' # "concise"
  <2>1. CASE setup.detail /\ setup.collective
    <3>1. ctl'.pc = "collective" /\ ctl'.styles = ctl.styles /\ loc' = [r \in Ranks |-> Enter(style, 1)]
      BY <1>0, <1>2, <2>1
    <3>2. QED
      BY <1>0, <2>1, <3>1 DEF Style
  <2>2. CASE ~(setup.detail /\ setup.collective)
    <3>1. ctl' = NextStyle(ctl)
      BY <1>2, <2>2
    <3>2. ctl'.pc = "print" => ctl'.styles = <<"verbose">>
      BY <1>3, <3>1
    <3>3. ctl'.pc = "print" => Style' = "verbose"
      BY <3>2 DEF Style
    <3>4. QED
      BY <1>3, <2>2, <3>1, <3>3
  <2>3. QED
    BY <2>1, <2>2
<1>10. ASSUME style = "concise"
       PROVE  ConciseShown'
  <2>1. PICK app : h = [g EXCEPT !.app = app]
    BY DEF ConciseApp
  <2>2. /\ h.agg = g.agg /\ h.stats = g.stats /\ h.task = g.task /\ h.total = g.total
        /\ h.sentCount = g.sentCount
    <3>1. IsGlobal(g)
      BY DEF ReportInv, MergedKnown
    <3> HIDE DEF h
    <3>2. QED
      BY <2>1, <3>1 DEF IsGlobal
  <2> HIDE DEF h, new
  <2>3. Whole(h) /\ h.stats \subseteq RecordsOf(Ranks)
    BY <1>0, <2>2, WholeNow
  <2>4. Cardinality(SitesOf(h.stats)) <= Cardinality(srcs)
    BY <1>0, <2>2, RoomForSites
  <2>5. /\ Fields \subseteq DOMAIN printed'["concise"]
        /\ \A f \in Fields :
              printed'["concise"][f] = IF Detailed THEN ConciseOf(h, f) ELSE Absent
    BY <1>7, <1>10, PageConcise
  <2>6. Definites(Absent) = {} /\ \A e : ConciseFor({}, e) = {}
    BY DEF Definites, Absent, ConciseFor
  <2>7. CASE Detailed
    <3>1. \A f : Summed(f)' = Keys
      BY <1>5, <1>9, <2>7 DEF Detailed, Summed
    <3>2. \A f \in Fields : Definites(ConciseOf(h, f)) = Promised(Keys, f)
      <4>1. SUFFICES ASSUME NEW f \in Fields
                     PROVE  Definites(ConciseOf(h, f)) = Promised(Keys, f)
        OBVIOUS
      <4>2. Definites(ConciseOf(h, f)) =
               IF f # "time" /\ Cardinality(Told(f)) = 1 THEN {} ELSE ConciseFor(Keys, f)
        BY <2>3, <2>4, <2>7, ConciseSectionKnown DEF Detailed
      <4>3. QED
        BY <2>7, <4>2 DEF Promised, Detailed
    <3>3. \A f \in Fields : Definites(printed'["concise"][f]) = Promised(Keys, f)
      BY <2>5, <2>7, <3>2
    <3>4. \A f \in Fields : Definites(printed["concise"][f])' = Promised(Summed(f), f)'
      BY <1>5, <3>1, <3>3
    <3>5. QED
      BY <2>5, <3>4 DEF ConciseShown
  <2>8. CASE ~Detailed
    <3>1. \A f \in Fields : Definites(printed["concise"][f])' = {}
      BY <1>5, <2>5, <2>6, <2>8
    <3>2. \A f : Promised(Summed(f), f)' = {}
      <4>1. CASE ~setup.detail
        <5>1. \A X, f : Promised(X, f) = {}
          BY <4>1 DEF Promised
        <5>2. QED
          BY <1>5, <5>1
      <4>2. CASE setup.detail /\ setup.collective
        <5>1. loc'[Collector] = Enter("concise", 1) /\ ctl'.pc = "collective" /\ Style' = "concise"
          BY <1>9, <1>10, <4>2
        <5>2. \A f : Summed(f)' = {}
          BY <1>6, <5>1 DEF Summed, Passed, InRounds
        <5>3. \A f : Promised({}, f) = {}
          BY <2>6, <4>2, PromisedTogether
        <5>4. QED
          BY <1>5, <5>2, <5>3
      <4>3. QED
        BY <2>8, <4>1, <4>2 DEF Detailed
    <3>3. QED
      BY <2>5, <3>1, <3>2 DEF ConciseShown
  <2>9. QED
    BY <2>7, <2>8
<1> HIDE DEF new, h, style
<1>11. ASSUME style # "concise", "concise" \in DOMAIN printed
       PROVE  ConciseShown'
  <2>1. \A e : Summed(e) = Keys /\ Summed(e)' = Keys
    BY <1>0, <1>5, <1>9, <1>11 DEF Summed
  <2>2. /\ \A e : Definites(printed["concise"][e])' = Definites(printed["concise"][e])
        /\ \A e : Promised(Summed(e), e)' = Promised(Summed(e), e)
    BY <1>5, <1>8, <1>11, <2>1
  <2>3. QED
    BY <1>0, <1>4, <1>5, <1>8, <1>11, <2>2 DEF ConciseShown
<1>12. ASSUME ctl'.pc = "collective", Style' = "concise"
       PROVE  /\ style = "concise"
              /\ ConciseRounds(loc[Collector])'
  <2>1. style = "concise" /\ loc'[Collector] = Enter("concise", 1)
    BY <1>9, <1>12
  <2>2. ConciseRounds(Enter("concise", 1))'
    BY <1>6 DEF ConciseRounds, InRounds
  <2>3. QED
    BY <2>1, <2>2
<1>13. QED
  BY <1>8, <1>9, <1>10, <1>11, <1>12 DEF ConcisePrinted

LEMMA BarrierConcise ==
    ASSUME ReportInv, RowsPrinted, ConcisePrinted, Barrier
    PROVE  ConcisePrinted'
<1> DEFINE l == loc[Collector]
<1>0. /\ UNCHANGED <<setup, calls, named, printed>>
      /\ ctl.pc = "collective" /\ l.at = "end" /\ ctl' = NextStyle(ctl)
      /\ ctl.styles = <<"concise", "verbose">> \/ ctl.styles = <<Style>>
      /\ Style = "concise" /\ setup.depth > 0 => ConciseRounds(l)
      /\ "concise" \in DOMAIN printed => ConciseShown
      /\ setup.collective
      /\ ctl = [pc |-> ctl.pc, pending |-> ctl.pending, from |-> ctl.from,
                style |-> ctl.style, styles |-> ctl.styles]
  BY DEF ReportInv, ReportKnown, RowsPrinted, ConcisePrinted, Barrier, bounds, caches
<1>1. ctl'.pc \in {"run", "print"} /\ (ctl'.pc = "print" => Style' = "verbose")
  <2>1. ctl.styles = <<"concise", "verbose">> \/ (\E s : ctl.styles = <<s>>)
    BY <1>0
  <2>2. /\ ctl'.pc \in {"run", "print"}
        /\ ctl'.pc = "print" => ctl'.styles = <<"verbose">>
    BY <1>0, <2>1, StylesLeft
  <2>3. QED
    BY <2>2 DEF Style
<1>2. \A e : Reliable(e)' <=> Reliable(e)
  BY <1>0 DEF Reliable
<1>3. /\ Keys' = Keys /\ (SumsFit' <=> SumsFit)
      /\ \A X, e : Promised(X, e)' = Promised(X, e)
      /\ \A S : Definites(S)' = Definites(S)
  BY <1>0, ConciseSame
<1> HIDE DEF l
<1>4. ASSUME "concise" \in DOMAIN printed
      PROVE  ConciseShown'
  <2>1. ASSUME NEW f \in Fields, Reliable(f)
        PROVE  Summed(f) = Keys
    <3>1. CASE Style # "concise"
      BY <3>1 DEF Summed
    <3>2. CASE Style = "concise"
      <4>1. ConciseRounds(l)
        BY <1>0, <2>1, <3>2 DEF Reliable
      <4>2. l.n = 5
        BY <1>0, <4>1 DEF ConciseRounds
      <4>3. PICK i \in 1 .. 4 : Order[i] = f
        BY OrderOnce
      <4>4. i < l.n
        BY <4>2
      <4>5. Passed(f, l) = Keys
        BY <4>3, <4>4 DEF Passed
      <4>6. QED
        BY <1>0, <3>2, <4>5 DEF Summed, l
    <3>3. QED
      BY <3>1, <3>2
  <2>2. \A f : Summed(f)' = Keys
    BY <1>1, <1>3 DEF Summed
  <2>3. /\ Fields \subseteq DOMAIN printed["concise"]
        /\ SumsFit => \A f \in Fields :
              Reliable(f) => Definites(printed["concise"][f]) = Promised(Keys, f)
    BY <1>0, <1>4, <2>1 DEF ConciseShown
  <2>4. /\ \A f : Definites(printed["concise"][f])' = Definites(printed["concise"][f])
        /\ \A f : Promised(Summed(f), f)' = Promised(Keys, f)
    BY <1>0, <1>3, <2>2
  <2>5. QED
    BY <1>0, <1>2, <1>3, <2>3, <2>4 DEF ConciseShown
<1>5. QED
  BY <1>0, <1>1, <1>4 DEF ConcisePrinted

LEMMA InitConcise == Init => ConcisePrinted
<1>1. SUFFICES ASSUME Init
               PROVE  ConcisePrinted
  OBVIOUS
<1>2. DOMAIN printed = {} /\ ctl.pc = "run"
  BY <1>1 DEF Init, Running
<1>3. QED
  BY <1>2 DEF ConcisePrinted

LEMMA NextConcisePrinted ==
    ReportInv /\ CallsMerged /\ RowsPrinted /\ ConcisePrinted /\ [Next]_vars => ConcisePrinted'
<1>1. SUFFICES ASSUME ReportInv, CallsMerged, RowsPrinted, ConcisePrinted, [Next]_vars
               PROVE  ConcisePrinted'
  OBVIOUS
<1>2. /\ ctl = [pc |-> ctl.pc, pending |-> ctl.pending, from |-> ctl.from,
                style |-> ctl.style, styles |-> ctl.styles]
      /\ ctl.pc \in {"merge", "publish"} => DOMAIN printed = {}
  BY <1>1 DEF ReportInv, ReportKnown
<1>3. ASSUME DOMAIN printed' = {}, ctl'.pc # "collective"
      PROVE  ConcisePrinted'
  BY <1>3 DEF ConcisePrinted
<1>4. CASE UNCHANGED vars
  <2>1. UNCHANGED <<setup, calls, named, g, ctl, loc, printed>>
    BY <1>4 DEF vars, bounds, caches
  <2>2. Style' = Style /\ \A e : Reliable(e)' <=> Reliable(e)
    BY <2>1 DEF Style, Reliable
  <2>3. /\ Keys' = Keys /\ (SumsFit' <=> SumsFit)
        /\ \A X, e : Promised(X, e)' = Promised(X, e)
        /\ \A k : ConciseRounds(k)' <=> ConciseRounds(k)
        /\ \A e, k : Passed(e, k)' = Passed(e, k)
        /\ \A S : Definites(S)' = Definites(S)
    BY <2>1, ConciseSame, RoundsSame, ConciseRoundsSame
  <2>4. \A e : Summed(e)' = Summed(e)
    BY <2>1, <2>2, <2>3 DEF Summed
  <2>5. ConciseShown' <=> ConciseShown
    <3>1. \A f : Definites(printed["concise"][f])' = Definites(printed["concise"][f])
      BY <2>1, <2>3
    <3>2. \A f : Promised(Summed(f), f)' = Promised(Summed(f), f)
      BY <2>3, <2>4
    <3>3. QED
      BY <2>1, <2>2, <2>3, <3>1, <3>2 DEF ConciseShown
  <2>6. ConciseRounds(loc[Collector])' <=> ConciseRounds(loc[Collector])
    BY <2>1, <2>3
  <2>7. QED
    BY <1>1, <2>1, <2>2, <2>5, <2>6 DEF ConcisePrinted
<1>5. CASE \E r \in Ranks : \E t \in ThreadsUsed(r), k \in Kinds :
              Call(r, t, k.site, k.amount)
  <2>1. printed' = <<>> /\ ctl'.pc = "run"
    BY <1>5 DEF Call
  <2>2. DOMAIN printed' = {}
    BY <2>1
  <2>3. QED
    BY <1>3, <2>1, <2>2
<1>6. CASE PcontrolReport
  <2>1. PICK s : Report(s)
    BY <1>6 DEF PcontrolReport
  <2>2. /\ ctl.pc = "run"
        /\ \/ ctl' = ctl
           \/ \E all : ctl' = [Running EXCEPT !.pc = "merge", !.pending = all, !.style = s]
    BY <2>1 DEF Report
  <2>3. ctl'.pc \in {"run", "merge"}
    BY <2>2 DEF Running
  <2>4. DOMAIN printed' = {}
    <3>1. printed' = <<>>
      BY <2>1 DEF Report
    <3>2. QED
      BY <3>1
  <2>5. QED
    BY <1>3, <2>3, <2>4
<1>7. CASE InsertCallsite
  <2>1. UNCHANGED printed /\ ctl.pc = "merge"
    BY <1>7 DEF InsertCallsite
  <2>2. PICK p : ctl' = [ctl EXCEPT !.pending = @ \ {p}, !.from = p.rank,
                               !.pc = IF ctl.pending = {p} THEN "publish" ELSE "merge"]
    BY <1>7 DEF InsertCallsite
  <2>3. ctl'.pc \in {"publish", "merge"}
    BY <1>2, <2>2
  <2>4. QED
    BY <1>2, <1>3, <2>1, <2>2, <2>3
<1>8. CASE Publish
  <2>1. UNCHANGED printed /\ ctl.pc = "publish"
    BY <1>8 DEF Publish
  <2>2. ctl' = [ctl EXCEPT !.pc = "print", !.styles = Styles]
    BY <1>8 DEF Publish
  <2>3. ctl'.pc = "print"
    BY <1>2, <2>2
  <2>4. QED
    BY <1>2, <1>3, <2>1, <2>3
<1>9. CASE ProfilePrint
  BY <1>1, <1>9, PrintConcise
<1>10. CASE Meet
  BY <1>1, <1>10, MeetConcise
<1>11. CASE Barrier
  BY <1>1, <1>11, BarrierConcise
<1>12. CASE Reset
  <2>1. printed' = <<>> /\ ctl'.pc = "run"
    BY <1>12 DEF Reset
  <2>2. DOMAIN printed' = {}
    BY <2>1
  <2>3. QED
    BY <1>3, <2>1, <2>2
<1>13. QED
  BY <1>1, <1>4, <1>5, <1>6, <1>7, <1>8, <1>9, <1>10, <1>11, <1>12 DEF Next

LEMMA ConciseTold == ConcisePrinted => (SumsFit => ConciseOfCalls)
<1>1. SUFFICES ASSUME ConcisePrinted, SumsFit, Done("concise"), NEW f \in Fields, Reliable(f)
               PROVE  LET data == {x \in Keys : SumOf(CallsOf(Ranks, {x}), f) > 0}
                          rows == {ConciseFromCalls(x, f) : x \in IF f = "time" THEN Keys ELSE data}
                      IN {Definite(row) : row \in printed["concise"][f]} =
                            IF ~setup.detail THEN {}
                            ELSE IF ~setup.collective /\ f # "time" /\ Cardinality(data) = 1 THEN {}
                            ELSE rows
  BY DEF ConciseOfCalls
<1>2. Definites(printed["concise"][f]) = Promised(Keys, f)
  <2>1. Summed(f) = Keys
    BY <1>1 DEF Done, Summed
  <2>2. QED
    BY <1>1, <2>1 DEF ConcisePrinted, ConciseShown, Done
<1> DEFINE data == {x \in Keys : SumOf(CallsOf(Ranks, {x}), f) > 0}
<1>3. (IF f = "time" THEN Keys ELSE data) = Told(f) /\ Keys \cap Told(f) = Told(f)
  BY DEF Told
<1>4. f # "time" => data = Told(f)
  BY <1>3
<1> HIDE DEF data
<1>5. {ConciseFromCalls(x, f) : x \in IF f = "time" THEN Keys ELSE data} = ConciseFor(Keys, f)
  BY <1>3 DEF ConciseFor
<1>6. Definites(printed["concise"][f]) =
         IF ~setup.detail THEN {}
         ELSE IF ~setup.collective /\ f # "time" /\ Cardinality(data) = 1 THEN {}
         ELSE {ConciseFromCalls(x, f) : x \in IF f = "time" THEN Keys ELSE data}
  BY <1>2, <1>4, <1>5 DEF Promised
<1>7. QED
  BY <1>6 DEF Definites, data

(* The rows of a concise report are those of the calls: for each callsite    *)
(* how many ranks called it, what they took in all, the greatest and the    *)
(* least sum and the first rank that has each (report.c:                    *)
(* mpiPi_print_concise_callsite_..., mpiPi_coll_print_concise_...).  The    *)
(* collective minimum starts from DBL_MAX (report.c:2086), which no sum of  *)
(* doubles exceeds.                                                         *)
THEOREM ConciseAlways == Spec => [](SumsFit => ConciseOfCalls)
<1>1. Spec => []RowsPrinted
  BY InitRows, NextRows, ReportInvariant, MergedAlways, PTL DEF Spec
<1>2. Spec => []ConcisePrinted
  BY <1>1, InitConcise, NextConcisePrinted, ReportInvariant, MergedAlways, PTL DEF Spec
<1>3. QED
  BY <1>2, ConciseTold, PTL

-----------------------------------------------------------------------------
(***************************************************************************)
(* The totals of the collector: those of time and bytes are cleared by     *)
(* every report, the others by a reset only.                               *)
(***************************************************************************)
TotalsOf(h, K) ==
    /\ \A f \in Fields : since = 1 \/ f \in {"time", "sent"} => h.total[f] = Amount(calls, K, f)
    /\ since = 1 => /\ h.large = Count(calls, LargeOf(K \cap Sending))
                    /\ h.sentCount = Count(calls, K \cap Sending)

TotalsMerged ==
    /\ since \in Nat
    /\ since = 0 => ctl.pc = "run" /\ g.total = NoTotals /\ g.large = 0 /\ g.sentCount = 0
    /\ ctl.pc # "run" => TotalsOf(g, Taken)

(* A concise report adds the times of the ranks to those that are there.   *)
AppMerged ==
    /\ since = 0 => g.app = 0
    /\ ctl.pc \in {"merge", "publish"} /\ since = 1 => g.app = 0
    /\ ctl.pc = "print" /\ Style # "verbose" /\ since = 1 => g.app = 0

(* The record that the collector takes and the calls that it represents.   *)
LEMMA RecordTaken ==
    ASSUME ReportInv, InsertCallsite
    PROVE  \E q \in RecordsOf(Ranks), L \in SUBSET DOMAIN calls :
              /\ g' = InsertRecord(g, q, setup) /\ Represents(q, L, calls)
              /\ L = AtSite(CallsBy(q.rank), SiteOf(q))
              /\ Taken \cap L = {} /\ Taken' = Taken \cup L
<1>1. /\ RecordsKnown /\ NamesKnown /\ ReportKnown /\ MergedKnown
      /\ UNCHANGED <<setup, calls>> /\ ctl.pc = "merge"
  BY DEF ReportInv, InsertCallsite, bounds
<1>2. PICK p \in NextRecords :
         /\ named' = named \cup {[site |-> [op |-> p.op, pc |-> p.pc], id |-> FoundFor(p).id]}
         /\ g' = InsertRecord(g, [p EXCEPT !.csid = FoundFor(p).id], setup)
         /\ ctl' = [ctl EXCEPT !.pending = @ \ {p}, !.from = p.rank,
                        !.pc = IF ctl.pending = {p} THEN "publish" ELSE "merge"]
  BY DEF InsertCallsite, CacheFor, FoundFor, KeyFor
<1> DEFINE id == FoundFor(p).id
           q == [p EXCEPT !.csid = id]
           L == AtSite(CallsBy(p.rank), SiteOf(p))
<1>3. p \in ctl.pending
  BY DEF NextRecords
<1>4. ctl'.pending = ctl.pending \ {p}
  <2> DEFINE pc == IF ctl.pending = {p} THEN "publish" ELSE "merge"
             pending == ctl.pending \ {p}
  <2>1. ctl = [pc |-> ctl.pc, pending |-> ctl.pending, from |-> ctl.from,
               style |-> ctl.style, styles |-> ctl.styles]
    BY <1>1 DEF ReportKnown
  <2>2. ctl' = [ctl EXCEPT !.pending = pending, !.from = p.rank, !.pc = pc]
    BY <1>2, <2>1
  <2> HIDE DEF pc, pending
  <2>3. ctl'.pending = pending
    BY <2>1, <2>2
  <2>4. QED
    BY <2>3 DEF pending
<1>5. g' = InsertRecord(g, q, setup)
  BY <1>2
<1> HIDE DEF L, id
<1>6. /\ L \in SUBSET DOMAIN calls /\ Taken \cap L = {} /\ Taken' = Taken \cup L
      /\ p \in RecordsOf(Ranks) /\ Represents(p, L, calls)
  BY <1>1, <1>3, <1>4, TakenMore DEF L
<1>7. id \in Nat
  <2>1. NamesKnown'
    BY <1>1, InsertInv DEF ReportInv
  <2>2. [site |-> [op |-> p.op, pc |-> p.pc], id |-> id] \in [site : Sites, id : Nat]'
    BY <1>2, <2>1 DEF NamesKnown, id
  <2>3. QED
    BY <2>2
<1>8. /\ q \in RecordsOf(Ranks) /\ q.rank = p.rank /\ SiteOf(q) = SiteOf(p)
      /\ q.count = p.count /\ q.large = p.large /\ q.sum = p.sum /\ q.max = p.max /\ q.min = p.min
  BY <1>6, <1>7 DEF RecordsOf, SiteOf
<1> HIDE DEF q
<1>9. Represents(q, L, calls)
  BY <1>6, <1>8 DEF Represents
<1>10. QED
  BY <1>5, <1>6, <1>8, <1>9 DEF L

(* A record counts its calls as messages if one of them sends data.        *)
LEMMA SendingRecord ==
    ASSUME RecordsKnown, NEW q \in RecordsOf(Ranks), NEW L, L = AtSite(CallsBy(q.rank), SiteOf(q)),
           L \in SUBSET DOMAIN calls, Represents(q, L, calls)
    PROVE  /\ q.sum["sent"] > 0 => L \subseteq Sending
           /\ ~(q.sum["sent"] > 0) => L \cap Sending = {}
<1>1. calls \in Bags
  BY CallFacts
<1>2. q.sum["sent"] > 0 <=> \E l \in L : l.amount["sent"] > 0
  <2>1. Amount(calls, L, "sent") > 0 <=> \E l \in L : l.amount["sent"] > 0
    BY <1>1, FieldsFacts, AmountZero
  <2>2. QED
    BY <2>1, FieldsFacts DEF Represents
<1>3. \A l : l \in L <=> l \in Counted /\ l.rank = q.rank /\ l.site = SiteOf(q)
  BY DEF AtSite, CallsBy
<1>4. QED
  BY <1>2, <1>3 DEF Sending

LEMMA InsertTotals ==
    ASSUME ReportInv, TotalsMerged, CallsMerged, InsertCallsite
    PROVE  TotalsMerged' /\ g'.app = g.app
<1>1. /\ RecordsKnown /\ ReportKnown /\ IsGlobal(g) /\ HasTotals(g)
      /\ UNCHANGED <<setup, calls, since>> /\ ctl.pc = "merge"
  BY DEF ReportInv, MergedKnown, CallsMerged, InsertCallsite, bounds
<1>2. PICK q \in RecordsOf(Ranks), L \in SUBSET DOMAIN calls :
              /\ g' = InsertRecord(g, q, setup) /\ Represents(q, L, calls)
              /\ L = AtSite(CallsBy(q.rank), SiteOf(q))
              /\ Taken \cap L = {} /\ Taken' = Taken \cup L
  BY RecordTaken
<1>3. IsInserted(g', g, q, setup)
  BY <1>1, <1>2, InsertedRecord
<1>4. /\ g'.total = [f \in Fields |-> g.total[f] + q.sum[f]]
      /\ g'.sentCount = g.sentCount + IF q.sum["sent"] > 0 THEN q.count ELSE 0
      /\ g'.large = g.large + IF q.sum["sent"] > 0 THEN q.large ELSE 0
      /\ g'.app = g.app
  BY <1>3 DEF IsInserted
<1>5. /\ q.count = Count(calls, L) /\ q.large = Count(calls, LargeOf(L))
      /\ \A f \in Fields : q.sum[f] = Amount(calls, L, f)
  BY <1>2 DEF Represents
<1>6. calls \in Bags /\ Taken \in SUBSET DOMAIN calls
  BY <1>1, CallFacts DEF Taken
<1>7. /\ q.sum["sent"] > 0 => L \subseteq Sending
      /\ ~(q.sum["sent"] > 0) => L \cap Sending = {}
  BY <1>1, <1>2, SendingRecord
<1>8. TotalsOf(g, Taken)
  BY <1>1 DEF TotalsMerged
<1>9. ctl'.pc \in {"merge", "publish"}
  <2>1. PICK p : ctl' = [ctl EXCEPT !.pending = @ \ {p}, !.from = p.rank,
                               !.pc = IF ctl.pending = {p} THEN "publish" ELSE "merge"]
    BY DEF InsertCallsite
  <2>2. QED
    BY <1>1, <2>1 DEF ReportKnown
<1>10. \A f \in Fields : since = 1 \/ f \in {"time", "sent"} =>
              g'.total[f] = Amount(calls, Taken \cup L, f)
  <2>1. \A f \in Fields : Amount(calls, Taken \cup L, f) = Amount(calls, Taken, f) + Amount(calls, L, f)
    BY <1>2, <1>6, CountUnion
  <2>2. QED
    BY <1>4, <1>5, <1>8, <2>1 DEF TotalsOf
<1>11. ASSUME since = 1
       PROVE  /\ g'.large = Count(calls, LargeOf((Taken \cup L) \cap Sending))
              /\ g'.sentCount = Count(calls, (Taken \cup L) \cap Sending)
  <2> DEFINE T == Taken \cap Sending
  <2>1. g.large = Count(calls, LargeOf(T)) /\ g.sentCount = Count(calls, T)
    BY <1>8, <1>11 DEF TotalsOf
  <2>2. CASE q.sum["sent"] > 0
    <3>1. (Taken \cup L) \cap Sending = T \cup L
      BY <1>7, <2>2
    <3>2. LargeOf(T \cup L) = LargeOf(T) \cup LargeOf(L)
      BY DEF LargeOf
    <3>3. T \in SUBSET DOMAIN calls /\ T \cap L = {}
      BY <1>2, <1>6
    <3> HIDE DEF T
    <3>4. /\ LargeOf(T) \in SUBSET DOMAIN calls /\ LargeOf(L) \in SUBSET DOMAIN calls
          /\ LargeOf(T) \cap LargeOf(L) = {}
      BY <1>2, <3>3 DEF LargeOf
    <3>5. Count(calls, T \cup L) = Count(calls, T) + Count(calls, L)
      BY <1>2, <1>6, <3>3, CountUnion
    <3>6. Count(calls, LargeOf(T) \cup LargeOf(L)) = Count(calls, LargeOf(T)) + Count(calls, LargeOf(L))
      BY <1>6, <3>4, CountUnion
    <3>7. QED
      BY <1>4, <1>5, <2>1, <2>2, <3>1, <3>2, <3>5, <3>6
  <2>3. CASE ~(q.sum["sent"] > 0)
    <3>1. (Taken \cup L) \cap Sending = T
      BY <1>7, <2>3
    <3> HIDE DEF T
    <3>2. T \in SUBSET DOMAIN calls /\ LargeOf(T) \in SUBSET DOMAIN calls
      BY <1>6 DEF T, LargeOf
    <3>3. Count(calls, LargeOf(T)) \in Nat /\ Count(calls, T) \in Nat
      BY <1>6, <3>2, BagFacts
    <3>4. g.large \in Nat /\ g.sentCount \in Nat
      BY <2>1, <3>3
    <3>5. g'.large = g.large /\ g'.sentCount = g.sentCount
      BY <1>4, <2>3, <3>4
    <3>6. QED
      BY <2>1, <3>1, <3>5, ZenonT(30)
  <2>4. QED
    BY <2>2, <2>3
<1>12. TotalsOf(g', Taken \cup L)
  BY <1>10, <1>11 DEF TotalsOf
<1>13. TotalsOf(g, Taken)'
  <2>1. Sending' = Sending /\ \A K : LargeOf(K)' = LargeOf(K)
    BY <1>1 DEF Sending, Counted, LargeOf
  <2>2. QED
    BY <1>1, <1>2, <1>12, <2>1 DEF TotalsOf
<1>14. QED
  BY <1>1, <1>4, <1>9, <1>13 DEF TotalsMerged

LEMMA SendingSame ==
    ASSUME UNCHANGED <<setup, calls>>
    PROVE  Counted' = Counted /\ Sending' = Sending /\ \A K : LargeOf(K)' = LargeOf(K)
  BY DEF Sending, Counted, LargeOf

LEMMA TotalsSteady ==
    ASSUME TotalsMerged, UNCHANGED <<setup, calls, since>>,
           ctl'.pc # "run" => ctl.pc # "run" /\ ctl'.pending = ctl.pending,
           ctl.pc = "run" => ctl'.pc = "run",
           g'.total = g.total, g'.large = g.large, g'.sentCount = g.sentCount
    PROVE  TotalsMerged'
<1>1. ASSUME ctl'.pc # "run"
      PROVE  TotalsOf(g, Taken)'
  <2>1. Counted' = Counted /\ Sending' = Sending /\ \A K : LargeOf(K)' = LargeOf(K)
    BY SendingSame
  <2>2. Taken' = Taken
    BY <1>1, <2>1 DEF Taken
  <2>3. TotalsOf(g, Taken)
    BY <1>1 DEF TotalsMerged
  <2>4. QED
    BY <2>1, <2>2, <2>3 DEF TotalsOf
<1>2. QED
  BY <1>1 DEF TotalsMerged

LEMMA NothingTaken ==
    ASSUME ReportInv, NEW style, Report(style), UNION {MergedThreads(r) : r \in Ranks} # {}
    PROVE  Taken' = {}
<1> DEFINE all == UNION {MergedThreads(r) : r \in Ranks}
<1>1. RecordsKnown /\ UNCHANGED <<setup, calls>>
  BY DEF ReportInv, Report
<1>2. ctl'.pending = all
  <2>1. ctl' = [Running EXCEPT !.pc = "merge", !.pending = all, !.style = style]
    BY DEF Report
  <2> HIDE DEF all
  <2>2. QED
    BY <2>1 DEF Running
<1> HIDE DEF all
<1>3. SUFFICES ASSUME NEW k \in Counted, \A p \in all : ~(p.rank = k.rank /\ SiteOf(p) = k.site)
               PROVE  FALSE
  <2>1. Counted' = Counted
    BY <1>1 DEF Counted
  <2>2. QED
    BY <1>2, <1>3, <2>1 DEF Taken
<1>4. k.rank \in Ranks
  <2>1. k \in CallSet
    BY <1>1, CallFacts
  <2>2. QED
    BY <2>1 DEF CallSet
<1>5. MergedThreads(k.rank) \in Tables(k.rank, CallsBy(k.rank), calls)
  BY <1>1, <1>4, MergedRankTable
<1>6. PICK p \in MergedThreads(k.rank) : SiteOf(p) = k.site
  BY <1>1, <1>4, <1>5, RankRecords
<1>7. p.rank = k.rank
  BY <1>1, <1>4, <1>5, RankRecords
<1>8. p \in all
  BY <1>4 DEF all
<1>9. QED
  BY <1>3, <1>6, <1>7, <1>8

LEMMA ReportTotals ==
    ASSUME ReportInv, CallsMerged, TotalsMerged, NEW style, Report(style)
    PROVE  TotalsMerged'
<1> DEFINE all == UNION {MergedThreads(r) : r \in Ranks}
<1>1. /\ RecordsKnown /\ IsGlobal(g) /\ HasTotals(g) /\ UNCHANGED <<setup, calls>>
      /\ ctl.pc = "run"
  BY DEF ReportInv, MergedKnown, CallsMerged, Report
<1>2. CASE all = {}
  <2>1. UNCHANGED <<ctl, g, since>>
    BY <1>2 DEF Report
  <2>2. QED
    BY <1>1, <2>1, TotalsSteady
<1>3. CASE all # {}
  <2>1. /\ ctl' = [Running EXCEPT !.pc = "merge", !.pending = all, !.style = style]
        /\ g' = OpenTables(g) /\ since' = since + 1
    BY <1>3 DEF Report
  <2>2. Taken' = {}
    BY <1>3, NothingTaken
  <2> HIDE DEF all
  <2>3. ctl'.pc = "merge"
    BY <2>1 DEF Running
  <2> DEFINE total == [g.total EXCEPT !["time"] = 0, !["sent"] = 0]
             task == [r \in Ranks |-> 0]
  <2>4. g' = [g EXCEPT !.stats = {}, !.agg = {}, !.ops = {}, !.covRoom = {},
                       !.total = total, !.task = task]
    BY <1>1, <2>1 DEF OpenTables, IsGlobal
  <2>5. total["time"] = 0 /\ total["sent"] = 0 /\ (g.total = NoTotals => \A f \in Fields : total[f] = 0)
    BY <1>1 DEF HasTotals, NoTotals, Fields
  <2> HIDE DEF total, task
  <2>6. g'.total = total /\ g'.large = g.large /\ g'.sentCount = g.sentCount
    BY <1>1, <2>4 DEF IsGlobal
  <2>7. \A c, f : Amount(c, {}, f) = 0 /\ Count(c, {}) = 0
    BY SumEmpty DEF Amount, Count
  <2>8. LargeOf({} \cap Sending) = {} /\ {} \cap Sending = {}
    BY DEF LargeOf
  <2>9. since \in Nat /\ since' \in Nat /\ since' # 0 /\ (since' = 1 => since = 0)
    BY <2>1 DEF TotalsMerged
  <2>10. TotalsOf(g, Taken)'
    <3>1. \A f \in Fields : since' = 1 \/ f \in {"time", "sent"} => g'.total[f] = 0
      BY <2>5, <2>6, <2>9 DEF TotalsMerged
    <3>2. since' = 1 => g'.large = 0 /\ g'.sentCount = 0
      BY <2>6, <2>9 DEF TotalsMerged
    <3>3. LargeOf(Taken \cap Sending)' = {} /\ (Taken \cap Sending)' = {}
      BY <2>2 DEF LargeOf
    <3>4. QED
      BY <2>2, <2>7, <3>1, <3>2, <3>3 DEF TotalsOf
  <2>11. QED
    BY <2>9, <2>10 DEF TotalsMerged
<1>4. QED
  BY <1>2, <1>3

LEMMA InitTotals == Init => TotalsMerged /\ AppMerged
<1>1. SUFFICES ASSUME Init
               PROVE  TotalsMerged /\ AppMerged
  OBVIOUS
<1>2. since = 0 /\ g = GlobalInit /\ ctl = Running
  BY <1>1 DEF Init
<1>3. g.total = NoTotals /\ g.large = 0 /\ g.sentCount = 0 /\ g.app = 0 /\ ctl.pc = "run"
  BY <1>2 DEF GlobalInit, Running
<1>4. QED
  BY <1>2, <1>3 DEF TotalsMerged, AppMerged

LEMMA AppSteady ==
    ASSUME AppMerged, UNCHANGED since, g'.app = g.app,
           ctl'.pc \in {"merge", "publish"} => ctl.pc \in {"merge", "publish"},
           ctl'.pc = "print" => ctl.pc \in {"merge", "publish"} \/ (ctl.pc = "print" /\ Style' = Style)
    PROVE  AppMerged'
  BY DEF AppMerged

LEMMA NextTotals ==
    ReportInv /\ CallsMerged /\ RowsPrinted /\ TotalsMerged /\ AppMerged /\ [Next]_vars
       => TotalsMerged' /\ AppMerged'
<1>1. SUFFICES ASSUME ReportInv, CallsMerged, RowsPrinted, TotalsMerged, AppMerged, [Next]_vars
               PROVE  TotalsMerged' /\ AppMerged'
  OBVIOUS
<1>2. /\ IsGlobal(g) /\ (ctl.pc # "run" /\ ctl.pc # "merge" => ctl.pending = {})
      /\ ctl = [pc |-> ctl.pc, pending |-> ctl.pending, from |-> ctl.from,
                style |-> ctl.style, styles |-> ctl.styles]
  BY <1>1 DEF ReportInv, ReportKnown, MergedKnown
<1>3. CASE UNCHANGED vars
  <2>1. UNCHANGED <<setup, calls, since, g, ctl>>
    BY <1>3 DEF vars, bounds
  <2>2. QED
    BY <1>1, <2>1, TotalsSteady, AppSteady DEF Style
<1>4. CASE \E r \in Ranks : \E t \in ThreadsUsed(r), k \in Kinds :
              Call(r, t, k.site, k.amount)
  <2>1. UNCHANGED <<g, ctl, since>> /\ ctl.pc = "run"
    BY <1>4 DEF Call
  <2>2. QED
    BY <1>1, <2>1 DEF TotalsMerged, AppMerged
<1>5. CASE PcontrolReport
  <2>1. PICK style : Report(style)
    BY <1>5 DEF PcontrolReport
  <2>2. TotalsMerged'
    BY <1>1, <2>1, ReportTotals
  <2>3. /\ ctl.pc = "run"
        /\ \/ UNCHANGED <<ctl, g, since>>
           \/ /\ since' = since + 1 /\ g' = OpenTables(g)
              /\ \E all : ctl' = [Running EXCEPT !.pc = "merge", !.pending = all, !.style = style]
    BY <2>1 DEF Report
  <2>4. CASE UNCHANGED <<ctl, g, since>>
    BY <1>1, <2>2, <2>3, <2>4, AppSteady
  <2>5. CASE since' = since + 1 /\ g' = OpenTables(g)
    <3>1. PICK total, task : g' = [g EXCEPT !.stats = {}, !.agg = {}, !.ops = {}, !.covRoom = {},
                                            !.total = total, !.task = task]
      BY <1>2, <2>5 DEF OpenTables, IsGlobal
    <3>2. g'.app = g.app
      BY <1>2, <3>1 DEF IsGlobal
    <3>3. since \in Nat
      BY <1>1 DEF TotalsMerged
    <3>4. since' # 0 /\ (since' = 1 => since = 0)
      BY <2>5, <3>3
    <3>5. AppMerged'
      BY <1>1, <3>2, <3>4 DEF AppMerged
    <3>6. QED
      BY <2>2, <3>5
  <2>6. QED
    BY <2>3, <2>4, <2>5
<1>6. CASE InsertCallsite
  <2>1. TotalsMerged' /\ g'.app = g.app
    BY <1>1, <1>6, InsertTotals
  <2>2. PICK p : ctl' = [ctl EXCEPT !.pending = @ \ {p}, !.from = p.rank,
                               !.pc = IF ctl.pending = {p} THEN "publish" ELSE "merge"]
    BY <1>6 DEF InsertCallsite
  <2>3. ctl'.pc \in {"publish", "merge"} /\ ctl.pc = "merge" /\ UNCHANGED since
    BY <1>2, <1>6, <2>2 DEF InsertCallsite
  <2>4. QED
    BY <1>1, <2>1, <2>3, AppSteady
<1>7. CASE Publish
  <2>1. UNCHANGED <<setup, calls, since>> /\ ctl.pc = "publish"
    BY <1>7 DEF Publish, bounds
  <2>2. PICK ops : InsertOperations(g) = [g EXCEPT !.ops = ops]
    BY DEF InsertOperations
  <2>3. g'.total = g.total /\ g'.large = g.large /\ g'.sentCount = g.sentCount /\ g'.app = g.app
    <3>1. g' = g \/ g' = [g EXCEPT !.ops = ops]
      BY <1>7, <2>2 DEF Publish
    <3>2. QED
      BY <1>2, <3>1 DEF IsGlobal
  <2>4. PICK styles : ctl' = [ctl EXCEPT !.pc = "print", !.styles = styles]
    BY <1>7 DEF Publish
  <2>5. ctl'.pending = ctl.pending /\ ctl'.pc = "print"
    BY <1>2, <2>4
  <2>6. QED
    BY <1>1, <2>1, <2>3, <2>5, TotalsSteady, AppSteady
<1>8. ASSUME ctl.pc \in {"print", "collective"}, NextStyle(ctl).pc = "print"
      PROVE  Head(NextStyle(ctl).styles) = "verbose"
  <2>1. ctl.styles = <<"concise", "verbose">> \/ (\E s : ctl.styles = <<s>>)
    BY <1>1, <1>8 DEF RowsPrinted
  <2>2. NextStyle(ctl).styles = <<"verbose">>
    BY <1>2, <1>8, <2>1, StylesLeft
  <2>3. QED
    BY <2>2
<1>9. NextStyle(ctl).pc \in {"run", "print"} /\ NextStyle(ctl).pending \in {{}, ctl.pending}
  BY <1>2, NextStyleShape
<1>10. CASE ProfilePrint
  <2>1. UNCHANGED <<setup, calls, since>> /\ ctl.pc = "print"
    BY <1>10 DEF ProfilePrint, bounds
  <2>2. PICK app : g' = [g EXCEPT !.app = app]
    BY <1>10 DEF ProfilePrint, VerboseApp, ConciseApp
  <2>3. g'.total = g.total /\ g'.large = g.large /\ g'.sentCount = g.sentCount
    BY <1>2, <2>2 DEF IsGlobal
  <2>4. ctl' = [ctl EXCEPT !.pc = "collective"] \/ ctl' = NextStyle(ctl)
    BY <1>10 DEF ProfilePrint
  <2>5. /\ ctl'.pending = ctl.pending /\ ctl'.pc \in {"collective", "run", "print"}
        /\ ctl'.pc = "print" => Style' = "verbose"
    BY <1>2, <1>8, <1>9, <2>1, <2>4 DEF Style
  <2>6. since # 0
    BY <1>1, <2>1 DEF TotalsMerged
  <2>7. AppMerged'
    BY <2>1, <2>5, <2>6 DEF AppMerged
  <2>8. QED
    BY <1>1, <2>1, <2>3, <2>5, <2>7, TotalsSteady
<1>11. CASE Meet
  <2>1. UNCHANGED <<setup, calls, since, g, ctl>>
    BY <1>11 DEF Meet, bounds
  <2>2. QED
    BY <1>1, <2>1, TotalsSteady, AppSteady DEF Style
<1>12. CASE Barrier
  <2>1. UNCHANGED <<setup, calls, since, g>> /\ ctl.pc = "collective" /\ ctl' = NextStyle(ctl)
    BY <1>12 DEF Barrier, bounds
  <2>2. /\ ctl'.pending = ctl.pending /\ ctl'.pc \in {"run", "print"}
        /\ ctl'.pc = "print" => Style' = "verbose"
    BY <1>2, <1>8, <1>9, <2>1 DEF Style
  <2>3. since # 0
    BY <1>1, <2>1 DEF TotalsMerged
  <2>4. AppMerged'
    BY <2>1, <2>2, <2>3 DEF AppMerged
  <2>5. QED
    BY <1>1, <2>1, <2>2, <2>4, TotalsSteady
<1>13. CASE Reset
  <2>1. /\ ctl'.pc = "run" /\ g' = ResetTotals(g) /\ since' = 0
    BY <1>13 DEF Reset
  <2>2. g'.total = NoTotals /\ g'.large = 0 /\ g'.sentCount = 0 /\ g'.app = 0
    BY <1>2, <2>1 DEF ResetTotals, IsGlobal
  <2>3. QED
    BY <2>1, <2>2 DEF TotalsMerged, AppMerged
<1>14. QED
  BY <1>1, <1>3, <1>4, <1>5, <1>6, <1>7, <1>10, <1>11, <1>12, <1>13 DEF Next

-----------------------------------------------------------------------------
(***************************************************************************)
(* The table by operation.  Without stacks a callsite is an operation, and *)
(* the aggregates are those by operation already.                          *)
(***************************************************************************)
Renamed(p) == [p EXCEPT !.rank = Star, !.csid = p.op]

LEMMA OperationsFold ==
    ASSUME NEW T, IsFiniteSet(T), \A p \in T : Renamed(p) = p,
           \A p, q \in T : p.op = q.op => p = q
    PROVE  FoldSet(LAMBDA p, acc : Accumulate(acc, p, Renamed(p), SameOp), {}, T) = T
<1> DEFINE add(p, acc) == Accumulate(acc, p, Renamed(p), SameOp)
           pick == [s \in SUBSET T |-> CHOOSE p \in s : TRUE]
           step == [p \in T |-> [acc \in SUBSET T |-> add(p, acc)]]
           IsFold(f) == f = [s \in SUBSET T |-> IF s = {} THEN {}
                                ELSE LET p == CHOOSE p \in s : TRUE IN add(p, f[s \ {p}])]
           Folds(f) == /\ f[{}] = {}
                       /\ \A s \in SUBSET T : s # {} /\ f[s \ {pick[s]}] \in SUBSET T
                                                => f[s] = add(pick[s], f[s \ {pick[s]}])
<1>1. \A s \in SUBSET T : s # {} => pick[s] \in s
  OBVIOUS
<1>2. ASSUME NEW s \in SUBSET T, NEW p \in T, p \notin s
      PROVE  add(p, s) = s \cup {p}
  <2>1. Matching(s, p, SameOp) = {}
    BY <1>2 DEF Matching, SameOp
  <2>2. QED
    BY <2>1 DEF Accumulate
<1> HIDE DEF add
<1>3. ASSUME NEW f, Folds(f)
      PROVE  \A s \in SUBSET T : f[s] = s
  <2> DEFINE Good == {s \in SUBSET T : f[s] = s}
  <2>1. {} \in Good
    BY <1>3
  <2>2. ASSUME NEW s \in SUBSET T, s # {}, s \ {pick[s]} \in Good
        PROVE  s \in Good
    <3> DEFINE p == pick[s]
               rest == s \ {p}
    <3>1. p \in s /\ p \in T /\ rest \in SUBSET T /\ p \notin rest
      BY <1>1, <2>2
    <3>2. f[rest] = rest
      BY <2>2
    <3>3. f[s] = add(p, rest)
      BY <1>3, <2>2, <3>1, <3>2
    <3>4. rest \cup {p} = s
      BY <3>1
    <3> HIDE DEF p, rest
    <3>5. f[s] = s
      BY <1>2, <3>1, <3>3, <3>4
    <3>6. QED
      BY <3>5
  <2>3. IsFiniteSet(T)
    OBVIOUS
  <2> HIDE DEF pick, Good, step, IsFold, Folds
  <2>4. \A s \in SUBSET T : s # {} /\ s \ {pick[s]} \in Good => s \in Good
    BY <2>2
  <2>5. \A s \in SUBSET T : s \in Good
    BY ONLY <1>1, <2>1, <2>3, <2>4, SubsetInduction
  <2>6. QED
    BY <2>5 DEF Good
<1>4. \E f : IsFold(f)
  <2>1. PICK f : FoldOf(f, T, {}, pick, step)
    <3> HIDE DEF pick, step
    <3>1. QED
      BY <1>1, FoldExists
  <2>2. f[{}] = {} /\ \A s \in SUBSET T : s # {} => f[s] = step[pick[s]][f[s \ {pick[s]}]]
    BY <2>1 DEF FoldOf
  <2>3. Folds(f)
    BY <1>1, <2>2
  <2>4. \A s \in SUBSET T : f[s] = s
    <3> HIDE DEF Folds
    <3>1. QED
      BY <1>3, <2>3
  <2>5. ASSUME NEW s \in SUBSET T
        PROVE  f[s] = IF s = {} THEN {} ELSE add(pick[s], f[s \ {pick[s]}])
    <3> DEFINE rest == s \ {pick[s]}
    <3>1. rest \in SUBSET T
      OBVIOUS
    <3>2. f[rest] \in SUBSET T
      <4> HIDE DEF rest
      <4>1. QED
        BY <2>4, <3>1
    <3>3. QED
      BY <2>3, <3>2
  <2>6. f = [s \in SUBSET T |-> f[s]]
    BY <2>1 DEF FoldOf
  <2> DEFINE body(s) == IF s = {} THEN {}
                        ELSE LET p == CHOOSE p \in s : TRUE IN add(p, f[s \ {p}])
  <2>7. \A s \in SUBSET T : f[s] = body(s)
    BY <2>5
  <2>8. f = [s \in SUBSET T |-> body(s)]
    <3> HIDE DEF body
    <3>1. QED
      BY <2>6, <2>7
  <2>9. QED
    BY <2>8
<1> DEFINE fold == CHOOSE f : IsFold(f)
<1>5. IsFold(fold)
  <2> HIDE DEF IsFold
  <2>1. QED
    BY <1>4
<1>6. FoldSet(LAMBDA p, acc : Accumulate(acc, p, Renamed(p), SameOp), {}, T) = fold[T]
  BY DEF FoldSet, MapThenFoldSet, add
<1> HIDE DEF fold
<1>7. Folds(fold)
  BY <1>5
<1>8. fold[T] = T
  <2> HIDE DEF Folds
  <2>1. QED
    BY <1>3, <1>7
<1>9. QED
  BY <1>6, <1>8

LEMMA OperationsInserted ==
    ASSUME ReportInv, CallsMerged, ctl.pc # "run", setup.depth = 0
    PROVE  InsertOperations(g).ops = g.agg
<1>1. IsGlobal(g) /\ NamesKnown /\ Groups(g.agg, Star, Ranks, named, Taken, calls)
  BY DEF ReportInv, MergedKnown, CallsMerged, HasCalls
<1>2. IsFiniteSet(g.agg) /\ g.agg \subseteq RecordsOf({Star})
  BY <1>1 DEF Groups
<1>3. \A p \in g.agg : p.csid = p.op
  <2>1. \A p \in g.agg : \E n \in named : n.id = p.csid /\ n.site = SiteOf(p)
    BY <1>1 DEF Groups
  <2>2. \A n \in named : n.id = n.site.op
    BY <1>1 DEF NamesKnown
  <2>3. \A p : SiteOf(p).op = p.op
    BY DEF SiteOf
  <2>4. QED
    BY <2>1, <2>2, <2>3
<1>4. \A p, q \in g.agg : p.op = q.op => p = q
  BY <1>1, <1>3 DEF Groups
<1>5. \A p \in g.agg : Renamed(p) = p
  BY <1>2, <1>3 DEF RecordsOf, Renamed
<1> DEFINE ops == FoldSet(LAMBDA p, acc : Accumulate(acc, p, Renamed(p), SameOp), {}, g.agg)
<1>6. ops = g.agg
  BY <1>2, <1>4, <1>5, OperationsFold
<1>7. InsertOperations(g) = [g EXCEPT !.ops = ops]
  BY DEF InsertOperations, Renamed
<1> HIDE DEF ops
<1>8. QED
  BY <1>1, <1>6, <1>7 DEF IsGlobal

OperationsMerged == ctl.pc \in {"print", "collective"} /\ setup.depth = 0 => g.ops = g.agg

LEMMA InitOperations == Init => OperationsMerged
  BY DEF Init, Running, OperationsMerged

LEMMA NextOperations ==
    ReportInv /\ CallsMerged /\ OperationsMerged /\ [Next]_vars => OperationsMerged'
<1>1. SUFFICES ASSUME ReportInv, CallsMerged, OperationsMerged, [Next]_vars
               PROVE  OperationsMerged'
  OBVIOUS
<1>2. /\ IsGlobal(g)
      /\ ctl = [pc |-> ctl.pc, pending |-> ctl.pending, from |-> ctl.from,
                style |-> ctl.style, styles |-> ctl.styles]
  BY <1>1 DEF ReportInv, ReportKnown, MergedKnown
<1>3. ASSUME ctl'.pc \notin {"print", "collective"}
      PROVE  OperationsMerged'
  BY <1>3 DEF OperationsMerged
<1>4. ASSUME UNCHANGED setup, ctl.pc \in {"print", "collective"}, g'.ops = g.ops, g'.agg = g.agg
      PROVE  OperationsMerged'
  BY <1>1, <1>4 DEF OperationsMerged
<1>5. CASE UNCHANGED vars
  BY <1>3, <1>4, <1>5 DEF vars, bounds
<1>6. CASE \E r \in Ranks : \E t \in ThreadsUsed(r), k \in Kinds :
              Call(r, t, k.site, k.amount)
  BY <1>3, <1>6 DEF Call
<1>7. CASE PcontrolReport
  <2>1. PICK s : Report(s)
    BY <1>7 DEF PcontrolReport
  <2>2. /\ ctl.pc = "run"
        /\ \/ ctl' = ctl
           \/ \E all : ctl' = [Running EXCEPT !.pc = "merge", !.pending = all, !.style = s]
    BY <2>1 DEF Report
  <2>3. ctl'.pc \in {"run", "merge"}
    BY <2>2 DEF Running
  <2>4. QED
    BY <1>3, <2>3
<1>8. CASE InsertCallsite
  <2>1. PICK p : ctl' = [ctl EXCEPT !.pending = @ \ {p}, !.from = p.rank,
                               !.pc = IF ctl.pending = {p} THEN "publish" ELSE "merge"]
    BY <1>8 DEF InsertCallsite
  <2>2. ctl'.pc \in {"publish", "merge"}
    BY <1>2, <2>1
  <2>3. QED
    BY <1>3, <2>2
<1>9. CASE Publish
  <2>1. UNCHANGED setup /\ ctl.pc = "publish"
    BY <1>9 DEF Publish, bounds
  <2>2. CASE setup.depth = 0
    <3>1. g' = InsertOperations(g)
      BY <1>9, <2>2 DEF Publish
    <3>2. g'.ops = g.agg
      BY <1>1, <2>1, <2>2, <3>1, OperationsInserted
    <3>3. PICK ops : InsertOperations(g) = [g EXCEPT !.ops = ops]
      BY DEF InsertOperations
    <3>4. g'.agg = g.agg
      BY <1>2, <3>1, <3>3 DEF IsGlobal
    <3>5. QED
      BY <3>2, <3>4 DEF OperationsMerged
  <2>3. CASE setup.depth # 0
    BY <2>1, <2>3 DEF OperationsMerged
  <2>4. QED
    BY <2>2, <2>3
<1>10. CASE ProfilePrint
  <2>1. PICK app : g' = [g EXCEPT !.app = app]
    BY <1>10 DEF ProfilePrint, VerboseApp, ConciseApp
  <2>2. UNCHANGED setup /\ ctl.pc = "print" /\ g'.ops = g.ops /\ g'.agg = g.agg
    BY <1>2, <1>10, <2>1 DEF IsGlobal, ProfilePrint, bounds
  <2>3. QED
    BY <1>4, <2>2
<1>11. CASE Meet
  BY <1>4, <1>11 DEF Meet, bounds
<1>12. CASE Barrier
  BY <1>4, <1>12 DEF Barrier, bounds
<1>13. CASE Reset
  BY <1>3, <1>13 DEF Reset
<1>14. QED
  BY <1>1, <1>5, <1>6, <1>7, <1>8, <1>9, <1>10, <1>11, <1>12, <1>13 DEF Next

-----------------------------------------------------------------------------
(***************************************************************************)
(* The lists of the greatest.                                              *)
(***************************************************************************)
(* What the aggregates say of the callsites. *)
LEMMA AggregateKey ==
    ASSUME NEW h, Whole(h), NEW p \in h.agg
    PROVE  \E x \in Keys : /\ IdOf(x) = p.csid /\ p.count = CountOf(CallsOf(Ranks, {x}))
                           /\ \A f \in Fields : p.sum[f] = SumOf(CallsOf(Ranks, {x}), f)
<1>1. Groups(h.agg, Star, Ranks, named, Counted, calls) /\ RecordsKnown
  BY DEF Whole, HasCalls
<1>2. PICK n \in named : n.id = p.csid /\ n.site = SiteOf(p)
  BY <1>1 DEF Groups
<1> DEFINE x == Key(n.site)
           K == CallsOf(Ranks, {x})
<1>3. x \in Keys /\ IdOf(x) = p.csid
  BY <1>2, KeyNumbers DEF Whole
<1> HIDE DEF x
<1>4. Represents(p, Group(named, Counted, Ranks, p.csid), calls)
  BY <1>1 DEF Groups
<1>5. K = Group(named, Counted, Ranks, p.csid)
  BY <1>3, KeyGroup DEF Whole
<1>6. K \in SUBSET DOMAIN calls
  BY <1>1, CallsOfFacts
<1>7. p.count = Count(calls, K) /\ \A f \in Fields : p.sum[f] = Amount(calls, K, f)
  BY <1>4, <1>5 DEF Represents
<1>8. p.count = CountOf(K) /\ \A f \in Fields : p.sum[f] = SumOf(K, f)
  BY <1>1, <1>6, <1>7, SumsOfCalls
<1>9. QED
  BY <1>3, <1>8

(* The records at the head of a sorted table. *)
Heads(S, v) == {Descending(v)[i] : i \in 1 .. MinOf(TopLines, Cardinality(S))}

LEMMA HeadsFacts ==
    ASSUME NEW S, IsFiniteSet(S), NEW v \in [S -> Int]
    PROVE  /\ Heads(S, v) = Range(SubSeq(Descending(v), 1, MinOf(TopLines, Len(Descending(v)))))
           /\ Heads(S, v) \subseteq S /\ IsFiniteSet(Heads(S, v))
           /\ Cardinality(Heads(S, v)) = MinOf(TopLines, Cardinality(S))
           /\ \A x \in S \ Heads(S, v) : /\ Cardinality(Heads(S, v)) = TopLines
                                         /\ \A y \in Heads(S, v) : v[y] >= v[x]
<1> DEFINE n == Cardinality(S)
           seq == Descending(v)
           m == MinOf(TopLines, n)
<1>1. /\ n \in Nat /\ seq \in [1 .. n -> S] /\ Len(seq) = n
      /\ \A x \in S : \E i \in 1 .. n : seq[i] = x
      /\ \A i, j \in 1 .. n : i < j => v[seq[i]] >= v[seq[j]]
      /\ \A i, j \in 1 .. n : i # j => seq[i] # seq[j]
  BY DescendingFacts
<1>2. TopLines \in Nat \ {0}
  BY ReportAssumption
<1> HIDE DEF n, seq
<1>3. m \in Nat /\ m <= n /\ 1 .. m \subseteq 1 .. n /\ (m # TopLines => m = n)
  BY <1>1, <1>2 DEF MinOf
<1> HIDE DEF m
<1>4. Heads(S, v) = {seq[i] : i \in 1 .. m}
  BY DEF Heads, n, seq, m
<1>5. Range(SubSeq(seq, 1, m)) = {seq[i] : i \in 1 .. m}
  <2>1. SubSeq(seq, 1, m) = [i \in 1 .. m |-> seq[i]]
    <3>1. seq \in Seq(S)
      BY <1>1
    <3>2. QED
      BY <1>1, <1>3, <3>1
  <2>2. QED
    BY <2>1 DEF Range
<1>6. Heads(S, v) \subseteq S
  BY <1>1, <1>3, <1>4
<1>7. IsFiniteSet(Heads(S, v)) /\ Cardinality(Heads(S, v)) = m
  <2> DEFINE b == [i \in 1 .. m |-> seq[i]]
             T == Heads(S, v)
  <2>1. b \in [1 .. m -> T] /\ \A i \in 1 .. m : b[i] = seq[i]
    BY <1>4
  <2>2. \A i, j \in 1 .. m : b[i] = b[j] => i = j
    BY <1>1, <1>3, <2>1
  <2>3. \A y \in T : \E i \in 1 .. m : b[i] = y
    BY <1>4, <2>1
  <2> HIDE DEF b, T
  <2>4. b \in Bijection(1 .. m, T)
    BY <2>1, <2>2, <2>3 DEF Bijection, Injection, Surjection, IsInjective
  <2>5. IsFiniteSet(1 .. m) /\ Cardinality(1 .. m) = m
    BY <1>3, FS_Interval
  <2>6. QED
    BY <2>4, <2>5, FS_Bijection DEF ExistsBijection, T
<1>8. ASSUME NEW x \in S \ Heads(S, v)
      PROVE  m = TopLines /\ \A y \in Heads(S, v) : v[y] >= v[x]
  <2>1. PICK j \in 1 .. n : seq[j] = x
    BY <1>1
  <2>2. j > m
    BY <1>1, <1>3, <1>4, <1>8, <2>1
  <2>3. \A i \in 1 .. m : i \in 1 .. n /\ i < j
    BY <1>1, <1>3, <2>1, <2>2
  <2>4. \A i \in 1 .. m : v[seq[i]] >= v[x]
    BY <1>1, <2>1, <2>3
  <2>5. m = TopLines
    BY <1>1, <1>3, <2>1, <2>2
  <2>6. QED
    BY <1>4, <2>4, <2>5
<1>9. Heads(S, v) = Range(SubSeq(Descending(v), 1, MinOf(TopLines, Len(Descending(v)))))
  BY <1>1, <1>4, <1>5 DEF n, m, seq
<1>10. QED
  BY <1>6, <1>7, <1>8, <1>9 DEF m, n

(* The rows made of the records at the head, and those that go unprinted. *)
TopRow(h, p, f) ==
    [site |-> p.csid, op |-> p.op, count |-> p.count, sum |-> p.sum[f], of |-> h.total[f]]

HeadRows(h, v, f) == {TopRow(h, p, f) : p \in {q \in Heads(h.agg, v) : q.sum[f] > 0}}

LEMMA TopRowsFrom ==
    ASSUME NEW h, NEW f, TopTable(h, setup) = h.agg, IsFiniteSet(h.agg),
           NEW v, v = [p \in h.agg |-> p.sum[f]], v \in [h.agg -> Int]
    PROVE  TopRows(h, setup, f) = HeadRows(h, v, f)
<1>1. Heads(h.agg, v) = Range(SubSeq(Descending(v), 1, MinOf(TopLines, Len(Descending(v)))))
  BY HeadsFacts
<1>2. QED
  BY <1>1 DEF TopRows, TopRow, HeadRows

LEMMA TopKnown ==
    ASSUME NEW h, Whole(h), TopTable(h, setup) = h.agg, NEW f \in Fields,
           h.total[f] = Amount(calls, Counted, f)
    PROVE  TopOfCalls(TopRows(h, setup, f), f)
<1> DEFINE v == [p \in h.agg |-> p.sum[f]]
           top == Heads(h.agg, v)
           shown == {q \in top : q.sum[f] > 0}
           rows == {TopRow(h, p, f) : p \in shown}
           Sum(x) == SumOf(CallsOf(Ranks, {x}), f)
           listed == {x \in Keys : IdOf(x) \in {row.site : row \in rows}}
<1>1. /\ RecordsKnown /\ NamesKnown /\ AllNamed
      /\ Groups(h.agg, Star, Ranks, named, Counted, calls)
  BY DEF Whole, HasCalls
<1>2. /\ IsFiniteSet(h.agg) /\ h.agg \subseteq RecordsOf({Star})
      /\ \A p, q \in h.agg : p.csid = q.csid => p = q
  BY <1>1 DEF Groups
<1>3. \A p \in h.agg : p.sum[f] \in Nat
  BY <1>2 DEF RecordsOf
<1>4. /\ v = [p \in h.agg |-> p.sum[f]]
      /\ v \in [h.agg -> Int] /\ \A p \in h.agg : v[p] = p.sum[f]
  BY <1>3
<1> HIDE DEF v
<1>5. TopRows(h, setup, f) = rows
  <2>1. TopRows(h, setup, f) = HeadRows(h, v, f)
    BY <1>2, <1>4, TopRowsFrom
  <2>2. QED
    BY <2>1 DEF HeadRows
<1>6. /\ top \subseteq h.agg /\ IsFiniteSet(top)
      /\ \A p \in h.agg \ top : /\ Cardinality(top) = TopLines
                                 /\ \A q \in top : q.sum[f] >= p.sum[f]
  BY <1>2, <1>4, HeadsFacts
<1> HIDE DEF top
<1>7. h.total[f] = SumOf(Counted, f)
  <2>1. Counted \in SUBSET DOMAIN calls
    BY DEF Counted
  <2>2. QED
    BY <1>1, <2>1, SumsOfCalls
<1>8. \A x, y \in Keys : IdOf(x) = IdOf(y) => x = y
  BY <1>1, KeyNumbers
<1>9. \A p \in shown : TopRow(h, p, f) \in rows /\ TopRow(h, p, f).site = p.csid
  BY DEF TopRow
<1>10. \A row \in rows : \E p \in shown : row = TopRow(h, p, f) /\ row.site = p.csid
  BY DEF TopRow
<1> HIDE DEF rows
<1>11. ASSUME NEW row \in rows
       PROVE  \E x \in listed : /\ row.site = IdOf(x) /\ row.sum = Sum(x)
                                /\ row.count = CountOf(CallsOf(Ranks, {x}))
                                /\ row.of = SumOf(Counted, f)
  <2>1. PICK p \in shown : row = TopRow(h, p, f)
    BY <1>10
  <2>2. p \in h.agg
    BY <1>6
  <2>3. PICK x \in Keys : /\ IdOf(x) = p.csid /\ p.count = CountOf(CallsOf(Ranks, {x}))
                          /\ \A e \in Fields : p.sum[e] = SumOf(CallsOf(Ranks, {x}), e)
    BY <2>2, AggregateKey
  <2>4. /\ row.site = p.csid /\ row.count = p.count /\ row.sum = p.sum[f] /\ row.of = h.total[f]
    BY <2>1 DEF TopRow
  <2>5. x \in listed
    BY <2>3, <2>4
  <2>6. QED
    BY <1>7, <2>3, <2>4, <2>5
<1>12. ASSUME NEW x \in Keys \ listed, Sum(x) # 0
       PROVE  Cardinality(rows) = TopLines /\ \A y \in listed : Sum(y) >= Sum(x)
  <2>1. PICK p \in h.agg : p.csid = IdOf(x)
    BY KeyAggregate
  <2>2. p.sum[f] = Sum(x)
    BY <1>8, <2>1, AggregateKey
  <2>3. p.sum[f] > 0
    BY <1>3, <1>12, <2>1, <2>2
  <2>4. p \notin top
    <3>1. SUFFICES ASSUME p \in top
                   PROVE  FALSE
      OBVIOUS
    <3>2. TopRow(h, p, f) \in rows /\ TopRow(h, p, f).site = p.csid
      BY <1>9, <2>3, <3>1
    <3>3. x \in listed
      BY <1>12, <2>1, <3>2
    <3>4. QED
      BY <1>12, <3>3
  <2>5. Cardinality(top) = TopLines /\ \A q \in top : q.sum[f] >= p.sum[f]
    BY <1>6, <2>1, <2>4
  <2>6. \A q \in top : q.sum[f] > 0
    BY <1>3, <1>6, <2>1, <2>3, <2>5
  <2>7. shown = top
    BY <2>6
  <2>8. Cardinality(rows) = Cardinality(top)
    <3> DEFINE b == [q \in top |-> TopRow(h, q, f)]
    <3>1. b \in [top -> rows] /\ \A q \in top : b[q] = TopRow(h, q, f) /\ b[q].site = q.csid
      BY <1>9, <2>7
    <3> HIDE DEF b
    <3>2. \A q, o \in top : b[q] = b[o] => q = o
      BY <1>2, <1>6, <3>1
    <3>3. \A row \in rows : \E q \in top : b[q] = row
      BY <1>10, <3>1
    <3>4. b \in Bijection(top, rows)
      BY <3>1, <3>2, <3>3 DEF Bijection, Injection, Surjection, IsInjective
    <3>5. QED
      BY <1>6, <3>4, FS_Bijection DEF ExistsBijection
  <2>9. ASSUME NEW y \in listed
        PROVE  Sum(y) >= Sum(x)
    <3>1. PICK row \in rows : row.site = IdOf(y)
      BY <2>9
    <3>2. PICK q \in shown : row.site = q.csid
      BY <1>10
    <3>3. q \in h.agg /\ q \in top
      BY <1>6
    <3>4. q.sum[f] = Sum(y)
      BY <1>8, <3>1, <3>2, <3>3, AggregateKey
    <3>5. QED
      BY <2>2, <2>5, <3>3, <3>4
  <2>10. QED
    BY <2>5, <2>8, <2>9
<1>13. TopOfCalls(rows, f)
  BY <1>11, <1>12 DEF TopOfCalls
<1>14. QED
  BY <1>5, <1>13 DEF rows

(* Every rank has run for one unit of time. *)
LEMMA AppTotal == Total(Ranks, LAMBDA r : AppTime[r]) = Cardinality(Ranks)
<1> DEFINE ones == [r \in Ranks |-> AppTime[r]]
<1>1. \A r \in Ranks : ones[r] = 1
  BY DEF AppTime
<1>2. Total(Ranks, LAMBDA r : AppTime[r]) = SumFunctionOnSet(ones, Ranks)
  BY DEF Total
<1> HIDE DEF ones
<1>3. QED
  BY <1>1, <1>2, SumOfOnes, ReportAssumption

TopFields == {"topTime", "topSent", "topIO", "topRMA"}
ListFields == TopFields \cup {"large", "tasks", "app"}

(* What ListsOfCalls says of the page of a style. *)
ListsOn(p, style) ==
    /\ TopOfCalls(p.topTime, "time") /\ TopOfCalls(p.topSent, "sent")
    /\ since = 1 => TopOfCalls(p.topIO, "io") /\ TopOfCalls(p.topRMA, "rma")
    /\ since = 1 \/ style = "verbose" => p.app = Cardinality(Ranks)
    /\ style = "verbose" => \A r \in Ranks :
          \E row \in p.tasks : row.rank = r /\ row.mpi = SumOf(CallsOf({r}, Keys), "time")
    /\ since = 1 => \A row \in p.large :
          /\ row.large = CountOf({k \in Sending : k.amount["sent"] >= setup.threshold})
          /\ row.of = CountOf(Sending)

LEMMA TopNothing ==
    ASSUME NEW h, Whole(h), NEW f \in Fields, f # "time", ~(h.total[f] > 0)
    PROVE  TopOfCalls(Absent, f)
<1>1. Told(f) = {} /\ RecordsKnown
  BY NoneTold DEF Whole
<1>2. ASSUME NEW x \in Keys
      PROVE  SumOf(CallsOf(Ranks, {x}), f) = 0
  <2> DEFINE K == CallsOf(Ranks, {x})
  <2>1. ~(SumOf(K, f) > 0)
    BY <1>1, <1>2 DEF Told
  <2>2. K \in SUBSET DOMAIN calls /\ calls \in Bags
    BY <1>1, CallsOfFacts
  <2> HIDE DEF K
  <2>3. SumOf(K, f) \in Nat
    BY <1>1, <2>2, SumsOfCalls, BagFacts
  <2>4. QED
    BY <2>1, <2>3 DEF K
<1>3. QED
  BY <1>2 DEF TopOfCalls, Absent

LEMMA TasksKnown ==
    ASSUME NEW h, Whole(h), NEW r \in Ranks
    PROVE  \E row \in VerboseTasks(h, AppTime) :
              row.rank = r /\ row.mpi = SumOf(CallsOf({r}, Keys), "time")
<1>1. RecordsKnown /\ h.task[r] = Amount(calls, {k \in Counted : k.rank = r}, "time")
  BY DEF Whole, HasCalls
<1>2. CallsOf({r}, Keys) \in SUBSET DOMAIN calls
  BY <1>1, CallsOfFacts
<1>3. h.task[r] = SumOf(CallsOf({r}, Keys), "time")
  BY <1>1, <1>2, CallsOfRank, SumsOfCalls
<1> DEFINE row == [rank |-> r, app |-> AppTime[r], mpi |-> h.task[r]]
<1>4. row \in VerboseTasks(h, AppTime) /\ row.rank = r /\ row.mpi = h.task[r]
  BY DEF VerboseTasks
<1>5. QED
  BY <1>3, <1>4

LEMMA LargeKnown ==
    ASSUME NEW h, Whole(h), TotalsOf(h, Counted), since = 1, NEW row \in LargeMessages(h, setup)
    PROVE  /\ row.large = CountOf({k \in Sending : k.amount["sent"] >= setup.threshold})
           /\ row.of = CountOf(Sending)
<1>1. setup.threshold >= 0 /\ row = [large |-> h.large, of |-> h.sentCount]
  BY DEF LargeMessages, Absent
<1>2. Counted \cap Sending = Sending /\ RecordsKnown
  BY DEF Sending, Whole
<1>3. h.large = Count(calls, LargeOf(Sending)) /\ h.sentCount = Count(calls, Sending)
  BY <1>2 DEF TotalsOf
<1>4. setup.threshold \in Int
  BY <1>2, CallFacts
<1>5. LargeOf(Sending) = {k \in Sending : k.amount["sent"] >= setup.threshold}
  BY <1>1, <1>4 DEF LargeOf
<1>6. LargeOf(Sending) \in SUBSET DOMAIN calls /\ Sending \in SUBSET DOMAIN calls
  BY DEF LargeOf, Sending, Counted
<1>7. QED
  BY <1>1, <1>2, <1>3, <1>5, <1>6, SumsOfCalls

(* The lists of a page are those of the calls. *)
LEMMA PageKnown ==
    ASSUME NEW h, Whole(h), TopTable(h, setup) = h.agg, TotalsOf(h, Counted), NEW style,
           NEW p, p.topTime = TopTime(h, setup), p.topSent = TopSent(h, setup),
           p.topIO = TopIO(h, setup), p.topRMA = TopRMA(h, setup),
           p.large = LargeMessages(h, setup), since = 1 \/ style = "verbose" => p.app = Cardinality(Ranks),
           style = "verbose" => p.tasks = VerboseTasks(h, AppTime)
    PROVE  ListsOn(p, style)
<1>1. \A f \in Fields : since = 1 \/ f \in {"time", "sent"} => TopOfCalls(TopRows(h, setup, f), f)
  BY TopKnown DEF TotalsOf
<1>2. TopOfCalls(p.topTime, "time")
  BY <1>1, FieldsFacts DEF TopTime
<1>3. TopOfCalls(p.topSent, "sent")
  <2>1. TopOfCalls(TopRows(h, setup, "sent"), "sent")
    BY <1>1, FieldsFacts
  <2>2. ~(h.total["sent"] > 0) => TopOfCalls(Absent, "sent")
    BY FieldsFacts, TopNothing
  <2>3. QED
    BY <2>1, <2>2 DEF TopSent
<1>4. since = 1 => TopOfCalls(p.topIO, "io")
  <2>1. since = 1 => TopOfCalls(TopRows(h, setup, "io"), "io")
    BY <1>1, FieldsFacts
  <2>2. ~(h.total["io"] > 0) => TopOfCalls(Absent, "io")
    BY FieldsFacts, TopNothing
  <2>3. QED
    BY <2>1, <2>2 DEF TopIO
<1>5. since = 1 => TopOfCalls(p.topRMA, "rma")
  <2>1. since = 1 => TopOfCalls(TopRows(h, setup, "rma"), "rma")
    BY <1>1, FieldsFacts
  <2>2. ~(h.total["rma"] > 0) => TopOfCalls(Absent, "rma")
    BY FieldsFacts, TopNothing
  <2>3. QED
    BY <2>1, <2>2 DEF TopRMA
<1>6. style = "verbose" => \A r \in Ranks :
          \E row \in p.tasks : row.rank = r /\ row.mpi = SumOf(CallsOf({r}, Keys), "time")
  BY TasksKnown
<1>7. since = 1 => \A row \in p.large :
          /\ row.large = CountOf({k \in Sending : k.amount["sent"] >= setup.threshold})
          /\ row.of = CountOf(Sending)
  BY LargeKnown
<1>8. QED
  BY <1>2, <1>3, <1>4, <1>5, <1>6, <1>7 DEF ListsOn

(* What has been printed so far, in both styles. *)
ListsPrinted ==
    \A style \in DOMAIN printed :
        ListFields \subseteq DOMAIN printed[style] /\ ListsOn(printed[style], style)

(* What TopOfCalls says, in terms of these. *)
IsListed(rows, x) == IdOf(x) \in {o.site : o \in rows}
IsRowOf(row, x, f) ==
    /\ row.site = IdOf(x) /\ row.sum = SumOf(CallsOf(Ranks, {x}), f)
    /\ row.count = CountOf(CallsOf(Ranks, {x})) /\ row.of = SumOf(Counted, f)
IsGreater(y, x, f) == SumOf(CallsOf(Ranks, {y}), f) >= SumOf(CallsOf(Ranks, {x}), f)
HasNone(x, f) == SumOf(CallsOf(Ranks, {x}), f) = 0

TopTold(rows, f) ==
    /\ \A row \in rows : \E x \in Keys : IsListed(rows, x) /\ IsRowOf(row, x, f)
    /\ \A x \in Keys : ~IsListed(rows, x) =>
          HasNone(x, f) \/ (/\ Cardinality(rows) = TopLines
                            /\ \A y \in Keys : IsListed(rows, y) => IsGreater(y, x, f))

LEMMA TopIsTold == \A rows, f : TopOfCalls(rows, f) <=> TopTold(rows, f)
<1>1. SUFFICES ASSUME NEW rows, NEW f
               PROVE  TopOfCalls(rows, f) <=> TopTold(rows, f)
  OBVIOUS
<1> DEFINE ids == {o.site : o \in rows}
           Sum(x) == SumOf(CallsOf(Ranks, {x}), f)
           listed == {x \in Keys : IdOf(x) \in ids}
<1>2. TopOfCalls(rows, f) <=>
        /\ \A row \in rows : \E x \in listed :
              /\ row.site = IdOf(x) /\ row.sum = Sum(x)
              /\ row.count = CountOf(CallsOf(Ranks, {x})) /\ row.of = SumOf(Counted, f)
        /\ \A x \in Keys \ listed :
              Sum(x) = 0 \/ (Cardinality(rows) = TopLines /\ \A y \in listed : Sum(y) >= Sum(x))
  BY DEF TopOfCalls
<1>3. TopTold(rows, f) <=>
        /\ \A row \in rows : \E x \in Keys :
              /\ IdOf(x) \in ids /\ row.site = IdOf(x) /\ row.sum = Sum(x)
              /\ row.count = CountOf(CallsOf(Ranks, {x})) /\ row.of = SumOf(Counted, f)
        /\ \A x \in Keys : IdOf(x) \notin ids =>
              Sum(x) = 0 \/ (/\ Cardinality(rows) = TopLines
                             /\ \A y \in Keys : IdOf(y) \in ids => Sum(y) >= Sum(x))
  BY DEF TopTold, IsListed, IsRowOf, IsGreater, HasNone
<1> HIDE DEF ids, Sum
<1>4. QED
  BY <1>2, <1>3

LEMMA ListsSame ==
    ASSUME UNCHANGED <<setup, calls, named, since>>
    PROVE  \A p, style : ListsOn(p, style)' <=> ListsOn(p, style)
<1>1. Counted' = Counted /\ Sending' = Sending /\ \A site : Key(site)' = Key(site)
  BY DEF Counted, Sending, Key
<1>2. Keys' = Keys
  BY <1>1 DEF Keys
<1>3. \A R, X : CallsOf(R, X)' = CallsOf(R, X)
  BY <1>1 DEF CallsOf
<1>4. \A x : IdOf(x)' = IdOf(x)
  BY <1>1 DEF IdOf
<1>5. /\ \A K, f : SumOf(K, f)' = SumOf(K, f)
      /\ \A K : CountOf(K)' = CountOf(K)
  BY DEF SumOf, CountOf, Total
<1>6. /\ \A R, X, f : SumOf(CallsOf(R, X), f)' = SumOf(CallsOf(R, X), f)
      /\ \A R, X : CountOf(CallsOf(R, X))' = CountOf(CallsOf(R, X))
      /\ \A f : SumOf(Counted, f)' = SumOf(Counted, f)
  BY <1>1, <1>3, <1>5
<1>7. \A rows, f : TopOfCalls(rows, f)' <=> TopOfCalls(rows, f)
  <2>1. (\A rows, f : TopOfCalls(rows, f) <=> TopTold(rows, f))'
    BY TopIsTold, PTL
  <2>2. \A rows, f : TopTold(rows, f)' <=> TopTold(rows, f)
    <3>1. /\ \A rows, x : IsListed(rows, x)' <=> IsListed(rows, x)
          /\ \A row, x, f : IsRowOf(row, x, f)' <=> IsRowOf(row, x, f)
          /\ \A x, y, f : IsGreater(y, x, f)' <=> IsGreater(y, x, f)
          /\ \A x, f : HasNone(x, f)' <=> HasNone(x, f)
      BY <1>4, <1>6 DEF IsListed, IsRowOf, IsGreater, HasNone
    <3>2. QED
      BY <1>2, <3>1 DEF TopTold
  <2>3. QED
    BY <2>1, <2>2, TopIsTold
<1>8. \A r : SumOf(CallsOf({r}, Keys), "time")' = SumOf(CallsOf({r}, Keys), "time")
  BY <1>2, <1>3, <1>5
<1>9. /\ CountOf({k \in Sending : k.amount["sent"] >= setup.threshold})'
            = CountOf({k \in Sending : k.amount["sent"] >= setup.threshold})
      /\ CountOf(Sending)' = CountOf(Sending)
  BY <1>1, <1>5
<1>10. \A p :
         (\A r \in Ranks :
            \E row \in p.tasks :
               row.rank = r /\ row.mpi = SumOf(CallsOf({r}, Keys), "time"))'
           <=> (\A r \in Ranks :
                  \E row \in p.tasks :
                     row.rank = r /\ row.mpi = SumOf(CallsOf({r}, Keys), "time"))
  BY <1>8
<1>11. \A row :
         (/\ row.large
               = CountOf({k \in Sending : k.amount["sent"] >= setup.threshold})
          /\ row.of = CountOf(Sending))'
           <=> (/\ row.large
                     = CountOf({k \in Sending : k.amount["sent"] >= setup.threshold})
                /\ row.of = CountOf(Sending))
  BY <1>9
<1>12. \A p :
         (\A row \in p.large :
            /\ row.large
                 = CountOf({k \in Sending : k.amount["sent"] >= setup.threshold})
            /\ row.of = CountOf(Sending))'
           <=> (\A row \in p.large :
                  /\ row.large
                       = CountOf({k \in Sending : k.amount["sent"] >= setup.threshold})
                  /\ row.of = CountOf(Sending))
  BY <1>11, Zenon
<1>13. QED
  BY <1>7, <1>10, <1>12 DEF ListsOn

LEMMA PageLists ==
    \A h, tasks, rows :
       LET p == Page(h, tasks, rows)
       IN /\ ListFields \subseteq DOMAIN p
          /\ p.topTime = TopTime(h, setup) /\ p.topSent = TopSent(h, setup)
          /\ p.topIO = TopIO(h, setup) /\ p.topRMA = TopRMA(h, setup)
          /\ p.large = LargeMessages(h, setup) /\ p.tasks = tasks /\ p.app = h.app
  BY DEF Page, ListFields, TopFields

LEMMA PrintLists ==
    ASSUME ReportInv, CallsMerged, RowsPrinted, TotalsMerged, AppMerged, OperationsMerged,
           ListsPrinted, ProfilePrint
    PROVE  ListsPrinted'
<1> DEFINE style == Head(ctl.styles)
           h == IF style = "verbose" THEN VerboseApp(g, AppTime) ELSE ConciseApp(g, AppTime)
           new == IF style = "verbose" THEN Verbose(h) ELSE Concise(h)
<1>1. /\ UNCHANGED <<setup, calls, named, since>> /\ ctl.pc = "print"
      /\ IsGlobal(g) /\ setup.depth \in Nat /\ ctl.pending = {} /\ Style = style
  BY CallFacts DEF ReportInv, ReportKnown, MergedKnown, ProfilePrint, bounds, caches, Style
<1>2. printed' = [p \in DOMAIN printed \cup {style} |->
                     IF p \in DOMAIN printed THEN printed[p] ELSE new]
  BY DEF ProfilePrint
<1>3. /\ h.agg = g.agg /\ h.stats = g.stats /\ h.task = g.task /\ h.total = g.total
      /\ h.sentCount = g.sentCount /\ h.large = g.large /\ h.ops = g.ops
      /\ style = "verbose" => h.app = Cardinality(Ranks)
      /\ style # "verbose" => h.app = g.app + Cardinality(Ranks)
  <2> DEFINE app == IF style = "verbose" THEN Cardinality(Ranks) ELSE g.app + Cardinality(Ranks)
  <2>1. h = [g EXCEPT !.app = app]
    BY AppTotal DEF VerboseApp, ConciseApp
  <2> HIDE DEF h, app
  <2>2. /\ h.agg = g.agg /\ h.stats = g.stats /\ h.task = g.task /\ h.total = g.total
        /\ h.sentCount = g.sentCount /\ h.large = g.large /\ h.ops = g.ops /\ h.app = app
    BY <1>1, <2>1 DEF IsGlobal
  <2>3. QED
    BY <2>2 DEF app
<1>4. since = 1 \/ style = "verbose" => h.app = Cardinality(Ranks)
  <2>1. since = 1 /\ style # "verbose" => g.app = 0
    BY <1>1 DEF AppMerged
  <2>2. Cardinality(Ranks) \in Nat
    BY ReportAssumption, FS_CardinalityType
  <2> HIDE DEF h, style
  <2>3. QED
    BY <1>3, <2>1, <2>2
<1>5. new = Page(h, new.tasks, [time |-> ConciseTime(h, srcs), sent |-> ConciseSent(h),
                                 io |-> ConciseIO(h), rma |-> ConciseRMA(h)])
       \/ new = Page(h, new.tasks, [time |-> AllTime(h, setup), sent |-> AllSent(h),
                                    io |-> AllIO(h), rma |-> AllRMA(h)])
  BY PageLists DEF Verbose, Concise
<1>6. style = "verbose" => new.tasks = VerboseTasks(h, AppTime)
  BY PageLists DEF Verbose
<1> HIDE DEF h, new, style
<1>7. Whole(h)
  BY <1>1, <1>3, WholeNow
<1>8. TopTable(h, setup) = h.agg
  BY <1>1, <1>3 DEF TopTable, OperationsMerged
<1>9. TotalsOf(h, Counted)
  <2>1. Taken = Counted
    BY <1>1 DEF Taken
  <2>2. TotalsOf(g, Counted)
    BY <1>1, <2>1 DEF TotalsMerged
  <2>3. QED
    BY <1>3, <2>2 DEF TotalsOf
<1>10. /\ ListFields \subseteq DOMAIN new
       /\ new.topTime = TopTime(h, setup) /\ new.topSent = TopSent(h, setup)
       /\ new.topIO = TopIO(h, setup) /\ new.topRMA = TopRMA(h, setup)
       /\ new.large = LargeMessages(h, setup) /\ new.app = h.app
  BY <1>5, PageLists
<1>11. ListsOn(new, style)
  BY <1>4, <1>6, <1>7, <1>8, <1>9, <1>10, PageKnown
<1>12. ASSUME NEW p \in DOMAIN printed'
       PROVE  ListFields \subseteq DOMAIN printed'[p] /\ ListsOn(printed'[p], p)
  <2>1. CASE p \in DOMAIN printed
    BY <1>2, <2>1 DEF ListsPrinted
  <2>2. CASE p \notin DOMAIN printed
    BY <1>2, <1>10, <1>11, <1>12, <2>2
  <2>3. QED
    BY <2>1, <2>2
<1>13. \A p, s : ListsOn(p, s)' <=> ListsOn(p, s)
  BY <1>1, ListsSame
<1>14. QED
  BY <1>12, <1>13 DEF ListsPrinted

(* A collective section leaves the other parts of the pages alone. *)
LEMMA MeetElsewhere ==
    ASSUME ReportInv, Meet, NEW E, E \cap Fields = {},
           \A s \in DOMAIN printed : E \subseteq DOMAIN printed[s]
    PROVE  /\ DOMAIN printed' = DOMAIN printed
           /\ \A s \in DOMAIN printed : /\ E \subseteq DOMAIN printed'[s]
                                        /\ \A e \in E : printed'[s][e] = printed[s][e]
<1>1. PlacesKnown /\ Collector \in Ranks /\ ctl.pc = "collective" /\ loc[Collector].at # "end"
  BY ReportAssumption DEF ReportInv, Meet, Collector
<1> DEFINE f == Field(Collector)
<1>2. f \notin E
  <2>1. loc[Collector].n \in 1 .. 4
    BY <1>1 DEF PlacesKnown
  <2>2. f \in Fields
    BY <2>1, OrderFacts DEF Field
  <2> HIDE DEF f
  <2>3. QED
    BY <2>2
<1>3. printed' = printed \/ \E v : printed' = [printed EXCEPT ![Style] = [@ EXCEPT ![f] = v]]
  BY DEF Meet
<1> HIDE DEF f
<1>4. CASE printed' = printed
  BY <1>4
<1>5. CASE printed' # printed
  <2>1. PICK v : printed' = [printed EXCEPT ![Style] = [@ EXCEPT ![f] = v]]
    BY <1>3, <1>5
  <2>2. DOMAIN printed' = DOMAIN printed
    BY <2>1
  <2>3. ASSUME NEW s \in DOMAIN printed
        PROVE  /\ E \subseteq DOMAIN printed'[s]
               /\ \A e \in E : printed'[s][e] = printed[s][e]
    <3>1. CASE s = Style
      <4>1. printed'[s] = [printed[s] EXCEPT ![f] = v]
        BY <2>1, <3>1
      <4>2. QED
        BY <1>2, <4>1
    <3>2. CASE s # Style
      BY <2>1, <3>2
    <3>3. QED
      BY <3>1, <3>2
  <2>4. QED
    BY <2>2, <2>3
<1>6. QED
  BY <1>4, <1>5

LEMMA MeetLists ==
    ASSUME ReportInv, ListsPrinted, Meet
    PROVE  ListsPrinted'
<1>1. UNCHANGED <<setup, calls, named, since>>
  BY DEF Meet, bounds, caches
<1>2. /\ DOMAIN printed' = DOMAIN printed
      /\ \A s \in DOMAIN printed : /\ ListFields \subseteq DOMAIN printed'[s]
                                   /\ \A e \in ListFields : printed'[s][e] = printed[s][e]
  <2>1. ListFields \cap Fields = {}
    BY DEF ListFields, TopFields, Fields
  <2>2. QED
    BY <2>1, MeetElsewhere DEF ListsPrinted
<1>3. ASSUME NEW p, NEW q, \A e \in ListFields : q[e] = p[e], NEW s, ListsOn(p, s)
      PROVE  ListsOn(q, s)
  <2>1. /\ q.topTime = p.topTime /\ q.topSent = p.topSent /\ q.topIO = p.topIO
        /\ q.topRMA = p.topRMA /\ q.large = p.large /\ q.tasks = p.tasks /\ q.app = p.app
    BY <1>3 DEF ListFields, TopFields
  <2>2. QED
    BY <1>3, <2>1 DEF ListsOn
<1>4. \A s \in DOMAIN printed : ListsOn(printed'[s], s)
  BY <1>2, <1>3 DEF ListsPrinted
<1>5. \A p, s : ListsOn(p, s)' <=> ListsOn(p, s)
  BY <1>1, ListsSame
<1>6. QED
  BY <1>2, <1>4, <1>5 DEF ListsPrinted

LEMMA NextLists ==
    /\ ReportInv /\ CallsMerged /\ RowsPrinted /\ TotalsMerged /\ AppMerged /\ OperationsMerged
    /\ ListsPrinted /\ [Next]_vars
    => ListsPrinted'
<1>1. SUFFICES ASSUME ReportInv, CallsMerged, RowsPrinted, TotalsMerged, AppMerged,
                      OperationsMerged, ListsPrinted, [Next]_vars
               PROVE  ListsPrinted'
  OBVIOUS
<1>2. ctl.pc \in {"merge", "publish"} => DOMAIN printed = {}
  BY <1>1 DEF ReportInv, ReportKnown
<1>3. ASSUME DOMAIN printed' = {}
      PROVE  ListsPrinted'
  BY <1>3 DEF ListsPrinted
<1>4. ASSUME printed' = <<>>
      PROVE  DOMAIN printed' = {}
  BY <1>4
<1>5. ASSUME UNCHANGED <<setup, calls, named, since, printed>>
      PROVE  ListsPrinted'
  <2>1. \A p, s : ListsOn(p, s)' <=> ListsOn(p, s)
    BY <1>5, ListsSame
  <2>2. QED
    BY <1>1, <1>5, <2>1 DEF ListsPrinted
<1>6. CASE UNCHANGED vars
  BY <1>5, <1>6 DEF vars, bounds, caches
<1>7. CASE \E r \in Ranks : \E t \in ThreadsUsed(r), k \in Kinds :
              Call(r, t, k.site, k.amount)
  BY <1>3, <1>4, <1>7 DEF Call
<1>8. CASE PcontrolReport
  BY <1>3, <1>4, <1>8 DEF PcontrolReport, Report
<1>9. CASE InsertCallsite
  BY <1>2, <1>3, <1>9 DEF InsertCallsite
<1>10. CASE Publish
  BY <1>2, <1>3, <1>10 DEF Publish
<1>11. CASE ProfilePrint
  BY <1>1, <1>11, PrintLists
<1>12. CASE Meet
  BY <1>1, <1>12, MeetLists
<1>13. CASE Barrier
  BY <1>5, <1>13 DEF Barrier, bounds, caches
<1>14. CASE Reset
  BY <1>3, <1>4, <1>14 DEF Reset
<1>15. QED
  BY <1>1, <1>6, <1>7, <1>8, <1>9, <1>10, <1>11, <1>12, <1>13, <1>14 DEF Next

LEMMA InitLists == Init => ListsPrinted
<1>1. SUFFICES ASSUME Init
               PROVE  ListsPrinted
  OBVIOUS
<1>2. DOMAIN printed = {}
  BY <1>1 DEF Init
<1>3. QED
  BY <1>2 DEF ListsPrinted

LEMMA ListsTold == ListsPrinted => ListsOfCalls
  BY DEF ListsPrinted, ListsOn, ListsOfCalls

(* The lists of the greatest have the callsites that they should, in every  *)
(* report, with the sums and the number of their calls and the total, of    *)
(* bytes of I/O and of one-sided calls in the first report since a reset;   *)
(* and so have the times of the ranks and the count of large messages       *)
(* (report.c: mpiPi_print_top_..., mpiPi_print_all_..., mpiPi.c:254).       *)
THEOREM ListsAlways == Spec => []ListsOfCalls
<1>1. Spec => []RowsPrinted
  BY InitRows, NextRows, ReportInvariant, MergedAlways, PTL DEF Spec
<1>2. Spec => [](TotalsMerged /\ AppMerged)
  <2>1. Init => TotalsMerged /\ AppMerged
    BY InitTotals
  <2>2. (ReportInv /\ CallsMerged /\ RowsPrinted) /\ (TotalsMerged /\ AppMerged) /\ [Next]_vars
           => (TotalsMerged /\ AppMerged)'
    BY NextTotals
  <2>3. QED
    BY <1>1, <2>1, <2>2, ReportInvariant, MergedAlways, PTL DEF Spec
<1>3. Spec => []OperationsMerged
  BY InitOperations, NextOperations, ReportInvariant, MergedAlways, PTL DEF Spec
<1>4. Spec => []ListsPrinted
  <2>1. (ReportInv /\ CallsMerged /\ RowsPrinted) /\ (TotalsMerged /\ AppMerged) /\ OperationsMerged
           /\ ListsPrinted /\ [Next]_vars => ListsPrinted'
    BY NextLists
  <2>2. QED
    BY <1>1, <1>2, <1>3, <2>1, InitLists, ReportInvariant, MergedAlways, PTL DEF Spec
<1>5. QED
  BY <1>4, ListsTold, PTL

-----------------------------------------------------------------------------
(***************************************************************************)
(* The bins.  Their bounds are powers of two, of which the provers know    *)
(* only that a set of n elements has 2^n subsets.                          *)
(***************************************************************************)
LEMMA PowerZero == 2^0 = 1
<1>1. SUBSET {} = {{}}
  OBVIOUS
<1>2. Cardinality(SUBSET {}) = 1
  BY <1>1, FS_Singleton
<1>3. IsFiniteSet({}) /\ Cardinality({}) = 0
  BY FS_EmptySet
<1>4. QED
  BY <1>2, <1>3, FS_SUBSET

(* There are as many subsets with an element as without it. *)
LEMMA PowerStep ==
    ASSUME NEW n \in Nat
    PROVE  2^n \in Nat \ {0} /\ 2^(n + 1) = 2 * 2^n
<1> DEFINE S == 1 .. n
           A == SUBSET S
           B == {s \cup {n + 1} : s \in A}
           h == [s \in A |-> s \cup {n + 1}]
<1>1. /\ IsFiniteSet(S) /\ Cardinality(S) = n
      /\ IsFiniteSet(1 .. n + 1) /\ Cardinality(1 .. n + 1) = n + 1
  BY FS_Interval
<1>2. /\ IsFiniteSet(A) /\ Cardinality(A) = 2^n
      /\ Cardinality(SUBSET (1 .. n + 1)) = 2^(n + 1)
  BY <1>1, FS_SUBSET
<1>3. \A s \in A : n + 1 \notin s
  OBVIOUS
<1>4. SUBSET (1 .. n + 1) = A \cup B
  <2>1. 1 .. n + 1 = S \cup {n + 1}
    OBVIOUS
  <2>2. ASSUME NEW s \in SUBSET (S \cup {n + 1}), s \notin A
        PROVE  s \in B
    <3>1. s \ {n + 1} \in A /\ s = (s \ {n + 1}) \cup {n + 1}
      BY <2>2
    <3>2. QED
      BY <3>1
  <2>3. A \subseteq SUBSET (S \cup {n + 1}) /\ B \subseteq SUBSET (S \cup {n + 1})
    OBVIOUS
  <2> HIDE DEF A, B
  <2>4. QED
    BY <2>1, <2>2, <2>3
<1>5. A \cap B = {}
  BY <1>3
<1>6. IsFiniteSet(B) /\ Cardinality(B) = Cardinality(A)
  <2>1. h \in Surjection(A, B)
    BY DEF Surjection
  <2>2. h \in Injection(A, B)
    <3>1. \A s, t \in A : h[s] = h[t] => s = t
      BY <1>3
    <3>2. h \in [A -> B]
      OBVIOUS
    <3>3. QED
      BY <3>1, <3>2 DEF Injection, IsInjective
  <2> HIDE DEF A, B, h
  <2>3. QED
    BY <1>2, <2>1, <2>2, FS_Surjection
<1> HIDE DEF A, B
<1>7. Cardinality(A \cup B) = Cardinality(A) + Cardinality(B)
  <2>1. Cardinality(A \cap B) = 0
    BY <1>5, FS_EmptySet
  <2>2. Cardinality(A) \in Nat /\ Cardinality(B) \in Nat
    BY <1>2, <1>6, FS_CardinalityType
  <2>3. Cardinality(A \cup B) = Cardinality(A) + Cardinality(B) - Cardinality(A \cap B)
    BY <1>2, <1>6, FS_Union
  <2>4. QED
    BY <2>1, <2>2, <2>3
<1>8. 2^n \in Nat /\ 2^n # 0
  <2>1. {} \in A
    BY DEF A
  <2>2. QED
    BY <1>2, <2>1, FS_CardinalityType, FS_EmptySet
<1>9. QED
  <2> DEFINE c == Cardinality(A)
  <2>1. Cardinality(A \cup B) = c + c /\ c \in Nat
    BY <1>2, <1>6, <1>7, <1>8
  <2> HIDE DEF c
  <2>2. Cardinality(A \cup B) = 2 * c
    BY <2>1
  <2>3. QED
    BY <1>2, <1>4, <1>8, <2>2 DEF c

LEMMA PowerMonotone ==
    ASSUME NEW m \in Nat, NEW n \in Nat, m <= n
    PROVE  2^m <= 2^n
<1>1. SUBSET (1 .. m) \in SUBSET SUBSET (1 .. n)
  OBVIOUS
<1>2. /\ IsFiniteSet(1 .. m) /\ Cardinality(1 .. m) = m
      /\ IsFiniteSet(1 .. n) /\ Cardinality(1 .. n) = n
  BY FS_Interval
<1>3. /\ IsFiniteSet(SUBSET (1 .. n)) /\ Cardinality(SUBSET (1 .. n)) = 2^n
      /\ Cardinality(SUBSET (1 .. m)) = 2^m
  BY <1>2, FS_SUBSET
<1>4. QED
  BY <1>1, <1>3, FS_Subset

(* To halve b times and compare is to compare with a multiple of 2^b. *)
LEMMA Halved ==
    ASSUME NEW v \in Nat, NEW d \in Nat \ {0}, NEW m \in Nat
    PROVE  v \div d <= m <=> v < (m + 1) * d
<1> DEFINE q == v \div d
           r == v % d
<1>1. q \in Nat /\ r \in 0 .. d - 1 /\ v = d * q + r
  OBVIOUS
<1> HIDE DEF q, r
<1>2. ASSUME q <= m
      PROVE  v < (m + 1) * d
  <2>1. d * q <= d * m
    BY <1>1, <1>2
  <2>2. (m + 1) * d = d * m + d
    OBVIOUS
  <2>3. d * q \in Nat /\ d * m \in Nat
    BY <1>1
  <2>4. QED
    BY <1>1, <2>1, <2>2, <2>3
<1>3. ASSUME ~(q <= m)
      PROVE  ~(v < (m + 1) * d)
  <2>1. m + 1 <= q
    BY <1>1, <1>3
  <2>2. d * (m + 1) <= d * q
    BY <1>1, <2>1
  <2>3. d * (m + 1) = (m + 1) * d /\ d * (m + 1) \in Nat /\ d * q \in Nat
    BY <1>1
  <2>4. QED
    BY <1>1, <2>2, <2>3
<1>4. QED
  BY <1>2, <1>3 DEF q

(* What the bins can tell apart: the last of them has what is above, too.   *)
Sizes == 0 .. (FirstBinMax + 1) * 2^HistSize - 1

LEMMA BinIn ==
    ASSUME NEW v \in Sizes
    PROVE  Bin(v) \in 0 .. HistSize /\ v \in BinBounds(Bin(v))
<1> DEFINE F == FirstBinMax
           T == {b \in 1 .. HistSize : v \div 2^b <= F} \cup {HistSize}
           m == Min(T)
<1>1. F \in Nat \ {0} /\ HistSize \in Nat \ {0} /\ v \in Nat /\ v < (F + 1) * 2^HistSize
  BY RecordsAssumption, PowerStep DEF Sizes
<1>2. CASE v <= F
  BY <1>1, <1>2 DEF Bin, BinBounds
<1>3. CASE ~(v <= F)
  <2>1. Bin(v) = m
    BY <1>3 DEF Bin
  <2>2. T \subseteq 1 .. HistSize /\ HistSize \in T
    BY <1>1
  <2>3. m \in T /\ \A n \in T : m <= n
    <3>1. PICK l \in T : \A n \in T : l <= n
      <4>1. T \subseteq Nat /\ T # {}
        BY <2>2
      <4> HIDE DEF T
      <4>2. QED
        BY <4>1, LeastNumber
    <3>2. T \subseteq Int
      BY <2>2
    <3> HIDE DEF T
    <3>3. m = CHOOSE x \in T : \A y \in T : x =< y
      BY DEF Min
    <3>4. QED
      BY <3>1, <3>3
  <2>4. m \in 1 .. HistSize
    BY <2>2, <2>3
  <2>5. v < (F + 1) * 2^m
    <3>1. CASE m = HistSize
      BY <1>1, <3>1
    <3>2. CASE m # HistSize
      <4>1. v \div 2^m <= F
        BY <2>3, <3>2
      <4> HIDE DEF m, F
      <4>2. 2^m \in Nat \ {0}
        BY <2>4, PowerStep
      <4>3. QED
        BY <1>1, <4>1, <4>2, Halved
    <3>3. QED
      BY <3>1, <3>2
  <2>6. (F + 1) * 2^(m - 1) <= v
    <3>1. CASE m = 1
      <4> HIDE DEF m, F
      <4>1. m - 1 = 0
        BY <3>1
      <4>2. 2^(m - 1) = 1
        BY <4>1, PowerZero
      <4>3. QED
        BY <1>1, <1>3, <4>2 DEF F
    <3>2. CASE m # 1
      <4>1. m - 1 \in 1 .. HistSize /\ m - 1 \notin T
        <5> HIDE DEF m, T
        <5>1. m \in 1 .. HistSize /\ m # 1 /\ HistSize \in Nat
          BY <1>1, <2>4, <3>2
        <5>2. m - 1 \in 1 .. HistSize /\ ~(m <= m - 1)
          BY <5>1
        <5>3. QED
          BY <2>3, <5>2
      <4>2. ~(v \div 2^(m - 1) <= F)
        BY <4>1
      <4> HIDE DEF m, F
      <4>3. 2^(m - 1) \in Nat \ {0}
        BY <4>1, PowerStep
      <4>4. ~(v < (F + 1) * 2^(m - 1))
        BY <1>1, <4>2, <4>3, Halved
      <4>5. (F + 1) * 2^(m - 1) \in Nat
        BY <1>1, <4>3
      <4>6. QED
        BY <1>1, <4>4, <4>5
    <3>3. QED
      BY <3>1, <3>2
  <2> HIDE DEF m, F
  <2> DEFINE low == (F + 1) * 2^(m - 1)
  <2>7. low \in Nat /\ (F + 1) * 2^m = 2 * low
    <3>1. 2^(m - 1) \in Nat /\ 2^m = 2 * 2^(m - 1)
      <4>1. m - 1 \in Nat /\ (m - 1) + 1 = m
        BY <2>4
      <4>2. QED
        BY <4>1, PowerStep
    <3> DEFINE p == 2^(m - 1)
    <3> HIDE DEF p
    <3>2. p \in Nat /\ 2^m = 2 * p
      BY <3>1 DEF p
    <3>3. (F + 1) * (2 * p) = 2 * ((F + 1) * p) /\ (F + 1) * p \in Nat
      BY <1>1, <3>2
    <3>4. QED
      BY <3>2, <3>3 DEF p
  <2>8. low <= v /\ v <= 2 * low - 1
    <3> HIDE DEF low
    <3>1. v < 2 * low
      BY <2>5, <2>7
    <3>2. low <= v
      BY <2>6 DEF low
    <3>3. QED
      BY <1>1, <2>7, <3>1, <3>2
  <2>9. v \in low .. (2 * low - 1)
    <3> HIDE DEF low
    <3>1. QED
      BY <1>1, <2>7, <2>8
  <2>10. BinBounds(m) = low .. (2 * low - 1)
    BY <2>4 DEF BinBounds, F
  <2>11. QED
    BY <2>1, <2>4, <2>9, <2>10
<1>4. QED
  BY <1>2, <1>3

LEMMA BinsApart ==
    ASSUME NEW a \in Nat, NEW b \in Nat, a < b, NEW v \in BinBounds(a)
    PROVE  v \notin BinBounds(b)
<1> DEFINE F == FirstBinMax
           low(n) == (F + 1) * 2^(n - 1)
<1>1. F \in Nat \ {0}
  BY RecordsAssumption
<1> HIDE DEF F
<1>2. ASSUME NEW n \in Nat \ {0}
      PROVE  low(n) \in Nat /\ BinBounds(n) = low(n) .. (2 * low(n) - 1)
  <2>1. 2^(n - 1) \in Nat
    BY PowerStep
  <2>2. QED
    BY <1>1, <2>1 DEF BinBounds, F
<1>3. b \in Nat \ {0}
  OBVIOUS
<1>4. v \in Int /\ v < low(b)
  <2>1. CASE a = 0
    <3>1. v \in 0 .. F
      BY <2>1 DEF BinBounds, F
    <3>2. 2^(b - 1) \in Nat \ {0}
      BY <1>3, PowerStep
    <3> DEFINE p == 2^(b - 1)
    <3> HIDE DEF p
    <3>3. p \in Nat \ {0}
      BY <3>2 DEF p
    <3>4. F + 1 <= (F + 1) * p
      BY <1>1, <3>3
    <3>5. QED
      BY <1>1, <3>1, <3>3, <3>4 DEF p
  <2>2. CASE a # 0
    <3>1. v \in low(a) .. (2 * low(a) - 1) /\ low(a) \in Nat
      BY <1>2, <2>2
    <3>2. 2 * low(a) <= low(b)
      <4>1. a - 1 \in Nat /\ (a - 1) + 1 = a /\ b - 1 \in Nat /\ a <= b - 1
        BY <2>2
      <4>2. 2^a = 2 * 2^(a - 1) /\ 2^(a - 1) \in Nat /\ 2^(b - 1) \in Nat
        BY <4>1, PowerStep
      <4>3. 2^a <= 2^(b - 1)
        BY <4>1, PowerMonotone
      <4> DEFINE p == 2^(a - 1)
                 q == 2^(b - 1)
      <4> HIDE DEF p, q
      <4>4. p \in Nat /\ q \in Nat /\ 2 * p <= q
        BY <4>2, <4>3 DEF p, q
      <4>5. (F + 1) * (2 * p) <= (F + 1) * q
        BY <1>1, <4>4
      <4>6. 2 * ((F + 1) * p) = (F + 1) * (2 * p)
        BY <1>1, <4>4
      <4>7. QED
        BY <4>5, <4>6 DEF p, q
    <3> HIDE DEF low
    <3>3. low(b) \in Nat
      BY <1>2, <1>3
    <3>4. QED
      BY <3>1, <3>2, <3>3
  <2>3. QED
    BY <2>1, <2>2
<1> HIDE DEF low
<1>5. QED
  BY <1>2, <1>3, <1>4

(* The bounds that are printed for a bin are those of the sizes in it.      *)
LEMMA BinIs ==
    ASSUME NEW v \in Sizes, NEW b \in Nat
    PROVE  v \in BinBounds(b) <=> Bin(v) = b
<1>1. Bin(v) \in Nat /\ v \in BinBounds(Bin(v))
  BY BinIn
<1>2. ASSUME v \in BinBounds(b), Bin(v) # b
      PROVE  FALSE
  <2>1. Bin(v) < b \/ b < Bin(v)
    BY <1>1, <1>2
  <2>2. QED
    BY <1>1, <1>2, <2>1, BinsApart
<1>3. QED
  BY <1>1, <1>2

-----------------------------------------------------------------------------
(***************************************************************************)
(* The histograms.  Every call is in one cell, and a cell has the time or  *)
(* the bytes of its calls.                                                 *)
(***************************************************************************)
CellField(c) == IF c[1] \in CollOps THEN "time" ELSE "sent"
InCell(R, c) == {k \in DOMAIN calls : k.rank \in R /\ Cell(k.site.op, k.amount) = c}
CellSum(R, c) == Amount(calls, InCell(R, c), CellField(c))

HistogramsKnown ==
    /\ reports \in Nat /\ resets \in Nat
    /\ \A k \in DOMAIN calls : [site |-> k.site, amount |-> k.amount] \in Kinds
    /\ DOMAIN hist = Ranks /\ DOMAIN rankHist = Ranks
    /\ \A r \in Ranks : DOMAIN hist[r] = Cells /\ DOMAIN rankHist[r] = Cells
    /\ resets = 0 => \A r \in Ranks, c \in Cells : hist[r][c] = CellSum({r}, c)
    /\ reports = 0 => \A r \in Ranks, c \in Cells : rankHist[r][c] = 0
    /\ resets = 0 /\ ctl.pc # "run" /\ (setup.mode = "st" \/ reports = 1) =>
          \A r \in Ranks, c \in Cells : rankHist[r][c] = hist[r][c]

LEMMA CellFieldKnown == \A c : CellField(c) \in Fields
  BY FieldsFacts DEF CellField

LEMMA InitHistograms == Init => HistogramsKnown
<1>1. SUFFICES ASSUME Init
               PROVE  HistogramsKnown
  OBVIOUS
<1>2. /\ hist = [r \in Ranks |-> [c \in Cells |-> 0]] /\ rankHist = hist
      /\ DOMAIN calls = {} /\ reports = 0 /\ resets = 0 /\ ctl.pc = "run"
  BY <1>1 DEF Init, Running
<1>3. \A r \in Ranks, c \in Cells : CellSum({r}, c) = 0
  <2>1. \A R, c : InCell(R, c) = {}
    BY <1>2 DEF InCell
  <2>2. \A f : Amount(calls, {}, f) = 0
    BY SumEmpty DEF Amount
  <2>3. QED
    BY <2>1, <2>2 DEF CellSum
<1>4. QED
  BY <1>2, <1>3 DEF HistogramsKnown

LEMMA CellSumSame ==
    ASSUME UNCHANGED calls
    PROVE  \A R, c : CellSum(R, c)' = CellSum(R, c)
  BY DEF CellSum, InCell

(* What most steps leave alone. *)
LEMMA HistogramsSteady ==
    ASSUME HistogramsKnown, UNCHANGED <<setup, reports, resets, calls, hist, rankHist>>,
           ctl'.pc # "run" => ctl.pc # "run"
    PROVE  HistogramsKnown'
<1>1. \A R, c : CellSum(R, c)' = CellSum(R, c)
  BY CellSumSame
<1>2. QED
  BY <1>1 DEF HistogramsKnown

LEMMA CallHistograms ==
    ASSUME ReportInv, HistogramsKnown, NEW r \in Ranks, NEW t \in ThreadsUsed(r), NEW j \in Kinds,
           Call(r, t, j.site, j.amount)
    PROVE  HistogramsKnown'
<1> DEFINE k == [rank |-> r, thread |-> t, site |-> j.site, amount |-> j.amount]
           b == Cell(j.site.op, j.amount)
<1>0. /\ UNCHANGED <<setup, reports, resets, rankHist, ctl>> /\ ctl.pc = "run"
      /\ calls \in Bags
      /\ hist' = [hist EXCEPT ![r][b] = @ + CellAmount(j.site.op, j.amount)]
  BY CallFacts DEF ReportInv, Call, ranks
<1>1. k \in CallSet /\ k.rank = r /\ k.site = j.site /\ k.amount = j.amount
  <2>1. j.site \in Sites /\ j.amount \in [Fields -> 0 .. Large]
    BY CallsAssumption DEF Sites
  <2>2. t \in UNION {Threads[q] : q \in Ranks}
    <3>1. Main \in Threads[r]
      BY CallsAssumption
    <3>2. t \in Threads[r]
      BY <3>1 DEF ThreadsUsed
    <3>3. QED
      BY <3>2
  <2>3. QED
    BY <2>1, <2>2 DEF CallSet
<1>2. calls' = More(calls, k)
  BY DEF Call, Counting, More
<1>3. [site |-> k.site, amount |-> k.amount] \in Kinds
  <2>1. j = [site |-> j.site, amount |-> j.amount]
    BY CallsAssumption
  <2>2. QED
    BY <1>1, <2>1
<1>4. b \in Cells /\ Cell(k.site.op, k.amount) = b
  BY <1>1 DEF Cells, Cell
<1>5. CellAmount(j.site.op, j.amount) = k.amount[CellField(b)]
  BY <1>1 DEF CellAmount, CellField, Cell
<1> HIDE DEF k, b
<1>6. DOMAIN calls' = DOMAIN calls \cup {k}
  BY <1>0, <1>1, <1>2, MoreBag
<1>7. ASSUME NEW q \in Ranks, NEW c \in Cells, hist[q][c] = CellSum({q}, c)
      PROVE  hist'[q][c] = CellSum({q}, c)'
  <2> DEFINE K == InCell({q}, c)
             f == CellField(c)
  <2>1. K \in SUBSET DOMAIN calls
    BY DEF InCell
  <2>2. f \in Fields
    BY CellFieldKnown
  <2>3. CASE q = r /\ c = b
    <3>1. InCell({q}, c)' = K \cup {k}
      BY <1>1, <1>4, <1>6, <2>3 DEF InCell
    <3>2. k \in DOMAIN calls => k \in K
      BY <1>1, <1>4, <2>3 DEF InCell
    <3>3. hist'[q][c] = hist[q][c] + k.amount[f]
      BY <1>0, <1>4, <1>5, <2>3 DEF HistogramsKnown
    <3>4. CellSum({q}, c)' = Amount(More(calls, k), K \cup {k}, f)
      BY <1>2, <3>1 DEF CellSum, CellField
    <3> HIDE DEF K, f
    <3>5. Amount(More(calls, k), K \cup {k}, f) = Amount(calls, K, f) + k.amount[f]
      BY <1>0, <1>1, <2>1, <2>2, <3>2, CountMore
    <3>6. QED
      BY <1>7, <3>3, <3>4, <3>5 DEF CellSum, K, f
  <2>4. CASE ~(q = r /\ c = b)
    <3>1. InCell({q}, c)' = K
      BY <1>1, <1>4, <1>6, <2>4 DEF InCell
    <3>2. k \notin K
      BY <1>1, <1>4, <2>4 DEF InCell
    <3>3. hist'[q][c] = hist[q][c]
      BY <1>0, <1>4, <2>4 DEF HistogramsKnown
    <3>4. CellSum({q}, c)' = Amount(More(calls, k), K, f)
      BY <1>2, <3>1 DEF CellSum, CellField
    <3> HIDE DEF K, f
    <3>5. Amount(More(calls, k), K, f) = Amount(calls, K, f)
      BY <1>0, <1>1, <2>1, <2>2, <3>2, CountSame
    <3>6. QED
      BY <1>7, <3>3, <3>4, <3>5 DEF CellSum, K, f
  <2>5. QED
    BY <2>3, <2>4
<1>8. DOMAIN hist' = Ranks /\ \A q \in Ranks : DOMAIN hist'[q] = Cells
  BY <1>0 DEF HistogramsKnown
<1>9. \A l \in DOMAIN calls' : [site |-> l.site, amount |-> l.amount] \in Kinds
  BY <1>3, <1>6 DEF HistogramsKnown
<1>10. /\ reports' \in Nat /\ resets' \in Nat /\ DOMAIN rankHist' = Ranks
       /\ \A q \in Ranks : DOMAIN rankHist'[q] = Cells'
       /\ reports' = 0 => \A q \in Ranks, c \in Cells : rankHist'[q][c] = 0
       /\ resets' = 0 => \A q \in Ranks, c \in Cells : hist[q][c] = CellSum({q}, c)
  BY <1>0 DEF HistogramsKnown
<1>11. resets' = 0 => \A q \in Ranks, c \in Cells : hist'[q][c] = CellSum({q}, c)'
  BY <1>7, <1>10
<1>12. Cells' = Cells
  OBVIOUS
<1>13. QED
  BY <1>0, <1>8, <1>9, <1>10, <1>11, <1>12 DEF HistogramsKnown

LEMMA ReportHistograms ==
    ASSUME ReportInv, HistogramsKnown, NEW style, Report(style)
    PROVE  HistogramsKnown'
<1>1. /\ UNCHANGED <<setup, resets, calls, hist>> /\ reports' = reports + 1
      /\ rankHist' = [r \in Ranks |-> MergedHist(r)] /\ calls \in Bags
  BY CallFacts DEF ReportInv, Report, tables
<1>2. \A R, c : CellSum(R, c)' = CellSum(R, c)
  BY <1>1, CellSumSame
<1>3. ASSUME resets = 0, setup.mode = "st" \/ reports' = 1, NEW r \in Ranks, NEW c \in Cells
      PROVE  rankHist'[r][c] = hist[r][c]
  <2>1. CASE setup.mode = "st"
    BY <1>1, <2>1 DEF MergedHist
  <2>2. CASE setup.mode # "st"
    <3>1. reports = 0
      BY <1>1, <1>3, <2>2 DEF HistogramsKnown
    <3>2. rankHist[r][c] = 0
      BY <3>1 DEF HistogramsKnown
    <3>3. hist[r][c] \in Nat
      <4>1. InCell({r}, c) \in SUBSET DOMAIN calls
        BY DEF InCell
      <4>2. CellSum({r}, c) \in Nat
        BY <1>1, <4>1, CellFieldKnown, BagFacts DEF CellSum
      <4>3. QED
        BY <1>3, <4>2 DEF HistogramsKnown
    <3>4. rankHist'[r][c] = rankHist[r][c] + hist[r][c]
      BY <1>1, <2>2 DEF MergedHist
    <3>5. QED
      BY <3>2, <3>3, <3>4
  <2>3. QED
    BY <2>1, <2>2
<1>4. DOMAIN rankHist' = Ranks /\ \A r \in Ranks : DOMAIN rankHist'[r] = Cells
  <2>1. \A r \in Ranks : DOMAIN MergedHist(r) = Cells
    BY DEF MergedHist, HistogramsKnown
  <2>2. QED
    BY <1>1, <2>1
<1>5. reports' \in Nat /\ reports' # 0
  BY <1>1 DEF HistogramsKnown
<1>6. QED
  BY <1>1, <1>2, <1>3, <1>4, <1>5 DEF HistogramsKnown

LEMMA ResetHistograms ==
    ASSUME HistogramsKnown, Reset
    PROVE  HistogramsKnown'
<1>1. /\ resets' = resets + 1 /\ DOMAIN calls' = {}
      /\ UNCHANGED <<setup, reports, hist, rankHist>>
  BY DEF Reset
<1>2. resets' \in Nat /\ resets' # 0
  BY <1>1 DEF HistogramsKnown
<1>3. QED
  BY <1>1, <1>2 DEF HistogramsKnown

LEMMA NextHistograms == ReportInv /\ HistogramsKnown /\ [Next]_vars => HistogramsKnown'
<1>1. SUFFICES ASSUME ReportInv, HistogramsKnown, [Next]_vars
               PROVE  HistogramsKnown'
  OBVIOUS
<1>2. CASE UNCHANGED vars
  BY <1>1, <1>2, HistogramsSteady DEF vars, bounds, tables, ranks
<1>3. CASE \E r \in Ranks : \E t \in ThreadsUsed(r), k \in Kinds : Call(r, t, k.site, k.amount)
  BY <1>1, <1>3, CallHistograms
<1>4. CASE PcontrolReport
  BY <1>1, <1>4, ReportHistograms DEF PcontrolReport
<1>5. CASE InsertCallsite
  BY <1>1, <1>5, HistogramsSteady DEF InsertCallsite, bounds, tables, ranks
<1>6. CASE Publish
  BY <1>1, <1>6, HistogramsSteady DEF Publish, bounds, tables, ranks
<1>7. CASE ProfilePrint
  BY <1>1, <1>7, HistogramsSteady DEF ProfilePrint, bounds, tables, ranks
<1>8. CASE Meet
  BY <1>1, <1>8, HistogramsSteady DEF Meet, bounds, tables, ranks
<1>9. CASE Barrier
  BY <1>1, <1>9, HistogramsSteady DEF Barrier, bounds, tables, ranks
<1>10. CASE Reset
  BY <1>1, <1>10, ResetHistograms
<1>11. QED
  BY <1>1, <1>2, <1>3, <1>4, <1>5, <1>6, <1>7, <1>8, <1>9, <1>10 DEF Next

(* An int has less than the bins can tell apart (8 * 2^32 sizes).          *)
SizesFit == CommSize \in Sizes /\ \A k \in Kinds : k.amount["sent"] \in Sizes

(* The reports whose histograms are those of the calls. *)
FirstHistograms == resets = 0 /\ (setup.mode = "st" \/ reports = 1)

(* The ranks' cells add up to the calls of all ranks. *)
LEMMA TotalHistKnown ==
    ASSUME RecordsKnown, HistogramsKnown, FirstHistograms, ctl.pc # "run", NEW c \in Cells
    PROVE  TotalHist[c] = CellSum(Ranks, c) /\ CellSum(Ranks, c) \in Nat
<1> DEFINE f == CellField(c)
           U == InCell(Ranks, c)
           w == Weighted(calls, U, f)
           part == [r \in Ranks |-> InCell({r}, c)]
           h == [r \in Ranks |-> rankHist[r][c]]
<1>1. calls \in Bags /\ U \in SUBSET DOMAIN calls /\ f \in Fields
  BY CallFacts, CellFieldKnown DEF InCell
<1>2. TotalHist[c] = SumFunctionOnSet(h, Ranks)
  BY DEF TotalHist, Total
<1>3. U = UNION {part[r] : r \in Ranks}
  <2>1. \A r \in Ranks : part[r] = {k \in U : k.rank = r}
    BY DEF InCell
  <2>2. \A k \in U : k.rank \in Ranks
    BY DEF InCell
  <2> HIDE DEF U, part
  <2>3. QED
    BY <2>1, <2>2
<1>4. ASSUME NEW r \in Ranks
      PROVE  /\ part[r] \in SUBSET U /\ IsFiniteSet(part[r])
             /\ \A k \in part[r] : w[k] \in Nat
             /\ h[r] = SumFunctionOnSet(w, part[r])
  <2> DEFINE K == InCell({r}, c)
  <2>1. part[r] = K /\ K \in SUBSET U
    BY DEF InCell
  <2>2. h[r] = Amount(calls, K, f)
    BY DEF HistogramsKnown, FirstHistograms, CellSum
  <2> HIDE DEF K, U, f, part, h
  <2>3. K \in SUBSET DOMAIN calls
    BY <1>1, <2>1
  <2>4. IsFiniteSet(K) /\ \A k \in U : w[k] \in Nat
    BY <1>1, <2>3, BagFacts
  <2>5. \A k \in K : Weighted(calls, K, f)[k] = w[k]
    BY <2>1 DEF Weighted
  <2> HIDE DEF w
  <2>6. Amount(calls, K, f) = SumFunctionOnSet(w, K)
    BY <2>4, <2>5, SumEqual DEF Amount
  <2>7. QED
    BY <2>1, <2>2, <2>4, <2>6
<1>5. \A r, s \in Ranks : r # s => part[r] \cap part[s] = {}
  BY DEF InCell
<1> HIDE DEF U, f, part, h, w
<1>6. Partition(w, Ranks, part, h, U)
  BY <1>3, <1>4, <1>5, ReportAssumption DEF Partition
<1>7. SumFunctionOnSet(h, Ranks) = SumFunctionOnSet(w, U)
  BY <1>6, SumPartition
<1>8. CellSum(Ranks, c) = SumFunctionOnSet(w, U)
  BY DEF CellSum, Amount, w, U, f
<1>9. CellSum(Ranks, c) \in Nat
  BY <1>1, BagFacts DEF CellSum, U, f
<1>10. QED
  BY <1>2, <1>7, <1>8, <1>9

(* The calls between the bounds that a row prints are those of its cell.   *)
LEMMA InBoundsKnown ==
    ASSUME RecordsKnown, HistogramsKnown, SizesFit, NEW c \in Cells,
           NEW row, row.op = c[1], row.comm = BinBounds(c[2]), row.data = BinBounds(c[3])
    PROVE  InBounds(row) = InCell(Ranks, c)
<1>1. PICK j \in Kinds : c = <<j.site.op, Bin(CommSize), Bin(j.amount["sent"])>>
  BY DEF Cells
<1>2. c = <<c[1], c[2], c[3]>> /\ c[2] \in Nat /\ c[3] \in Nat
  <2>1. Bin(CommSize) \in Nat /\ Bin(j.amount["sent"]) \in Nat
    BY BinIn DEF SizesFit
  <2>2. QED
    BY <1>1, <2>1
<1>3. CommSize \in row.comm <=> Bin(CommSize) = c[2]
  BY <1>2, BinIs DEF SizesFit
<1>4. ASSUME NEW k \in DOMAIN calls
      PROVE  k \in InBounds(row) <=> k \in InCell(Ranks, c)
  <2>1. k.rank \in Ranks
    BY CallFacts DEF CallSet
  <2>2. k.amount["sent"] \in Sizes
    BY DEF HistogramsKnown, SizesFit
  <2>3. k.amount["sent"] \in row.data <=> Bin(k.amount["sent"]) = c[3]
    BY <1>2, <2>2, BinIs
  <2>4. Cell(k.site.op, k.amount) = c
           <=> k.site.op = c[1] /\ Bin(CommSize) = c[2] /\ Bin(k.amount["sent"]) = c[3]
    BY <1>2 DEF Cell
  <2>5. QED
    BY <1>3, <2>1, <2>3, <2>4 DEF InBounds, InCell
<1>5. QED
  BY <1>4 DEF InBounds, InCell

LEMMA CellRowsKnown ==
    ASSUME RecordsKnown, HistogramsKnown, SizesFit, FirstHistograms, ctl.pc # "run",
           NEW h, NEW cells \in SUBSET Cells, NEW f, \A c \in cells : CellField(c) = f
    PROVE  HistOfCalls(CellRows(h, cells, TotalHist), f)
<1> DEFINE used == {c \in cells : TotalHist[c] > 0}
           v == [c \in used |-> TotalHist[c]]
           top == SubSeq(Descending(v), 1, MinOf(TopLines, Len(Descending(v))))
           rowOf(c) == [op |-> c[1], comm |-> BinBounds(c[2]), data |-> BinBounds(c[3]),
                       value |-> TotalHist[c]]
<1>1. \A c \in cells : TotalHist[c] = CellSum(Ranks, c) /\ CellSum(Ranks, c) \in Nat
  BY TotalHistKnown
<1>2. calls \in Bags /\ IsFiniteSet(DOMAIN calls)
  BY CallFacts
<1>3. IsFiniteSet(used)
  <2> DEFINE D == {k \in DOMAIN calls : Cell(k.site.op, k.amount) \in used}
             cell == [k \in D |-> Cell(k.site.op, k.amount)]
  <2>1. ASSUME NEW c \in used
        PROVE  \E k \in DOMAIN calls : Cell(k.site.op, k.amount) = c
    <3>1. InCell(Ranks, c) \in SUBSET DOMAIN calls
      BY DEF InCell
    <3>2. Amount(calls, InCell(Ranks, c), CellField(c)) > 0
      BY <1>1 DEF CellSum
    <3>3. \E k \in InCell(Ranks, c) : k.amount[CellField(c)] > 0
      BY <1>2, <3>1, <3>2, CellFieldKnown, AmountZero
    <3>4. QED
      BY <3>3 DEF InCell
  <2> HIDE DEF used
  <2>2. cell \in Surjection(D, used)
    BY <2>1 DEF Surjection
  <2>3. IsFiniteSet(D)
    BY <1>2, FS_Subset
  <2> HIDE DEF D, cell
  <2>4. QED
    BY <2>2, <2>3, FS_Surjection
<1>4. v \in [used -> Int]
  BY <1>1
<1>5. Range(top) \subseteq used
  <2> HIDE DEF used, v
  <2>1. QED
    BY <1>3, <1>4, HeadsFacts
<1>6. ASSUME NEW c \in cells
      PROVE  rowOf(c).value = SumOf(InBounds(rowOf(c)), f)
  <2>1. InBounds(rowOf(c)) = InCell(Ranks, c)
    BY InBoundsKnown
  <2> HIDE DEF rowOf
  <2>2. InCell(Ranks, c) \in SUBSET DOMAIN calls
    BY DEF InCell
  <2>3. SumOf(InCell(Ranks, c), f) = Amount(calls, InCell(Ranks, c), f)
    BY <2>2, SumsOfCalls
  <2>4. rowOf(c).value = TotalHist[c]
    BY DEF rowOf
  <2>5. QED
    BY <1>1, <2>1, <2>3, <2>4 DEF CellSum
<1>7. CellRows(h, cells, TotalHist) \in {Absent, {rowOf(c) : c \in Range(top)}}
  BY DEF CellRows
<1> HIDE DEF rowOf, top
<1>8. \A row \in CellRows(h, cells, TotalHist) : \E c \in cells : row = rowOf(c)
  BY <1>5, <1>7 DEF Absent
<1>9. QED
  BY <1>6, <1>8 DEF HistOfCalls

(* What has been printed so far. *)
HistogramFields == {"topCollective", "topPt2pt"}

(* What HistogramsOfCalls says of a page. *)
HistogramsOn(p) ==
    FirstHistograms => HistOfCalls(p.topCollective, "time") /\ HistOfCalls(p.topPt2pt, "sent")

HistogramsPrinted ==
    \A style \in DOMAIN printed :
        HistogramFields \subseteq DOMAIN printed[style] /\ HistogramsOn(printed[style])

LEMMA HistogramsSame ==
    ASSUME UNCHANGED <<setup, calls, reports, resets>>
    PROVE  \A p : HistogramsOn(p)' <=> HistogramsOn(p)
<1>1. \A row : InBounds(row)' = InBounds(row)
  BY DEF InBounds
<1>2. \A K, f : SumOf(K, f)' = SumOf(K, f)
  BY DEF SumOf, Total
<1>3. \A rows, f : HistOfCalls(rows, f)' <=> HistOfCalls(rows, f)
  BY <1>1, <1>2 DEF HistOfCalls
<1>4. QED
  BY <1>3 DEF HistogramsOn, FirstHistograms

LEMMA PageHistograms ==
    ASSUME RecordsKnown, HistogramsKnown, SizesFit, ctl.pc # "run", NEW h, NEW tasks, NEW rows
    PROVE  LET p == Page(h, tasks, rows) IN HistogramFields \subseteq DOMAIN p /\ HistogramsOn(p)
<1> DEFINE p == Page(h, tasks, rows)
<1>1. /\ HistogramFields \subseteq DOMAIN p
      /\ p.topCollective = TopCollective(h, TotalHist) /\ p.topPt2pt = TopPt2pt(h, TotalHist)
  BY DEF Page, HistogramFields
<1> HIDE DEF p
<1>2. ASSUME FirstHistograms
      PROVE  /\ HistOfCalls(TopCollective(h, TotalHist), "time")
             /\ HistOfCalls(TopPt2pt(h, TotalHist), "sent")
  <2>1. DOMAIN TotalHist = Cells
    BY DEF TotalHist
  <2>2. HistOfCalls(CellRows(h, {c \in Cells : c[1] \in CollOps}, TotalHist), "time")
    <3> DEFINE cells == {c \in Cells : c[1] \in CollOps}
    <3>1. cells \in SUBSET Cells /\ \A c \in cells : CellField(c) = "time"
      BY DEF CellField
    <3> HIDE DEF cells
    <3>2. HistOfCalls(CellRows(h, cells, TotalHist), "time")
      BY <1>2, <3>1, CellRowsKnown
    <3>3. QED
      BY <3>2 DEF cells
  <2>3. HistOfCalls(CellRows(h, {c \in Cells : c[1] \notin CollOps}, TotalHist), "sent")
    <3> DEFINE cells == {c \in Cells : c[1] \notin CollOps}
    <3>1. cells \in SUBSET Cells /\ \A c \in cells : CellField(c) = "sent"
      BY DEF CellField
    <3> HIDE DEF cells
    <3>2. HistOfCalls(CellRows(h, cells, TotalHist), "sent")
      BY <1>2, <3>1, CellRowsKnown
    <3>3. QED
      BY <3>2 DEF cells
  <2>4. QED
    BY <2>1, <2>2, <2>3 DEF TopCollective, TopPt2pt
<1>3. QED
  BY <1>1, <1>2 DEF HistogramsOn, p

LEMMA PrintHistograms ==
    ASSUME ReportInv, HistogramsKnown, SizesFit, HistogramsPrinted, ProfilePrint
    PROVE  HistogramsPrinted'
<1> DEFINE style == Head(ctl.styles)
           h == IF style = "verbose" THEN VerboseApp(g, AppTime) ELSE ConciseApp(g, AppTime)
           new == IF style = "verbose" THEN Verbose(h) ELSE Concise(h)
<1>1. /\ UNCHANGED <<setup, calls, reports, resets>> /\ ctl.pc = "print" /\ RecordsKnown
  BY DEF ReportInv, ProfilePrint, bounds
<1>2. printed' = [p \in DOMAIN printed \cup {style} |->
                     IF p \in DOMAIN printed THEN printed[p] ELSE new]
  BY DEF ProfilePrint
<1>3. \E tasks, rows : new = Page(h, tasks, rows)
  BY DEF Verbose, Concise
<1> HIDE DEF h, new, style
<1>4. HistogramFields \subseteq DOMAIN new /\ HistogramsOn(new)
  BY <1>1, <1>3, PageHistograms
<1>5. \A p \in DOMAIN printed' :
         HistogramFields \subseteq DOMAIN printed'[p] /\ HistogramsOn(printed'[p])
  BY <1>2, <1>4 DEF HistogramsPrinted
<1>6. \A p : HistogramsOn(p)' <=> HistogramsOn(p)
  BY <1>1, HistogramsSame
<1>7. QED
  BY <1>5, <1>6 DEF HistogramsPrinted

LEMMA MeetHistograms ==
    ASSUME ReportInv, HistogramsPrinted, Meet
    PROVE  HistogramsPrinted'
<1>1. UNCHANGED <<setup, calls, reports, resets>>
  BY DEF Meet, bounds
<1>2. /\ DOMAIN printed' = DOMAIN printed
      /\ \A s \in DOMAIN printed :
            /\ HistogramFields \subseteq DOMAIN printed'[s]
            /\ \A e \in HistogramFields : printed'[s][e] = printed[s][e]
  <2>1. HistogramFields \cap Fields = {}
    BY DEF HistogramFields, Fields
  <2>2. QED
    BY <2>1, MeetElsewhere DEF HistogramsPrinted
<1>3. \A s \in DOMAIN printed : HistogramsOn(printed'[s])
  BY <1>2 DEF HistogramsPrinted, HistogramsOn, HistogramFields
<1>4. \A p : HistogramsOn(p)' <=> HistogramsOn(p)
  BY <1>1, HistogramsSame
<1>5. QED
  BY <1>2, <1>3, <1>4 DEF HistogramsPrinted

LEMMA NextHistogramsPrinted ==
    SizesFit /\ ReportInv /\ HistogramsKnown /\ HistogramsPrinted /\ [Next]_vars => HistogramsPrinted'
<1>1. SUFFICES ASSUME SizesFit, ReportInv, HistogramsKnown, HistogramsPrinted, [Next]_vars
               PROVE  HistogramsPrinted'
  OBVIOUS
<1>2. ASSUME printed' = <<>>
      PROVE  HistogramsPrinted'
  BY <1>2 DEF HistogramsPrinted
<1>3. ASSUME UNCHANGED <<setup, calls, reports, resets, printed>>
      PROVE  HistogramsPrinted'
  <2>1. \A p : HistogramsOn(p)' <=> HistogramsOn(p)
    BY <1>3, HistogramsSame
  <2>2. QED
    BY <1>1, <1>3, <2>1 DEF HistogramsPrinted
<1>4. CASE UNCHANGED vars
  BY <1>3, <1>4 DEF vars, bounds
<1>5. CASE \E r \in Ranks : \E t \in ThreadsUsed(r), k \in Kinds : Call(r, t, k.site, k.amount)
  BY <1>2, <1>5 DEF Call
<1>6. CASE PcontrolReport
  BY <1>2, <1>6 DEF PcontrolReport, Report
<1>7. CASE InsertCallsite
  BY <1>3, <1>7 DEF InsertCallsite, bounds
<1>8. CASE Publish
  BY <1>3, <1>8 DEF Publish, bounds
<1>9. CASE ProfilePrint
  BY <1>1, <1>9, PrintHistograms
<1>10. CASE Meet
  BY <1>1, <1>10, MeetHistograms
<1>11. CASE Barrier
  BY <1>3, <1>11 DEF Barrier, bounds
<1>12. CASE Reset
  BY <1>2, <1>12 DEF Reset
<1>13. QED
  BY <1>1, <1>4, <1>5, <1>6, <1>7, <1>8, <1>9, <1>10, <1>11, <1>12 DEF Next

LEMMA InitHistogramsPrinted == Init => HistogramsPrinted
<1>1. Init => DOMAIN printed = {}
  BY DEF Init
<1>2. QED
  BY <1>1 DEF HistogramsPrinted

LEMMA HistogramsTold == HistogramsPrinted => HistogramsOfCalls
  BY DEF HistogramsPrinted, HistogramsOn, FirstHistograms, HistogramsOfCalls

(* A row of a histogram has the time or the bytes of the calls whose size   *)
(* and communicator lie between the bounds that it prints, in the first     *)
(* report and, with one thread, in every report until a reset, if no size   *)
(* is too great for the last bin (get_histogram_bin, get_histogram_bin_str, *)
(* mpiPi_stats_thr_coll_merge, mpiPi_mergeCollectiveStats).                 *)
THEOREM HistogramsAlways == SizesFit => (Spec => []HistogramsOfCalls)
<1>1. SUFFICES ASSUME SizesFit
               PROVE  Spec => []HistogramsOfCalls
  OBVIOUS
<1>2. Spec => []HistogramsKnown
  BY InitHistograms, NextHistograms, ReportInvariant, PTL DEF Spec
<1>3. Spec => []HistogramsPrinted
  <2>1. (ReportInv /\ HistogramsKnown) /\ HistogramsPrinted /\ [Next]_vars => HistogramsPrinted'
    BY <1>1, NextHistogramsPrinted
  <2>2. QED
    BY <1>2, <2>1, InitHistogramsPrinted, ReportInvariant, PTL DEF Spec
<1>4. QED
  BY <1>3, HistogramsTold, PTL
=============================================================================
