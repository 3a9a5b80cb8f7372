------------------------ MODULE CallsiteReportProofs ------------------------
(***************************************************************************)
(* For any number of ranks, threads, callsites, calls, reports and resets: *)
(* in the collective sections of a report (option -l) every rank takes the *)
(* same way (OperationsMatch); a callsite keeps its number, and the list   *)
(* of callsites has those called (IdentifiedAlways); the arrays of the     *)
(* collector have room (FitAlways); and what a verbose report prints of a  *)
(* callsite are the number, the sum and the extremes of its calls          *)
(* (RowsAlways).                                                           *)
(*                                                                         *)
(* A record represents a set of calls.  It does so in the tables of the    *)
(* threads and of the ranks (ReportInv), then in those of the collector    *)
(* (CallsMerged), and the rows are made of them (RowsPrinted).             *)
(***************************************************************************)
EXTENDS CallsiteReport, FoldTheorems, SequenceTheorems

(* All ranks stand at one place: not only before the same operation, but  *)
(* in the same round of as many, or they would part later.                 *)
Aligned == \E l : loc = [r \in Ranks |-> l]

(* Where a rank goes depends on where it stands and on what the collector  *)
(* has broadcast, not on the rank.                                         *)
LEMMA SameWay ==
    ASSUME NEW l, loc = [r \in Ranks |-> l], NEW f
    PROVE  \E m : [r \in Ranks |-> After(r, f)] = [r \in Ranks |-> m]
<1>1. \A r, q \in Ranks : loc[r] = loc[q]
  OBVIOUS
<1>2. \A r, q \in Ranks : Rounds(r, f) = Rounds(q, f)
  BY DEF Rounds
<1>3. \A r, q \in Ranks : After(r, f) = After(q, f)
  BY <1>1, <1>2 DEF After
<1>4. Collector \in Ranks
  BY ReportAssumption DEF Collector
<1>5. [r \in Ranks |-> After(r, f)] = [r \in Ranks |-> After(Collector, f)]
  BY <1>3, <1>4
<1>6. QED
  BY <1>5

LEMMA InitAligned == Init => Aligned
  BY DEF Init, Aligned

LEMMA NextAligned == Aligned /\ [Next]_vars => Aligned'
<1>1. SUFFICES ASSUME Aligned, [Next]_vars
               PROVE  Aligned'
  OBVIOUS
<1>2. ASSUME NEW m, loc' = [r \in Ranks |-> m]
      PROVE  Aligned'
  BY <1>2 DEF Aligned
<1>3. CASE UNCHANGED loc
  BY <1>1, <1>3 DEF Aligned
<1>4. CASE Meet
  <2>1. PICK l : loc = [r \in Ranks |-> l]
    BY <1>1 DEF Aligned
  <2>2. loc' = [r \in Ranks |-> After(r, Field(Collector))]
    BY <1>4 DEF Meet
  <2>3. PICK m : loc' = [r \in Ranks |-> m]
    BY <2>1, <2>2, SameWay
  <2>4. QED
    BY <2>3, <1>2
<1>5. CASE Barrier
  BY <1>5, <1>2 DEF Barrier
<1>6. CASE ProfilePrint
  BY <1>6, <1>2, <1>3 DEF ProfilePrint
<1>7. CASE UNCHANGED vars
  BY <1>3, <1>7 DEF vars
<1>8. CASE \E r \in Ranks : \E t \in ThreadsUsed(r), k \in Kinds :
              Call(r, t, k.site, k.amount)
  BY <1>3, <1>8 DEF Call
<1>9. CASE PcontrolReport \/ InsertCallsite \/ Publish \/ Reset
  BY <1>3, <1>9 DEF PcontrolReport, Report, InsertCallsite, Publish, Reset
<1>10. QED
  BY <1>1, <1>4, <1>5, <1>6, <1>7, <1>8, <1>9 DEF Next

(* In the collective sections all ranks are at the same operation          *)
(* (mpiPi_coll_print_all_..., mpiPi_coll_print_concise_...).               *)
THEOREM OperationsMatch == Spec => []CollectivesMatch
<1>1. Aligned => CollectivesMatch
  BY DEF Aligned, CollectivesMatch, Together
<1>2. QED
  BY <1>1, InitAligned, NextAligned, PTL DEF Spec
-----------------------------------------------------------------------------
(***************************************************************************)
(* What a record stands for: a set K of calls, of which c says how often   *)
(* each was made.                                                          *)
(***************************************************************************)
Sites == {k.site : k \in Kinds}
CallSet == [rank : Ranks, thread : UNION {Threads[r] : r \in Ranks},
            site : Sites, amount : [Fields -> 0 .. Large]]
Bags == {c \in UNION {[D -> Nat \ {0}] : D \in SUBSET CallSet} : IsFiniteSet(DOMAIN c)}

Count(c, K) == SumFunctionOnSet(c, K)
Weighted(c, K, f) == [k \in K |-> c[k] * k.amount[f]]
Amount(c, K, f) == SumFunctionOnSet(Weighted(c, K, f), K)

(* Above all of them and, if there are any, one of them. *)
IsGreatest(v, K, f) ==
    /\ \A k \in K : k.amount[f] <= v
    /\ v = 0 \/ \E k \in K : k.amount[f] = v
IsLeast(v, K, f) ==
    /\ \A k \in K : v <= k.amount[f]
    /\ v = Large \/ \E k \in K : k.amount[f] = v

LargeOf(K) == {k \in K : setup.threshold > -1 /\ k.amount["sent"] >= setup.threshold}

Represents(p, K, c) ==
    /\ p.count = Count(c, K)
    /\ p.large = Count(c, LargeOf(K))
    /\ \A f \in Fields : p.sum[f] = Amount(c, K, f)
    /\ \A f \in Fields \ {"rma"} : IsGreatest(p.max[f], K, f) /\ IsLeast(p.min[f], K, f)

RecordsOf(R) ==
    [op : Operations, rank : R, pc : Seq(Nat), csid : Nat, count : Nat, large : Nat,
     sum : [Fields -> Nat], max : [Fields -> Nat], min : [Fields -> Nat]]

SiteOf(p) == [op |-> p.op, pc |-> p.pc]
AtSite(K, x) == {k \in K : k.site = x}

(* The records for the site x with the number id that represent K. *)
RecordsFor(R, x, id, K, c) ==
    {p \in RecordsOf(R) : SiteOf(p) = x /\ p.csid = id /\ Represents(p, K, c)}

(* The tables by callsite of rank r that represent the calls of K. *)
Tables(r, K, c) ==
    {T \in SUBSET RecordsOf({r}) :
        /\ IsFiniteSet(T)
        /\ \A p \in T : /\ AtSite(K, SiteOf(p)) # {}
                         /\ p \in RecordsFor({r}, SiteOf(p), 0, AtSite(K, SiteOf(p)), c)
        /\ \A p, q \in T : SiteOf(p) = SiteOf(q) => p = q
        /\ \A k \in K : \E p \in T : SiteOf(p) = k.site}

LEMMA FieldsFacts ==
    /\ {"time", "sent", "io", "rma"} = Fields
    /\ Large \in Nat
  BY RecordsAssumption DEF Fields

LEMMA SitesType == Sites \subseteq [op : Operations, pc : Seq(Nat)]
  BY CallsAssumption DEF Sites

LEMMA BagFacts ==
    ASSUME NEW c \in Bags, NEW K \in SUBSET DOMAIN c
    PROVE  /\ IsFiniteSet(K) /\ K \subseteq CallSet
           /\ \A k \in K : /\ c[k] \in Nat \ {0} /\ k.amount \in [Fields -> 0 .. Large]
                           /\ k.rank \in Ranks /\ k.site \in Sites
           /\ \A f \in Fields, k \in K : /\ k.amount[f] \in Nat /\ k.amount[f] <= Large
                                         /\ Weighted(c, K, f)[k] = c[k] * k.amount[f]
                                         /\ Weighted(c, K, f)[k] \in Nat
           /\ Count(c, K) \in Nat
           /\ \A f \in Fields : Amount(c, K, f) \in Nat
<1>1. IsFiniteSet(K) /\ K \subseteq CallSet /\ \A k \in K : c[k] \in Nat \ {0}
  BY FS_Subset DEF Bags
<1>2. \A k \in K : /\ k.amount \in [Fields -> 0 .. Large]
                   /\ k.rank \in Ranks /\ k.site \in Sites
  BY <1>1 DEF CallSet
<1>3. ASSUME NEW f \in Fields, NEW k \in K
      PROVE  /\ k.amount[f] \in Nat /\ k.amount[f] <= Large
             /\ Weighted(c, K, f)[k] = c[k] * k.amount[f]
             /\ Weighted(c, K, f)[k] \in Nat
  <2>1. k.amount[f] \in 0 .. Large
    BY <1>2
  <2>2. Weighted(c, K, f)[k] = c[k] * k.amount[f]
    BY DEF Weighted
  <2>3. \A m, n \in Nat : m * n \in Nat
    OBVIOUS
  <2>4. QED
    BY <1>1, <2>1, <2>2, <2>3, FieldsFacts
<1>4. Count(c, K) \in Nat
  BY <1>1, SumNat DEF Count
<1>5. \A f \in Fields : Amount(c, K, f) \in Nat
  BY <1>1, <1>3, SumNat DEF Amount
<1>6. QED
  BY <1>1, <1>2, <1>3, <1>4, <1>5

(* One more call of the kind k. *)
More(c, k) ==
    [j \in DOMAIN c \cup {k} |->
        IF j # k THEN c[j] ELSE IF k \in DOMAIN c THEN c[k] + 1 ELSE 1]

LEMMA MoreBag ==
    ASSUME NEW c \in Bags, NEW k \in CallSet
    PROVE  /\ More(c, k) \in Bags
           /\ DOMAIN More(c, k) = DOMAIN c \cup {k}
           /\ \A j \in DOMAIN c : j # k => More(c, k)[j] = c[j]
           /\ More(c, k)[k] = IF k \in DOMAIN c THEN c[k] + 1 ELSE 1
<1>1. /\ DOMAIN More(c, k) = DOMAIN c \cup {k}
      /\ \A j \in DOMAIN c : j # k => More(c, k)[j] = c[j]
      /\ More(c, k)[k] = IF k \in DOMAIN c THEN c[k] + 1 ELSE 1
  BY DEF More
<1>2. DOMAIN c \in SUBSET CallSet /\ IsFiniteSet(DOMAIN c) /\ \A j \in DOMAIN c : c[j] \in Nat \ {0}
  BY DEF Bags
<1>3. IsFiniteSet(DOMAIN c \cup {k})
  BY <1>2, FS_AddElement
<1>4. More(c, k) \in [DOMAIN c \cup {k} -> Nat \ {0}]
  BY <1>2 DEF More
<1>5. QED
  BY <1>1, <1>2, <1>3, <1>4 DEF Bags

LEMMA CountMore ==
    ASSUME NEW c \in Bags, NEW k \in CallSet, NEW K \in SUBSET DOMAIN c,
           k \in DOMAIN c => k \in K
    PROVE  /\ Count(More(c, k), K \cup {k}) = Count(c, K) + 1
           /\ \A f \in Fields :
                 Amount(More(c, k), K \cup {k}, f) = Amount(c, K, f) + k.amount[f]
<1> DEFINE d == More(c, k)
           J == K \cup {k}
           L == K \ {k}
<1>1. /\ d \in Bags /\ DOMAIN d = DOMAIN c \cup {k}
      /\ \A j \in DOMAIN c : j # k => d[j] = c[j]
      /\ d[k] = IF k \in DOMAIN c THEN c[k] + 1 ELSE 1
  BY MoreBag
<1> HIDE DEF d
<1>2. J \in SUBSET DOMAIN d /\ L \in SUBSET DOMAIN c /\ k \in J /\ J \ {k} = L
  BY <1>1
<1>3. /\ IsFiniteSet(J) /\ IsFiniteSet(K) /\ IsFiniteSet(L)
      /\ \A j \in J : d[j] \in Nat /\ \A f \in Fields : Weighted(d, J, f)[j] \in Nat
      /\ \A j \in K : c[j] \in Nat /\ \A f \in Fields : Weighted(c, K, f)[j] \in Nat
      /\ Count(c, L) \in Nat /\ \A f \in Fields : Amount(c, L, f) \in Nat
  BY <1>1, <1>2, BagFacts
<1>4. Count(d, J) = d[k] + Count(c, L)
  <2>1. SumFunctionOnSet(d, J) = d[k] + SumFunctionOnSet(d, J \ {k})
    BY <1>2, <1>3, SumTakeOut
  <2>2. \A j \in L : d[j] = c[j]
    BY <1>1, <1>2
  <2>3. SumFunctionOnSet(d, L) = SumFunctionOnSet(c, L)
    BY <1>3, <2>2, SumEqual
  <2>4. QED
    BY <1>2, <2>1, <2>3 DEF Count
<1>5. Count(d, J) = Count(c, K) + 1
  <2>1. CASE k \in K
    <3>1. Count(c, K) = c[k] + Count(c, L)
      BY <1>3, <2>1, SumTakeOut DEF Count
    <3>2. d[k] = c[k] + 1 /\ c[k] \in Nat
      BY <1>1, <1>3, <2>1
    <3>3. QED
      BY <1>3, <1>4, <3>1, <3>2
  <2>2. CASE k \notin K
    <3>1. L = K /\ d[k] = 1
      BY <1>1, <2>2
    <3>2. QED
      BY <1>3, <1>4, <3>1
  <2>3. QED
    BY <2>1, <2>2
<1>6. ASSUME NEW f \in Fields
      PROVE  Amount(d, J, f) = Amount(c, K, f) + k.amount[f]
  <2> DEFINE wd == Weighted(d, J, f)
             wc == Weighted(c, K, f)
             wl == Weighted(c, L, f)
             a == k.amount[f]
  <2>1. a \in Nat /\ wd[k] = d[k] * a
    <3>1. a \in 0 .. Large
      BY DEF CallSet
    <3>2. wd[k] = d[k] * a
      BY <1>2 DEF Weighted
    <3>3. QED
      BY <3>1, <3>2, FieldsFacts
  <2>2. SumFunctionOnSet(wd, J) = wd[k] + SumFunctionOnSet(wd, J \ {k})
    <3> HIDE DEF wd
    <3>1. \A j \in J : wd[j] \in Nat
      BY <1>3 DEF wd
    <3>2. QED
      BY <1>2, <1>3, <3>1, SumTakeOut
  <2>3. \A j \in L : wd[j] = wl[j] /\ wc[j] = wl[j]
    BY <1>1, <1>2 DEF Weighted
  <2>4. SumFunctionOnSet(wd, L) = SumFunctionOnSet(wl, L)
    <3> HIDE DEF wd, wl
    <3>1. QED
      BY <1>3, <2>3, SumEqual
  <2>5. Amount(d, J, f) = d[k] * a + Amount(c, L, f)
    BY <1>2, <2>1, <2>2, <2>4 DEF Amount
  <2>6. CASE k \in K
    <3>1. SumFunctionOnSet(wc, K) = wc[k] + SumFunctionOnSet(wc, L)
      <4> HIDE DEF wc
      <4>1. \A j \in K : wc[j] \in Nat
        BY <1>3 DEF wc
      <4>2. QED
        BY <1>3, <2>6, <4>1, SumTakeOut
    <3>2. SumFunctionOnSet(wc, L) = SumFunctionOnSet(wl, L)
      <4> HIDE DEF wc, wl
      <4>1. QED
        BY <1>3, <2>3, SumEqual
    <3>3. wc[k] = c[k] * a /\ d[k] = c[k] + 1 /\ c[k] \in Nat
      BY <1>1, <1>3, <2>6 DEF Weighted
    <3>4. Amount(c, K, f) = c[k] * a + Amount(c, L, f)
      BY <3>1, <3>2, <3>3 DEF Amount
    <3>5. \A m, n \in Nat : (m + 1) * n = m * n + n /\ m * n \in Nat
      OBVIOUS
    <3>6. PICK x \in Nat : c[k] * a = x /\ d[k] * a = x + a
      BY <2>1, <3>3, <3>5
    <3>7. Amount(d, J, f) = (x + a) + Amount(c, L, f) /\ Amount(c, K, f) = x + Amount(c, L, f)
      BY <2>5, <3>4, <3>6
    <3>8. Amount(c, L, f) \in Nat
      BY <1>3
    <3>9. QED
      BY <2>1, <3>7, <3>8
  <2>7. CASE k \notin K
    <3>1. L = K /\ d[k] = 1
      BY <1>1, <2>7
    <3>2. \A n \in Nat : 1 * n = n
      OBVIOUS
    <3>3. d[k] * a = a
      BY <2>1, <3>1, <3>2
    <3>4. Amount(d, J, f) = a + Amount(c, K, f)
      BY <2>5, <3>1, <3>3
    <3>5. Amount(c, K, f) \in Nat
      BY <1>3, <3>1
    <3>6. QED
      BY <2>1, <3>4, <3>5
  <2>8. QED
    BY <2>6, <2>7
<1>7. QED
  BY <1>5, <1>6 DEF d

(* What a set without the call amounts to does not change. *)
LEMMA CountSame ==
    ASSUME NEW c \in Bags, NEW k \in CallSet, NEW K \in SUBSET DOMAIN c, k \notin K
    PROVE  /\ Count(More(c, k), K) = Count(c, K)
           /\ \A f \in Fields : Amount(More(c, k), K, f) = Amount(c, K, f)
<1>1. IsFiniteSet(K) /\ \A j \in K : More(c, k)[j] = c[j]
  <2>1. IsFiniteSet(K)
    BY BagFacts
  <2>2. \A j \in K : j \in DOMAIN c /\ j # k
    OBVIOUS
  <2>3. QED
    BY <2>1, <2>2 DEF More
<1>2. Count(More(c, k), K) = Count(c, K)
  BY <1>1, SumEqual DEF Count
<1>3. \A f \in Fields : Weighted(More(c, k), K, f) = Weighted(c, K, f)
  BY <1>1 DEF Weighted
<1>4. QED
  BY <1>2, <1>3 DEF Amount

(***************************************************************************)
(* A record that is cleared, updated, or merged into another.              *)
(***************************************************************************)
LEMMA ClearedRecord ==
    ASSUME NEW c, NEW r, NEW op \in Operations, NEW pc \in Seq(Nat)
    PROVE  NewCallsite(r, op, pc) \in RecordsFor({r}, [op |-> op, pc |-> pc], 0, {}, c)
<1> DEFINE p == NewCallsite(r, op, pc)
           zero == [f \in Fields |-> 0]
           least == [f \in Fields |-> IF f = "rma" THEN 0 ELSE Large]
           z == [op |-> op, rank |-> r, pc |-> pc, csid |-> 0, count |-> 0,
                 large |-> 0, sum |-> zero, max |-> zero, min |-> zero]
<1>1. /\ p.op = op /\ p.rank = r /\ p.pc = pc /\ p.csid = 0 /\ p.count = 0 /\ p.large = 0
      /\ p.sum = zero /\ p.max = zero /\ p.min = least
  <2>1. \A f \in Fields : (IF f = "rma" THEN 0 ELSE 0) = 0
    OBVIOUS
  <2>2. QED
    BY <2>1 DEF NewCallsite, ResetStat, Each, Kept
<1>2. p = [op |-> op, rank |-> r, pc |-> pc, csid |-> 0, count |-> 0, large |-> 0,
           sum |-> zero, max |-> zero, min |-> least]
  <2>1. p = [z EXCEPT !.count = 0, !.large = 0, !.sum = p.sum, !.max = p.max, !.min = p.min]
    BY DEF NewCallsite, ResetStat, Each
  <2>2. p = [z EXCEPT !.count = 0, !.large = 0, !.sum = zero, !.max = zero, !.min = least]
    BY <1>1, <2>1
  <2> HIDE DEF p, zero, least
  <2>3. QED
    BY <2>2
<1>3. p.sum \in [Fields -> Nat] /\ p.max \in [Fields -> Nat] /\ p.min \in [Fields -> Nat]
  BY <1>1, FieldsFacts
<1> HIDE DEF p
<1>4. p \in RecordsOf({r})
  BY <1>2, <1>3 DEF RecordsOf
<1>5. /\ LargeOf({}) = {} /\ Count(c, {}) = 0
      /\ \A f : Amount(c, {}, f) = 0
  BY SumEmpty DEF LargeOf, Count, Amount
<1>6. Represents(p, {}, c)
  BY <1>1, <1>5 DEF Represents, IsGreatest, IsLeast
<1>7. QED
  BY <1>1, <1>4, <1>6 DEF RecordsFor, SiteOf, p

LEMMA UpdatedRecord ==
    ASSUME NEW c \in Bags, NEW k \in CallSet, NEW K \in SUBSET DOMAIN c,
           k \in DOMAIN c => k \in K,
           NEW R, NEW x, NEW id, NEW p \in RecordsFor(R, x, id, K, c), setup.threshold \in Int
    PROVE  UpdateCallsite(p, k.amount, setup.threshold)
              \in RecordsFor(R, x, id, K \cup {k}, More(c, k))
<1> DEFINE q == UpdateCallsite(p, k.amount, setup.threshold)
           big == setup.threshold > -1 /\ k.amount["sent"] >= setup.threshold
           large == IF big THEN p.large + 1 ELSE p.large
           sum == [f \in Fields |-> p.sum[f] + k.amount[f]]
           max == [f \in Fields |-> MaxOf(p.max[f], k.amount[f])]
           min == [f \in Fields |-> MinOf(p.min[f], k.amount[f])]
           d == More(c, k)
<1>0. p \in RecordsOf(R) /\ SiteOf(p) = x /\ p.csid = id /\ Represents(p, K, c)
  BY DEF RecordsFor
<1>1. /\ q.op = p.op /\ q.rank = p.rank /\ q.pc = p.pc /\ q.csid = p.csid
      /\ q.count = p.count + 1 /\ q.large = large
      /\ q.sum = sum /\ q.max = max /\ q.min = min
      /\ p.count + 1 \in Nat /\ large \in Nat /\ {sum, max, min} \subseteq [Fields -> Nat]
            => q \in RecordsOf(R)
  <2>1. q = [p EXCEPT !.count = p.count + 1, !.large = large, !.sum = sum, !.max = max,
                      !.min = min]
    BY <1>0 DEF UpdateCallsite, Each, RecordsOf
  <2> DEFINE n == p.count + 1
  <2>2. q = [p EXCEPT !.count = n, !.large = large, !.sum = sum, !.max = max, !.min = min]
    BY <2>1
  <2> HIDE DEF q, large, sum, max, min, n
  <2>3. /\ q.op = p.op /\ q.rank = p.rank /\ q.pc = p.pc /\ q.csid = p.csid
        /\ q.count = n /\ q.large = large
        /\ q.sum = sum /\ q.max = max /\ q.min = min
    BY <1>0, <2>2 DEF RecordsOf
  <2>4. ASSUME n \in Nat, large \in Nat, {sum, max, min} \subseteq [Fields -> Nat]
        PROVE  q \in RecordsOf(R)
    BY <1>0, <2>2, <2>4 DEF RecordsOf
  <2>5. QED
    BY <2>3, <2>4 DEF n
<1>2. \A f \in Fields : k.amount[f] \in Nat /\ k.amount[f] <= Large
  <2>1. k.amount \in [Fields -> 0 .. Large]
    BY DEF CallSet
  <2>2. QED
    BY <2>1, FieldsFacts
<1>3. \A f \in Fields : p.sum[f] \in Nat /\ p.max[f] \in Nat /\ p.min[f] \in Nat
  BY <1>0 DEF RecordsOf
<1> HIDE DEF q
<1>4. q \in RecordsOf(R)
  <2>1. p.count + 1 \in Nat /\ large \in Nat
    BY <1>0 DEF RecordsOf
  <2>2. sum \in [Fields -> Nat] /\ max \in [Fields -> Nat] /\ min \in [Fields -> Nat]
    BY <1>2, <1>3 DEF MaxOf, MinOf
  <2> HIDE DEF large, sum, max, min
  <2>3. QED
    BY <1>1, <2>1, <2>2
<1>5. q.count = Count(d, K \cup {k})
  <2>1. p.count = Count(c, K)
    BY <1>0 DEF Represents
  <2>2. Count(d, K \cup {k}) = Count(c, K) + 1
    BY CountMore
  <2>3. QED
    BY <1>1, <2>1, <2>2
<1>6. ASSUME NEW f \in Fields
      PROVE  q.sum[f] = Amount(d, K \cup {k}, f)
  <2>1. p.sum[f] = Amount(c, K, f)
    BY <1>0 DEF Represents
  <2>2. Amount(d, K \cup {k}, f) = Amount(c, K, f) + k.amount[f]
    BY CountMore
  <2>3. QED
    BY <1>1, <2>1, <2>2
<1>7. q.large = Count(d, LargeOf(K \cup {k}))
  <2>1. LargeOf(K) \in SUBSET DOMAIN c /\ p.large = Count(c, LargeOf(K))
    BY <1>0 DEF LargeOf, Represents
  <2>2. CASE big
    <3>1. LargeOf(K \cup {k}) = LargeOf(K) \cup {k} /\ (k \in DOMAIN c => k \in LargeOf(K))
      BY <2>2 DEF LargeOf
    <3>2. Count(d, LargeOf(K) \cup {k}) = Count(c, LargeOf(K)) + 1
      BY <2>1, <3>1, CountMore
    <3>3. q.large = p.large + 1
      BY <1>1, <2>2
    <3>4. QED
      BY <2>1, <3>1, <3>2, <3>3
  <2>3. CASE ~big
    <3>1. LargeOf(K \cup {k}) = LargeOf(K) /\ k \notin LargeOf(K)
      BY <2>3 DEF LargeOf
    <3>2. Count(d, LargeOf(K)) = Count(c, LargeOf(K))
      BY <2>1, <3>1, CountSame
    <3>3. q.large = p.large
      BY <1>1, <2>3
    <3>4. QED
      BY <2>1, <3>1, <3>2, <3>3
  <2>4. QED
    BY <2>2, <2>3
<1>8. ASSUME NEW f \in Fields \ {"rma"}
      PROVE  IsGreatest(q.max[f], K \cup {k}, f) /\ IsLeast(q.min[f], K \cup {k}, f)
  <2>1. q.max[f] = MaxOf(p.max[f], k.amount[f]) /\ q.min[f] = MinOf(p.min[f], k.amount[f])
    BY <1>1
  <2>2. IsGreatest(p.max[f], K, f) /\ IsLeast(p.min[f], K, f)
    BY <1>0 DEF Represents
  <2>3. \A j \in K : j.amount[f] \in Nat
    BY BagFacts
  <2>4. QED
    BY <1>2, <1>3, <2>1, <2>2, <2>3 DEF IsGreatest, IsLeast, MaxOf, MinOf
<1>9. q.op = p.op /\ q.rank = p.rank /\ q.pc = p.pc /\ q.csid = p.csid
  BY <1>1
<1> HIDE DEF d
<1>10. Represents(q, K \cup {k}, d)
  BY <1>5, <1>6, <1>7, <1>8 DEF Represents
<1>11. QED
  BY <1>0, <1>4, <1>9, <1>10 DEF RecordsFor, SiteOf, q, d

(* Two sets of calls without a common one. *)
LEMMA CountUnion ==
    ASSUME NEW c \in Bags, NEW K \in SUBSET DOMAIN c, NEW L \in SUBSET DOMAIN c, K \cap L = {}
    PROVE  /\ Count(c, K \cup L) = Count(c, K) + Count(c, L)
           /\ \A f \in Fields : Amount(c, K \cup L, f) = Amount(c, K, f) + Amount(c, L, f)
<1>1. K \cup L \in SUBSET DOMAIN c
  OBVIOUS
<1>2. IsFiniteSet(K) /\ IsFiniteSet(L)
  BY BagFacts
<1>3. \A k \in K \cup L : c[k] \in Nat
  BY <1>1, BagFacts
<1>4. Count(c, K \cup L) = Count(c, K) + Count(c, L)
  BY <1>2, <1>3, SumUnion DEF Count
<1>5. ASSUME NEW f \in Fields
      PROVE  Amount(c, K \cup L, f) = Amount(c, K, f) + Amount(c, L, f)
  <2> DEFINE w == Weighted(c, K \cup L, f)
  <2>1. \A k \in K \cup L : w[k] \in Nat
    BY <1>1, BagFacts
  <2>2. /\ \A k \in K : w[k] = Weighted(c, K, f)[k]
        /\ \A k \in L : w[k] = Weighted(c, L, f)[k]
    BY DEF Weighted
  <2> HIDE DEF w
  <2>3. SumFunctionOnSet(w, K \cup L) = SumFunctionOnSet(w, K) + SumFunctionOnSet(w, L)
    BY <1>2, <2>1, SumUnion
  <2>4. /\ SumFunctionOnSet(w, K) = Amount(c, K, f)
        /\ SumFunctionOnSet(w, L) = Amount(c, L, f)
    BY <1>2, <2>2, SumEqual DEF Amount
  <2>5. QED
    BY <2>3, <2>4 DEF Amount, w
<1>6. QED
  BY <1>4, <1>5

LEMMA MergedRecord ==
    ASSUME NEW c \in Bags, NEW K \in SUBSET DOMAIN c, NEW L \in SUBSET DOMAIN c, K \cap L = {},
           NEW R, NEW x, NEW id, NEW p \in RecordsFor(R, x, id, K, c),
           NEW Q, NEW y, NEW jd, NEW q \in RecordsFor(Q, y, jd, L, c)
    PROVE  MergeCallsite(p, q) \in RecordsFor(R, x, id, K \cup L, c)
<1> DEFINE m == MergeCallsite(p, q)
           n == p.count + q.count
           large == p.large + q.large
           sum == [f \in Fields |-> p.sum[f] + q.sum[f]]
           max == [f \in Fields |-> IF f = "rma" THEN p.max[f] ELSE MaxOf(p.max[f], q.max[f])]
           min == [f \in Fields |-> IF f = "rma" THEN p.min[f] ELSE MinOf(p.min[f], q.min[f])]
<1>0. /\ p \in RecordsOf(R) /\ SiteOf(p) = x /\ p.csid = id /\ Represents(p, K, c)
      /\ q \in RecordsOf(Q) /\ Represents(q, L, c)
  BY DEF RecordsFor
<1>1. m = [p EXCEPT !.count = n, !.large = large, !.sum = sum, !.max = max, !.min = min]
  BY <1>0 DEF MergeCallsite, Each, RecordsOf, Kept
<1>2. /\ n \in Nat /\ large \in Nat
      /\ \A f \in Fields : /\ p.sum[f] \in Nat /\ p.max[f] \in Nat /\ p.min[f] \in Nat
                           /\ q.sum[f] \in Nat /\ q.max[f] \in Nat /\ q.min[f] \in Nat
  BY <1>0 DEF RecordsOf
<1>3. sum \in [Fields -> Nat] /\ max \in [Fields -> Nat] /\ min \in [Fields -> Nat]
  BY <1>2 DEF MaxOf, MinOf
<1> HIDE DEF m
<1>4. /\ m.op = p.op /\ m.rank = p.rank /\ m.pc = p.pc /\ m.csid = p.csid
      /\ m.count = n /\ m.large = large /\ m.sum = sum /\ m.max = max /\ m.min = min
      /\ m \in RecordsOf(R)
  <2> HIDE DEF n, large, sum, max, min
  <2>1. /\ m.op = p.op /\ m.rank = p.rank /\ m.pc = p.pc /\ m.csid = p.csid
        /\ m.count = n /\ m.large = large /\ m.sum = sum /\ m.max = max /\ m.min = min
    BY <1>0, <1>1 DEF RecordsOf
  <2>2. m \in RecordsOf(R)
    BY <1>0, <1>1, <1>2, <1>3 DEF RecordsOf
  <2>3. QED
    BY <2>1, <2>2
<1>5. m.count = Count(c, K \cup L)
  <2>1. p.count = Count(c, K) /\ q.count = Count(c, L)
    BY <1>0 DEF Represents
  <2>2. Count(c, K \cup L) = Count(c, K) + Count(c, L)
    BY CountUnion
  <2>3. QED
    BY <1>4, <2>1, <2>2
<1>6. ASSUME NEW f \in Fields
      PROVE  m.sum[f] = Amount(c, K \cup L, f)
  <2>1. p.sum[f] = Amount(c, K, f) /\ q.sum[f] = Amount(c, L, f)
    BY <1>0 DEF Represents
  <2>2. Amount(c, K \cup L, f) = Amount(c, K, f) + Amount(c, L, f)
    BY CountUnion
  <2>3. QED
    BY <1>4, <2>1, <2>2
<1>7. m.large = Count(c, LargeOf(K \cup L))
  <2>1. p.large = Count(c, LargeOf(K)) /\ q.large = Count(c, LargeOf(L))
    BY <1>0 DEF Represents
  <2>2. /\ LargeOf(K \cup L) = LargeOf(K) \cup LargeOf(L)
        /\ LargeOf(K) \in SUBSET DOMAIN c /\ LargeOf(L) \in SUBSET DOMAIN c
        /\ LargeOf(K) \cap LargeOf(L) = {}
    BY DEF LargeOf
  <2>3. Count(c, LargeOf(K) \cup LargeOf(L)) = Count(c, LargeOf(K)) + Count(c, LargeOf(L))
    BY <2>2, CountUnion
  <2>4. QED
    BY <1>4, <2>1, <2>2, <2>3
<1>8. ASSUME NEW f \in Fields \ {"rma"}
      PROVE  IsGreatest(m.max[f], K \cup L, f) /\ IsLeast(m.min[f], K \cup L, f)
  <2>1. m.max[f] = MaxOf(p.max[f], q.max[f]) /\ m.min[f] = MinOf(p.min[f], q.min[f])
    BY <1>4
  <2>2. /\ IsGreatest(p.max[f], K, f) /\ IsLeast(p.min[f], K, f)
        /\ IsGreatest(q.max[f], L, f) /\ IsLeast(q.min[f], L, f)
    BY <1>0 DEF Represents
  <2>3. \A j \in K \cup L : j.amount[f] \in Nat
    BY BagFacts
  <2> DEFINE a == p.max[f] b == q.max[f] d == p.min[f] e == q.min[f]
  <2>4. a \in Nat /\ b \in Nat /\ d \in Nat /\ e \in Nat
    BY <1>2
  <2> HIDE DEF a, b, d, e
  <2>5. IsGreatest(MaxOf(a, b), K \cup L, f)
    BY <2>2, <2>3, <2>4 DEF IsGreatest, MaxOf, a, b
  <2>6. IsLeast(MinOf(d, e), K \cup L, f)
    BY <2>2, <2>3, <2>4 DEF IsLeast, MinOf, d, e
  <2>7. QED
    BY <2>1, <2>5, <2>6 DEF a, b, d, e
<1>9. Represents(m, K \cup L, c)
  BY <1>5, <1>6, <1>7, <1>8 DEF Represents
<1>10. QED
  BY <1>0, <1>4, <1>9 DEF RecordsFor, SiteOf, m

(* A call of another site changes nothing. *)
LEMMA SameRecord ==
    ASSUME NEW c \in Bags, NEW k \in CallSet, NEW K \in SUBSET DOMAIN c, k \notin K,
           NEW R, NEW x, NEW id, NEW p \in RecordsFor(R, x, id, K, c)
    PROVE  p \in RecordsFor(R, x, id, K, More(c, k))
<1>1. Count(More(c, k), K) = Count(c, K) /\ \A f \in Fields : Amount(More(c, k), K, f) = Amount(c, K, f)
  BY CountSame
<1>2. LargeOf(K) \in SUBSET DOMAIN c /\ k \notin LargeOf(K)
  BY DEF LargeOf
<1>3. Count(More(c, k), LargeOf(K)) = Count(c, LargeOf(K))
  BY <1>2, CountSame
<1>4. QED
  BY <1>1, <1>3 DEF RecordsFor, Represents

(***************************************************************************)
(* Tables of one rank.                                                     *)
(***************************************************************************)
LEMMA RankMatching ==
    ASSUME NEW p, NEW T \in SUBSET RecordsOf({p.rank})
    PROVE  Matching(T, p, SamePc) = {q \in T : SiteOf(q) = SiteOf(p)}
<1>1. \A q \in T : q.rank = p.rank
  BY DEF RecordsOf
<1>2. \A q : (\A field \in SamePc : q[field] = p[field])
                 <=> q.op = p.op /\ q.rank = p.rank /\ q.pc = p.pc
  BY DEF SamePc
<1>3. \A q : SiteOf(q) = SiteOf(p) <=> q.op = p.op /\ q.pc = p.pc
  BY DEF SiteOf
<1>4. QED
  BY <1>1, <1>2, <1>3 DEF Matching

LEMMA SiteFacts ==
    ASSUME NEW x \in Sites
    PROVE  x.op \in Operations /\ x.pc \in Seq(Nat) /\ x = [op |-> x.op, pc |-> x.pc]
  BY SitesType

(* An empty table represents no call. *)
LEMMA EmptyTable == \A r, c : {} \in Tables(r, {}, c)
  BY FS_EmptySet DEF Tables

(* mpiPi_stats_thr_cs_upd. *)
LEMMA RecordedTable ==
    ASSUME NEW c \in Bags, NEW k \in CallSet, NEW K \in SUBSET DOMAIN c,
           k \in DOMAIN c => k \in K, setup.threshold \in Int,
           NEW T \in Tables(k.rank, K, c)
    PROVE  Recorded(T, k.rank, k.site, k.amount) \in Tables(k.rank, K \cup {k}, More(c, k))
<1> DEFINE r == k.rank
           x == k.site
           new == NewCallsite(r, x.op, x.pc)
           found == Matching(T, new, SamePc)
           csp == IF found = {} THEN new ELSE CHOOSE p \in found : TRUE
           up == UpdateCallsite(csp, k.amount, setup.threshold)
           U == (T \ found) \cup {up}
           d == More(c, k)
           J == K \cup {k}
<1>1. Recorded(T, k.rank, k.site, k.amount) = U
  BY DEF Recorded
<1>2. x \in Sites /\ x.op \in Operations /\ x.pc \in Seq(Nat) /\ x = [op |-> x.op, pc |-> x.pc]
  BY SiteFacts DEF CallSet
<1>3. /\ T \in SUBSET RecordsOf({r}) /\ IsFiniteSet(T)
      /\ \A p \in T : /\ AtSite(K, SiteOf(p)) # {}
                       /\ p \in RecordsFor({r}, SiteOf(p), 0, AtSite(K, SiteOf(p)), c)
      /\ \A p, q \in T : SiteOf(p) = SiteOf(q) => p = q
      /\ \A j \in K : \E p \in T : SiteOf(p) = j.site
  BY DEF Tables
<1>4. new \in RecordsFor({r}, x, 0, {}, c)
  <2> HIDE DEF r, x
  <2>1. new \in RecordsFor({r}, [op |-> x.op, pc |-> x.pc], 0, {}, c)
    BY <1>2, ClearedRecord
  <2>2. QED
    BY <1>2, <2>1
<1> HIDE DEF new
<1>5. found = {q \in T : SiteOf(q) = x}
  <2>1. new \in RecordsOf({r}) /\ new.rank = r /\ SiteOf(new) = x
    BY <1>4 DEF RecordsFor, RecordsOf
  <2>2. QED
    BY <1>3, <2>1, RankMatching
<1> HIDE DEF found
<1>6. csp \in RecordsFor({r}, x, 0, AtSite(K, x), c) /\ found = T \cap {csp}
  <2>1. CASE found = {}
    <3>1. AtSite(K, x) = {}
      BY <1>3, <1>5, <2>1 DEF AtSite
    <3>2. csp \notin T
      BY <1>4, <1>5, <2>1 DEF RecordsFor
    <3>3. QED
      BY <1>4, <2>1, <3>1, <3>2
  <2>2. CASE found # {}
    <3>1. csp \in found
      BY <2>2
    <3>2. csp \in T /\ SiteOf(csp) = x
      BY <1>5, <3>1
    <3>3. found = {csp}
      BY <1>3, <1>5, <3>2
    <3> HIDE DEF csp
    <3>4. QED
      BY <1>3, <3>2, <3>3
  <2>3. QED
    BY <2>1, <2>2
<1> HIDE DEF csp
<1>7. up \in RecordsFor({r}, x, 0, AtSite(J, x), d)
  <2> DEFINE L == AtSite(K, x)
             R == {r}
  <2>1. L \in SUBSET DOMAIN c /\ (k \in DOMAIN c => k \in L) /\ AtSite(J, x) = L \cup {k}
    BY DEF AtSite
  <2>2. csp \in RecordsFor(R, x, 0, L, c)
    BY <1>6
  <2> HIDE DEF L, R
  <2>3. up \in RecordsFor(R, x, 0, L \cup {k}, d)
    BY <2>1, <2>2, UpdatedRecord
  <2>4. QED
    BY <2>1, <2>3 DEF L, R
<1> HIDE DEF up
<1>8. ASSUME NEW p \in T \ found
      PROVE  /\ SiteOf(p) # x /\ AtSite(J, SiteOf(p)) # {}
             /\ p \in RecordsFor({r}, SiteOf(p), 0, AtSite(J, SiteOf(p)), d)
  <2> DEFINE L == AtSite(K, SiteOf(p))
             R == {r}
             y == SiteOf(p)
  <2>1. y # x
    BY <1>5, <1>8
  <2>2. AtSite(J, y) = L /\ k \notin L /\ L \in SUBSET DOMAIN c
    BY <2>1 DEF AtSite
  <2>3. L # {} /\ p \in RecordsFor(R, y, 0, L, c)
    BY <1>3, <1>8
  <2> HIDE DEF L, R, y
  <2>4. p \in RecordsFor(R, y, 0, L, d)
    BY <2>2, <2>3, SameRecord
  <2>5. QED
    BY <2>1, <2>2, <2>3, <2>4 DEF L, R, y
<1>9. U \in SUBSET RecordsOf({r}) /\ IsFiniteSet(U)
  <2>1. IsFiniteSet(T \ found)
    BY <1>3, FS_Subset
  <2>2. up \in RecordsOf({r})
    BY <1>7 DEF RecordsFor
  <2>3. QED
    BY <1>3, <2>1, <2>2, FS_AddElement
<1>10. \A p \in U : /\ AtSite(J, SiteOf(p)) # {}
                    /\ p \in RecordsFor({r}, SiteOf(p), 0, AtSite(J, SiteOf(p)), d)
  <2>1. k \in AtSite(J, x) /\ SiteOf(up) = x
    BY <1>7 DEF AtSite, RecordsFor
  <2>2. QED
    BY <1>7, <1>8, <2>1
<1>11. \A p, q \in U : SiteOf(p) = SiteOf(q) => p = q
  BY <1>3, <1>7, <1>8 DEF RecordsFor
<1>12. ASSUME NEW j \in J
       PROVE  \E p \in U : SiteOf(p) = j.site
  <2>1. CASE j.site = x
    BY <1>7, <2>1 DEF RecordsFor
  <2>2. CASE j.site # x
    BY <1>3, <1>5, <2>2
  <2>3. QED
    BY <2>1, <2>2
<1> HIDE DEF U, J, d
<1>13. U \in Tables(r, J, d)
  BY <1>9, <1>10, <1>11, <1>12 DEF Tables
<1>14. QED
  BY <1>1, <1>13 DEF J, d

(* Accumulate with a record of other calls of one site. *)
LEMMA AccumulatedTable ==
    ASSUME NEW c \in Bags, NEW r, NEW x, NEW K \in SUBSET DOMAIN c, NEW L \in SUBSET DOMAIN c,
           L # {}, AtSite(L, x) = L, K \cap L = {},
           NEW T \in Tables(r, K, c), NEW p \in RecordsFor({r}, x, 0, L, c),
           NEW new \in RecordsFor({r}, x, 0, L, c)
    PROVE  Accumulate(T, p, new, SamePc) \in Tables(r, K \cup L, c)
<1> DEFINE found == Matching(T, p, SamePc)
           csp == CHOOSE q \in found : TRUE
           merged == MergeCallsite(csp, p)
           J == K \cup L
           R == {r}
<1>1. /\ T \in SUBSET RecordsOf(R) /\ IsFiniteSet(T)
      /\ \A q \in T : /\ AtSite(K, SiteOf(q)) # {}
                       /\ q \in RecordsFor(R, SiteOf(q), 0, AtSite(K, SiteOf(q)), c)
      /\ \A q, o \in T : SiteOf(q) = SiteOf(o) => q = o
      /\ \A j \in K : \E q \in T : SiteOf(q) = j.site
  BY DEF Tables
<1>2. found = {q \in T : SiteOf(q) = x}
  <2>1. p.rank = r /\ SiteOf(p) = x
    BY DEF RecordsFor, RecordsOf
  <2>2. T \in SUBSET RecordsOf({p.rank})
    BY <1>1, <2>1
  <2>3. found = {q \in T : SiteOf(q) = SiteOf(p)}
    BY <2>2, RankMatching
  <2>4. QED
    BY <2>1, <2>3
<1> HIDE DEF found
<1>3. ASSUME NEW q \in T, SiteOf(q) # x
      PROVE  /\ AtSite(J, SiteOf(q)) # {}
             /\ q \in RecordsFor(R, SiteOf(q), 0, AtSite(J, SiteOf(q)), c)
  <2>1. AtSite(J, SiteOf(q)) = AtSite(K, SiteOf(q))
    BY <1>3 DEF AtSite
  <2>2. QED
    BY <1>1, <2>1
<1>4. ASSUME NEW o \in RecordsFor(R, x, 0, AtSite(J, x), c), NEW U, U = {q \in T : SiteOf(q) # x} \cup {o}
      PROVE  U \in Tables(r, J, c)
  <2>1. SiteOf(o) = x /\ o \in RecordsOf(R) /\ AtSite(J, x) # {}
    BY DEF RecordsFor, AtSite
  <2>2. U \in SUBSET RecordsOf(R) /\ IsFiniteSet(U)
    <3>1. IsFiniteSet({q \in T : SiteOf(q) # x})
      BY <1>1, FS_Subset
    <3>2. QED
      BY <1>1, <1>4, <2>1, <3>1, FS_AddElement
  <2>3. \A q \in U : /\ AtSite(J, SiteOf(q)) # {}
                      /\ q \in RecordsFor(R, SiteOf(q), 0, AtSite(J, SiteOf(q)), c)
    BY <1>3, <1>4, <2>1
  <2>4. \A q, z \in U : SiteOf(q) = SiteOf(z) => q = z
    BY <1>1, <1>4, <2>1
  <2>5. ASSUME NEW j \in J
        PROVE  \E q \in U : SiteOf(q) = j.site
    <3>1. CASE j.site = x
      BY <1>4, <2>1, <3>1
    <3>2. CASE j.site # x
      <4>1. j \in K
        BY <3>2 DEF AtSite
      <4>2. QED
        BY <1>1, <1>4, <3>2, <4>1
    <3>3. QED
      BY <3>1, <3>2
  <2> HIDE DEF J
  <2>6. QED
    BY <2>2, <2>3, <2>4, <2>5 DEF Tables
<1>5. CASE found = {}
  <2>1. Accumulate(T, p, new, SamePc) = T \cup {new}
    BY <1>5 DEF Accumulate, found
  <2>2. {q \in T : SiteOf(q) # x} = T
    BY <1>2, <1>5
  <2>3. AtSite(J, x) = L
    BY <1>1, <1>2, <1>5 DEF AtSite
  <2>4. new \in RecordsFor(R, x, 0, AtSite(J, x), c)
    BY <2>3
  <2> HIDE DEF J, R
  <2>5. QED
    BY <1>4, <2>1, <2>2, <2>4 DEF J
<1>6. CASE found # {}
  <2>1. csp \in T /\ SiteOf(csp) = x
    BY <1>2, <1>6
  <2>2. Accumulate(T, p, new, SamePc) = (T \ {csp}) \cup {merged}
    BY <1>6 DEF Accumulate, found
  <2> HIDE DEF csp
  <2>3. T \ {csp} = {q \in T : SiteOf(q) # x}
    BY <1>1, <2>1
  <2>4. merged \in RecordsFor(R, x, 0, AtSite(K, x) \cup L, c)
    <3> DEFINE M == AtSite(K, x)
    <3>1. csp \in RecordsFor(R, x, 0, M, c)
      BY <1>1, <2>1
    <3>2. M \in SUBSET DOMAIN c /\ M \cap L = {}
      BY DEF AtSite
    <3>3. p \in RecordsFor(R, x, 0, L, c)
      OBVIOUS
    <3> HIDE DEF M, R
    <3>4. QED
      BY <3>1, <3>2, <3>3, MergedRecord DEF M
  <2>5. AtSite(J, x) = AtSite(K, x) \cup L
    BY DEF AtSite
  <2> HIDE DEF J, R, merged
  <2>6. QED
    BY <1>4, <2>2, <2>3, <2>4, <2>5 DEF J
<1>7. QED
  BY <1>5, <1>6

(* mpiPi_stats_thr_cs_merge of the records of one thread: a fold. *)
LEMMA MergedThreadTable ==
    ASSUME NEW c \in Bags, NEW r \in Ranks, NEW K \in SUBSET DOMAIN c, NEW L \in SUBSET DOMAIN c,
           K \cap L = {}, NEW T \in Tables(r, K, c), NEW S \in Tables(r, L, c)
    PROVE  MergedThread(T, S) \in Tables(r, K \cup L, c)
<1> DEFINE cleared(p) == MergeCallsite(NewCallsite(p.rank, p.op, p.pc), p)
           add(p, acc) == Accumulate(acc, p, cleared(p), SamePc)
           Z == UNION {Tables(r, M, c) : M \in SUBSET DOMAIN c}
           part(s) == {k \in L : \E p \in s : SiteOf(p) = k.site}
           pick == [s \in SUBSET S |-> CHOOSE p \in s : TRUE]
           step == [p \in S |-> [acc \in SUBSET RecordsOf({r}) |-> add(p, acc)]]
           IsFold(f) == f = [s \in SUBSET S |-> IF s = {} THEN T
                                ELSE LET p == CHOOSE p \in s : TRUE IN add(p, f[s \ {p}])]
<1>1. /\ S \in SUBSET RecordsOf({r}) /\ IsFiniteSet(S)
      /\ \A q \in S : /\ AtSite(L, SiteOf(q)) # {}
                       /\ q \in RecordsFor({r}, SiteOf(q), 0, AtSite(L, SiteOf(q)), c)
      /\ \A q, o \in S : SiteOf(q) = SiteOf(o) => q = o
      /\ \A j \in L : \E q \in S : SiteOf(q) = j.site
  BY DEF Tables
<1>2. \A s \in SUBSET S : s # {} => pick[s] \in s
  OBVIOUS
<1>3. ASSUME NEW p \in S
      PROVE  cleared(p) \in RecordsFor({r}, SiteOf(p), 0, AtSite(L, SiteOf(p)), c)
  <2> DEFINE new == NewCallsite(p.rank, p.op, p.pc)
             M == AtSite(L, SiteOf(p))
             R == {r}
             x == SiteOf(p)
  <2>1. p \in RecordsFor(R, x, 0, M, c) /\ M \in SUBSET DOMAIN c
    BY <1>1 DEF AtSite
  <2>2. p.rank = r /\ p.op \in Operations /\ p.pc \in Seq(Nat)
    BY <1>1 DEF RecordsOf
  <2>3. new \in RecordsFor(R, x, 0, {}, c)
    BY <2>2, ClearedRecord DEF SiteOf
  <2> HIDE DEF new, M, R, x
  <2>4. MergeCallsite(new, p) \in RecordsFor(R, x, 0, {} \cup M, c)
    BY <2>1, <2>3, MergedRecord
  <2>5. QED
    BY <2>4 DEF new, M, R, x
<1> HIDE DEF cleared
<1>4. ASSUME NEW p \in S, NEW M \in SUBSET DOMAIN c, NEW acc \in Tables(r, M, c),
             M \cap AtSite(L, SiteOf(p)) = {}
      PROVE  add(p, acc) \in Tables(r, M \cup AtSite(L, SiteOf(p)), c)
  <2> DEFINE N == AtSite(L, SiteOf(p))
             x == SiteOf(p)
             new == cleared(p)
  <2>1. N \in SUBSET DOMAIN c /\ N # {} /\ AtSite(N, x) = N
    BY <1>1 DEF AtSite
  <2>2. p \in RecordsFor({r}, x, 0, N, c) /\ new \in RecordsFor({r}, x, 0, N, c)
    BY <1>1, <1>3
  <2>3. M \cap N = {}
    BY <1>4
  <2> HIDE DEF N, x, new
  <2>4. Accumulate(acc, p, new, SamePc) \in Tables(r, M \cup N, c)
    BY <2>1, <2>2, <2>3, AccumulatedTable
  <2> USE DEF N, new
  <2>5. QED
    BY <2>4
<1> DEFINE Folds(f) ==
              /\ f[{}] = T
              /\ \A s \in SUBSET S : s # {} /\ f[s \ {pick[s]}] \in SUBSET RecordsOf({r})
                                       => f[s] = add(pick[s], f[s \ {pick[s]}])
<1>5. ASSUME NEW f, Folds(f)
      PROVE  \A s \in SUBSET S : f[s] \in Tables(r, K \cup part(s), c)
  <2> DEFINE Good == {s \in SUBSET S : f[s] \in Tables(r, K \cup part(s), c)}
  <2>1. {} \in Good
    <3>1. K \cup part({}) = K
      OBVIOUS
    <3>2. QED
      BY <1>5, <3>1
  <2>2. ASSUME NEW s \in SUBSET S, s # {}, s \ {pick[s]} \in Good
        PROVE  s \in Good
    <3> DEFINE p == pick[s]
               rest == s \ {p}
               M == K \cup part(rest)
               N == AtSite(L, SiteOf(p))
    <3>1. p \in s /\ p \in S /\ rest \in SUBSET S
      BY <1>2, <2>2
    <3>2. f[rest] \in Tables(r, M, c)
      BY <2>2
    <3>3. M \in SUBSET DOMAIN c
      OBVIOUS
    <3>4. M \cap N = {}
      <4>1. \A k \in part(rest) : k.site # SiteOf(p)
        BY <1>1, <3>1
      <4>2. QED
        BY <4>1 DEF AtSite
    <3>5. K \cup part(s) = M \cup N
      BY <3>1 DEF AtSite
    <3>6. f[rest] \in SUBSET RecordsOf({r})
      <4> HIDE DEF M, rest
      <4>1. QED
        BY <3>2 DEF Tables
    <3>7. f[s] = add(p, f[rest])
      BY <1>5, <2>2, <3>6
    <3> HIDE DEF p, rest, M, add, part
    <3>8. add(p, f[rest]) \in Tables(r, M \cup N, c)
      BY <1>4, <3>1, <3>2, <3>3, <3>4
    <3>9. QED
      BY <3>5, <3>7, <3>8
  <2>3. IsFiniteSet(S)
    BY <1>1
  <2> HIDE DEF pick, Good
  <2>4. \A s \in SUBSET S : s \in Good
    BY <1>2, <2>1, <2>2, <2>3, SubsetInduction
  <2>5. QED
    BY <2>4 DEF Good
<1> HIDE DEF add
<1>6. \E f : IsFold(f)
  <2>1. PICK f : FoldOf(f, S, T, pick, step)
    <3> HIDE DEF pick, step
    <3>1. QED
      BY <1>1, <1>2, FoldExists
  <2>2. f[{}] = T /\ \A s \in SUBSET S : s # {} => f[s] = step[pick[s]][f[s \ {pick[s]}]]
    BY <2>1 DEF FoldOf
  <2>3. Folds(f)
    BY <1>2, <2>2
  <2>4. \A s \in SUBSET S : f[s] \in Tables(r, K \cup part(s), c)
    <3> HIDE DEF Folds, part
    <3>1. QED
      BY <1>5, <2>3
  <2>5. ASSUME NEW s \in SUBSET S
        PROVE  f[s] = IF s = {} THEN T ELSE add(pick[s], f[s \ {pick[s]}])
    <3>1. CASE s # {}
      <4> DEFINE rest == s \ {pick[s]}
      <4>1. rest \in SUBSET S
        OBVIOUS
      <4> HIDE DEF rest
      <4>2. f[rest] \in SUBSET RecordsOf({r})
        <5>1. f[rest] \in Tables(r, K \cup part(rest), c)
          BY <2>4, <4>1
        <5> HIDE DEF part
        <5>2. QED
          BY <5>1 DEF Tables
      <4>3. QED
        BY <2>3, <3>1, <4>2 DEF rest
    <3>2. QED
      BY <2>2, <3>1
  <2>6. f = [s \in SUBSET S |-> f[s]]
    BY <2>1 DEF FoldOf
  <2> DEFINE body(s) == IF s = {} THEN T
                        ELSE LET p == CHOOSE p \in s : TRUE IN add(p, f[s \ {p}])
  <2>7. \A s \in SUBSET S : f[s] = body(s)
    BY <2>5
  <2>8. f = [s \in SUBSET S |-> body(s)]
    <3> HIDE DEF body
    <3>1. QED
      BY <2>6, <2>7
  <2>9. QED
    BY <2>8
<1> DEFINE fold == CHOOSE f : IsFold(f)
<1>7. IsFold(fold)
  <2> HIDE DEF IsFold
  <2>1. QED
    BY <1>6
<1>8. MergedThread(T, S) = fold[S]
  BY DEF MergedThread, FoldSet, MapThenFoldSet, add, cleared
<1> HIDE DEF fold
<1>9. fold[{}] = T /\ \A s \in SUBSET S : s # {} => fold[s] = add(pick[s], fold[s \ {pick[s]}])
  BY <1>7
<1>10. fold[S] \in Tables(r, K \cup part(S), c)
  <2>1. Folds(fold)
    BY <1>9
  <2> HIDE DEF Folds, part
  <2>2. QED
    BY <1>5, <2>1
<1>11. part(S) = L
  BY <1>1
<1>12. QED
  BY <1>8, <1>10, <1>11
-----------------------------------------------------------------------------
(***************************************************************************)
(* The inductive invariant.                                                *)
(***************************************************************************)
CallsIn(r, t) == {k \in Counted : k.rank = r /\ k.thread = t}
CallsBy(r) == {k \in Counted : k.rank = r}

(* The tables of the threads have the calls made since the last reset, and *)
(* those of the ranks, from the begin to the end of a report, too.         *)
RecordsKnown ==
    /\ setup \in Setups /\ calls \in Bags
    /\ \A k \in DOMAIN calls : k.thread \in ThreadsUsed(k.rank)
    /\ table = [r \in Ranks |-> [t \in Threads[r] |-> table[r][t]]]
    /\ \A r \in Ranks : \A t \in Threads[r] : table[r][t] \in Tables(r, CallsIn(r, t), calls)
    /\ rank = [r \in Ranks |-> rank[r]]
    /\ ctl.pc # "run" => \A r \in Ranks : rank[r] \in Tables(r, CallsBy(r), calls)

(* What the debug information says of a program counter and of a stack. *)
Answer(pc) == IF pc \in DOMAIN Location THEN Normal(Location[pc]) ELSE Unknown
Answers(D) == [pc \in D |-> Answer(pc)]
SourceOf(pc) == [i \in DOMAIN pc |-> IF setup.lookup THEN Answer(pc[i]) ELSE Unknown]
EntryOf(n) == [id |-> n.id, op |-> n.site.op, pc |-> n.site.pc, src |-> SourceOf(n.site.pc)]

(* The caches have what was named since the last reset.  Without stacks a  *)
(* callsite is an operation, and has its number.                           *)
NamesKnown ==
    /\ named \subseteq [site : Sites, id : Nat] /\ IsFiniteSet(named) /\ IsFiniteSet(srcs)
    /\ counter \in Nat
    /\ \A n \in named : \E k \in Counted : k.site = n.site
    /\ setup.lookup => DOMAIN pcs \subseteq Nat /\ pcs = Answers(DOMAIN pcs)
    /\ setup.depth = 0 => /\ \A n \in named : n.id = n.site.op
                          /\ {e.id : e \in srcs} = {n.id : n \in named}
    /\ setup.depth > 0 => /\ \A m, n \in named : m.site = n.site <=> m.id = n.id
                          /\ \A n \in named : n.id < counter
                          /\ srcs = {EntryOf(n) : n \in named}

(* Where the report stands: a call that was made since the last reset has  *)
(* its callsite named before anything is printed.                          *)
ReportKnown ==
    /\ ctl = [pc |-> ctl.pc, pending |-> ctl.pending, from |-> ctl.from,
              style |-> ctl.style, styles |-> ctl.styles]
    /\ ctl.pc \in {"run", "merge", "publish", "print", "collective"}
    /\ ctl.pending \subseteq UNION {rank[r] : r \in Ranks}
    /\ ctl.pending # {} => ctl.pc = "merge"
    /\ ctl.pc \in {"merge", "publish"} => DOMAIN printed = {}
    /\ ctl.pc # "run" \/ DOMAIN printed # {} =>
          \A k \in Counted : \/ \E n \in named : n.site = k.site
                             \/ \E p \in ctl.pending : SiteOf(p) = k.site
    /\ \A style \in DOMAIN printed :
          /\ "sites" \in DOMAIN printed[style]
          /\ printed[style].sites = IF setup.detail THEN CallsiteRows(srcs, setup) ELSE Absent

(* Where the ranks stand in a collective section. *)
PlacesKnown ==
    \E l : /\ loc = [r \in Ranks |-> l]
           /\ l = [at |-> l.at, n |-> l.n, i |-> l.i, ac |-> l.ac]
           /\ ctl.pc = "collective" =>
                 l.at = "end" \/ (l.at \in {"gate", "malloc", "count", "total", "record", "rows"}
                                  /\ l.n \in 1 .. 4)

(* What the collector has merged. *)
IsGlobal(h) ==
    h = [stats |-> h.stats, agg |-> h.agg, ops |-> h.ops, covRoom |-> h.covRoom,
         task |-> h.task, total |-> h.total, large |-> h.large,
         sentCount |-> h.sentCount, timeSites |-> h.timeSites, app |-> h.app]

MergedKnown ==
    /\ IsGlobal(g)
    /\ g.stats \subseteq RecordsOf(Ranks)
    /\ ctl.pc # "run" => \A p \in g.stats : \E n \in named : n.id = p.csid
    /\ g.covRoom \subseteq Nat \X Ranks \X Seq(Nat) \X Operations
    /\ ~setup.cov => g.covRoom = {}
    /\ setup.depth > 0 => \A c, d \in g.covRoom : c[1] = d[1] => c[3] = d[3] /\ c[4] = d[4]
    /\ ctl.pc = "merge" =>
          \A c \in g.covRoom : [site |-> [op |-> c[4], pc |-> c[3]], id |-> c[1]] \in named

ReportInv == RecordsKnown /\ NamesKnown /\ ReportKnown /\ PlacesKnown /\ MergedKnown
-----------------------------------------------------------------------------
(***************************************************************************)
(* What a report begins with.                                              *)
(***************************************************************************)
LEMMA CallFacts ==
    ASSUME RecordsKnown
    PROVE  /\ setup \in Setups /\ setup.threshold \in Int /\ setup.depth \in Nat
           /\ calls \in Bags /\ DOMAIN calls \subseteq CallSet /\ IsFiniteSet(DOMAIN calls)
           /\ Counted \subseteq DOMAIN calls
           /\ \A r : CallsBy(r) \in SUBSET DOMAIN calls
           /\ \A r, t : CallsIn(r, t) \in SUBSET DOMAIN calls
<1>1. setup \in Setups /\ calls \in Bags
  BY DEF RecordsKnown
<1>2. setup.threshold \in Int /\ setup.depth \in Nat
  BY <1>1, CallsAssumption
<1>3. DOMAIN calls \subseteq CallSet /\ IsFiniteSet(DOMAIN calls)
  BY <1>1 DEF Bags
<1>4. Counted \subseteq DOMAIN calls
  BY DEF Counted
<1>5. QED
  BY <1>1, <1>2, <1>3, <1>4 DEF CallsBy, CallsIn

(* Thread after thread, the records of a rank come to have all its calls. *)
LEMMA MergedRankTable ==
    ASSUME RecordsKnown, NEW r \in Ranks
    PROVE  MergedThreads(r) \in Tables(r, CallsBy(r), calls)
<1> DEFINE S == Threads[r]
           add(t, acc) == MergedThread(acc, table[r][t])
           part(s) == {k \in CallsBy(r) : k.thread \in s}
           pick == [s \in SUBSET S |-> CHOOSE t \in s : TRUE]
           step == [t \in S |-> [acc \in SUBSET RecordsOf({r}) |-> add(t, acc)]]
           IsFold(f) == f = [s \in SUBSET S |-> IF s = {} THEN {}
                                ELSE LET t == CHOOSE t \in s : TRUE IN add(t, f[s \ {t}])]
<1>1. IsFiniteSet(S) /\ Main \in S
  BY CallsAssumption
<1>2. \A t \in S : table[r][t] \in Tables(r, CallsIn(r, t), calls)
  BY DEF RecordsKnown
<1>3. \A k \in CallsBy(r) : k.thread \in ThreadsUsed(r)
  BY DEF RecordsKnown, CallsBy, Counted
<1>4. \A s \in SUBSET S : s # {} => pick[s] \in s
  OBVIOUS
<1>5. ASSUME NEW t \in S, NEW M \in SUBSET DOMAIN calls, NEW acc \in Tables(r, M, calls),
             M \cap CallsIn(r, t) = {}
      PROVE  add(t, acc) \in Tables(r, M \cup CallsIn(r, t), calls)
  <2> DEFINE N == CallsIn(r, t)
             new == table[r][t]
  <2>1. N \in SUBSET DOMAIN calls /\ calls \in Bags
    BY CallFacts
  <2>2. new \in Tables(r, N, calls) /\ M \cap N = {}
    BY <1>2, <1>5
  <2> HIDE DEF N, new
  <2>3. MergedThread(acc, new) \in Tables(r, M \cup N, calls)
    BY <2>1, <2>2, MergedThreadTable
  <2>4. QED
    BY <2>3 DEF N, new
<1> DEFINE Folds(f) ==
              /\ f[{}] = {}
              /\ \A s \in SUBSET S : s # {} /\ f[s \ {pick[s]}] \in SUBSET RecordsOf({r})
                                       => f[s] = add(pick[s], f[s \ {pick[s]}])
<1>6. ASSUME NEW f, Folds(f)
      PROVE  \A s \in SUBSET S : f[s] \in Tables(r, part(s), calls)
  <2> DEFINE Good == {s \in SUBSET S : f[s] \in Tables(r, part(s), calls)}
  <2>1. {} \in Good
    <3>1. part({}) = {} /\ f[{}] = {}
      BY <1>6
    <3>2. f[{}] \in Tables(r, {}, calls)
      BY <3>1, EmptyTable
    <3>3. QED
      BY <3>1, <3>2
  <2>2. ASSUME NEW s \in SUBSET S, s # {}, s \ {pick[s]} \in Good
        PROVE  s \in Good
    <3> DEFINE t == pick[s]
               rest == s \ {t}
               M == part(rest)
               N == CallsIn(r, t)
    <3>1. t \in s /\ t \in S /\ rest \in SUBSET S
      BY <1>4, <2>2
    <3>2. f[rest] \in Tables(r, M, calls)
      BY <2>2
    <3>3. M \in SUBSET DOMAIN calls
      <4>1. CallsBy(r) \in SUBSET DOMAIN calls
        BY CallFacts
      <4>2. QED
        BY <4>1
    <3>4. M \cap N = {}
      BY DEF CallsIn
    <3>5. part(s) = M \cup N
      BY <3>1 DEF CallsIn, CallsBy
    <3>6. f[rest] \in SUBSET RecordsOf({r})
      <4> HIDE DEF M, rest
      <4>1. QED
        BY <3>2 DEF Tables
    <3>7. f[s] = add(t, f[rest])
      BY <1>6, <2>2, <3>6
    <3> HIDE DEF t, rest, M, add, part
    <3>8. add(t, f[rest]) \in Tables(r, M \cup N, calls)
      BY <1>5, <3>1, <3>2, <3>3, <3>4
    <3>9. QED
      BY <3>5, <3>7, <3>8
  <2> HIDE DEF pick, Good, S
  <2>3. \A s \in SUBSET S : s \in Good
    BY <1>1, <1>4, <2>1, <2>2, SubsetInduction
  <2>4. QED
    BY <2>3 DEF Good
<1> HIDE DEF add
<1>7. \E f : IsFold(f)
  <2>1. PICK f : FoldOf(f, S, {}, pick, step)
    <3> HIDE DEF pick, step
    <3>1. QED
      BY <1>1, <1>4, FoldExists
  <2>2. f[{}] = {} /\ \A s \in SUBSET S : s # {} => f[s] = step[pick[s]][f[s \ {pick[s]}]]
    BY <2>1 DEF FoldOf
  <2>3. Folds(f)
    BY <1>4, <2>2
  <2>4. \A s \in SUBSET S : f[s] \in Tables(r, part(s), calls)
    <3> HIDE DEF Folds, part
    <3>1. QED
      BY <1>6, <2>3
  <2>5. ASSUME NEW s \in SUBSET S
        PROVE  f[s] = IF s = {} THEN {} ELSE add(pick[s], f[s \ {pick[s]}])
    <3>1. CASE s # {}
      <4> DEFINE rest == s \ {pick[s]}
      <4>1. rest \in SUBSET S
        OBVIOUS
      <4> HIDE DEF rest
      <4>2. f[rest] \in SUBSET RecordsOf({r})
        <5>1. f[rest] \in Tables(r, part(rest), calls)
          BY <2>4, <4>1
        <5> HIDE DEF part
        <5>2. QED
          BY <5>1 DEF Tables
      <4>3. QED
        BY <2>3, <3>1, <4>2 DEF rest
    <3>2. QED
      BY <2>2, <3>1
  <2>6. f = [s \in SUBSET S |-> f[s]]
    BY <2>1 DEF FoldOf
  <2> DEFINE body(s) == IF s = {} THEN {}
                        ELSE LET t == CHOOSE t \in s : TRUE IN add(t, f[s \ {t}])
  <2>7. \A s \in SUBSET S : f[s] = body(s)
    BY <2>5
  <2>8. f = [s \in SUBSET S |-> body(s)]
    <3> HIDE DEF body
    <3>1. QED
      BY <2>6, <2>7
  <2>9. QED
    BY <2>8
<1> DEFINE fold == CHOOSE f : IsFold(f)
<1>8. IsFold(fold)
  <2> HIDE DEF IsFold
  <2>1. QED
    BY <1>7
<1>9. CASE setup.mode = "st"
  <2>1. MergedThreads(r) = table[r][Main]
    BY <1>9 DEF MergedThreads
  <2>2. CallsBy(r) = CallsIn(r, Main)
    BY <1>3, <1>9 DEF CallsBy, CallsIn, ThreadsUsed
  <2>3. QED
    BY <1>1, <1>2, <2>1, <2>2
<1>10. CASE setup.mode # "st"
  <2>1. MergedThreads(r) = fold[S]
    BY <1>10 DEF MergedThreads, FoldSet, MapThenFoldSet, add
  <2> HIDE DEF fold
  <2>2. fold[{}] = {} /\ \A s \in SUBSET S : s # {} => fold[s] = add(pick[s], fold[s \ {pick[s]}])
    BY <1>8
  <2>3. fold[S] \in Tables(r, part(S), calls)
    <3>1. Folds(fold)
      BY <2>2
    <3> HIDE DEF Folds, part
    <3>2. QED
      BY <1>6, <3>1
  <2>4. part(S) = CallsBy(r)
    BY <1>1, <1>3 DEF ThreadsUsed
  <2>5. QED
    BY <2>1, <2>3, <2>4
<1>11. QED
  BY <1>9, <1>10
-----------------------------------------------------------------------------
(***************************************************************************)
(* Names.                                                                  *)
(***************************************************************************)
(* After a query of each frame of a stack the cache answers for all.       *)
LEMMA QueriedStack ==
    ASSUME setup.lookup, NEW D \in SUBSET Nat, NEW stack \in Seq(Nat)
    PROVE  FoldSeq(LAMBDA pc, c : QueryPc(c, pc, setup.lookup), Answers(D), stack)
              = Answers(D \cup {stack[i] : i \in DOMAIN stack})
<1> DEFINE S == DOMAIN stack
           base == Answers(D)
           add(pc, c) == QueryPc(c, pc, setup.lookup)
           part(s) == {stack[i] : i \in s}
           pick == [s \in SUBSET S |-> CHOOSE i \in s : TRUE]
           Caches == {Answers(E) : E \in SUBSET Nat}
           step == [i \in S |-> [c \in Caches |-> add(stack[i], c)]]
           IsFold(f) == f = [s \in SUBSET S |-> IF s = {} THEN base
                                ELSE LET i == CHOOSE i \in s : TRUE
                                     IN add(stack[i], f[s \ {i}])]
<1>1. IsFiniteSet(S) /\ \A i \in S : stack[i] \in Nat
  <2>1. DOMAIN stack = 1 .. Len(stack) /\ Len(stack) \in Nat
    OBVIOUS
  <2>2. IsFiniteSet(1 .. Len(stack))
    BY <2>1, FS_Interval
  <2>3. \A i \in DOMAIN stack : stack[i] \in Nat
    OBVIOUS
  <2>4. QED
    BY <2>1, <2>2, <2>3
<1>2. \A s \in SUBSET S : s # {} => pick[s] \in s
  OBVIOUS
<1>3. ASSUME NEW E \in SUBSET Nat, NEW pc \in Nat
      PROVE  add(pc, Answers(E)) = Answers(E \cup {pc})
  <2>1. DOMAIN Answers(E) = E /\ \A x \in E : Answers(E)[x] = Answer(x)
    BY DEF Answers
  <2>2. CASE pc \in E
    <3>1. E \cup {pc} = E
      BY <2>2
    <3>2. QED
      BY <2>1, <2>2, <3>1 DEF QueryPc
  <2>3. CASE pc \notin E
    <3>1. add(pc, Answers(E)) =
             [x \in E \cup {pc} |-> IF x \in E THEN Answers(E)[x]
                                    ELSE IF setup.lookup /\ pc \in DOMAIN Location
                                         THEN Normal(Location[pc]) ELSE Unknown]
      BY <2>1, <2>3 DEF QueryPc
    <3>2. (IF setup.lookup /\ pc \in DOMAIN Location THEN Normal(Location[pc]) ELSE Unknown)
             = Answer(pc)
      BY DEF Answer
    <3>3. add(pc, Answers(E)) = [x \in E \cup {pc} |-> IF x \in E THEN Answers(E)[x] ELSE Answer(pc)]
      BY <3>1, <3>2
    <3>4. \A x \in E \cup {pc} : (IF x \in E THEN Answers(E)[x] ELSE Answer(pc)) = Answer(x)
      BY <2>1
    <3> DEFINE value(x) == IF x \in E THEN Answers(E)[x] ELSE Answer(pc)
    <3>5. add(pc, Answers(E)) = [x \in E \cup {pc} |-> value(x)]
      BY <3>3
    <3>6. \A x \in E \cup {pc} : value(x) = Answer(x)
      BY <3>4
    <3> HIDE DEF value, add
    <3>7. QED
      BY <3>5, <3>6 DEF Answers
  <2>4. QED
    BY <2>2, <2>3
<1> HIDE DEF add
<1> DEFINE Folds(f) ==
              /\ f[{}] = base
              /\ \A s \in SUBSET S : s # {} /\ f[s \ {pick[s]}] \in Caches
                                       => f[s] = add(stack[pick[s]], f[s \ {pick[s]}])
<1>4. ASSUME NEW f, Folds(f)
      PROVE  \A s \in SUBSET S : f[s] = Answers(D \cup part(s))
  <2> DEFINE Good == {s \in SUBSET S : f[s] = Answers(D \cup part(s))}
  <2>1. {} \in Good
    <3>1. D \cup part({}) = D
      OBVIOUS
    <3>2. QED
      BY <1>4, <3>1
  <2>2. ASSUME NEW s \in SUBSET S, s # {}, s \ {pick[s]} \in Good
        PROVE  s \in Good
    <3> DEFINE i == pick[s]
               rest == s \ {i}
               E == D \cup part(rest)
    <3>1. i \in s /\ stack[i] \in Nat
      BY <1>1, <1>2, <2>2
    <3>2. f[rest] = Answers(E) /\ E \in SUBSET Nat
      <4>1. \A j \in rest : j \in S
        BY <2>2
      <4>2. part(rest) \in SUBSET Nat
        <5> HIDE DEF rest, S
        <5>1. QED
          BY <1>1, <4>1
      <4>3. rest \in Good
        BY <2>2
      <4>4. f[rest] = Answers(E)
        BY <4>3
      <4> HIDE DEF rest, part, Good
      <4>5. QED
        BY <4>2, <4>4
    <3>3. f[s] = add(stack[i], f[rest])
      BY <1>4, <2>2, <3>2, ZenonT(60)
    <3>4. D \cup part(s) = E \cup {stack[i]}
      BY <3>1
    <3> HIDE DEF i, rest, E, part
    <3>5. f[s] = Answers(E \cup {stack[i]})
      BY <1>3, <3>1, <3>2, <3>3
    <3>6. QED
      BY <3>4, <3>5
  <2> HIDE DEF pick, Good, S
  <2>3. \A s \in SUBSET S : s \in Good
    BY <1>1, <1>2, <2>1, <2>2, SubsetInduction
  <2>4. QED
    BY <2>3 DEF Good
<1>5. \E f : IsFold(f)
  <2>1. PICK f : FoldOf(f, S, base, pick, step)
    <3> HIDE DEF pick, step, base, S
    <3>1. QED
      BY <1>1, <1>2, FoldExists
  <2>2. f[{}] = base /\ \A s \in SUBSET S : s # {} => f[s] = step[pick[s]][f[s \ {pick[s]}]]
    BY <2>1 DEF FoldOf
  <2>3. Folds(f)
    <3> HIDE DEF base, Caches
    <3>1. QED
      BY <1>2, <2>2
  <2>4. \A s \in SUBSET S : f[s] \in Caches
    <3>1. \A s \in SUBSET S : f[s] = Answers(D \cup part(s))
      <4> HIDE DEF Folds, part
      <4>1. QED
        BY <1>4, <2>3
    <3>2. \A s \in SUBSET S : D \cup part(s) \in SUBSET Nat
      BY <1>1
    <3> HIDE DEF part
    <3>3. QED
      BY <3>1, <3>2
  <2>5. ASSUME NEW s \in SUBSET S
        PROVE  f[s] = IF s = {} THEN base ELSE add(stack[pick[s]], f[s \ {pick[s]}])
    <3> HIDE DEF base, Caches
    <3>1. CASE s # {}
      <4>1. f[s \ {pick[s]}] \in Caches
        BY <2>4
      <4>2. QED
        BY <2>3, <3>1, <4>1
    <3>2. QED
      BY <2>2, <3>1
  <2>6. f = [s \in SUBSET S |-> f[s]]
    BY <2>1 DEF FoldOf
  <2> DEFINE body(s) == IF s = {} THEN base
                        ELSE LET i == CHOOSE i \in s : TRUE IN add(stack[i], f[s \ {i}])
  <2>7. \A s \in SUBSET S : f[s] = body(s)
    BY <2>5
  <2>8. f = [s \in SUBSET S |-> body(s)]
    <3> HIDE DEF body
    <3>1. QED
      BY <2>6, <2>7
  <2>9. QED
    BY <2>8
<1> DEFINE fold == CHOOSE f : IsFold(f)
<1>6. IsFold(fold)
  <2> HIDE DEF IsFold
  <2>1. QED
    BY <1>5
<1>7. FoldSeq(LAMBDA pc, c : QueryPc(c, pc, setup.lookup), base, stack) = fold[S]
  BY DEF FoldSeq, FoldFunction, FoldFunctionOnSet, MapThenFoldSet, add
<1> HIDE DEF fold
<1>8. fold[{}] = base /\ \A s \in SUBSET S : s # {} => fold[s] = add(stack[pick[s]], fold[s \ {pick[s]}])
  BY <1>6
<1>9. fold[S] = Answers(D \cup part(S))
  <2>1. Folds(fold)
    BY <1>8
  <2> HIDE DEF Folds, part
  <2>2. QED
    BY <1>4, <2>1
<1>10. QED
  BY <1>7, <1>9

CacheFor(p) == FoldSeq(LAMBDA pc, c : QueryPc(c, pc, setup.lookup), pcs, p.pc)
KeyFor(p) == SourceKey(p, CacheFor(p), setup.lookup)
FoundFor(p) == QuerySrc(srcs, counter, KeyFor(p), setup.depth)
NameFor(p) == [site |-> SiteOf(p), id |-> FoundFor(p).id]

LEMMA KeyKnown ==
    ASSUME NamesKnown, NEW p \in RecordsOf(Ranks)
    PROVE  /\ setup.lookup => /\ DOMAIN CacheFor(p) \subseteq Nat
                              /\ CacheFor(p) = Answers(DOMAIN CacheFor(p))
           /\ KeyFor(p) = [id |-> p.op, op |-> p.op, pc |-> p.pc, src |-> SourceOf(p.pc)]
<1> DEFINE frames == {p.pc[i] : i \in DOMAIN p.pc}
           D == DOMAIN pcs \cup frames
<1>1. p.pc \in Seq(Nat) /\ frames \subseteq Nat
  <2>1. p.pc \in Seq(Nat)
    BY DEF RecordsOf
  <2>2. \A i \in DOMAIN p.pc : p.pc[i] \in Nat
    BY <2>1
  <2>3. QED
    BY <2>1, <2>2
<1>2. ASSUME setup.lookup
      PROVE  D \subseteq Nat /\ CacheFor(p) = Answers(D)
  <2> DEFINE E == DOMAIN pcs
  <2>1. E \in SUBSET Nat /\ pcs = Answers(E)
    BY <1>2 DEF NamesKnown
  <2>2. CacheFor(p) = FoldSeq(LAMBDA pc, c : QueryPc(c, pc, setup.lookup), Answers(E), p.pc)
    BY <2>1 DEF CacheFor
  <2> HIDE DEF E
  <2>3. CacheFor(p) = Answers(E \cup frames)
    BY <1>1, <1>2, <2>1, <2>2, QueriedStack
  <2>4. QED
    BY <1>1, <2>1, <2>3 DEF E
<1>3. ASSUME setup.lookup
      PROVE  /\ DOMAIN CacheFor(p) \subseteq Nat
             /\ CacheFor(p) = Answers(DOMAIN CacheFor(p))
  <2>1. DOMAIN Answers(D) = D
    BY DEF Answers
  <2> HIDE DEF D
  <2>2. QED
    BY <1>2, <1>3, <2>1
<1>4. KeyFor(p).src = SourceOf(p.pc)
  <2>1. CASE setup.lookup
    <3>1. \A i \in DOMAIN p.pc : CacheFor(p)[p.pc[i]] = Answer(p.pc[i])
      BY <1>2, <2>1 DEF Answers
    <3>2. QED
      BY <2>1, <3>1 DEF KeyFor, SourceKey, SourceOf
  <2>2. CASE ~setup.lookup
    BY <2>2 DEF KeyFor, SourceKey, SourceOf
  <2>3. QED
    BY <2>1, <2>2
<1>5. KeyFor(p) = [id |-> p.op, op |-> p.op, pc |-> p.pc, src |-> KeyFor(p).src]
  BY DEF KeyFor, SourceKey
<1>6. QED
  BY <1>3, <1>4, <1>5

(* Stacks tell callsites apart: a callsite that has a number gets it again, *)
(* another gets the next (mpiPi_query_src).                                 *)
LEMMA NamedByStack ==
    ASSUME NamesKnown, setup.depth > 0, NEW p \in RecordsOf(Ranks), SiteOf(p) \in Sites
    PROVE  /\ NameFor(p) \in [site : Sites, id : Nat]
           /\ \A n \in named : n.site = SiteOf(p) <=> n.id = NameFor(p).id
           /\ FoundFor(p).counter \in Nat /\ counter <= FoundFor(p).counter
           /\ NameFor(p).id < FoundFor(p).counter
           /\ FoundFor(p).srcs = srcs \cup {EntryOf(NameFor(p))}
<1> DEFINE key == KeyFor(p)
           same == {e \in srcs : SameEntry(e, key, setup.depth)}
           new == [key EXCEPT !.id = counter]
           entry == IF same # {} THEN CHOOSE e \in same : TRUE ELSE new
           x == SiteOf(p)
<1>1. /\ named \subseteq [site : Sites, id : Nat] /\ counter \in Nat
      /\ \A m, n \in named : m.site = n.site <=> m.id = n.id
      /\ \A n \in named : n.id < counter
      /\ srcs = {EntryOf(n) : n \in named}
  BY DEF NamesKnown
<1>2. key = [id |-> p.op, op |-> p.op, pc |-> p.pc, src |-> SourceOf(p.pc)]
  BY KeyKnown
<1>3. x \in Sites /\ x.op = p.op /\ x.pc = p.pc
  BY DEF SiteOf
<1> HIDE DEF key, x
<1>4. \A n \in named : SameEntry(EntryOf(n), key, setup.depth) <=> n.site = x
  <2>1. ASSUME NEW n \in named
        PROVE  SameEntry(EntryOf(n), key, setup.depth) <=> n.site.pc = x.pc
    BY <1>2, <1>3 DEF SameEntry, EntryOf
  <2>2. ASSUME NEW n \in named, n.site.pc = x.pc
        PROVE  n.site = x
    <3>1. n.site \in Sites
      BY <1>1
    <3>2. n.site.op = x.op
      BY <1>3, <2>2, <3>1, CallsAssumption DEF Sites
    <3>3. QED
      BY <1>3, <2>2, <3>1, <3>2, SiteFacts
  <2>3. QED
    BY <2>1, <2>2
<1>5. /\ FoundFor(p).id = entry.id /\ FoundFor(p).srcs = srcs \cup {entry}
      /\ FoundFor(p).counter = IF same = {} THEN counter + 1 ELSE counter
  BY DEF FoundFor, QuerySrc, NextNumber, key
<1>6. CASE \E n \in named : n.site = x
  <2>1. PICK n \in named : n.site = x
    BY <1>6
  <2>2. same = {EntryOf(n)}
    <3>1. \A m \in named : m.site = x => m.id = n.id
      BY <1>1, <2>1
    <3>2. \A m \in named : m.site = x => EntryOf(m) = EntryOf(n)
      BY <2>1, <3>1 DEF EntryOf
    <3>3. QED
      BY <1>1, <1>4, <2>1, <3>2
  <2>3. entry = EntryOf(n) /\ entry.id = n.id
    BY <2>2 DEF EntryOf
  <2>4. NameFor(p) = n
    <3>1. n = [site |-> n.site, id |-> n.id]
      BY <1>1
    <3>2. QED
      BY <1>5, <2>1, <2>3, <3>1 DEF NameFor, x
  <2>5. QED
    BY <1>1, <1>5, <2>1, <2>2, <2>3, <2>4 DEF x
<1>7. CASE ~\E n \in named : n.site = x
  <2>1. same = {}
    BY <1>1, <1>4, <1>7
  <2>2. entry = new
    BY <2>1
  <2>3. new = [id |-> counter, op |-> p.op, pc |-> p.pc, src |-> SourceOf(p.pc)]
    BY <1>2
  <2> HIDE DEF entry, new, same
  <2>4. NameFor(p) = [site |-> x, id |-> counter]
    BY <1>5, <2>2, <2>3 DEF NameFor, x
  <2>5. EntryOf(NameFor(p)) = new
    BY <1>3, <2>3, <2>4 DEF EntryOf
  <2>6. FoundFor(p).counter = counter + 1
    BY <1>5, <2>1
  <2>7. \A n \in named : n.site # x /\ n.id # counter
    BY <1>1, <1>7
  <2>8. NameFor(p).id = counter /\ NameFor(p) \in [site : Sites, id : Nat]
    BY <1>1, <1>3, <2>4
  <2>9. QED
    BY <1>1, <1>5, <2>2, <2>5, <2>6, <2>7, <2>8 DEF x
<1>8. QED
  BY <1>6, <1>7

(* Without stacks a callsite is its operation. *)
LEMMA NamedByOperation ==
    ASSUME NamesKnown, setup.depth = 0, NEW p \in RecordsOf(Ranks), SiteOf(p) \in Sites
    PROVE  /\ NameFor(p) \in [site : Sites, id : Nat]
           /\ NameFor(p).id = p.op /\ NameFor(p).site.op = p.op
           /\ FoundFor(p).counter = counter
           /\ {e.id : e \in FoundFor(p).srcs} = {n.id : n \in named} \cup {p.op}
<1> DEFINE key == KeyFor(p)
           same == {e \in srcs : e.id = p.op}
           entry == IF same # {} THEN CHOOSE e \in same : TRUE ELSE key
<1>1. key.id = p.op
  BY KeyKnown
<1>2. /\ FoundFor(p).id = entry.id /\ FoundFor(p).srcs = srcs \cup {entry}
      /\ FoundFor(p).counter = counter
  BY <1>1 DEF FoundFor, QuerySrc, SameEntry
<1>3. entry.id = p.op
  BY <1>1
<1>4. {e.id : e \in srcs} = {n.id : n \in named}
  BY DEF NamesKnown
<1>5. p.op \in Nat
  BY ReportAssumption DEF RecordsOf
<1> HIDE DEF entry
<1>6. QED
  BY <1>2, <1>3, <1>4, <1>5 DEF NameFor, SiteOf
-----------------------------------------------------------------------------
(***************************************************************************)
(* The initial state.                                                      *)
(***************************************************************************)
LEMMA InitInv == Init => ReportInv
<1>1. SUFFICES ASSUME Init
               PROVE  ReportInv
  OBVIOUS
<1>2. DOMAIN calls = {} /\ calls \in Bags /\ Counted = {}
  <2>1. DOMAIN calls = {} /\ calls \in [{} -> Nat \ {0}]
    BY <1>1 DEF Init
  <2>2. calls \in Bags
    BY <2>1, FS_EmptySet DEF Bags
  <2>3. QED
    BY <2>1, <2>2 DEF Counted
<1>3. RecordsKnown
  <2>1. setup \in Setups /\ ctl.pc = "run" /\ rank = [r \in Ranks |-> {}]
    BY <1>1 DEF Init, Running
  <2>2. \A r \in Ranks : \A t \in Threads[r] : table[r][t] = {}
    BY <1>1 DEF Init
  <2>3. table = [r \in Ranks |-> [t \in Threads[r] |-> table[r][t]]]
    <3>1. table = [r \in Ranks |-> [t \in Threads[r] |-> {}]]
      BY <1>1 DEF Init
    <3>2. QED
      BY <3>1
  <2>4. \A r, t : CallsIn(r, t) = {}
    BY <1>2 DEF CallsIn
  <2>5. \A r \in Ranks : \A t \in Threads[r] : table[r][t] \in Tables(r, CallsIn(r, t), calls)
    BY <2>2, <2>4, EmptyTable
  <2>6. rank = [r \in Ranks |-> rank[r]]
    BY <2>1
  <2>7. QED
    BY <1>2, <2>1, <2>3, <2>5, <2>6 DEF RecordsKnown
<1>4. NamesKnown
  <2>1. named = {} /\ srcs = {} /\ counter = 1 /\ pcs = <<>>
    BY <1>1 DEF Init
  <2>2. pcs = Answers(DOMAIN pcs) /\ DOMAIN pcs = {}
    BY <2>1 DEF Answers
  <2>3. QED
    BY <2>1, <2>2, FS_EmptySet DEF NamesKnown
<1>5. ReportKnown
  <2>1. ctl = Running /\ DOMAIN printed = {}
    BY <1>1 DEF Init
  <2>2. QED
    BY <2>1 DEF ReportKnown, Running
<1>6. PlacesKnown
  <2>1. ctl.pc = "run" /\ loc = [r \in Ranks |-> Outside]
    BY <1>1 DEF Init, Running
  <2>2. QED
    BY <2>1 DEF PlacesKnown, Outside
<1>7. MergedKnown
  <2>1. g = GlobalInit /\ ctl.pc = "run"
    BY <1>1 DEF Init, Running
  <2>2. QED
    BY <2>1 DEF MergedKnown, GlobalInit, IsGlobal
<1>8. QED
  BY <1>3, <1>4, <1>5, <1>6, <1>7 DEF ReportInv

(***************************************************************************)
(* What each part of the invariant depends on.                             *)
(***************************************************************************)
LEMMA TablesSame ==
    ASSUME setup' = setup
    PROVE  \A r, K, c : Tables(r, K, c)' = Tables(r, K, c)
<1>1. \A K : LargeOf(K)' = LargeOf(K)
  BY DEF LargeOf
<1>2. \A p, K, c : Represents(p, K, c)' = Represents(p, K, c)
  BY <1>1 DEF Represents
<1>3. \A r, x, id, K, c : RecordsFor(r, x, id, K, c)' = RecordsFor(r, x, id, K, c)
  BY <1>2 DEF RecordsFor
<1>4. QED
  BY <1>3 DEF Tables

LEMMA RecordsSame ==
    ASSUME RecordsKnown, UNCHANGED <<setup, calls, table, rank>>,
           ctl'.pc # "run" => ctl.pc # "run"
    PROVE  RecordsKnown'
<1>1. \A r, K, c : Tables(r, K, c)' = Tables(r, K, c)
  BY TablesSame
<1>2. Counted' = Counted
  BY DEF Counted
<1>3. QED
  BY <1>1, <1>2 DEF RecordsKnown, CallsIn, CallsBy, ThreadsUsed

LEMMA NamesSame ==
    ASSUME NamesKnown, UNCHANGED <<setup, calls, named, counter, pcs, srcs>>
    PROVE  NamesKnown'
<1>1. Counted' = Counted
  BY DEF Counted
<1>2. \A n : EntryOf(n)' = EntryOf(n)
  BY DEF EntryOf, SourceOf
<1>3. \A D : Answers(D)' = Answers(D)
  BY DEF Answers, Answer
<1>4. QED
  BY <1>1, <1>2, <1>3 DEF NamesKnown

LEMMA PlacesSame ==
    ASSUME PlacesKnown, UNCHANGED loc, ctl'.pc = "collective" => ctl.pc = "collective"
    PROVE  PlacesKnown'
  BY DEF PlacesKnown

LEMMA MergedSame ==
    ASSUME MergedKnown, UNCHANGED <<setup, g, named>>,
           ctl'.pc # "run" => ctl.pc # "run", ctl'.pc = "merge" => ctl.pc = "merge"
    PROVE  MergedKnown'
  BY DEF MergedKnown

LEMMA SameSection ==
    ASSUME UNCHANGED <<setup, srcs>>
    PROVE  (IF setup.detail THEN CallsiteRows(srcs, setup) ELSE Absent)'
              = IF setup.detail THEN CallsiteRows(srcs, setup) ELSE Absent
  OBVIOUS

LEMMA ReportSame ==
    ASSUME ReportKnown, UNCHANGED <<setup, ctl, rank, printed, calls, named, srcs>>
    PROVE  ReportKnown'
<1>1. Counted' = Counted
  BY DEF Counted
<1>2. QED
  BY <1>1, SameSection DEF ReportKnown

LEMMA UnchangedInv == ReportInv /\ UNCHANGED vars => ReportInv'
  BY RecordsSame, NamesSame, ReportSame, PlacesSame, MergedSame
     DEF ReportInv, vars, bounds, tables, ranks, caches

(***************************************************************************)
(* A call.                                                                 *)
(***************************************************************************)
(* A table does not change with a call that it does not have. *)
LEMMA SameTable ==
    ASSUME NEW c \in Bags, NEW k \in CallSet, NEW r, NEW K \in SUBSET DOMAIN c, k \notin K,
           NEW T \in Tables(r, K, c)
    PROVE  T \in Tables(r, K, More(c, k))
<1> DEFINE d == More(c, k)
<1>1. ASSUME NEW p \in T
      PROVE  p \in RecordsFor({r}, SiteOf(p), 0, AtSite(K, SiteOf(p)), d)
  <2> DEFINE L == AtSite(K, SiteOf(p))
             R == {r}
             x == SiteOf(p)
  <2>1. L \in SUBSET DOMAIN c /\ k \notin L
    BY DEF AtSite
  <2>2. p \in RecordsFor(R, x, 0, L, c)
    BY DEF Tables
  <2> HIDE DEF L, R, x, d
  <2>3. p \in RecordsFor(R, x, 0, L, d)
    BY <2>1, <2>2, SameRecord DEF d
  <2>4. QED
    BY <2>3 DEF L, R, x
<1> HIDE DEF d
<1>2. QED
  BY <1>1 DEF Tables, d

LEMMA CallInv ==
    ASSUME ReportInv, NEW r \in Ranks, NEW t \in ThreadsUsed(r), NEW j \in Kinds,
           Call(r, t, j.site, j.amount)
    PROVE  ReportInv'
<1> DEFINE k == [rank |-> r, thread |-> t, site |-> j.site, amount |-> j.amount]
<1>0. /\ RecordsKnown /\ NamesKnown /\ ReportKnown /\ PlacesKnown /\ MergedKnown
      /\ UNCHANGED <<setup, rank, pcs, srcs, counter, named, g, ctl, loc>>
      /\ printed' = <<>> /\ ctl.pc = "run"
  BY DEF ReportInv, Call, ranks, caches
<1>1. k \in CallSet /\ k.rank = r /\ k.thread = t /\ k.site = j.site /\ k.amount = j.amount
  <2>1. j.site \in Sites /\ j.amount \in [Fields -> 0 .. Large]
    BY CallsAssumption DEF Sites
  <2>2. t \in UNION {Threads[q] : q \in Ranks}
    <3>1. Main \in Threads[r]
      BY CallsAssumption
    <3>2. t \in Threads[r]
      BY <3>1 DEF ThreadsUsed
    <3>3. QED
      BY <3>2
  <2>3. QED
    BY <2>1, <2>2 DEF CallSet
<1>2. calls' = More(calls, k)
  BY DEF Call, Counting, More
<1> HIDE DEF k
<1>3. calls \in Bags /\ setup.threshold \in Int /\ setup \in Setups
  BY <1>0, CallFacts
<1>4. calls' \in Bags /\ DOMAIN calls' = DOMAIN calls \cup {k}
  BY <1>1, <1>2, <1>3, MoreBag
<1>5. Counted' = IF Profiled(r) THEN Counted \cup {k} ELSE Counted
  BY <1>0, <1>1, <1>4 DEF Counted, Profiled
<1>6. ASSUME NEW q \in Ranks, NEW u \in Threads[q]
      PROVE  table'[q][u] \in Tables(q, CallsIn(q, u)', calls')
  <2> DEFINE T == table[q][u]
             K == CallsIn(q, u)
  <2>1. T \in Tables(q, K, calls)
    BY <1>0 DEF RecordsKnown
  <2>2. K \in SUBSET DOMAIN calls
    BY <1>0, CallFacts
  <2>3. table = [o \in Ranks |-> [v \in Threads[o] |-> table[o][v]]]
    BY <1>0 DEF RecordsKnown
  <2>4. CASE Profiled(r) /\ q = r /\ u = t
    <3>1. CallsIn(q, u)' = K \cup {k}
      BY <1>1, <1>5, <2>4 DEF CallsIn
    <3>2. table'[q][u] = Recorded(T, k.rank, k.site, k.amount)
      <4>1. table' = [table EXCEPT ![r][t] = Recorded(@, r, j.site, j.amount)]
        BY <2>4 DEF Call
      <4>2. QED
        BY <1>1, <2>3, <2>4, <4>1
    <3>3. k \in DOMAIN calls => k \in K
      BY <1>0, <1>1, <2>4 DEF CallsIn, Counted, Profiled
    <3>4. T \in Tables(k.rank, K, calls)
      BY <1>1, <2>1, <2>4
    <3> HIDE DEF T, K
    <3>5. Recorded(T, k.rank, k.site, k.amount) \in Tables(k.rank, K \cup {k}, More(calls, k))
      BY <1>1, <1>3, <2>2, <3>3, <3>4, RecordedTable
    <3>6. QED
      BY <1>1, <1>2, <2>4, <3>1, <3>2, <3>5
  <2>5. CASE ~(Profiled(r) /\ q = r /\ u = t)
    <3>1. CallsIn(q, u)' = K /\ k \notin K
      BY <1>1, <1>5, <2>5 DEF CallsIn, Counted, Profiled
    <3>2. table'[q][u] = T
      BY <2>3, <2>5 DEF Call
    <3> HIDE DEF T, K
    <3>3. T \in Tables(q, K, More(calls, k))
      BY <1>1, <1>3, <2>1, <2>2, <3>1, SameTable
    <3>4. QED
      BY <1>2, <3>1, <3>2, <3>3
  <2>6. QED
    BY <2>4, <2>5
<1>7. RecordsKnown'
  <2>1. \A q, K, c : Tables(q, K, c)' = Tables(q, K, c)
    BY <1>0, TablesSame
  <2>2. \A q \in Ranks : \A u \in Threads[q] : table'[q][u] \in Tables(q, CallsIn(q, u), calls)'
    BY <1>6, <2>1
  <2>3. \A o \in DOMAIN calls' : o.thread \in ThreadsUsed(o.rank)'
    BY <1>0, <1>1, <1>4 DEF RecordsKnown, ThreadsUsed
  <2>4. table' = [o \in Ranks |-> [v \in Threads[o] |-> table'[o][v]]]
    <3>1. table = [o \in Ranks |-> [v \in Threads[o] |-> table[o][v]]]
      BY <1>0 DEF RecordsKnown
    <3>2. CASE Profiled(r)
      <4>1. PICK new : table' = [table EXCEPT ![r][t] = new]
        BY <3>2 DEF Call
      <4>2. QED
        BY <3>1, <4>1
    <3>3. CASE ~Profiled(r)
      BY <3>1, <3>3 DEF Call
    <3>4. QED
      BY <3>2, <3>3
  <2>5. QED
    BY <1>0, <1>3, <1>4, <2>2, <2>3, <2>4 DEF RecordsKnown
<1>8. NamesKnown'
  <2>1. \A n : EntryOf(n)' = EntryOf(n)
    BY <1>0 DEF EntryOf, SourceOf
  <2>2. \A D : Answers(D)' = Answers(D)
    BY DEF Answers, Answer
  <2>3. Counted \subseteq Counted'
    BY <1>5
  <2>4. QED
    BY <1>0, <2>1, <2>2, <2>3 DEF NamesKnown
<1>9. ReportKnown'
  <2>1. DOMAIN printed' = {}
    BY <1>0
  <2>2. QED
    BY <1>0, <2>1 DEF ReportKnown
<1>10. QED
  BY <1>0, <1>7, <1>8, <1>9, PlacesSame, MergedSame DEF ReportInv

(***************************************************************************)
(* A report begins.                                                        *)
(***************************************************************************)
(* The records of a rank are those of callsites that it has called, and of *)
(* each that it has called there is one.                                   *)
LEMMA RankRecords ==
    ASSUME RecordsKnown, NEW r \in Ranks, NEW T \in Tables(r, CallsBy(r), calls)
    PROVE  /\ T \subseteq RecordsOf(Ranks)
           /\ \A p \in T : \E k \in Counted : k.rank = r /\ k.site = SiteOf(p)
           /\ \A p \in T : p.rank = r /\ SiteOf(p) \in Sites
           /\ \A k \in Counted : k.rank = r => \E p \in T : SiteOf(p) = k.site
<1>1. /\ T \in SUBSET RecordsOf({r})
      /\ \A p \in T : AtSite(CallsBy(r), SiteOf(p)) # {}
      /\ \A k \in CallsBy(r) : \E p \in T : SiteOf(p) = k.site
  BY DEF Tables
<1>2. \A p \in T : p \in RecordsOf(Ranks) /\ p.rank = r
  BY <1>1 DEF RecordsOf
<1>3. \A p \in T : \E k \in Counted : k.rank = r /\ k.site = SiteOf(p)
  BY <1>1 DEF AtSite, CallsBy
<1>4. \A k \in Counted : k.site \in Sites
  <2>1. Counted \subseteq CallSet
    BY CallFacts
  <2>2. QED
    BY <2>1 DEF CallSet
<1>5. QED
  BY <1>1, <1>2, <1>3, <1>4 DEF CallsBy

LEMMA ReportStepInv ==
    ASSUME ReportInv, NEW style, Report(style)
    PROVE  ReportInv'
<1> DEFINE all == UNION {MergedThreads(r) : r \in Ranks}
<1>0. /\ RecordsKnown /\ NamesKnown /\ ReportKnown /\ PlacesKnown /\ MergedKnown
      /\ UNCHANGED <<setup, table, pcs, srcs, counter, named, loc, calls>>
      /\ printed' = <<>> /\ ctl.pc = "run" /\ rank' = [r \in Ranks |-> MergedThreads(r)]
  BY DEF ReportInv, Report, tables, caches
<1>1. \A r \in Ranks : MergedThreads(r) \in Tables(r, CallsBy(r), calls)
  BY <1>0, MergedRankTable
<1>2. Counted' = Counted /\ DOMAIN printed' = {}
  BY <1>0 DEF Counted
<1>3. RecordsKnown'
  <2>1. \A r, K, c : Tables(r, K, c)' = Tables(r, K, c)
    BY <1>0, TablesSame
  <2>2. \A r \in Ranks : rank'[r] \in Tables(r, CallsBy(r), calls)'
    BY <1>0, <1>1, <1>2, <2>1 DEF CallsBy
  <2>3. rank' = [r \in Ranks |-> rank'[r]]
    BY <1>0
  <2>4. QED
    BY <1>0, <1>2, <2>1, <2>2, <2>3 DEF RecordsKnown, CallsIn, ThreadsUsed
<1>4. NamesKnown'
  BY <1>0, NamesSame
<1>5. CASE all = {}
  <2>1. UNCHANGED <<ctl, g>>
    BY <1>5 DEF Report
  <2>2. ReportKnown'
    BY <1>0, <1>2, <2>1 DEF ReportKnown
  <2>3. QED
    BY <1>0, <1>3, <1>4, <2>1, <2>2, PlacesSame, MergedSame DEF ReportInv
<1>6. CASE all # {}
  <2>1. /\ ctl' = [Running EXCEPT !.pc = "merge", !.pending = all, !.style = style]
        /\ g' = OpenTables(g)
    BY <1>6 DEF Report
  <2> HIDE DEF all
  <2>2. /\ ctl' = [pc |-> ctl'.pc, pending |-> ctl'.pending, from |-> ctl'.from,
                   style |-> ctl'.style, styles |-> ctl'.styles]
        /\ ctl'.pc = "merge" /\ ctl'.pending = all
    BY <2>1 DEF Running
  <2>3. all \subseteq UNION {rank'[r] : r \in Ranks}
    BY <1>0 DEF all
  <2>4. ASSUME NEW k \in Counted
        PROVE  \E p \in all : SiteOf(p) = k.site
    <3>1. k.rank \in Ranks
      <4>1. k \in CallSet
        BY <1>0, CallFacts
      <4>2. QED
        BY <4>1 DEF CallSet
    <3>2. PICK p \in MergedThreads(k.rank) : SiteOf(p) = k.site
      BY <1>0, <1>1, <3>1, RankRecords
    <3>3. QED
      BY <3>1, <3>2 DEF all
  <2>5. ReportKnown'
    BY <1>2, <2>2, <2>3, <2>4 DEF ReportKnown
  <2>6. MergedKnown'
    <3>1. IsGlobal(g)
      BY <1>0 DEF MergedKnown
    <3> DEFINE total == [g.total EXCEPT !["time"] = 0, !["sent"] = 0]
               task == [r \in Ranks |-> 0]
    <3>2. g' = [g EXCEPT !.stats = {}, !.agg = {}, !.ops = {}, !.covRoom = {},
                         !.total = total, !.task = task]
      BY <2>1, <3>1 DEF OpenTables, IsGlobal
    <3> HIDE DEF total, task
    <3>3. IsGlobal(g') /\ g'.stats = {} /\ g'.covRoom = {}
      BY <3>1, <3>2 DEF IsGlobal
    <3>4. QED
      BY <3>3 DEF MergedKnown
  <2>7. QED
    BY <1>0, <1>3, <1>4, <2>2, <2>5, <2>6, PlacesSame DEF ReportInv
<1>7. QED
  BY <1>5, <1>6

(***************************************************************************)
(* The collector takes a record.                                           *)
(***************************************************************************)
LEMMA MergedType ==
    ASSUME NEW R, NEW p \in RecordsOf(R), NEW Q, NEW q \in RecordsOf(Q)
    PROVE  /\ MergeCallsite(p, q) \in RecordsOf(R)
           /\ MergeCallsite(p, q).csid = p.csid /\ MergeCallsite(p, q).op = p.op
           /\ MergeCallsite(p, q).rank = p.rank
<1> DEFINE m == MergeCallsite(p, q)
           n == p.count + q.count
           large == p.large + q.large
           sum == [f \in Fields |-> p.sum[f] + q.sum[f]]
           max == [f \in Fields |-> IF f = "rma" THEN p.max[f] ELSE MaxOf(p.max[f], q.max[f])]
           min == [f \in Fields |-> IF f = "rma" THEN p.min[f] ELSE MinOf(p.min[f], q.min[f])]
<1>1. m = [p EXCEPT !.count = n, !.large = large, !.sum = sum, !.max = max, !.min = min]
  BY DEF MergeCallsite, Each, RecordsOf, Kept
<1>2. /\ n \in Nat /\ large \in Nat
      /\ \A f \in Fields : /\ p.sum[f] \in Nat /\ p.max[f] \in Nat /\ p.min[f] \in Nat
                           /\ q.sum[f] \in Nat /\ q.max[f] \in Nat /\ q.min[f] \in Nat
  BY DEF RecordsOf
<1>3. sum \in [Fields -> Nat] /\ max \in [Fields -> Nat] /\ min \in [Fields -> Nat]
  BY <1>2 DEF MaxOf, MinOf
<1> HIDE DEF m, n, large, sum, max, min
<1>4. m.csid = p.csid /\ m.op = p.op /\ m.rank = p.rank
  BY <1>1 DEF RecordsOf
<1>5. m \in RecordsOf(R)
  BY <1>1, <1>2, <1>3 DEF RecordsOf
<1>6. QED
  BY <1>4, <1>5 DEF m

LEMMA AccumulatedStats ==
    ASSUME NEW T \in SUBSET RecordsOf(Ranks), NEW p \in RecordsOf(Ranks)
    PROVE  /\ Accumulate(T, p, p, SameSrc) \in SUBSET RecordsOf(Ranks)
           /\ \A q \in Accumulate(T, p, p, SameSrc) : q \in T \/ q.csid = p.csid
<1> DEFINE found == Matching(T, p, SameSrc)
           csp == CHOOSE q \in found : TRUE
<1>1. CASE found = {}
  BY <1>1 DEF Accumulate
<1>2. CASE found # {}
  <2>1. csp \in T /\ csp.csid = p.csid
    BY <1>2 DEF Matching, SameSrc
  <2>2. Accumulate(T, p, p, SameSrc) = (T \ {csp}) \cup {MergeCallsite(csp, p)}
    BY <1>2 DEF Accumulate
  <2> HIDE DEF csp
  <2>3. MergeCallsite(csp, p) \in RecordsOf(Ranks) /\ MergeCallsite(csp, p).csid = p.csid
    BY <2>1, MergedType
  <2>4. QED
    BY <2>2, <2>3
<1>3. QED
  BY <1>1, <1>2

Place(q) == <<q.csid, q.rank, q.pc, q.op>>
Places(h, q, s) == IF s.cov THEN h.covRoom \cup {Place(q)} ELSE h.covRoom

(* What becomes of the state h of the collector. *)
IsInserted(i, h, q, s) ==
    /\ IsGlobal(i)
    /\ i.stats = IF s.collective THEN h.stats ELSE Accumulate(h.stats, q, q, SameSrc)
    /\ i.agg = Accumulate(h.agg, q, [q EXCEPT !.rank = Star], SameSrcId)
    /\ i.covRoom = Places(h, q, s)
    /\ i.task = [h.task EXCEPT ![q.rank] = @ + q.sum["time"]]
    /\ i.total = [f \in Fields |-> h.total[f] + q.sum[f]]
    /\ i.sentCount = h.sentCount + IF q.sum["sent"] > 0 THEN q.count ELSE 0
    /\ i.large = h.large + IF q.sum["sent"] > 0 THEN q.large ELSE 0
    /\ i.app = h.app

LEMMA InsertedRecord ==
    ASSUME NEW h, IsGlobal(h), NEW q, NEW s
    PROVE  IsInserted(InsertRecord(h, q, s), h, q, s)
<1> DEFINE stats == IF s.collective THEN h.stats ELSE Accumulate(h.stats, q, q, SameSrc)
           agg == Accumulate(h.agg, q, [q EXCEPT !.rank = Star], SameSrcId)
           cov == Places(h, q, s)
           task == [h.task EXCEPT ![q.rank] = @ + q.sum["time"]]
           total == [f \in Fields |-> h.total[f] + q.sum[f]]
           sites == h.timeSites + IF q.sum["time"] > 0 THEN 1 ELSE 0
           large == h.large + IF q.sum["sent"] > 0 THEN q.large ELSE 0
           count == h.sentCount + IF q.sum["sent"] > 0 THEN q.count ELSE 0
           i == InsertRecord(h, q, s)
           a == InsertAggregate(h, q, s)
<1>1. a = [h EXCEPT !.agg = agg, !.covRoom = cov]
  BY DEF InsertAggregate, IsGlobal, Place, Places
<1> HIDE DEF a, agg, cov
<1>2. /\ a.stats = h.stats /\ a.task = h.task /\ a.total = h.total /\ a.large = h.large
      /\ a.timeSites = h.timeSites /\ a.sentCount = h.sentCount /\ a.app = h.app
      /\ a.agg = agg /\ a.covRoom = cov /\ IsGlobal(a)
  BY <1>1 DEF IsGlobal
<1>3. i = [a EXCEPT !.stats = IF s.collective THEN a.stats ELSE Accumulate(a.stats, q, q, SameSrc),
                    !.task = [a.task EXCEPT ![q.rank] = @ + q.sum["time"]],
                    !.total = [f \in Fields |-> a.total[f] + q.sum[f]],
                    !.timeSites = a.timeSites + IF q.sum["time"] > 0 THEN 1 ELSE 0,
                    !.large = a.large + IF q.sum["sent"] > 0 THEN q.large ELSE 0,
                    !.sentCount = a.sentCount + IF q.sum["sent"] > 0 THEN q.count ELSE 0]
  BY <1>2 DEF InsertRecord, a, Each, IsGlobal
<1>4. i = [a EXCEPT !.stats = stats, !.task = task, !.total = total, !.timeSites = sites,
                    !.large = large, !.sentCount = count]
  BY <1>2, <1>3
<1> HIDE DEF i, stats, task, total, sites, large, count
<1>5. /\ IsGlobal(i) /\ i.stats = stats /\ i.agg = agg /\ i.covRoom = cov
      /\ i.task = task /\ i.total = total /\ i.sentCount = count /\ i.large = large
      /\ i.app = h.app
  BY <1>2, <1>4 DEF IsGlobal
<1>6. QED
  BY <1>5 DEF IsInserted, i, stats, agg, cov, task, total, count, large

LEMMA InsertInv ==
    ASSUME ReportInv, InsertCallsite
    PROVE  ReportInv'
<1>0. /\ RecordsKnown /\ NamesKnown /\ ReportKnown /\ PlacesKnown /\ MergedKnown
      /\ UNCHANGED <<setup, table, rank, loc, calls, printed>> /\ ctl.pc = "merge"
  BY DEF ReportInv, InsertCallsite, bounds, tables, ranks
<1>1. PICK p \in NextRecords :
         /\ pcs' = IF setup.lookup THEN CacheFor(p) ELSE pcs
         /\ srcs' = FoundFor(p).srcs
         /\ counter' = FoundFor(p).counter
         /\ named' = named \cup {[site |-> [op |-> p.op, pc |-> p.pc], id |-> FoundFor(p).id]}
         /\ g' = InsertRecord(g, [p EXCEPT !.csid = FoundFor(p).id], setup)
         /\ ctl' = [ctl EXCEPT !.pending = @ \ {p}, !.from = p.rank,
                        !.pc = IF ctl.pending = {p} THEN "publish" ELSE "merge"]
  BY DEF InsertCallsite, CacheFor, FoundFor, KeyFor
<1> DEFINE new == NameFor(p)
           q == [p EXCEPT !.csid = FoundFor(p).id]
<1>2. p \in ctl.pending
  BY DEF NextRecords
<1>3. /\ p \in RecordsOf(Ranks) /\ SiteOf(p) \in Sites
      /\ \E k \in Counted : k.site = SiteOf(p)
  <2>1. PICK r \in Ranks : p \in rank[r]
    BY <1>0, <1>2 DEF ReportKnown
  <2>2. rank[r] \in Tables(r, CallsBy(r), calls)
    BY <1>0 DEF RecordsKnown
  <2>3. QED
    BY <1>0, <2>1, <2>2, RankRecords
<1>4. named' = named \cup {new} /\ new.site = SiteOf(p) /\ new.id = FoundFor(p).id
  BY <1>1 DEF NameFor, SiteOf
<1>5. setup.depth \in Nat /\ Counted' = Counted
  <2>1. setup.depth \in Nat
    BY <1>0, CallFacts
  <2>2. Counted' = Counted
    BY <1>0 DEF Counted
  <2>3. QED
    BY <2>1, <2>2
<1> HIDE DEF new
<1>6. new \in [site : Sites, id : Nat]
  <2>1. CASE setup.depth = 0
    BY <1>0, <1>3, <2>1, NamedByOperation DEF new
  <2>2. CASE setup.depth > 0
    BY <1>0, <1>3, <2>2, NamedByStack DEF new
  <2>3. QED
    BY <1>5, <2>1, <2>2
<1>7. RecordsKnown'
  <2>1. ctl'.pc # "run" => ctl.pc # "run"
    BY <1>0
  <2>2. QED
    BY <1>0, <2>1, RecordsSame
<1>8. NamesKnown'
  <2>1. named' \subseteq [site : Sites, id : Nat] /\ IsFiniteSet(named') /\ IsFiniteSet(srcs')
    <3>1. named \subseteq [site : Sites, id : Nat] /\ IsFiniteSet(named) /\ IsFiniteSet(srcs)
      BY <1>0 DEF NamesKnown
    <3>2. PICK e : srcs' = srcs \cup {e}
      BY <1>1 DEF FoundFor, QuerySrc
    <3>3. IsFiniteSet(named') /\ IsFiniteSet(srcs')
      BY <1>4, <3>1, <3>2, FS_AddElement
    <3>4. QED
      BY <1>4, <1>6, <3>1, <3>3
  <2>2. \A n \in named' : \E k \in Counted' : k.site = n.site
    BY <1>0, <1>3, <1>4, <1>5 DEF NamesKnown
  <2>3. setup'.lookup => DOMAIN pcs' \subseteq Nat /\ pcs' = Answers(DOMAIN pcs)'
    <3>1. \A D : Answers(D)' = Answers(D)
      BY DEF Answers, Answer
    <3>2. setup.lookup => DOMAIN CacheFor(p) \subseteq Nat /\ CacheFor(p) = Answers(DOMAIN CacheFor(p))
      BY <1>0, <1>3, KeyKnown
    <3>3. QED
      BY <1>0, <1>1, <3>1, <3>2
  <2>4. CASE setup.depth = 0
    <3>1. /\ new.id = p.op /\ new.site.op = p.op /\ FoundFor(p).counter = counter
          /\ {e.id : e \in FoundFor(p).srcs} = {n.id : n \in named} \cup {p.op}
      BY <1>0, <1>3, <2>4, NamedByOperation DEF new
    <3>2. /\ counter \in Nat /\ \A n \in named : n.id = n.site.op
      BY <1>0, <2>4 DEF NamesKnown
    <3>3. counter' \in Nat /\ \A n \in named' : n.id = n.site.op
      BY <1>1, <1>4, <3>1, <3>2
    <3>4. {e.id : e \in srcs'} = {n.id : n \in named'}
      BY <1>1, <1>4, <3>1
    <3>5. QED
      BY <1>0, <2>1, <2>2, <2>3, <2>4, <3>3, <3>4 DEF NamesKnown
  <2>5. CASE setup.depth > 0
    <3>1. /\ \A n \in named : n.site = SiteOf(p) <=> n.id = new.id
          /\ FoundFor(p).counter \in Nat /\ counter <= FoundFor(p).counter
          /\ new.id < FoundFor(p).counter
          /\ FoundFor(p).srcs = srcs \cup {EntryOf(new)}
      BY <1>0, <1>3, <2>5, NamedByStack DEF new
    <3>2. /\ counter \in Nat /\ named \subseteq [site : Sites, id : Nat]
          /\ \A m, n \in named : m.site = n.site <=> m.id = n.id
          /\ \A n \in named : n.id < counter
          /\ srcs = {EntryOf(n) : n \in named}
      BY <1>0, <2>5 DEF NamesKnown
    <3>3. \A m, n \in named' : m.site = n.site <=> m.id = n.id
      BY <1>4, <3>1, <3>2
    <3>4. counter' \in Nat /\ \A n \in named' : n.id < counter'
      BY <1>1, <1>4, <1>6, <3>1, <3>2
    <3>5. srcs' = {EntryOf(n) : n \in named'}
      BY <1>1, <1>4, <3>1, <3>2
    <3>6. \A n : EntryOf(n)' = EntryOf(n)
      BY <1>0 DEF EntryOf, SourceOf
    <3>7. QED
      BY <1>0, <2>1, <2>2, <2>3, <2>5, <3>3, <3>4, <3>5, <3>6 DEF NamesKnown
  <2>6. QED
    BY <1>5, <2>4, <2>5
<1>9. /\ ctl' = [pc |-> ctl'.pc, pending |-> ctl'.pending, from |-> ctl'.from,
                 style |-> ctl'.style, styles |-> ctl'.styles]
      /\ ctl'.pc = IF ctl.pending = {p} THEN "publish" ELSE "merge"
      /\ ctl'.pending = ctl.pending \ {p}
  <2>1. ctl = [pc |-> ctl.pc, pending |-> ctl.pending, from |-> ctl.from,
               style |-> ctl.style, styles |-> ctl.styles]
    BY <1>0 DEF ReportKnown
  <2> DEFINE pc == IF ctl.pending = {p} THEN "publish" ELSE "merge"
             pending == ctl.pending \ {p}
  <2>2. ctl' = [ctl EXCEPT !.pending = pending, !.from = p.rank, !.pc = pc]
    BY <1>1, <2>1
  <2> HIDE DEF pc, pending
  <2>3. /\ ctl' = [pc |-> ctl'.pc, pending |-> ctl'.pending, from |-> ctl'.from,
                   style |-> ctl'.style, styles |-> ctl'.styles]
        /\ ctl'.pc = pc /\ ctl'.pending = pending
    BY <2>1, <2>2
  <2>4. QED
    BY <2>3 DEF pc, pending
<1>10. ReportKnown'
  <2>1. DOMAIN printed' = {}
    BY <1>0 DEF ReportKnown
  <2>2. \A k \in Counted' : \/ \E n \in named' : n.site = k.site
                            \/ \E o \in ctl'.pending : SiteOf(o) = k.site
    <3>1. \A k \in Counted : \/ \E n \in named : n.site = k.site
                             \/ \E o \in ctl.pending : SiteOf(o) = k.site
      BY <1>0 DEF ReportKnown
    <3>2. QED
      BY <1>4, <1>5, <1>9, <3>1
  <2>3. ctl'.pc \in {"merge", "publish"} /\ (ctl'.pending # {} => ctl'.pc = "merge")
    BY <1>2, <1>9
  <2>4. ctl'.pending \subseteq UNION {rank'[r] : r \in Ranks}
    BY <1>0, <1>9 DEF ReportKnown
  <2>5. QED
    BY <1>9, <2>1, <2>2, <2>3, <2>4 DEF ReportKnown
<1>11. q = [p EXCEPT !.csid = new.id] /\ q \in RecordsOf(Ranks) /\ q.csid = new.id
       /\ q.rank = p.rank /\ q.pc = p.pc /\ q.op = p.op
       /\ p.rank \in Ranks /\ p.pc \in Seq(Nat) /\ p.op \in Operations
       /\ SiteOf(p) = [op |-> p.op, pc |-> p.pc]
  <2>1. q = [p EXCEPT !.csid = new.id] /\ new.id \in Nat
    BY <1>4, <1>6
  <2> HIDE DEF q
  <2>2. q \in RecordsOf(Ranks) /\ q.csid = new.id /\ q.rank = p.rank /\ q.pc = p.pc /\ q.op = p.op
    BY <1>3, <2>1 DEF RecordsOf
  <2>3. /\ p.rank \in Ranks /\ p.pc \in Seq(Nat) /\ p.op \in Operations
        /\ SiteOf(p) = [op |-> p.op, pc |-> p.pc]
    BY <1>3 DEF RecordsOf, SiteOf
  <2>4. QED
    BY <2>1, <2>2, <2>3 DEF q
<1> HIDE DEF q
<1>12. MergedKnown'
  <2> DEFINE cov == Place(q)
  <2>1. IsGlobal(g) /\ g' = InsertRecord(g, q, setup)
    BY <1>0, <1>1 DEF MergedKnown, q
  <2>2. /\ IsGlobal(g')
        /\ g'.stats = IF setup.collective THEN g.stats ELSE Accumulate(g.stats, q, q, SameSrc)
        /\ g'.covRoom = IF setup.cov THEN g.covRoom \cup {cov} ELSE g.covRoom
    <3>1. IsInserted(g', g, q, setup)
      BY <2>1, InsertedRecord
    <3>2. Places(g, q, setup) = IF setup.cov THEN g.covRoom \cup {cov} ELSE g.covRoom
      BY DEF Places
    <3> HIDE DEF cov
    <3>3. QED
      BY <3>1, <3>2 DEF IsInserted
  <2>3. /\ g.stats \subseteq RecordsOf(Ranks)
        /\ \A o \in g.stats : \E n \in named : n.id = o.csid
        /\ g.covRoom \subseteq Nat \X Ranks \X Seq(Nat) \X Operations
        /\ \A c \in g.covRoom : [site |-> [op |-> c[4], pc |-> c[3]], id |-> c[1]] \in named
        /\ ~setup.cov => g.covRoom = {}
    BY <1>0 DEF MergedKnown
  <2>4. /\ g'.stats \subseteq RecordsOf(Ranks)
        /\ \A o \in g'.stats : o \in g.stats \/ o.csid = q.csid
    <3> DEFINE T == g.stats
    <3>1. T \in SUBSET RecordsOf(Ranks)
      BY <2>3
    <3>2. g'.stats = T \/ g'.stats = Accumulate(T, q, q, SameSrc)
      BY <2>2
    <3> HIDE DEF T
    <3>3. /\ Accumulate(T, q, q, SameSrc) \in SUBSET RecordsOf(Ranks)
          /\ \A o \in Accumulate(T, q, q, SameSrc) : o \in T \/ o.csid = q.csid
      BY <1>11, <3>1, AccumulatedStats
    <3>4. QED
      BY <3>1, <3>2, <3>3 DEF T
  <2>5. \A o \in g'.stats : \E n \in named' : n.id = o.csid
    BY <1>4, <1>11, <2>3, <2>4
  <2>6. cov[1] = new.id /\ cov[3] = p.pc /\ cov[4] = p.op
    BY <1>11 DEF Place
  <2>7. cov \in Nat \X Ranks \X Seq(Nat) \X Operations
    BY <1>6, <1>11 DEF Place
  <2>8. [site |-> [op |-> cov[4], pc |-> cov[3]], id |-> cov[1]] = new
    <3>1. new = [site |-> SiteOf(p), id |-> new.id]
      BY <1>4, <1>6
    <3>2. QED
      BY <1>11, <2>6, <3>1
  <2> HIDE DEF cov
  <2>9. \A c \in g'.covRoom : [site |-> [op |-> c[4], pc |-> c[3]], id |-> c[1]] \in named'
    <3>1. g'.covRoom \subseteq g.covRoom \cup {cov}
      BY <2>2
    <3>2. \A c \in g.covRoom : [site |-> [op |-> c[4], pc |-> c[3]], id |-> c[1]] \in named'
      BY <1>4, <2>3
    <3>3. [site |-> [op |-> cov[4], pc |-> cov[3]], id |-> cov[1]] \in named'
      BY <1>4, <2>8
    <3>4. QED
      BY <3>1, <3>2, <3>3
  <2>10. g'.covRoom \subseteq Nat \X Ranks \X Seq(Nat) \X Operations
    BY <2>2, <2>3, <2>7
  <2>11. ~setup.cov => g'.covRoom = {}
    BY <2>2, <2>3
  <2>12. ASSUME setup.depth > 0
         PROVE  \A c, d \in g'.covRoom : c[1] = d[1] => c[3] = d[3] /\ c[4] = d[4]
    <3>1. \A m, n \in named' : m.id = n.id => m.site = n.site
      BY <1>0, <1>8, <2>12 DEF NamesKnown
    <3>2. ASSUME NEW c \in g'.covRoom, NEW d \in g'.covRoom, c[1] = d[1]
          PROVE  c[3] = d[3] /\ c[4] = d[4]
      <4> DEFINE m == [site |-> [op |-> c[4], pc |-> c[3]], id |-> c[1]]
                 n == [site |-> [op |-> d[4], pc |-> d[3]], id |-> d[1]]
      <4>1. m \in named' /\ n \in named' /\ m.id = n.id
        BY <2>9, <3>2
      <4>2. m.site = n.site
        <5> HIDE DEF m, n
        <5>1. QED
          BY <3>1, <4>1
      <4>3. [op |-> c[4], pc |-> c[3]] = [op |-> d[4], pc |-> d[3]]
        BY <4>2
      <4>4. [op |-> c[4], pc |-> c[3]].op = c[4] /\ [op |-> d[4], pc |-> d[3]].op = d[4]
        OBVIOUS
      <4>5. [op |-> c[4], pc |-> c[3]].pc = c[3] /\ [op |-> d[4], pc |-> d[3]].pc = d[3]
        OBVIOUS
      <4>6. QED
        BY <4>3, <4>4, <4>5
    <3>3. QED
      BY <3>2
  <2>13. QED
    BY <1>0, <2>2, <2>4, <2>5, <2>9, <2>10, <2>11, <2>12 DEF MergedKnown
<1>13. PlacesKnown'
  <2>1. ctl'.pc # "collective"
    BY <1>9
  <2>2. QED
    BY <1>0, <2>1, PlacesSame
<1>14. QED
  BY <1>7, <1>8, <1>10, <1>12, <1>13 DEF ReportInv

(***************************************************************************)
(* The report is printed.                                                  *)
(***************************************************************************)
LEMMA MergedUpdate ==
    ASSUME MergedKnown, UNCHANGED <<setup, named>>, ctl.pc # "run", ctl'.pc # "merge",
           IsGlobal(g'), g'.stats = g.stats, g'.covRoom = g.covRoom
    PROVE  MergedKnown'
  BY DEF MergedKnown

LEMMA PublishInv ==
    ASSUME ReportInv, Publish
    PROVE  ReportInv'
<1>0. /\ RecordsKnown /\ NamesKnown /\ ReportKnown /\ PlacesKnown /\ MergedKnown
      /\ UNCHANGED <<setup, table, rank, loc, calls, printed, pcs, srcs, counter, named>>
      /\ ctl.pc = "publish"
  BY DEF ReportInv, Publish, bounds, tables, ranks, caches
<1>1. /\ ctl' = [pc |-> ctl'.pc, pending |-> ctl'.pending, from |-> ctl'.from,
                 style |-> ctl'.style, styles |-> ctl'.styles]
      /\ ctl'.pc = "print" /\ ctl'.pending = ctl.pending
  <2>1. ctl = [pc |-> ctl.pc, pending |-> ctl.pending, from |-> ctl.from,
               style |-> ctl.style, styles |-> ctl.styles]
    BY <1>0 DEF ReportKnown
  <2>2. PICK styles : ctl' = [ctl EXCEPT !.pc = "print", !.styles = styles]
    BY DEF Publish
  <2>3. QED
    BY <2>1, <2>2
<1>2. ReportKnown'
  <2>1. Counted' = Counted
    BY <1>0 DEF Counted
  <2>2. ctl.pending = {}
    BY <1>0 DEF ReportKnown
  <2>3. (IF setup.detail THEN CallsiteRows(srcs, setup) ELSE Absent)'
           = IF setup.detail THEN CallsiteRows(srcs, setup) ELSE Absent
    BY <1>0, SameSection
  <2>4. QED
    BY <1>0, <1>1, <2>1, <2>2, <2>3 DEF ReportKnown
<1>3. MergedKnown'
  <2>1. IsGlobal(g)
    BY <1>0 DEF MergedKnown
  <2>2. PICK ops : InsertOperations(g) = [g EXCEPT !.ops = ops]
    BY DEF InsertOperations
  <2>3. IsGlobal(g') /\ g'.stats = g.stats /\ g'.covRoom = g.covRoom
    <3>1. g' = g \/ g' = [g EXCEPT !.ops = ops]
      BY <2>2 DEF Publish
    <3>2. QED
      BY <2>1, <3>1 DEF IsGlobal
  <2>4. QED
    BY <1>0, <1>1, <2>3, MergedUpdate
<1>4. RecordsKnown' /\ NamesKnown' /\ PlacesKnown'
  BY <1>0, <1>1, RecordsSame, NamesSame, PlacesSame
<1>5. QED
  BY <1>2, <1>3, <1>4 DEF ReportInv

(* The list of callsites is that of the source cache, in both styles. *)
LEMMA PageSites ==
    /\ \A h : /\ "sites" \in DOMAIN Verbose(h)
              /\ Verbose(h).sites = IF setup.detail THEN CallsiteRows(srcs, setup) ELSE Absent
    /\ \A h : /\ "sites" \in DOMAIN Concise(h)
              /\ Concise(h).sites = IF setup.detail THEN CallsiteRows(srcs, setup) ELSE Absent
<1>1. \A h, tasks, rows :
        /\ "sites" \in DOMAIN Page(h, tasks, rows)
        /\ Page(h, tasks, rows).sites = IF setup.detail THEN CallsiteRows(srcs, setup) ELSE Absent
  BY DEF Page
<1>2. QED
  BY <1>1 DEF Verbose, Concise

LEMMA NextStyleShape ==
    ASSUME NEW c, c = [pc |-> c.pc, pending |-> c.pending, from |-> c.from,
                       style |-> c.style, styles |-> c.styles]
    PROVE  /\ NextStyle(c) = [pc |-> NextStyle(c).pc, pending |-> NextStyle(c).pending,
                              from |-> NextStyle(c).from, style |-> NextStyle(c).style,
                              styles |-> NextStyle(c).styles]
           /\ NextStyle(c).pc \in {"run", "print"}
           /\ NextStyle(c).pending = {} \/ NextStyle(c).pending = c.pending
<1>1. CASE Len(c.styles) = 1
  BY <1>1 DEF NextStyle, Running
<1>2. CASE Len(c.styles) # 1
  <2>1. PICK styles : NextStyle(c) = [c EXCEPT !.styles = styles, !.pc = "print"]
    BY <1>2 DEF NextStyle
  <2>2. QED
    BY <2>1
<1>3. QED
  BY <1>1, <1>2

Standing(l) ==
    /\ l = [at |-> l.at, n |-> l.n, i |-> l.i, ac |-> l.ac]
    /\ \/ l.at = "end"
       \/ l.at \in {"gate", "malloc", "count", "total", "record", "rows"} /\ l.n \in 1 .. 4

LEMMA OrderFacts == Len(Order) = 4 /\ \A n \in 1 .. 4 : Order[n] \in Fields
  BY DEF Order, Fields

LEMMA EnterShape == \A style : \A n \in 1 .. 5 : Standing(Enter(style, n))
<1>1. SUFFICES ASSUME NEW style, NEW n \in 1 .. 5
               PROVE  Standing(Enter(style, n))
  OBVIOUS
<1> DEFINE at == IF n > Len(Order) THEN "end"
                 ELSE IF style = "concise" THEN "count"
                 ELSE IF Order[n] = "time" THEN "malloc" ELSE "gate"
<1>2. Enter(style, n) = [Outside EXCEPT !.n = n, !.at = at]
  BY DEF Enter
<1>3. at = "end" \/ (at \in {"gate", "malloc", "count"} /\ n \in 1 .. 4)
  BY OrderFacts
<1> HIDE DEF at
<1>4. Enter(style, n) = [at |-> at, n |-> n, i |-> 0, ac |-> 0]
  BY <1>2 DEF Outside
<1>5. QED
  BY <1>3, <1>4 DEF Standing

LEMMA PrintInv ==
    ASSUME ReportInv, ProfilePrint
    PROVE  ReportInv'
<1> DEFINE style == Head(ctl.styles)
           h == IF style = "verbose" THEN VerboseApp(g, AppTime) ELSE ConciseApp(g, AppTime)
           new == IF style = "verbose" THEN Verbose(h) ELSE Concise(h)
<1>0. /\ RecordsKnown /\ NamesKnown /\ ReportKnown /\ PlacesKnown /\ MergedKnown
      /\ UNCHANGED <<setup, table, rank, calls, pcs, srcs, counter, named>>
      /\ ctl.pc = "print"
  BY DEF ReportInv, ProfilePrint, bounds, tables, ranks, caches
<1>1. /\ ctl = [pc |-> ctl.pc, pending |-> ctl.pending, from |-> ctl.from,
                style |-> ctl.style, styles |-> ctl.styles]
      /\ ctl.pending = {}
  BY <1>0 DEF ReportKnown
<1>2. /\ ctl' = [pc |-> ctl'.pc, pending |-> ctl'.pending, from |-> ctl'.from,
                 style |-> ctl'.style, styles |-> ctl'.styles]
      /\ ctl'.pc \in {"run", "print", "collective"} /\ ctl'.pending = {}
  <2>1. ctl' = [ctl EXCEPT !.pc = "collective"] \/ ctl' = NextStyle(ctl)
    BY DEF ProfilePrint
  <2>2. CASE ctl' = [ctl EXCEPT !.pc = "collective"]
    BY <1>1, <2>2
  <2>3. CASE ctl' = NextStyle(ctl)
    BY <1>1, <2>3, NextStyleShape
  <2>4. QED
    BY <2>1, <2>2, <2>3
<1>3. ReportKnown'
  <2> DEFINE list == IF setup.detail THEN CallsiteRows(srcs, setup) ELSE Absent
  <2>1. Counted' = Counted
    BY <1>0 DEF Counted
  <2>2. list' = list
    BY <1>0, SameSection
  <2>3. printed' = [p \in DOMAIN printed \cup {style} |->
                       IF p \in DOMAIN printed THEN printed[p] ELSE new]
    BY DEF ProfilePrint
  <2>4. "sites" \in DOMAIN new /\ new.sites = list
    <3>1. new = Verbose(h) \/ new = Concise(h)
      OBVIOUS
    <3> HIDE DEF new, h
    <3>2. QED
      BY <3>1, PageSites
  <2>5. \A p \in DOMAIN printed : "sites" \in DOMAIN printed[p] /\ printed[p].sites = list
    BY <1>0 DEF ReportKnown
  <2> HIDE DEF new, list, style
  <2>6. \A p \in DOMAIN printed' : "sites" \in DOMAIN printed'[p] /\ printed'[p].sites = list
    BY <2>3, <2>4, <2>5
  <2>7. \A k \in Counted' : \E n \in named' : n.site = k.site
    BY <1>0, <1>1, <2>1 DEF ReportKnown
  <2>8. ctl'.pending \subseteq UNION {rank'[r] : r \in Ranks}
    BY <1>2
  <2>9. \A p \in DOMAIN printed' : "sites" \in DOMAIN printed'[p] /\ printed'[p].sites = list'
    BY <2>2, <2>6
  <2> USE DEF list
  <2>10. QED
    BY <1>2, <2>7, <2>8, <2>9 DEF ReportKnown
<1>4. MergedKnown'
  <2>1. IsGlobal(g)
    BY <1>0 DEF MergedKnown
  <2>2. g' = h
    BY DEF ProfilePrint
  <2>3. PICK app : h = [g EXCEPT !.app = app]
    BY <2>1 DEF VerboseApp, ConciseApp
  <2> HIDE DEF h
  <2>4. IsGlobal(g') /\ g'.stats = g.stats /\ g'.covRoom = g.covRoom
    BY <2>1, <2>2, <2>3 DEF IsGlobal
  <2>5. QED
    BY <1>0, <1>2, <2>4, MergedUpdate
<1>5. PlacesKnown'
  <2>1. CASE setup.detail /\ setup.collective
    <3>1. loc' = [r \in Ranks |-> Enter(style, 1)]
      BY <2>1 DEF ProfilePrint
    <3>2. Standing(Enter(style, 1))
      BY EnterShape
    <3> DEFINE l == Enter(style, 1)
    <3>3. loc' = [r \in Ranks |-> l] /\ Standing(l)
      BY <3>1, <3>2
    <3> HIDE DEF l
    <3>4. QED
      BY <3>3 DEF PlacesKnown, Standing
  <2>2. CASE ~(setup.detail /\ setup.collective)
    <3>1. UNCHANGED loc /\ ctl' = NextStyle(ctl)
      BY <2>2 DEF ProfilePrint
    <3>2. ctl'.pc # "collective"
      BY <1>1, <3>1, NextStyleShape
    <3>3. QED
      BY <1>0, <3>1, <3>2, PlacesSame
  <2>3. QED
    BY <2>1, <2>2
<1>6. RecordsKnown' /\ NamesKnown'
  BY <1>0, RecordsSame, NamesSame
<1>7. QED
  BY <1>3, <1>4, <1>5, <1>6 DEF ReportInv

(* The sections that the ranks print together are not that of the callsites. *)
LEMMA AfterShape ==
    ASSUME NEW r, NEW f, Standing(loc[r]), loc[r].at # "end"
    PROVE  Standing(After(r, f))
<1> DEFINE l == loc[r]
<1>1. /\ l = [at |-> l.at, n |-> l.n, i |-> l.i, ac |-> l.ac]
      /\ l.at \in {"gate", "malloc", "count", "total", "record", "rows"} /\ l.n \in 1 .. 4
  BY DEF Standing
<1>2. ASSUME NEW m, m = [at |-> m.at, n |-> m.n, i |-> m.i, ac |-> m.ac], m.n \in 1 .. 4
      PROVE  /\ \A at \in {"malloc", "count", "total", "record", "rows"} : Standing([m EXCEPT !.at = at])
             /\ Standing(Leave(m)) /\ \A e : Standing(Round(m, e))
  <2>1. \A at \in {"malloc", "count", "total", "record", "rows"} : Standing([m EXCEPT !.at = at])
    BY <1>2 DEF Standing
  <2>2. Standing(Leave(m))
    <3>1. m.n + 1 \in 1 .. 5
      BY <1>2
    <3>2. QED
      BY <3>1, EnterShape DEF Leave
  <2>3. \A e : Standing(Round(m, e))
    BY <2>1, <2>2 DEF Round, RoundBegin
  <2>4. QED
    BY <2>1, <2>2, <2>3
<1>3. \A v : LET m == [l EXCEPT !.ac = v] IN
             m = [at |-> m.at, n |-> m.n, i |-> m.i, ac |-> m.ac] /\ m.n \in 1 .. 4
  BY <1>1
<1>4. \A v : LET m == [l EXCEPT !.i = v] IN
             m = [at |-> m.at, n |-> m.n, i |-> m.i, ac |-> m.ac] /\ m.n \in 1 .. 4
  BY <1>1
<1>5. CASE l.at = "gate"
  BY <1>1, <1>2, <1>5 DEF After
<1>6. CASE l.at = "malloc"
  BY <1>1, <1>2, <1>6 DEF After
<1>7. CASE l.at = "count"
  BY <1>2, <1>3, <1>7 DEF After
<1>8. Standing(NextRound(l, f))
  <2>1. PICK v : NextRound(l, f) = Round([l EXCEPT !.i = v], f)
    BY DEF NextRound
  <2> DEFINE m == [l EXCEPT !.i = v]
  <2>2. m = [at |-> m.at, n |-> m.n, i |-> m.i, ac |-> m.ac] /\ m.n \in 1 .. 4
    BY <1>4
  <2> HIDE DEF m
  <2>3. Standing(Round(m, f))
    BY <1>2, <2>2
  <2>4. QED
    BY <2>1, <2>3 DEF m
<1>9. CASE l.at = "total"
  BY <1>1, <1>2, <1>8, <1>9 DEF After
<1>10. CASE l.at = "record"
  BY <1>1, <1>2, <1>10 DEF After
<1>11. CASE l.at = "rows"
  BY <1>8, <1>11 DEF After
<1>12. QED
  BY <1>1, <1>5, <1>6, <1>7, <1>9, <1>10, <1>11

LEMMA MeetInv ==
    ASSUME ReportInv, Meet
    PROVE  ReportInv'
<1>0. /\ RecordsKnown /\ NamesKnown /\ ReportKnown /\ PlacesKnown /\ MergedKnown
      /\ UNCHANGED <<setup, table, rank, calls, pcs, srcs, counter, named, g, ctl>>
      /\ ctl.pc = "collective" /\ loc[Collector].at # "end" /\ Collector \in Ranks
  BY ReportAssumption DEF ReportInv, Meet, bounds, tables, ranks, caches, Collector
<1>1. PICK l : loc = [r \in Ranks |-> l] /\ Standing(l)
  BY <1>0 DEF PlacesKnown, Standing
<1>2. Standing(loc[Collector]) /\ loc[Collector].n \in 1 .. 4
  BY <1>0, <1>1 DEF Standing
<1>3. PlacesKnown'
  <2> DEFINE f == Field(Collector)
  <2>1. loc' = [r \in Ranks |-> After(r, f)]
    BY DEF Meet
  <2> HIDE DEF f
  <2>2. PICK m : loc' = [r \in Ranks |-> m]
    BY <1>1, <2>1, SameWay
  <2>3. m = After(Collector, f)
    BY <1>0, <2>1, <2>2
  <2>4. Standing(m)
    BY <1>0, <1>2, <2>3, AfterShape
  <2>5. QED
    BY <2>2, <2>4 DEF PlacesKnown, Standing
<1>4. ReportKnown'
  <2> DEFINE list == IF setup.detail THEN CallsiteRows(srcs, setup) ELSE Absent
             f == Field(Collector)
  <2>1. Counted' = Counted
    BY <1>0 DEF Counted
  <2>2. list' = list
    BY <1>0, SameSection
  <2>3. \A p \in DOMAIN printed : "sites" \in DOMAIN printed[p] /\ printed[p].sites = list
    BY <1>0 DEF ReportKnown
  <2>4. f # "sites"
    BY <1>2, OrderFacts, FieldsFacts DEF Field
  <2> HIDE DEF list, f
  <2>5. \A p \in DOMAIN printed' : "sites" \in DOMAIN printed'[p] /\ printed'[p].sites = list
    <3>1. CASE printed' = printed
      BY <2>3, <3>1
    <3>2. CASE printed' # printed
      <4>1. PICK v : printed' = [printed EXCEPT ![Style] = [@ EXCEPT ![f] = v]]
        BY <3>2 DEF Meet, f
      <4>2. DOMAIN printed' = DOMAIN printed
        BY <4>1
      <4>3. ASSUME NEW p \in DOMAIN printed
            PROVE  "sites" \in DOMAIN printed'[p] /\ printed'[p].sites = list
        <5>1. CASE p = Style
          <6>1. printed'[p] = [printed[p] EXCEPT ![f] = v]
            BY <4>1, <5>1
          <6>2. QED
            BY <2>3, <2>4, <6>1
        <5>2. CASE p # Style
          BY <2>3, <4>1, <5>2
        <5>3. QED
          BY <5>1, <5>2
      <4>4. QED
        BY <4>2, <4>3
    <3>3. QED
      BY <3>1, <3>2
  <2>6. \A p \in DOMAIN printed' : "sites" \in DOMAIN printed'[p] /\ printed'[p].sites = list'
    BY <2>2, <2>5
  <2> USE DEF list
  <2>7. QED
    BY <1>0, <2>1, <2>6 DEF ReportKnown
<1>5. RecordsKnown' /\ NamesKnown' /\ MergedKnown'
  BY <1>0, RecordsSame, NamesSame, MergedSame
<1>6. QED
  BY <1>3, <1>4, <1>5 DEF ReportInv

LEMMA BarrierInv ==
    ASSUME ReportInv, Barrier
    PROVE  ReportInv'
<1>0. /\ RecordsKnown /\ NamesKnown /\ ReportKnown /\ PlacesKnown /\ MergedKnown
      /\ UNCHANGED <<setup, table, rank, calls, pcs, srcs, counter, named, g, printed>>
      /\ ctl.pc = "collective" /\ ctl' = NextStyle(ctl)
  BY DEF ReportInv, Barrier, bounds, tables, ranks, caches
<1>1. /\ ctl = [pc |-> ctl.pc, pending |-> ctl.pending, from |-> ctl.from,
                style |-> ctl.style, styles |-> ctl.styles]
      /\ ctl.pending = {}
  BY <1>0 DEF ReportKnown
<1>2. /\ ctl' = [pc |-> ctl'.pc, pending |-> ctl'.pending, from |-> ctl'.from,
                 style |-> ctl'.style, styles |-> ctl'.styles]
      /\ ctl'.pc \in {"run", "print"} /\ ctl'.pending = {}
  BY <1>0, <1>1, NextStyleShape
<1>3. ReportKnown'
  <2>1. Counted' = Counted
    BY <1>0 DEF Counted
  <2>2. (IF setup.detail THEN CallsiteRows(srcs, setup) ELSE Absent)'
           = IF setup.detail THEN CallsiteRows(srcs, setup) ELSE Absent
    BY <1>0, SameSection
  <2>3. \A k \in Counted : \E n \in named : n.site = k.site
    BY <1>0, <1>1 DEF ReportKnown
  <2>4. QED
    BY <1>0, <1>2, <2>1, <2>2, <2>3 DEF ReportKnown
<1>4. PlacesKnown'
  <2>1. loc' = [r \in Ranks |-> Outside]
    BY DEF Barrier
  <2>2. QED
    BY <1>2, <2>1 DEF PlacesKnown, Outside
<1>5. RecordsKnown' /\ NamesKnown' /\ MergedKnown'
  BY <1>0, <1>2, RecordsSame, NamesSame, MergedSame
<1>6. QED
  BY <1>3, <1>4, <1>5 DEF ReportInv

(***************************************************************************)
(* A reset.                                                                *)
(***************************************************************************)
LEMMA ResetInv ==
    ASSUME ReportInv, Reset
    PROVE  ReportInv'
<1>0. /\ RecordsKnown /\ NamesKnown /\ ReportKnown /\ PlacesKnown /\ MergedKnown
      /\ UNCHANGED <<setup, pcs, counter, ctl, loc>>
      /\ ctl.pc = "run" /\ calls' = <<>> /\ printed' = <<>> /\ named' = {} /\ srcs' = {}
  BY DEF ReportInv, Reset, Forgotten
<1>1. DOMAIN calls' = {} /\ calls' \in Bags /\ Counted' = {} /\ DOMAIN printed' = {}
  <2>1. DOMAIN calls' = {} /\ calls' \in [{} -> Nat \ {0}] /\ DOMAIN printed' = {}
    BY <1>0
  <2>2. calls' \in Bags
    BY <2>1, FS_EmptySet DEF Bags
  <2>3. QED
    BY <2>1, <2>2 DEF Counted
<1>2. RecordsKnown'
  <2>1. \A r \in Ranks : \A t \in Threads[r] : table'[r][t] = {}
    BY DEF Reset
  <2>2. table' = [r \in Ranks |-> [t \in Threads[r] |-> table'[r][t]]]
    <3>1. table' = [r \in Ranks |-> [t \in Threads[r] |-> {}]]
      BY DEF Reset
    <3>2. QED
      BY <3>1
  <2>3. \A r, t : CallsIn(r, t)' = {}
    BY <1>1 DEF CallsIn
  <2>4. \A r, c : {} \in Tables(r, {}, c)'
    <3>1. \A r, K, c : Tables(r, K, c)' = Tables(r, K, c)
      BY <1>0, TablesSame
    <3>2. QED
      BY <3>1, EmptyTable
  <2>5. \A r \in Ranks : \A t \in Threads[r] : table'[r][t] \in Tables(r, CallsIn(r, t), calls)'
    BY <2>1, <2>3, <2>4
  <2>6. rank' = [r \in Ranks |-> rank'[r]]
    <3>1. rank' = [r \in Ranks |-> {}]
      BY DEF Reset
    <3>2. QED
      BY <3>1
  <2>7. QED
    BY <1>0, <1>1, <2>2, <2>5, <2>6 DEF RecordsKnown
<1>3. NamesKnown'
  <2>1. \A D : Answers(D)' = Answers(D)
    BY DEF Answers, Answer
  <2>2. QED
    BY <1>0, <2>1, FS_EmptySet DEF NamesKnown
<1>4. ReportKnown'
  <2>1. ctl.pending = {}
    BY <1>0 DEF ReportKnown
  <2>2. QED
    BY <1>0, <1>1, <2>1 DEF ReportKnown
<1>5. MergedKnown'
  <2>1. IsGlobal(g)
    BY <1>0 DEF MergedKnown
  <2>2. IsGlobal(g') /\ g'.stats = g.stats /\ g'.covRoom = g.covRoom
    BY <2>1 DEF Reset, ResetTotals, IsGlobal
  <2>3. QED
    BY <1>0, <2>2 DEF MergedKnown
<1>6. QED
  BY <1>0, <1>2, <1>3, <1>4, <1>5, PlacesSame DEF ReportInv

LEMMA NextInv == ReportInv /\ [Next]_vars => ReportInv'
<1>1. ASSUME ReportInv, Next
      PROVE  ReportInv'
  <2>1. CASE \E r \in Ranks : \E t \in ThreadsUsed(r), k \in Kinds :
                Call(r, t, k.site, k.amount)
    BY <1>1, <2>1, CallInv
  <2>2. CASE PcontrolReport
    BY <1>1, <2>2, ReportStepInv DEF PcontrolReport
  <2>3. QED
    BY <1>1, <2>1, <2>2, InsertInv, PublishInv, PrintInv, MeetInv, BarrierInv, ResetInv DEF Next
<1>2. QED
  BY <1>1, UnchangedInv

(* Records, names and the place in the report agree with the calls. *)
THEOREM ReportInvariant == Spec => []ReportInv
  BY InitInv, NextInv, PTL DEF Spec

LEMMA NamesTold == NamesKnown /\ RecordsKnown
                      => \A m, n \in named : Key(m.site) = Key(n.site) <=> m.id = n.id
<1>1. SUFFICES ASSUME NamesKnown, RecordsKnown, NEW m \in named, NEW n \in named
               PROVE  Key(m.site) = Key(n.site) <=> m.id = n.id
  OBVIOUS
<1>2. CASE setup.depth = 0
  BY <1>1, <1>2 DEF NamesKnown, Key
<1>3. CASE setup.depth # 0
  <2>1. setup.depth > 0
    BY <1>1, <1>3, CallFacts
  <2>2. QED
    BY <1>1, <1>3, <2>1 DEF NamesKnown, Key
<1>4. QED
  BY <1>2, <1>3

LEMMA ListedSites ==
    ASSUME ReportInv, NEW style \in DOMAIN printed
    PROVE  {[id |-> row.id, op |-> row.op] : row \in printed[style].sites} =
              IF setup.detail /\ setup.depth > 0
              THEN {[id |-> IdOf(x), op |-> x.op] : x \in Keys} ELSE {}
<1>0. RecordsKnown /\ NamesKnown /\ ReportKnown
  BY DEF ReportInv
<1>1. printed[style].sites = IF setup.detail THEN CallsiteRows(srcs, setup) ELSE Absent
  BY <1>0 DEF ReportKnown
<1>2. setup.depth \in Nat
  BY <1>0, CallFacts
<1>3. CASE ~(setup.detail /\ setup.depth > 0)
  <2>1. printed[style].sites = {}
    BY <1>1, <1>2, <1>3 DEF CallsiteRows, Absent
  <2>2. QED
    BY <1>3, <2>1
<1>4. CASE setup.detail /\ setup.depth > 0
  <2>1. /\ \A m, n \in named : m.site = n.site <=> m.id = n.id
        /\ srcs = {EntryOf(n) : n \in named}
        /\ \A n \in named : \E k \in Counted : k.site = n.site
    BY <1>0, <1>4 DEF NamesKnown
  <2>2. printed[style].sites =
           {[id |-> e.id, op |-> e.op, frames |-> Frames(e, setup.depth)] : e \in srcs}
    BY <1>1, <1>4 DEF CallsiteRows
  <2>3. {[id |-> row.id, op |-> row.op] : row \in printed[style].sites}
           = {[id |-> e.id, op |-> e.op] : e \in srcs}
    <3> DEFINE Both(e) == [id |-> e.id, op |-> e.op]
               RowFor(e) == [id |-> e.id, op |-> e.op, frames |-> Frames(e, setup.depth)]
    <3>1. \A e : Both(RowFor(e)) = Both(e)
      OBVIOUS
    <3>2. printed[style].sites = {RowFor(e) : e \in srcs}
      BY <2>2
    <3> HIDE DEF Both, RowFor
    <3>3. {Both(row) : row \in printed[style].sites} = {Both(e) : e \in srcs}
      BY <3>1, <3>2
    <3>4. QED
      BY <3>3 DEF Both
  <2>4. {[id |-> e.id, op |-> e.op] : e \in srcs} = {[id |-> n.id, op |-> n.site.op] : n \in named}
    <3> DEFINE Both(e) == [id |-> e.id, op |-> e.op]
               Name(n) == [id |-> n.id, op |-> n.site.op]
    <3>1. \A n : Both(EntryOf(n)) = Name(n)
      BY DEF EntryOf
    <3> HIDE DEF Both, Name
    <3>2. {Both(e) : e \in srcs} = {Name(n) : n \in named}
      BY <2>1, <3>1
    <3>3. QED
      BY <3>2 DEF Both, Name
  <2>5. \A x : Key(x) = x
    BY <1>4 DEF Key
  <2>6. \A n \in named : IdOf(n.site) = n.id
    <3>1. ASSUME NEW n \in named
          PROVE  IdOf(n.site) = n.id
      <4> DEFINE c == CHOOSE m \in named : Key(m.site) = n.site
      <4>1. c \in named /\ c.site = n.site
        BY <2>5
      <4>2. IdOf(n.site) = c.id
        BY DEF IdOf
      <4> HIDE DEF c
      <4>3. QED
        BY <2>1, <4>1, <4>2
    <3>2. QED
      BY <3>1
  <2>7. \A k \in Counted : \E n \in named : n.site = k.site
    BY <1>0 DEF ReportKnown
  <2>8. Keys = {n.site : n \in named}
    <3>1. Keys = {k.site : k \in Counted}
      BY <2>5 DEF Keys
    <3>2. QED
      BY <2>1, <2>7, <3>1
  <2>9. {[id |-> n.id, op |-> n.site.op] : n \in named} = {[id |-> IdOf(x), op |-> x.op] : x \in Keys}
    BY <2>6, <2>8
  <2>10. QED
    BY <1>4, <2>3, <2>4, <2>9
<1>5. QED
  BY <1>3, <1>4

(* A callsite has one number and a number one callsite, and the list of    *)
(* callsites has those that were called (mpiPi_query_src,                  *)
(* mpiPi_print_callsites).                                                 *)
THEOREM IdentifiedAlways == Spec => []SitesIdentified
<1>1. ReportInv => SitesIdentified
  BY NamesTold, ListedSites DEF SitesIdentified, ReportInv
<1>2. QED
  BY <1>1, ReportInvariant, PTL

LEMMA RoomForSites ==
    ASSUME ReportInv, ctl.pc = "print"
    PROVE  Cardinality(SitesOf(g.stats)) <= Cardinality(srcs)
<1>0. RecordsKnown /\ NamesKnown /\ MergedKnown
  BY DEF ReportInv
<1> DEFINE ids == {e.id : e \in srcs}
<1>1. IsFiniteSet(srcs) /\ ids = {n.id : n \in named}
  <2> DEFINE numbers == {n.id : n \in named}
  <2>1. setup.depth \in Nat
    BY <1>0, CallFacts
  <2>2. CASE setup.depth = 0
    <3>1. IsFiniteSet(srcs) /\ ids = numbers
      BY <1>0, <2>2 DEF NamesKnown
    <3>2. QED
      BY <3>1
  <2>3. CASE setup.depth > 0
    <3>1. IsFiniteSet(srcs) /\ srcs = {EntryOf(n) : n \in named}
      BY <1>0, <2>3 DEF NamesKnown
    <3>2. \A n : EntryOf(n).id = n.id
      BY DEF EntryOf
    <3>3. ids = numbers
      <4>1. \A x \in ids : x \in numbers
        BY <3>1, <3>2
      <4>2. \A x \in numbers : x \in ids
        BY <3>1, <3>2
      <4>3. QED
        BY <4>1, <4>2
    <3>4. QED
      BY <3>1, <3>3
  <2>4. setup.depth = 0 \/ setup.depth > 0
    BY <2>1
  <2>5. QED
    BY <2>2, <2>3, <2>4
<1>2. SitesOf(g.stats) \subseteq ids
  BY <1>0, <1>1 DEF MergedKnown, SitesOf
<1>3. IsFiniteSet(ids) /\ Cardinality(ids) <= Cardinality(srcs)
  <2> DEFINE f == [e \in srcs |-> e.id]
  <2>1. f \in Surjection(srcs, ids)
    BY DEF Surjection
  <2>2. QED
    BY <1>1, <2>1, FS_Surjection
<1>4. Cardinality(SitesOf(g.stats)) <= Cardinality(ids)
  <2> HIDE DEF ids
  <2>1. QED
    BY <1>2, <1>3, FS_Subset
<1>5. Cardinality(SitesOf(g.stats)) \in Nat /\ Cardinality(ids) \in Nat /\ Cardinality(srcs) \in Nat
  <2>1. IsFiniteSet(SitesOf(g.stats))
    BY <1>2, <1>3, FS_Subset
  <2> HIDE DEF ids
  <2>2. QED
    BY <1>1, <1>3, <2>1, FS_CardinalityType
<1> HIDE DEF ids
<1>6. QED
  BY <1>3, <1>4, <1>5

(* The arrays of the collector have room for what is written to them       *)
(* (mpiPi.c:236, report.c:1145).                                           *)
THEOREM FitAlways == Spec => []ArraysFit
<1>1. ASSUME ReportInv, setup.depth > 0 \/ ~setup.cov, NEW c \in g.covRoom, NEW d \in g.covRoom,
             c[1] = d[1], c[2] = d[2], c[4] = d[4]
      PROVE  c = d
  <2>1. /\ g.covRoom \subseteq Nat \X Ranks \X Seq(Nat) \X Operations
        /\ c[3] = d[3]
    BY <1>1 DEF ReportInv, MergedKnown
  <2>2. c = <<c[1], c[2], c[3], c[4]>> /\ d = <<d[1], d[2], d[3], d[4]>>
    BY <2>1
  <2>3. QED
    BY <1>1, <2>1, <2>2
<1>2. ReportInv => ArraysFit
  BY <1>1, RoomForSites DEF ArraysFit
<1>3. QED
  BY <1>2, ReportInvariant, PTL
-----------------------------------------------------------------------------
(***************************************************************************)
(* What the collector's tables have of the calls, and the rows that are    *)
(* printed of them.                                                        *)
(***************************************************************************)
(* The calls of the ranks R at the callsites with the number id. *)
Group(N, K, R, id) == {k \in K : k.rank \in R /\ \E n \in N : n.site = k.site /\ n.id = id}

(* The calls whose records the collector has taken. *)
Taken == {k \in Counted : \A p \in ctl.pending : ~(p.rank = k.rank /\ SiteOf(p) = k.site)}

(* A table with a record for each number that represents the calls of the  *)
(* ranks R; the records themselves are marked with one rank.               *)
Groups(T, mark, R, N, K, c) ==
    /\ T \in SUBSET RecordsOf({mark}) /\ IsFiniteSet(T)
    /\ \A p \in T : /\ Group(N, K, R, p.csid) # {}
                    /\ Represents(p, Group(N, K, R, p.csid), c)
                    /\ \E n \in N : n.id = p.csid /\ n.site = SiteOf(p)
    /\ \A p, q \in T : p.csid = q.csid => p = q
    /\ \A k \in K : k.rank \in R => \E p \in T, n \in N : n.site = k.site /\ n.id = p.csid

OfRank(T, r) == {p \in T : p.rank = r}

(* The tables and the totals h of the collector have the calls of K. *)
HasTotals(h) == h.task \in [Ranks -> Nat] /\ h.total \in [Fields -> Nat] /\ h.sentCount \in Nat

HasCalls(h, N, K, c) ==
    /\ \A k \in K : \E n \in N : n.site = k.site
    /\ Groups(h.agg, Star, Ranks, N, K, c)
    /\ ~setup.collective => \A r \in Ranks : Groups(OfRank(h.stats, r), r, {r}, N, K, c)
    /\ \A r \in Ranks : h.task[r] = Amount(c, {k \in K : k.rank = r}, "time")
    /\ \A k \in K : /\ \A f \in Fields : k.amount[f] <= h.total[f]
                    /\ k.amount["sent"] > 0 => h.sentCount > 0

(* While a report is made, they have those that the collector has taken. *)
CallsMerged == HasTotals(g) /\ (ctl.pc # "run" => HasCalls(g, named, Taken, calls))

(***************************************************************************)
(* Sorting.                                                                *)
(***************************************************************************)
Sorts(seq, v, S) ==
    /\ seq \in SetToSeqs(S)
    /\ \A i, j \in DOMAIN seq : i < j => v[seq[i]] >= v[seq[j]]

LEMMA SortedExists ==
    ASSUME NEW S, IsFiniteSet(S), NEW v, \A x \in S : v[x] \in Int
    PROVE  \E seq : Sorts(seq, v, S)
<1> DEFINE Least(s, x) == x \in s /\ \A y \in s : v[x] <= v[y]
           pick == [s \in SUBSET S |-> CHOOSE x : Least(s, x)]
           Good == {s \in SUBSET S : \E seq : Sorts(seq, v, s)}
<1>1. ASSUME NEW s \in SUBSET S, s # {}
      PROVE  Least(s, pick[s])
  <2> DEFINE values == {v[x] : x \in s}
  <2>1. values # {} /\ values \subseteq Int /\ IsFiniteSet(values)
    <3>1. IsFiniteSet(s)
      BY FS_Subset
    <3> DEFINE f == [x \in s |-> v[x]]
    <3>2. f \in Surjection(s, values)
      BY DEF Surjection
    <3> HIDE DEF f, values
    <3>3. IsFiniteSet(values)
      BY <3>1, <3>2, FS_Surjection
    <3>4. QED
      BY <1>1, <3>3 DEF values
  <2> HIDE DEF values
  <2>2. PICK m \in values : \A n \in values : m <= n
    BY <2>1, LeastInteger
  <2>3. \E x : Least(s, x)
    BY <2>2 DEF values
  <2> HIDE DEF Least
  <2>4. QED
    BY <2>3
<1>2. \A s \in SUBSET S : s # {} => pick[s] \in s
  BY <1>1
<1>3. {} \in Good
  <2> DEFINE none == [i \in 1 .. 0 |-> i]
  <2>1. Cardinality({}) = 0
    BY FS_EmptySet
  <2>2. none \in SetToSeqs({}) /\ DOMAIN none = {}
    BY <2>1 DEF SetToSeqs
  <2> HIDE DEF none
  <2>3. Sorts(none, v, {})
    BY <2>2 DEF Sorts
  <2>4. QED
    BY <2>3
<1>4. ASSUME NEW s \in SUBSET S, s # {}, s \ {pick[s]} \in Good
      PROVE  s \in Good
  <2> DEFINE m == pick[s]
             rest == s \ {m}
             n == Cardinality(rest)
  <2>1. m \in s /\ \A y \in s : v[m] <= v[y]
    BY <1>1, <1>4
  <2>2. PICK seq : Sorts(seq, v, rest)
    BY <1>4
  <2> DEFINE all == [i \in 1 .. (n + 1) |-> IF i <= n THEN seq[i] ELSE m]
  <2>3. IsFiniteSet(rest) /\ n \in Nat /\ Cardinality(s) = n + 1
    <3>1. IsFiniteSet(s) /\ IsFiniteSet(rest)
      BY FS_Subset
    <3>2. Cardinality(s) \in Nat /\ n \in Nat
      BY <3>1, FS_CardinalityType
    <3>3. n = Cardinality(s) - 1
      BY <2>1, <3>1, FS_RemoveElement
    <3>4. QED
      BY <3>1, <3>2, <3>3
  <2> HIDE DEF n, m
  <2>4. /\ seq \in [1 .. n -> rest] /\ \A i, j \in 1 .. n : i # j => seq[i] # seq[j]
        /\ \A i, j \in 1 .. n : i < j => v[seq[i]] >= v[seq[j]]
    <3>1. seq \in [1 .. n -> rest] /\ \A i, j \in 1 .. n : i # j => seq[i] # seq[j]
      BY <2>2 DEF Sorts, SetToSeqs, n
    <3>2. QED
      BY <2>2, <3>1 DEF Sorts
  <2>5. \A i \in 1 .. n : all[i] = seq[i] /\ seq[i] \in rest /\ seq[i] \in s /\ seq[i] # m
    BY <2>3, <2>4
  <2>6. all[n + 1] = m /\ DOMAIN all = 1 .. (n + 1)
    BY <2>3
  <2>7. \A i \in 1 .. (n + 1) : i \in 1 .. n \/ i = n + 1
    BY <2>3
  <2> HIDE DEF all, rest
  <2>8. \A i \in 1 .. (n + 1) : all[i] \in s
    BY <2>1, <2>5, <2>6, <2>7
  <2>9. \A i, j \in 1 .. (n + 1) : i # j => all[i] # all[j]
    BY <2>4, <2>5, <2>6, <2>7
  <2>10. \A i, j \in 1 .. (n + 1) : i < j => v[all[i]] >= v[all[j]]
    <3>1. SUFFICES ASSUME NEW i \in 1 .. (n + 1), NEW j \in 1 .. (n + 1), i < j
                   PROVE  v[all[i]] >= v[all[j]]
      OBVIOUS
    <3>2. i \in 1 .. n
      BY <2>3, <3>1
    <3>3. CASE j \in 1 .. n
      BY <2>4, <2>5, <3>1, <3>2, <3>3
    <3>4. CASE j = n + 1
      <4>1. v[m] <= v[seq[i]] /\ v[m] \in Int /\ v[seq[i]] \in Int
        BY <2>1, <2>5, <3>2
      <4>2. all[i] = seq[i] /\ all[j] = m
        BY <2>5, <2>6, <3>2, <3>4
      <4>3. QED
        BY <4>1, <4>2
    <3>5. QED
      BY <2>7, <3>3, <3>4
  <2>11. all = [i \in 1 .. (n + 1) |-> all[i]]
    BY DEF all
  <2>12. all \in SetToSeqs(s)
    <3>1. all \in [1 .. (n + 1) -> s]
      BY <2>8, <2>11
    <3>2. QED
      BY <2>3, <2>9, <3>1 DEF SetToSeqs
  <2>13. Sorts(all, v, s)
    BY <2>6, <2>10, <2>12 DEF Sorts
  <2>14. QED
    BY <2>13
<1> HIDE DEF pick, Good
<1>5. \A s \in SUBSET S : s \in Good
  BY ONLY IsFiniteSet(S), <1>2, <1>3, <1>4, SubsetInduction
<1>6. QED
  BY <1>5 DEF Good

LEMMA DescendingFacts ==
    ASSUME NEW S, IsFiniteSet(S), NEW v \in [S -> Int]
    PROVE  /\ Cardinality(S) \in Nat
           /\ Descending(v) \in [1 .. Cardinality(S) -> S] /\ Len(Descending(v)) = Cardinality(S)
           /\ \A x \in S : \E i \in 1 .. Cardinality(S) : Descending(v)[i] = x
           /\ \A i, j \in 1 .. Cardinality(S) : i < j => v[Descending(v)[i]] >= v[Descending(v)[j]]
           /\ \A i, j \in 1 .. Cardinality(S) : i # j => Descending(v)[i] # Descending(v)[j]
<1> DEFINE seq == Descending(v)
           n == Cardinality(S)
<1>1. n \in Nat
  BY FS_CardinalityType
<1>2. Sorts(seq, v, S)
  <2>1. DOMAIN v = S /\ \A x \in S : v[x] \in Int
    OBVIOUS
  <2>2. PICK s : Sorts(s, v, S)
    BY <2>1, SortedExists
  <2>3. seq = CHOOSE q \in SetToSeqs(S) : \A i, j \in DOMAIN q : i < j => v[q[i]] >= v[q[j]]
    BY <2>1 DEF Descending
  <2> HIDE DEF seq
  <2>4. QED
    BY <2>2, <2>3 DEF Sorts
<1> HIDE DEF seq
<1>3. seq \in [1 .. n -> S] /\ \A i, j \in 1 .. n : i # j => seq[i] # seq[j]
  BY <1>2 DEF Sorts, SetToSeqs
<1>4. Len(seq) = n
  <2>1. DOMAIN seq = 1 .. n /\ seq \in Seq(S)
    BY <1>1, <1>3
  <2>2. QED
    BY <1>1, <2>1
<1>5. \A x \in S : \E i \in 1 .. n : seq[i] = x
  <2>1. seq \in Injection(1 .. n, S)
    <3>1. IsInjective(seq)
      BY <1>3 DEF IsInjective
    <3>2. QED
      BY <1>3, <3>1 DEF Injection
  <2>2. IsFiniteSet(1 .. n) /\ Cardinality(1 .. n) = n
    BY <1>1, FS_Interval
  <2>3. seq \in Surjection(1 .. n, S)
    BY <2>1, <2>2, FS_Injection
  <2>4. QED
    BY <2>3 DEF Surjection
<1>6. \A i, j \in 1 .. n : i < j => v[seq[i]] >= v[seq[j]]
  BY <1>2, <1>3 DEF Sorts
<1>7. QED
  BY <1>1, <1>3, <1>4, <1>5, <1>6 DEF seq

(***************************************************************************)
(* A record is merged into a table.                                        *)
(***************************************************************************)
(* A callsite has one number, and a number one operation. *)
Naming(N) ==
    /\ \A n \in N : n.site \in Sites /\ n.id \in Nat
    /\ \A m, n \in N : m.site = n.site => m.id = n.id
    /\ \A m, n \in N : m.id = n.id => m.site.op = n.site.op

LEMMA GroupMore ==
    ASSUME NEW N, NEW new, Naming(N \cup {new}), NEW K, NEW L, NEW R, NEW id,
           \A k \in K : \E n \in N : n.site = k.site,
           \A k \in L : k.site = new.site
    PROVE  Group(N \cup {new}, K \cup L, R, id) =
              Group(N, K, R, id) \cup (IF id = new.id THEN {k \in L : k.rank \in R} ELSE {})
<1> DEFINE M == N \cup {new}
           more == IF id = new.id THEN {k \in L : k.rank \in R} ELSE {}
<1>1. \A m, n \in M : m.site = n.site => m.id = n.id
  BY DEF Naming
<1>2. \A k \in K \cup L : k \in Group(M, K \cup L, R, id) => k \in Group(N, K, R, id) \cup more
  <2>1. SUFFICES ASSUME NEW k \in K \cup L, k.rank \in R, NEW n \in M, n.site = k.site, n.id = id
                 PROVE  k \in Group(N, K, R, id) \cup more
    BY DEF Group
  <2>2. CASE k \in K
    <3>1. PICK o \in N : o.site = k.site
      BY <2>2
    <3>2. o.id = id
      BY <1>1, <2>1, <3>1
    <3>3. QED
      BY <2>1, <2>2, <3>1, <3>2 DEF Group
  <2>3. CASE k \in L
    <3>1. n.id = new.id
      BY <1>1, <2>1, <2>3
    <3>2. QED
      BY <2>1, <2>3, <3>1
  <2>4. QED
    BY <2>2, <2>3
<1>3. Group(N, K, R, id) \cup more \subseteq Group(M, K \cup L, R, id)
  <2>1. Group(N, K, R, id) \subseteq Group(M, K \cup L, R, id)
    BY DEF Group
  <2>2. more \subseteq Group(M, K \cup L, R, id)
    BY DEF Group
  <2>3. QED
    BY <2>1, <2>2
<1>4. Group(M, K \cup L, R, id) \subseteq K \cup L
  BY DEF Group
<1>5. QED
  BY <1>2, <1>3, <1>4

(* A table to which the record does not belong. *)
LEMMA GroupsKept ==
    ASSUME NEW N, NEW new, Naming(N \cup {new}), NEW K, NEW L, NEW R, NEW mark, NEW c,
           \A k \in K : \E n \in N : n.site = k.site,
           \A k \in L : k.site = new.site /\ k.rank \notin R,
           NEW T, Groups(T, mark, R, N, K, c)
    PROVE  Groups(T, mark, R, N \cup {new}, K \cup L, c)
<1>1. \A id : Group(N \cup {new}, K \cup L, R, id) = Group(N, K, R, id)
  <2>1. SUFFICES ASSUME NEW id
                 PROVE  Group(N \cup {new}, K \cup L, R, id) = Group(N, K, R, id)
    OBVIOUS
  <2>2. {k \in L : k.rank \in R} = {}
    OBVIOUS
  <2>3. Group(N \cup {new}, K \cup L, R, id) =
           Group(N, K, R, id) \cup (IF id = new.id THEN {k \in L : k.rank \in R} ELSE {})
    BY GroupMore
  <2>4. QED
    BY <2>2, <2>3
<1>2. \A k \in K \cup L : k.rank \in R => \E p \in T, n \in N \cup {new} : n.site = k.site /\ n.id = p.csid
  BY DEF Groups
<1>3. QED
  BY <1>1, <1>2 DEF Groups

(* The record q of the calls of L, all at one callsite, is merged. *)
LEMMA GroupsMore ==
    ASSUME NEW N, NEW new, Naming(N \cup {new}), NEW c \in Bags,
           NEW K \in SUBSET DOMAIN c, NEW L \in SUBSET DOMAIN c, L # {}, K \cap L = {},
           \A k \in K : \E n \in N : n.site = k.site,
           NEW R, \A k \in L : k.site = new.site /\ k.rank \in R,
           NEW T, NEW mark, Groups(T, mark, R, N, K, c),
           NEW q \in RecordsOf(Ranks), SiteOf(q) = new.site, q.csid = new.id, Represents(q, L, c)
    PROVE  Groups(Accumulate(T, q, [q EXCEPT !.rank = mark], SameSrcId), mark, R,
                  N \cup {new}, K \cup L, c)
<1> DEFINE M == N \cup {new}
           found == Matching(T, q, SameSrcId)
           copy == [q EXCEPT !.rank = mark]
           U == Accumulate(T, q, copy, SameSrcId)
<1>1. /\ T \in SUBSET RecordsOf({mark}) /\ IsFiniteSet(T)
      /\ \A p \in T : /\ Group(N, K, R, p.csid) # {}
                      /\ Represents(p, Group(N, K, R, p.csid), c)
                      /\ \E n \in N : n.id = p.csid /\ n.site = SiteOf(p)
      /\ \A p, o \in T : p.csid = o.csid => p = o
      /\ \A k \in K : k.rank \in R => \E p \in T, n \in N : n.site = k.site /\ n.id = p.csid
  BY DEF Groups
<1>2. {k \in L : k.rank \in R} = L
  OBVIOUS
<1>3. /\ \A id : id # new.id => Group(M, K \cup L, R, id) = Group(N, K, R, id)
      /\ Group(M, K \cup L, R, new.id) = Group(N, K, R, new.id) \cup L
  <2>1. ASSUME NEW id
        PROVE  Group(M, K \cup L, R, id) =
                  Group(N, K, R, id) \cup (IF id = new.id THEN {k \in L : k.rank \in R} ELSE {})
    BY GroupMore
  <2> HIDE DEF M
  <2>2. QED
    BY <1>2, <2>1
<1>4. \A k \in L : \E n \in M : n.site = k.site /\ n.id = q.csid
  OBVIOUS
<1>5. found = {p \in T : p.csid = q.csid}
  <2>1. ASSUME NEW p \in T, p.csid = q.csid
        PROVE  p.op = q.op
    <3>1. PICK n \in N : n.id = p.csid /\ n.site = SiteOf(p)
      BY <1>1
    <3>2. n.site.op = new.site.op
      BY <2>1, <3>1 DEF Naming
    <3>3. QED
      BY <3>1, <3>2 DEF SiteOf
  <2>2. found = {p \in T : p.op = q.op /\ p.csid = q.csid}
    BY DEF Matching, SameSrcId
  <2>3. QED
    BY <2>1, <2>2
<1>6. \A p \in U : p.csid # q.csid => p \in T
  <2>1. CASE found = {}
    <3>1. U = T \cup {copy}
      BY <2>1 DEF Accumulate
    <3>2. copy.csid = q.csid
      BY DEF RecordsOf
    <3>3. QED
      BY <3>1, <3>2
  <2>2. CASE found # {}
    <3> DEFINE o == CHOOSE o \in found : TRUE
    <3>1. U = (T \ {o}) \cup {MergeCallsite(o, q)}
      BY <2>2 DEF Accumulate
    <3>2. o \in RecordsOf({mark}) /\ o.csid = q.csid
      BY <1>1, <1>5, <2>2
    <3> HIDE DEF o, U
    <3>3. MergeCallsite(o, q).csid = q.csid
      BY <3>2, MergedType
    <3>4. QED
      BY <3>1, <3>3
  <2>3. QED
    BY <2>1, <2>2
<1>7. \A p \in T : p.csid # q.csid => p \in U
  <2>1. CASE found = {}
    BY <2>1 DEF Accumulate
  <2>2. CASE found # {}
    <3> DEFINE o == CHOOSE o \in found : TRUE
    <3>1. U = (T \ {o}) \cup {MergeCallsite(o, q)}
      BY <2>2 DEF Accumulate
    <3>2. o.csid = q.csid
      BY <1>5, <2>2
    <3> HIDE DEF o, U
    <3>3. QED
      BY <3>1, <3>2
  <2>3. QED
    BY <2>1, <2>2
<1>8. PICK m : /\ m \in U /\ m \in RecordsOf({mark}) /\ m.csid = q.csid
               /\ Represents(m, Group(M, K \cup L, R, q.csid), c)
               /\ \E n \in M : n.id = m.csid /\ n.site = SiteOf(m)
               /\ \A p \in U : p.csid = q.csid => p = m
               /\ IsFiniteSet(U)
  <2>1. CASE found = {}
    <3>1. U = T \cup {copy}
      BY <2>1 DEF Accumulate
    <3>2. copy \in RecordsOf({mark}) /\ copy.csid = q.csid /\ SiteOf(copy) = SiteOf(q)
      BY DEF RecordsOf, SiteOf
    <3>3. Group(N, K, R, q.csid) = {}
      <4>1. SUFFICES ASSUME NEW k \in Group(N, K, R, q.csid)
                     PROVE  FALSE
        OBVIOUS
      <4>2. PICK n \in N : k \in K /\ k.rank \in R /\ n.site = k.site /\ n.id = q.csid
        BY DEF Group
      <4>3. PICK p \in T, o \in N : o.site = k.site /\ o.id = p.csid
        BY <1>1, <4>2
      <4>4. p.csid = q.csid
        BY <4>2, <4>3 DEF Naming
      <4>5. QED
        BY <1>5, <2>1, <4>4
    <3>4. Group(M, K \cup L, R, q.csid) = L
      BY <1>3, <3>3
    <3>5. Represents(copy, L, c)
      <4>1. copy.count = q.count /\ copy.large = q.large /\ copy.sum = q.sum
            /\ copy.max = q.max /\ copy.min = q.min
        BY DEF RecordsOf
      <4> HIDE DEF copy
      <4>2. QED
        BY <4>1 DEF Represents
    <3>6. \A p \in U : p.csid = q.csid => p = copy
      BY <1>5, <2>1, <3>1
    <3>7. IsFiniteSet(U)
      BY <1>1, <3>1, FS_AddElement
    <3> HIDE DEF copy
    <3>8. QED
      BY <3>1, <3>2, <3>4, <3>5, <3>6, <3>7
  <2>2. CASE found # {}
    <3> DEFINE o == CHOOSE o \in found : TRUE
               G == Group(N, K, R, q.csid)
    <3>1. U = (T \ {o}) \cup {MergeCallsite(o, q)}
      BY <2>2 DEF Accumulate
    <3>2. o \in T /\ o \in RecordsOf({mark}) /\ o.csid = q.csid
      BY <1>1, <1>5, <2>2
    <3> HIDE DEF o
    <3>3. Represents(o, G, c) /\ \E n \in N : n.id = o.csid /\ n.site = SiteOf(o)
      BY <1>1, <3>2
    <3>4. G \in SUBSET DOMAIN c /\ G \cap L = {}
      BY DEF Group
    <3>5. o \in RecordsFor({mark}, SiteOf(o), q.csid, G, c)
      BY <3>2, <3>3 DEF RecordsFor
    <3>6. q \in RecordsFor(Ranks, SiteOf(q), q.csid, L, c)
      BY DEF RecordsFor
    <3> HIDE DEF G
    <3>7. MergeCallsite(o, q) \in RecordsFor({mark}, SiteOf(o), q.csid, G \cup L, c)
      BY <3>4, <3>5, <3>6, MergedRecord
    <3> DEFINE m == MergeCallsite(o, q)
    <3>8. /\ m \in RecordsOf({mark}) /\ SiteOf(m) = SiteOf(o) /\ m.csid = q.csid
          /\ Represents(m, G \cup L, c)
      BY <3>7 DEF RecordsFor
    <3>9. Group(M, K \cup L, R, q.csid) = G \cup L
      BY <1>3 DEF G
    <3>10. \A p \in U : p.csid = q.csid => p = m
      BY <1>1, <3>1, <3>2
    <3>11. IsFiniteSet(U)
      <4>1. IsFiniteSet(T \ {o})
        BY <1>1, FS_RemoveElement
      <4>2. QED
        BY <3>1, <4>1, FS_AddElement
    <3> HIDE DEF m, U
    <3>12. m \in U /\ \E n \in M : n.id = m.csid /\ n.site = SiteOf(m)
      BY <3>1, <3>2, <3>3, <3>8 DEF m
    <3>13. QED
      BY <3>8, <3>9, <3>10, <3>11, <3>12
  <2>3. QED
    BY <2>1, <2>2
<1> HIDE DEF U, M, found, copy
<1>9. ASSUME NEW p \in U
      PROVE  /\ p \in RecordsOf({mark})
             /\ Group(M, K \cup L, R, p.csid) # {}
             /\ Represents(p, Group(M, K \cup L, R, p.csid), c)
             /\ \E n \in M : n.id = p.csid /\ n.site = SiteOf(p)
  <2>1. CASE p.csid = q.csid
    <3>1. p = m /\ Group(M, K \cup L, R, q.csid) # {}
      BY <1>3, <1>8, <2>1
    <3>2. QED
      BY <1>8, <3>1
  <2>2. CASE p.csid # q.csid
    <3>1. p \in T
      BY <1>6, <2>2
    <3>2. Group(M, K \cup L, R, p.csid) = Group(N, K, R, p.csid)
      BY <1>3, <2>2
    <3>3. \E n \in M : n.id = p.csid /\ n.site = SiteOf(p)
      BY <1>1, <3>1 DEF M
    <3>4. QED
      BY <1>1, <3>1, <3>2, <3>3
  <2>3. QED
    BY <2>1, <2>2
<1>10. \A p, o \in U : p.csid = o.csid => p = o
  BY <1>1, <1>6, <1>8
<1>11. ASSUME NEW k \in K \cup L, k.rank \in R
       PROVE  \E p \in U, n \in M : n.site = k.site /\ n.id = p.csid
  <2>1. CASE k \in L
    BY <1>4, <1>8, <2>1
  <2>2. CASE k \in K
    <3>1. PICK p \in T, n \in N : n.site = k.site /\ n.id = p.csid
      BY <1>1, <1>11, <2>2
    <3>2. n \in M
      BY DEF M
    <3>3. CASE p.csid = q.csid
      BY <1>8, <3>1, <3>2, <3>3
    <3>4. CASE p.csid # q.csid
      BY <1>7, <3>1, <3>2, <3>4
    <3>5. QED
      BY <3>3, <3>4
  <2>3. QED
    BY <2>1, <2>2
<1>12. Groups(U, mark, R, M, K \cup L, c)
  BY <1>8, <1>9, <1>10, <1>11 DEF Groups
<1>13. QED
  BY <1>12 DEF U, M, copy

(***************************************************************************)
(* The collector's tables have the calls whose records it has taken.       *)
(***************************************************************************)
LEMMA AmountAbove ==
    ASSUME NEW c \in Bags, NEW K \in SUBSET DOMAIN c, NEW k \in K
    PROVE  /\ Count(c, K) > 0
           /\ \A f \in Fields : k.amount[f] <= Amount(c, K, f)
<1> DEFINE J == K \ {k}
<1>1. IsFiniteSet(K) /\ IsFiniteSet(J) /\ J \in SUBSET DOMAIN c
  BY BagFacts, FS_RemoveElement
<1>2. c[k] \in Nat \ {0} /\ \A j \in K : c[j] \in Nat
  BY BagFacts
<1>3. Count(c, J) \in Nat
  BY <1>1, BagFacts
<1>4. Count(c, K) = c[k] + Count(c, J)
  BY <1>1, <1>2, SumTakeOut DEF Count
<1>5. ASSUME NEW f \in Fields
      PROVE  k.amount[f] <= Amount(c, K, f)
  <2> DEFINE w == Weighted(c, K, f)
             a == k.amount[f]
  <2>1. \A j \in K : w[j] \in Nat
    BY BagFacts
  <2>2. a \in Nat /\ w[k] = c[k] * a
    BY BagFacts
  <2> HIDE DEF w, a
  <2>3. SumFunctionOnSet(w, K) = w[k] + SumFunctionOnSet(w, J) /\ SumFunctionOnSet(w, J) \in Nat
    BY <1>1, <2>1, SumTakeOut, SumNat
  <2>4. \A m \in Nat \ {0}, n \in Nat : n <= m * n /\ m * n \in Nat
    <3>1. ASSUME NEW m \in Nat \ {0}, NEW n \in Nat
          PROVE  n <= m * n /\ m * n \in Nat
      <4>1. PICK l \in Nat : m = l + 1
        <5>1. m - 1 \in Nat /\ m = (m - 1) + 1
          OBVIOUS
        <5>2. QED
          BY <5>1
      <4>2. (l + 1) * n = l * n + n /\ l * n \in Nat
        OBVIOUS
      <4>3. QED
        BY <4>1, <4>2
    <3>2. QED
      BY <3>1
  <2>5. a <= w[k] /\ w[k] \in Nat
    BY <1>2, <2>2, <2>4
  <2>6. a <= SumFunctionOnSet(w, K)
    BY <2>2, <2>3, <2>5
  <2>7. QED
    BY <2>6 DEF w, a, Amount
<1>6. QED
  BY <1>2, <1>3, <1>4, <1>5

(* Numbers that are given so far, to sites that are known. *)
LEMMA NamingKnown == NamesKnown /\ setup.depth \in Nat => Naming(named)
  BY DEF NamesKnown, Naming

(* The table by callsite and rank has a table by callsite for each rank. *)
LEMMA AccumulatedRanks ==
    ASSUME NEW T, NEW q \in RecordsOf(Ranks), NEW r, OfRank(T, q.rank) \subseteq RecordsOf({q.rank})
    PROVE  OfRank(Accumulate(T, q, q, SameSrc), r) =
              IF r = q.rank THEN Accumulate(OfRank(T, r), q, [q EXCEPT !.rank = r], SameSrcId)
              ELSE OfRank(T, r)
<1> DEFINE found == Matching(T, q, SameSrc)
           own == Matching(OfRank(T, q.rank), q, SameSrcId)
           o == CHOOSE o \in found : TRUE
<1>1. found = own
  BY DEF Matching, SameSrc, SameSrcId, OfRank
<1>2. [q EXCEPT !.rank = q.rank] = q
  BY DEF RecordsOf
<1>3. CASE found = {}
  <2>1. Accumulate(T, q, q, SameSrc) = T \cup {q}
    BY <1>3 DEF Accumulate
  <2>2. Accumulate(OfRank(T, q.rank), q, [q EXCEPT !.rank = q.rank], SameSrcId) =
           OfRank(T, q.rank) \cup {q}
    BY <1>1, <1>2, <1>3 DEF Accumulate
  <2>3. QED
    BY <2>1, <2>2 DEF OfRank
<1>4. CASE found # {}
  <2>1. Accumulate(T, q, q, SameSrc) = (T \ {o}) \cup {MergeCallsite(o, q)}
    BY <1>4 DEF Accumulate
  <2>2. Accumulate(OfRank(T, q.rank), q, [q EXCEPT !.rank = q.rank], SameSrcId) =
           (OfRank(T, q.rank) \ {o}) \cup {MergeCallsite(o, q)}
    BY <1>1, <1>4 DEF Accumulate
  <2>3. o \in OfRank(T, q.rank)
    BY <1>1, <1>4 DEF Matching
  <2> HIDE DEF o
  <2>4. o \in RecordsOf({q.rank}) /\ o.rank = q.rank
    BY <2>3 DEF OfRank
  <2>5. MergeCallsite(o, q).rank = q.rank
    BY <2>4, MergedType
  <2>6. QED
    BY <2>1, <2>2, <2>4, <2>5 DEF OfRank
<1>5. QED
  BY <1>3, <1>4

(* The record q of the calls of L is taken. *)
LEMMA HasMore ==
    ASSUME NEW h, IsGlobal(h), HasTotals(h), NEW c \in Bags,
           NEW N, NEW new, Naming(N \cup {new}),
           NEW K \in SUBSET DOMAIN c, NEW L \in SUBSET DOMAIN c, L # {}, K \cap L = {},
           HasCalls(h, N, K, c),
           NEW q \in RecordsOf(Ranks), SiteOf(q) = new.site, q.csid = new.id, Represents(q, L, c),
           \A k \in L : k.site = new.site /\ k.rank = q.rank
    PROVE  /\ HasTotals(InsertRecord(h, q, setup))
           /\ HasCalls(InsertRecord(h, q, setup), N \cup {new}, K \cup L, c)
<1> DEFINE i == InsertRecord(h, q, setup)
           M == N \cup {new}
           J == K \cup L
<1>1. IsInserted(i, h, q, setup)
  BY InsertedRecord
<1> HIDE DEF i
<1>2. /\ i.stats = IF setup.collective THEN h.stats ELSE Accumulate(h.stats, q, q, SameSrc)
      /\ i.agg = Accumulate(h.agg, q, [q EXCEPT !.rank = Star], SameSrcId)
      /\ i.task = [h.task EXCEPT ![q.rank] = @ + q.sum["time"]]
      /\ i.total = [f \in Fields |-> h.total[f] + q.sum[f]]
      /\ i.sentCount = h.sentCount + IF q.sum["sent"] > 0 THEN q.count ELSE 0
  BY <1>1 DEF IsInserted
<1>3. /\ h.task \in [Ranks -> Nat] /\ h.total \in [Fields -> Nat] /\ h.sentCount \in Nat
      /\ q.rank \in Ranks /\ q.sum \in [Fields -> Nat] /\ q.count \in Nat
  BY DEF HasTotals, RecordsOf
<1>4. /\ q.count = Count(c, L)
      /\ \A f \in Fields : q.sum[f] = Amount(c, L, f)
  BY DEF Represents
<1>5. \A k \in K : \E n \in N : n.site = k.site
  BY DEF HasCalls
<1>6. Groups(h.agg, Star, Ranks, N, K, c)
  BY DEF HasCalls
<1>7. ~setup.collective => \A r \in Ranks : Groups(OfRank(h.stats, r), r, {r}, N, K, c)
  BY DEF HasCalls
<1>8. \A r \in Ranks : h.task[r] = Amount(c, {k \in K : k.rank = r}, "time")
  BY DEF HasCalls
<1>9. \A k \in K : \A f \in Fields : k.amount[f] <= h.total[f]
  BY DEF HasCalls
<1>10. \A k \in K : k.amount["sent"] > 0 => h.sentCount > 0
  BY DEF HasCalls
<1>11. HasTotals(i)
  <2>1. \A f \in Fields : h.total[f] + q.sum[f] \in Nat
    BY <1>3
  <2>2. i.total \in [Fields -> Nat]
    BY <1>2, <2>1
  <2>3. h.task[q.rank] + q.sum["time"] \in Nat
    BY <1>3, FieldsFacts
  <2>4. i.task \in [Ranks -> Nat]
    BY <1>2, <1>3, <2>3
  <2>5. i.sentCount \in Nat
    BY <1>2, <1>3
  <2>6. QED
    BY <2>2, <2>4, <2>5 DEF HasTotals
<1>12. \A k \in J : \E n \in M : n.site = k.site
  BY <1>5
<1>13. Groups(i.agg, Star, Ranks, M, J, c)
  <2>1. \A k \in L : k.site = new.site /\ k.rank \in Ranks
    BY <1>3
  <2>2. QED
    BY <1>2, <1>5, <1>6, <2>1, GroupsMore
<1>14. ASSUME ~setup.collective, NEW r \in Ranks
      PROVE  Groups(OfRank(i.stats, r), r, {r}, M, J, c)
  <2>1. Groups(OfRank(h.stats, r), r, {r}, N, K, c)
    BY <1>7, <1>14
  <2>2. OfRank(h.stats, q.rank) \subseteq RecordsOf({q.rank})
    BY <1>3, <1>7, <1>14 DEF Groups
  <2>3. OfRank(i.stats, r) =
           IF r = q.rank THEN Accumulate(OfRank(h.stats, r), q, [q EXCEPT !.rank = r], SameSrcId)
           ELSE OfRank(h.stats, r)
    BY <1>2, <1>14, <2>2, AccumulatedRanks, SMTT(30)
  <2>4. CASE r = q.rank
    <3>1. \A k \in L : k.site = new.site /\ k.rank \in {r}
      BY <2>4
    <3>2. OfRank(i.stats, r) = Accumulate(OfRank(h.stats, r), q, [q EXCEPT !.rank = r], SameSrcId)
      BY <2>3, <2>4
    <3>3. QED
      BY <1>5, <2>1, <3>1, <3>2, GroupsMore
  <2>5. CASE r # q.rank
    <3>1. \A k \in L : k.site = new.site /\ k.rank \notin {r}
      BY <2>5
    <3>2. OfRank(i.stats, r) = OfRank(h.stats, r)
      BY <2>3, <2>5
    <3>3. QED
      BY <1>5, <2>1, <3>1, <3>2, GroupsKept
  <2>6. QED
    BY <2>4, <2>5
<1>15. ASSUME NEW r \in Ranks
       PROVE  i.task[r] = Amount(c, {k \in J : k.rank = r}, "time")
  <2> DEFINE A == {k \in K : k.rank = r}
  <2>1. h.task[r] = Amount(c, A, "time") /\ h.task[r] \in Nat
    BY <1>3, <1>8
  <2>2. CASE r = q.rank
    <3>1. {k \in J : k.rank = r} = A \cup L
      BY <2>2
    <3>2. A \in SUBSET DOMAIN c /\ A \cap L = {}
      OBVIOUS
    <3> HIDE DEF A
    <3>3. Amount(c, A \cup L, "time") = Amount(c, A, "time") + Amount(c, L, "time")
      BY <3>2, CountUnion, FieldsFacts
    <3>4. i.task[r] = h.task[r] + q.sum["time"]
      BY <1>2, <1>3, <2>2
    <3>5. QED
      BY <1>4, <2>1, <3>1, <3>3, <3>4, FieldsFacts
  <2>3. CASE r # q.rank
    <3>1. {k \in J : k.rank = r} = A
      BY <2>3
    <3>2. i.task[r] = h.task[r]
      BY <1>2, <1>3, <2>3
    <3>3. QED
      BY <2>1, <3>1, <3>2
  <2>4. QED
    BY <2>2, <2>3
<1>16. ASSUME NEW k \in J
       PROVE  /\ \A f \in Fields : k.amount[f] <= i.total[f]
              /\ k.amount["sent"] > 0 => i.sentCount > 0
  <2>1. \A f \in Fields : k.amount[f] \in Nat
    BY BagFacts
  <2>2. \A f \in Fields : i.total[f] = h.total[f] + q.sum[f] /\ h.total[f] \in Nat /\ q.sum[f] \in Nat
    BY <1>2, <1>3
  <2>3. CASE k \in K
    <3>1. \A f \in Fields : k.amount[f] <= h.total[f]
      BY <1>9, <2>3
    <3>2. \A f \in Fields : k.amount[f] <= i.total[f]
      BY <2>1, <2>2, <3>1
    <3>3. k.amount["sent"] > 0 => i.sentCount > 0
      BY <1>2, <1>3, <1>10, <2>3
    <3>4. QED
      BY <3>2, <3>3
  <2>4. CASE k \in L
    <3>1. /\ Count(c, L) > 0 /\ \A f \in Fields : k.amount[f] <= Amount(c, L, f)
      BY <2>4, AmountAbove
    <3>2. \A f \in Fields : k.amount[f] <= q.sum[f]
      BY <1>4, <3>1
    <3>3. \A f \in Fields : k.amount[f] <= i.total[f]
      BY <2>1, <2>2, <3>2
    <3>4. ASSUME k.amount["sent"] > 0
          PROVE  i.sentCount > 0
      <4>1. q.sum["sent"] > 0
        BY <2>1, <2>2, <3>2, <3>4, FieldsFacts
      <4>2. i.sentCount = h.sentCount + q.count
        BY <1>2, <4>1
      <4>3. QED
        BY <1>3, <1>4, <3>1, <4>2
    <3>5. QED
      BY <3>3, <3>4
  <2>5. QED
    BY <2>3, <2>4
<1>17. HasCalls(i, M, J, c)
  BY <1>12, <1>13, <1>14, <1>15, <1>16 DEF HasCalls
<1>18. QED
  BY <1>11, <1>17 DEF i

LEMMA GroupsSame ==
    ASSUME setup' = setup
    PROVE  \A T, mark, R, N, K, c : Groups(T, mark, R, N, K, c)' = Groups(T, mark, R, N, K, c)
<1>1. \A K : LargeOf(K)' = LargeOf(K)
  BY DEF LargeOf
<1>2. \A p, K, c : Represents(p, K, c)' = Represents(p, K, c)
  BY <1>1 DEF Represents
<1>3. SUFFICES ASSUME NEW T, NEW mark, NEW R, NEW N, NEW K, NEW c
               PROVE  Groups(T, mark, R, N, K, c)' = Groups(T, mark, R, N, K, c)
  OBVIOUS
<1>4. QED
  BY <1>2 DEF Groups

LEMMA HasSame ==
    ASSUME setup' = setup
    PROVE  \A h, N, K, c : HasCalls(h, N, K, c)' <=> HasCalls(h, N, K, c)
<1>1. \A T, mark, R, N, K, c : Groups(T, mark, R, N, K, c)' <=> Groups(T, mark, R, N, K, c)
  BY GroupsSame
<1>2. QED
  BY <1>1 DEF HasCalls

LEMMA MergedSteady ==
    ASSUME CallsMerged, UNCHANGED <<setup, calls, named>>,
           ctl'.pc # "run" => ctl.pc # "run" /\ ctl'.pending = ctl.pending,
           g'.agg = g.agg, g'.stats = g.stats, g'.task = g.task, g'.total = g.total,
           g'.sentCount = g.sentCount
    PROVE  CallsMerged'
<1>1. HasTotals(g)'
  BY DEF CallsMerged, HasTotals
<1>2. ASSUME ctl'.pc # "run"
      PROVE  HasCalls(g, named, Taken, calls)'
  <2>1. Counted' = Counted
    BY DEF Counted
  <2>2. Taken' = Taken
    BY <1>2, <2>1 DEF Taken
  <2>3. HasCalls(g, named, Taken, calls)
    BY <1>2 DEF CallsMerged
  <2>4. HasCalls(g', named, Taken, calls)
    BY <2>3 DEF HasCalls
  <2>5. \A h, N, K, c : HasCalls(h, N, K, c)' <=> HasCalls(h, N, K, c)
    BY HasSame
  <2>6. HasCalls(g', named', Taken', calls')
    BY <2>2, <2>4
  <2>7. QED
    BY <2>5, <2>6
<1>3. QED
  BY <1>1, <1>2 DEF CallsMerged

LEMMA HasNothing ==
    ASSUME NEW h, NEW N, NEW c, h.agg = {}, h.stats = {}, h.task = [r \in Ranks |-> 0]
    PROVE  HasCalls(h, N, {}, c)
<1>1. \A mark, R : Groups({}, mark, R, N, {}, c)
  BY FS_EmptySet DEF Groups
<1>2. \A r : OfRank(h.stats, r) = {}
  BY DEF OfRank
<1>3. \A r \in Ranks : h.task[r] = Amount(c, {k \in {} : k.rank = r}, "time")
  <2>1. \A r : {k \in {} : k.rank = r} = {}
    OBVIOUS
  <2>2. Amount(c, {}, "time") = 0
    BY SumEmpty DEF Amount
  <2>3. QED
    BY <2>1, <2>2
<1>4. QED
  BY <1>1, <1>2, <1>3 DEF HasCalls

LEMMA ReportMerged ==
    ASSUME ReportInv, CallsMerged, NEW style, Report(style)
    PROVE  CallsMerged'
<1> DEFINE all == UNION {MergedThreads(r) : r \in Ranks}
<1>1. /\ RecordsKnown /\ MergedKnown /\ UNCHANGED <<setup, named, calls>>
      /\ ctl.pc = "run" /\ HasTotals(g)
  BY DEF ReportInv, Report, caches, CallsMerged
<1>2. CASE all = {}
  <2>1. UNCHANGED <<ctl, g>>
    BY <1>2 DEF Report
  <2>2. QED
    BY <1>1, <2>1, MergedSteady
<1>3. CASE all # {}
  <2>1. /\ ctl' = [Running EXCEPT !.pc = "merge", !.pending = all, !.style = style]
        /\ g' = OpenTables(g)
    BY <1>3 DEF Report
  <2> HIDE DEF all
  <2>2. ctl'.pending = all
    BY <2>1 DEF Running
  <2>3. IsGlobal(g) /\ g.total \in [Fields -> Nat] /\ g.sentCount \in Nat
    BY <1>1 DEF MergedKnown, HasTotals
  <2> DEFINE total == [g.total EXCEPT !["time"] = 0, !["sent"] = 0]
             task == [r \in Ranks |-> 0]
  <2>4. total \in [Fields -> Nat] /\ task \in [Ranks -> Nat]
    BY <2>3
  <2>5. g' = [g EXCEPT !.stats = {}, !.agg = {}, !.ops = {}, !.covRoom = {},
                       !.total = total, !.task = task]
    BY <2>1, <2>3 DEF OpenTables, IsGlobal
  <2> HIDE DEF total, task
  <2>6. /\ g'.agg = {} /\ g'.stats = {} /\ g'.task = task /\ g'.total = total
        /\ g'.sentCount = g.sentCount
    BY <2>3, <2>5 DEF IsGlobal
  <2>7. HasTotals(g')
    BY <2>3, <2>4, <2>6 DEF HasTotals
  <2>8. Taken' = {}
    <3>1. SUFFICES ASSUME NEW k \in Counted, \A p \in all : ~(p.rank = k.rank /\ SiteOf(p) = k.site)
                   PROVE  FALSE
      <4>1. Counted' = Counted
        BY <1>1 DEF Counted
      <4>2. QED
        BY <2>2, <3>1, <4>1 DEF Taken
    <3>2. k.rank \in Ranks
      <4>1. k \in CallSet
        BY <1>1, CallFacts
      <4>2. QED
        BY <4>1 DEF CallSet
    <3>3. MergedThreads(k.rank) \in Tables(k.rank, CallsBy(k.rank), calls)
      BY <1>1, <3>2, MergedRankTable
    <3>4. PICK p \in MergedThreads(k.rank) : SiteOf(p) = k.site
      BY <1>1, <3>2, <3>3, RankRecords
    <3>5. p.rank = k.rank
      BY <1>1, <3>2, <3>3, RankRecords
    <3>6. p \in all
      BY <3>2 DEF all
    <3>7. QED
      BY <3>1, <3>4, <3>5, <3>6
  <2>9. HasCalls(g', named, {}, calls)
    BY <2>6, HasNothing DEF task
  <2>10. HasCalls(g, named, Taken, calls)'
    <3>1. \A h, N, K, c : HasCalls(h, N, K, c)' <=> HasCalls(h, N, K, c)
      BY <1>1, HasSame
    <3>2. HasCalls(g', named', Taken', calls')
      BY <1>1, <2>8, <2>9
    <3>3. QED
      BY <3>1, <3>2
  <2>11. HasTotals(g)'
    BY <2>7 DEF HasTotals
  <2>12. QED
    BY <2>10, <2>11 DEF CallsMerged
<1>4. QED
  BY <1>2, <1>3

(* The calls of the record that is taken. *)
LEMMA TakenMore ==
    ASSUME RecordsKnown, ReportKnown, NEW p \in ctl.pending, ctl.pc # "run", UNCHANGED <<setup, calls>>,
           ctl'.pending = ctl.pending \ {p}, NEW L, L = AtSite(CallsBy(p.rank), SiteOf(p))
    PROVE  /\ L \in SUBSET DOMAIN calls /\ L # {} /\ Taken \cap L = {} /\ Taken' = Taken \cup L
           /\ \A k \in L : k.site = SiteOf(p) /\ k.rank = p.rank
           /\ p \in RecordsOf(Ranks) /\ Represents(p, L, calls)
<1>1. PICK r \in Ranks : p \in rank[r]
  BY DEF ReportKnown
<1>2. rank[r] \in Tables(r, CallsBy(r), calls)
  BY DEF RecordsKnown
<1>3. p.rank = r /\ p \in RecordsOf(Ranks)
  BY <1>1, <1>2, RankRecords
<1>4. L # {} /\ Represents(p, L, calls)
  BY <1>1, <1>2, <1>3 DEF Tables, RecordsFor
<1>5. \A k : k \in L <=> k \in Counted /\ k.rank = p.rank /\ k.site = SiteOf(p)
  BY DEF AtSite, CallsBy
<1>6. L \in SUBSET DOMAIN calls /\ Taken \cap L = {}
  BY <1>5 DEF Taken, Counted
<1>7. Taken' = {k \in Counted : \A o \in ctl.pending \ {p} : ~(o.rank = k.rank /\ SiteOf(o) = k.site)}
  BY DEF Taken, Counted
<1>8. Taken' \subseteq Taken \cup L
  BY <1>5, <1>7 DEF Taken
<1>9. Taken \subseteq Taken'
  BY <1>7 DEF Taken
<1>10. ASSUME NEW k \in L, NEW o \in ctl.pending, o # p, o.rank = k.rank, SiteOf(o) = k.site
       PROVE  FALSE
  <2>1. PICK s \in Ranks : o \in rank[s]
    BY DEF ReportKnown
  <2>2. rank[s] \in Tables(s, CallsBy(s), calls)
    BY DEF RecordsKnown
  <2>3. s = r
    BY <1>3, <1>5, <1>10, <2>1, <2>2, RankRecords
  <2>4. QED
    BY <1>1, <1>2, <1>5, <1>10, <2>1, <2>3 DEF Tables
<1>11. L \subseteq Taken'
  BY <1>5, <1>7, <1>10
<1>12. QED
  BY <1>3, <1>4, <1>5, <1>6, <1>8, <1>9, <1>11

LEMMA InsertMerged ==
    ASSUME ReportInv, CallsMerged, InsertCallsite
    PROVE  CallsMerged'
<1>1. /\ RecordsKnown /\ NamesKnown /\ ReportKnown /\ MergedKnown
      /\ UNCHANGED <<setup, calls>> /\ ctl.pc = "merge"
  BY DEF ReportInv, InsertCallsite, bounds
<1>2. PICK p \in NextRecords :
         /\ named' = named \cup {[site |-> [op |-> p.op, pc |-> p.pc], id |-> FoundFor(p).id]}
         /\ g' = InsertRecord(g, [p EXCEPT !.csid = FoundFor(p).id], setup)
         /\ ctl' = [ctl EXCEPT !.pending = @ \ {p}, !.from = p.rank,
                        !.pc = IF ctl.pending = {p} THEN "publish" ELSE "merge"]
  BY DEF InsertCallsite, CacheFor, FoundFor, KeyFor
<1> DEFINE new == NameFor(p)
           q == [p EXCEPT !.csid = new.id]
           L == AtSite(CallsBy(p.rank), SiteOf(p))
<1>3. p \in ctl.pending
  BY DEF NextRecords
<1>4. new.site = SiteOf(p) /\ new.id = FoundFor(p).id /\ named' = named \cup {new}
  BY <1>2 DEF NameFor, SiteOf
<1>5. ctl'.pending = ctl.pending \ {p}
  <2> DEFINE pc == IF ctl.pending = {p} THEN "publish" ELSE "merge"
             pending == ctl.pending \ {p}
  <2>1. ctl = [pc |-> ctl.pc, pending |-> ctl.pending, from |-> ctl.from,
               style |-> ctl.style, styles |-> ctl.styles]
    BY <1>1 DEF ReportKnown
  <2>2. ctl' = [ctl EXCEPT !.pending = pending, !.from = p.rank, !.pc = pc]
    BY <1>2, <2>1
  <2> HIDE DEF pc, pending
  <2>3. ctl'.pending = pending
    BY <2>1, <2>2
  <2>4. QED
    BY <2>3 DEF pending
<1> HIDE DEF new, L
<1>6. /\ L \in SUBSET DOMAIN calls /\ L # {} /\ Taken \cap L = {} /\ Taken' = Taken \cup L
      /\ \A k \in L : k.site = SiteOf(p) /\ k.rank = p.rank
      /\ p \in RecordsOf(Ranks) /\ Represents(p, L, calls)
  BY <1>1, <1>3, <1>5, TakenMore DEF L
<1>7. Naming(named \cup {new})
  <2>1. NamesKnown' /\ setup.depth \in Nat
    BY <1>1, InsertInv, CallFacts DEF ReportInv
  <2>2. Naming(named')
    BY <1>1, <2>1 DEF NamesKnown, Naming
  <2>3. QED
    BY <1>4, <2>2
<1>8. /\ q \in RecordsOf(Ranks) /\ q.csid = new.id /\ q.rank = p.rank /\ SiteOf(q) = SiteOf(p)
      /\ Represents(q, L, calls)
  <2>1. new.id \in Nat
    BY <1>7 DEF Naming
  <2>2. /\ q \in RecordsOf(Ranks) /\ q.csid = new.id /\ q.rank = p.rank /\ SiteOf(q) = SiteOf(p)
        /\ q.count = p.count /\ q.large = p.large /\ q.sum = p.sum /\ q.max = p.max /\ q.min = p.min
    BY <1>6, <2>1 DEF RecordsOf, SiteOf
  <2> HIDE DEF q
  <2>3. QED
    BY <1>6, <2>2 DEF Represents
<1>9. g' = InsertRecord(g, q, setup)
  BY <1>2, <1>4
<1> HIDE DEF q
<1>10. /\ HasTotals(InsertRecord(g, q, setup))
       /\ HasCalls(InsertRecord(g, q, setup), named \cup {new}, Taken \cup L, calls)
  <2> DEFINE h == g
             c == calls
             N == named
             K == Taken
  <2>1. /\ IsGlobal(h) /\ HasTotals(h) /\ c \in Bags /\ Naming(N \cup {new})
        /\ K \in SUBSET DOMAIN c /\ L \in SUBSET DOMAIN c /\ L # {} /\ K \cap L = {}
        /\ HasCalls(h, N, K, c)
        /\ q \in RecordsOf(Ranks) /\ SiteOf(q) = new.site /\ q.csid = new.id /\ Represents(q, L, c)
        /\ \A k \in L : k.site = new.site /\ k.rank = q.rank
    BY <1>1, <1>4, <1>6, <1>7, <1>8, CallFacts DEF MergedKnown, CallsMerged, Taken
  <2> HIDE DEF h, c, N, K
  <2>2. /\ HasTotals(InsertRecord(h, q, setup))
        /\ HasCalls(InsertRecord(h, q, setup), N \cup {new}, K \cup L, c)
    BY <2>1, HasMore
  <2>3. QED
    BY <2>2 DEF h, c, N, K
<1>11. HasCalls(g, named, Taken, calls)'
  <2>1. \A h, N, K, c : HasCalls(h, N, K, c)' <=> HasCalls(h, N, K, c)
    BY <1>1, HasSame
  <2>2. HasCalls(g', named', Taken', calls')
    BY <1>1, <1>4, <1>6, <1>9, <1>10
  <2>3. QED
    BY <2>1, <2>2
<1>12. HasTotals(g)'
  BY <1>9, <1>10 DEF HasTotals
<1>13. QED
  BY <1>11, <1>12 DEF CallsMerged

LEMMA InitMerged == Init => CallsMerged
<1>1. SUFFICES ASSUME Init
               PROVE  CallsMerged
  OBVIOUS
<1>2. g = GlobalInit /\ ctl.pc = "run"
  <2>1. g = GlobalInit /\ ctl = Running
    BY <1>1 DEF Init
  <2>2. QED
    BY <2>1 DEF Running
<1>3. g.task = [r \in Ranks |-> 0] /\ g.total = NoTotals /\ g.sentCount = 0
  BY <1>2 DEF GlobalInit
<1>4. NoTotals \in [Fields -> Nat]
  BY DEF NoTotals, Fields
<1>5. QED
  BY <1>2, <1>3, <1>4 DEF CallsMerged, HasTotals

LEMMA NextMerged == ReportInv /\ CallsMerged /\ [Next]_vars => CallsMerged'
<1>1. SUFFICES ASSUME ReportInv, CallsMerged, [Next]_vars
               PROVE  CallsMerged'
  OBVIOUS
<1>2. /\ IsGlobal(g) /\ (ctl.pc # "run" /\ ctl.pc # "merge" => ctl.pending = {})
      /\ ctl = [pc |-> ctl.pc, pending |-> ctl.pending, from |-> ctl.from,
                style |-> ctl.style, styles |-> ctl.styles]
  BY <1>1 DEF ReportInv, ReportKnown, MergedKnown
<1>3. CASE UNCHANGED vars
  <2>1. UNCHANGED <<setup, calls, named, g, ctl>>
    BY <1>3 DEF vars, bounds, caches
  <2>2. QED
    BY <1>1, <2>1, MergedSteady
<1>4. CASE \E r \in Ranks : \E t \in ThreadsUsed(r), k \in Kinds :
              Call(r, t, k.site, k.amount)
  <2>1. UNCHANGED <<g, ctl>> /\ ctl.pc = "run"
    BY <1>4 DEF Call
  <2>2. QED
    BY <1>1, <2>1 DEF CallsMerged, HasTotals
<1>5. CASE PcontrolReport
  BY <1>1, <1>5, ReportMerged DEF PcontrolReport
<1>6. CASE InsertCallsite
  BY <1>1, <1>6, InsertMerged
<1>7. CASE Publish
  <2>1. UNCHANGED <<setup, calls, named>> /\ ctl.pc = "publish"
    BY <1>7 DEF Publish, bounds, caches
  <2>2. PICK ops : InsertOperations(g) = [g EXCEPT !.ops = ops]
    BY DEF InsertOperations
  <2>3. /\ g'.agg = g.agg /\ g'.stats = g.stats /\ g'.task = g.task /\ g'.total = g.total
        /\ g'.sentCount = g.sentCount
    <3>1. g' = g \/ g' = [g EXCEPT !.ops = ops]
      BY <1>7, <2>2 DEF Publish
    <3>2. QED
      BY <1>2, <3>1 DEF IsGlobal
  <2>4. PICK styles : ctl' = [ctl EXCEPT !.pc = "print", !.styles = styles]
    BY <1>7 DEF Publish
  <2>5. ctl'.pending = ctl.pending
    BY <1>2, <2>4
  <2>6. QED
    BY <1>1, <2>1, <2>3, <2>5, MergedSteady
<1>8. CASE ProfilePrint
  <2>1. UNCHANGED <<setup, calls, named>> /\ ctl.pc = "print"
    BY <1>8 DEF ProfilePrint, bounds, caches
  <2>2. PICK app : g' = [g EXCEPT !.app = app]
    BY <1>8 DEF ProfilePrint, VerboseApp, ConciseApp
  <2>3. /\ g'.agg = g.agg /\ g'.stats = g.stats /\ g'.task = g.task /\ g'.total = g.total
        /\ g'.sentCount = g.sentCount
    BY <1>2, <2>2 DEF IsGlobal
  <2>4. ctl'.pending = ctl.pending
    <3>1. ctl' = [ctl EXCEPT !.pc = "collective"] \/ ctl' = NextStyle(ctl)
      BY <1>8 DEF ProfilePrint
    <3>2. NextStyle(ctl).pending = {} \/ NextStyle(ctl).pending = ctl.pending
      BY <1>2, NextStyleShape
    <3>3. QED
      BY <1>2, <2>1, <3>1, <3>2
  <2>5. QED
    BY <1>1, <2>1, <2>3, <2>4, MergedSteady
<1>9. CASE Meet
  <2>1. UNCHANGED <<setup, calls, named, g, ctl>>
    BY <1>9 DEF Meet, bounds, caches
  <2>2. QED
    BY <1>1, <2>1, MergedSteady
<1>10. CASE Barrier
  <2>1. UNCHANGED <<setup, calls, named, g>> /\ ctl.pc = "collective" /\ ctl' = NextStyle(ctl)
    BY <1>10 DEF Barrier, bounds, caches
  <2>2. ctl'.pending = ctl.pending
    BY <1>2, <2>1, NextStyleShape
  <2>3. QED
    BY <1>1, <2>1, <2>2, MergedSteady
<1>11. CASE Reset
  <2>1. ctl'.pc = "run" /\ g' = ResetTotals(g)
    BY <1>11 DEF Reset
  <2>2. g'.task = g.task /\ g'.total = NoTotals /\ g'.sentCount = 0
    BY <1>2, <2>1 DEF ResetTotals, IsGlobal
  <2>3. NoTotals \in [Fields -> Nat]
    BY DEF NoTotals, Fields
  <2>4. QED
    BY <1>1, <2>1, <2>2, <2>3 DEF CallsMerged, HasTotals
<1>12. QED
  BY <1>1, <1>3, <1>4, <1>5, <1>6, <1>7, <1>8, <1>9, <1>10, <1>11 DEF Next

(* While a report is made, its tables have the calls of the records taken. *)
THEOREM MergedAlways == Spec => []CallsMerged
  BY InitMerged, NextMerged, ReportInvariant, PTL DEF Spec

(***************************************************************************)
(* Callsites and their numbers.                                            *)
(***************************************************************************)
(* When all records are taken, every callsite has a number. *)
AllNamed == \A k \in Counted : \E n \in named : n.site = k.site

LEMMA KeyNumbers ==
    ASSUME RecordsKnown, NamesKnown, AllNamed
    PROVE  /\ \A n \in named : Key(n.site) \in Keys /\ IdOf(Key(n.site)) = n.id
           /\ \A x \in Keys : \E n \in named : Key(n.site) = x /\ IdOf(x) = n.id
           /\ \A x, y \in Keys : IdOf(x) = IdOf(y) => x = y
<1>1. \A m, n \in named : Key(m.site) = Key(n.site) <=> m.id = n.id
  BY NamesTold
<1>2. ASSUME NEW x, NEW n \in named, Key(n.site) = x
      PROVE  IdOf(x) = n.id
  <2> DEFINE m == CHOOSE m \in named : Key(m.site) = x
  <2>1. m \in named /\ Key(m.site) = x
    BY <1>2
  <2>2. IdOf(x) = m.id
    BY DEF IdOf
  <2> HIDE DEF m
  <2>3. QED
    BY <1>1, <1>2, <2>1, <2>2
<1>3. \A n \in named : Key(n.site) \in Keys
  BY DEF NamesKnown, Keys
<1>4. \A x \in Keys : \E n \in named : Key(n.site) = x
  BY DEF Keys, AllNamed
<1>5. \A x \in Keys : \E n \in named : Key(n.site) = x /\ IdOf(x) = n.id
  BY <1>2, <1>4
<1>6. \A n \in named : IdOf(Key(n.site)) = n.id
  BY <1>2
<1>7. \A x, y \in Keys : IdOf(x) = IdOf(y) => x = y
  BY <1>1, <1>5
<1>8. QED
  BY <1>3, <1>5, <1>6, <1>7

(* The calls of a callsite are those with its number. *)
LEMMA KeyGroup ==
    ASSUME RecordsKnown, NamesKnown, AllNamed, NEW x \in Keys, NEW R
    PROVE  CallsOf(R, {x}) = Group(named, Counted, R, IdOf(x))
<1>1. PICK m \in named : Key(m.site) = x /\ IdOf(x) = m.id
  BY KeyNumbers
<1>2. \A n \in named : Key(n.site) = x <=> n.id = IdOf(x)
  BY <1>1, NamesTold
<1>3. \A k \in Counted : Key(k.site) = x <=> \E n \in named : n.site = k.site /\ n.id = IdOf(x)
  BY <1>2 DEF AllNamed
<1>4. CallsOf(R, {x}) = {k \in Counted : k.rank \in R /\ Key(k.site) = x}
  BY DEF CallsOf
<1>5. QED
  BY <1>3, <1>4 DEF Group

LEMMA CallsOfFacts ==
    ASSUME RecordsKnown
    PROVE  /\ calls \in Bags
           /\ \A R, X : CallsOf(R, X) \in SUBSET DOMAIN calls
           /\ \A R, X : CallsOf(R, X) \in SUBSET Counted
<1>1. calls \in Bags /\ Counted \subseteq DOMAIN calls
  BY CallFacts
<1>2. \A R, X : CallsOf(R, X) \subseteq Counted
  BY DEF CallsOf
<1>3. QED
  BY <1>1, <1>2

LEMMA CallsOfRank ==
    ASSUME RecordsKnown, NEW r
    PROVE  CallsOf({r}, Keys) = {k \in Counted : k.rank = r}
  BY DEF CallsOf, Keys

LEMMA SumsOfCalls ==
    ASSUME RecordsKnown, NEW K \in SUBSET DOMAIN calls
    PROVE  /\ CountOf(K) = Count(calls, K)
           /\ \A f : SumOf(K, f) = Amount(calls, K, f)
<1>1. IsFiniteSet(K)
  BY CallFacts, BagFacts
<1>2. CountOf(K) = Count(calls, K)
  <2> DEFINE h == [k \in K |-> calls[k]]
  <2>1. \A k \in K : h[k] = calls[k]
    OBVIOUS
  <2>2. CountOf(K) = SumFunctionOnSet(h, K)
    BY DEF CountOf, Total
  <2> HIDE DEF h
  <2>3. SumFunctionOnSet(h, K) = SumFunctionOnSet(calls, K)
    BY <1>1, <2>1, SumEqual
  <2>4. QED
    BY <2>2, <2>3 DEF Count
<1>3. \A f : SumOf(K, f) = Amount(calls, K, f)
  BY DEF SumOf, Total, Amount, Weighted
<1>4. QED
  BY <1>2, <1>3

(* Calls without data add up to nothing. *)
LEMMA AmountZero ==
    ASSUME NEW c \in Bags, NEW K \in SUBSET DOMAIN c, NEW f \in Fields
    PROVE  Amount(c, K, f) > 0 <=> \E k \in K : k.amount[f] > 0
<1>1. ASSUME NEW k \in K, k.amount[f] > 0
      PROVE  Amount(c, K, f) > 0
  <2>1. k.amount[f] <= Amount(c, K, f)
    BY AmountAbove
  <2>2. k.amount[f] \in Nat /\ Amount(c, K, f) \in Nat
    BY BagFacts
  <2>3. QED
    BY <1>1, <2>1, <2>2
<1>2. ASSUME \A k \in K : ~(k.amount[f] > 0)
      PROVE  Amount(c, K, f) = 0
  <2> DEFINE w == Weighted(c, K, f)
  <2>1. \A k \in K : w[k] = 0
    <3>1. ASSUME NEW k \in K
          PROVE  w[k] = 0
      <4>1. k.amount[f] = 0
        BY <1>2, BagFacts
      <4>2. w[k] = c[k] * k.amount[f] /\ c[k] \in Nat
        BY BagFacts
      <4>3. \A n \in Nat : n * 0 = 0
        OBVIOUS
      <4>4. QED
        BY <4>1, <4>2, <4>3
    <3>2. QED
      BY <3>1
  <2>2. IsFiniteSet(K)
    BY BagFacts
  <2> HIDE DEF w
  <2>3. SumFunctionOnSet(w, K) = SumFunctionOnSet(w, {})
    BY <2>1, <2>2, SumOverSubset
  <2>4. SumFunctionOnSet(w, {}) = 0
    BY SumEmpty
  <2>5. QED
    BY <2>3, <2>4 DEF w, Amount
<1>3. QED
  BY <1>1, <1>2

(* The greatest and the least. *)
LEMMA AmountRange ==
    ASSUME NEW c \in Bags, NEW K \in SUBSET DOMAIN c, NEW f \in Fields
    PROVE  /\ {k.amount[f] : k \in K} \subseteq Nat
           /\ IsFiniteSet({k.amount[f] : k \in K})
           /\ \A k \in K : k.amount[f] \in Nat /\ k.amount[f] <= Large
<1>1. IsFiniteSet(K) /\ \A k \in K : k.amount[f] \in Nat /\ k.amount[f] <= Large
  BY BagFacts
<1> DEFINE values == {k.amount[f] : k \in K}
           h == [k \in K |-> k.amount[f]]
<1>2. h \in Surjection(K, values)
  BY DEF Surjection
<1>3. IsFiniteSet(values)
  <2> HIDE DEF h, values
  <2>1. QED
    BY <1>1, <1>2, FS_Surjection
<1>4. QED
  BY <1>1, <1>3

LEMMA MaxIs ==
    ASSUME NEW S \in SUBSET Int, NEW m \in S, \A n \in S : n <= m
    PROVE  Max(S) = m
<1>1. Max(S) = CHOOSE x \in S : \A y \in S : x >= y
  BY DEF Max
<1>2. \A n \in S : m >= n
  OBVIOUS
<1>3. Max(S) \in S /\ \A n \in S : Max(S) >= n
  BY <1>1, <1>2
<1>4. PICK v \in Int : v = Max(S) /\ v >= m /\ v <= m
  BY <1>3
<1>5. m \in Int
  OBVIOUS
<1>6. QED
  BY <1>4, <1>5

LEMMA MinIs ==
    ASSUME NEW S \in SUBSET Int, NEW m \in S, \A n \in S : m <= n
    PROVE  Min(S) = m
<1>1. Min(S) = CHOOSE x \in S : \A y \in S : x =< y
  BY DEF Min
<1>2. Min(S) \in S /\ \A n \in S : Min(S) <= n
  BY <1>1
<1>3. PICK v \in Int : v = Min(S) /\ v <= m /\ v >= m
  BY <1>2
<1>4. m \in Int
  OBVIOUS
<1>5. QED
  BY <1>3, <1>4

LEMMA ExtremesOfCalls ==
    ASSUME NEW c \in Bags, NEW K \in SUBSET DOMAIN c, K # {}, NEW f \in Fields
    PROVE  /\ \A v : IsGreatest(v, K, f) => v = GreatestOf(K, f)
           /\ \A v : IsLeast(v, K, f) => v = LeastOf(K, f)
<1> DEFINE values == {k.amount[f] : k \in K}
<1>1. values \in SUBSET Int /\ \A k \in K : k.amount[f] \in Nat /\ k.amount[f] <= Large
  <2>1. \A k \in K : k.amount[f] \in Nat /\ k.amount[f] <= Large
    BY BagFacts
  <2>2. QED
    BY <2>1
<1>2. ASSUME NEW v, IsGreatest(v, K, f)
      PROVE  v = GreatestOf(K, f)
  <2>1. /\ \A k \in K : k.amount[f] <= v
        /\ v = 0 \/ \E k \in K : k.amount[f] = v
    BY <1>2 DEF IsGreatest
  <2>2. v \in values /\ \A n \in values : n <= v
    BY <1>1, <2>1
  <2> HIDE DEF values
  <2>3. Max(values) = v
    BY <1>1, <2>2, MaxIs
  <2>4. QED
    BY <2>3 DEF GreatestOf, values
<1>3. ASSUME NEW v, IsLeast(v, K, f)
      PROVE  v = LeastOf(K, f)
  <2>1. /\ \A k \in K : v <= k.amount[f]
        /\ v = Large \/ \E k \in K : k.amount[f] = v
    BY <1>3 DEF IsLeast
  <2>2. v \in values /\ \A n \in values : v <= n
    BY <1>1, <2>1, FieldsFacts
  <2> HIDE DEF values
  <2>3. Min(values) = v
    BY <1>1, <2>2, MinIs
  <2>4. QED
    BY <2>3 DEF LeastOf, values
<1>4. QED
  BY <1>2, <1>3

(***************************************************************************)
(* The rows of one callsite.                                               *)
(***************************************************************************)
(* The rows for one callsite, and for the callsites X. *)
KeyRows(x, f) ==
    {RowOf(x, r, CallsOf({r}, {x}), f) : r \in Shown(x, f)}
    \cup IF With(x, f) = {} THEN {} ELSE {RowOf(x, Star, CallsOf(With(x, f), {x}), f)}
Compared(S, f) == {Comparable(row, f) : row \in S}
RowsFor(X, f) == UNION {Compared(KeyRows(x, f), f) : x \in X}

(* For each rank that called x there is a record in S; those of the other  *)
(* ranks, if there are any, are cleared.                                   *)
DataOf(S, x, f) ==
    /\ IsFiniteSet(S)
    /\ \A p \in S :
          LET K == CallsOf({p.rank}, {x})
          IN /\ p.rank \in Ranks
             /\ p.count = Count(calls, K) /\ p.sum[f] = Amount(calls, K, f)
             /\ f # "rma" => IsGreatest(p.max[f], K, f) /\ (K # {} => IsLeast(p.min[f], K, f))
    /\ \A p, q \in S : p.rank = q.rank => p = q
    /\ \A k \in CallsOf(Ranks, {x}) : \E p \in S : p.rank = k.rank

Live(S, f) == {p \in S : IF f = "time" THEN p.count > 0 ELSE p.sum[f] > 0}

LEMMA DataFacts ==
    ASSUME NEW S, NEW x, NEW f, DataOf(S, x, f), NEW p \in S
    PROVE  /\ p.rank \in Ranks
           /\ p.count = Count(calls, CallsOf({p.rank}, {x}))
           /\ p.sum[f] = Amount(calls, CallsOf({p.rank}, {x}), f)
           /\ f # "rma" => /\ IsGreatest(p.max[f], CallsOf({p.rank}, {x}), f)
                           /\ CallsOf({p.rank}, {x}) # {} =>
                                 IsLeast(p.min[f], CallsOf({p.rank}, {x}), f)
  BY DEF DataOf

LEMMA LiveRanks ==
    ASSUME RecordsKnown, NEW S, NEW x, NEW f \in Fields, DataOf(S, x, f)
    PROVE  /\ \A p \in Live(S, f) : p \in S /\ p.rank \in With(x, f) /\ CallsOf({p.rank}, {x}) # {}
           /\ \A r \in With(x, f) : \E p \in Live(S, f) : p.rank = r
           /\ \A p \in S \ Live(S, f) : p.rank \notin With(x, f)
<1>1. \A r, X : CallsOf({r}, X) \in SUBSET DOMAIN calls
  BY CallsOfFacts
<1>2. ASSUME NEW r
      PROVE  /\ Count(calls, CallsOf({r}, {x})) > 0 <=> CallsOf({r}, {x}) # {}
             /\ Amount(calls, CallsOf({r}, {x}), f) > 0 => CallsOf({r}, {x}) # {}
             /\ SumOf(CallsOf({r}, {x}), f) = Amount(calls, CallsOf({r}, {x}), f)
  <2> DEFINE K == CallsOf({r}, {x})
  <2>1. K \in SUBSET DOMAIN calls /\ calls \in Bags
    BY <1>1, CallsOfFacts
  <2> HIDE DEF K
  <2>2. ASSUME K # {}
        PROVE  Count(calls, K) > 0
    BY <2>1, <2>2, AmountAbove
  <2>3. ASSUME K = {}
        PROVE  ~(Count(calls, K) > 0) /\ ~(Amount(calls, K, f) > 0)
    <3>1. Count(calls, K) = 0 /\ Amount(calls, K, f) = 0
      BY <2>3, SumEmpty DEF Count, Amount
    <3>2. QED
      BY <3>1
  <2>4. SumOf(K, f) = Amount(calls, K, f)
    BY <2>1, SumsOfCalls
  <2>5. QED
    BY <2>2, <2>3, <2>4 DEF K
<1>3. ASSUME NEW p \in S
      PROVE  p \in Live(S, f) <=> p.rank \in With(x, f)
  <2>1. /\ p.rank \in Ranks /\ p.count = Count(calls, CallsOf({p.rank}, {x}))
        /\ p.sum[f] = Amount(calls, CallsOf({p.rank}, {x}), f)
    BY DataFacts, ZenonT(60)
  <2>2. QED
    BY <1>2, <2>1 DEF Live, With
<1>4. ASSUME NEW r \in With(x, f)
      PROVE  CallsOf({r}, {x}) # {} /\ \E p \in S : p.rank = r
  <2>1. r \in Ranks /\ CallsOf({r}, {x}) # {}
    BY <1>2 DEF With
  <2>2. PICK k : k \in CallsOf({r}, {x})
    BY <2>1
  <2>3. k \in CallsOf(Ranks, {x}) /\ k.rank = r
    BY <2>1, <2>2 DEF CallsOf
  <2>4. QED
    BY <2>1, <2>3 DEF DataOf
<1>5. Live(S, f) \subseteq S
  BY DEF Live
<1>6. QED
  BY <1>3, <1>4, <1>5

(* Rows that agree in what is compared. *)
IsRow(a) == a = [site |-> a.site, rank |-> a.rank, count |-> a.count, sum |-> a.sum,
                 max |-> a.max, min |-> a.min]
Agree(a, b, f) ==
    /\ IsRow(a) /\ IsRow(b)
    /\ a.site = b.site /\ a.rank = b.rank /\ a.count = b.count /\ a.sum = b.sum
    /\ f # "rma" => a.max = b.max
    /\ f # "rma" /\ ~(setup.collective /\ a.rank = Star) => a.min = b.min

LEMMA ComparableRow ==
    ASSUME NEW f, NEW a, NEW b, Agree(a, b, f)
    PROVE  Comparable(a, f) = Comparable(b, f)
<1>1. ASSUME NEW row, IsRow(row), NEW u, NEW v
      PROVE  [row EXCEPT !.max = u, !.min = v]
                = [site |-> row.site, rank |-> row.rank, count |-> row.count, sum |-> row.sum,
                   max |-> u, min |-> v]
  <2> DEFINE max == [site |-> row.site, rank |-> row.rank, count |-> row.count, sum |-> row.sum,
                     max |-> u, min |-> row.min]
  <2>1. [row EXCEPT !.max = u] = max
    BY <1>1 DEF IsRow
  <2>2. [max EXCEPT !.min = v]
           = [site |-> row.site, rank |-> row.rank, count |-> row.count, sum |-> row.sum,
              max |-> u, min |-> v]
    OBVIOUS
  <2> HIDE DEF max
  <2>3. [row EXCEPT !.max = u, !.min = v] = [[row EXCEPT !.max = u] EXCEPT !.min = v]
    OBVIOUS
  <2>4. QED
    BY <2>1, <2>2, <2>3
<1>2. \A row : Comparable(row, f) =
         [row EXCEPT !.max = IF f = "rma" THEN 0 ELSE row.max,
                     !.min = IF f = "rma" \/ (setup.collective /\ row.rank = Star) THEN 0
                             ELSE row.min]
  BY DEF Comparable
<1>3. PICK u : u = IF f = "rma" THEN 0 ELSE a.max
  OBVIOUS
<1>4. PICK v : v = IF f = "rma" \/ (setup.collective /\ a.rank = Star) THEN 0 ELSE a.min
  OBVIOUS
<1>5. u = IF f = "rma" THEN 0 ELSE b.max
  BY <1>3, Zenon DEF Agree
<1>6. v = IF f = "rma" \/ (setup.collective /\ b.rank = Star) THEN 0 ELSE b.min
  BY <1>4, Zenon DEF Agree
<1>7. Comparable(a, f) = [a EXCEPT !.max = u, !.min = v]
  BY <1>2, <1>3, <1>4, Zenon
<1>8. Comparable(b, f) = [b EXCEPT !.max = u, !.min = v]
  BY <1>2, <1>5, <1>6, Zenon
<1>9. [a EXCEPT !.max = u, !.min = v] = [b EXCEPT !.max = u, !.min = v]
  <2>0. IsRow(a) /\ IsRow(b)
    BY DEF Agree
  <2>1. [a EXCEPT !.max = u, !.min = v]
           = [site |-> a.site, rank |-> a.rank, count |-> a.count, sum |-> a.sum,
              max |-> u, min |-> v]
    BY <1>1, <2>0, Zenon
  <2>2. [b EXCEPT !.max = u, !.min = v]
           = [site |-> b.site, rank |-> b.rank, count |-> b.count, sum |-> b.sum,
              max |-> u, min |-> v]
    BY <1>1, <2>0, Zenon
  <2>3. QED
    BY <2>1, <2>2 DEF Agree
<1>10. QED
  BY <1>7, <1>8, <1>9

LEMMA RankRowKnown ==
    ASSUME RecordsKnown, NEW S, NEW x, NEW f \in Fields, DataOf(S, x, f), NEW p \in Live(S, f)
    PROVE  Comparable([RankRow(p, f) EXCEPT !.site = IdOf(x)], f) =
              Comparable(RowOf(x, p.rank, CallsOf({p.rank}, {x}), f), f)
<1> DEFINE K == CallsOf({p.rank}, {x})
           a == [RankRow(p, f) EXCEPT !.site = IdOf(x)]
           b == RowOf(x, p.rank, K, f)
<1>1. p \in S /\ K # {} /\ K \in SUBSET DOMAIN calls /\ calls \in Bags
  BY LiveRanks, CallsOfFacts
<1>2. /\ p.rank \in Ranks /\ p.count = Count(calls, K) /\ p.sum[f] = Amount(calls, K, f)
      /\ f # "rma" => IsGreatest(p.max[f], K, f) /\ IsLeast(p.min[f], K, f)
  BY <1>1, DataFacts, ZenonT(60)
<1> HIDE DEF K
<1>3. /\ p.count = CountOf(K) /\ p.sum[f] = SumOf(K, f)
      /\ f # "rma" => p.max[f] = GreatestOf(K, f) /\ p.min[f] = LeastOf(K, f)
  BY <1>1, <1>2, SumsOfCalls, ExtremesOfCalls
<1>4. a = [site |-> IdOf(x), rank |-> p.rank, count |-> p.count, sum |-> p.sum[f],
           max |-> p.max[f], min |-> p.min[f]]
  BY DEF RankRow
<1>5. b = [site |-> IdOf(x), rank |-> p.rank, count |-> p.count, sum |-> p.sum[f],
           max |-> GreatestOf(K, f), min |-> LeastOf(K, f)]
  BY <1>3 DEF RowOf
<1>6. Agree(a, b, f)
  <2> HIDE DEF a, b
  <2>1. IsRow(a) /\ IsRow(b)
    BY <1>4, <1>5 DEF IsRow
  <2>2. QED
    BY <1>3, <1>4, <1>5, <2>1 DEF Agree
<1> HIDE DEF a, b
<1>7. Comparable(a, f) = Comparable(b, f)
  BY <1>6, ComparableRow
<1>8. QED
  BY <1>7 DEF a, b, K

(* The ranks of the records of A. *)
RanksOf(A) == {p.rank : p \in A}

(* Sums over the records of several ranks. *)
LEMMA SumsOver ==
    ASSUME RecordsKnown, NEW S, NEW x, NEW f \in Fields, DataOf(S, x, f), NEW A \in SUBSET S,
           NEW K, K = CallsOf(RanksOf(A), {x}), NEW id
    PROVE  /\ SummaryRow(id, A, f).count = CountOf(K)
           /\ SummaryRow(id, A, f).sum = SumOf(K, f)
<1> USE DEF RanksOf
<1> DEFINE U == CallsOf(RanksOf(A), {x})
           part == [p \in A |-> CallsOf({p.rank}, {x})]
           w == Weighted(calls, U, f)
           counts == [p \in A |-> SumFunctionOnSet(calls, part[p])]
           sums == [p \in A |-> SumFunctionOnSet(w, part[p])]
<1>1. IsFiniteSet(A) /\ \A p, q \in A : p.rank = q.rank => p = q
  BY FS_Subset DEF DataOf
<1>2. calls \in Bags /\ U \in SUBSET DOMAIN calls
  BY CallsOfFacts
<1>3. ASSUME NEW p \in A
      PROVE  /\ part[p] \in SUBSET U /\ IsFiniteSet(part[p])
             /\ p.count = Count(calls, part[p]) /\ p.sum[f] = Amount(calls, part[p], f)
  <2>1. part[p] = CallsOf({p.rank}, {x})
    OBVIOUS
  <2>2. part[p] \in SUBSET U
    BY <2>1 DEF CallsOf
  <2>3. IsFiniteSet(part[p])
    BY <1>2, <2>2, BagFacts
  <2>4. p \in S
    OBVIOUS
  <2>5. /\ p.count = Count(calls, CallsOf({p.rank}, {x}))
        /\ p.sum[f] = Amount(calls, CallsOf({p.rank}, {x}), f)
    BY <2>4, DataFacts, ZenonT(60)
  <2>6. QED
    BY <2>1, <2>2, <2>3, <2>5
<1>4. UNION {part[p] : p \in A} = U
  BY DEF CallsOf
<1>5. \A p, q \in A : p # q => part[p] \cap part[q] = {}
  BY <1>1 DEF CallsOf
<1>6. \A k \in U : calls[k] \in Nat /\ w[k] \in Nat
  BY <1>2, BagFacts
<1> HIDE DEF part, U, w
<1>7. SumFunctionOnSet(counts, A) = SumFunctionOnSet(calls, U)
  <2>1. \A p \in A : IsFiniteSet(part[p]) /\ \A k \in part[p] : calls[k] \in Nat
    BY <1>3, <1>6
  <2>2. \A p \in A : counts[p] = SumFunctionOnSet(calls, part[p])
    OBVIOUS
  <2> HIDE DEF counts
  <2>3. Partition(calls, A, part, counts, U)
    BY <1>1, <1>4, <1>5, <2>1, <2>2 DEF Partition
  <2>4. QED
    BY <2>3, SumPartition
<1>8. SumFunctionOnSet(sums, A) = SumFunctionOnSet(w, U)
  <2>1. \A p \in A : IsFiniteSet(part[p]) /\ \A k \in part[p] : w[k] \in Nat
    BY <1>3, <1>6
  <2>2. \A p \in A : sums[p] = SumFunctionOnSet(w, part[p])
    OBVIOUS
  <2> HIDE DEF sums
  <2>3. Partition(w, A, part, sums, U)
    BY <1>1, <1>4, <1>5, <2>1, <2>2 DEF Partition
  <2>4. QED
    BY <2>3, SumPartition
<1>9. \A p \in A : counts[p] = p.count
  BY <1>3 DEF Count
<1>10. \A p \in A : sums[p] = p.sum[f]
  <2>1. SUFFICES ASSUME NEW p \in A
                 PROVE  sums[p] = p.sum[f]
    OBVIOUS
  <2> DEFINE v == Weighted(calls, part[p], f)
  <2>2. \A k \in part[p] : w[k] = v[k]
    BY <1>3 DEF w, Weighted
  <2>3. IsFiniteSet(part[p]) /\ p.sum[f] = SumFunctionOnSet(v, part[p])
    BY <1>3 DEF Amount
  <2>4. SumFunctionOnSet(w, part[p]) = SumFunctionOnSet(v, part[p])
    <3> HIDE DEF v
    <3>1. QED
      BY <2>2, <2>3, SumEqual
  <2>5. QED
    BY <2>3, <2>4
<1>11. Total(A, LAMBDA p : p.count) = CountOf(U)
  <2> DEFINE h == [p \in A |-> p.count]
  <2>1. \A p \in A : h[p] = counts[p]
    BY <1>9
  <2>2. Total(A, LAMBDA p : p.count) = SumFunctionOnSet(h, A)
    BY DEF Total
  <2> HIDE DEF h, counts
  <2>3. SumFunctionOnSet(h, A) = SumFunctionOnSet(counts, A)
    BY <1>1, <2>1, SumEqual
  <2>4. CountOf(U) = SumFunctionOnSet(calls, U)
    BY <1>2, SumsOfCalls DEF Count
  <2>5. QED
    BY <1>7, <2>2, <2>3, <2>4
<1>12. Total(A, LAMBDA p : p.sum[f]) = SumOf(U, f)
  <2> DEFINE h == [p \in A |-> p.sum[f]]
  <2>1. \A p \in A : h[p] = sums[p]
    BY <1>10
  <2>2. Total(A, LAMBDA p : p.sum[f]) = SumFunctionOnSet(h, A)
    BY DEF Total
  <2> HIDE DEF h, sums
  <2>3. SumFunctionOnSet(h, A) = SumFunctionOnSet(sums, A)
    BY <1>1, <2>1, SumEqual
  <2>4. SumOf(U, f) = SumFunctionOnSet(w, U)
    BY <1>2, SumsOfCalls DEF Amount, w
  <2>5. QED
    BY <1>8, <2>2, <2>3, <2>4
<1>13. /\ SummaryRow(id, A, f).count = Total(A, LAMBDA p : p.count)
       /\ SummaryRow(id, A, f).sum = Total(A, LAMBDA p : p.sum[f])
  BY DEF SummaryRow
<1>14. QED
  BY <1>11, <1>12, <1>13 DEF U

LEMMA GreatestInteger ==
    ASSUME NEW S, IsFiniteSet(S), S # {}, S \subseteq Int
    PROVE  \E m \in S : \A n \in S : n <= m
<1> DEFINE T == {-n : n \in S}
           h == [n \in S |-> -n]
<1>1. h \in Surjection(S, T)
  BY DEF Surjection
<1>2. IsFiniteSet(T)
  <2> HIDE DEF h, T
  <2>1. QED
    BY <1>1, FS_Surjection
<1>3. T # {} /\ T \subseteq Int
  OBVIOUS
<1> HIDE DEF T
<1>4. PICK m \in T : \A n \in T : m <= n
  BY <1>2, <1>3, LeastInteger
<1>5. PICK e \in S : m = -e
  BY DEF T
<1>6. \A n \in S : -n \in T
  BY DEF T
<1>7. \A n \in S : n <= e
  <2>1. SUFFICES ASSUME NEW n \in S
                 PROVE  n <= e
    OBVIOUS
  <2>2. m <= -n /\ n \in Int /\ e \in Int
    BY <1>4, <1>6
  <2>3. QED
    BY <1>5, <2>2
<1>8. QED
  BY <1>7

(* The greatest and the least over the records of several ranks. *)
LEMMA GreatestOver ==
    ASSUME RecordsKnown, NEW S, NEW x, NEW f \in Fields, f # "rma", DataOf(S, x, f),
           NEW A \in SUBSET S, NEW K, K = CallsOf(RanksOf(A), {x})
    PROVE  IsGreatest(Max({p.max[f] : p \in A} \cup {0}), K, f)
<1> USE DEF RanksOf
<1> DEFINE M == {p.max[f] : p \in A} \cup {0}
<1>1. \A p \in A : IsGreatest(p.max[f], CallsOf({p.rank}, {x}), f)
  BY DEF DataOf
<1>2. \A p \in A : CallsOf({p.rank}, {x}) \in SUBSET DOMAIN calls /\ calls \in Bags
  BY CallsOfFacts
<1>3. ASSUME NEW p \in A
      PROVE  /\ \A k \in CallsOf({p.rank}, {x}) : k.amount[f] <= p.max[f] /\ k.amount[f] \in Nat
             /\ p.max[f] = 0 \/ \E k \in CallsOf({p.rank}, {x}) : k.amount[f] = p.max[f]
             /\ p.max[f] \in Int
  <2>1. \A k \in CallsOf({p.rank}, {x}) : k.amount[f] \in Nat
    BY <1>2, BagFacts
  <2>2. IsGreatest(p.max[f], CallsOf({p.rank}, {x}), f)
    BY <1>1
  <2>3. \A k \in CallsOf({p.rank}, {x}) : k.amount[f] <= p.max[f]
    BY <2>2 DEF IsGreatest
  <2>4. p.max[f] = 0 \/ \E k \in CallsOf({p.rank}, {x}) : k.amount[f] = p.max[f]
    BY <2>2 DEF IsGreatest
  <2>5. ASSUME p.max[f] = 0
        PROVE  p.max[f] \in Int
    BY <2>5
  <2>6. ASSUME NEW k \in CallsOf({p.rank}, {x}), k.amount[f] = p.max[f]
        PROVE  p.max[f] \in Int
    <3>1. k.amount[f] \in Nat
      BY <2>1
    <3>2. QED
      BY <2>6, <3>1
  <2>7. QED
    BY <2>1, <2>3, <2>4, <2>5, <2>6
<1>4. \A k : k \in K <=> \E p \in A : k \in CallsOf({p.rank}, {x})
  BY DEF CallsOf
<1>5. IsFiniteSet(M)
  <2> DEFINE h == [p \in A |-> p.max[f]]
             N == {p.max[f] : p \in A}
  <2>1. h \in Surjection(A, N)
    BY DEF Surjection
  <2>2. IsFiniteSet(A)
    BY FS_Subset DEF DataOf
  <2>3. IsFiniteSet(N)
    <3> HIDE DEF h, N
    <3>1. QED
      BY <2>1, <2>2, FS_Surjection
  <2> HIDE DEF N
  <2>4. IsFiniteSet(N \cup {0})
    BY <2>3, FS_AddElement
  <2>5. QED
    BY <2>4 DEF N
<1>6. M \in SUBSET Int /\ M # {}
  <2>1. \A p \in A : p.max[f] \in Int
    BY <1>3
  <2>2. QED
    BY <2>1
<1>7. PICK m \in M : \A n \in M : n <= m
  <2> HIDE DEF M
  <2>1. QED
    BY <1>5, <1>6, GreatestInteger
<1>8. Max(M) = m
  <2> HIDE DEF M
  <2>1. QED
    BY <1>6, <1>7, MaxIs
<1>9. \A p \in A : p.max[f] <= m /\ m \in Int
  BY <1>6, <1>7
<1>10. m = 0 \/ \E p \in A : m = p.max[f]
  BY <1>7
<1>11. IsGreatest(m, K, f)
  <2>1. ASSUME NEW k \in K
        PROVE  k.amount[f] <= m
    <3>1. PICK p \in A : k \in CallsOf({p.rank}, {x})
      BY <1>4
    <3>2. k.amount[f] <= p.max[f] /\ k.amount[f] \in Nat /\ p.max[f] \in Int
      BY <1>3, <3>1
    <3>3. p.max[f] <= m /\ m \in Int
      BY <1>9
    <3>4. QED
      BY <3>2, <3>3
  <2>2. m = 0 \/ \E k \in K : k.amount[f] = m
    BY <1>3, <1>4, <1>10
  <2>3. QED
    BY <2>1, <2>2 DEF IsGreatest
<1>12. QED
  BY <1>8, <1>11 DEF M

LEMMA LeastOver ==
    ASSUME RecordsKnown, NEW S, NEW x, NEW f \in Fields, f # "rma", DataOf(S, x, f),
           NEW A \in SUBSET S, \A p \in A : CallsOf({p.rank}, {x}) # {},
           NEW K, K = CallsOf(RanksOf(A), {x})
    PROVE  IsLeast(Min({p.min[f] : p \in A} \cup {Large}), K, f)
<1> USE DEF RanksOf
<1> DEFINE M == {p.min[f] : p \in A} \cup {Large}
<1>1. \A p \in A : IsLeast(p.min[f], CallsOf({p.rank}, {x}), f)
  BY DEF DataOf
<1>2. \A p \in A : CallsOf({p.rank}, {x}) \in SUBSET DOMAIN calls /\ calls \in Bags
  BY CallsOfFacts
<1>3. ASSUME NEW p \in A
      PROVE  /\ \A k \in CallsOf({p.rank}, {x}) : p.min[f] <= k.amount[f] /\ k.amount[f] \in Nat
             /\ p.min[f] = Large \/ \E k \in CallsOf({p.rank}, {x}) : k.amount[f] = p.min[f]
             /\ p.min[f] \in Int
  <2>1. \A k \in CallsOf({p.rank}, {x}) : k.amount[f] \in Nat
    BY <1>2, BagFacts
  <2>2. IsLeast(p.min[f], CallsOf({p.rank}, {x}), f)
    BY <1>1
  <2>3. \A k \in CallsOf({p.rank}, {x}) : p.min[f] <= k.amount[f]
    BY <2>2 DEF IsLeast
  <2>4. p.min[f] = Large \/ \E k \in CallsOf({p.rank}, {x}) : k.amount[f] = p.min[f]
    BY <2>2 DEF IsLeast
  <2>5. ASSUME p.min[f] = Large
        PROVE  p.min[f] \in Int
    BY <2>5, FieldsFacts
  <2>6. ASSUME NEW k \in CallsOf({p.rank}, {x}), k.amount[f] = p.min[f]
        PROVE  p.min[f] \in Int
    <3>1. k.amount[f] \in Nat
      BY <2>1
    <3>2. QED
      BY <2>6, <3>1
  <2>7. QED
    BY <2>1, <2>3, <2>4, <2>5, <2>6
<1>4. \A k : k \in K <=> \E p \in A : k \in CallsOf({p.rank}, {x})
  BY DEF CallsOf
<1>5. IsFiniteSet(M)
  <2> DEFINE h == [p \in A |-> p.min[f]]
             N == {p.min[f] : p \in A}
  <2>1. h \in Surjection(A, N)
    BY DEF Surjection
  <2>2. IsFiniteSet(A)
    BY FS_Subset DEF DataOf
  <2>3. IsFiniteSet(N)
    <3> HIDE DEF h, N
    <3>1. QED
      BY <2>1, <2>2, FS_Surjection
  <2> HIDE DEF N
  <2>4. IsFiniteSet(N \cup {Large})
    BY <2>3, FS_AddElement
  <2>5. QED
    BY <2>4 DEF N
<1>6. M \in SUBSET Int /\ M # {}
  <2>1. \A p \in A : p.min[f] \in Int
    BY <1>3
  <2>2. QED
    BY <2>1, FieldsFacts
<1>7. PICK m \in M : \A n \in M : m <= n
  <2> HIDE DEF M
  <2>1. QED
    BY <1>5, <1>6, LeastInteger
<1>8. Min(M) = m
  <2> HIDE DEF M
  <2>1. QED
    BY <1>6, <1>7, MinIs
<1>9. \A p \in A : m <= p.min[f] /\ m \in Int
  BY <1>6, <1>7
<1>10. m = Large \/ \E p \in A : m = p.min[f]
  BY <1>7
<1>11. IsLeast(m, K, f)
  <2>1. ASSUME NEW k \in K
        PROVE  m <= k.amount[f]
    <3>1. PICK p \in A : k \in CallsOf({p.rank}, {x})
      BY <1>4
    <3>2. p.min[f] <= k.amount[f] /\ k.amount[f] \in Nat /\ p.min[f] \in Int
      BY <1>3, <3>1
    <3>3. m <= p.min[f] /\ m \in Int
      BY <1>9
    <3>4. QED
      BY <3>2, <3>3
  <2>2. m = Large \/ \E k \in K : k.amount[f] = m
    BY <1>3, <1>4, <1>10
  <2>3. QED
    BY <2>1, <2>2 DEF IsLeast
<1>12. QED
  BY <1>8, <1>11 DEF M

(* The row that sums up a callsite. *)
LEMMA SummaryKnown ==
    ASSUME RecordsKnown, NEW S, NEW x, NEW f \in Fields, DataOf(S, x, f), NEW A \in SUBSET S,
           Live(S, f) \subseteq A, Live(S, f) # {},
           (f = "time" /\ setup.collective) \/ A = Live(S, f)
    PROVE  Comparable(SummaryRow(IdOf(x), A, f), f) =
              Comparable(RowOf(x, Star, CallsOf(With(x, f), {x}), f), f)
<1> DEFINE K == CallsOf(With(x, f), {x})
           J == CallsOf(RanksOf(A), {x})
           a == SummaryRow(IdOf(x), A, f)
           b == RowOf(x, Star, K, f)
<1>1. /\ \A p \in Live(S, f) : p \in S /\ p.rank \in With(x, f) /\ CallsOf({p.rank}, {x}) # {}
      /\ \A r \in With(x, f) : \E p \in Live(S, f) : p.rank = r
      /\ \A p \in S \ Live(S, f) : p.rank \notin With(x, f)
  BY LiveRanks
<1>2. K = J
  <2>1. CASE A = Live(S, f)
    <3>1. RanksOf(A) = With(x, f)
      BY <1>1, <2>1 DEF RanksOf
    <3>2. QED
      BY <3>1
  <2>2. CASE f = "time" /\ setup.collective
    <3>1. K \subseteq J
      BY <1>1 DEF CallsOf, RanksOf
    <3>2. ASSUME NEW k \in J
          PROVE  k \in K
      <4>1. PICK p \in A : k.rank = p.rank
        BY DEF CallsOf, RanksOf
      <4>2. p.rank \in Ranks /\ k \in CallsOf({p.rank}, {x})
        BY <4>1 DEF CallsOf, DataOf
      <4>3. p.rank \in With(x, f)
        BY <2>2, <4>2 DEF With
      <4>4. QED
        BY <4>1, <4>3 DEF CallsOf
    <3>3. QED
      BY <3>1, <3>2
  <2>3. QED
    BY <2>1, <2>2
<1>3. K # {}
  <2>1. PICK p \in Live(S, f) : CallsOf({p.rank}, {x}) # {}
    BY <1>1
  <2>2. QED
    BY <1>1, <2>1 DEF CallsOf
<1>4. K \in SUBSET DOMAIN calls /\ calls \in Bags
  BY CallsOfFacts
<1>5. a.count = CountOf(K) /\ a.sum = SumOf(K, f)
  <2> HIDE DEF K, a
  <2>1. a = SummaryRow(IdOf(x), A, f)
    BY DEF a
  <2>2. QED
    BY <1>2, <2>1, SumsOver, SMTT(30)
<1>6. ASSUME f # "rma"
      PROVE  Max({p.max[f] : p \in A} \cup {0}) = GreatestOf(K, f)
  <2>1. IsGreatest(Max({p.max[f] : p \in A} \cup {0}), K, f)
    BY <1>2, <1>6, GreatestOver
  <2> HIDE DEF K
  <2>2. QED
    BY <1>3, <1>4, <2>1, ExtremesOfCalls
<1>7. ASSUME f # "rma", ~setup.collective
      PROVE  Min({p.min[f] : p \in A} \cup {Large}) = LeastOf(K, f)
  <2>1. IsLeast(Min({p.min[f] : p \in A} \cup {Large}), K, f)
    BY <1>1, <1>2, <1>7, LeastOver
  <2> HIDE DEF K
  <2>2. QED
    BY <1>3, <1>4, <2>1, ExtremesOfCalls
<1>8. /\ a.site = IdOf(x) /\ a.rank = Star /\ a.max = Max({p.max[f] : p \in A} \cup {0})
      /\ a.min = Min({p.min[f] : p \in A} \cup {Large})
  BY DEF SummaryRow
<1>9. IsRow(a)
  BY DEF SummaryRow, IsRow
<1>10. /\ b.site = IdOf(x) /\ b.rank = Star /\ b.count = CountOf(K) /\ b.sum = SumOf(K, f)
       /\ b.max = GreatestOf(K, f) /\ b.min = LeastOf(K, f)
  BY DEF RowOf
<1>11. IsRow(b)
  BY DEF RowOf, IsRow
<1> HIDE DEF a, b, K
<1>12. Agree(a, b, f)
  BY <1>5, <1>6, <1>7, <1>8, <1>9, <1>10, <1>11 DEF Agree
<1>13. Comparable(a, f) = Comparable(b, f)
  BY <1>12, ComparableRow
<1>14. QED
  BY <1>13 DEF a, b, K

(* The rows that are printed for x of the data S: those of the records P,  *)
(* and one for the records A.                                              *)
DataRows(S, A, P, x, f) ==
    {[RankRow(p, f) EXCEPT !.site = IdOf(x)] : p \in P}
    \cup IF Live(S, f) = {} THEN {} ELSE {SummaryRow(IdOf(x), A, f)}

LEMMA DataRowsKnown ==
    ASSUME RecordsKnown, NEW S, NEW x, NEW f \in Fields, DataOf(S, x, f), NEW A \in SUBSET S,
           Live(S, f) \subseteq A, (f = "time" /\ setup.collective) \/ A = Live(S, f),
           NEW P, P = {p \in Live(S, f) : p.rank \in Shown(x, f)}
    PROVE  Compared(DataRows(S, A, P, x, f), f) = Compared(KeyRows(x, f), f)
<1> DEFINE rankRow(p) == [RankRow(p, f) EXCEPT !.site = IdOf(x)]
           summary == SummaryRow(IdOf(x), A, f)
           own(r) == RowOf(x, r, CallsOf({r}, {x}), f)
           star == RowOf(x, Star, CallsOf(With(x, f), {x}), f)
<1>1. /\ \A p \in Live(S, f) : p.rank \in With(x, f)
      /\ \A r \in With(x, f) : \E p \in Live(S, f) : p.rank = r
  BY LiveRanks
<1>2. \A p \in Live(S, f) : Comparable(rankRow(p), f) = Comparable(own(p.rank), f)
  BY RankRowKnown
<1>3. Live(S, f) # {} => Comparable(summary, f) = Comparable(star, f)
  BY SummaryKnown
<1>4. Live(S, f) = {} <=> With(x, f) = {}
  BY <1>1
<1>5. Shown(x, f) \subseteq With(x, f)
  BY DEF Shown
<1> HIDE DEF rankRow, summary, own, star
<1>6. Compared(DataRows(S, A, P, x, f), f) =
         {Comparable(rankRow(p), f) : p \in P}
         \cup IF Live(S, f) = {} THEN {} ELSE {Comparable(summary, f)}
  BY DEF Compared, DataRows, rankRow, summary
<1>7. Compared(KeyRows(x, f), f) =
         {Comparable(own(r), f) : r \in Shown(x, f)}
         \cup IF With(x, f) = {} THEN {} ELSE {Comparable(star, f)}
  BY DEF Compared, KeyRows, own, star
<1>8. {Comparable(rankRow(p), f) : p \in P} = {Comparable(own(r), f) : r \in Shown(x, f)}
  <2>1. \A p \in P : p \in Live(S, f) /\ p.rank \in Shown(x, f)
    OBVIOUS
  <2>2. \A r \in Shown(x, f) : \E p \in P : p.rank = r
    BY <1>1, <1>5
  <2>3. QED
    BY <1>2, <2>1, <2>2
<1>9. QED
  BY <1>3, <1>4, <1>6, <1>7, <1>8

(* The threshold of the report is that of the calls. *)
TaskTimes(h) ==
    \A r \in Ranks : h.task[r] = Amount(calls, {k \in Counted : k.rank = r}, "time")

LEMMA ShownKnown ==
    ASSUME RecordsKnown, NEW S, NEW x, NEW f \in Fields, DataOf(S, x, f), NEW p \in Live(S, f),
           NEW h, TaskTimes(h)
    PROVE  p.rank \in Shown(x, f) <=> (f = "time" => AboveThreshold(h, setup, p))
<1>1. p \in S /\ p.rank \in With(x, f)
  BY LiveRanks
<1>2. CASE f # "time"
  BY <1>1, <1>2 DEF Shown
<1>3. ASSUME f = "time"
      PROVE  p.rank \in Shown(x, f) <=> AboveThreshold(h, setup, p)
  <2> DEFINE r == p.rank
             mine == SumOf(CallsOf({r}, Keys), "time")
             part == SumOf(CallsOf({r}, {x}), "time")
  <2>1. r \in Ranks /\ p.sum["time"] = Amount(calls, CallsOf({r}, {x}), "time")
    BY <1>1, <1>3, DataFacts, ZenonT(60)
  <2>2. /\ CallsOf({r}, {x}) \in SUBSET DOMAIN calls /\ CallsOf({r}, Keys) \in SUBSET DOMAIN calls
        /\ calls \in Bags
    BY CallsOfFacts
  <2>3. part = p.sum["time"]
    BY <2>1, <2>2, SumsOfCalls
  <2>4. mine = Amount(calls, CallsOf({r}, Keys), "time")
    BY <2>2, SumsOfCalls
  <2>5. mine = h.task[r]
    BY <2>1, <2>4, CallsOfRank DEF TaskTimes
  <2>6. mine \in Nat
    BY <2>2, <2>4, FieldsFacts, BagFacts
  <2>7. r \in Shown(x, f) <=> mine > 0 /\ 100 * part >= setup.printThreshold * mine
    BY <1>1, <1>3 DEF Shown
  <2>8. AboveThreshold(h, setup, p) <=> mine # 0 /\ 100 * part >= setup.printThreshold * mine
    BY <2>3, <2>5 DEF AboveThreshold
  <2> HIDE DEF mine, part
  <2>9. mine # 0 <=> mine > 0
    BY <2>6
  <2>10. QED
    BY <2>7, <2>8, <2>9 DEF r
<1>4. QED
  BY <1>2, <1>3

(***************************************************************************)
(* The collector alone.                                                    *)
(***************************************************************************)
(* All that the collector has when everything is merged. *)
Whole(h) ==
    /\ RecordsKnown /\ NamesKnown /\ AllNamed
    /\ HasCalls(h, named, Counted, calls)
    /\ h.total \in [Fields -> Nat] /\ h.sentCount \in Nat

LEMMA RecordData ==
    ASSUME NEW p, NEW K, NEW f \in Fields, Represents(p, K, calls)
    PROVE  /\ p.count = Count(calls, K) /\ p.sum[f] = Amount(calls, K, f)
           /\ f # "rma" => IsGreatest(p.max[f], K, f) /\ IsLeast(p.min[f], K, f)
  BY DEF Represents

LEMMA StatsData ==
    ASSUME NEW h, Whole(h), h.stats \subseteq RecordsOf(Ranks), ~setup.collective,
           NEW x \in Keys, NEW f \in Fields
    PROVE  DataOf(OfSite(h.stats, IdOf(x)), x, f)
<1> DEFINE S == OfSite(h.stats, IdOf(x))
           K(r) == CallsOf({r}, {x})
<1>1. \A r \in Ranks : Groups(OfRank(h.stats, r), r, {r}, named, Counted, calls)
  BY DEF Whole, HasCalls
<1>2. \A r : K(r) = Group(named, Counted, {r}, IdOf(x))
  BY KeyGroup DEF Whole
<1>3. \A p \in S : p.rank \in Ranks /\ p \in OfRank(h.stats, p.rank) /\ p.csid = IdOf(x)
  BY DEF OfSite, OfRank, RecordsOf
<1>4. ASSUME NEW p \in S
      PROVE  Represents(p, K(p.rank), calls)
  <2>1. Represents(p, Group(named, Counted, {p.rank}, p.csid), calls)
    BY <1>1, <1>3 DEF Groups
  <2>2. QED
    BY <1>2, <1>3, <2>1
<1>5. ASSUME NEW p \in S, NEW q \in S, p.rank = q.rank
      PROVE  p = q
  <2>1. \A o, m \in OfRank(h.stats, p.rank) : o.csid = m.csid => o = m
    BY <1>1, <1>3 DEF Groups
  <2>2. q \in OfRank(h.stats, p.rank) /\ p \in OfRank(h.stats, p.rank) /\ p.csid = q.csid
    BY <1>3, <1>5
  <2>3. QED
    BY <2>1, <2>2
<1>6. ASSUME NEW k \in CallsOf(Ranks, {x})
      PROVE  \E p \in S : p.rank = k.rank
  <2>1. k \in Counted /\ k.rank \in Ranks /\ Key(k.site) = x
    BY DEF CallsOf
  <2>2. PICK p \in OfRank(h.stats, k.rank), n \in named : n.site = k.site /\ n.id = p.csid
    BY <1>1, <2>1 DEF Groups
  <2>3. p.csid = IdOf(x)
    BY <2>1, <2>2, KeyNumbers DEF Whole
  <2>4. QED
    BY <2>2, <2>3 DEF OfRank, OfSite
<1>7. IsFiniteSet(S)
  <2> DEFINE i == [p \in S |-> p.rank]
  <2>1. i \in Injection(S, Ranks)
    BY <1>3, <1>5 DEF Injection, IsInjective
  <2>2. IsFiniteSet(Ranks)
    BY ReportAssumption
  <2> HIDE DEF i, S
  <2>3. QED
    BY <2>1, <2>2, FS_Injection
<1> HIDE DEF S, K
<1>8. ASSUME NEW p \in S
      PROVE  /\ p.count = Count(calls, K(p.rank)) /\ p.sum[f] = Amount(calls, K(p.rank), f)
             /\ f # "rma" => IsGreatest(p.max[f], K(p.rank), f) /\ IsLeast(p.min[f], K(p.rank), f)
  BY <1>4, RecordData
<1>9. DataOf(S, x, f)
  BY <1>3, <1>5, <1>6, <1>7, <1>8 DEF DataOf, K
<1>10. QED
  BY <1>9 DEF S

(* A record of the collector belongs to a callsite. *)
LEMMA StatsSite ==
    ASSUME NEW h, Whole(h), h.stats \subseteq RecordsOf(Ranks), ~setup.collective, NEW p \in h.stats
    PROVE  /\ \E x \in Keys : p \in OfSite(h.stats, IdOf(x))
           /\ p.count > 0
<1>1. p.rank \in Ranks /\ p \in OfRank(h.stats, p.rank)
  BY DEF RecordsOf, OfRank
<1>2. Groups(OfRank(h.stats, p.rank), p.rank, {p.rank}, named, Counted, calls)
  BY <1>1 DEF Whole, HasCalls
<1>3. /\ Group(named, Counted, {p.rank}, p.csid) # {}
      /\ Represents(p, Group(named, Counted, {p.rank}, p.csid), calls)
      /\ \E n \in named : n.id = p.csid
  BY <1>1, <1>2 DEF Groups
<1>4. PICK n \in named : n.id = p.csid
  BY <1>3
<1>5. Key(n.site) \in Keys /\ IdOf(Key(n.site)) = p.csid
  BY <1>4, KeyNumbers DEF Whole
<1>6. p.count > 0
  <2> DEFINE K == Group(named, Counted, {p.rank}, p.csid)
  <2>1. calls \in Bags /\ K \in SUBSET DOMAIN calls
    BY CallFacts DEF Whole, Group
  <2>2. PICK k : k \in K
    BY <1>3
  <2> HIDE DEF K
  <2>3. Count(calls, K) > 0
    BY <2>1, <2>2, AmountAbove
  <2>4. QED
    BY <1>3, <2>3 DEF Represents, K
<1>7. QED
  BY <1>5, <1>6 DEF OfSite

LEMMA AllTimeKnown ==
    ASSUME NEW h, Whole(h), h.stats \subseteq RecordsOf(Ranks), ~setup.collective
    PROVE  Compared(AllTime(h, setup), "time") = RowsFor(Keys, "time")
<1> DEFINE S(x) == OfSite(h.stats, IdOf(x))
           P(x) == {p \in S(x) : AboveThreshold(h, setup, p)}
           rows(x) == DataRows(S(x), S(x), P(x), x, "time")
<1>1. "time" \in Fields /\ RecordsKnown /\ TaskTimes(h)
  BY DEF Fields, Whole, HasCalls, TaskTimes
<1>2. \A x \in Keys : DataOf(S(x), x, "time")
  BY <1>1, StatsData
<1>3. \A p \in h.stats : p.count > 0 /\ \E x \in Keys : p \in S(x)
  BY StatsSite
<1>4. \A x : S(x) \subseteq h.stats /\ \A p \in S(x) : p.csid = IdOf(x)
  BY DEF OfSite
<1>5. \A x : Live(S(x), "time") = S(x)
  <2> HIDE DEF S
  <2>1. QED
    BY <1>3, <1>4 DEF Live
<1>6. ASSUME NEW x \in Keys
      PROVE  Compared(rows(x), "time") = Compared(KeyRows(x, "time"), "time")
  <2>1. P(x) = {p \in Live(S(x), "time") : p.rank \in Shown(x, "time")}
    <3>1. \A p \in Live(S(x), "time") : p.rank \in Shown(x, "time") <=> AboveThreshold(h, setup, p)
      <4> HIDE DEF S
      <4>1. QED
        BY <1>1, <1>2, ShownKnown
    <3> HIDE DEF S
    <3>2. QED
      BY <1>5, <3>1
  <2> HIDE DEF S, P
  <2>2. DataOf(S(x), x, "time") /\ S(x) \in SUBSET S(x) /\ S(x) = Live(S(x), "time")
    BY <1>2, <1>5
  <2>3. Compared(DataRows(S(x), S(x), P(x), x, "time"), "time") = Compared(KeyRows(x, "time"), "time")
    BY <1>1, <2>1, <2>2, DataRowsKnown
  <2>4. QED
    BY <2>3
<1>7. AllTime(h, setup) = UNION {rows(x) : x \in Keys}
  <2> DEFINE shown == {q \in h.stats : AboveThreshold(h, setup, q)}
             ranks1 == {RankRow(p, "time") : p \in shown}
             sums == {SummaryRow(site, OfSite(h.stats, site), "time") : site \in SitesOf(h.stats)}
             own(x) == {[RankRow(p, "time") EXCEPT !.site = IdOf(x)] : p \in P(x)}
             sum(x) == IF S(x) = {} THEN {} ELSE {SummaryRow(IdOf(x), S(x), "time")}
  <2>1. \A x \in Keys : rows(x) = own(x) \cup sum(x)
    BY <1>5 DEF DataRows
  <2>2. ASSUME NEW x \in Keys, NEW p \in S(x)
        PROVE  [RankRow(p, "time") EXCEPT !.site = IdOf(x)] = RankRow(p, "time")
    <3>1. p.csid = IdOf(x)
      BY <1>4
    <3>2. QED
      BY <3>1 DEF RankRow
  <2>3. ranks1 = UNION {own(x) : x \in Keys}
    <3>1. ASSUME NEW p \in shown
          PROVE  \E x \in Keys : RankRow(p, "time") \in own(x)
      <4>1. PICK x \in Keys : p \in S(x)
        BY <1>3
      <4>2. p \in P(x) /\ [RankRow(p, "time") EXCEPT !.site = IdOf(x)] = RankRow(p, "time")
        BY <2>2, <4>1
      <4> HIDE DEF P
      <4>3. QED
        BY <4>2
    <3>2. ASSUME NEW x \in Keys, NEW p \in P(x)
          PROVE  [RankRow(p, "time") EXCEPT !.site = IdOf(x)] \in ranks1
      <4>1. p \in S(x) /\ p \in shown
        BY <1>4
      <4>2. [RankRow(p, "time") EXCEPT !.site = IdOf(x)] = RankRow(p, "time")
        BY <2>2, <4>1
      <4> HIDE DEF shown
      <4>3. QED
        BY <4>1, <4>2
    <3> HIDE DEF shown, P
    <3>3. QED
      BY <3>1, <3>2
  <2>4. sums = UNION {sum(x) : x \in Keys}
    <3>1. \A site : site \in SitesOf(h.stats) <=> \E x \in Keys : site = IdOf(x) /\ S(x) # {}
      <4>1. \A p \in h.stats : \E x \in Keys : p.csid = IdOf(x) /\ S(x) # {}
        BY <1>3, <1>4
      <4>2. \A x \in Keys : S(x) # {} => IdOf(x) \in SitesOf(h.stats)
        BY DEF SitesOf, OfSite
      <4> HIDE DEF S
      <4>3. QED
        BY <4>1, <4>2 DEF SitesOf
    <3>2. QED
      BY <3>1
  <2>5. AllTime(h, setup) = ranks1 \cup sums
    BY DEF AllTime
  <2> HIDE DEF ranks1, sums, own, sum, rows
  <2>6. QED
    BY <2>1, <2>3, <2>4, <2>5
<1> HIDE DEF rows
<1>8. Compared(AllTime(h, setup), "time") = UNION {Compared(rows(x), "time") : x \in Keys}
  BY <1>7 DEF Compared
<1>9. RowsFor(Keys, "time") = UNION {Compared(KeyRows(x, "time"), "time") : x \in Keys}
  BY DEF RowsFor
<1>10. QED
  BY <1>6, <1>8, <1>9

LEMMA AllRowsKnown ==
    ASSUME NEW h, Whole(h), h.stats \subseteq RecordsOf(Ranks), ~setup.collective,
           NEW f \in Fields, f # "time"
    PROVE  Compared(AllRows(h.stats, f), f) = RowsFor(Keys, f)
<1> DEFINE T == Active(h.stats, f)
           S(x) == OfSite(h.stats, IdOf(x))
           A(x) == OfSite(T, IdOf(x))
           rows(x) == DataRows(S(x), A(x), A(x), x, f)
<1>1. RecordsKnown /\ TaskTimes(h)
  BY DEF Whole, HasCalls, TaskTimes
<1>2. \A x \in Keys : DataOf(S(x), x, f)
  BY StatsData
<1>3. \A p \in T : \E x \in Keys : p \in A(x)
  <2>1. \A p \in T : p \in h.stats /\ \E x \in Keys : p \in S(x)
    BY StatsSite DEF Active
  <2>2. QED
    BY <2>1 DEF OfSite
<1>4. \A x : A(x) \subseteq T /\ \A p \in A(x) : p.csid = IdOf(x)
  BY DEF OfSite
<1>5. \A x : Live(S(x), f) = A(x)
  BY DEF Live, OfSite, Active
<1>6. ASSUME NEW x \in Keys
      PROVE  Compared(rows(x), f) = Compared(KeyRows(x, f), f)
  <2>1. A(x) = {p \in Live(S(x), f) : p.rank \in Shown(x, f)}
    <3>1. \A p \in Live(S(x), f) : p.rank \in Shown(x, f)
      <4> HIDE DEF S
      <4>1. QED
        BY <1>1, <1>2, ShownKnown
    <3> HIDE DEF S, A
    <3>2. QED
      BY <1>5, <3>1
  <2>2. DataOf(S(x), x, f) /\ A(x) \in SUBSET S(x) /\ A(x) = Live(S(x), f)
    BY <1>2, <1>5 DEF Live
  <2> HIDE DEF S, A
  <2>3. Compared(DataRows(S(x), A(x), A(x), x, f), f) = Compared(KeyRows(x, f), f)
    BY <1>1, <2>1, <2>2, DataRowsKnown
  <2>4. QED
    BY <2>3
<1>7. AllRows(h.stats, f) = UNION {rows(x) : x \in Keys}
  <2> DEFINE ranks1 == {RankRow(p, f) : p \in T}
             sums == {SummaryRow(site, OfSite(T, site), f) : site \in SitesOf(T)}
             own(x) == {[RankRow(p, f) EXCEPT !.site = IdOf(x)] : p \in A(x)}
             sum(x) == IF A(x) = {} THEN {} ELSE {SummaryRow(IdOf(x), A(x), f)}
  <2>1. \A x \in Keys : rows(x) = own(x) \cup sum(x)
    BY <1>5 DEF DataRows
  <2>2. ASSUME NEW x \in Keys, NEW p \in A(x)
        PROVE  [RankRow(p, f) EXCEPT !.site = IdOf(x)] = RankRow(p, f)
    <3>1. p.csid = IdOf(x)
      BY <1>4
    <3>2. QED
      BY <3>1 DEF RankRow
  <2>3. ranks1 = UNION {own(x) : x \in Keys}
    <3>1. ASSUME NEW p \in T
          PROVE  \E x \in Keys : RankRow(p, f) \in own(x)
      <4>1. PICK x \in Keys : p \in A(x)
        BY <1>3
      <4>2. [RankRow(p, f) EXCEPT !.site = IdOf(x)] = RankRow(p, f)
        BY <2>2, <4>1
      <4> HIDE DEF A
      <4>3. QED
        BY <4>1, <4>2
    <3>2. ASSUME NEW x \in Keys, NEW p \in A(x)
          PROVE  [RankRow(p, f) EXCEPT !.site = IdOf(x)] \in ranks1
      <4>1. p \in T
        BY <1>4
      <4>2. [RankRow(p, f) EXCEPT !.site = IdOf(x)] = RankRow(p, f)
        BY <2>2
      <4> HIDE DEF T
      <4>3. QED
        BY <4>1, <4>2
    <3> HIDE DEF T, A
    <3>3. QED
      BY <3>1, <3>2
  <2>4. sums = UNION {sum(x) : x \in Keys}
    <3>1. \A site : site \in SitesOf(T) <=> \E x \in Keys : site = IdOf(x) /\ A(x) # {}
      <4>1. \A p \in T : \E x \in Keys : p.csid = IdOf(x) /\ A(x) # {}
        BY <1>3, <1>4
      <4>2. \A x \in Keys : A(x) # {} => IdOf(x) \in SitesOf(T)
        BY DEF SitesOf, OfSite
      <4> HIDE DEF A, T
      <4>3. QED
        BY <4>1, <4>2 DEF SitesOf
    <3> HIDE DEF T
    <3>2. QED
      BY <3>1
  <2>5. AllRows(h.stats, f) = ranks1 \cup sums
    BY DEF AllRows
  <2> HIDE DEF ranks1, sums, own, sum, rows
  <2>6. QED
    BY <2>1, <2>3, <2>4, <2>5
<1> HIDE DEF rows
<1>8. Compared(AllRows(h.stats, f), f) = UNION {Compared(rows(x), f) : x \in Keys}
  BY <1>7 DEF Compared
<1>9. RowsFor(Keys, f) = UNION {Compared(KeyRows(x, f), f) : x \in Keys}
  BY DEF RowsFor
<1>10. QED
  BY <1>6, <1>8, <1>9

(* Without data there is no row. *)
LEMMA NothingToShow ==
    ASSUME RecordsKnown, NEW f \in Fields, f # "time", NEW x,
           \A k \in CallsOf(Ranks, {x}) : ~(k.amount[f] > 0)
    PROVE  KeyRows(x, f) = {}
<1>1. ASSUME NEW r \in With(x, f)
      PROVE  FALSE
  <2> DEFINE K == CallsOf({r}, {x})
  <2>1. r \in Ranks /\ SumOf(K, f) > 0
    BY <1>1 DEF With
  <2>2. K \in SUBSET DOMAIN calls /\ calls \in Bags
    BY CallsOfFacts
  <2>3. K \subseteq CallsOf(Ranks, {x})
    BY <2>1 DEF CallsOf
  <2> HIDE DEF K
  <2>4. SumOf(K, f) = Amount(calls, K, f)
    BY <2>2, SumsOfCalls
  <2>5. \E k \in K : k.amount[f] > 0
    BY <2>1, <2>2, <2>4, AmountZero
  <2>6. QED
    BY <2>3, <2>5
<1>2. With(x, f) = {} /\ Shown(x, f) = {}
  BY <1>1 DEF Shown
<1>3. QED
  BY <1>2 DEF KeyRows

LEMMA NoneToShow ==
    ASSUME RecordsKnown, NEW f \in Fields, f # "time", \A k \in Counted : ~(k.amount[f] > 0)
    PROVE  \A X : RowsFor(X, f) = {}
<1>1. \A x : \A k \in CallsOf(Ranks, {x}) : ~(k.amount[f] > 0)
  BY DEF CallsOf
<1>2. \A x : KeyRows(x, f) = {}
  BY <1>1, NothingToShow
<1>3. QED
  BY <1>2 DEF RowsFor, Compared

(* What a page shows for each callsite. *)
SectionOf(h, f) ==
    CASE f = "time" -> AllTime(h, setup)
      [] f = "sent" -> AllSent(h)
      [] f = "io"   -> AllIO(h)
      [] f = "rma"  -> AllRMA(h)

LEMMA SectionKnown ==
    ASSUME NEW h, Whole(h), h.stats \subseteq RecordsOf(Ranks), ~setup.collective, NEW f \in Fields
    PROVE  Compared(SectionOf(h, f), f) = RowsFor(Keys, f)
<1>1. CASE f = "time"
  BY <1>1, AllTimeKnown DEF SectionOf
<1>2. CASE f # "time"
  <2>1. SectionOf(h, f) = IF h.total[f] > 0 THEN AllRows(h.stats, f) ELSE {}
    BY <1>2 DEF SectionOf, Fields, AllSent, AllIO, AllRMA, Absent
  <2>2. CASE h.total[f] > 0
    BY <1>2, <2>1, <2>2, AllRowsKnown
  <2>3. CASE ~(h.total[f] > 0)
    <3>1. h.total[f] \in Nat /\ \A k \in Counted : k.amount[f] <= h.total[f]
      BY DEF Whole, HasCalls
    <3>2. \A k \in Counted : k.amount[f] \in Nat
      <4>1. calls \in Bags /\ Counted \in SUBSET DOMAIN calls
        BY CallFacts DEF Whole
      <4>2. QED
        BY <4>1, BagFacts
    <3>3. \A k \in Counted : ~(k.amount[f] > 0)
      BY <2>3, <3>1, <3>2
    <3>4. RowsFor(Keys, f) = {}
      BY <1>2, <3>3, NoneToShow DEF Whole
    <3>5. QED
      BY <2>1, <2>3, <3>4 DEF Compared
  <2>4. QED
    BY <2>2, <2>3
<1>3. QED
  BY <1>1, <1>2

(***************************************************************************)
(* With the other ranks.                                                   *)
(***************************************************************************)
IsRecord(b) ==
    b = [op |-> b.op, rank |-> b.rank, pc |-> b.pc, csid |-> b.csid, count |-> b.count,
         large |-> b.large, sum |-> b.sum, max |-> b.max, min |-> b.min]

LEMMA ClearedShape ==
    ASSUME NEW b, IsRecord(b)
    PROVE  /\ IsRecord(ResetStat(b))
           /\ ResetStat(b).count = 0
           /\ \A f \in Fields \ {"rma"} : ResetStat(b).sum[f] = 0 /\ ResetStat(b).max[f] = 0
<1> DEFINE sum == Each(LAMBDA f : IF Kept(f) THEN b.sum[f] ELSE 0)
           max == Each(LAMBDA f : IF Kept(f) THEN b.max[f] ELSE 0)
           min == Each(LAMBDA f : IF Kept(f) THEN b.min[f] ELSE Large)
<1>1. \A f \in Fields \ {"rma"} : sum[f] = 0 /\ max[f] = 0
  BY DEF Each, Kept
<1>2. ResetStat(b) = [b EXCEPT !.count = 0, !.large = 0, !.sum = sum, !.max = max, !.min = min]
  BY DEF ResetStat
<1> HIDE DEF sum, max, min
<1>3. ResetStat(b) = [op |-> b.op, rank |-> b.rank, pc |-> b.pc, csid |-> b.csid, count |-> 0,
                      large |-> 0, sum |-> sum, max |-> max, min |-> min]
  BY <1>2 DEF IsRecord
<1>4. QED
  BY <1>1, <1>3 DEF IsRecord

LEMMA BufferShape == \A stale : IsRecord(Buffer(stale))
<1>1. SUFFICES ASSUME NEW stale
               PROVE  IsRecord(Buffer(stale))
  OBVIOUS
<1> DEFINE zero == Each(LAMBDA f : 0)
           z == [op |-> 0, rank |-> Collector, pc |-> <<>>, csid |-> 0, count |-> 0,
                 large |-> 0, sum |-> zero, max |-> zero, min |-> zero]
           p == NewCallsite(Collector, 0, <<>>)
<1>2. IsRecord(z)
  BY DEF IsRecord
<1>3. p = ResetStat(z)
  BY DEF NewCallsite
<1> HIDE DEF z, p
<1>4. IsRecord(p)
  BY <1>2, <1>3, ClearedShape
<1>5. PICK s : s = [p.sum EXCEPT !["rma"] = stale]
  OBVIOUS
<1>6. [p EXCEPT !.sum["rma"] = stale] = [p EXCEPT !.sum = s]
  BY <1>5
<1>7. Buffer(stale) = [p EXCEPT !.sum = s]
  BY <1>6 DEF Buffer, p
<1>8. QED
  BY <1>4, <1>7 DEF IsRecord

LEMMA DummyShape ==
    ASSUME NEW r \in Ranks, IsRecord(Current), NEW toZero
    PROVE  /\ Dummy(r, toZero).rank = r /\ Dummy(r, toZero).count = 0
           /\ \A f \in Fields \ {"rma"} : Dummy(r, toZero).sum[f] = 0 /\ Dummy(r, toZero).max[f] = 0
<1> DEFINE b == LookupBuffer(r)
           clear == ResetStat(b)
           min == Each(LAMBDA f : IF toZero /\ ~Kept(f) THEN 0 ELSE clear.min[f])
<1>1. IsRecord(b)
  BY BufferShape DEF LookupBuffer
<1>2. Dummy(r, toZero) = [clear EXCEPT !.rank = r, !.min = min]
  BY DEF Dummy
<1> HIDE DEF b, clear, min
<1>3. /\ IsRecord(clear) /\ clear.count = 0
      /\ \A f \in Fields \ {"rma"} : clear.sum[f] = 0 /\ clear.max[f] = 0
  BY <1>1, ClearedShape DEF clear
<1>4. Dummy(r, toZero) = [op |-> clear.op, rank |-> r, pc |-> clear.pc, csid |-> clear.csid,
                          count |-> clear.count, large |-> clear.large, sum |-> clear.sum,
                          max |-> clear.max, min |-> min]
  BY <1>2, <1>3 DEF IsRecord
<1>5. QED
  BY <1>3, <1>4

(* What a rank contributes to the rows of a callsite. *)
LEMMA LookupKnown ==
    ASSUME RecordsKnown, ctl.pc # "run", setup.depth > 0, IsRecord(Current),
           NEW x, x = SiteOf(Current), NEW r \in Ranks, NEW f \in Fields, f # "rma",
           NEW K, K = CallsOf({r}, {x})
    PROVE  /\ Lookup(r).rank = r
           /\ Lookup(r).count = Count(calls, K) /\ Lookup(r).sum[f] = Amount(calls, K, f)
           /\ IsGreatest(Lookup(r).max[f], K, f)
           /\ K # {} => IsLeast(Lookup(r).min[f], K, f)
<1> DEFINE found == Matching(rank[r], Current, {"op", "pc"})
<1>1. rank[r] \in Tables(r, CallsBy(r), calls)
  BY DEF RecordsKnown
<1>2. K = AtSite(CallsBy(r), x)
  BY DEF CallsOf, AtSite, CallsBy, Key
<1>3. found = {p \in rank[r] : SiteOf(p) = x}
  BY DEF Matching, SiteOf
<1>4. CASE found = {}
  <2>1. K = {}
    <3>1. ASSUME NEW k \in K
          PROVE  FALSE
      <4>1. k \in CallsBy(r) /\ k.site = x
        BY <1>2 DEF AtSite
      <4>2. \E p \in rank[r] : SiteOf(p) = k.site
        BY <1>1, <4>1 DEF Tables
      <4>3. QED
        BY <1>3, <1>4, <4>1, <4>2
    <3>2. QED
      BY <3>1
  <2>2. \E z : Lookup(r) = Dummy(r, z)
    BY <1>4 DEF Lookup
  <2>3. /\ Lookup(r).rank = r /\ Lookup(r).count = 0
        /\ Lookup(r).sum[f] = 0 /\ Lookup(r).max[f] = 0
    <3>1. f \in Fields \ {"rma"}
      OBVIOUS
    <3>2. \A z : /\ Dummy(r, z).rank = r /\ Dummy(r, z).count = 0
                 /\ Dummy(r, z).sum[f] = 0 /\ Dummy(r, z).max[f] = 0
      BY <3>1, DummyShape
    <3>3. QED
      BY <2>2, <3>2
  <2>4. Count(calls, K) = 0 /\ Amount(calls, K, f) = 0
    BY <2>1, SumEmpty DEF Count, Amount
  <2>5. QED
    BY <2>1, <2>3, <2>4 DEF IsGreatest
<1>5. CASE found # {}
  <2> DEFINE p == CHOOSE p \in found : TRUE
  <2>1. p \in rank[r] /\ SiteOf(p) = x
    BY <1>3, <1>5
  <2>2. Lookup(r) = p
    BY <1>5 DEF Lookup
  <2> HIDE DEF p
  <2>3. p.rank = r
    BY <1>1, <2>1 DEF Tables, RecordsOf
  <2>4. Represents(p, K, calls)
    BY <1>1, <1>2, <2>1 DEF Tables, RecordsFor
  <2>5. QED
    BY <2>2, <2>3, <2>4, RecordData
<1>6. QED
  BY <1>4, <1>5

(* What they all contribute. *)
Gathered == {Lookup(r) : r \in Ranks}

LEMMA GatheredKnown ==
    ASSUME RecordsKnown, ctl.pc # "run", setup.depth > 0, IsRecord(Current),
           NEW x, x = SiteOf(Current), NEW f \in Fields, f # "rma"
    PROVE  DataOf(Gathered, x, f)
<1>1. \A r \in Ranks :
         LET K == CallsOf({r}, {x}) IN
         /\ Lookup(r).rank = r
         /\ Lookup(r).count = Count(calls, K) /\ Lookup(r).sum[f] = Amount(calls, K, f)
         /\ IsGreatest(Lookup(r).max[f], K, f)
         /\ K # {} => IsLeast(Lookup(r).min[f], K, f)
  BY LookupKnown
<1>2. \A p \in Gathered : \E r \in Ranks : p = Lookup(r) /\ p.rank = r
  <2>1. ASSUME NEW r \in Ranks
        PROVE  Lookup(r).rank = r
    BY <1>1
  <2>2. QED
    BY <2>1 DEF Gathered
<1>3. \A p \in Gathered : p.rank \in Ranks /\ p = Lookup(p.rank)
  BY <1>2
<1>4. IsFiniteSet(Gathered)
  <2> DEFINE i == [p \in Gathered |-> p.rank]
  <2>1. i \in Injection(Gathered, Ranks)
    BY <1>3 DEF Injection, IsInjective
  <2>2. IsFiniteSet(Ranks)
    BY ReportAssumption
  <2> HIDE DEF i
  <2>3. QED
    BY <2>1, <2>2, FS_Injection
<1>5. \A k \in CallsOf(Ranks, {x}) : \E p \in Gathered : p.rank = k.rank
  BY <1>1 DEF CallsOf, Gathered
<1>6. ASSUME NEW p \in Gathered
      PROVE  LET K == CallsOf({p.rank}, {x})
             IN /\ p.rank \in Ranks
                /\ p.count = Count(calls, K) /\ p.sum[f] = Amount(calls, K, f)
                /\ f # "rma" => IsGreatest(p.max[f], K, f) /\ (K # {} => IsLeast(p.min[f], K, f))
  BY <1>1, <1>3
<1>7. QED
  BY <1>3, <1>4, <1>5, <1>6 DEF DataOf

(* The rows of the calls depend on nothing else. *)
LEMMA RowsSame ==
    ASSUME UNCHANGED <<setup, calls, named>>
    PROVE  Keys' = Keys /\ \A X, f : RowsFor(X, f)' = RowsFor(X, f)
<1>1. Counted' = Counted
  BY DEF Counted
<1>2. \A s : Key(s)' = Key(s)
  BY DEF Key
<1>3. Keys' = Keys
  BY <1>1, <1>2 DEF Keys
<1>4. \A R, X : CallsOf(R, X)' = CallsOf(R, X)
  BY <1>1, <1>2 DEF CallsOf
<1>5. \A K : CountOf(K)' = CountOf(K)
  BY DEF CountOf, Total
<1>6. \A K, f : SumOf(K, f)' = SumOf(K, f)
  BY DEF SumOf, Total
<1>7. \A x : IdOf(x)' = IdOf(x)
  BY <1>2 DEF IdOf
<1>8. \A x, r, K, f : RowOf(x, r, K, f)' = RowOf(x, r, K, f)
  BY <1>5, <1>6, <1>7 DEF RowOf, GreatestOf, LeastOf
<1>9. \A x, f : With(x, f)' = With(x, f)
  BY <1>4, <1>6 DEF With
<1>10. \A x, f : Shown(x, f)' = Shown(x, f)
  <2>1. \A R, X, f : SumOf(CallsOf(R, X), f)' = SumOf(CallsOf(R, X), f)
    BY <1>4, <1>6
  <2>2. \A r, f : SumOf(CallsOf({r}, Keys), f)' = SumOf(CallsOf({r}, Keys), f)
    BY <1>3, <2>1
  <2> DEFINE Enough(part, all, of) == all > 0 /\ 100 * part >= of.printThreshold * all
             Part(x, r, f) == SumOf(CallsOf({r}, {x}), f)
             All(r, f) == SumOf(CallsOf({r}, Keys), f)
  <2>3. /\ \A x, f : Shown(x, f) =
              IF f # "time" THEN With(x, f)
              ELSE {r \in With(x, f) : Enough(Part(x, r, f), All(r, f), setup)}
        /\ \A x, f : Shown(x, f)' =
              IF f # "time" THEN With(x, f)'
              ELSE {r \in With(x, f)' : Enough(Part(x, r, f)', All(r, f)', setup')}
    BY DEF Shown
  <2>4. (\A x, r, f : Part(x, r, f)' = Part(x, r, f)) /\ \A r, f : All(r, f)' = All(r, f)
    BY <2>1, <2>2
  <2> HIDE DEF Enough, Part, All
  <2>5. QED
    BY <1>9, <2>3, <2>4
<1>11. \A x, f : KeyRows(x, f)' = KeyRows(x, f)
  BY <1>4, <1>8, <1>9, <1>10 DEF KeyRows
<1>12. \A row, f : Comparable(row, f)' = Comparable(row, f)
  BY DEF Comparable
<1>13. \A S, f : Compared(S, f)' = Compared(S, f)
  BY <1>12 DEF Compared
<1>14. \A x, f : Compared(KeyRows(x, f), f)' = Compared(KeyRows(x, f), f)
  BY <1>11, <1>13
<1>15. \A X, f : RowsFor(X, f)' = RowsFor(X, f)
  BY <1>14 DEF RowsFor
<1>16. QED
  BY <1>3, <1>15

(* An aggregate of the collector belongs to a callsite, and each callsite  *)
(* has one.                                                                *)
LEMMA AggregateSite ==
    ASSUME NEW h, Whole(h), setup.depth > 0, NEW p \in h.agg
    PROVE  /\ IsRecord(p) /\ SiteOf(p) \in Keys /\ IdOf(SiteOf(p)) = p.csid
           /\ p.csid \in Nat
           /\ \A f \in Fields : p.sum[f] = Amount(calls, CallsOf(Ranks, {SiteOf(p)}), f)
<1>1. Groups(h.agg, Star, Ranks, named, Counted, calls)
  BY DEF Whole, HasCalls
<1>2. p \in RecordsOf({Star})
  BY <1>1 DEF Groups
<1>3. PICK n \in named : n.id = p.csid /\ n.site = SiteOf(p)
  BY <1>1 DEF Groups
<1>4. Key(n.site) = n.site
  BY DEF Key
<1>5. SiteOf(p) \in Keys /\ IdOf(SiteOf(p)) = p.csid
  BY <1>3, <1>4, KeyNumbers DEF Whole
<1>6. Represents(p, Group(named, Counted, Ranks, p.csid), calls)
  BY <1>1 DEF Groups
<1>7. CallsOf(Ranks, {SiteOf(p)}) = Group(named, Counted, Ranks, p.csid)
  BY <1>5, KeyGroup DEF Whole
<1>8. IsRecord(p) /\ p.csid \in Nat
  BY <1>2 DEF RecordsOf, IsRecord
<1>9. \A f \in Fields : p.sum[f] = Amount(calls, CallsOf(Ranks, {SiteOf(p)}), f)
  BY <1>6, <1>7 DEF Represents
<1>10. QED
  BY <1>5, <1>8, <1>9

LEMMA KeyAggregate ==
    ASSUME NEW h, Whole(h), NEW x \in Keys
    PROVE  \E p \in h.agg : p.csid = IdOf(x)
<1>1. Groups(h.agg, Star, Ranks, named, Counted, calls)
  BY DEF Whole, HasCalls
<1>2. PICK k \in Counted : x = Key(k.site)
  BY DEF Keys
<1>3. k.rank \in Ranks
  <2>1. calls \in Bags /\ Counted \in SUBSET DOMAIN calls
    BY CallFacts DEF Whole
  <2>2. QED
    BY <1>2, <2>1, BagFacts
<1>4. PICK p \in h.agg, n \in named : n.site = k.site /\ n.id = p.csid
  BY <1>1, <1>2, <1>3 DEF Groups
<1>5. IdOf(x) = n.id
  BY <1>2, <1>4, KeyNumbers DEF Whole
<1>6. QED
  BY <1>4, <1>5

(* The row for all is printed if there is a call. *)
LEMMA CountedKnown ==
    ASSUME RecordsKnown, NEW S, NEW x, NEW f \in Fields, DataOf(S, x, f), NEW id
    PROVE  f = "time" => (SummaryRow(id, S, f).count > 0 <=> Live(S, f) # {})
<1> DEFINE K == CallsOf(RanksOf(S), {x})
<1>1. K \in SUBSET DOMAIN calls /\ calls \in Bags
  BY CallsOfFacts
<1>2. SummaryRow(id, S, f).count = CountOf(K)
  <2>1. K = CallsOf(RanksOf(S), {x})
    OBVIOUS
  <2> HIDE DEF K
  <2>2. ASSUME NEW A \in SUBSET S, K = CallsOf(RanksOf(A), {x})
        PROVE  SummaryRow(id, A, f).count = CountOf(K)
    BY <2>2, SumsOver, SMTT(30)
  <2>3. QED
    BY <2>1, <2>2
<1>3. /\ \A p \in Live(S, f) : p \in S /\ p.rank \in With(x, f) /\ CallsOf({p.rank}, {x}) # {}
      /\ \A r \in With(x, f) : \E p \in Live(S, f) : p.rank = r
      /\ \A p \in S \ Live(S, f) : p.rank \notin With(x, f)
  BY LiveRanks
<1>4. f = "time" => (K # {} <=> Live(S, f) # {})
  <2>1. \A k \in K : \E p \in S : k \in CallsOf({p.rank}, {x}) /\ p.rank \in Ranks
    BY DEF CallsOf, RanksOf, DataOf
  <2>2. f = "time" => \A p \in S : p.rank \in Ranks /\ CallsOf({p.rank}, {x}) # {} => p.rank \in With(x, f)
    BY DEF With
  <2>3. \A p \in S : \A k \in CallsOf({p.rank}, {x}) : k \in K
    BY DEF CallsOf, RanksOf
  <2> HIDE DEF K
  <2>4. ASSUME NEW k \in K, f = "time"
        PROVE  Live(S, f) # {}
    BY <1>3, <2>1, <2>2, <2>4, Zenon
  <2>5. ASSUME NEW p \in Live(S, f)
        PROVE  K # {}
    BY <1>3, <2>3
  <2>6. QED
    BY <2>4, <2>5
<1> HIDE DEF K
<1>5. CASE K = {}
  <2>1. Count(calls, K) = 0
    BY <1>5, SumEmpty DEF Count
  <2>2. CountOf(K) = Count(calls, K)
    BY <1>1, SumsOfCalls
  <2>3. QED
    BY <1>2, <1>4, <1>5, <2>1, <2>2
<1>6. CASE K # {}
  <2>1. Count(calls, K) > 0
    BY <1>1, <1>6, AmountAbove
  <2>2. CountOf(K) = Count(calls, K)
    BY <1>1, SumsOfCalls
  <2>3. QED
    BY <1>2, <1>4, <1>6, <2>1, <2>2
<1>7. QED
  BY <1>5, <1>6

(* A round prints the rows of its callsite. *)
LEMMA RoundKnown ==
    ASSUME Whole(g), ctl.pc # "run", setup.collective, setup.depth > 0, Style = "verbose",
           Current \in g.agg, NEW f \in Fields, f # "rma",
           NEW x, x = SiteOf(Current)
    PROVE  Compared(RoundRows(f), f) = Compared(KeyRows(x, f), f)
<1> DEFINE data == [r \in Ranks |-> Lookup(r)]
           S == Gathered
<1>1. /\ RecordsKnown /\ TaskTimes(g) /\ IsRecord(Current) /\ IdOf(x) = Current.csid
  BY AggregateSite DEF Whole, HasCalls, TaskTimes
<1>2. DataOf(S, x, f)
  BY <1>1, GatheredKnown
<1>3. {data[r] : r \in Ranks} = S
  BY DEF Gathered
<1>4. RoundRows(f) = VerboseRound(IdOf(x), data, f)
  BY <1>1 DEF RoundRows
<1> HIDE DEF data, S
<1>5. ASSUME f = "time"
      PROVE  Compared(RoundRows(f), f) = Compared(KeyRows(x, f), f)
  <2> DEFINE shown == {p \in S : p.count > 0 /\ AboveThreshold(g, setup, p)}
             sum == SummaryRow(IdOf(x), S, "time")
  <2>1. RoundRows(f) = GatheredTime(g, setup, IdOf(x), data)
    BY <1>4, <1>5 DEF VerboseRound
  <2>2. sum.count = Total(S, LAMBDA p : p.count)
    BY DEF SummaryRow
  <2>3. sum.count > 0 <=> Live(S, f) # {}
    BY <1>1, <1>2, <1>5, CountedKnown
  <2>4. RoundRows(f) = {[RankRow(p, "time") EXCEPT !.site = IdOf(x)] : p \in shown}
                       \cup IF sum.count > 0 THEN {sum} ELSE {}
    BY <1>3, <2>1, <2>2 DEF GatheredTime
  <2>5. RoundRows(f) = DataRows(S, S, shown, x, f)
    <3> HIDE DEF shown, sum
    <3>1. QED
      BY <1>5, <2>3, <2>4 DEF DataRows, sum
  <2>6. shown = {p \in Live(S, f) : p.rank \in Shown(x, f)}
    <3>1. \A p \in Live(S, f) : p.rank \in Shown(x, f) <=> AboveThreshold(g, setup, p)
      BY <1>1, <1>2, <1>5, ShownKnown
    <3>2. QED
      BY <1>5, <3>1 DEF Live
  <2>7. Live(S, f) \subseteq S /\ S \in SUBSET S
    BY DEF Live
  <2> HIDE DEF shown
  <2>8. Compared(DataRows(S, S, shown, x, f), f) = Compared(KeyRows(x, f), f)
    BY <1>1, <1>2, <1>5, <2>6, <2>7, DataRowsKnown
  <2>9. QED
    BY <2>5, <2>8
<1>6. ASSUME f # "time"
      PROVE  Compared(RoundRows(f), f) = Compared(KeyRows(x, f), f)
  <2> DEFINE A == Active(S, f)
  <2>1. RoundRows(f) = GatheredRows(IdOf(x), data, f)
    BY <1>4, <1>6 DEF VerboseRound, CollectiveSent, CollectiveIO, Fields
  <2>2. RoundRows(f) = {[RankRow(p, f) EXCEPT !.site = IdOf(x)] : p \in A}
                       \cup IF A # {} THEN {SummaryRow(IdOf(x), A, f)} ELSE {}
    BY <1>3, <2>1 DEF GatheredRows
  <2>3. A = Live(S, f)
    BY <1>6 DEF Live, Active
  <2> HIDE DEF A
  <2>4. RoundRows(f) = DataRows(S, A, A, x, f)
    BY <2>2, <2>3 DEF DataRows
  <2>5. A = {p \in Live(S, f) : p.rank \in Shown(x, f)}
    <3>1. \A p \in Live(S, f) : p.rank \in Shown(x, f)
      BY <1>1, <1>2, <1>6, ShownKnown
    <3>2. QED
      BY <2>3, <3>1
  <2>6. A \in SUBSET S /\ Live(S, f) \subseteq A
    BY <2>3 DEF Live
  <2>7. Compared(DataRows(S, A, A, x, f), f) = Compared(KeyRows(x, f), f)
    BY <1>1, <1>2, <2>3, <2>5, <2>6, DataRowsKnown
  <2>8. QED
    BY <2>4, <2>7
<1>7. QED
  BY <1>5, <1>6

(* A callsite that a section passes over has no rows. *)
LEMMA SkippedKnown ==
    ASSUME Whole(g), setup.depth > 0, Current \in g.agg, NEW f \in Fields, f # "time",
           ~(Current.sum[f] > 0), NEW x, x = SiteOf(Current)
    PROVE  KeyRows(x, f) = {}
<1> DEFINE K == CallsOf(Ranks, {x})
<1>1. RecordsKnown /\ Current.sum[f] = Amount(calls, K, f)
  BY AggregateSite DEF Whole
<1>2. K \in SUBSET DOMAIN calls /\ calls \in Bags
  BY <1>1, CallsOfFacts
<1>3. \A k \in K : ~(k.amount[f] > 0)
  <2> HIDE DEF K
  <2>1. QED
    BY <1>1, <1>2, AmountZero
<1>4. QED
  BY <1>1, <1>3, NothingToShow

(* Nor have any, if the section is not entered. *)
LEMMA GateKnown ==
    ASSUME Whole(g), NEW f \in Fields, f # "time", ~(Gate(f) > 0)
    PROVE  \A X : RowsFor(X, f) = {}
<1>1. RecordsKnown /\ calls \in Bags /\ Counted \in SUBSET DOMAIN calls
  BY CallFacts DEF Whole
<1>2. \A k \in Counted : k.amount[f] \in Nat
  BY <1>1, BagFacts
<1>3. \A k \in Counted : k.amount[f] <= g.total[f] /\ (k.amount["sent"] > 0 => g.sentCount > 0)
  BY DEF Whole, HasCalls
<1>4. g.total[f] \in Nat
  BY DEF Whole
<1>5. ASSUME NEW k \in Counted
      PROVE  ~(k.amount[f] > 0)
  <2>1. CASE f = "sent"
    BY <1>3, <2>1 DEF Gate
  <2>2. CASE f # "sent"
    <3>1. ~(g.total[f] > 0)
      BY <2>2 DEF Gate
    <3>2. QED
      BY <1>2, <1>3, <1>4, <3>1
  <2>3. QED
    BY <2>1, <2>2
<1>6. QED
  BY <1>1, <1>5, NoneToShow

(***************************************************************************)
(* The rounds of a verbose section.                                        *)
(***************************************************************************)
(* The callsites that are printed when the ranks stand at l: all of the    *)
(* sections before, and of this one those of the rounds before.            *)
InRounds == {"total", "record", "rows"}
Passed(f, l) ==
    {x \in Keys : \E n \in 1 .. 4 :
        /\ Order[n] = f
        /\ \/ n < l.n
           \/ /\ n = l.n /\ l.at \in InRounds
              /\ \E i \in 1 .. l.i : Listed(f)[i].csid = IdOf(x)}

(* A rank in a verbose collective section. *)
RoundsKnown(l) ==
    /\ l.n \in 1 .. 5 /\ (l.at = "end" <=> l.n = 5)
    /\ l.at \in {"gate", "total"} => l.n # 1
    /\ l.at \in {"gate", "malloc", "count"} => l.i = 0
    /\ l.at = "count" => setup.room
    /\ l.at \in InRounds => /\ setup.room /\ l.i \in Nat /\ l.i < l.ac
                            /\ l.ac = Len(Listed(Order[l.n]))

LEMMA ListedKnown ==
    ASSUME Whole(g), setup.depth > 0, Style = "verbose", NEW f
    PROVE  /\ Len(Listed(f)) \in Nat
           /\ \A i \in 1 .. Len(Listed(f)) : Listed(f)[i] \in g.agg
           /\ \A p \in g.agg : \E i \in 1 .. Len(Listed(f)) : Listed(f)[i] = p
<1> DEFINE v == [p \in g.agg |-> -p.csid]
<1>1. IsFiniteSet(g.agg)
  BY DEF Whole, HasCalls, Groups
<1>2. v \in [g.agg -> Int]
  <2>1. \A p \in g.agg : p.csid \in Nat
    BY AggregateSite
  <2>2. \A p \in g.agg : -p.csid \in Int
    BY <2>1
  <2>3. QED
    BY <2>2
<1>3. Listed(f) = Descending(v)
  BY DEF Listed
<1> HIDE DEF v
<1>4. /\ Cardinality(g.agg) \in Nat
      /\ Descending(v) \in [1 .. Cardinality(g.agg) -> g.agg]
      /\ Len(Descending(v)) = Cardinality(g.agg)
      /\ \A p \in g.agg : \E i \in 1 .. Cardinality(g.agg) : Descending(v)[i] = p
  BY <1>1, <1>2, DescendingFacts
<1>5. QED
  BY <1>3, <1>4

LEMMA OrderOnce ==
    /\ \A i, j \in 1 .. 4 : Order[i] = Order[j] => i = j
    /\ \A f \in Fields : \E i \in 1 .. 4 : Order[i] = f
    /\ \A i \in 1 .. 4 : Order[i] \in Fields
    /\ \A i \in 1 .. 4 : Order[i] = "time" <=> i = 1
  BY DEF Order, Fields

LEMMA EnterVerbose ==
    ASSUME NEW n \in 1 .. 5
    PROVE  /\ Enter("verbose", n).n = n /\ Enter("verbose", n).i = 0
           /\ Enter("verbose", n).at = IF n = 5 THEN "end" ELSE IF n = 1 THEN "malloc" ELSE "gate"
<1> DEFINE at == IF n = 5 THEN "end" ELSE IF n = 1 THEN "malloc" ELSE "gate"
<1>1. Len(Order) = 4 /\ \A i \in 1 .. 4 : Order[i] = "time" <=> i = 1
  BY OrderFacts, OrderOnce
<1>2. (n > Len(Order) <=> n = 5) /\ (n # 5 => (Order[n] = "time" <=> n = 1))
  BY <1>1
<1>3. Enter("verbose", n) = [Outside EXCEPT !.n = n, !.at = at]
  BY <1>2 DEF Enter
<1> HIDE DEF at
<1>4. Enter("verbose", n) = [at |-> at, n |-> n, i |-> 0, ac |-> 0]
  BY <1>3 DEF Outside
<1>5. QED
  BY <1>4 DEF at

(* What the place says of the callsites shown. *)
LEMMA PassedElsewhere ==
    ASSUME NEW l, l.n \in 1 .. 4, NEW m,
           m.n = l.n \/ (m.n = l.n + 1 /\ m.at \notin InRounds),
           NEW e \in Fields, e # Order[l.n]
    PROVE  Passed(e, m) = Passed(e, l)
<1>1. ASSUME NEW n \in 1 .. 4, Order[n] = e
      PROVE  n # l.n /\ (n < m.n <=> n < l.n) /\ ~(n = m.n /\ m.at \in InRounds)
  <2>1. n # l.n
    BY <1>1
  <2>2. QED
    BY <2>1
<1>2. QED
  BY <1>1 DEF Passed

FirstOf(f, n) == {x \in Keys : \E i \in 1 .. n : Listed(f)[i].csid = IdOf(x)}

LEMMA PassedHere ==
    ASSUME NEW l, l.n \in 1 .. 4, NEW m, NEW f, f = Order[l.n]
    PROVE  /\ m.n = l.n + 1 => Passed(f, m) = Keys
           /\ m.n = l.n /\ m.at \notin InRounds => Passed(f, m) = {}
           /\ m.n = l.n /\ m.at \in InRounds => Passed(f, m) = FirstOf(f, m.i)
<1>1. \A n \in 1 .. 4 : Order[n] = f <=> n = l.n
  BY OrderOnce
<1>2. CASE m.n = l.n + 1
  BY <1>1, <1>2 DEF Passed
<1>3. CASE m.n = l.n
  BY <1>1, <1>3 DEF Passed, FirstOf
<1>4. QED
  BY <1>2, <1>3

LEMMA RowsForMore ==
    ASSUME NEW X, NEW x, NEW f
    PROVE  RowsFor(X \cup {x}, f) = RowsFor(X, f) \cup Compared(KeyRows(x, f), f)
  BY DEF RowsFor

(* One round more. *)
LEMMA NextRoundKnown ==
    ASSUME Whole(g), setup.depth > 0, Style = "verbose",
           NEW l, l = [at |-> l.at, n |-> l.n, i |-> l.i, ac |-> l.ac], RoundsKnown(l),
           l.at \in InRounds, NEW f, f = Order[l.n],
           NEW p, p = Listed(f)[l.i + 1], NEW m, m = NextRound(l, f)
    PROVE  /\ p \in g.agg /\ RoundsKnown(m)
           /\ m.n = l.n \/ (m.n = l.n + 1 /\ m.at \notin InRounds)
           /\ Passed(f, m) = Passed(f, l) \cup {SiteOf(p)}
<1> DEFINE L == Listed(f)
           o == [l EXCEPT !.i = @ + 1]
<1>1. /\ l.n \in 1 .. 4 /\ l.i \in Nat /\ l.i < l.ac /\ l.ac = Len(L) /\ setup.room
      /\ Len(L) \in Nat
  <2>1. l.at # "end"
    BY DEF InRounds
  <2>2. QED
    BY <2>1, ListedKnown DEF RoundsKnown
<1>2. p \in g.agg
  BY <1>1, ListedKnown
<1>3. SiteOf(p) \in Keys /\ IdOf(SiteOf(p)) = p.csid
  BY <1>2, AggregateSite
<1>4. o = [at |-> l.at, n |-> l.n, i |-> l.i + 1, ac |-> l.ac]
  OBVIOUS
<1>5. m = Round(o, f)
  BY DEF NextRound
<1>6. \A x \in Keys : p.csid = IdOf(x) <=> x = SiteOf(p)
  BY <1>3, KeyNumbers DEF Whole
<1> HIDE DEF o
<1>7. Passed(f, l) = {x \in Keys : \E i \in 1 .. l.i : L[i].csid = IdOf(x)}
  BY <1>1, PassedHere DEF FirstOf
<1>8. CASE l.i + 1 < l.ac
  <2>1. m = [o EXCEPT !.at = RoundBegin(f)]
    BY <1>4, <1>5, <1>8 DEF Round
  <2>2. RoundBegin(f) \in {"total", "record"}
    BY DEF RoundBegin
  <2>3. m.n = l.n /\ m.i = l.i + 1 /\ m.ac = l.ac /\ m.at \in InRounds
           /\ m.at \notin {"end", "gate", "malloc", "count"}
    BY <1>4, <2>1, <2>2 DEF InRounds
  <2>4. RoundsKnown(m)
    <3>1. f # "time" <=> l.n # 1
      BY <1>1, OrderOnce
    <3>2. m.at = "total" => f # "time"
      BY <2>1, <2>3, <1>4 DEF RoundBegin
    <3>3. QED
      BY <1>1, <1>8, <2>3, <3>1, <3>2 DEF RoundsKnown
  <2>5. Passed(f, m) = {x \in Keys : \E i \in 1 .. (l.i + 1) : L[i].csid = IdOf(x)}
    <3>1. Passed(f, m) = {x \in Keys : \E i \in 1 .. m.i : L[i].csid = IdOf(x)}
      BY <1>1, <2>3, PassedHere DEF FirstOf
    <3>2. QED
      BY <2>3, <3>1
  <2> HIDE DEF L
  <2>6. \A x : (\E i \in 1 .. (l.i + 1) : L[i].csid = IdOf(x))
                  <=> (\E i \in 1 .. l.i : L[i].csid = IdOf(x)) \/ L[l.i + 1].csid = IdOf(x)
    BY <1>1
  <2>7. p = L[l.i + 1]
    BY DEF L
  <2>8. Passed(f, m) = Passed(f, l) \cup {SiteOf(p)}
    BY <1>3, <1>6, <1>7, <2>5, <2>6, <2>7
  <2>9. QED
    BY <1>2, <2>3, <2>4, <2>8
<1>9. CASE ~(l.i + 1 < l.ac)
  <2>1. m = Enter("verbose", l.n + 1)
    BY <1>4, <1>5, <1>9 DEF Round, Leave
  <2>2. l.n + 1 \in 1 .. 5
    BY <1>1
  <2>3. m.n = l.n + 1 /\ m.i = 0 /\ m.at = IF l.n + 1 = 5 THEN "end" ELSE IF l.n + 1 = 1 THEN "malloc" ELSE "gate"
    BY <2>1, <2>2, EnterVerbose
  <2>4. m.at \in {"end", "gate"} /\ (m.at = "end" <=> m.n = 5) /\ m.n # 1 /\ m.n \in 1 .. 5
    BY <1>1, <2>3
  <2>5. RoundsKnown(m) /\ m.at \notin InRounds
    BY <2>3, <2>4 DEF RoundsKnown, InRounds
  <2>6. Passed(f, m) = Keys
    BY <1>1, <2>3, PassedHere
  <2>7. ASSUME NEW x \in Keys
        PROVE  x \in Passed(f, l) \cup {SiteOf(p)}
    <3>1. PICK q \in g.agg : q.csid = IdOf(x)
      BY KeyAggregate
    <3>2. PICK i \in 1 .. Len(L) : L[i] = q
      BY ListedKnown
    <3>3. CASE i <= l.i
      BY <1>1, <1>7, <3>1, <3>2, <3>3
    <3>4. CASE ~(i <= l.i)
      <4>1. i = l.i + 1
        BY <1>1, <1>9, <3>4
      <4>2. QED
        BY <1>6, <3>1, <3>2, <4>1
    <3>5. QED
      BY <3>3, <3>4
  <2>8. Passed(f, m) = Passed(f, l) \cup {SiteOf(p)}
    <3>1. Passed(f, l) \subseteq Keys
      BY <1>7
    <3>2. QED
      BY <1>3, <2>6, <2>7, <3>1
  <2>9. QED
    BY <1>2, <2>3, <2>5, <2>8
<1>10. QED
  BY <1>8, <1>9

(* What an operation of a verbose section does to the place of the         *)
(* collector and to the callsites shown.                                   *)
LEMMA AfterKnown ==
    ASSUME Whole(g), ctl.pc # "run", setup.collective, setup.depth > 0, Style = "verbose",
           NEW l, l = loc[Collector], l = [at |-> l.at, n |-> l.n, i |-> l.i, ac |-> l.ac],
           l.at \in {"gate", "malloc", "count"} \cup InRounds, RoundsKnown(l),
           NEW f, f = Order[l.n], NEW m, m = After(Collector, f)
    PROVE  /\ RoundsKnown(m) /\ (m.n = l.n \/ (m.n = l.n + 1 /\ m.at \notin InRounds))
           /\ f # "rma" /\ l.at = "rows" =>
                 RowsFor(Passed(f, m), f) = RowsFor(Passed(f, l), f) \cup Compared(RoundRows(f), f)
           /\ f # "rma" /\ l.at # "rows" /\ setup.room =>
                 RowsFor(Passed(f, m), f) = RowsFor(Passed(f, l), f)
<1>1. l.n \in 1 .. 4 /\ f \in Fields /\ Len(Listed(f)) \in Nat
  BY OrderOnce, ListedKnown DEF RoundsKnown, InRounds
<1>1a. f = "time" <=> l.n = 1
  BY <1>1, OrderOnce
<1>1b. ASSUME NEW o
       PROVE  /\ o.n = l.n + 1 => Passed(f, o) = Keys
              /\ o.n = l.n /\ o.at \notin InRounds => Passed(f, o) = {}
              /\ o.n = l.n /\ o.at \in InRounds => Passed(f, o) = FirstOf(f, o.i)
  BY <1>1, PassedHere
<1>2. l.n + 1 \in 2 .. 5
  BY <1>1
<1>3. /\ Leave(l).n = l.n + 1 /\ Leave(l).i = 0
      /\ Leave(l).at = IF l.n + 1 = 5 THEN "end" ELSE "gate"
  <2>1. Leave(l) = Enter("verbose", l.n + 1)
    BY DEF Leave
  <2>2. QED
    BY <1>2, <2>1, EnterVerbose
<1>4. RoundsKnown(Leave(l)) /\ Leave(l).at \notin InRounds
  BY <1>2, <1>3 DEF RoundsKnown, InRounds
<1> DEFINE p == Current
<1>5. p = Listed(f)[l.i + 1]
  BY DEF Field, Current
<1> HIDE DEF p
<1>6. ASSUME l.at \in InRounds, m = NextRound(l, f)
      PROVE  /\ p \in g.agg /\ RoundsKnown(m)
             /\ m.n = l.n \/ (m.n = l.n + 1 /\ m.at \notin InRounds)
             /\ RowsFor(Passed(f, m), f) = RowsFor(Passed(f, l), f) \cup Compared(KeyRows(SiteOf(p), f), f)
  <2>1. /\ p \in g.agg /\ RoundsKnown(m)
        /\ m.n = l.n \/ (m.n = l.n + 1 /\ m.at \notin InRounds)
        /\ Passed(f, m) = Passed(f, l) \cup {SiteOf(p)}
    BY <1>5, <1>6, NextRoundKnown
  <2>2. QED
    BY <2>1, RowsForMore
<1>7. CASE l.at = "gate"
  <2>1. CASE Gate(f) > 0
    <3>1. m = [l EXCEPT !.at = "malloc"]
      BY <1>7, <2>1 DEF After
    <3>2. m.at = "malloc" /\ m.n = l.n /\ m.i = l.i
      BY <3>1
    <3>3. RoundsKnown(m)
      BY <1>7, <3>2 DEF RoundsKnown, InRounds
    <3>4. Passed(f, m) = Passed(f, l)
      BY <1>1, <1>7, <3>2, <1>1b DEF InRounds
    <3>5. QED
      BY <1>7, <3>2, <3>3, <3>4
  <2>2. CASE ~(Gate(f) > 0)
    <3>1. m = Leave(l)
      BY <1>7, <2>2 DEF After
    <3>2. f # "time"
      BY <1>1a, <1>7 DEF RoundsKnown
    <3>3. \A X : RowsFor(X, f) = {}
      BY <1>1, <2>2, <3>2, GateKnown
    <3>4. RowsFor(Passed(f, m), f) = RowsFor(Passed(f, l), f)
      BY <3>3
    <3>5. QED
      BY <1>3, <1>4, <1>7, <3>1, <3>4
  <2>3. QED
    BY <2>1, <2>2
<1>8. CASE l.at = "malloc"
  <2>1. CASE setup.room
    <3>1. m = [l EXCEPT !.at = "count"]
      BY <1>8, <2>1 DEF After
    <3>2. m.at = "count" /\ m.n = l.n /\ m.i = l.i
      BY <3>1
    <3>3. RoundsKnown(m)
      BY <1>8, <2>1, <3>2 DEF RoundsKnown, InRounds
    <3>4. Passed(f, m) = Passed(f, l)
      BY <1>1, <1>8, <3>2, <1>1b DEF InRounds
    <3>5. QED
      BY <1>8, <3>2, <3>3, <3>4
  <2>2. CASE ~setup.room
    <3>1. m = Leave(l)
      BY <1>8, <2>2 DEF After
    <3>2. QED
      BY <1>3, <1>4, <1>8, <2>2, <3>1
  <2>3. QED
    BY <2>1, <2>2
<1>9. CASE l.at = "count"
  <2> DEFINE o == [l EXCEPT !.ac = Len(Listed(f))]
  <2>1. m = Round(o, f)
    BY <1>9 DEF After, Rounds
  <2>2. o = [at |-> "count", n |-> l.n, i |-> 0, ac |-> Len(Listed(f))]
    BY <1>9 DEF RoundsKnown
  <2> HIDE DEF o
  <2>3. setup.room
    BY <1>9 DEF RoundsKnown
  <2>4. Passed(f, l) = {}
    BY <1>1, <1>9, <1>1b DEF InRounds
  <2>5. CASE 0 < Len(Listed(f))
    <3>1. m = [o EXCEPT !.at = RoundBegin(f)]
      BY <2>1, <2>2, <2>5 DEF Round
    <3>2. RoundBegin(f) \in {"total", "record"} /\ (RoundBegin(f) = "total" => f # "time")
      BY DEF RoundBegin
    <3>3. m.at = RoundBegin(f) /\ m.n = l.n /\ m.i = 0 /\ m.ac = Len(Listed(f))
      BY <2>2, <3>1
    <3>4. m.at \in InRounds /\ m.at \notin {"end", "gate", "malloc", "count"}
      BY <3>2, <3>3 DEF InRounds
    <3>5. RoundsKnown(m)
      <4>1. m.n \in 1 .. 5 /\ m.n # 5 /\ (m.at = "total" => m.n # 1)
        BY <1>1, <1>1a, <3>2, <3>3
      <4>2. m.i \in Nat /\ m.i < m.ac /\ m.ac = Len(Listed(Order[m.n]))
        BY <2>5, <3>3
      <4>3. QED
        BY <2>3, <3>4, <4>1, <4>2 DEF RoundsKnown
    <3>6. Passed(f, m) = FirstOf(f, m.i)
      BY <1>1, <3>3, <3>4, <1>1b
    <3>7. Passed(f, m) = Passed(f, l)
      <4>1. ~ \E i \in 1 .. m.i : TRUE
        BY <3>3
      <4>2. QED
        BY <2>4, <3>6, <4>1 DEF FirstOf
    <3>8. QED
      BY <1>9, <3>3, <3>5, <3>7
  <2>6. CASE ~(0 < Len(Listed(f)))
    <3>1. m = Leave(o)
      BY <2>1, <2>2, <2>6 DEF Round
    <3>2. Leave(o) = Leave(l)
      BY <2>2 DEF Leave
    <3>3. g.agg = {}
      <4>1. \A q \in g.agg : \E i \in 1 .. Len(Listed(f)) : Listed(f)[i] = q
        BY ListedKnown
      <4>2. QED
        BY <1>1, <2>6, <4>1
    <3>4. Keys = {}
      BY <3>3, KeyAggregate
    <3>5. Passed(f, m) = Keys
      BY <1>1, <1>3, <3>1, <3>2, <1>1b
    <3>6. Passed(f, m) = Passed(f, l)
      BY <2>4, <3>4, <3>5
    <3>7. QED
      BY <1>3, <1>4, <1>9, <3>1, <3>2, <3>6
  <2>7. QED
    BY <2>5, <2>6
<1>10. ASSUME l.at \in InRounds, NEW at \in InRounds, at # "total", m = [l EXCEPT !.at = at]
       PROVE  RoundsKnown(m) /\ m.n = l.n /\ Passed(f, m) = Passed(f, l)
  <2>1. m.at = at /\ m.n = l.n /\ m.i = l.i /\ m.ac = l.ac
    BY <1>10
  <2>2. RoundsKnown(m)
    BY <1>1, <1>10, <2>1 DEF RoundsKnown, InRounds
  <2>3. Passed(f, m) = Passed(f, l)
    BY <1>1, <1>10, <2>1, <1>1b
  <2>4. QED
    BY <2>1, <2>2, <2>3
<1>11. CASE l.at = "total"
  <2>0. l.at \in InRounds /\ "record" \in InRounds
    BY <1>11 DEF InRounds
  <2>1. CASE p.sum[f] > 0
    <3>1. m = [l EXCEPT !.at = "record"]
      BY <1>11, <2>1 DEF After, p
    <3>2. RoundsKnown(m) /\ m.n = l.n /\ Passed(f, m) = Passed(f, l)
      BY <1>10, <2>0, <3>1
    <3>3. QED
      BY <1>11, <3>2
  <2>2. CASE ~(p.sum[f] > 0)
    <3>1. m = NextRound(l, f)
      BY <1>11, <2>2 DEF After, p
    <3>2. f # "time"
      BY <1>1a, <1>11 DEF RoundsKnown
    <3>3. p \in g.agg
      BY <1>6, <2>0, <3>1
    <3>4. KeyRows(SiteOf(p), f) = {}
      BY <1>1, <2>2, <3>2, <3>3, SkippedKnown DEF p
    <3>5. Compared(KeyRows(SiteOf(p), f), f) = {}
      BY <3>4 DEF Compared
    <3>6. QED
      BY <1>6, <1>11, <2>0, <3>1, <3>5
  <2>3. QED
    BY <2>1, <2>2
<1>12. CASE l.at = "record"
  <2>1. l.at \in InRounds /\ "rows" \in InRounds
    BY <1>12 DEF InRounds
  <2>2. m = [l EXCEPT !.at = "rows"]
    BY <1>12 DEF After
  <2>3. RoundsKnown(m) /\ m.n = l.n /\ Passed(f, m) = Passed(f, l)
    BY <1>10, <2>1, <2>2
  <2>4. QED
    BY <1>12, <2>3
<1>13. CASE l.at = "rows"
  <2>1. l.at \in InRounds
    BY <1>13 DEF InRounds
  <2>2. m = NextRound(l, f)
    BY <1>13 DEF After
  <2>3. p \in g.agg
    BY <1>6, <2>1, <2>2
  <2>4. f # "rma" => Compared(RoundRows(f), f) = Compared(KeyRows(SiteOf(p), f), f)
    BY <1>1, <2>3, RoundKnown DEF p
  <2>5. QED
    BY <1>6, <1>13, <2>1, <2>2, <2>4
<1>14. QED
  BY <1>7, <1>8, <1>9, <1>11, <1>12, <1>13 DEF InRounds

-----------------------------------------------------------------------------
(***************************************************************************)
(* The rows that a verbose report has printed.                             *)
(***************************************************************************)
(* The callsites that the verbose report has shown, of the present section *)
(* those of the rounds before.                                             *)
Covered(f) == IF ctl.pc = "collective" THEN Passed(f, loc[Collector]) ELSE Keys

VerboseRows ==
    /\ Fields \subseteq DOMAIN printed["verbose"]
    /\ \A f \in Fields :
          Reliable(f) => Compared(printed["verbose"][f], f) =
                            IF Printable THEN RowsFor(Covered(f), f) ELSE {}

RowsPrinted ==
    /\ ctl.pc \in {"print", "collective"} =>
          ctl.styles = <<"concise", "verbose">> \/ ctl.styles = <<Style>>
    /\ ctl.pc = "print" => "verbose" \notin DOMAIN printed
    /\ ctl.pc = "collective" =>
          /\ setup.detail /\ setup.collective
          /\ Style = "verbose" <=> "verbose" \in DOMAIN printed
          /\ Style = "verbose" /\ setup.depth > 0 => RoundsKnown(loc[Collector])
    /\ "verbose" \in DOMAIN printed => VerboseRows

LEMMA RoundsSame ==
    ASSUME UNCHANGED <<setup, calls, named, g, ctl>>
    PROVE  /\ \A l : RoundsKnown(l)' <=> RoundsKnown(l)
           /\ \A f, l : Passed(f, l)' = Passed(f, l)
<1>1. Keys' = Keys
  BY RowsSame
<1>2. \A f : Listed(f)' = Listed(f)
  BY DEF Listed, Style
<1>3. \A x : IdOf(x)' = IdOf(x)
  <2>1. \A s : Key(s)' = Key(s)
    BY DEF Key
  <2>2. QED
    BY <2>1 DEF IdOf
<1>4. \A l : RoundsKnown(l)' <=> RoundsKnown(l)
  BY <1>2 DEF RoundsKnown
<1>5. \A f, l : Passed(f, l)' = Passed(f, l)
  BY <1>1, <1>2, <1>3 DEF Passed
<1>6. QED
  BY <1>4, <1>5

LEMMA ComparedSame ==
    ASSUME UNCHANGED setup
    PROVE  \A S, f : Compared(S, f)' = Compared(S, f)
<1>1. \A row, f : Comparable(row, f)' = Comparable(row, f)
  BY DEF Comparable
<1>2. QED
  BY <1>1 DEF Compared

LEMMA ComparedUnion ==
    ASSUME NEW S, NEW T, NEW f
    PROVE  Compared(S \cup T, f) = Compared(S, f) \cup Compared(T, f)
  BY DEF Compared

(* When the collector prints, its tables have all the calls. *)
LEMMA WholeNow ==
    ASSUME ReportInv, CallsMerged, ctl.pc \in {"print", "collective"},
           NEW h, h.agg = g.agg, h.stats = g.stats, h.task = g.task, h.total = g.total,
           h.sentCount = g.sentCount
    PROVE  Whole(h) /\ h.stats \subseteq RecordsOf(Ranks)
<1>1. ctl.pending = {} /\ ctl.pc # "run"
  BY DEF ReportInv, ReportKnown
<1>2. Taken = Counted
  BY <1>1 DEF Taken
<1>3. HasTotals(g) /\ HasCalls(g, named, Counted, calls)
  BY <1>1, <1>2 DEF CallsMerged
<1>4. HasTotals(h) /\ HasCalls(h, named, Counted, calls)
  BY <1>3 DEF HasTotals, HasCalls
<1>5. AllNamed
  BY <1>1 DEF ReportInv, ReportKnown, AllNamed
<1>6. QED
  BY <1>4, <1>5 DEF Whole, HasTotals, ReportInv, MergedKnown

LEMMA MeetRows ==
    ASSUME ReportInv, CallsMerged, RowsPrinted, Meet
    PROVE  RowsPrinted'
<1>0. /\ UNCHANGED <<setup, calls, named, g, ctl>>
      /\ ctl.pc = "collective" /\ loc[Collector].at # "end" /\ Collector \in Ranks
  BY ReportAssumption DEF Meet, bounds, caches, Collector
<1>1. PICK l : loc = [r \in Ranks |-> l] /\ Standing(l)
  BY <1>0 DEF ReportInv, PlacesKnown, Standing
<1>2. l = loc[Collector] /\ l.n \in 1 .. 4 /\ l = [at |-> l.at, n |-> l.n, i |-> l.i, ac |-> l.ac]
         /\ l.at \in {"gate", "malloc", "count"} \cup InRounds
  BY <1>0, <1>1 DEF Standing, InRounds
<1> DEFINE f == Order[l.n]
           m == After(Collector, f)
<1>3. f \in Fields /\ f = Field(Collector)
  BY <1>2, OrderFacts DEF Field
<1>4. loc'[Collector] = m
  BY <1>0, <1>2, <1>3 DEF Meet
<1>5. /\ setup.detail /\ setup.collective
      /\ Style = "verbose" <=> "verbose" \in DOMAIN printed
      /\ ctl.styles = <<"concise", "verbose">> \/ ctl.styles = <<Style>>
      /\ "verbose" \in DOMAIN printed => VerboseRows
      /\ Style = "verbose" /\ setup.depth > 0 => RoundsKnown(l)
  BY <1>0, <1>2 DEF RowsPrinted
<1>6. Whole(g)
  BY <1>0, WholeNow
<1>7. Style' = Style /\ (Printable' <=> Printable) /\ \A e : Reliable(e)' <=> Reliable(e)
  BY <1>0 DEF Style, Printable, Reliable
<1>8. /\ \A X, e : RowsFor(X, e)' = RowsFor(X, e)
      /\ \A k : RoundsKnown(k)' <=> RoundsKnown(k)
      /\ \A e, k : Passed(e, k)' = Passed(e, k)
      /\ \A S, e : Compared(S, e)' = Compared(S, e)
  BY <1>0, RowsSame, RoundsSame, ComparedSame
<1>9. /\ l.at = "rows" =>
            printed' = [printed EXCEPT ![Style] =
                           [printed[Style] EXCEPT ![f] = printed[Style][f] \cup RoundRows(f)]]
      /\ l.at # "rows" => printed' = printed
  <2>1. \A e : e = Field(Collector) =>
           printed' = IF loc[Collector].at = "rows"
                      THEN [printed EXCEPT ![Style] =
                              [printed[Style] EXCEPT ![e] = printed[Style][e] \cup RoundRows(e)]]
                      ELSE printed
    BY DEF Meet
  <2>2. printed' = IF l.at = "rows"
                   THEN [printed EXCEPT ![Style] =
                           [printed[Style] EXCEPT ![f] = printed[Style][f] \cup RoundRows(f)]]
                   ELSE printed
    BY <1>2, <1>3, <2>1
  <2>3. QED
    BY <2>2
<1>10. DOMAIN printed' = DOMAIN printed
  BY <1>9
<1>11. ASSUME Style = "verbose", setup.depth > 0
       PROVE  /\ RoundsKnown(m) /\ (m.n = l.n \/ (m.n = l.n + 1 /\ m.at \notin InRounds))
              /\ f # "rma" /\ l.at = "rows" =>
                    RowsFor(Passed(f, m), f) = RowsFor(Passed(f, l), f) \cup Compared(RoundRows(f), f)
              /\ f # "rma" /\ l.at # "rows" /\ setup.room =>
                    RowsFor(Passed(f, m), f) = RowsFor(Passed(f, l), f)
  <2>1. RoundsKnown(l) /\ ctl.pc # "run"
    BY <1>0, <1>5, <1>11
  <2>2. QED
    BY <1>2, <1>5, <1>6, <1>11, <2>1, AfterKnown
<1> HIDE DEF f, m
<1>12. ASSUME "verbose" \in DOMAIN printed
       PROVE  VerboseRows'
  <2>1. Style = "verbose" /\ VerboseRows
    BY <1>5, <1>12
  <2> DEFINE old == printed["verbose"]
             new == printed'["verbose"]
  <2>2. /\ l.at = "rows" => new = [old EXCEPT ![f] = old[f] \cup RoundRows(f)]
        /\ l.at # "rows" => new = old
    <3>1. ASSUME NEW v, printed' = [printed EXCEPT !["verbose"] = v]
          PROVE  printed'["verbose"] = v
      BY <1>12, <3>1
    <3>2. QED
      BY <1>9, <2>1, <3>1
  <2>3. /\ Fields \subseteq DOMAIN old
        /\ \A e \in Fields : Reliable(e) =>
              Compared(old[e], e) = IF Printable THEN RowsFor(Passed(e, l), e) ELSE {}
    BY <1>0, <1>2, <2>1 DEF VerboseRows, Covered
  <2> HIDE DEF old, new
  <2>4. Fields \subseteq DOMAIN new
    BY <2>2, <2>3
  <2>5. ASSUME NEW e \in Fields, Reliable(e)
        PROVE  Compared(new[e], e) = IF Printable THEN RowsFor(Passed(e, m), e) ELSE {}
    <3>1. e # "rma" /\ setup.depth > 0
      BY <1>5, <2>5 DEF Reliable
    <3>2. Compared(old[e], e) = IF Printable THEN RowsFor(Passed(e, l), e) ELSE {}
      BY <2>3, <2>5
    <3>3. CASE e # f
      <4>1. new[e] = old[e]
        BY <2>2, <2>3, <3>3
      <4>2. Passed(e, m) = Passed(e, l)
        BY <1>2, <1>11, <2>1, <3>1, <3>3, PassedElsewhere DEF f
      <4>3. QED
        BY <3>2, <4>1, <4>2
    <3>4. CASE e = f /\ l.at = "rows"
      <4>1. new[e] = old[e] \cup RoundRows(f)
        BY <2>2, <2>3, <3>4
      <4>2. Printable
        <5>1. setup.room
          BY <1>5, <2>1, <3>1, <3>4 DEF RoundsKnown, InRounds
        <5>2. QED
          BY <1>5, <5>1 DEF Printable
      <4>3. Compared(new[e], e) = Compared(old[e], e) \cup Compared(RoundRows(f), e)
        BY <4>1, ComparedUnion
      <4>4. RowsFor(Passed(e, m), e) = RowsFor(Passed(e, l), e) \cup Compared(RoundRows(f), e)
        BY <1>11, <2>1, <3>1, <3>4
      <4>5. QED
        BY <3>2, <4>2, <4>3, <4>4
    <3>5. CASE e = f /\ l.at # "rows"
      <4>1. new[e] = old[e]
        BY <2>2, <3>5
      <4>2. Printable => RowsFor(Passed(e, m), e) = RowsFor(Passed(e, l), e)
        BY <1>5, <1>11, <2>1, <3>1, <3>5 DEF Printable
      <4>3. QED
        BY <3>2, <4>1, <4>2
    <3>6. QED
      BY <3>3, <3>4, <3>5
  <2>7. \A e : Covered(e)' = Passed(e, m)
    BY <1>0, <1>4, <1>8 DEF Covered
  <2>8. \A e \in Fields : Reliable(e) =>
           Compared(new[e], e) = IF Printable THEN RowsFor(Passed(e, m), e) ELSE {}
    BY <2>5
  <2>9. \A e \in Fields : Reliable(e)' =>
           Compared(printed["verbose"][e], e)' = IF Printable' THEN RowsFor(Covered(e), e)' ELSE {}
    <3>1. ASSUME NEW e \in Fields, Reliable(e)'
          PROVE  Compared(printed["verbose"][e], e)' = IF Printable' THEN RowsFor(Covered(e), e)' ELSE {}
      <4>1. Compared(printed["verbose"][e], e)' = Compared(new[e], e)
        BY <1>8 DEF new
      <4>2. RowsFor(Covered(e), e)' = RowsFor(Passed(e, m), e)
        BY <1>8, <2>7
      <4>3. QED
        BY <1>7, <2>8, <3>1, <4>1, <4>2
    <3>2. QED
      BY <3>1
  <2>10. QED
    BY <2>4, <2>9 DEF VerboseRows, new
<1>13. Style' = "verbose" /\ setup'.depth > 0 => RoundsKnown(loc[Collector])'
  <2>1. Style = "verbose" /\ setup.depth > 0 => RoundsKnown(m)
    BY <1>11
  <2>2. RoundsKnown(loc[Collector])' <=> RoundsKnown(m)
    BY <1>4, <1>8
  <2>3. QED
    BY <1>0, <1>7, <2>1, <2>2
<1>14. QED
  BY <1>0, <1>5, <1>7, <1>10, <1>12, <1>13 DEF RowsPrinted

(* What a verbose report prints of the tables h without the ranks. *)
LEMMA PageRows ==
    \A h : /\ Fields \subseteq DOMAIN Verbose(h)
           /\ \A f \in Fields : Verbose(h)[f] = IF Detailed THEN SectionOf(h, f) ELSE Absent
<1>1. \A h, tasks, rows :
        /\ Fields \subseteq DOMAIN Page(h, tasks, rows)
        /\ \A f \in Fields : Page(h, tasks, rows)[f] = IF Detailed THEN rows[f] ELSE Absent
  BY DEF Page, Fields
<1>2. SUFFICES ASSUME NEW h
               PROVE  /\ Fields \subseteq DOMAIN Verbose(h)
                      /\ \A f \in Fields : Verbose(h)[f] = IF Detailed THEN SectionOf(h, f) ELSE Absent
  OBVIOUS
<1> DEFINE rows == [time |-> AllTime(h, setup), sent |-> AllSent(h),
                    io |-> AllIO(h), rma |-> AllRMA(h)]
<1>3. Verbose(h) = Page(h, VerboseTasks(h, AppTime), rows)
  BY DEF Verbose
<1>4. \A f \in Fields : rows[f] = SectionOf(h, f)
  BY DEF SectionOf, Fields
<1> HIDE DEF rows
<1>5. QED
  BY <1>1, <1>3, <1>4

LEMMA StylesLeft ==
    ASSUME NEW c, c.styles = <<"concise", "verbose">> \/ (\E s : c.styles = <<s>>),
           c = [pc |-> c.pc, pending |-> c.pending, from |-> c.from,
                style |-> c.style, styles |-> c.styles]
    PROVE  /\ NextStyle(c).pc \in {"run", "print"}
           /\ NextStyle(c).pc = "print" =>
                 Head(c.styles) = "concise" /\ NextStyle(c).styles = <<"verbose">>
<1>1. CASE \E s : c.styles = <<s>>
  <2>1. Len(c.styles) = 1
    BY <1>1
  <2>2. QED
    BY <2>1 DEF NextStyle, Running
<1>2. CASE c.styles = <<"concise", "verbose">>
  <2>1. Len(c.styles) = 2 /\ Head(c.styles) = "concise" /\ Tail(c.styles) = <<"verbose">>
    BY <1>2
  <2>2. NextStyle(c) = [c EXCEPT !.styles = Tail(@), !.pc = "print"]
    BY <2>1 DEF NextStyle
  <2>3. NextStyle(c).styles = Tail(c.styles)
    BY <2>2
  <2>4. QED
    BY <2>1, <2>3, NextStyleShape
<1>3. QED
  BY <1>1, <1>2

LEMMA PrintRows ==
    ASSUME ReportInv, CallsMerged, RowsPrinted, ProfilePrint
    PROVE  RowsPrinted'
<1> DEFINE style == Head(ctl.styles)
           h == IF style = "verbose" THEN VerboseApp(g, AppTime) ELSE ConciseApp(g, AppTime)
           new == IF style = "verbose" THEN Verbose(h) ELSE Concise(h)
<1>0. /\ UNCHANGED <<setup, calls, named>> /\ ctl.pc = "print" /\ g' = h /\ Collector \in Ranks
      /\ "verbose" \notin DOMAIN printed
      /\ ctl.styles = <<"concise", "verbose">> \/ ctl.styles = <<style>>
      /\ ctl = [pc |-> ctl.pc, pending |-> ctl.pending, from |-> ctl.from,
                style |-> ctl.style, styles |-> ctl.styles]
  BY ReportAssumption DEF ReportInv, ReportKnown, RowsPrinted, ProfilePrint, bounds, caches, Style, Collector
<1>1. printed' = [p \in DOMAIN printed \cup {style} |->
                     IF p \in DOMAIN printed THEN printed[p] ELSE new]
  BY DEF ProfilePrint
<1>2. "verbose" \in DOMAIN printed' <=> style = "verbose"
  <2> HIDE DEF style, new
  <2>1. QED
    BY <1>0, <1>1
<1>3. IF setup.detail /\ setup.collective
      THEN ctl' = [ctl EXCEPT !.pc = "collective"] /\ loc' = [r \in Ranks |-> Enter(style, 1)]
      ELSE ctl' = NextStyle(ctl)
  BY DEF ProfilePrint
<1>4. /\ NextStyle(ctl).pc \in {"run", "print"}
      /\ NextStyle(ctl).pc = "print" => style = "concise" /\ NextStyle(ctl).styles = <<"verbose">>
  <2>1. ctl.styles = <<"concise", "verbose">> \/ (\E s : ctl.styles = <<s>>)
    BY <1>0
  <2>2. QED
    BY <1>0, <2>1, StylesLeft
<1>5. (Printable' <=> Printable) /\ \A e : Reliable(e)' <=> Reliable(e)
  BY <1>0 DEF Printable, Reliable
<1>6. /\ Keys' = Keys /\ \A X, e : RowsFor(X, e)' = RowsFor(X, e)
      /\ \A S, e : Compared(S, e)' = Compared(S, e)
  BY <1>0, RowsSame, ComparedSame
<1>7. Enter("verbose", 1).n = 1 /\ Enter("verbose", 1).i = 0 /\ Enter("verbose", 1).at = "malloc"
  BY EnterVerbose
<1>8. ASSUME style = "verbose"
      PROVE  VerboseRows'
  <2>1. printed'["verbose"] = Verbose(h)
    BY <1>0, <1>1, <1>8
  <2>2. PICK app : h = [g EXCEPT !.app = app]
    BY DEF VerboseApp, ConciseApp
  <2>3. /\ h.agg = g.agg /\ h.stats = g.stats /\ h.task = g.task /\ h.total = g.total
        /\ h.sentCount = g.sentCount
    <3>1. IsGlobal(g)
      BY DEF ReportInv, MergedKnown
    <3> HIDE DEF h
    <3>2. QED
      BY <2>2, <3>1 DEF IsGlobal
  <2> HIDE DEF h
  <2>4. Whole(h) /\ h.stats \subseteq RecordsOf(Ranks)
    BY <1>0, <2>3, WholeNow
  <2>5. /\ Fields \subseteq DOMAIN printed'["verbose"]
        /\ \A f \in Fields :
              printed'["verbose"][f] = IF Detailed THEN SectionOf(h, f) ELSE Absent
    BY <2>1, PageRows
  <2>6. \A e : Compared(Absent, e) = {} /\ RowsFor({}, e) = {}
    BY DEF Compared, Absent, RowsFor
  <2>7. CASE Detailed
    <3>1. \A f : Covered(f)' = Keys
      BY <1>3, <1>4, <1>6, <2>7 DEF Detailed, Covered
    <3>2. \A f \in Fields : Compared(SectionOf(h, f), f) = RowsFor(Keys, f)
      BY <2>4, <2>7, SectionKnown DEF Detailed
    <3>3. \A f \in Fields : Compared(printed'["verbose"][f], f) = RowsFor(Keys, f)
      BY <2>5, <2>7, <3>2
    <3>4. Printable'
      BY <1>5, <2>7 DEF Detailed, Printable
    <3>5. \A f \in Fields : Compared(printed["verbose"][f], f)' = RowsFor(Covered(f), f)'
      BY <1>6, <3>1, <3>3
    <3>6. QED
      BY <2>5, <3>4, <3>5 DEF VerboseRows
  <2>8. CASE ~Detailed
    <3>1. \A f \in Fields : Compared(printed["verbose"][f], f)' = {}
      BY <1>6, <2>5, <2>6, <2>8
    <3>2. Printable' => \A f : RowsFor(Covered(f), f)' = {}
      <4>1. SUFFICES ASSUME Printable', NEW f
                     PROVE  RowsFor(Covered(f), f)' = {}
        OBVIOUS
      <4>2. setup.detail /\ setup.collective
        BY <1>5, <2>8, <4>1 DEF Printable, Detailed
      <4>3. loc'[Collector] = Enter("verbose", 1) /\ ctl'.pc = "collective"
        BY <1>0, <1>3, <1>8, <4>2
      <4>4. Covered(f)' = {}
        BY <1>7, <4>3 DEF Covered, Passed, InRounds
      <4>5. QED
        BY <1>6, <2>6, <4>4
    <3>3. QED
      BY <2>5, <3>1, <3>2 DEF VerboseRows
  <2>9. QED
    BY <2>7, <2>8
<1> HIDE DEF new, h
<1>9. CASE setup.detail /\ setup.collective
  <2>1. ctl'.pc = "collective" /\ ctl'.styles = ctl.styles
    BY <1>0, <1>3, <1>9
  <2>2. Style' = style
    BY <2>1 DEF Style
  <2>3. style = "verbose" => loc'[Collector] = Enter("verbose", 1)
    BY <1>0, <1>3, <1>9
  <2>4. RoundsKnown(Enter("verbose", 1))'
    BY <1>7 DEF RoundsKnown, InRounds
  <2> HIDE DEF style
  <2>5. style = "verbose" => RoundsKnown(loc[Collector])'
    BY <2>3, <2>4
  <2>6. QED
    BY <1>0, <1>2, <1>8, <1>9, <2>1, <2>2, <2>5 DEF RowsPrinted
<1>10. CASE ~(setup.detail /\ setup.collective)
  <2>1. ctl'.pc \in {"run", "print"}
    BY <1>3, <1>4, <1>10
  <2>2. ctl'.pc = "print" => style = "concise" /\ ctl'.styles = <<Style>>'
    BY <1>3, <1>4, <1>10 DEF Style
  <2> HIDE DEF style
  <2>3. QED
    BY <1>2, <1>8, <2>1, <2>2 DEF RowsPrinted
<1>11. QED
  BY <1>9, <1>10

LEMMA BarrierRows ==
    ASSUME ReportInv, RowsPrinted, Barrier
    PROVE  RowsPrinted'
<1> DEFINE style == Head(ctl.styles)
           l == loc[Collector]
<1>0. /\ UNCHANGED <<setup, calls, named, printed>>
      /\ ctl.pc = "collective" /\ l.at = "end" /\ ctl' = NextStyle(ctl)
      /\ ctl.styles = <<"concise", "verbose">> \/ ctl.styles = <<style>>
      /\ style = "verbose" <=> "verbose" \in DOMAIN printed
      /\ style = "verbose" /\ setup.depth > 0 => RoundsKnown(l)
      /\ "verbose" \in DOMAIN printed => VerboseRows
      /\ setup.collective
      /\ ctl = [pc |-> ctl.pc, pending |-> ctl.pending, from |-> ctl.from,
                style |-> ctl.style, styles |-> ctl.styles]
  BY DEF ReportInv, ReportKnown, RowsPrinted, Barrier, bounds, caches, Style
<1>1. /\ ctl'.pc \in {"run", "print"}
      /\ ctl'.pc = "print" => style = "concise" /\ ctl'.styles = <<"verbose">>
  <2>1. ctl.styles = <<"concise", "verbose">> \/ (\E s : ctl.styles = <<s>>)
    BY <1>0
  <2>2. QED
    BY <1>0, <2>1, StylesLeft
<1>2. (Printable' <=> Printable) /\ \A e : Reliable(e)' <=> Reliable(e)
  BY <1>0 DEF Printable, Reliable
<1>3. /\ Keys' = Keys /\ \A X, e : RowsFor(X, e)' = RowsFor(X, e)
      /\ \A S, e : Compared(S, e)' = Compared(S, e)
  BY <1>0, RowsSame, ComparedSame
<1> HIDE DEF style, l
<1>4. ASSUME "verbose" \in DOMAIN printed
      PROVE  VerboseRows'
  <2>1. ASSUME NEW f \in Fields, Reliable(f)
        PROVE  Covered(f) = Keys
    <3>1. RoundsKnown(l)
      BY <1>0, <1>4, <2>1 DEF Reliable
    <3>2. l.n = 5
      BY <1>0, <3>1 DEF RoundsKnown
    <3>3. PICK i \in 1 .. 4 : Order[i] = f
      BY OrderOnce
    <3>4. i < l.n
      BY <3>2
    <3>5. Passed(f, l) = Keys
      BY <3>3, <3>4 DEF Passed
    <3>6. QED
      BY <1>0, <3>5 DEF Covered, l
  <2>2. \A f \in Fields : Covered(f)' = Keys
    BY <1>1, <1>3 DEF Covered
  <2>3. VerboseRows
    BY <1>0, <1>4
  <2>4. \A f \in Fields : Reliable(f) =>
           Compared(printed["verbose"][f], f) = IF Printable THEN RowsFor(Keys, f) ELSE {}
    BY <2>1, <2>3 DEF VerboseRows
  <2>5. \A f \in Fields : Reliable(f)' =>
           Compared(printed["verbose"][f], f)' = IF Printable' THEN RowsFor(Covered(f), f)' ELSE {}
    BY <1>0, <1>2, <1>3, <2>2, <2>4
  <2>6. QED
    BY <1>0, <2>3, <2>5 DEF VerboseRows
<1>5. ctl'.pc = "print" => ctl'.styles = <<Style>>'
  BY <1>1 DEF Style
<1>6. QED
  BY <1>0, <1>1, <1>4, <1>5 DEF RowsPrinted

LEMMA InitRows == Init => RowsPrinted
<1>1. SUFFICES ASSUME Init
               PROVE  RowsPrinted
  OBVIOUS
<1>2. DOMAIN printed = {} /\ ctl.pc = "run"
  BY <1>1 DEF Init, Running
<1>3. QED
  BY <1>2 DEF RowsPrinted

LEMMA NextRows == ReportInv /\ CallsMerged /\ RowsPrinted /\ [Next]_vars => RowsPrinted'
<1>1. SUFFICES ASSUME ReportInv, CallsMerged, RowsPrinted, [Next]_vars
               PROVE  RowsPrinted'
  OBVIOUS
<1>2. /\ ctl = [pc |-> ctl.pc, pending |-> ctl.pending, from |-> ctl.from,
                style |-> ctl.style, styles |-> ctl.styles]
      /\ ctl.pc \in {"merge", "publish"} => DOMAIN printed = {}
  BY <1>1 DEF ReportInv, ReportKnown
<1>3. ASSUME DOMAIN printed' = {}, ctl'.pc \notin {"print", "collective"}
      PROVE  RowsPrinted'
  BY <1>3 DEF RowsPrinted
<1>4. CASE UNCHANGED vars
  <2>1. UNCHANGED <<setup, calls, named, g, ctl, loc, printed>>
    BY <1>4 DEF vars, bounds, caches
  <2>2. Style' = Style /\ (Printable' <=> Printable) /\ \A e : Reliable(e)' <=> Reliable(e)
    BY <2>1 DEF Style, Printable, Reliable
  <2>3. /\ Keys' = Keys /\ \A X, e : RowsFor(X, e)' = RowsFor(X, e)
        /\ \A S, e : Compared(S, e)' = Compared(S, e)
        /\ \A k : RoundsKnown(k)' <=> RoundsKnown(k)
        /\ \A e, k : Passed(e, k)' = Passed(e, k)
    BY <2>1, RowsSame, ComparedSame, RoundsSame
  <2>4. \A e : Covered(e)' = Covered(e)
    BY <2>1, <2>3 DEF Covered
  <2>5. VerboseRows' <=> VerboseRows
    <3>1. \A f : Compared(printed["verbose"][f], f)' = Compared(printed["verbose"][f], f)
      BY <2>1, <2>3
    <3>2. \A f : RowsFor(Covered(f), f)' = RowsFor(Covered(f), f)
      BY <2>3, <2>4
    <3>3. QED
      BY <2>1, <2>2, <3>1, <3>2 DEF VerboseRows
  <2>6. RoundsKnown(loc[Collector])' <=> RoundsKnown(loc[Collector])
    BY <2>1, <2>3
  <2>7. QED
    BY <1>1, <2>1, <2>2, <2>5, <2>6 DEF RowsPrinted
<1>5. CASE \E r \in Ranks : \E t \in ThreadsUsed(r), k \in Kinds :
              Call(r, t, k.site, k.amount)
  <2>1. printed' = <<>> /\ ctl'.pc = "run"
    BY <1>5 DEF Call
  <2>2. DOMAIN printed' = {}
    BY <2>1
  <2>3. QED
    BY <1>3, <2>1, <2>2
<1>6. CASE PcontrolReport
  <2>1. PICK s : Report(s)
    BY <1>6 DEF PcontrolReport
  <2>2. /\ ctl.pc = "run"
        /\ \/ ctl' = ctl
           \/ \E all : ctl' = [Running EXCEPT !.pc = "merge", !.pending = all, !.style = s]
    BY <2>1 DEF Report
  <2>3. ctl'.pc \in {"run", "merge"}
    BY <2>2 DEF Running
  <2>4. DOMAIN printed' = {}
    <3>1. printed' = <<>>
      BY <2>1 DEF Report
    <3>2. QED
      BY <3>1
  <2>5. QED
    BY <1>3, <2>3, <2>4
<1>7. CASE InsertCallsite
  <2>1. UNCHANGED printed /\ ctl.pc = "merge"
    BY <1>7 DEF InsertCallsite
  <2>2. PICK p : ctl' = [ctl EXCEPT !.pending = @ \ {p}, !.from = p.rank,
                               !.pc = IF ctl.pending = {p} THEN "publish" ELSE "merge"]
    BY <1>7 DEF InsertCallsite
  <2>3. ctl'.pc \in {"publish", "merge"}
    BY <1>2, <2>2
  <2>4. QED
    BY <1>2, <1>3, <2>1, <2>2, <2>3
<1>8. CASE Publish
  <2>1. UNCHANGED <<setup, printed>> /\ ctl.pc = "publish"
    BY <1>8 DEF Publish, bounds
  <2>2. ctl' = [ctl EXCEPT !.pc = "print", !.styles = Styles]
    BY <1>8 DEF Publish
  <2>3. ctl'.pc = "print" /\ ctl'.styles = Styles
    BY <1>2, <2>2
  <2>4. ctl'.styles = <<"concise", "verbose">> \/ \E s : ctl'.styles = <<s>>
    BY <2>3 DEF Styles
  <2>5. (ctl.styles = <<Style>>)' \/ ctl'.styles = <<"concise", "verbose">>
    BY <2>4 DEF Style
  <2>6. DOMAIN printed' = {}
    BY <1>2, <2>1
  <2>7. QED
    BY <2>3, <2>5, <2>6 DEF RowsPrinted
<1>9. CASE ProfilePrint
  BY <1>1, <1>9, PrintRows
<1>10. CASE Meet
  BY <1>1, <1>10, MeetRows
<1>11. CASE Barrier
  BY <1>1, <1>11, BarrierRows
<1>12. CASE Reset
  <2>1. printed' = <<>> /\ ctl'.pc = "run"
    BY <1>12 DEF Reset
  <2>2. DOMAIN printed' = {}
    BY <2>1
  <2>3. QED
    BY <1>3, <2>1, <2>2
<1>13. QED
  BY <1>1, <1>4, <1>5, <1>6, <1>7, <1>8, <1>9, <1>10, <1>11, <1>12 DEF Next

LEMMA RowsShown == RowsPrinted => RowsOfCalls
<1>1. \A X, f : RowsFor(X, f) = {Comparable(row, f) : row \in UNION {KeyRows(x, f) : x \in X}}
  BY DEF RowsFor, Compared
<1>2. \A f : RowsFromCalls(f) = UNION {KeyRows(x, f) : x \in Keys}
  BY DEF RowsFromCalls, KeyRows
<1>3. \A f : RowsFor(Keys, f) = {Comparable(row, f) : row \in RowsFromCalls(f)}
  BY <1>1, <1>2
<1>4. SUFFICES ASSUME RowsPrinted, Done("verbose"), NEW f \in Fields, Reliable(f)
               PROVE  {Comparable(row, f) : row \in printed["verbose"][f]}
                         = IF Printable THEN {Comparable(row, f) : row \in RowsFromCalls(f)} ELSE {}
  BY DEF RowsOfCalls
<1>5. Covered(f) = Keys
  BY <1>4 DEF Done, Covered
<1>6. Compared(printed["verbose"][f], f) = IF Printable THEN RowsFor(Keys, f) ELSE {}
  BY <1>4, <1>5 DEF RowsPrinted, VerboseRows, Done
<1>7. QED
  BY <1>3, <1>6 DEF Compared

(* The rows of a verbose report are those of the calls, whether the        *)
(* collector prints them from its tables or the ranks print them together  *)
(* (report.c: mpiPi_print_all_callsite_..., mpiPi_coll_print_all_...).     *)
THEOREM RowsAlways == Spec => []RowsOfCalls
<1>1. Spec => []RowsPrinted
  BY InitRows, NextRows, ReportInvariant, MergedAlways, PTL DEF Spec
<1>2. QED
  BY <1>1, RowsShown, PTL

=============================================================================
