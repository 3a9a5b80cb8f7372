----------------------------- MODULE FoldTheorems ------------------------------
(***************************************************************************)
(* Facts about SumFunctionOnSet, with which the modules add up the         *)
(* contributions of ranks and threads: what it is on the empty set, that   *)
(* any element may be taken out first, its type, and what one changed      *)
(* summand changes; and about folds in general.                            *)
(*                                                                         *)
(* SumFunctionOnSet is a recursive function over the subsets of a finite   *)
(* set.  That such a function exists, and every fact about it, is proved   *)
(* here from subsets that are minimal among those for which it fails: the  *)
(* strict subset ordering of a finite set is well-founded.                 *)
(***************************************************************************)
EXTENDS Integers, Functions, FiniteSetTheorems, TLAPS

(* A set of naturals has a least one. *)
LEMMA LeastNumber ==
    ASSUME NEW T, T \subseteq Nat, T # {}
    PROVE  \E m \in T : \A n \in T : m <= n
<1>1. PICK m \in T : \A n \in T : <<n, m>> \notin OpToRel(<, Nat)
  BY NatLessThanWellFounded, WFMin
<1>2. ASSUME NEW n \in T
      PROVE  m <= n
  <2>1. n \in Nat /\ m \in Nat
    OBVIOUS
  <2>2. ~(n < m)
    BY <1>1, <2>1 DEF OpToRel
  <2>3. QED
    BY <2>1, <2>2
<1>3. QED
  BY <1>2

(* A set of subsets of a finite set has a minimal element.                 *)
LEMMA MinimalSubset ==
    ASSUME NEW S, IsFiniteSet(S), NEW T, T \subseteq SUBSET S, T # {}
    PROVE  \E x \in T : \A y \in T : y \subseteq x => y = x
<1>1. IsWellFoundedOn(StrictSubsetOrdering(S), FiniteSubsetsOf(S))
  BY FS_StrictSubsetOrderingWellFounded
<1>2. T \subseteq FiniteSubsetsOf(S)
  BY FS_FiniteSubsetsOfFinite
<1>3. PICK x \in T : \A y \in T : <<y, x>> \notin StrictSubsetOrdering(S)
  BY <1>1, <1>2, WFMin
<1>4. ASSUME NEW y \in T, y \subseteq x, y # x
      PROVE  FALSE
  <2>1. <<y, x>> \in (SUBSET S) \X (SUBSET S)
    OBVIOUS
  <2>2. <<y, x>>[1] = y /\ <<y, x>>[2] = x
    OBVIOUS
  <2>3. QED
    BY <2>1, <2>2, <1>3, <1>4 DEF StrictSubsetOrdering
<1>5. QED
  BY <1>4

-----------------------------------------------------------------------------
(* The element that the recursion takes out of a set. *)
Pick(s) == CHOOSE x \in s : TRUE

(* sum is the recursive function over the subsets of S that adds up f. *)
Sums(sum, f, S) ==
    sum = [s \in SUBSET S |-> IF s = {} THEN 0
                              ELSE f[Pick(s)] + sum[s \ {Pick(s)}]]

LEMMA SumDefinition ==
    ASSUME NEW f, NEW S
    PROVE  SumFunctionOnSet(f, S) = (CHOOSE sum : Sums(sum, f, S))[S]
BY DEF SumFunctionOnSet, FoldFunctionOnSet, MapThenFoldSet, Pick, Sums

(* Two such functions, for two sets, agree where both are defined. *)
LEMMA SumsAgree ==
    ASSUME NEW f, NEW S, IsFiniteSet(S), NEW S1 \in SUBSET S, NEW S2 \in SUBSET S,
           NEW sum1, NEW sum2, Sums(sum1, f, S1), Sums(sum2, f, S2)
    PROVE  \A s \in SUBSET (S1 \cap S2) : sum1[s] = sum2[s]
<1> DEFINE T == {s \in SUBSET (S1 \cap S2) : sum1[s] # sum2[s]}
<1>1. SUFFICES ASSUME T # {}
               PROVE  FALSE
  OBVIOUS
<1>2. PICK s \in T : \A y \in T : y \subseteq s => y = s
  <2>1. T \subseteq SUBSET S
    OBVIOUS
  <2> HIDE DEF T
  <2>2. QED
    BY <1>1, <2>1, MinimalSubset
<1>3. s # {}
  BY DEF Sums
<1>4. Pick(s) \in s
  BY <1>3 DEF Pick
<1>5. sum1[s \ {Pick(s)}] = sum2[s \ {Pick(s)}]
  BY <1>2, <1>4
<1>6. sum1[s] = f[Pick(s)] + sum1[s \ {Pick(s)}]
  BY <1>3 DEF Sums
<1>7. sum2[s] = f[Pick(s)] + sum2[s \ {Pick(s)}]
  BY <1>3 DEF Sums
<1>8. QED
  BY <1>5, <1>6, <1>7

(* Such a function exists for every finite set: were there a set without   *)
(* one, take a minimal one, and put together those of its strict subsets.  *)
LEMMA SumsExist ==
    ASSUME NEW f, NEW S, IsFiniteSet(S)
    PROVE  \E sum : Sums(sum, f, S)
<1> DEFINE T == {s \in SUBSET S : ~\E sum : Sums(sum, f, s)}
<1>1. SUFFICES ASSUME T # {}
               PROVE  FALSE
  OBVIOUS
<1>2. PICK m \in T : \A y \in T : y \subseteq m => y = m
  <2>1. T \subseteq SUBSET S
    OBVIOUS
  <2> HIDE DEF T
  <2>2. QED
    BY <1>1, <2>1, MinimalSubset
<1> DEFINE part(s) == CHOOSE sum : Sums(sum, f, s)
           below(s) == part(s \ {Pick(s)})[s \ {Pick(s)}]
           whole == [s \in SUBSET m |-> IF s = {} THEN 0
                                        ELSE f[Pick(s)] + below(s)]
<1>3. ASSUME NEW s \in SUBSET m, s # m
      PROVE  Sums(part(s), f, s)
  BY <1>2, <1>3
<1>4. ASSUME NEW s \in SUBSET m, s # {}
      PROVE  whole[s \ {Pick(s)}] = below(s)
  <2>1. Pick(s) \in s
    BY <1>4 DEF Pick
  <2> DEFINE r == s \ {Pick(s)}
  <2>2. r \in SUBSET m /\ r # m
    BY <2>1
  <2>3. Sums(part(r), f, r)
    BY <1>3, <2>2
  <2>4. CASE r = {}
    <3>1. part(r)[r] = 0
      BY <2>3, <2>4 DEF Sums
    <3>2. QED
      BY <2>2, <2>4, <3>1
  <2>5. CASE r # {}
    <3>1. part(r)[r] = f[Pick(r)] + part(r)[r \ {Pick(r)}]
      <4> HIDE DEF part, r
      <4>1. QED
        BY <2>3, <2>5 DEF Sums
    <3>2. Pick(r) \in r
      BY <2>5 DEF Pick
    <3> DEFINE q == r \ {Pick(r)}
    <3>3. q \in SUBSET m /\ q # m
      BY <2>2
    <3>4. Sums(part(q), f, q)
      BY <1>3, <3>3
    <3>5. part(r)[q] = part(q)[q]
      <4>1. IsFiniteSet(m)
        BY FS_Subset
      <4>2. r \in SUBSET m /\ q \in SUBSET m /\ q \in SUBSET (r \cap q)
        BY <2>2, <3>3
      <4> HIDE DEF part, r, q
      <4>3. QED
        BY <4>1, <4>2, <2>3, <3>4, SumsAgree
    <3>6. whole[r] = f[Pick(r)] + below(r)
      BY <2>2, <2>5
    <3>7. QED
      BY <3>1, <3>5, <3>6
  <2>6. QED
    BY <2>4, <2>5
<1>5. Sums(whole, f, m)
  <2>1. ASSUME NEW s \in SUBSET m
        PROVE  whole[s] = IF s = {} THEN 0 ELSE f[Pick(s)] + whole[s \ {Pick(s)}]
    <3>1. whole[s] = IF s = {} THEN 0 ELSE f[Pick(s)] + below(s)
      OBVIOUS
    <3> HIDE DEF whole, below
    <3>2. QED
      BY <3>1, <1>4
  <2>2. whole = [s \in SUBSET m |-> whole[s]]
    OBVIOUS
  <2> HIDE DEF whole
  <2>3. QED
    BY <2>1, <2>2 DEF Sums
<1>6. QED
  BY <1>2, <1>5

-----------------------------------------------------------------------------
(* So the sum satisfies its recursion, *)
LEMMA SumRecursion ==
    ASSUME NEW f, NEW S, IsFiniteSet(S)
    PROVE  SumFunctionOnSet(f, S) =
             IF S = {} THEN 0
             ELSE f[Pick(S)] + SumFunctionOnSet(f, S \ {Pick(S)})
<1> DEFINE sum == CHOOSE g : Sums(g, f, S)
           r == S \ {Pick(S)}
           rest == CHOOSE g : Sums(g, f, r)
<1>1. Sums(sum, f, S)
  BY SumsExist
<1>2. IsFiniteSet(r)
  BY FS_RemoveElement
<1>3. Sums(rest, f, r)
  BY <1>2, SumsExist
<1>4. r \in SUBSET S /\ S \in SUBSET S /\ r \in SUBSET (S \cap r)
  OBVIOUS
<1>5. SumFunctionOnSet(f, S) = sum[S] /\ SumFunctionOnSet(f, r) = rest[r]
  BY SumDefinition
<1> HIDE DEF sum, rest, r
<1>6. sum[r] = rest[r]
  BY <1>1, <1>3, <1>4, SumsAgree
<1>7. sum[S] = IF S = {} THEN 0 ELSE f[Pick(S)] + sum[r]
  BY <1>1, <1>4 DEF Sums, r
<1>8. QED
  BY <1>5, <1>6, <1>7 DEF r

(* which is 0 for no summand, *)
LEMMA SumEmpty ==
    ASSUME NEW f
    PROVE  SumFunctionOnSet(f, {}) = 0
BY SumRecursion, FS_EmptySet

(* a natural number if all summands are, *)
LEMMA SumNat ==
    ASSUME NEW f, NEW S, IsFiniteSet(S), \A x \in S : f[x] \in Nat
    PROVE  SumFunctionOnSet(f, S) \in Nat
<1> DEFINE T == {s \in SUBSET S : SumFunctionOnSet(f, s) \notin Nat}
<1>1. SUFFICES ASSUME T # {}
               PROVE  FALSE
  OBVIOUS
<1>2. PICK s \in T : \A y \in T : y \subseteq s => y = s
  <2>1. T \subseteq SUBSET S
    OBVIOUS
  <2> HIDE DEF T
  <2>2. QED
    BY <1>1, <2>1, MinimalSubset
<1>3. IsFiniteSet(s)
  BY FS_Subset
<1>4. s # {}
  BY SumEmpty
<1>5. Pick(s) \in s
  BY <1>4 DEF Pick
<1>6. SumFunctionOnSet(f, s \ {Pick(s)}) \in Nat
  BY <1>2, <1>5
<1>7. f[Pick(s)] \in Nat
  BY <1>5
<1>8. SumFunctionOnSet(f, s) = f[Pick(s)] + SumFunctionOnSet(f, s \ {Pick(s)})
  BY <1>3, <1>4, SumRecursion
<1>9. QED
  BY <1>6, <1>7, <1>8

(* an integer, *)
LEMMA SumInt ==
    ASSUME NEW f, NEW S, IsFiniteSet(S), \A x \in S : f[x] \in Int
    PROVE  SumFunctionOnSet(f, S) \in Int
<1> DEFINE T == {s \in SUBSET S : SumFunctionOnSet(f, s) \notin Int}
<1>1. SUFFICES ASSUME T # {}
               PROVE  FALSE
  OBVIOUS
<1>2. PICK s \in T : \A y \in T : y \subseteq s => y = s
  <2>1. T \subseteq SUBSET S
    OBVIOUS
  <2> HIDE DEF T
  <2>2. QED
    BY <1>1, <2>1, MinimalSubset
<1>3. IsFiniteSet(s)
  BY FS_Subset
<1>4. s # {}
  BY SumEmpty
<1>5. Pick(s) \in s
  BY <1>4 DEF Pick
<1>6. SumFunctionOnSet(f, s \ {Pick(s)}) \in Int
  BY <1>2, <1>5
<1>7. f[Pick(s)] \in Int
  BY <1>5
<1>8. SumFunctionOnSet(f, s) = f[Pick(s)] + SumFunctionOnSet(f, s \ {Pick(s)})
  BY <1>3, <1>4, SumRecursion
<1>9. QED
  BY <1>6, <1>7, <1>8

(* the same for two functions that agree on the set, *)
LEMMA SumEqual ==
    ASSUME NEW f, NEW g, NEW S, IsFiniteSet(S), \A x \in S : f[x] = g[x]
    PROVE  SumFunctionOnSet(f, S) = SumFunctionOnSet(g, S)
<1> DEFINE T == {s \in SUBSET S : SumFunctionOnSet(f, s) # SumFunctionOnSet(g, s)}
<1>1. SUFFICES ASSUME T # {}
               PROVE  FALSE
  OBVIOUS
<1>2. PICK s \in T : \A y \in T : y \subseteq s => y = s
  <2>1. T \subseteq SUBSET S
    OBVIOUS
  <2> HIDE DEF T
  <2>2. QED
    BY <1>1, <2>1, MinimalSubset
<1>3. IsFiniteSet(s)
  BY FS_Subset
<1>4. s # {}
  BY SumEmpty
<1>5. Pick(s) \in s
  BY <1>4 DEF Pick
<1>6. SumFunctionOnSet(f, s \ {Pick(s)}) = SumFunctionOnSet(g, s \ {Pick(s)})
  BY <1>2, <1>5
<1>7. SumFunctionOnSet(f, s) = f[Pick(s)] + SumFunctionOnSet(f, s \ {Pick(s)})
  BY <1>3, <1>4, SumRecursion
<1>8. SumFunctionOnSet(g, s) = g[Pick(s)] + SumFunctionOnSet(g, s \ {Pick(s)})
  BY <1>3, <1>4, SumRecursion
<1>9. QED
  BY <1>5, <1>6, <1>7, <1>8

(* and independent of the order in which the summands are taken: any one   *)
(* may come first.                                                         *)
LEMMA SumTakeOut ==
    ASSUME NEW f, NEW S, IsFiniteSet(S), \A x \in S : f[x] \in Nat, NEW e \in S
    PROVE  SumFunctionOnSet(f, S) = f[e] + SumFunctionOnSet(f, S \ {e})
<1> DEFINE Wrong(s) == \E x \in s : SumFunctionOnSet(f, s) #
                                      f[x] + SumFunctionOnSet(f, s \ {x})
           T == {s \in SUBSET S : Wrong(s)}
<1>1. SUFFICES ASSUME T # {}
               PROVE  FALSE
  OBVIOUS
<1>2. PICK s \in T : \A y \in T : y \subseteq s => y = s
  <2>1. T \subseteq SUBSET S
    OBVIOUS
  <2> HIDE DEF T
  <2>2. QED
    BY <1>1, <2>1, MinimalSubset
<1>3. PICK x \in s : SumFunctionOnSet(f, s) # f[x] + SumFunctionOnSet(f, s \ {x})
  OBVIOUS
<1> DEFINE p == Pick(s)
<1>4. p \in s
  BY DEF Pick
<1>5. IsFiniteSet(s)
  BY FS_Subset
<1>6. SumFunctionOnSet(f, s) = f[p] + SumFunctionOnSet(f, s \ {p})
  BY <1>4, <1>5, SumRecursion
<1>7. x # p
  BY <1>3, <1>6
<1> HIDE DEF p
<1>8. ASSUME NEW t \in SUBSET s, t # s, NEW y \in t
      PROVE  SumFunctionOnSet(f, t) = f[y] + SumFunctionOnSet(f, t \ {y})
  <2>1. t \notin T /\ t \in SUBSET S
    BY <1>2, <1>8
  <2>2. QED
    BY <2>1, <1>8
<1> DEFINE rest == SumFunctionOnSet(f, (s \ {x}) \ {p})
<1>9. SumFunctionOnSet(f, s \ {p}) = f[x] + rest
  <2>1. (s \ {p}) \ {x} = (s \ {x}) \ {p}
    OBVIOUS
  <2>2. s \ {p} \in SUBSET s /\ s \ {p} # s /\ x \in s \ {p}
    BY <1>4, <1>7
  <2>3. SumFunctionOnSet(f, s \ {p}) = f[x] + SumFunctionOnSet(f, (s \ {p}) \ {x})
    BY <2>2, <1>8
  <2>4. QED
    BY <2>1, <2>3
<1>10. SumFunctionOnSet(f, s \ {x}) = f[p] + rest
  <2>1. s \ {x} \in SUBSET s /\ s \ {x} # s /\ p \in s \ {x}
    BY <1>4, <1>7
  <2>2. QED
    BY <2>1, <1>8
<1>11. rest \in Nat
  <2>1. IsFiniteSet((s \ {x}) \ {p})
    BY <1>5, FS_Subset
  <2>2. QED
    BY <2>1, SumNat
<1>12. f[x] \in Nat /\ f[p] \in Nat
  BY <1>4
<1> HIDE DEF rest
<1>13. QED
  BY <1>3, <1>6, <1>9, <1>10, <1>11, <1>12

-----------------------------------------------------------------------------
(* A set of summands that are all 0 adds up to 0, and a sum that is 0 has  *)
(* no other summand.                                                       *)
THEOREM SumZero ==
    ASSUME NEW f, NEW S, IsFiniteSet(S), \A x \in S : f[x] \in Nat
    PROVE  SumFunctionOnSet(f, S) = 0 <=> \A x \in S : f[x] = 0
<1>1. ASSUME SumFunctionOnSet(f, S) = 0, NEW x \in S
      PROVE  f[x] = 0
  <2>1. SumFunctionOnSet(f, S) = f[x] + SumFunctionOnSet(f, S \ {x})
    BY SumTakeOut
  <2>2. SumFunctionOnSet(f, S \ {x}) \in Nat
    <3>1. IsFiniteSet(S \ {x})
      BY FS_RemoveElement
    <3>2. QED
      BY <3>1, SumNat
  <2>3. QED
    BY <1>1, <2>1, <2>2
<1>2. ASSUME \A x \in S : f[x] = 0
      PROVE  SumFunctionOnSet(f, S) = 0
  <2> DEFINE T == {s \in SUBSET S : SumFunctionOnSet(f, s) # 0}
  <2>1. SUFFICES ASSUME T # {}
                 PROVE  FALSE
    OBVIOUS
  <2>2. PICK s \in T : \A y \in T : y \subseteq s => y = s
    <3>1. T \subseteq SUBSET S
      OBVIOUS
    <3> HIDE DEF T
    <3>2. QED
      BY <2>1, <3>1, MinimalSubset
  <2>3. IsFiniteSet(s)
    BY FS_Subset
  <2>4. s # {}
    BY SumEmpty
  <2>5. Pick(s) \in s
    BY <2>4 DEF Pick
  <2>6. SumFunctionOnSet(f, s \ {Pick(s)}) = 0
    BY <2>2, <2>5
  <2>7. SumFunctionOnSet(f, s) = f[Pick(s)] + SumFunctionOnSet(f, s \ {Pick(s)})
    BY <2>3, <2>4, SumRecursion
  <2>8. QED
    BY <1>2, <2>5, <2>6, <2>7
<1>3. QED
  BY <1>1, <1>2

(* When one summand changes, the sum changes by as much.                   *)
THEOREM SumUpdate ==
    ASSUME NEW f, NEW g, NEW S, IsFiniteSet(S), NEW e \in S,
           \A x \in S : f[x] \in Nat /\ g[x] \in Nat,
           \A x \in S \ {e} : f[x] = g[x]
    PROVE  SumFunctionOnSet(g, S) + f[e] = SumFunctionOnSet(f, S) + g[e]
<1>1. IsFiniteSet(S \ {e})
  BY FS_RemoveElement
<1>2. SumFunctionOnSet(f, S) = f[e] + SumFunctionOnSet(f, S \ {e})
  BY SumTakeOut
<1>3. SumFunctionOnSet(g, S) = g[e] + SumFunctionOnSet(g, S \ {e})
  BY SumTakeOut
<1>4. SumFunctionOnSet(f, S \ {e}) = SumFunctionOnSet(g, S \ {e})
  BY <1>1, SumEqual
<1>5. SumFunctionOnSet(f, S \ {e}) \in Nat
  BY <1>1, SumNat
<1>6. f[e] \in Nat /\ g[e] \in Nat
  OBVIOUS
<1>7. QED
  BY <1>2, <1>3, <1>4, <1>5, <1>6

(* Summands that are 0 may be left out.                                    *)
THEOREM SumOverSubset ==
    ASSUME NEW f, NEW S, IsFiniteSet(S), \A x \in S : f[x] \in Nat,
           NEW R \in SUBSET S, \A x \in S \ R : f[x] = 0
    PROVE  SumFunctionOnSet(f, S) = SumFunctionOnSet(f, R)
<1> DEFINE T == {s \in SUBSET S : /\ R \subseteq s
                                  /\ SumFunctionOnSet(f, s) # SumFunctionOnSet(f, R)}
<1>1. SUFFICES ASSUME T # {}
               PROVE  FALSE
  OBVIOUS
<1>2. PICK s \in T : \A y \in T : y \subseteq s => y = s
  <2>1. T \subseteq SUBSET S
    OBVIOUS
  <2> HIDE DEF T
  <2>2. QED
    BY <1>1, <2>1, MinimalSubset
<1>3. PICK x \in s : x \notin R
  OBVIOUS
<1>4. IsFiniteSet(s)
  BY FS_Subset
<1>5. SumFunctionOnSet(f, s) = f[x] + SumFunctionOnSet(f, s \ {x})
  BY <1>4, SumTakeOut
<1>6. SumFunctionOnSet(f, s \ {x}) = SumFunctionOnSet(f, R)
  BY <1>2, <1>3
<1>7. SumFunctionOnSet(f, R) \in Nat
  <2>1. IsFiniteSet(R)
    BY FS_Subset
  <2>2. QED
    BY <2>1, SumNat
<1>8. f[x] = 0
  BY <1>3
<1>9. QED
  BY <1>5, <1>6, <1>7, <1>8

(* The sum over a part is no more than the whole.                         *)
THEOREM SumOfPart ==
    ASSUME NEW f, NEW S, IsFiniteSet(S), \A x \in S : f[x] \in Nat, NEW R \in SUBSET S
    PROVE  SumFunctionOnSet(f, R) <= SumFunctionOnSet(f, S)
<1> DEFINE T == {s \in SUBSET S : /\ R \subseteq s
                                  /\ ~(SumFunctionOnSet(f, R) <= SumFunctionOnSet(f, s))}
<1>1. SUFFICES ASSUME T # {}
               PROVE  FALSE
  OBVIOUS
<1>2. PICK s \in T : \A y \in T : y \subseteq s => y = s
  <2>1. T \subseteq SUBSET S
    OBVIOUS
  <2> HIDE DEF T
  <2>2. QED
    BY <1>1, <2>1, MinimalSubset
<1>3. /\ s \subseteq S /\ R \subseteq s /\ IsFiniteSet(s) /\ IsFiniteSet(R)
      /\ SumFunctionOnSet(f, s) \in Nat /\ SumFunctionOnSet(f, R) \in Nat
  <2>1. s \subseteq S /\ R \subseteq s /\ IsFiniteSet(s) /\ IsFiniteSet(R)
    BY FS_Subset
  <2>2. QED
    BY <2>1, SumNat
<1>4. s # R
  BY <1>3
<1>5. PICK e \in s : e \notin R
  BY <1>3, <1>4
<1>6. SumFunctionOnSet(f, s) = f[e] + SumFunctionOnSet(f, s \ {e})
  <2>1. \A x \in s : f[x] \in Nat
    BY <1>3
  <2>2. QED
    BY <1>3, <2>1, SumTakeOut
<1>7. SumFunctionOnSet(f, R) <= SumFunctionOnSet(f, s \ {e})
  <2>1. s \ {e} \in SUBSET S /\ R \subseteq s \ {e} /\ s \ {e} \subseteq s /\ s \ {e} # s
    BY <1>3, <1>5
  <2>2. s \ {e} \notin T
    BY <1>2, <2>1
  <2>3. QED
    BY <2>1, <2>2
<1>8. SumFunctionOnSet(f, s \ {e}) \in Nat /\ f[e] \in Nat
  <2>1. IsFiniteSet(s \ {e}) /\ s \ {e} \subseteq S
    BY <1>3, FS_Subset
  <2>2. QED
    BY <1>3, <1>5, <2>1, SumNat
<1>9. QED
  BY <1>3, <1>6, <1>7, <1>8

(* Greater summands add up to more. *)
THEOREM SumMonotone ==
    ASSUME NEW f, NEW g, NEW S, IsFiniteSet(S),
           \A x \in S : f[x] \in Nat /\ g[x] \in Nat /\ f[x] <= g[x]
    PROVE  SumFunctionOnSet(f, S) <= SumFunctionOnSet(g, S)
<1> DEFINE T == {s \in SUBSET S : ~(SumFunctionOnSet(f, s) <= SumFunctionOnSet(g, s))}
<1>1. SUFFICES ASSUME T # {}
               PROVE  FALSE
  OBVIOUS
<1>2. PICK s \in T : \A y \in T : y \subseteq s => y = s
  <2>1. T \subseteq SUBSET S
    OBVIOUS
  <2> HIDE DEF T
  <2>2. QED
    BY <1>1, <2>1, MinimalSubset
<1>3. IsFiniteSet(s) /\ s \subseteq S
  BY FS_Subset
<1>4. s # {}
  BY SumEmpty
<1>5. PICK e \in s : TRUE
  BY <1>4
<1>6. /\ SumFunctionOnSet(f, s) = f[e] + SumFunctionOnSet(f, s \ {e})
      /\ SumFunctionOnSet(g, s) = g[e] + SumFunctionOnSet(g, s \ {e})
  BY <1>3, SumTakeOut
<1>7. IsFiniteSet(s \ {e}) /\ s \ {e} \subseteq S
  BY <1>3, FS_Subset
<1>8. SumFunctionOnSet(f, s \ {e}) \in Nat /\ SumFunctionOnSet(g, s \ {e}) \in Nat
  BY <1>7, SumNat
<1>9. SumFunctionOnSet(f, s \ {e}) <= SumFunctionOnSet(g, s \ {e})
  BY <1>2, <1>5, <1>7
<1>10. f[e] \in Nat /\ g[e] \in Nat /\ f[e] <= g[e]
  BY <1>3, <1>5
<1>11. QED
  BY <1>6, <1>8, <1>9, <1>10

-----------------------------------------------------------------------------
(***************************************************************************)
(* Folds in general.  The prover has no facts about the fold operators,    *)
(* which take operators as parameters.  Here the step of a fold is a       *)
(* function, from a set X times a set Y of values to Y, and what is taken  *)
(* out of a set is a function of the set; a module that uses a fold        *)
(* expands its definition and takes the function from FoldExists.          *)
(***************************************************************************)
FoldOf(fold, S, base, pick, step) ==
    fold = [s \in SUBSET S |-> IF s = {} THEN base
                               ELSE step[pick[s]][fold[s \ {pick[s]}]]]

LEMMA FoldsAgree ==
    ASSUME NEW S, IsFiniteSet(S), NEW base, NEW pick, NEW step,
           \A s \in SUBSET S : s # {} => pick[s] \in s,
           NEW S1 \in SUBSET S, NEW S2 \in SUBSET S, NEW fold1, NEW fold2,
           FoldOf(fold1, S1, base, pick, step), FoldOf(fold2, S2, base, pick, step)
    PROVE  \A s \in SUBSET (S1 \cap S2) : fold1[s] = fold2[s]
<1> DEFINE T == {s \in SUBSET (S1 \cap S2) : fold1[s] # fold2[s]}
<1>1. SUFFICES ASSUME T # {}
               PROVE  FALSE
  OBVIOUS
<1>2. PICK s \in T : \A y \in T : y \subseteq s => y = s
  <2>1. T \subseteq SUBSET S
    OBVIOUS
  <2> HIDE DEF T
  <2>2. QED
    BY <1>1, <2>1, MinimalSubset
<1>3. s # {}
  BY DEF FoldOf
<1>4. pick[s] \in s
  BY <1>3
<1>5. fold1[s \ {pick[s]}] = fold2[s \ {pick[s]}]
  BY <1>2, <1>4
<1>6. /\ fold1[s] = step[pick[s]][fold1[s \ {pick[s]}]]
      /\ fold2[s] = step[pick[s]][fold2[s \ {pick[s]}]]
  BY <1>3 DEF FoldOf
<1>7. QED
  BY <1>5, <1>6

LEMMA FoldExists ==
    ASSUME NEW S, IsFiniteSet(S), NEW base, NEW pick, NEW step,
           \A s \in SUBSET S : s # {} => pick[s] \in s
    PROVE  \E fold : FoldOf(fold, S, base, pick, step)
<1> DEFINE T == {s \in SUBSET S : ~\E fold : FoldOf(fold, s, base, pick, step)}
<1>1. SUFFICES ASSUME T # {}
               PROVE  FALSE
  OBVIOUS
<1>2. PICK m \in T : \A y \in T : y \subseteq m => y = m
  <2>1. T \subseteq SUBSET S
    OBVIOUS
  <2> HIDE DEF T
  <2>2. QED
    BY <1>1, <2>1, MinimalSubset
<1> DEFINE part(s) == CHOOSE fold : FoldOf(fold, s, base, pick, step)
           below(s) == part(s \ {pick[s]})[s \ {pick[s]}]
           whole == [s \in SUBSET m |-> IF s = {} THEN base ELSE step[pick[s]][below(s)]]
<1>3. ASSUME NEW s \in SUBSET m, s # m
      PROVE  FoldOf(part(s), s, base, pick, step)
  BY <1>2, <1>3
<1>4. ASSUME NEW s \in SUBSET m, s # {}
      PROVE  whole[s \ {pick[s]}] = below(s)
  <2>1. pick[s] \in s
    BY <1>4
  <2> DEFINE r == s \ {pick[s]}
  <2>2. r \in SUBSET m /\ r # m /\ r \in SUBSET S
    BY <2>1
  <2>3. FoldOf(part(r), r, base, pick, step)
    BY <1>3, <2>2
  <2>4. CASE r = {}
    <3>1. part(r)[r] = base
      BY <2>3, <2>4 DEF FoldOf
    <3>2. QED
      BY <2>2, <2>4, <3>1
  <2>5. CASE r # {}
    <3>1. part(r)[r] = step[pick[r]][part(r)[r \ {pick[r]}]]
      <4> HIDE DEF part, r
      <4>1. QED
        BY <2>3, <2>5 DEF FoldOf
    <3>2. pick[r] \in r
      BY <2>2, <2>5
    <3> DEFINE q == r \ {pick[r]}
    <3>3. q \in SUBSET m /\ q # m
      BY <2>2
    <3>4. FoldOf(part(q), q, base, pick, step)
      BY <1>3, <3>3
    <3>5. part(r)[q] = part(q)[q]
      <4>1. r \in SUBSET S /\ q \in SUBSET S /\ q \in SUBSET (r \cap q)
        BY <2>2, <3>3
      <4> HIDE DEF part, r, q
      <4>2. QED
        BY <4>1, <2>3, <3>4, FoldsAgree
    <3>6. whole[r] = step[pick[r]][below(r)]
      BY <2>2, <2>5
    <3>7. QED
      BY <3>1, <3>5, <3>6
  <2>6. QED
    BY <2>4, <2>5
<1>5. FoldOf(whole, m, base, pick, step)
  <2>1. ASSUME NEW s \in SUBSET m
        PROVE  whole[s] = IF s = {} THEN base ELSE step[pick[s]][whole[s \ {pick[s]}]]
    <3>1. whole[s] = IF s = {} THEN base ELSE step[pick[s]][below(s)]
      OBVIOUS
    <3> HIDE DEF whole, below
    <3>2. QED
      BY <3>1, <1>4
  <2>2. whole = [s \in SUBSET m |-> whole[s]]
    OBVIOUS
  <2> HIDE DEF whole
  <2>3. QED
    BY <2>1, <2>2 DEF FoldOf
<1>6. QED
  BY <1>2, <1>5

(* The values of the fold are in Y if the base is and the step stays there. *)
LEMMA FoldType ==
    ASSUME NEW S, IsFiniteSet(S), NEW Y, NEW base \in Y, NEW pick, NEW step, NEW fold,
           \A s \in SUBSET S : s # {} => pick[s] \in s,
           \A x \in S, y \in Y : step[x][y] \in Y,
           FoldOf(fold, S, base, pick, step)
    PROVE  \A s \in SUBSET S : fold[s] \in Y
<1> DEFINE T == {s \in SUBSET S : fold[s] \notin Y}
<1>1. SUFFICES ASSUME T # {}
               PROVE  FALSE
  OBVIOUS
<1>2. PICK s \in T : \A y \in T : y \subseteq s => y = s
  <2>1. T \subseteq SUBSET S
    OBVIOUS
  <2> HIDE DEF T
  <2>2. QED
    BY <1>1, <2>1, MinimalSubset
<1>3. s # {}
  BY DEF FoldOf
<1>4. pick[s] \in s
  BY <1>3
<1>5. fold[s \ {pick[s]}] \in Y
  BY <1>2, <1>4
<1>6. fold[s] = step[pick[s]][fold[s \ {pick[s]}]]
  BY <1>3 DEF FoldOf
<1>7. QED
  BY <1>4, <1>5, <1>6

(* The greatest number of a finite set of them. *)
LEMMA GreatestNumber ==
    ASSUME NEW n \in Nat, NEW T, T \subseteq 1..n, T # {}
    PROVE  \E m \in T : \A x \in T : m >= x
<1> DEFINE D == {n - x : x \in T}
<1>1. PICK d \in D : \A e \in D : d <= e
  <2>1. D \subseteq Nat
    <3>1. \A x \in T : n - x \in Nat
      OBVIOUS
    <3>2. QED
      BY <3>1
  <2>2. D # {}
    OBVIOUS
  <2> HIDE DEF D
  <2>3. QED
    BY <2>1, <2>2, LeastNumber
<1>2. PICK m \in T : d = n - m
  OBVIOUS
<1>3. ASSUME NEW x \in T
      PROVE  m >= x
  <2>1. m \in 1..n /\ x \in 1..n
    OBVIOUS
  <2>2. n - m <= n - x
    BY <1>1, <1>2
  <2>3. QED
    BY <2>1, <2>2
<1>4. QED
  BY <1>3

(* What holds of {}, and of a set when it holds without the picked element, *)
(* holds of every subset.                                                   *)
LEMMA SubsetInduction ==
    ASSUME NEW S, IsFiniteSet(S), NEW pick, NEW Good,
           \A s \in SUBSET S : s # {} => pick[s] \in s,
           {} \in Good,
           \A s \in SUBSET S : s # {} /\ s \ {pick[s]} \in Good => s \in Good
    PROVE  \A s \in SUBSET S : s \in Good
<1> DEFINE T == {s \in SUBSET S : s \notin Good}
<1>1. SUFFICES ASSUME T # {}
               PROVE  FALSE
  OBVIOUS
<1>2. PICK s \in T : \A y \in T : y \subseteq s => y = s
  <2>1. T \subseteq SUBSET S
    OBVIOUS
  <2> HIDE DEF T
  <2>2. QED
    BY <1>1, <2>1, MinimalSubset
<1>3. s # {} /\ pick[s] \in s
  OBVIOUS
<1>4. s \ {pick[s]} \in Good
  BY <1>2, <1>3
<1>5. QED
  BY <1>3, <1>4

(* The sum over two sets without a common element. *)
THEOREM SumUnion ==
    ASSUME NEW f, NEW S, NEW R, IsFiniteSet(S), IsFiniteSet(R), S \cap R = {},
           \A x \in S \cup R : f[x] \in Nat
    PROVE  SumFunctionOnSet(f, S \cup R) = SumFunctionOnSet(f, S) + SumFunctionOnSet(f, R)
<1> DEFINE pick == [s \in SUBSET R |-> Pick(s)]
           Good == {s \in SUBSET R : SumFunctionOnSet(f, S \cup s) =
                                        SumFunctionOnSet(f, S) + SumFunctionOnSet(f, s)}
<1>1. \A s \in SUBSET R : s # {} => pick[s] \in s
  BY DEF Pick
<1>2. SumFunctionOnSet(f, S) \in Nat
  BY SumNat
<1>3. {} \in Good
  <2>1. SumFunctionOnSet(f, {}) = 0 /\ S \cup {} = S
    BY SumEmpty
  <2>2. QED
    BY <1>2, <2>1
<1>4. ASSUME NEW s \in SUBSET R, s # {}, s \ {pick[s]} \in Good
      PROVE  s \in Good
  <2> DEFINE e == pick[s]
  <2>1. e \in s /\ e \in R /\ e \notin S
    BY <1>1, <1>4
  <2>2. IsFiniteSet(s) /\ IsFiniteSet(S \cup s) /\ IsFiniteSet(s \ {e})
    BY FS_Subset, FS_Union, FS_RemoveElement
  <2>3. (S \cup s) \ {e} = S \cup (s \ {e})
    BY <2>1
  <2> HIDE DEF e
  <2>4. SumFunctionOnSet(f, s) = f[e] + SumFunctionOnSet(f, s \ {e})
    BY <2>1, <2>2, SumTakeOut
  <2>5. SumFunctionOnSet(f, S \cup s) = f[e] + SumFunctionOnSet(f, S \cup (s \ {e}))
    <3>1. e \in S \cup s /\ \A x \in S \cup s : f[x] \in Nat
      BY <2>1
    <3>2. SumFunctionOnSet(f, S \cup s) = f[e] + SumFunctionOnSet(f, (S \cup s) \ {e})
      BY <2>2, <3>1, SumTakeOut
    <3>3. QED
      BY <2>3, <3>2
  <2>6. SumFunctionOnSet(f, s \ {e}) \in Nat /\ f[e] \in Nat
    BY <2>1, <2>2, SumNat
  <2>7. SumFunctionOnSet(f, S \cup (s \ {e})) =
            SumFunctionOnSet(f, S) + SumFunctionOnSet(f, s \ {e})
    BY <1>4 DEF e
  <2>8. QED
    BY <1>2, <2>4, <2>5, <2>6, <2>7
<1> HIDE DEF pick, Good
<1>5. \A s \in SUBSET R : s \in Good
  BY <1>1, <1>3, <1>4, SubsetInduction
<1>6. QED
  BY <1>5 DEF Good

(* The set T consists of parts, one for each s of S, that have nothing in  *)
(* common, and h has the sum of f over each part.                          *)
Partition(f, S, part, h, T) ==
    /\ IsFiniteSet(S) /\ T = UNION {part[s] : s \in S}
    /\ \A s \in S : IsFiniteSet(part[s]) /\ \A x \in part[s] : f[x] \in Nat
    /\ \A s, t \in S : s # t => part[s] \cap part[t] = {}
    /\ \A s \in S : h[s] = SumFunctionOnSet(f, part[s])

(* A sum over such parts is the sum of their sums. *)
THEOREM SumPartition ==
    ASSUME NEW f, NEW S, NEW part, NEW h, NEW T, Partition(f, S, part, h, T)
    PROVE  IsFiniteSet(T) /\ SumFunctionOnSet(h, S) = SumFunctionOnSet(f, T)
<1> SUFFICES ASSUME IsFiniteSet(S), T = UNION {part[s] : s \in S},
                    \A s \in S : IsFiniteSet(part[s]) /\ \A x \in part[s] : f[x] \in Nat,
                    \A s, t \in S : s # t => part[s] \cap part[t] = {},
                    \A s \in S : h[s] = SumFunctionOnSet(f, part[s])
             PROVE  IsFiniteSet(T) /\ SumFunctionOnSet(h, S) = SumFunctionOnSet(f, T)
  BY DEF Partition
<1> DEFINE pick == [s \in SUBSET S |-> Pick(s)]
           sums == [s \in S |-> SumFunctionOnSet(f, part[s])]
           All(s) == UNION {part[t] : t \in s}
           Good == {s \in SUBSET S : /\ IsFiniteSet(All(s))
                                     /\ SumFunctionOnSet(sums, s) = SumFunctionOnSet(f, All(s))}
<1>1. \A s \in SUBSET S : s # {} => pick[s] \in s
  BY DEF Pick
<1>2. \A s \in S : sums[s] = SumFunctionOnSet(f, part[s]) /\ sums[s] \in Nat
  BY SumNat
<1>3. {} \in Good
  <2>1. All({}) = {}
    OBVIOUS
  <2> HIDE DEF All, sums
  <2>2. SumFunctionOnSet(sums, {}) = 0 /\ SumFunctionOnSet(f, {}) = 0
    BY SumEmpty
  <2>3. QED
    BY <2>1, <2>2, FS_EmptySet
<1>4. ASSUME NEW s \in SUBSET S, s # {}, s \ {pick[s]} \in Good
      PROVE  s \in Good
  <2> DEFINE e == pick[s]
             rest == s \ {e}
  <2>1. e \in s /\ e \in S /\ rest \in SUBSET S
    BY <1>1, <1>4
  <2>2. IsFiniteSet(s)
    BY FS_Subset
  <2>3. /\ IsFiniteSet(All(rest))
        /\ SumFunctionOnSet(sums, rest) = SumFunctionOnSet(f, All(rest))
    BY <1>4
  <2>4. All(s) = All(rest) \cup part[e]
    <3>1. s = rest \cup {e}
      BY <2>1
    <3> HIDE DEF rest, e
    <3>2. QED
      BY <3>1
  <2>5. All(rest) \cap part[e] = {}
    <3>1. \A t \in rest : t \in S /\ t # e
      OBVIOUS
    <3> HIDE DEF rest, e
    <3>2. \A t \in rest : part[t] \cap part[e] = {}
      BY <2>1, <3>1
    <3>3. QED
      BY <3>2
  <2>6. \A x \in All(rest) \cup part[e] : f[x] \in Nat
    <3> HIDE DEF rest, e
    <3>1. QED
      BY <2>1
  <2>7. SumFunctionOnSet(sums, s) = sums[e] + SumFunctionOnSet(sums, rest)
    <3>1. \A t \in s : sums[t] \in Nat
      BY <1>2
    <3> HIDE DEF sums, pick
    <3>2. QED
      BY <2>1, <2>2, <3>1, SumTakeOut
  <2>8. IsFiniteSet(part[e]) /\ sums[e] = SumFunctionOnSet(f, part[e])
    BY <1>2, <2>1
  <2>9. SumFunctionOnSet(sums, rest) \in Nat /\ sums[e] \in Nat
    <3>1. IsFiniteSet(rest) /\ \A t \in rest : sums[t] \in Nat
      <4>1. IsFiniteSet(rest)
        BY <2>2, FS_RemoveElement
      <4>2. QED
        BY <1>2, <4>1
    <3> HIDE DEF sums, rest
    <3>2. QED
      BY <1>2, <2>1, <3>1, SumNat
  <2> HIDE DEF sums, rest, e, All, pick
  <2>10. SumFunctionOnSet(f, All(rest) \cup part[e]) =
            SumFunctionOnSet(f, All(rest)) + SumFunctionOnSet(f, part[e])
    BY <2>3, <2>5, <2>6, <2>8, SumUnion
  <2>11. IsFiniteSet(All(rest) \cup part[e])
    BY <2>3, <2>8, FS_Union
  <2>12. IsFiniteSet(All(s)) /\ SumFunctionOnSet(sums, s) = SumFunctionOnSet(f, All(s))
    BY <2>3, <2>4, <2>7, <2>8, <2>9, <2>10, <2>11
  <2>13. QED
    BY <2>12
<1> HIDE DEF pick, Good
<1>5. \A s \in SUBSET S : s \in Good
  BY ONLY IsFiniteSet(S), <1>1, <1>3, <1>4, SubsetInduction
<1>6. S \in SUBSET S /\ All(S) = T
  OBVIOUS
<1>7. IsFiniteSet(T) /\ SumFunctionOnSet(sums, S) = SumFunctionOnSet(f, T)
  <2> HIDE DEF sums, All
  <2>1. QED
    BY <1>5, <1>6 DEF Good
<1>8. \A s \in S : h[s] = sums[s]
  OBVIOUS
<1>9. SumFunctionOnSet(h, S) = SumFunctionOnSet(sums, S)
  <2> HIDE DEF sums
  <2>1. QED
    BY <1>8, SumEqual
<1>10. QED
  BY <1>7, <1>9

(* A finite set of integers has a least one. *)
LEMMA LeastInteger ==
    ASSUME NEW S, IsFiniteSet(S), S # {}, S \subseteq Int
    PROVE  \E m \in S : \A n \in S : m <= n
<1> DEFINE pick == [s \in SUBSET S |-> Pick(s)]
           Good == {s \in SUBSET S : s = {} \/ \E m \in s : \A n \in s : m <= n}
<1>1. \A s \in SUBSET S : s # {} => pick[s] \in s
  BY DEF Pick
<1>2. {} \in Good
  OBVIOUS
<1>3. ASSUME NEW s \in SUBSET S, s # {}, s \ {pick[s]} \in Good
      PROVE  s \in Good
  <2> DEFINE e == pick[s]
             rest == s \ {e}
  <2>1. e \in s
    BY <1>1, <1>3
  <2>2. CASE rest = {}
    <3>1. s = {e}
      BY <2>1, <2>2
    <3> HIDE DEF e
    <3>2. e <= e
      BY <2>1
    <3>3. QED
      BY <3>1, <3>2
  <2>3. CASE rest # {}
    <3>1. PICK m \in rest : \A n \in rest : m <= n
      BY <1>3, <2>3
    <3> DEFINE l == IF m <= e THEN m ELSE e
    <3>2. l \in s /\ \A n \in s : l <= n
      <4>1. m \in Int /\ e \in Int /\ \A n \in s : n \in Int /\ (n = e \/ n \in rest)
        BY <2>1
      <4> HIDE DEF e, rest
      <4>2. l \in s
        BY <2>1, <3>1 DEF rest
      <4>3. QED
        BY <3>1, <4>1, <4>2
    <3>3. QED
      BY <3>2
  <2>4. QED
    BY <2>2, <2>3
<1> HIDE DEF pick, Good
<1>4. \A s \in SUBSET S : s \in Good
  BY ONLY IsFiniteSet(S), <1>1, <1>2, <1>3, SubsetInduction
<1>5. QED
  BY <1>4 DEF Good

(* A sum of ones is a number of elements. *)
LEMMA SumOfOnes ==
    ASSUME NEW S, IsFiniteSet(S), NEW f, \A x \in S : f[x] = 1
    PROVE  SumFunctionOnSet(f, S) = Cardinality(S)
<1> DEFINE T == {s \in SUBSET S : SumFunctionOnSet(f, s) # Cardinality(s)}
<1>1. SUFFICES ASSUME T # {}
               PROVE  FALSE
  OBVIOUS
<1>2. PICK s \in T : \A y \in T : y \subseteq s => y = s
  <2>1. T \subseteq SUBSET S
    OBVIOUS
  <2> HIDE DEF T
  <2>2. QED
    BY <1>1, <2>1, MinimalSubset
<1>3. IsFiniteSet(s)
  BY FS_Subset
<1>4. s # {}
  BY SumEmpty, FS_EmptySet
<1>5. Pick(s) \in s
  BY <1>4 DEF Pick
<1>6. SumFunctionOnSet(f, s \ {Pick(s)}) = Cardinality(s \ {Pick(s)})
  BY <1>2, <1>5
<1>7. Cardinality(s) \in Nat /\ Cardinality(s \ {Pick(s)}) = Cardinality(s) - 1
  BY <1>3, <1>5, FS_CardinalityType, FS_RemoveElement
<1>8. SumFunctionOnSet(f, s) = f[Pick(s)] + SumFunctionOnSet(f, s \ {Pick(s)})
  BY <1>3, <1>4, SumRecursion
<1>9. f[Pick(s)] = 1
  BY <1>5
<1>10. QED
  BY <1>6, <1>7, <1>8, <1>9
=============================================================================
