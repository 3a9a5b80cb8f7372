--------------------------- MODULE TracingProofs ----------------------------
(***************************************************************************)
(* Proofs about Tracing, for any number of ranks and threads, any options, *)
(* any nesting of regions and any interleaving of the trace files.         *)
(***************************************************************************)
EXTENDS Tracing, FoldTheorems, SequenceTheorems

(***************************************************************************)
(* The options: Settings folds Apply over the list.                        *)
(***************************************************************************)
Args(l) == {l[i].arg : i \in DOMAIN l}
OpenedFiles(l, r) == {<<a>> : a \in Args(l)} \cup {<<a, r>> : a \in Args(l)}

\* What the settings of a rank may be.
SettingSet(l, r) ==
    [allRanks : BOOLEAN, debug : BOOLEAN, outputDir : Args(l) \cup {"."},
     executable : Args(l) \cup {"self"}, tableSize : {n \in Nat : n >= 2},
     reportStackDepth : 0 .. MaxReportDepth, fullStackDepth : 0 .. MaxDepth,
     calcCOV : BOOLEAN, detail : BOOLEAN, threshold : Args(l) \cup {0},
     enabled : BOOLEAN, fullNames : BOOLEAN, format : {"sci", "float"},
     style : {"verbose", "concise", "both"}, messageCount : Args(l) \cup {-1},
     collective : BOOLEAN, finalReport : BOOLEAN, collStats : BOOLEAN,
     pt2ptStats : BOOLEAN, opened : Seq(OpenedFiles(l, r))]

Tokens(l) == Len(Taken(l))

LEMMA ListFacts ==
    ASSUME NEW l \in OptionLists
    PROVE  /\ Len(l) \in Nat /\ DOMAIN l = 1 .. Len(l)
           /\ Tokens(l) \in 0 .. Len(l)
           /\ DOMAIN Taken(l) = 1 .. Tokens(l)
           /\ \A i \in 1 .. Tokens(l) : Taken(l)[i] = l[i]
           /\ ~Overflow(l) => Tokens(l) = Len(l)
<1> DEFINE R == {l[i] : i \in DOMAIN l}
           n == Smaller(Len(l), MaxTokens - 1)
<1>1. l \in Seq(R)
  BY TracingAssumption
<1> HIDE DEF R
<1>2. Len(l) \in Nat /\ DOMAIN l = 1 .. Len(l) /\ \A i \in 1 .. Len(l) : l[i] \in R
  BY <1>1
<1>3. MaxTokens \in Nat \ {0}
  BY OptionsAssumption
<1>4. n \in 0 .. Len(l) /\ (~Overflow(l) => n = Len(l))
  BY <1>2, <1>3 DEF Smaller, Overflow
<1> HIDE DEF n
<1>5. \A i \in 1 .. n : l[i] \in R
  <2>1. PICK k \in Nat : k = Len(l)
    BY <1>2
  <2>2. n \in 0 .. k
    BY <1>4, <2>1
  <2>3. \A i \in 1 .. n : i \in 1 .. k
    BY <2>2
  <2>4. QED
    BY <1>2, <2>1, <2>3
<1>6. /\ SubSeq(l, 1, n) \in Seq(R)
      /\ Len(SubSeq(l, 1, n)) = IF 1 <= n THEN n - 1 + 1 ELSE 0
      /\ \A i \in 1 .. (n - 1 + 1) : SubSeq(l, 1, n)[i] = l[1 + i - 1]
  BY <1>4, <1>5, SubSeqProperties
<1>7. Taken(l) = SubSeq(l, 1, n)
  BY DEF Taken, n
<1>8. Tokens(l) = n
  BY <1>4, <1>6, <1>7 DEF Tokens
<1>9. DOMAIN Taken(l) = 1 .. n
  BY <1>6, <1>7, <1>8 DEF Tokens
<1>10. \A i \in 1 .. n : Taken(l)[i] = l[i]
  BY <1>4, <1>6, <1>7
<1>11. QED
  BY <1>2, <1>4, <1>8, <1>9, <1>10

LEMMA DefaultsType ==
    ASSUME NEW l, NEW r
    PROVE  /\ Defaults \in SettingSet(l, r)
           /\ Defaults.fullStackDepth = Defaults.reportStackDepth + InternalDepth
           /\ Defaults.opened = <<>> /\ ~Defaults.allRanks
           /\ DefaultStyle = "verbose" => Defaults.reportStackDepth = 1
<1> DEFINE depth == IF DefaultStyle = "concise" THEN 0 ELSE 1
<1>1. /\ depth \in 0 .. MaxReportDepth
      /\ Smaller(depth + InternalDepth, MaxDepth) = depth + InternalDepth
      /\ depth + InternalDepth \in 0 .. MaxDepth
  BY OptionsAssumption DEF Smaller, MaxDepth
<1>2. DefaultStyle \in {"verbose", "concise", "both"}
  BY OptionsAssumption
<1>3. <<>> \in Seq(OpenedFiles(l, r))
  OBVIOUS
<1>4. 256 \in {n \in Nat : n >= 2}
  OBVIOUS
<1>5. Defaults \in SettingSet(l, r)
  BY <1>1, <1>2, <1>3, <1>4 DEF Defaults, SettingSet
<1>6. QED
  BY <1>1, <1>5 DEF Defaults

\* -k, -s and -a.
LEMMA StackDepthType ==
    ASSUME NEW l, NEW r, NEW s \in SettingSet(l, r), NEW n \in Int
    PROVE  /\ StackDepth(s, n) \in SettingSet(l, r)
           /\ StackDepth(s, n).fullStackDepth = StackDepth(s, n).reportStackDepth + InternalDepth
           /\ StackDepth(s, n).reportStackDepth = 0 => ~StackDepth(s, n).calcCOV
<1>1. Depth(n) \in 0 .. MaxReportDepth /\ Depth(n) + InternalDepth \in 0 .. MaxDepth
  BY OptionsAssumption DEF Depth, Smaller, MaxDepth
<1>2. StackDepth(s, n) \in SettingSet(l, r)
  <2>1. PICK d \in BOOLEAN, c \in BOOLEAN, k \in 0 .. MaxReportDepth, m \in 0 .. MaxDepth :
            /\ d = (s.detail /\ n >= 0) /\ c = (s.calcCOV /\ Depth(n) # 0)
            /\ k = Depth(n) /\ m = Depth(n) + InternalDepth
    BY <1>1
  <2> DEFINE t == [s EXCEPT !.reportStackDepth = k, !.fullStackDepth = m]
  <2>2. StackDepth(s, n) = [t EXCEPT !.detail = d, !.calcCOV = c]
    BY <2>1 DEF StackDepth
  <2>3. t \in SettingSet(l, r)
    BY DEF SettingSet
  <2> DEFINE u == [t EXCEPT !.detail = d]
  <2>4. u \in SettingSet(l, r)
    BY <2>3 DEF SettingSet
  <2>5. [u EXCEPT !.calcCOV = c] \in SettingSet(l, r)
    <3> HIDE DEF u
    <3>1. QED
      BY <2>4, ZenonT(40) DEF SettingSet
  <2>6. QED
    BY <2>2, <2>5
<1>3. /\ StackDepth(s, n).fullStackDepth = Depth(n) + InternalDepth
      /\ StackDepth(s, n).reportStackDepth = Depth(n)
      /\ StackDepth(s, n).calcCOV = (s.calcCOV /\ Depth(n) # 0)
  BY DEF StackDepth, SettingSet
<1>4. QED
  BY <1>2, <1>3

LEMMA AppendOpened ==
    ASSUME NEW l, NEW r, NEW s \in SettingSet(l, r), NEW a \in Args(l)
    PROVE  [s EXCEPT !.opened = Append(@, TraceFile(s, a, r))] \in SettingSet(l, r)
<1>1. TraceFile(s, a, r) \in OpenedFiles(l, r)
  BY DEF TraceFile, OpenedFiles
<1>2. s.opened \in Seq(OpenedFiles(l, r))
  BY DEF SettingSet
<1>3. Append(s.opened, TraceFile(s, a, r)) \in Seq(OpenedFiles(l, r))
  BY <1>1, <1>2
<1>4. QED
  BY <1>3 DEF SettingSet

\* What holds of the depths of the stack after any options.
DepthsAgree(s) ==
    /\ s.fullStackDepth = s.reportStackDepth + InternalDepth
    /\ (s.reportStackDepth = 0 /\ DefaultStyle = "verbose") => ~s.calcCOV

LEMMA ApplyType ==
    ASSUME NEW l \in OptionLists, NEW r, NEW s \in SettingSet(l, r), NEW i \in DOMAIN l
    PROVE  /\ Apply(s, l[i], r) \in SettingSet(l, r)
           /\ DepthsAgree(s) => DepthsAgree(Apply(s, l[i], r))
           /\ Apply(s, l[i], r).allRanks = (s.allRanks \/ l[i].flag = "A")
           /\ Apply(s, l[i], r).opened = IF l[i].flag = "a"
                                         THEN Append(s.opened, TraceFile(s, l[i].arg, r))
                                         ELSE s.opened
<1> DEFINE o == l[i]
           goal(t) == /\ t \in SettingSet(l, r)
                      /\ DepthsAgree(s) => DepthsAgree(t)
                      /\ t.allRanks = (s.allRanks \/ o.flag = "A")
                      /\ t.opened = IF o.flag = "a"
                                    THEN Append(s.opened, TraceFile(s, o.arg, r))
                                    ELSE s.opened
<1>1. o.arg \in Args(l)
  BY DEF Args
<1>2. o.flag \in {"s", "k"} => o.arg \in Int
  BY TracingAssumption
<1> HIDE DEF o
<1>3. CASE o.flag = "k"
  <2>1. Apply(s, o, r) = StackDepth(s, o.arg)
    BY <1>3 DEF Apply
  <2>2. goal(StackDepth(s, o.arg))
    <3>1. /\ StackDepth(s, o.arg).allRanks = s.allRanks
          /\ StackDepth(s, o.arg).opened = s.opened
      BY DEF StackDepth, SettingSet
    <3>2. /\ StackDepth(s, o.arg) \in SettingSet(l, r)
          /\ DepthsAgree(StackDepth(s, o.arg))
      BY <1>2, <1>3, StackDepthType DEF DepthsAgree
    <3>3. s.allRanks \in BOOLEAN
      BY DEF SettingSet
    <3>4. QED
      BY <1>3, <3>1, <3>2, <3>3
  <2>3. QED
    BY <2>1, <2>2 DEF o
<1>4. CASE o.flag = "a"
  <2>1. Apply(s, o, r) = [s EXCEPT !.opened = Append(@, TraceFile(s, o.arg, r))]
    BY <1>4 DEF Apply
  <2>2. goal([s EXCEPT !.opened = Append(@, TraceFile(s, o.arg, r))])
    BY <1>1, <1>4, AppendOpened DEF DepthsAgree, SettingSet
  <2>3. QED
    BY <2>1, <2>2 DEF o
<1>5. CASE o.flag = "A"
  <2>1. Apply(s, o, r) = [s EXCEPT !.allRanks = TRUE]
    BY <1>5 DEF Apply
  <2>2. goal([s EXCEPT !.allRanks = TRUE])
    BY <1>5 DEF DepthsAgree, SettingSet
  <2>3. QED
    BY <2>1, <2>2 DEF o
<1>6. CASE o.flag = "s"
  <2>1. TableSize(s, o.arg) \in {n \in Nat : n >= 2}
    BY <1>2, <1>6 DEF TableSize, SettingSet
  <2>2. Apply(s, o, r) = [s EXCEPT !.tableSize = TableSize(s, o.arg)]
    BY <1>6 DEF Apply
  <2>3. goal([s EXCEPT !.tableSize = TableSize(s, o.arg)])
    BY <2>1, <1>6 DEF DepthsAgree, SettingSet
  <2>4. QED
    BY <2>2, <2>3 DEF o
<1>7. CASE o.flag = "f"
  BY <1>1, <1>7 DEF Apply, DepthsAgree, SettingSet, o
<1>8. CASE o.flag = "g"
  <2>1. Apply(s, o, r) = [s EXCEPT !.debug = TRUE]
    BY <1>8 DEF Apply
  <2>2. goal([s EXCEPT !.debug = TRUE])
    BY <1>8 DEF DepthsAgree, SettingSet
  <2>3. QED
    BY <2>1, <2>2 DEF o
<1>9. CASE o.flag = "t"
  BY <1>1, <1>9 DEF Apply, DepthsAgree, SettingSet, Threshold, o
<1>10. CASE o.flag = "o"
  <2>1. PICK b \in BOOLEAN : b = FALSE
    OBVIOUS
  <2>2. Apply(s, o, r) = [s EXCEPT !.enabled = b]
    BY <1>10, <2>1 DEF Apply
  <2>3. goal([s EXCEPT !.enabled = b])
    BY <1>10 DEF DepthsAgree, SettingSet
  <2>4. QED
    BY <2>2, <2>3 DEF o
<1>11. CASE o.flag = "n"
  <2>1. Apply(s, o, r) = [s EXCEPT !.fullNames = TRUE]
    BY <1>11 DEF Apply
  <2>2. goal([s EXCEPT !.fullNames = TRUE])
    BY <1>11 DEF DepthsAgree, SettingSet
  <2>3. QED
    BY <2>1, <2>2 DEF o
<1>12. CASE o.flag = "e"
  BY <1>12 DEF Apply, DepthsAgree, SettingSet, o
<1>13. CASE o.flag = "c"
  BY <1>13 DEF Apply, DepthsAgree, SettingSet, o
<1>14. CASE o.flag = "v"
  BY <1>14 DEF Apply, DepthsAgree, SettingSet, o
<1>15. CASE o.flag = "m"
  BY <1>1, <1>15 DEF Apply, DepthsAgree, SettingSet, o
<1>16. CASE o.flag = "x"
  BY <1>1, <1>16 DEF Apply, DepthsAgree, SettingSet, o
<1>17. CASE o.flag = "d"
  <2>1. PICK d \in BOOLEAN : d = ~s.detail
    OBVIOUS
  <2>2. Apply(s, o, r) = [s EXCEPT !.detail = d]
    BY <1>17, <2>1 DEF Apply
  <2>3. goal([s EXCEPT !.detail = d])
    BY <1>17 DEF DepthsAgree, SettingSet
  <2>4. QED
    BY <2>2, <2>3 DEF o
<1>18. CASE o.flag = "l"
  <2>1. Apply(s, o, r) = [s EXCEPT !.collective = TRUE]
    BY <1>18 DEF Apply
  <2>2. goal([s EXCEPT !.collective = TRUE])
    BY <1>18 DEF DepthsAgree, SettingSet
  <2>3. QED
    BY <2>1, <2>2 DEF o
<1>19. CASE o.flag = "r"
  <2>1. PICK b \in BOOLEAN : b = FALSE
    OBVIOUS
  <2>2. Apply(s, o, r) = [s EXCEPT !.collective = b]
    BY <1>19, <2>1 DEF Apply
  <2>3. goal([s EXCEPT !.collective = b])
    BY <1>19 DEF DepthsAgree, SettingSet
  <2>4. QED
    BY <2>2, <2>3 DEF o
<1>20. CASE o.flag = "z"
  <2>1. PICK b \in BOOLEAN : b = FALSE
    OBVIOUS
  <2>2. Apply(s, o, r) = [s EXCEPT !.finalReport = b]
    BY <1>20, <2>1 DEF Apply
  <2>3. goal([s EXCEPT !.finalReport = b])
    BY <1>20 DEF DepthsAgree, SettingSet
  <2>4. QED
    BY <2>2, <2>3 DEF o
<1>21. CASE o.flag = "y"
  <2>1. Apply(s, o, r) = [s EXCEPT !.collStats = TRUE]
    BY <1>21 DEF Apply
  <2>2. goal([s EXCEPT !.collStats = TRUE])
    BY <1>21 DEF DepthsAgree, SettingSet
  <2>3. QED
    BY <2>1, <2>2 DEF o
<1>22. CASE o.flag = "p"
  <2>1. Apply(s, o, r) = [s EXCEPT !.pt2ptStats = TRUE]
    BY <1>22 DEF Apply
  <2>2. goal([s EXCEPT !.pt2ptStats = TRUE])
    BY <1>22 DEF DepthsAgree, SettingSet
  <2>3. QED
    BY <2>1, <2>2 DEF o
<1>23. CASE o.flag \notin {"A", "a", "f", "g", "s", "k", "t", "o", "n", "e", "c", "v",
                           "m", "x", "d", "l", "r", "z", "y", "p"}
  <2>1. Apply(s, o, r) = s
    BY <1>23 DEF Apply
  <2>2. goal(s)
    BY <1>23 DEF DepthsAgree, SettingSet
  <2>3. QED
    BY <2>1, <2>2 DEF o
<1>24. QED
  BY <1>3, <1>4, <1>5, <1>6, <1>7, <1>8, <1>9, <1>10, <1>11, <1>12, <1>13, <1>14,
     <1>15, <1>16, <1>17, <1>18, <1>19, <1>20, <1>21, <1>22, <1>23
\* The steps of the fold, one option after the other.
OptionSteps(step, l, r) ==
    /\ step[0] = Defaults
    /\ \A k \in 1 .. Tokens(l) : step[k] = Apply(step[k - 1], l[k], r)
    /\ Settings(l, r) = step[Tokens(l)]

LEMMA SettingsFold ==
    ASSUME NEW l \in OptionLists, NEW r
    PROVE  \E step : OptionSteps(step, l, r)
<1> DEFINE n == Tokens(l)
           D == DOMAIN Taken(l)
           IsFold(f) == f = [s \in SUBSET D |->
                               IF s = {} THEN Defaults
                               ELSE Apply(f[s \ {Max(s)}], Taken(l)[Max(s)], r)]
           pick == [s \in SUBSET D |-> Max(s)]
           Y == SettingSet(l, r)
           act == [i \in D |-> [y \in Y |-> Apply(y, Taken(l)[i], r)]]
<1>1. n \in Nat /\ D = 1 .. n /\ \A i \in D : Taken(l)[i] = l[i] /\ i \in DOMAIN l
  BY ListFacts
<1>2. IsFiniteSet(D)
  BY <1>1, FS_Interval
<1>3. ASSUME NEW s \in SUBSET D, s # {}
      PROVE  Max(s) \in s /\ \A x \in s : Max(s) >= x
  BY <1>1, <1>3, GreatestNumber DEF Max
<1>4. \A s \in SUBSET D : s # {} => pick[s] \in s
  BY <1>3
<1>5. Defaults \in Y
  BY DefaultsType
<1>6. \A i \in D, y \in Y : act[i][y] \in Y /\ act[i][y] = Apply(y, Taken(l)[i], r)
  BY <1>1, ApplyType
<1> HIDE DEF act, Y
<1>7. PICK f : FoldOf(f, D, Defaults, pick, act)
  <2> HIDE DEF D, pick
  <2>1. QED
    BY <1>2, <1>4, FoldExists
<1>8. \A s \in SUBSET D : f[s] \in Y
  <2> HIDE DEF D, pick
  <2>1. QED
    BY <1>2, <1>4, <1>5, <1>6, <1>7, FoldType
<1>9. IsFold(f)
  <2>1. ASSUME NEW s \in SUBSET D
        PROVE  f[s] = IF s = {} THEN Defaults ELSE Apply(f[s \ {Max(s)}], Taken(l)[Max(s)], r)
    <3>1. CASE s = {}
      BY <1>7, <3>1 DEF FoldOf
    <3>2. CASE s # {}
      <4>1. f[s] = act[pick[s]][f[s \ {pick[s]}]]
        BY <1>7, <3>2 DEF FoldOf
      <4>2. pick[s] = Max(s) /\ Max(s) \in D /\ f[s \ {Max(s)}] \in Y
        BY <1>3, <1>8, <3>2
      <4>3. QED
        BY <4>1, <4>2, <1>6, <3>2
    <3>3. QED
      BY <3>1, <3>2
  <2>2. f = [s \in SUBSET D |-> f[s]]
    BY <1>7 DEF FoldOf
  <2>3. QED
    BY <2>1, <2>2
<1> DEFINE fold == CHOOSE g : IsFold(g)
<1>10. IsFold(fold)
  <2> HIDE DEF IsFold
  <2>1. QED
    BY <1>9
<1>11. Settings(l, r) = fold[D]
  BY DEF Settings, FoldLeft, MapThenFoldSet
<1> HIDE DEF fold
<1> DEFINE step == [k \in 0 .. n |-> fold[1 .. k]]
<1>12. step[0] = Defaults
  <2>1. 1 .. 0 = {} /\ 0 \in 0 .. n
    BY <1>1
  <2>2. fold[{}] = Defaults
    BY <1>10
  <2>3. QED
    BY <2>1, <2>2
<1>13. ASSUME NEW k \in 1 .. n
       PROVE  step[k] = Apply(step[k - 1], l[k], r)
  <2>1. 1 .. k \in SUBSET D /\ 1 .. k # {} /\ k \in 1 .. k
    BY <1>1
  <2>2. Max(1 .. k) \in 1 .. k /\ \A x \in 1 .. k : Max(1 .. k) >= x
    BY <2>1, <1>3
  <2>3. Max(1 .. k) = k
    BY <2>1, <2>2
  <2>4. (1 .. k) \ {k} = 1 .. (k - 1)
    OBVIOUS
  <2>5. fold[1 .. k] = Apply(fold[1 .. (k - 1)], Taken(l)[k], r)
    BY <2>1, <2>3, <2>4, <1>10
  <2>6. k \in 0 .. n /\ k - 1 \in 0 .. n /\ Taken(l)[k] = l[k]
    BY <1>1
  <2>7. QED
    BY <2>5, <2>6
<1>14. Settings(l, r) = step[n]
  BY <1>1, <1>11
<1> HIDE DEF step
<1>15. QED
  BY <1>12, <1>13, <1>14 DEF OptionSteps

\* The settings after any number of options, by the least number for which
\* they would not be as they should.
SettledAfter(s, l, r, k) ==
    /\ s \in SettingSet(l, r)
    /\ DepthsAgree(s)
    /\ s.allRanks <=> \E i \in 1 .. k : l[i].flag = "A"
    /\ s.opened = <<>> <=> \A i \in 1 .. k : l[i].flag # "a"
    /\ \A i \in 1 .. k : (l[i].flag = "a" /\ \A j \in (i + 1) .. k : l[j].flag # "a") =>
          Last(s.opened) = IF \E j \in 1 .. (i - 1) : l[j].flag = "A"
                           THEN <<l[i].arg, r>> ELSE <<l[i].arg>>

LEMMA SettingsAfter ==
    ASSUME NEW l \in OptionLists, NEW r
    PROVE  SettledAfter(Settings(l, r), l, r, Tokens(l))
<1>1. PICK step : OptionSteps(step, l, r)
  BY SettingsFold
<1> DEFINE n == Tokens(l)
           T == {k \in 0 .. n : ~SettledAfter(step[k], l, r, k)}
<1>2. n \in Nat /\ \A i \in 1 .. n : i \in DOMAIN l
  BY ListFacts
<1>3. SUFFICES ASSUME T # {}
               PROVE  FALSE
  BY <1>1, <1>2 DEF OptionSteps
<1>4. PICK k \in T : \A x \in T : k <= x
  <2>1. T \subseteq Nat
    OBVIOUS
  <2> HIDE DEF T
  <2>2. QED
    BY <1>3, <2>1, LeastNumber
<1>5. k # 0
  <2>1. SettledAfter(Defaults, l, r, 0)
    BY DefaultsType DEF SettledAfter, DepthsAgree
  <2>2. QED
    BY <1>1, <2>1 DEF OptionSteps
<1>6. k \in 1 .. n /\ k - 1 \in 0 .. n /\ k - 1 \notin T
  BY <1>2, <1>4, <1>5
<1> DEFINE s == step[k - 1]
           t == step[k]
<1>7. SettledAfter(s, l, r, k - 1)
  BY <1>6
<1>8. t = Apply(s, l[k], r)
  BY <1>1, <1>6 DEF OptionSteps
<1>9. k \in DOMAIN l /\ s \in SettingSet(l, r)
  BY <1>2, <1>6, <1>7 DEF SettledAfter
<1>10. /\ t \in SettingSet(l, r)
       /\ DepthsAgree(s) => DepthsAgree(t)
       /\ t.allRanks = (s.allRanks \/ l[k].flag = "A")
       /\ t.opened = IF l[k].flag = "a" THEN Append(s.opened, TraceFile(s, l[k].arg, r))
                     ELSE s.opened
  BY <1>8, <1>9, ApplyType
<1> HIDE DEF s, t, T
<1>11. \A i \in 1 .. k : i \in 1 .. (k - 1) \/ i = k
  BY <1>6
<1>12. SettledAfter(t, l, r, k)
  <2>1. t.allRanks <=> \E i \in 1 .. k : l[i].flag = "A"
    <3>1. s.allRanks <=> \E i \in 1 .. (k - 1) : l[i].flag = "A"
      BY <1>7 DEF SettledAfter
    <3>2. k \in 1 .. k /\ \A i \in 1 .. (k - 1) : i \in 1 .. k
      BY <1>6
    <3>3. QED
      BY <3>1, <3>2, <1>10, <1>11
  <2>2. CASE l[k].flag = "a"
    <3>1. s.opened \in Seq(OpenedFiles(l, r))
      BY <1>9 DEF SettingSet
    <3>2. t.opened = Append(s.opened, TraceFile(s, l[k].arg, r))
      BY <1>10, <2>2
    <3>3. TraceFile(s, l[k].arg, r) \in OpenedFiles(l, r)
      BY <1>9 DEF TraceFile, OpenedFiles, Args
    <3>4. t.opened # <<>> /\ Last(t.opened) = TraceFile(s, l[k].arg, r)
      BY <3>1, <3>2, <3>3 DEF Last
    <3>5. ASSUME NEW i \in 1 .. k, \A j \in (i + 1) .. k : l[j].flag # "a"
          PROVE  i = k
      <4>1. CASE i \in 1 .. (k - 1)
        <5>1. k \in (i + 1) .. k
          BY <1>6, <4>1
        <5>2. QED
          BY <5>1, <2>2, <3>5
      <4>2. QED
        BY <1>11, <4>1
    <3>6. TraceFile(s, l[k].arg, r) = IF \E j \in 1 .. (k - 1) : l[j].flag = "A"
                                      THEN <<l[k].arg, r>> ELSE <<l[k].arg>>
      BY <1>7 DEF SettledAfter, TraceFile
    <3>7. k \in 1 .. k
      BY <1>6
    <3>8. QED
      BY <2>1, <2>2, <3>4, <3>5, <3>6, <3>7, <1>7, <1>10 DEF SettledAfter
  <2>3. CASE l[k].flag # "a"
    <3>1. t.opened = s.opened
      BY <1>10, <2>3
    <3>2. \A i \in 1 .. (k - 1) : i \in 1 .. k
      BY <1>6
    <3>3. s.opened = <<>> <=> \A i \in 1 .. (k - 1) : l[i].flag # "a"
      BY <1>7 DEF SettledAfter
    <3>4. t.opened = <<>> <=> \A i \in 1 .. k : l[i].flag # "a"
      BY <1>11, <2>3, <3>1, <3>2, <3>3
    <3>5. ASSUME NEW i \in 1 .. k, l[i].flag = "a", \A j \in (i + 1) .. k : l[j].flag # "a"
          PROVE  Last(t.opened) = IF \E j \in 1 .. (i - 1) : l[j].flag = "A"
                                  THEN <<l[i].arg, r>> ELSE <<l[i].arg>>
      <4>1. i \in 1 .. (k - 1)
        BY <1>11, <2>3, <3>5
      <4>2. \A j \in (i + 1) .. (k - 1) : l[j].flag # "a"
        <5>1. \A j \in (i + 1) .. (k - 1) : j \in (i + 1) .. k
          BY <1>6, <4>1
        <5>2. QED
          BY <5>1, <3>5
      <4>3. QED
        BY <4>1, <4>2, <3>1, <3>5, <1>7 DEF SettledAfter
    <3>6. QED
      BY <2>1, <3>4, <3>5, <1>7, <1>10 DEF SettledAfter
  <2>4. QED
    BY <2>2, <2>3
<1>13. QED
  BY <1>4, <1>12 DEF T, t
-----------------------------------------------------------------------------
(***************************************************************************)
(* The inductive invariant.                                                *)
(***************************************************************************)
NamesUsed == DOMAIN Names
Parts == [name : NamesUsed \cup {NoName}, len : Int]
Lines == [no : Nat, thread : Threads, region : Seq(Parts), nest : Seq(NamesUsed)]
Entries == {Header, Hole} \cup Lines
AllFiles == Files \cup {<<>>} \cup UNION {UNION {OpenedFiles(l, r) : l \in OptionLists} : r \in Ranks}
Handles == [file : AllFiles, pos : Nat, buffer : Seq(Entries),
            closed : BOOLEAN, flushed : BOOLEAN]

SettingTypes ==
    /\ options \in OptionLists
    /\ status \in [Ranks -> {"start", "run", "exited", "wild"}]
    /\ setting = [r \in Ranks |-> IF status[r] = "start" THEN Defaults
                                  ELSE Settings(options, r)]

FileTypes ==
    /\ disk \in [Files -> Seq(Entries)]
    /\ handle \in [Ranks -> Handles]
    /\ lines \in [Ranks -> Seq(Lines)]
    /\ cut \subseteq Ranks

Printings == [thread : Threads, torn : BOOLEAN, nest : Seq(NamesUsed)]

RegionTypes ==
    /\ region \in [Ranks -> Seq(Parts)]
    /\ entering \in [Ranks -> {<<>>} \cup {<<n>> : n \in NamesUsed}]
    /\ nest \in [Ranks -> Seq(NamesUsed)]
    /\ fit \in [Ranks -> BOOLEAN]

Types ==
    /\ SettingTypes /\ FileTypes /\ RegionTypes
    /\ printing \in [Ranks -> SUBSET Printings]
    /\ stack \in [Ranks -> [kept : Int, last : Int]]

(* A traceback writes no further than what was asked for. *)
StackInv ==
    \A r \in Ranks :
        /\ stack[r].kept <= setting[r].fullStackDepth
        /\ stack[r].last <= setting[r].fullStackDepth
        /\ status[r] = "start" => stack[r] = [kept |-> 0, last |-> -1]

(* The names that are copied, without what is being written. *)
Settled(parts) == IF parts # <<>> /\ Last(parts) = Coming THEN Front(parts) ELSE parts

(* While Main copies a name only the last one is missing. *)
RegionInv ==
    \A r \in Ranks :
        /\ entering[r] # <<>> => region[r] # <<>> /\ Last(region[r]) = Coming
        /\ \A i \in 1 .. Len(region[r]) :
              (i < Len(region[r]) \/ entering[r] = <<>>) => region[r][i].name # NoName
        /\ fit[r] => Path(Settled(region[r])) = nest[r]

(* A line that is printed and not torn is of the regions Main still is in. *)
PrintOf(r, p) ==
    /\ status[r] # "start" /\ Traced(r)
    /\ ~p.torn => entering[r] = <<>> /\ (fit[r] => p.nest = nest[r])
    /\ p.thread = Main => ~p.torn
PrintInv == \A r \in Ranks : \A p \in printing[r] : PrintOf(r, p)

Stdout(r) == <<"stdout", "rank", r>>
OwnOpened(r) == Settings(options, r).opened

(* What is written and what is buffered make up what is expected. *)
HandleOf(r) ==
    /\ status[r] = "start" =>
          handle[r] = NoFile /\ lines[r] = <<>> /\ disk[Stdout(r)] = <<>>
    /\ status[r] \in {"run", "exited"} =>
          /\ ~Overflow(options)
          /\ handle[r].file = IF OwnOpened(r) = <<>> THEN Stdout(r) ELSE Last(OwnOpened(r))
          /\ handle[r].pos + Len(handle[r].buffer) = Len(Expected(r))
          /\ \A i \in 1 .. Len(handle[r].buffer) :
                handle[r].buffer[i] = Expected(r)[handle[r].pos + i]
          /\ ~handle[r].flushed => handle[r].pos = 0
          /\ ~Traced(r) => lines[r] = <<>>
HandleInv == \A r \in Ranks : HandleOf(r)

(* What is written is on the disk, and nothing behind it. *)
DiskOf(r) ==
    (status[r] \in {"run", "exited"} /\ OwnFile(r) /\ r \notin cut) =>
        LET d == disk[handle[r].file] IN
        /\ handle[r].pos <= Len(d) /\ Len(d) <= Len(Expected(r))
        /\ \A i \in 1 .. handle[r].pos : d[i] = Expected(r)[i]
DiskInv == \A r \in Ranks : DiskOf(r)

Inv ==
    /\ Types /\ StackInv /\ RegionInv /\ PrintInv /\ RegionsTraced
    /\ HandleInv /\ DiskInv
-----------------------------------------------------------------------------
(***************************************************************************)
(* Sequences, paths and the writes of stdio.                               *)
(***************************************************************************)
LEMMA FrontFacts ==
    ASSUME NEW S, NEW s \in Seq(S)
    PROVE  /\ Front(s) \in Seq(S)
           /\ s # <<>> => /\ Len(s) \in Nat \ {0} /\ Len(Front(s)) = Len(s) - 1
                          /\ Last(s) \in S
                          /\ \A i \in 1 .. Len(s) - 1 : Front(s)[i] = s[i]
<1>1. PICK k \in Nat : k = Len(s)
  OBVIOUS
<1>2. \A i \in 1 .. k - 1 : i \in 1 .. k
  OBVIOUS
<1>3. \A i \in 1 .. k - 1 : s[i] \in S
  BY <1>1, <1>2, ElementOfSeq
<1>4. /\ SubSeq(s, 1, k - 1) \in Seq(S)
      /\ Len(SubSeq(s, 1, k - 1)) = IF 1 <= k - 1 THEN (k - 1) - 1 + 1 ELSE 0
      /\ \A i \in 1 .. (k - 1) - 1 + 1 : SubSeq(s, 1, k - 1)[i] = s[1 + i - 1]
  BY <1>1, <1>3, SubSeqProperties
<1>5. Front(s) = SubSeq(s, 1, k - 1)
  BY <1>1 DEF Front
<1>6. ASSUME s # <<>>
      PROVE  /\ k # 0 /\ Len(Front(s)) = k - 1 /\ Last(s) \in S
             /\ \A i \in 1 .. k - 1 : Front(s)[i] = s[i]
  <2>1. k # 0
    BY <1>1, <1>6, EmptySeq
  <2>2. Last(s) \in S
    BY <1>1, <2>1, ElementOfSeq DEF Last
  <2>3. Len(Front(s)) = k - 1
    BY <1>1, <1>4, <1>5, <2>1
  <2>4. \A i \in 1 .. k - 1 : Front(s)[i] = s[i]
    BY <1>4, <1>5
  <2>5. QED
    BY <2>1, <2>2, <2>3, <2>4
<1>7. QED
  BY <1>1, <1>4, <1>5, <1>6

Words == NamesUsed \cup {NoName}

LEMMA PathType ==
    ASSUME NEW p \in Seq(Parts)
    PROVE  /\ Path(p) \in Seq(Words)
           /\ Len(p) \in Nat /\ Len(Path(p)) = Len(p)
           /\ \A i \in 1 .. Len(p) : Path(p)[i] = p[i].name
<1>1. PICK k \in Nat : k = Len(p) /\ DOMAIN p = 1 .. k
  OBVIOUS
<1>2. \A i \in 1 .. k : p[i] \in Parts
  BY <1>1, ElementOfSeq
<1>3. Path(p) = [i \in 1 .. k |-> p[i].name]
  BY <1>1 DEF Path
<1>4. Path(p) \in [1 .. k -> Words]
  BY <1>2, <1>3 DEF Parts, Words
<1>5. Path(p) \in Seq(Words) /\ Len(Path(p)) = k
  BY <1>3, <1>4
<1>6. QED
  BY <1>1, <1>3, <1>5

LEMMA PathAppend ==
    ASSUME NEW p \in Seq(Parts), NEW e \in Parts
    PROVE  Path(Append(p, e)) = Append(Path(p), e.name)
<1> DEFINE S == Words
           a == Path(Append(p, e))
           b == Append(Path(p), e.name)
<1>1. e.name \in S
  BY DEF Parts, Words
<1>2. /\ Append(p, e) \in Seq(Parts) /\ Len(Append(p, e)) = Len(p) + 1
      /\ \A i \in 1 .. Len(p) : Append(p, e)[i] = p[i]
      /\ Append(p, e)[Len(p) + 1] = e
  BY AppendProperties
<1>3. PICK k \in Nat : k = Len(p)
  OBVIOUS
<1>4. a \in Seq(S) /\ Len(a) = k + 1 /\ \A i \in 1 .. k + 1 : a[i] = Append(p, e)[i].name
  BY <1>2, <1>3, PathType
<1>5. Path(p) \in Seq(S) /\ Len(Path(p)) = k /\ \A i \in 1 .. k : Path(p)[i] = p[i].name
  BY <1>3, PathType
<1>6. /\ b \in Seq(S) /\ Len(b) = k + 1
      /\ \A i \in 1 .. k : b[i] = Path(p)[i]
      /\ b[k + 1] = e.name
  BY <1>1, <1>5, AppendProperties
<1> HIDE DEF a, b
<1>7. ASSUME NEW i \in 1 .. k + 1
      PROVE  a[i] = b[i]
  <2>1. CASE i = k + 1
    BY <1>2, <1>3, <1>4, <1>6, <2>1
  <2>2. CASE i \in 1 .. k
    BY <1>2, <1>3, <1>4, <1>5, <1>6, <2>2
  <2>3. QED
    BY <2>1, <2>2
<1>8. a = b
  BY <1>4, <1>6, <1>7, SeqEqual
<1>9. QED
  BY <1>8 DEF a, b

LEMMA PathFront ==
    ASSUME NEW p \in Seq(Parts), p # <<>>
    PROVE  Path(Front(p)) = Front(Path(p))
<1> DEFINE S == Words
           a == Path(Front(p))
           b == Front(Path(p))
<1>1. PICK k \in Nat : k = Len(p) /\ k # 0
  BY FrontFacts
<1>2. /\ Front(p) \in Seq(Parts) /\ Len(Front(p)) = k - 1
      /\ \A i \in 1 .. k - 1 : Front(p)[i] = p[i]
  BY <1>1, FrontFacts
<1>3. a \in Seq(S) /\ Len(a) = k - 1 /\ \A i \in 1 .. k - 1 : a[i] = Front(p)[i].name
  BY <1>2, PathType
<1>4. Path(p) \in Seq(S) /\ Len(Path(p)) = k /\ \A i \in 1 .. k : Path(p)[i] = p[i].name
  BY <1>1, PathType
<1>5. Path(p) # <<>>
  BY <1>1, <1>4, EmptySeq
<1>6. b \in Seq(S) /\ Len(b) = k - 1 /\ \A i \in 1 .. k - 1 : b[i] = Path(p)[i]
  BY <1>4, <1>5, FrontFacts
<1> HIDE DEF a, b
<1>7. \A i \in 1 .. k - 1 : a[i] = b[i]
  <2>1. \A i \in 1 .. k - 1 : i \in 1 .. k
    OBVIOUS
  <2>2. QED
    BY <2>1, <1>2, <1>3, <1>4, <1>6
<1>8. a = b
  BY <1>3, <1>6, <1>7, SeqEqual
<1>9. QED
  BY <1>8 DEF a, b

\* What is being written is unlike any part with a name.
LEMMA SettledPath ==
    ASSUME NEW p \in Seq(Parts), \A i \in 1 .. Len(p) : p[i].name # NoName
    PROVE  Settled(p) = p
<1>1. CASE p = <<>>
  BY <1>1 DEF Settled
<1>2. CASE p # <<>>
  <2>1. PICK k \in Nat : k = Len(p) /\ k # 0
    BY <1>2, FrontFacts
  <2>2. Last(p).name # NoName
    <3>1. k \in 1 .. Len(p)
      BY <2>1
    <3>2. p[k].name # NoName
      BY <3>1
    <3>3. QED
      BY <2>1, <3>2 DEF Last
  <2>3. QED
    BY <2>2 DEF Settled, Coming, Part
<1>3. QED
  BY <1>1, <1>2

LEMMA ComingAppended ==
    ASSUME NEW p \in Seq(Parts)
    PROVE  /\ Append(p, Coming) \in Seq(Parts)
           /\ Last(Append(p, Coming)) = Coming /\ Append(p, Coming) # <<>>
           /\ Front(Append(p, Coming)) = p
           /\ Settled(Append(p, Coming)) = p
<1>1. Coming \in Parts
  BY DEF Coming, Part, Parts
<1> DEFINE a == Append(p, Coming)
<1>2. /\ a \in Seq(Parts) /\ a # <<>> /\ Len(a) = Len(p) + 1
      /\ \A i \in 1 .. Len(p) : a[i] = p[i]
      /\ a[Len(p) + 1] = Coming
  BY <1>1, AppendProperties
<1> HIDE DEF a
<1>3. PICK k \in Nat : k = Len(p)
  OBVIOUS
<1>4. Last(a) = Coming
  BY <1>2 DEF Last
<1>5. Front(a) \in Seq(Parts) /\ Len(Front(a)) = k /\ \A i \in 1 .. k : Front(a)[i] = a[i]
  BY <1>2, <1>3, FrontFacts
<1>6. Front(a) = p
  BY <1>2, <1>3, <1>5, SeqEqual
<1>7. Settled(a) = p
  BY <1>2, <1>4, <1>6 DEF Settled
<1>8. QED
  BY <1>2, <1>4, <1>6, <1>7 DEF a

LEMMA LengthType ==
    ASSUME NEW p \in Seq(Parts)
    PROVE  Length(p) \in Int
<1>1. PICK k \in Nat : k = Len(p) /\ DOMAIN p = 1 .. k
  OBVIOUS
<1> DEFINE f == [i \in DOMAIN p |-> p[i].len]
<1>2. IsFiniteSet(DOMAIN p)
  BY <1>1, FS_Interval
<1>3. \A i \in DOMAIN p : f[i] \in Int
  <2>1. \A i \in 1 .. k : p[i] \in Parts
    BY <1>1, ElementOfSeq
  <2>2. \A i \in 1 .. k : p[i].len \in Int
    BY <2>1 DEF Parts
  <2>3. QED
    BY <1>1, <2>2
<1>4. SumFunctionOnSet(f, DOMAIN p) \in Int
  <2> HIDE DEF f
  <2>1. QED
    BY <1>2, <1>3, SumInt
<1> HIDE DEF f
<1>5. Length(p) = SumFunctionOnSet(f, DOMAIN p) + (IF p = <<>> THEN 0 ELSE k - 1)
  BY <1>1 DEF Length, f
<1>6. QED
  BY <1>4, <1>5

LEMMA WrittenFacts ==
    ASSUME NEW S, Hole \in S, NEW d \in Seq(S), NEW pos \in Nat, NEW b \in Seq(S)
    PROVE  /\ Written(d, pos, b) \in Seq(S)
           /\ Len(Written(d, pos, b)) = IF b # <<>> /\ pos + Len(b) > Len(d)
                                        THEN pos + Len(b) ELSE Len(d)
           /\ \A i \in 1 .. Len(Written(d, pos, b)) :
                Written(d, pos, b)[i] =
                    IF i > pos /\ i <= pos + Len(b) THEN b[i - pos]
                    ELSE IF i <= Len(d) THEN d[i] ELSE Hole
<1>1. PICK m \in Nat, n \in Nat : m = Len(d) /\ n = Len(b)
  OBVIOUS
<1> DEFINE k == IF b # <<>> /\ pos + n > m THEN pos + n ELSE m
           e(i) == IF i > pos /\ i <= pos + n THEN b[i - pos]
                   ELSE IF i <= m THEN d[i] ELSE Hole
<1>2. k \in Nat
  BY <1>1
<1>3. Written(d, pos, b) = [i \in 1 .. k |-> e(i)]
  BY <1>1 DEF Written
<1>4. ASSUME NEW i \in 1 .. k
      PROVE  e(i) \in S
  <2>1. \A j \in 1 .. n : b[j] \in S
    BY <1>1, ElementOfSeq
  <2>2. \A j \in 1 .. m : d[j] \in S
    BY <1>1, ElementOfSeq
  <2>3. i > pos /\ i <= pos + n => i - pos \in 1 .. n
    BY <1>2, <1>4
  <2>4. i <= m => i \in 1 .. m
    BY <1>2, <1>4
  <2>5. QED
    BY <2>1, <2>2, <2>3, <2>4
<1> HIDE DEF k, e
<1>5. [i \in 1 .. k |-> e(i)] \in [1 .. k -> S]
  BY <1>4
<1>6. Written(d, pos, b) \in Seq(S) /\ Len(Written(d, pos, b)) = k
  BY <1>2, <1>3, <1>5
<1>7. \A i \in 1 .. k : Written(d, pos, b)[i] = e(i)
  BY <1>3
<1>8. QED
  BY <1>1, <1>6, <1>7 DEF k, e-----------------------------------------------------------------------------
(***************************************************************************)
(* The trace file of a rank: which it is, and which ranks share one.       *)
(***************************************************************************)
TraceFileOf(l, r) == IF Settings(l, r).opened = <<>> THEN Stdout(r) ELSE Last(Settings(l, r).opened)

Flagged(l, flag) == {i \in DOMAIN l : l[i].flag = flag}

LEMMA SettingsFacts ==
    ASSUME NEW l \in OptionLists, NEW r
    PROVE  /\ Settings(l, r) \in SettingSet(l, r)
           /\ DepthsAgree(Settings(l, r))
           /\ Settings(l, r).opened \in Seq(OpenedFiles(l, r))
BY SettingsAfter DEF SettledAfter, SettingSet

\* The last option of a kind.
LEMMA LastFlagged ==
    ASSUME NEW l \in OptionLists, NEW flag, Flagged(l, flag) # {}
    PROVE  \E i \in Flagged(l, flag) : \A j \in Flagged(l, flag) : j <= i
<1>1. PICK k \in Nat : k = Len(l) /\ DOMAIN l = 1 .. k
  BY ListFacts
<1>2. Flagged(l, flag) \subseteq 1 .. k
  BY <1>1 DEF Flagged
<1>3. PICK i \in Flagged(l, flag) : \A j \in Flagged(l, flag) : i >= j
  BY <1>2, GreatestNumber
<1>4. QED
  BY <1>2, <1>3

LEMMA OpenedBy ==
    ASSUME NEW l \in OptionLists, ~Overflow(l), NEW r
    PROVE  /\ Settings(l, r).allRanks <=> Flagged(l, "A") # {}
           /\ Settings(l, r).opened = <<>> <=> Flagged(l, "a") = {}
           /\ \A i \in Flagged(l, "a") : (\A j \in Flagged(l, "a") : j <= i) =>
                 Last(Settings(l, r).opened) =
                    IF \E j \in Flagged(l, "A") : j < i
                    THEN <<l[i].arg, r>> ELSE <<l[i].arg>>
<1> DEFINE s == Settings(l, r)
<1>1. PICK k \in Nat : k = Len(l) /\ DOMAIN l = 1 .. k /\ Tokens(l) = k
  BY ListFacts
<1>2. SettledAfter(s, l, r, k)
  BY <1>1, SettingsAfter
<1> HIDE DEF s
<1>3. s.allRanks <=> Flagged(l, "A") # {}
  BY <1>1, <1>2 DEF SettledAfter, Flagged
<1>4. s.opened = <<>> <=> Flagged(l, "a") = {}
  BY <1>1, <1>2 DEF SettledAfter, Flagged
<1>5. ASSUME NEW i \in Flagged(l, "a"), \A j \in Flagged(l, "a") : j <= i
      PROVE  Last(s.opened) = IF \E j \in Flagged(l, "A") : j < i
                              THEN <<l[i].arg, r>> ELSE <<l[i].arg>>
  <2>1. i \in 1 .. k /\ l[i].flag = "a"
    BY <1>1 DEF Flagged
  <2>2. \A j \in (i + 1) .. k : l[j].flag # "a"
    <3>1. SUFFICES ASSUME NEW j \in (i + 1) .. k, l[j].flag = "a"
                   PROVE  FALSE
      OBVIOUS
    <3>2. j \in 1 .. k
      BY <2>1
    <3>3. j <= i
      BY <1>1, <1>5, <3>1, <3>2 DEF Flagged
    <3>4. QED
      BY <2>1, <3>3
  <2>3. (\E j \in 1 .. (i - 1) : l[j].flag = "A") <=> \E j \in Flagged(l, "A") : j < i
    <3>1. \A j \in 1 .. (i - 1) : j \in 1 .. k /\ j < i
      BY <2>1
    <3>2. \A j \in 1 .. k : j < i => j \in 1 .. (i - 1)
      BY <2>1
    <3>3. QED
      BY <1>1, <3>1, <3>2 DEF Flagged
  <2>4. Last(s.opened) = IF \E j \in 1 .. (i - 1) : l[j].flag = "A"
                         THEN <<l[i].arg, r>> ELSE <<l[i].arg>>
    BY <1>2, <2>1, <2>2 DEF SettledAfter
  <2>5. QED
    BY <2>3, <2>4
<1>6. QED
  BY <1>3, <1>4, <1>5 DEF s

LEMMA OwnFileIs ==
    \A r : OwnFile(r) =
        IF Flagged(options, "A") = {} THEN r = 0
        ELSE \A i \in Flagged(options, "a") :
                \/ \E j \in Flagged(options, "a") : j > i
                \/ \E j \in Flagged(options, "A") : j < i
BY DEF OwnFile, Index, Flagged

LEMMA TraceFileFacts ==
    ASSUME options \in OptionLists, ~Overflow(options), NEW r \in Ranks
    PROVE  /\ TraceFileOf(options, r) \in Files
           /\ Settings(options, r).opened # <<>> =>
                 Contains(Settings(options, r).opened, TraceFileOf(options, r))
           /\ \A q \in Ranks \ {r} :
                 /\ TraceFileOf(options, r) # Stdout(q)
                 /\ TraceFileOf(options, q) = TraceFileOf(options, r) =>
                       Flagged(options, "a") # {}
                 /\ (OwnFile(r) /\ TraceFileOf(options, q) = TraceFileOf(options, r)) =>
                       r = 0 /\ Flagged(options, "A") = {}
<1> DEFINE s == Settings(options, r)
           F == TraceFileOf(options, r)
<1>1. s.opened \in Seq(OpenedFiles(options, r))
  BY SettingsFacts
<1>2. CASE Flagged(options, "a") = {}
  <2>1. \A q : Settings(options, q).opened = <<>>
    BY <1>2, OpenedBy
  <2>2. \A q : TraceFileOf(options, q) = Stdout(q)
    BY <2>1 DEF TraceFileOf
  <2>3. Stdout(r) \in Files
    BY DEF Files, Stdout
  <2>4. \A q \in Ranks \ {r} : Stdout(r) # Stdout(q)
    BY DEF Stdout
  <2>5. QED
    BY <2>1, <2>2, <2>3, <2>4
<1>3. CASE Flagged(options, "a") # {}
  <2>1. PICK i \in Flagged(options, "a") : \A j \in Flagged(options, "a") : j <= i
    BY <1>3, LastFlagged
  <2>2. \A q : /\ Settings(options, q).opened # <<>>
               /\ TraceFileOf(options, q) = IF \E j \in Flagged(options, "A") : j < i
                                            THEN <<options[i].arg, q>> ELSE <<options[i].arg>>
    BY <1>3, <2>1, OpenedBy DEF TraceFileOf
  <2>3. F \in Files
    <3>1. options[i] \in UNION {{l[k] : k \in {j \in DOMAIN l : l[j].flag = "a"}} : l \in OptionLists}
      BY DEF Flagged
    <3>2. F \in {<<options[i].arg>>, <<options[i].arg, r>>}
      BY <2>2
    <3>3. QED
      BY <3>1, <3>2 DEF Files
  <2>4. Contains(s.opened, F)
    <3>1. s.opened # <<>> /\ F = Last(s.opened)
      BY <2>2 DEF TraceFileOf
    <3>2. PICK k \in Nat \ {0} : k = Len(s.opened)
      BY <1>1, <3>1, FrontFacts
    <3>3. k \in 1 .. Len(s.opened) /\ s.opened[k] = F
      BY <3>1, <3>2 DEF Last
    <3>4. QED
      BY <3>3 DEF Contains
  <2>5. ASSUME NEW q \in Ranks \ {r}
        PROVE  F # Stdout(q)
    <3>1. \A a : <<a>> # Stdout(q) /\ <<a, r>> # Stdout(q)
      BY DEF Stdout
    <3>2. QED
      BY <2>2, <3>1
  <2>6. ASSUME NEW q \in Ranks \ {r}, OwnFile(r), TraceFileOf(options, q) = F
        PROVE  r = 0 /\ Flagged(options, "A") = {}
    <3>1. CASE Flagged(options, "A") = {}
      BY <2>6, <3>1, OwnFileIs
    <3>2. CASE Flagged(options, "A") # {}
      <4>1. i \in Nat /\ Flagged(options, "a") \subseteq Nat
        BY <2>1, ListFacts DEF Flagged
      <4>2. ~\E j \in Flagged(options, "a") : j > i
        BY <2>1, <4>1
      <4>3. \E j \in Flagged(options, "A") : j < i
        BY <2>6, <3>2, <4>2, OwnFileIs
      <4>4. <<options[i].arg, q>> = <<options[i].arg, r>>
        BY <2>2, <2>6, <4>3
      <4>5. <<options[i].arg, q>>[2] = <<options[i].arg, r>>[2]
        BY <4>4
      <4>6. QED
        BY <4>5
    <3>3. QED
      BY <3>1, <3>2
  <2>7. QED
    BY <1>3, <2>3, <2>4, <2>5, <2>6
<1>4. QED
  BY <1>2, <1>3-----------------------------------------------------------------------------
(***************************************************************************)
(* The initial states, and what the invariant says of one rank.            *)
(***************************************************************************)
LEMMA SettingFacts ==
    ASSUME SettingTypes, NEW r \in Ranks
    PROVE  /\ setting[r] \in SettingSet(options, r)
           /\ DepthsAgree(setting[r])
           /\ status[r] # "start" => setting[r] = Settings(options, r)
BY SettingsFacts, DefaultsType DEF SettingTypes, DepthsAgree

LEMMA InitInv == Init => Inv
<1>1. SUFFICES ASSUME Init
               PROVE  Inv
  OBVIOUS
<1>2. SettingTypes
  BY <1>1 DEF Init, SettingTypes
<1>3. FileTypes
  <2>1. NoFile \in Handles
    BY DEF NoFile, Handles, AllFiles
  <2>2. QED
    BY <1>1, <2>1 DEF Init, FileTypes
<1>4. RegionTypes
  BY <1>1 DEF Init, RegionTypes
<1>5. StackInv
  <2>1. \A r \in Ranks : setting[r].fullStackDepth \in 0 .. MaxDepth
    BY <1>2, SettingFacts DEF SettingSet
  <2>2. \A r \in Ranks : stack[r] = [kept |-> 0, last |-> -1]
    BY <1>1 DEF Init
  <2>3. QED
    BY <2>1, <2>2 DEF StackInv
<1>6. RegionInv
  BY <1>1 DEF Init, RegionInv, Settled, Path
<1>7. RegionsTraced
  BY <1>1 DEF Init, RegionsTraced
<1>8. HandleInv
  <2>1. \A r \in Ranks : Stdout(r) \in Files
    BY DEF Stdout, Files
  <2>2. QED
    BY <1>1, <2>1 DEF Init, HandleInv, HandleOf
<1>9. DiskInv
  BY <1>1 DEF Init, DiskInv, DiskOf
<1>10. stack \in [Ranks -> [kept : Int, last : Int]]
  BY <1>1 DEF Init
<1>11. printing \in [Ranks -> SUBSET Printings] /\ PrintInv
  BY <1>1 DEF Init, PrintInv
<1>12. QED
  BY <1>2, <1>3, <1>4, <1>5, <1>6, <1>7, <1>8, <1>9, <1>10, <1>11 DEF Inv, Types

LEMMA ExpectedFacts ==
    ASSUME FileTypes, NEW r \in Ranks
    PROVE  /\ Expected(r) \in Seq(Entries)
           /\ Len(lines[r]) \in Nat
           /\ Len(Expected(r)) = Len(lines[r]) + (IF setting[r].opened = <<>> THEN 0 ELSE 1)
           /\ setting[r].opened # <<>> => Expected(r)[1] = Header
           /\ lines[r] = <<>> => Expected(r) = IF setting[r].opened = <<>> THEN <<>> ELSE <<Header>>
<1> DEFINE h == IF setting[r].opened = <<>> THEN <<>> ELSE <<Header>>
<1>1. h \in Seq(Entries) /\ Len(h) = IF setting[r].opened = <<>> THEN 0 ELSE 1
  <2>1. Header \in Entries
    BY DEF Entries
  <2>2. <<Header>> \in Seq(Entries) /\ Len(<<Header>>) = 1
    BY <2>1
  <2>3. <<>> \in Seq(Entries) /\ Len(<<>>) = 0
    OBVIOUS
  <2>4. CASE setting[r].opened = <<>>
    BY <2>3, <2>4
  <2>5. CASE setting[r].opened # <<>>
    BY <2>2, <2>5
  <2>6. QED
    BY <2>4, <2>5
<1>2. setting[r].opened # <<>> => h[1] = Header
  OBVIOUS
<1>3. lines[r] \in Seq(Lines)
  BY DEF FileTypes
<1>4. lines[r] \in Seq(Entries)
  <2>1. Lines \subseteq Entries
    BY DEF Entries
  <2> HIDE DEF h
  <2>2. QED
    BY <1>3, <2>1, SeqMonotonic
<1>5. Expected(r) = h \o lines[r]
  BY DEF Expected
<1> HIDE DEF h
<1>6. /\ Expected(r) \in Seq(Entries)
      /\ Len(Expected(r)) = Len(h) + Len(lines[r])
      /\ \A i \in 1 .. Len(h) + Len(lines[r]) :
            Expected(r)[i] = IF i <= Len(h) THEN h[i] ELSE lines[r][i - Len(h)]
  <2>1. /\ h \o lines[r] \in Seq(Entries)
        /\ Len(h \o lines[r]) = Len(h) + Len(lines[r])
        /\ \A i \in 1 .. Len(h) + Len(lines[r]) :
              (h \o lines[r])[i] = IF i <= Len(h) THEN h[i] ELSE lines[r][i - Len(h)]
    BY <1>1, <1>4, ConcatProperties
  <2>2. QED
    BY <1>5, <2>1
<1>7. Len(lines[r]) \in Nat
  BY <1>3
<1>8. setting[r].opened # <<>> => Expected(r)[1] = Header
  BY <1>1, <1>2, <1>6, <1>7
<1>9. lines[r] = <<>> => Expected(r) = h
  BY <1>1, <1>5, ConcatEmptySeq
<1>10. Len(Expected(r)) = Len(lines[r]) + (IF setting[r].opened = <<>> THEN 0 ELSE 1)
  <2>1. Len(Expected(r)) = Len(h) + Len(lines[r])
    BY <1>6
  <2>2. PICK k \in Nat : k = Len(lines[r])
    BY <1>7
  <2>3. CASE setting[r].opened = <<>>
    <3>1. Len(h) = 0
      BY <1>1, <2>3
    <3>2. Len(Expected(r)) = Len(lines[r]) + 0
      BY <2>1, <2>2, <3>1
    <3>3. QED
      BY <2>3, <3>2
  <2>4. CASE setting[r].opened # <<>>
    <3>1. Len(h) = 1
      BY <1>1, <2>4
    <3>2. Len(Expected(r)) = Len(lines[r]) + 1
      BY <2>1, <2>2, <3>1
    <3>3. QED
      BY <2>4, <3>2
  <2>5. QED
    BY <2>3, <2>4
<1>11. lines[r] = <<>> => Expected(r) = IF setting[r].opened = <<>> THEN <<>> ELSE <<Header>>
  BY <1>9 DEF h
<1>12. QED
  BY <1>6, <1>7, <1>8, <1>10, <1>11

LEMMA SafeOptions == Inv => OptionsSafe
<1>1. SUFFICES ASSUME Inv, NEW r \in Ranks
               PROVE  /\ setting[r].tableSize >= 2
                      /\ setting[r].fullStackDepth <= MaxDepth
                      /\ stack[r].kept <= MaxDepth
                      /\ setting[r].reportStackDepth < MaxReportDepth => stack[r].last < MaxDepth
                      /\ (setting[r].reportStackDepth = 0 /\ DefaultStyle = "verbose") =>
                            ~setting[r].calcCOV
  BY DEF OptionsSafe
<1>2. setting[r] \in SettingSet(options, r) /\ DepthsAgree(setting[r])
  BY <1>1, SettingFacts DEF Inv, Types
<1>3. /\ setting[r].tableSize \in {n \in Nat : n >= 2}
      /\ setting[r].fullStackDepth \in 0 .. MaxDepth
      /\ setting[r].reportStackDepth \in 0 .. MaxReportDepth
  BY <1>2 DEF SettingSet
<1>4. stack[r].kept \in Int /\ stack[r].last \in Int
  BY <1>1 DEF Inv, Types
<1>5. stack[r].kept <= setting[r].fullStackDepth /\ stack[r].last <= setting[r].fullStackDepth
  BY <1>1 DEF Inv, StackInv
<1>6. MaxDepth = MaxReportDepth + InternalDepth /\ MaxReportDepth \in Nat /\ InternalDepth \in Nat
  BY OptionsAssumption DEF MaxDepth
<1>7. setting[r].fullStackDepth = setting[r].reportStackDepth + InternalDepth
  BY <1>2 DEF DepthsAgree
<1>8. (setting[r].reportStackDepth = 0 /\ DefaultStyle = "verbose") => ~setting[r].calcCOV
  BY <1>2 DEF DepthsAgree
<1>9. QED
  BY <1>3, <1>4, <1>5, <1>6, <1>7, <1>8

LEMMA HandleFacts ==
    ASSUME FileTypes, NEW r \in Ranks
    PROVE  /\ handle[r].pos \in Nat /\ handle[r].buffer \in Seq(Entries)
           /\ Len(handle[r].buffer) \in Nat
           /\ handle[r].file \in Files => disk[handle[r].file] \in Seq(Entries)
           /\ handle[r].closed \in BOOLEAN /\ handle[r].flushed \in BOOLEAN
BY DEF FileTypes, Handles

\* What a rank writes, if nothing else is written to its file, is what is
\* expected.
LEMMA SeenExpected ==
    ASSUME FileTypes, NEW r \in Ranks, handle[r].file \in Files,
           handle[r].pos + Len(handle[r].buffer) = Len(Expected(r)),
           \A i \in 1 .. Len(handle[r].buffer) :
              handle[r].buffer[i] = Expected(r)[handle[r].pos + i],
           handle[r].pos <= Len(disk[handle[r].file]),
           Len(disk[handle[r].file]) <= Len(Expected(r)),
           \A i \in 1 .. handle[r].pos : disk[handle[r].file][i] = Expected(r)[i]
    PROVE  Seen(r) = Expected(r)
<1> DEFINE d == disk[handle[r].file]
           p == handle[r].pos
           b == handle[r].buffer
           e == Expected(r)
           w == Written(d, p, b)
<1>1. d \in Seq(Entries) /\ p \in Nat /\ b \in Seq(Entries) /\ e \in Seq(Entries)
  BY HandleFacts, ExpectedFacts
<1>2. Hole \in Entries
  BY DEF Entries
<1>3. p + Len(b) = Len(e) /\ (\A i \in 1 .. Len(b) : b[i] = e[p + i])
  OBVIOUS
<1>4. p <= Len(d) /\ Len(d) <= Len(e) /\ \A i \in 1 .. p : d[i] = e[i]
  OBVIOUS
<1>5. Seen(r) = w
  BY DEF Seen
<1> HIDE DEF d, p, b, e
<1>6. /\ w \in Seq(Entries)
      /\ Len(w) = IF b # <<>> /\ p + Len(b) > Len(d) THEN p + Len(b) ELSE Len(d)
      /\ \A i \in 1 .. Len(w) :
            w[i] = IF i > p /\ i <= p + Len(b) THEN b[i - p]
                   ELSE IF i <= Len(d) THEN d[i] ELSE Hole
  BY <1>1, <1>2, WrittenFacts
<1> HIDE DEF w
<1>7. PICK m \in Nat, n \in Nat, k \in Nat : m = Len(d) /\ n = Len(b) /\ k = Len(e)
  <2>1. Len(d) \in Nat /\ Len(b) \in Nat /\ Len(e) \in Nat
    BY <1>1, LenProperties
  <2>2. QED
    BY <2>1, Zenon
<1>8. Len(w) = k
  BY <1>1, <1>3, <1>4, <1>6, <1>7, EmptySeq
<1>9. ASSUME NEW i \in 1 .. k
      PROVE  w[i] = e[i]
  <2>1. CASE i > p
    <3>1. i <= p + n /\ i - p \in 1 .. n
      BY <1>1, <1>3, <1>7, <2>1
    <3>2. w[i] = b[i - p]
      BY <1>6, <1>7, <1>8, <2>1, <3>1
    <3>3. b[i - p] = e[p + (i - p)] /\ p + (i - p) = i
      BY <1>1, <1>3, <1>7, <3>1
    <3>4. QED
      BY <3>2, <3>3
  <2>2. CASE ~(i > p)
    <3>1. i \in 1 .. p /\ i <= m
      BY <1>1, <1>4, <1>7, <2>2
    <3>2. w[i] = d[i]
      BY <1>6, <1>7, <1>8, <2>2, <3>1
    <3>3. QED
      BY <1>4, <3>1, <3>2
  <2>3. QED
    BY <2>1, <2>2
<1>10. w = e
  BY <1>1, <1>6, <1>7, <1>8, <1>9, SeqEqual
<1>11. QED
  BY <1>5, <1>10 DEF e

LEMMA RunningHandle ==
    ASSUME Inv, NEW r \in Ranks, status[r] \in {"run", "exited"}
    PROVE  /\ ~Overflow(options) /\ options \in OptionLists
           /\ setting[r] = Settings(options, r)
           /\ handle[r].file = TraceFileOf(options, r) /\ handle[r].file \in Files
           /\ handle[r].pos + Len(handle[r].buffer) = Len(Expected(r))
           /\ \A i \in 1 .. Len(handle[r].buffer) :
                 handle[r].buffer[i] = Expected(r)[handle[r].pos + i]
           /\ ~handle[r].flushed => handle[r].pos = 0
           /\ ~Traced(r) => lines[r] = <<>>
<1>1. ~Overflow(options) /\ options \in OptionLists /\ setting[r] = Settings(options, r)
  BY SettingFacts DEF Inv, HandleInv, HandleOf, Types, SettingTypes
<1>2. TraceFileOf(options, r) \in Files
  BY <1>1, TraceFileFacts
<1>3. handle[r].file = TraceFileOf(options, r)
  BY DEF Inv, HandleInv, HandleOf, TraceFileOf, OwnOpened
<1>4. QED
  BY <1>1, <1>2, <1>3 DEF Inv, HandleInv, HandleOf

LEMMA KeptTrace == Inv => TraceKept
<1>1. SUFFICES ASSUME Inv, NEW r \in Ranks, status[r] \in {"run", "exited"}, OwnFile(r), r \notin cut
               PROVE  Seen(r) = Expected(r)
  BY DEF TraceKept
<1>2. FileTypes
  BY <1>1 DEF Inv, Types
<1>3. LET d == disk[handle[r].file] IN
      /\ handle[r].pos <= Len(d) /\ Len(d) <= Len(Expected(r))
      /\ \A i \in 1 .. handle[r].pos : d[i] = Expected(r)[i]
  BY <1>1 DEF Inv, DiskInv, DiskOf
<1>4. QED
  BY <1>1, <1>2, <1>3, RunningHandle, SeenExpected-----------------------------------------------------------------------------
(***************************************************************************)
(* What a step leaves alone stays as it is.                                *)
(***************************************************************************)
\* No rank starts or comes back.
StatusKept ==
    /\ \A q \in Ranks : status'[q] = "start" <=> status[q] = "start"
    /\ \A q \in Ranks : status'[q] \in {"run", "exited"} => status[q] \in {"run", "exited"}

LEMMA SettingTypesKept ==
    ASSUME SettingTypes, UNCHANGED <<options, setting>>, StatusKept,
           status' \in [Ranks -> {"start", "run", "exited", "wild"}]
    PROVE  SettingTypes'
BY DEF SettingTypes, StatusKept

LEMMA StackKept ==
    ASSUME StackInv, UNCHANGED <<setting, stack>>, StatusKept
    PROVE  StackInv'
BY DEF StackInv, StatusKept

LEMMA RegionKept ==
    ASSUME RegionTypes, RegionInv, UNCHANGED <<region, entering, nest, fit>>
    PROVE  RegionTypes' /\ RegionInv'
BY DEF RegionTypes, RegionInv

\* Nobody begins to print.
LEMMA PrintKept ==
    ASSUME PrintInv, StatusKept, UNCHANGED <<setting, entering, nest, fit>>,
           \A r \in Ranks : printing'[r] \subseteq printing[r]
    PROVE  PrintInv'
<1>1. SUFFICES ASSUME NEW r \in Ranks, NEW p \in printing'[r]
               PROVE  PrintOf(r, p)'
  BY DEF PrintInv
<1>2. PrintOf(r, p) /\ status'[r] # "start"
  <2>1. PrintOf(r, p)
    BY <1>1 DEF PrintInv
  <2>2. QED
    BY <2>1 DEF PrintOf, StatusKept
<1>3. QED
  BY <1>2 DEF PrintOf, Traced

\* One rank's region changes, and what is printed of it is torn or right.
LEMMA PrintChanged ==
    ASSUME PrintInv, StatusKept, UNCHANGED setting, NEW r \in Ranks,
           \A q \in Ranks \ {r} : /\ printing'[q] = printing[q] /\ entering'[q] = entering[q]
                                  /\ nest'[q] = nest[q] /\ fit'[q] = fit[q],
           \A p \in printing'[r] : PrintOf(r, p)'
    PROVE  PrintInv'
<1>1. SUFFICES ASSUME NEW q \in Ranks \ {r}, NEW p \in printing'[q]
               PROVE  PrintOf(q, p)'
  BY DEF PrintInv
<1>2. PrintOf(q, p) /\ status'[q] # "start"
  <2>1. PrintOf(q, p)
    BY <1>1 DEF PrintInv
  <2>2. QED
    BY <2>1 DEF PrintOf, StatusKept
<1>3. QED
  BY <1>2 DEF PrintOf, Traced

LEMMA TracedKept ==
    ASSUME RegionsTraced, fit \in [Ranks -> BOOLEAN], UNCHANGED lines,
           \A r \in Ranks : fit'[r] => fit[r]
    PROVE  RegionsTraced'
BY DEF RegionsTraced

\* Of one rank,
LEMMA RankKept ==
    ASSUME NEW q \in Ranks, HandleOf(q),
           status'[q] = "start" => status[q] = "start",
           status'[q] \in {"run", "exited"} => status[q] \in {"run", "exited"},
           options' = options, setting'[q] = setting[q],
           handle'[q] = handle[q], lines'[q] = lines[q], disk'[Stdout(q)] = disk[Stdout(q)]
    PROVE  HandleOf(q)'
<1>1. Expected(q)' = Expected(q) /\ Traced(q)' = Traced(q) /\ OwnOpened(q)' = OwnOpened(q)
  BY DEF Expected, Traced, OwnOpened
<1>2. /\ status'[q] = "start" =>
            handle[q] = NoFile /\ lines[q] = <<>> /\ disk[Stdout(q)] = <<>>
      /\ status'[q] \in {"run", "exited"} =>
            /\ ~Overflow(options)
            /\ handle[q].file = IF OwnOpened(q) = <<>> THEN Stdout(q) ELSE Last(OwnOpened(q))
            /\ handle[q].pos + Len(handle[q].buffer) = Len(Expected(q))
            /\ \A i \in 1 .. Len(handle[q].buffer) :
                  handle[q].buffer[i] = Expected(q)[handle[q].pos + i]
            /\ ~handle[q].flushed => handle[q].pos = 0
            /\ ~Traced(q) => lines[q] = <<>>
  BY DEF HandleOf
<1>3. QED
  BY <1>1, <1>2 DEF HandleOf

LEMMA DiskKept ==
    ASSUME NEW q \in Ranks, DiskOf(q),
           status'[q] \in {"run", "exited"} => status[q] \in {"run", "exited"},
           options' = options, setting'[q] = setting[q], q \in cut => q \in cut',
           handle'[q] = handle[q], lines'[q] = lines[q],
           disk'[handle[q].file] = disk[handle[q].file]
    PROVE  DiskOf(q)'
<1>1. Expected(q)' = Expected(q) /\ OwnFile(q)' = OwnFile(q)
  BY DEF Expected, OwnFile, Index
<1>2. QED
  BY <1>1 DEF DiskOf

\* and of all.
LEMMA FilesKept ==
    ASSUME FileTypes, HandleInv, DiskInv, StatusKept,
           UNCHANGED <<options, setting, disk, handle, lines, cut>>
    PROVE  FileTypes' /\ HandleInv' /\ DiskInv'
<1>1. FileTypes'
  BY DEF FileTypes
<1>2. HandleInv'
  BY RankKept DEF HandleInv, StatusKept
<1>3. DiskInv'
  BY DiskKept DEF DiskInv, StatusKept
<1>4. QED
  BY <1>1, <1>2, <1>3

-----------------------------------------------------------------------------
(***************************************************************************)
(* Regions.                                                                *)
(***************************************************************************)
LEMMA RegionSettled ==
    ASSUME RegionTypes, RegionInv, NEW r \in Ranks, entering[r] = <<>>
    PROVE  /\ \A i \in 1 .. Len(region[r]) : region[r][i].name # NoName
           /\ Settled(region[r]) = region[r]
           /\ fit[r] => Path(region[r]) = nest[r]
<1>1. \A i \in 1 .. Len(region[r]) : region[r][i].name # NoName
  BY DEF RegionInv
<1>2. region[r] \in Seq(Parts)
  BY DEF RegionTypes
<1>3. Settled(region[r]) = region[r]
  BY <1>1, <1>2, SettledPath
<1>4. QED
  BY <1>1, <1>3 DEF RegionInv

\* One rank's region changes, and with it what its history says of it.
LEMMA RegionChanged ==
    ASSUME RegionTypes, RegionInv, NEW r \in Ranks,
           NEW p \in Seq(Parts), NEW e \in {<<>>} \cup {<<n>> : n \in NamesUsed},
           NEW m \in Seq(NamesUsed), NEW f \in BOOLEAN,
           region' = [region EXCEPT ![r] = p], entering' = [entering EXCEPT ![r] = e],
           nest' = [nest EXCEPT ![r] = m], fit' = [fit EXCEPT ![r] = f],
           e # <<>> => p # <<>> /\ Last(p) = Coming,
           \A i \in 1 .. Len(p) : (i < Len(p) \/ e = <<>>) => p[i].name # NoName,
           f => Path(Settled(p)) = m
    PROVE  RegionTypes' /\ RegionInv'
<1>1. /\ \A q \in Ranks \ {r} : /\ region'[q] = region[q] /\ entering'[q] = entering[q]
                                /\ nest'[q] = nest[q] /\ fit'[q] = fit[q]
      /\ region'[r] = p /\ entering'[r] = e /\ nest'[r] = m /\ fit'[r] = f
  BY DEF RegionTypes
<1>2. RegionTypes'
  BY DEF RegionTypes
<1>3. RegionInv'
  BY <1>1 DEF RegionInv
<1>4. QED
  BY <1>2, <1>3

\* The conjuncts of a step of Main that only changes the region.
LEMMA RegionStep ==
    ASSUME Inv, StatusKept, status' \in [Ranks -> {"start", "run", "exited", "wild"}],
           RegionTypes', RegionInv', printing' \in [Ranks -> SUBSET Printings], PrintInv',
           \A r \in Ranks : fit'[r] => fit[r],
           UNCHANGED <<options, setting, files, stack, lines, cut>>
    PROVE  Inv'
<1>1. SettingTypes'
  BY SettingTypesKept DEF Inv, Types
<1>2. FileTypes' /\ HandleInv' /\ DiskInv'
  BY FilesKept DEF Inv, Types, files
<1>3. StackInv'
  BY StackKept DEF Inv
<1>4. RegionsTraced'
  BY TracedKept DEF Inv, Types, RegionTypes
<1>5. stack' \in [Ranks -> [kept : Int, last : Int]]
  BY DEF Inv, Types
<1>6. QED
  BY <1>1, <1>2, <1>3, <1>4, <1>5 DEF Inv, Types

LEMMA ExitStatus ==
    ASSUME SettingTypes, NEW r \in Ranks, status[r] = "run", NEW s \in {"run", "exited", "wild"},
           status' = [status EXCEPT ![r] = s]
    PROVE  StatusKept /\ status' \in [Ranks -> {"start", "run", "exited", "wild"}]
BY DEF SettingTypes, StatusKept

LEMMA SameStatus ==
    ASSUME SettingTypes, UNCHANGED status
    PROVE  StatusKept /\ status' \in [Ranks -> {"start", "run", "exited", "wild"}]
BY DEF SettingTypes, StatusKept

LEMMA NamesType ==
    ASSUME NEW n \in NamesUsed
    PROVE  n # NoName /\ Names[n] \in Nat
BY TracingAssumption DEF NamesUsed

LEMMA EnterDottedStep ==
    ASSUME Inv, NEW r \in Ranks, NEW n \in DOMAIN Names, EnterDotted(r, n)
    PROVE  Inv'
<1>1. StatusKept /\ status' \in [Ranks -> {"start", "run", "exited", "wild"}]
  BY ExitStatus DEF EnterDotted, MayEnter, Inv, Types
<1>2. RegionTypes' /\ RegionInv'
  BY RegionKept DEF EnterDotted, regions, history, Inv, Types
<1>3. printing' \in [Ranks -> SUBSET Printings] /\ PrintInv'
  BY <1>1, PrintKept DEF EnterDotted, regions, history, Inv, Types
<1>4. QED
  BY <1>1, <1>2, <1>3, RegionStep DEF EnterDotted, files, history

\* Main tears what other threads print, and prints nothing itself.
LEMMA TearFacts ==
    ASSUME Inv, NEW r \in Ranks, Idle(r, Main), Tear(r)
    PROVE  /\ printing' \in [Ranks -> SUBSET Printings]
           /\ \A q \in Ranks \ {r} : printing'[q] = printing[q]
           /\ \A p \in printing'[r] :
                 /\ p.torn /\ p.thread # Main
                 /\ status[r] # "start" /\ Traced(r)
<1>1. printing \in [Ranks -> SUBSET Printings]
  BY DEF Inv, Types
<1> DEFINE torn == {[p EXCEPT !.torn = TRUE] : p \in printing[r]}
<1>2. printing' = [printing EXCEPT ![r] = torn]
  BY <1>1 DEF Tear
<1>3. \A p \in torn : p \in Printings /\ p.torn /\ p.thread # Main
  <2>1. SUFFICES ASSUME NEW o \in printing[r]
                 PROVE  LET p == [o EXCEPT !.torn = TRUE] IN
                        p \in Printings /\ p.torn /\ p.thread # Main
    OBVIOUS
  <2>2. o \in Printings /\ o.thread # Main
    BY <1>1, <2>1 DEF Idle
  <2>3. QED
    BY <2>2 DEF Printings
<1>4. torn # {} => status[r] # "start" /\ Traced(r)
  BY DEF Inv, PrintInv, PrintOf
<1> HIDE DEF torn
<1>5. printing'[r] = torn /\ \A q \in Ranks \ {r} : printing'[q] = printing[q]
  BY <1>1, <1>2
<1>6. printing' \in [Ranks -> SUBSET Printings]
  BY <1>1, <1>2, <1>3
<1>7. QED
  BY <1>3, <1>4, <1>5, <1>6

\* A name that is refused,
LEMMA RefuseStep ==
    ASSUME Inv, NEW r \in Ranks, NEW n \in NamesUsed, entering[r] = <<>>, Refuse(r, n),
           UNCHANGED <<options, setting, status, files, stack, lines, cut>>
    PROVE  Inv'
<1> DEFINE m == Append(nest[r], n)
<1>1. StatusKept /\ status' \in [Ranks -> {"start", "run", "exited", "wild"}]
  BY SameStatus DEF Inv, Types
<1>2. RegionTypes /\ RegionInv /\ PrintInv /\ printing \in [Ranks -> SUBSET Printings]
  BY DEF Inv, Types
<1>3. region[r] \in Seq(Parts) /\ nest[r] \in Seq(NamesUsed)
  BY <1>2 DEF RegionTypes
<1>4. /\ nest' = [nest EXCEPT ![r] = m] /\ region' = region /\ entering' = entering
      /\ fit' = [fit EXCEPT ![r] = @ /\ ~TRUE] /\ printing' = printing
  BY DEF Refuse, Entered, regions
<1>5. /\ fit' = [fit EXCEPT ![r] = FALSE]
      /\ region' = [region EXCEPT ![r] = region[r]]
      /\ entering' = [entering EXCEPT ![r] = <<>>]
  BY <1>2, <1>4 DEF RegionTypes
<1>6. m \in Seq(NamesUsed)
  BY <1>3
<1>7. \A i \in 1 .. Len(region[r]) : region[r][i].name # NoName
  BY <1>2, RegionSettled
<1> HIDE DEF m
<1>8. RegionTypes' /\ RegionInv'
  BY <1>2, <1>3, <1>4, <1>5, <1>6, <1>7, RegionChanged
<1>9. /\ fit'[r] = FALSE
      /\ \A q \in Ranks \ {r} : nest'[q] = nest[q] /\ fit'[q] = fit[q]
  BY <1>2, <1>4, <1>5 DEF RegionTypes
<1>10. \A p \in printing'[r] : PrintOf(r, p)'
  <2>1. SUFFICES ASSUME NEW p \in printing[r]
                 PROVE  PrintOf(r, p)'
    BY <1>4
  <2>2. PrintOf(r, p)
    BY <1>2, <2>1 DEF PrintInv
  <2>3. QED
    BY <1>4, <1>9, <2>2 DEF PrintOf, Traced
<1>11. PrintInv'
  BY <1>1, <1>2, <1>4, <1>9, <1>10, PrintChanged
<1>12. \A q \in Ranks : fit'[q] => fit[q]
  BY <1>9
<1>13. QED
  BY <1>1, <1>2, <1>4, <1>8, <1>11, <1>12, RegionStep

\* and one that is copied.
LEMMA CopyStep ==
    ASSUME Inv, NEW r \in Ranks, NEW n \in NamesUsed, Idle(r, Main), BeginCopy(r, n),
           UNCHANGED <<options, setting, status, files, stack, lines, cut>>
    PROVE  Inv'
<1> DEFINE p == Append(region[r], Coming)
<1>1. StatusKept /\ status' \in [Ranks -> {"start", "run", "exited", "wild"}]
      /\ status' = status
  BY SameStatus DEF Inv, Types
<1>2. RegionTypes /\ RegionInv /\ PrintInv
  BY DEF Inv, Types
<1>3. region[r] \in Seq(Parts) /\ nest[r] \in Seq(NamesUsed) /\ entering[r] = <<>>
  BY <1>2 DEF RegionTypes, Idle
<1>4. /\ region' = [region EXCEPT ![r] = p] /\ entering' = [entering EXCEPT ![r] = <<n>>]
      /\ nest' = nest /\ fit' = fit /\ Tear(r)
  BY DEF BeginCopy
<1>5. nest' = [nest EXCEPT ![r] = nest[r]] /\ fit' = [fit EXCEPT ![r] = fit[r]]
  BY <1>2, <1>4 DEF RegionTypes
<1>6. p \in Seq(Parts) /\ p # <<>> /\ Last(p) = Coming /\ Settled(p) = region[r]
  BY <1>3, ComingAppended
<1>7. \A i \in 1 .. Len(p) : i < Len(p) => p[i].name # NoName
  <2>1. Coming \in Parts
    BY DEF Coming, Part, Parts
  <2>2. PICK k \in Nat : k = Len(region[r])
    BY <1>3
  <2>3. Len(p) = k + 1 /\ \A i \in 1 .. k : p[i] = region[r][i]
    BY <1>3, <2>1, <2>2, AppendProperties
  <2>4. \A i \in 1 .. k : region[r][i].name # NoName
    BY <1>2, <1>3, <2>2, RegionSettled
  <2>5. \A i \in 1 .. k + 1 : i < k + 1 => i \in 1 .. k
    OBVIOUS
  <2> HIDE DEF p
  <2>6. QED
    BY <2>3, <2>4, <2>5
<1>8. fit[r] => Path(Settled(p)) = nest[r]
  BY <1>2, <1>3, <1>6, RegionSettled
<1>9. fit[r] \in BOOLEAN /\ <<n>> # <<>> /\ <<n>> \in {<<>>} \cup {<<x>> : x \in NamesUsed}
  BY <1>2 DEF RegionTypes
<1> HIDE DEF p
<1>10. RegionTypes' /\ RegionInv'
  BY <1>2, <1>3, <1>4, <1>5, <1>6, <1>7, <1>8, <1>9, RegionChanged
<1>11. /\ printing' \in [Ranks -> SUBSET Printings]
       /\ \A q \in Ranks \ {r} : printing'[q] = printing[q]
       /\ \A o \in printing'[r] :
             /\ o.torn /\ o.thread # Main
             /\ status[r] # "start" /\ Traced(r)
  BY <1>4, TearFacts
<1>12. \A o \in printing'[r] : PrintOf(r, o)'
  BY <1>1, <1>11 DEF PrintOf, Traced
<1>13. \A q \in Ranks \ {r} : entering'[q] = entering[q]
  BY <1>2, <1>4 DEF RegionTypes
<1>14. PrintInv'
  BY <1>1, <1>2, <1>4, <1>11, <1>12, <1>13, PrintChanged
<1>15. QED
  BY <1>1, <1>4, <1>10, <1>11, <1>14, RegionStep

LEMMA EnterFirstStep ==
    ASSUME Inv, NEW r \in Ranks, NEW n \in DOMAIN Names, EnterFirst(r, n)
    PROVE  Inv'
<1>1. n \in NamesUsed /\ Idle(r, Main) /\ entering[r] = <<>>
  BY DEF EnterFirst, MayEnter, Idle, NamesUsed
<1>2. Refuse(r, n) \/ BeginCopy(r, n)
  BY DEF EnterFirst
<1>3. UNCHANGED <<options, setting, status, files, stack, lines, cut>>
  BY DEF EnterFirst
<1>4. QED
  BY <1>1, <1>2, <1>3, RefuseStep, CopyStep

LEMMA EnterNestedStep ==
    ASSUME Inv, NEW r \in Ranks, NEW n \in DOMAIN Names, EnterNested(r, n)
    PROVE  Inv'
<1>1. n \in NamesUsed /\ Idle(r, Main) /\ entering[r] = <<>>
  BY DEF EnterNested, MayEnter, Idle, NamesUsed
<1>2. Refuse(r, n) \/ BeginCopy(r, n)
  BY DEF EnterNested
<1>3. UNCHANGED <<options, setting, status, files, stack, lines, cut>>
  BY DEF EnterNested
<1>4. QED
  BY <1>1, <1>2, <1>3, RefuseStep, CopyStep

LEMMA EnterNameStep ==
    ASSUME Inv, NEW r \in Ranks, EnterName(r)
    PROVE  Inv'
<1>1. RegionTypes /\ RegionInv
  BY DEF Inv, Types
<1>2. PICK n \in NamesUsed : entering[r] = <<n>>
  BY <1>1 DEF EnterName, RegionTypes
<1>3. Head(entering[r]) = n
  BY <1>2
<1> DEFINE room == RegionMax - Length(region[r])
           part == Part(n, Smaller(Names[n], room))
           p == Append(Front(region[r]), part)
           m == Append(nest[r], n)
           s == IF Names[n] < room THEN "run" ELSE "wild"
<1>4. /\ region' = [region EXCEPT ![r] = p] /\ entering' = [entering EXCEPT ![r] = <<>>]
      /\ status' = [status EXCEPT ![r] = s] /\ status[r] = "run"
      /\ nest' = [nest EXCEPT ![r] = m] /\ fit' = [fit EXCEPT ![r] = @ /\ ~FALSE]
  BY <1>3 DEF EnterName, Entered
<1>5. region[r] \in Seq(Parts) /\ region[r] # <<>> /\ Last(region[r]) = Coming
  <2>1. entering[r] # <<>>
    BY <1>2
  <2>2. QED
    BY <1>1, <2>1 DEF RegionTypes, RegionInv
<1>6. part \in Parts /\ part.name = n
  <2>1. room \in Int
    BY <1>5, LengthType, TracingAssumption
  <2>2. Names[n] \in Int
    BY NamesType
  <2> HIDE DEF room
  <2>3. Smaller(Names[n], room) \in Int
    BY <2>1, <2>2 DEF Smaller
  <2>4. QED
    BY <2>3 DEF Part, Parts
<1> HIDE DEF part
<1>7. PICK k \in Nat : k = Len(region[r]) - 1 /\ Len(region[r]) = k + 1
  BY <1>5, FrontFacts
<1>8. /\ Front(region[r]) \in Seq(Parts) /\ Len(Front(region[r])) = k
      /\ \A i \in 1 .. k : Front(region[r])[i] = region[r][i]
  BY <1>5, <1>7, FrontFacts
<1>9. /\ p \in Seq(Parts) /\ Len(p) = k + 1 /\ p[k + 1] = part
      /\ \A i \in 1 .. k : p[i] = Front(region[r])[i]
  BY <1>6, <1>8, AppendProperties
<1>10. \A i \in 1 .. k : region[r][i].name # NoName
  <2>1. \A i \in 1 .. k : i \in 1 .. Len(region[r]) /\ i < Len(region[r])
    BY <1>7
  <2>2. QED
    BY <1>1, <2>1 DEF RegionInv
<1>11. \A i \in 1 .. Len(p) : p[i].name # NoName
  <2>1. \A i \in 1 .. k + 1 : i = k + 1 \/ i \in 1 .. k
    OBVIOUS
  <2>2. part.name # NoName
    BY <1>6, NamesType
  <2> HIDE DEF p
  <2>3. QED
    BY <1>8, <1>9, <1>10, <2>1, <2>2
<1>12. m \in Seq(NamesUsed)
  BY <1>1 DEF RegionTypes
<1>13. ASSUME fit[r]
       PROVE  Path(Settled(p)) = m
  <2>1. Settled(p) = p
    BY <1>9, <1>11, SettledPath
  <2>2. Path(Front(region[r])) = nest[r]
    BY <1>1, <1>5, <1>13 DEF RegionInv, Settled
  <2>3. Path(p) = Append(Path(Front(region[r])), part.name)
    BY <1>6, <1>8, PathAppend
  <2>4. QED
    BY <1>6, <2>1, <2>2, <2>3
<1>14. fit[r] \in BOOLEAN /\ fit' = [fit EXCEPT ![r] = fit[r]]
  BY <1>1, <1>4 DEF RegionTypes
<1> HIDE DEF p, m
<1>15. RegionTypes' /\ RegionInv'
  BY <1>1, <1>4, <1>9, <1>11, <1>12, <1>13, <1>14, RegionChanged
<1>16. StatusKept /\ status' \in [Ranks -> {"start", "run", "exited", "wild"}]
  <2>1. SettingTypes
    BY DEF Inv, Types
  <2>2. s \in {"run", "exited", "wild"}
    OBVIOUS
  <2> HIDE DEF s
  <2>3. QED
    BY <1>4, <2>1, <2>2, ExitStatus
<1>17. \A q \in Ranks : fit'[q] => fit[q]
  BY <1>1, <1>14 DEF RegionTypes
<1>18. UNCHANGED <<options, setting, files, stack, lines, cut, printing>>
  BY DEF EnterName, files, history
<1>19. PrintInv /\ printing' \in [Ranks -> SUBSET Printings]
  BY <1>18 DEF Inv, Types
<1>20. \A o \in printing'[r] : PrintOf(r, o)'
  <2>1. SUFFICES ASSUME NEW o \in printing[r]
                 PROVE  PrintOf(r, o)'
    BY <1>18
  <2>2. PrintOf(r, o) /\ o.torn
    BY <1>2, <1>19, <2>1 DEF PrintInv, PrintOf
  <2>3. QED
    BY <1>16, <1>18, <2>2 DEF PrintOf, Traced, StatusKept
<1>21. \A q \in Ranks \ {r} : /\ entering'[q] = entering[q] /\ nest'[q] = nest[q]
                              /\ fit'[q] = fit[q]
  BY <1>1, <1>4, <1>14 DEF RegionTypes
<1>22. PrintInv'
  BY <1>16, <1>18, <1>19, <1>20, <1>21, PrintChanged
<1>23. QED
  BY <1>15, <1>16, <1>17, <1>18, <1>19, <1>22, RegionStep

LEMMA ExitStep ==
    ASSUME Inv, NEW r \in Ranks, Exit(r)
    PROVE  Inv'
<1>1. RegionTypes /\ RegionInv
  BY DEF Inv, Types
<1>2. /\ entering[r] = <<>> /\ entering' = entering /\ fit' = fit /\ status[r] = "run"
      /\ Idle(r, Main)
  BY DEF Exit, Idle
<1>3. \A q \in Ranks : fit'[q] => fit[q]
  BY <1>2
<1>4. UNCHANGED <<options, setting, files, stack, lines, cut>>
  BY DEF Exit, files, history
<1>5. CASE region[r] = <<>>
  <2>1. StatusKept /\ status' \in [Ranks -> {"start", "run", "exited", "wild"}]
    BY <1>2, <1>5, ExitStatus DEF Exit, Inv, Types
  <2>2. RegionTypes' /\ RegionInv'
    BY <1>1, <1>2, <1>5, RegionKept DEF Exit
  <2>3. printing' \in [Ranks -> SUBSET Printings] /\ PrintInv'
    BY <1>2, <1>4, <1>5, <2>1, PrintKept DEF Exit, Inv, Types
  <2>4. QED
    BY <1>3, <1>4, <2>1, <2>2, <2>3, RegionStep
<1>6. CASE region[r] # <<>>
  <2> DEFINE p == Front(region[r])
             m == Front(nest[r])
  <2>1. /\ region' = [region EXCEPT ![r] = p] /\ nest' = [nest EXCEPT ![r] = m]
        /\ status' = status /\ Tear(r)
    BY <1>6 DEF Exit, CutName
  <2>2. fit[r] \in BOOLEAN /\ fit' = [fit EXCEPT ![r] = fit[r]]
        /\ entering' = [entering EXCEPT ![r] = <<>>]
    BY <1>1, <1>2 DEF RegionTypes
  <2>3. region[r] \in Seq(Parts) /\ nest[r] \in Seq(NamesUsed)
    BY <1>1 DEF RegionTypes
  <2>4. PICK k \in Nat : Len(region[r]) = k + 1 /\ Len(region[r]) - 1 = k
    <3>1. Len(region[r]) \in Nat \ {0}
      BY <1>6, <2>3, FrontFacts
    <3>2. Len(region[r]) - 1 \in Nat /\ Len(region[r]) = (Len(region[r]) - 1) + 1
      BY <3>1
    <3>3. QED
      BY <3>2
  <2>5. /\ p \in Seq(Parts) /\ m \in Seq(NamesUsed) /\ Len(p) = k
        /\ \A i \in 1 .. k : p[i] = region[r][i]
    BY <1>6, <2>3, <2>4, FrontFacts
  <2>6. \A i \in 1 .. Len(p) : p[i].name # NoName
    <3>1. \A i \in 1 .. k : i \in 1 .. Len(region[r])
      BY <2>4
    <3>2. \A i \in 1 .. Len(region[r]) : region[r][i].name # NoName
      BY <1>1, <1>2, RegionSettled
    <3> HIDE DEF p
    <3>3. QED
      BY <2>5, <3>1, <3>2
  <2>7. ASSUME fit[r]
        PROVE  Path(Settled(p)) = m
    <3>1. Settled(p) = p
      BY <2>5, <2>6, SettledPath
    <3>2. Path(p) = Front(Path(region[r]))
      BY <1>6, <2>3, PathFront
    <3>3. Path(region[r]) = nest[r]
      BY <1>1, <1>2, <2>7, RegionSettled
    <3>4. QED
      BY <3>1, <3>2, <3>3
  <2> HIDE DEF p, m
  <2>8. RegionTypes' /\ RegionInv'
    BY <1>1, <2>1, <2>2, <2>5, <2>6, <2>7, RegionChanged
  <2>9. StatusKept /\ status' \in [Ranks -> {"start", "run", "exited", "wild"}]
    BY <2>1, SameStatus DEF Inv, Types
  <2>10. /\ printing' \in [Ranks -> SUBSET Printings]
         /\ \A q \in Ranks \ {r} : printing'[q] = printing[q]
         /\ \A o \in printing'[r] :
               /\ o.torn /\ o.thread # Main
               /\ status[r] # "start" /\ Traced(r)
    BY <1>2, <2>1, TearFacts
  <2>11. \A o \in printing'[r] : PrintOf(r, o)'
    BY <1>4, <2>1, <2>10 DEF PrintOf, Traced
  <2>12. \A q \in Ranks \ {r} : nest'[q] = nest[q]
    BY <1>1, <2>1 DEF RegionTypes
  <2>13. PrintInv'
    BY <1>2, <1>4, <2>9, <2>10, <2>11, <2>12, PrintChanged DEF Inv
  <2>14. QED
    BY <1>3, <1>4, <2>8, <2>9, <2>10, <2>13, RegionStep
<1>7. QED
  BY <1>5, <1>6
-----------------------------------------------------------------------------
(***************************************************************************)
(* A call.                                                                 *)
(***************************************************************************)
\* A traceback keeps to what was asked for.
LEMMA TraceBackFacts ==
    ASSUME NEW frames \in Frames, NEW asked \in Int, 0 <= asked, NEW b \in TraceBack(frames, asked)
    PROVE  b \in [kept : Int, last : Int] /\ b.kept <= asked /\ b.last <= asked
<1>1. frames \in Nat
  BY TracingAssumption
<1>2. PICK n \in Int : n = Smaller(frames, asked) /\ 0 <= n /\ n <= asked
  BY <1>1 DEF Smaller
<1>3. CASE b = Unwound(frames, asked)
  BY <1>2, <1>3 DEF Unwound
<1>4. CASE b = Backtraced(frames, asked)
  BY <1>2, <1>4 DEF Backtraced
<1>5. QED
  BY <1>3, <1>4 DEF TraceBack

LEMMA StackStep ==
    ASSUME Inv, StatusKept, setting' = setting, NEW r \in Ranks, status[r] = "run",
           NEW frames \in Frames,
           \/ stack' = stack
           \/ \E b \in TraceBack(frames, setting[r].fullStackDepth) :
                 stack' = [stack EXCEPT ![r] = b]
    PROVE  StackInv' /\ stack' \in [Ranks -> [kept : Int, last : Int]]
<1>1. StackInv /\ stack \in [Ranks -> [kept : Int, last : Int]]
  BY DEF Inv, Types
<1>2. CASE stack' = stack
  BY <1>1, <1>2, StackKept
<1>3. CASE \E b \in TraceBack(frames, setting[r].fullStackDepth) :
              stack' = [stack EXCEPT ![r] = b]
  <2>1. PICK b \in TraceBack(frames, setting[r].fullStackDepth) :
                stack' = [stack EXCEPT ![r] = b]
    BY <1>3
  <2>2. setting[r].fullStackDepth \in Int /\ 0 <= setting[r].fullStackDepth
    <3>1. setting[r].fullStackDepth \in 0 .. MaxDepth
      BY SettingFacts DEF Inv, Types, SettingSet
    <3>2. MaxDepth \in Int
      BY OptionsAssumption DEF MaxDepth
    <3>3. QED
      BY <3>1, <3>2
  <2>3. /\ b \in [kept : Int, last : Int]
        /\ b.kept <= setting[r].fullStackDepth /\ b.last <= setting[r].fullStackDepth
    BY <2>2, TraceBackFacts
  <2>4. stack'[r] = b /\ \A q \in Ranks \ {r} : stack'[q] = stack[q]
    BY <1>1, <2>1
  <2>5. status'[r] # "start"
    BY DEF StatusKept
  <2>6. StackInv'
    BY <1>1, <2>3, <2>4, <2>5 DEF StackInv, StatusKept
  <2>7. QED
    BY <1>1, <2>1, <2>3, <2>6
<1>4. QED
  BY <1>2, <1>3

\* A line more is a line more that is expected.
LEMMA ExpectedAppend ==
    ASSUME FileTypes, NEW r \in Ranks, NEW line \in Lines,
           lines'[r] = Append(lines[r], line), setting' = setting
    PROVE  /\ Len(Expected(r)') = Len(Expected(r)) + 1
           /\ \A i \in 1 .. Len(Expected(r)) : Expected(r)'[i] = Expected(r)[i]
           /\ Expected(r)'[Len(Expected(r)) + 1] = line
<1> DEFINE h == IF setting[r].opened = <<>> THEN <<>> ELSE <<Header>>
<1>1. h \in Seq(Entries)
  <2>1. Header \in Entries
    BY DEF Entries
  <2>2. CASE setting[r].opened = <<>>
    BY <2>2
  <2>3. CASE setting[r].opened # <<>>
    BY <2>1, <2>3
  <2>4. QED
    BY <2>2, <2>3
<1>2. lines[r] \in Seq(Entries) /\ line \in Entries
  <2>1. Lines \subseteq Entries /\ lines[r] \in Seq(Lines)
    BY DEF Entries, FileTypes
  <2> HIDE DEF h
  <2>2. QED
    BY <2>1, SeqMonotonic
<1>3. Expected(r) = h \o lines[r] /\ Expected(r)' = h \o Append(lines[r], line)
  BY DEF Expected
<1> HIDE DEF h
<1> DEFINE a == Append(lines[r], line)
<1>4. /\ a \in Seq(Entries) /\ Len(a) = Len(lines[r]) + 1
      /\ \A i \in 1 .. Len(lines[r]) : a[i] = lines[r][i]
      /\ a[Len(lines[r]) + 1] = line
  BY <1>2, AppendProperties
<1> HIDE DEF a
<1>5. /\ Len(h \o lines[r]) = Len(h) + Len(lines[r])
      /\ \A i \in 1 .. Len(h) + Len(lines[r]) :
            (h \o lines[r])[i] = IF i <= Len(h) THEN h[i] ELSE lines[r][i - Len(h)]
  BY <1>1, <1>2, ConcatProperties
<1>6. /\ Len(h \o a) = Len(h) + Len(a)
      /\ \A i \in 1 .. Len(h) + Len(a) :
            (h \o a)[i] = IF i <= Len(h) THEN h[i] ELSE a[i - Len(h)]
  BY <1>1, <1>4, ConcatProperties
<1>7. PICK m \in Nat, n \in Nat : m = Len(h) /\ n = Len(lines[r])
  BY <1>1, <1>2
<1>8. \A i \in 1 .. m + n : (h \o a)[i] = (h \o lines[r])[i]
  <2>1. TAKE i \in 1 .. m + n
  <2>2. i \in 1 .. m + (n + 1) /\ (~(i <= m) => i - m \in 1 .. n)
    BY <1>7
  <2>3. (h \o a)[i] = IF i <= m THEN h[i] ELSE a[i - m]
    BY <1>4, <1>6, <1>7, <2>2
  <2>4. (h \o lines[r])[i] = IF i <= m THEN h[i] ELSE lines[r][i - m]
    BY <1>5, <1>7
  <2>5. ~(i <= m) => a[i - m] = lines[r][i - m]
    BY <1>4, <1>7, <2>2
  <2>6. QED
    BY <2>3, <2>4, <2>5
<1>9. (h \o a)[m + n + 1] = line
  <2>1. m + n + 1 \in 1 .. m + (n + 1) /\ ~(m + n + 1 <= m) /\ m + n + 1 - m = n + 1
    BY <1>7
  <2>2. (h \o a)[m + n + 1] = a[m + n + 1 - m]
    BY <1>4, <1>6, <1>7, <2>1
  <2>3. QED
    BY <1>4, <1>7, <2>1, <2>2
<1>10. Len(h \o lines[r]) = m + n /\ Len(h \o a) = m + n + 1
  BY <1>4, <1>5, <1>6, <1>7
<1>11. QED
  BY <1>3, <1>8, <1>9, <1>10 DEF a

LEMMA CallStep ==
    ASSUME Inv, NEW r \in Ranks, NEW t \in Threads, NEW c \in BOOLEAN, NEW f \in Frames,
           Call(r, t, c, f)
    PROVE  Inv'
<1>1. /\ status[r] = "run" /\ Idle(r, t)
      /\ UNCHANGED <<options, setting, files, regions, nest, fit, lines, cut>>
  BY DEF Call
<1>2. \/ stack' = stack
      \/ \E b \in TraceBack(f, setting[r].fullStackDepth) : stack' = [stack EXCEPT ![r] = b]
  BY DEF Call
<1>3. /\ SettingTypes /\ RegionTypes /\ PrintInv
      /\ printing \in [Ranks -> SUBSET Printings]
  BY DEF Inv, Types
<1>4. PICK begun \in Printings :
           begun = [thread |-> t, torn |-> entering[r] # <<>>, nest |-> nest[r]]
  <2>1. [thread |-> t, torn |-> entering[r] # <<>>, nest |-> nest[r]] \in Printings
    BY <1>3 DEF Printings, RegionTypes
  <2>2. QED
    BY <2>1
<1>5. /\ StatusKept /\ status' \in [Ranks -> {"start", "run", "exited", "wild"}]
      /\ \/ printing' = printing
         \/ Traced(r) /\ printing' = [printing EXCEPT ![r] = {begun}]
  <2>1. CASE setting[r].enabled /\ Traced(r)
    <3>1. \/ status' = [status EXCEPT ![r] = "wild"] /\ printing' = printing
          \/ /\ status' = status
             /\ printing' = printing \/ printing' = [printing EXCEPT ![r] = {begun}]
      BY <1>4, <2>1 DEF Call, EmitTrace
    <3>2. QED
      BY <1>1, <1>3, <2>1, <3>1, ExitStatus, SameStatus
  <2>2. CASE ~(setting[r].enabled /\ Traced(r))
    <3>1. UNCHANGED <<status, printing>>
      BY <2>2 DEF Call
    <3>2. QED
      BY <1>3, <3>1, SameStatus
  <2>3. QED
    BY <2>1, <2>2
<1>6. /\ begun.torn = (entering[r] # <<>>) /\ begun.nest = nest[r]
      /\ begun.thread = Main => entering[r] = <<>>
  BY <1>1, <1>4 DEF Idle
<1>7. printing' \in [Ranks -> SUBSET Printings]
  BY <1>3, <1>5, <1>4
<1>8. entering' = entering /\ nest' = nest /\ fit' = fit /\ setting' = setting
  BY <1>1 DEF regions
<1>9. PrintInv'
  <2>1. CASE printing' = printing
    BY <1>3, <1>5, <1>8, <2>1, PrintKept
  <2>2. CASE Traced(r) /\ printing' = [printing EXCEPT ![r] = {begun}]
    <3>1. printing'[r] = {begun} /\ \A q \in Ranks \ {r} : printing'[q] = printing[q]
      BY <1>3, <2>2
    <3>2. status'[r] # "start"
      BY <1>1, <1>5 DEF StatusKept
    <3>3. PrintOf(r, begun)'
      BY <1>6, <1>8, <2>2, <3>2 DEF PrintOf, Traced
    <3>4. \A p \in printing'[r] : PrintOf(r, p)'
      BY <3>1, <3>3
    <3>5. QED
      BY <1>3, <1>5, <1>8, <3>1, <3>4, PrintChanged
  <2>3. QED
    BY <1>5, <2>1, <2>2
<1>10. FileTypes' /\ HandleInv' /\ DiskInv'
  BY <1>1, <1>5, FilesKept DEF Inv, Types, files
<1>11. RegionsTraced'
  BY <1>1, TracedKept DEF Inv, Types, RegionTypes
<1>12. SettingTypes'
  BY <1>1, <1>5, SettingTypesKept DEF Inv, Types
<1>13. StackInv' /\ stack' \in [Ranks -> [kept : Int, last : Int]]
  BY <1>1, <1>2, <1>5, StackStep
<1>14. RegionTypes' /\ RegionInv'
  BY <1>1, RegionKept DEF Inv, Types, regions
<1>15. QED
  BY <1>7, <1>9, <1>10, <1>11, <1>12, <1>13, <1>14 DEF Inv, Types

\* The line that is printed.
LineOf(r, p) == [no |-> Len(lines[r]) + 1, thread |-> p.thread,
                 region |-> IF p.torn THEN Torn ELSE region[r], nest |-> p.nest]

\* It is torn, or has the path of the regions.
LEMMA LineFacts ==
    ASSUME Inv, NEW r \in Ranks, NEW p \in printing[r]
    PROVE  /\ LineOf(r, p) \in Lines /\ Traced(r)
           /\ fit[r] => LET l == LineOf(r, p) IN
                        /\ l.region # Torn => Path(l.region) = l.nest
                        /\ l.thread = Main => l.region # Torn
<1>1. FileTypes /\ RegionTypes /\ RegionInv /\ p \in Printings /\ PrintOf(r, p)
  BY DEF Inv, Types, PrintInv
<1>2. Torn \in Seq(Parts)
  BY DEF Torn, Coming, Part, Parts
<1>3. region[r] \in Seq(Parts) /\ p.nest \in Seq(NamesUsed) /\ p.thread \in Threads
      /\ p.torn \in BOOLEAN
  BY <1>1 DEF RegionTypes, Printings
<1> DEFINE l == LineOf(r, p)
<1>4. /\ l.thread = p.thread /\ l.nest = p.nest
      /\ l.region = IF p.torn THEN Torn ELSE region[r]
  BY DEF LineOf
<1>5. l \in Lines
  <2>1. Len(lines[r]) + 1 \in Nat
    BY <1>1 DEF FileTypes
  <2>2. QED
    BY <1>2, <1>3, <2>1 DEF LineOf, Lines
<1>6. Traced(r)
  BY <1>1 DEF PrintOf
<1> HIDE DEF l
<1>7. ASSUME fit[r]
      PROVE  (l.region # Torn => Path(l.region) = l.nest) /\ (l.thread = Main => l.region # Torn)
  <2>1. CASE p.torn
    BY <1>1, <1>4, <2>1 DEF PrintOf
  <2>2. CASE ~p.torn
    <3>1. entering[r] = <<>> /\ p.nest = nest[r]
      BY <1>1, <1>7, <2>2 DEF PrintOf
    <3>2. /\ Path(region[r]) = nest[r]
          /\ \A i \in 1 .. Len(region[r]) : region[r][i].name # NoName
      BY <1>1, <1>7, <3>1, RegionSettled
    <3>3. region[r] # Torn
      <4>1. Len(Torn) = 1 /\ Torn[1].name = NoName /\ 1 \in 1 .. 1
        BY DEF Torn, Coming, Part
      <4>2. SUFFICES ASSUME region[r] = Torn
                     PROVE  FALSE
        OBVIOUS
      <4>3. Torn[1].name # NoName
        BY <3>2, <4>1, <4>2
      <4>4. QED
        BY <4>1, <4>3
    <3>4. QED
      BY <1>4, <2>2, <3>1, <3>2, <3>3
  <2>3. QED
    BY <1>3, <2>1, <2>2
<1>8. QED
  BY <1>5, <1>6, <1>7 DEF l

LEMMA PrintLineStep ==
    ASSUME Inv, NEW r \in Ranks, PrintLine(r)
    PROVE  Inv'
<1>1. /\ SettingTypes /\ FileTypes /\ RegionTypes /\ RegionInv /\ HandleInv /\ DiskInv
      /\ printing \in [Ranks -> SUBSET Printings] /\ PrintInv
  BY DEF Inv, Types
<1>2. PICK o \in printing[r] :
           /\ lines' = [lines EXCEPT ![r] = Append(@, LineOf(r, o))]
           /\ handle' = [handle EXCEPT ![r].buffer = Append(@, LineOf(r, o))]
  BY <1>1 DEF PrintLine, LineOf, FileTypes
<1>3. PICK ln \in Lines :
           /\ ln = LineOf(r, o) /\ Traced(r)
           /\ fit[r] => /\ ln.region # Torn => Path(ln.region) = ln.nest
                        /\ ln.thread = Main => ln.region # Torn
  <2>1. /\ LineOf(r, o) \in Lines /\ Traced(r)
        /\ fit[r] => LET l == LineOf(r, o) IN
                     /\ l.region # Torn => Path(l.region) = l.nest
                     /\ l.thread = Main => l.region # Torn
    BY LineFacts
  <2>2. QED
    BY <2>1
<1>4. /\ ln \in Lines
      /\ lines' = [lines EXCEPT ![r] = Append(@, ln)]
      /\ lines'[r] = Append(lines[r], ln)
      /\ \A q \in Ranks \ {r} : lines'[q] = lines[q]
      /\ handle' = [handle EXCEPT ![r].buffer = Append(@, ln)]
      /\ status' = status /\ status[r] \in {"run", "exited"}
  BY <1>1, <1>2, <1>3 DEF PrintLine, FileTypes
<1>5. /\ UNCHANGED <<options, setting, disk, regions, region, entering, stack, nest, fit, cut>>
      /\ printing' = [printing EXCEPT ![r] = {}]
  BY DEF PrintLine, regions
<1>6. StatusKept /\ status' \in [Ranks -> {"start", "run", "exited", "wild"}]
  BY <1>1, <1>4, SameStatus
<1>7. lines' \in [Ranks -> Seq(Lines)]
  BY <1>1, <1>4 DEF FileTypes
<1>8. \A q \in Ranks \ {r} : handle'[q] = handle[q]
  BY <1>1, <1>4 DEF FileTypes
<1>9. handle' \in [Ranks -> Handles]
  <2>1. Append(handle[r].buffer, ln) \in Seq(Entries)
    <3>1. ln \in Entries
      BY <1>4 DEF Entries
    <3>2. QED
      BY <1>1, <3>1, HandleFacts
  <2>2. QED
    BY <1>1, <1>4, <2>1 DEF FileTypes, Handles
<1>10. FileTypes'
  BY <1>1, <1>5, <1>7, <1>9 DEF FileTypes
<1>11. RegionsTraced'
  <2>1. SUFFICES ASSUME NEW q \in Ranks, fit'[q], NEW i \in DOMAIN lines'[q]
                 PROVE  LET l == lines'[q][i] IN
                        /\ l.region # Torn => Path(l.region) = l.nest
                        /\ l.thread = Main => l.region # Torn
    BY DEF RegionsTraced
  <2>2. fit[q] /\ fit' = fit
    BY <1>5, <2>1
  <2>3. CASE i \in DOMAIN lines[q] /\ lines'[q][i] = lines[q][i]
    BY <2>2, <2>3 DEF Inv, RegionsTraced
  <2>4. CASE q = r /\ lines'[q][i] = ln
    BY <1>3, <2>2, <2>4
  <2>5. CASE q = r
    <3>1. PICK k \in Nat : k = Len(lines[r]) /\ DOMAIN lines[r] = 1 .. k
      BY <1>1 DEF FileTypes
    <3>2. lines[r] \in Seq(Lines)
      BY <1>1 DEF FileTypes
    <3>3. /\ Append(lines[r], ln) \in Seq(Lines) /\ Len(Append(lines[r], ln)) = k + 1
          /\ \A j \in 1 .. k : Append(lines[r], ln)[j] = lines[r][j]
          /\ Append(lines[r], ln)[k + 1] = ln
      BY <1>4, <3>1, <3>2, AppendProperties
    <3>4. DOMAIN Append(lines[r], ln) = 1 .. k + 1
      BY <3>3
    <3>5. i = k + 1 \/ i \in 1 .. k
      BY <1>4, <2>1, <2>5, <3>4
    <3>6. QED
      BY <1>4, <2>3, <2>4, <2>5, <3>1, <3>3, <3>5
  <2>6. CASE q # r
    BY <1>4, <2>1, <2>3, <2>6
  <2>7. QED
    BY <2>5, <2>6
<1>12. ASSUME NEW q \in Ranks \ {r}
       PROVE  HandleOf(q)' /\ DiskOf(q)'
  <2>1. HandleOf(q) /\ DiskOf(q) /\ q \in Ranks
    BY <1>1 DEF HandleInv, DiskInv
  <2>2. handle'[q] = handle[q] /\ lines'[q] = lines[q]
    BY <1>4, <1>8
  <2>3. /\ status'[q] = "start" => status[q] = "start"
        /\ status'[q] \in {"run", "exited"} => status[q] \in {"run", "exited"}
    BY <1>6 DEF StatusKept
  <2>4. HandleOf(q)'
    BY <1>5, <2>1, <2>2, <2>3, RankKept
  <2>5. DiskOf(q)'
    BY <1>5, <2>1, <2>2, <2>3, DiskKept
  <2>6. QED
    BY <2>4, <2>5
<1>13. HandleOf(r)' /\ DiskOf(r)'
  <2>1. /\ ~Overflow(options)
        /\ handle[r].file = TraceFileOf(options, r)
        /\ handle[r].pos + Len(handle[r].buffer) = Len(Expected(r))
        /\ \A i \in 1 .. Len(handle[r].buffer) :
              handle[r].buffer[i] = Expected(r)[handle[r].pos + i]
        /\ ~handle[r].flushed => handle[r].pos = 0
    BY <1>4, RunningHandle
  <2>2. /\ Len(Expected(r)') = Len(Expected(r)) + 1
        /\ \A i \in 1 .. Len(Expected(r)) : Expected(r)'[i] = Expected(r)[i]
        /\ Expected(r)'[Len(Expected(r)) + 1] = ln
    BY <1>1, <1>4, <1>5, ExpectedAppend
  <2>3. /\ handle'[r].buffer = Append(handle[r].buffer, ln)
        /\ handle'[r].pos = handle[r].pos /\ handle'[r].file = handle[r].file
        /\ handle'[r].flushed = handle[r].flushed
    BY <1>1, <1>4 DEF FileTypes, Handles
  <2>4. PICK p \in Nat, n \in Nat : p = handle[r].pos /\ n = Len(handle[r].buffer)
    BY <1>1, HandleFacts
  <2>5. Len(Expected(r)) = p + n
    BY <2>1, <2>4
  <2>6. /\ Len(handle'[r].buffer) = n + 1
        /\ \A i \in 1 .. n : handle'[r].buffer[i] = handle[r].buffer[i]
        /\ handle'[r].buffer[n + 1] = ln
    <3>1. handle[r].buffer \in Seq(Entries) /\ ln \in Entries
      BY <1>1, <1>4, HandleFacts DEF Entries
    <3>2. QED
      BY <2>3, <2>4, <3>1, AppendProperties
  <2>7. handle'[r].pos + Len(handle'[r].buffer) = Len(Expected(r)')
    <3>1. handle'[r].pos = p /\ Len(handle'[r].buffer) = n + 1
      BY <2>3, <2>4, <2>6
    <3>2. Len(Expected(r)') = p + (n + 1)
      BY <2>2, <2>5
    <3>3. QED
      BY <3>1, <3>2
  <2>8. ASSUME NEW i \in 1 .. n + 1
        PROVE  handle'[r].buffer[i] = Expected(r)'[p + i]
    <3>1. CASE i = n + 1
      <4>1. p + i = (p + n) + 1
        BY <3>1
      <4>2. QED
        BY <2>2, <2>5, <2>6, <3>1, <4>1
    <3>2. CASE i \in 1 .. n
      <4>1. p + i \in 1 .. p + n
        BY <3>2
      <4>2. QED
        BY <2>1, <2>2, <2>4, <2>5, <2>6, <3>2, <4>1
    <3>3. QED
      BY <3>1, <3>2
  <2>9. OwnOpened(r)' = OwnOpened(r) /\ Traced(r)' /\ OwnFile(r)' = OwnFile(r)
    BY <1>5, <1>3 DEF OwnOpened, Traced, OwnFile, Index
  <2>10. status'[r] \in {"run", "exited"}
    BY <1>4
  <2>11. HandleOf(r)'
    BY <1>5, <2>1, <2>3, <2>4, <2>6, <2>7, <2>8, <2>9, <2>10 DEF HandleOf, TraceFileOf, OwnOpened
  <2>12. ASSUME OwnFile(r), r \notin cut
         PROVE  LET d == disk[handle[r].file] IN
                /\ p <= Len(d) /\ Len(d) <= Len(Expected(r)')
                /\ \A i \in 1 .. p : d[i] = Expected(r)'[i]
    <3> DEFINE d == disk[handle[r].file]
    <3>1. p <= Len(d) /\ Len(d) <= Len(Expected(r)) /\ \A i \in 1 .. p : d[i] = Expected(r)[i]
      BY <1>1, <1>4, <2>4, <2>12 DEF DiskInv, DiskOf
    <3>2. Len(d) \in Nat
      BY <1>1, <1>4, RunningHandle, HandleFacts
    <3>3. \A i \in 1 .. p : i \in 1 .. p + n
      BY <2>4
    <3> HIDE DEF d
    <3>4. p <= Len(d) /\ Len(d) <= Len(Expected(r)')
      BY <2>2, <2>5, <3>1, <3>2
    <3>5. \A i \in 1 .. p : d[i] = Expected(r)'[i]
      BY <2>2, <2>5, <3>1, <3>3
    <3>6. QED
      BY <3>4, <3>5 DEF d
  <2>13. DiskOf(r)'
    BY <1>4, <1>5, <2>3, <2>4, <2>9, <2>12 DEF DiskOf
  <2>14. QED
    BY <2>11, <2>13
<1>14. HandleInv' /\ DiskInv'
  BY <1>12, <1>13 DEF HandleInv, DiskInv
<1>15. \A q \in Ranks : printing'[q] \subseteq printing[q]
  BY <1>1, <1>5
<1>16. PrintInv'
  BY <1>1, <1>5, <1>6, <1>15, PrintKept
<1>17. printing' \in [Ranks -> SUBSET Printings]
  BY <1>1, <1>5
<1>18. SettingTypes'
  BY <1>1, <1>5, <1>6, SettingTypesKept
<1>19. StackInv' /\ stack' \in [Ranks -> [kept : Int, last : Int]]
  BY <1>5, <1>6, StackKept DEF Inv, Types
<1>20. RegionTypes' /\ RegionInv'
  BY <1>1, <1>5, RegionKept
<1>21. QED
  BY <1>10, <1>11, <1>14, <1>16, <1>17, <1>18, <1>19, <1>20 DEF Inv, Types
-----------------------------------------------------------------------------
(***************************************************************************)
(* Start and the writes of stdio: the steps that reach other ranks' files. *)
(***************************************************************************)
LEMMA StartStep ==
    ASSUME Inv, NEW r \in Ranks, Start(r)
    PROVE  Inv'
<1> DEFINE s == Settings(options, r)
           file == IF s.opened # <<>> THEN Last(s.opened) ELSE <<"stdout", "rank", r>>
           h == IF s.opened # <<>> THEN <<Header>> ELSE <<>>
           st == IF Overflow(options) THEN "wild" ELSE "run"
           hd == [NoFile EXCEPT !.file = file, !.buffer = h]
<1>1. /\ SettingTypes /\ FileTypes /\ RegionTypes /\ RegionInv /\ HandleInv /\ DiskInv
      /\ StackInv /\ RegionsTraced /\ stack \in [Ranks -> [kept : Int, last : Int]]
  BY DEF Inv, Types
<1>2. /\ status[r] = "start"
      /\ setting' = [setting EXCEPT ![r] = s]
      /\ status' = [status EXCEPT ![r] = st]
      /\ disk' = [f \in Files |-> IF Contains(s.opened, f) THEN <<>> ELSE disk[f]]
      /\ handle' = [handle EXCEPT ![r] = hd]
      /\ cut' = cut \cup {q \in Ranks \ {r} : handle[q].flushed /\ Contains(s.opened, handle[q].file)}
      /\ UNCHANGED <<options, regions, printing, stack, nest, fit, lines>>
  BY DEF Start
<1>3. s \in SettingSet(options, r) /\ s.opened \in Seq(OpenedFiles(options, r))
  BY <1>1, SettingsFacts DEF SettingTypes
<1>4. st \in {"run", "wild"} /\ h \in Seq(Entries)
  <2>1. Header \in Entries
    BY DEF Entries
  <2>2. QED
    BY <2>1
<1>5. file \in AllFiles
  <2>1. CASE s.opened = <<>>
    BY <2>1 DEF AllFiles, Files
  <2>2. CASE s.opened # <<>>
    <3>1. file \in OpenedFiles(options, r)
      BY <1>3, <2>2, FrontFacts
    <3> HIDE DEF file
    <3>2. QED
      BY <1>1, <3>1 DEF AllFiles, SettingTypes
  <2>3. QED
    BY <2>1, <2>2
<1>6. TraceFileOf(options, r) = file
  BY DEF TraceFileOf, Stdout
<1> HIDE DEF s, file
<1>7. hd \in Handles
  BY <1>4, <1>5 DEF NoFile, Handles
<1>8. /\ hd.file = file /\ hd.pos = 0 /\ hd.buffer = h /\ hd.flushed = FALSE
  BY DEF NoFile
<1> HIDE DEF hd, st
<1>9. /\ setting'[r] = s /\ status'[r] = st /\ handle'[r] = hd
      /\ \A q \in Ranks \ {r} : /\ setting'[q] = setting[q] /\ status'[q] = status[q]
                                /\ handle'[q] = handle[q]
  BY <1>1, <1>2 DEF SettingTypes, FileTypes
<1>10. SettingTypes'
  <2>1. st \in {"start", "run", "exited", "wild"} /\ st # "start"
    BY <1>4
  <2>2. QED
    BY <1>1, <1>2, <2>1 DEF SettingTypes, s
<1>11. FileTypes'
  <2>1. disk' \in [Files -> Seq(Entries)]
    BY <1>1, <1>2 DEF FileTypes
  <2>2. handle' \in [Ranks -> Handles]
    BY <1>1, <1>2, <1>7 DEF FileTypes
  <2>3. QED
    BY <1>1, <1>2, <2>1, <2>2 DEF FileTypes
<1>12. RegionTypes' /\ RegionInv' /\ RegionsTraced'
  BY <1>1, <1>2, RegionKept, TracedKept DEF regions, RegionTypes
<1>13. StackInv'
  <2>1. s.fullStackDepth \in 0 .. MaxDepth /\ MaxDepth \in Int
    BY <1>3, OptionsAssumption DEF SettingSet, MaxDepth
  <2>2. stack[r] = [kept |-> 0, last |-> -1]
    BY <1>1, <1>2 DEF StackInv
  <2>3. 0 <= s.fullStackDepth /\ -1 <= s.fullStackDepth
    BY <2>1
  <2>4. st # "start"
    BY <1>4
  <2>5. QED
    BY <1>1, <1>2, <1>9, <2>2, <2>3, <2>4 DEF StackInv
<1>14. \A q \in Ranks : Stdout(q) \in Files /\ ~Contains(s.opened, Stdout(q))
  <2>1. TAKE q \in Ranks
  <2>2. \A a : <<a>> # Stdout(q) /\ <<a, r>> # Stdout(q)
    BY DEF Stdout
  <2>3. Stdout(q) \notin OpenedFiles(options, r)
    BY <2>2 DEF OpenedFiles
  <2>4. \A i \in 1 .. Len(s.opened) : s.opened[i] \in OpenedFiles(options, r)
    BY <1>3, ElementOfSeq
  <2>5. QED
    BY <2>3, <2>4 DEF Contains, Files, Stdout
<1>15. \A q \in Ranks : disk'[Stdout(q)] = disk[Stdout(q)]
  BY <1>2, <1>14
<1>16. ASSUME NEW q \in Ranks \ {r}
       PROVE  HandleOf(q)' /\ DiskOf(q)'
  <2>1. HandleOf(q) /\ DiskOf(q) /\ q \in Ranks
    BY <1>1 DEF HandleInv, DiskInv
  <2>2. /\ setting'[q] = setting[q] /\ status'[q] = status[q] /\ handle'[q] = handle[q]
        /\ lines'[q] = lines[q] /\ options' = options
    BY <1>2, <1>9
  <2>3. HandleOf(q)'
    BY <1>15, <2>1, <2>2, RankKept
  <2>4. Expected(q)' = Expected(q)
    BY <2>2 DEF Expected
  <2>5. CASE status[q] \notin {"run", "exited"} \/ q \in cut'
    BY <2>2, <2>3, <2>5 DEF DiskOf
  <2>6. CASE status[q] \in {"run", "exited"} /\ q \notin cut'
    <3>1. handle[q].file \in Files
      BY <2>6, RunningHandle
    <3>2. CASE Contains(s.opened, handle[q].file)
      <4>1. ~handle[q].flushed
        BY <1>2, <2>6, <3>2
      <4>2. handle[q].pos = 0
        BY <2>6, <4>1, RunningHandle
      <4>3. disk'[handle[q].file] = <<>>
        BY <1>2, <3>1, <3>2
      <4>4. Len(Expected(q)) \in Nat
        BY <1>1, ExpectedFacts, LenProperties
      <4>5. Len(disk'[handle[q].file]) = 0
        BY <4>3
      <4>6. QED
        BY <2>2, <2>3, <2>4, <4>2, <4>4, <4>5 DEF DiskOf
    <3>3. CASE ~Contains(s.opened, handle[q].file)
      <4>1. disk'[handle[q].file] = disk[handle[q].file]
        BY <1>2, <3>1, <3>3
      <4>2. q \in cut => q \in cut'
        BY <1>2
      <4>3. QED
        BY <2>1, <2>2, <2>3, <4>1, <4>2, DiskKept
    <3>4. QED
      BY <3>2, <3>3
  <2>7. QED
    BY <2>3, <2>5, <2>6
<1>17. HandleOf(r)' /\ DiskOf(r)'
  <2>1. CASE Overflow(options)
    <3>1. status'[r] = "wild"
      BY <1>9, <2>1 DEF st
    <3>2. QED
      BY <3>1 DEF HandleOf, DiskOf
  <2>2. CASE ~Overflow(options)
    <3>1. status'[r] = "run"
      BY <1>9, <2>2 DEF st
    <3>2. lines[r] = <<>> /\ disk[Stdout(r)] = <<>>
      BY <1>1, <1>2 DEF HandleInv, HandleOf
    <3>3. Expected(r)' = h
      <4>1. Expected(r)' = h \o <<>>
        BY <1>2, <1>9, <3>2 DEF Expected
      <4> HIDE DEF h
      <4>2. QED
        BY <1>4, <4>1, ConcatEmptySeq
    <3>4. PICK k \in Nat : k = Len(h)
      BY <1>4
    <3>5. handle'[r].pos + Len(handle'[r].buffer) = Len(Expected(r)')
      <4> HIDE DEF h
      <4>1. QED
        BY <1>8, <1>9, <3>3, <3>4
    <3>6. ASSUME NEW i \in 1 .. k
          PROVE  h[i] = h[0 + i]
      <4>1. 0 + i = i
        OBVIOUS
      <4>2. QED
        BY <4>1
    <3>7. OwnOpened(r)' = s.opened
      BY <1>2 DEF OwnOpened, s
    <3>8. file = IF s.opened = <<>> THEN Stdout(r) ELSE Last(s.opened)
      BY DEF file, Stdout
    <3> HIDE DEF h
    <3>9. \A i \in 1 .. Len(handle'[r].buffer) :
              handle'[r].buffer[i] = Expected(r)'[handle'[r].pos + i]
      BY <1>8, <1>9, <3>3, <3>4, <3>6
    <3>10. HandleOf(r)'
      BY <1>2, <1>8, <1>9, <2>2, <3>1, <3>2, <3>5, <3>7, <3>8, <3>9 DEF HandleOf
    <3>11. disk'[file] = <<>>
      <4>1. file \in Files /\ (s.opened # <<>> => Contains(s.opened, file))
        BY <1>1, <1>6, <2>2, TraceFileFacts DEF SettingTypes, s
      <4>2. CASE s.opened = <<>>
        <5>1. file = Stdout(r)
          BY <3>8, <4>2
        <5>2. QED
          BY <1>15, <3>2, <5>1
      <4>3. CASE s.opened # <<>>
        BY <1>2, <4>1, <4>3
      <4>4. QED
        BY <4>2, <4>3
    <3>12. handle'[r].file = file /\ handle'[r].pos = 0 /\ Len(disk'[file]) = 0
      BY <1>8, <1>9, <3>11
    <3>13. Len(Expected(r)') = k
      BY <3>3, <3>4
    <3>14. 0 <= k /\ 1 .. 0 = {}
      OBVIOUS
    <3>15. DiskOf(r)'
      BY <3>12, <3>13, <3>14 DEF DiskOf
    <3>16. QED
      BY <3>10, <3>15
  <2>3. QED
    BY <2>1, <2>2
<1>18. HandleInv' /\ DiskInv'
  BY <1>16, <1>17 DEF HandleInv, DiskInv
<1>19. printing' \in [Ranks -> SUBSET Printings] /\ PrintInv'
  <2>1. printing \in [Ranks -> SUBSET Printings] /\ PrintInv
    BY DEF Inv, Types
  <2>2. SUFFICES ASSUME NEW q \in Ranks, NEW p \in printing[q]
                 PROVE  PrintOf(q, p)'
    BY <1>2, <2>1 DEF PrintInv
  <2>3. PrintOf(q, p)
    BY <2>1, <2>2 DEF PrintInv
  <2>4. q # r
    BY <1>2, <2>3 DEF PrintOf
  <2>5. QED
    BY <1>2, <1>9, <2>3, <2>4 DEF PrintOf, Traced, regions
<1>20. QED
  BY <1>1, <1>2, <1>10, <1>11, <1>12, <1>13, <1>18, <1>19 DEF Inv, Types

\* What another rank writes to a file that is shared: its header, at the
\* beginning, or nothing.
LEMMA SharedWrite ==
    ASSUME NEW d \in Seq(Entries), NEW p \in Nat, NEW b \in Seq(Entries),
           NEW e \in Seq(Entries), p + Len(b) = 1, Len(b) = 1 => b[1] = Header,
           NEW k \in Nat, k <= Len(d), Len(d) <= Len(e), 1 <= Len(e), e[1] = Header,
           \A i \in 1 .. k : d[i] = e[i]
    PROVE  /\ k <= Len(Written(d, p, b)) /\ Len(Written(d, p, b)) <= Len(e)
           /\ \A i \in 1 .. k : Written(d, p, b)[i] = e[i]
<1> DEFINE w == Written(d, p, b)
<1>1. Hole \in Entries
  BY DEF Entries
<1>2. /\ Len(w) = IF b # <<>> /\ p + Len(b) > Len(d) THEN p + Len(b) ELSE Len(d)
      /\ \A i \in 1 .. Len(w) :
            w[i] = IF i > p /\ i <= p + Len(b) THEN b[i - p]
                   ELSE IF i <= Len(d) THEN d[i] ELSE Hole
  BY <1>1, WrittenFacts
<1> HIDE DEF w
<1>3. PICK m \in Nat, n \in Nat, l \in Nat : m = Len(d) /\ n = Len(e) /\ l = Len(b)
  BY LenProperties
<1>4. PICK x \in Nat : x = Len(w) /\ k <= x /\ x <= n /\ m <= x
  <2>1. CASE b # <<>> /\ p + Len(b) > Len(d)
    <3>1. Len(w) = 1 /\ 1 > m
      BY <1>2, <1>3, <2>1
    <3>2. QED
      BY <1>3, <3>1
  <2>2. CASE ~(b # <<>> /\ p + Len(b) > Len(d))
    <3>1. Len(w) = m
      BY <1>2, <1>3, <2>2
    <3>2. QED
      BY <1>3, <3>1
  <2>3. QED
    BY <2>1, <2>2
<1>5. ASSUME NEW i \in 1 .. k
      PROVE  w[i] = e[i]
  <2>1. i \in 1 .. x /\ i <= m
    BY <1>3, <1>4
  <2>2. CASE i > p /\ i <= p + l
    <3>1. i = 1 /\ i - p = 1 /\ l = 1
      BY <1>3, <2>2
    <3>2. w[i] = b[i - p]
      BY <1>2, <1>3, <1>4, <2>1, <2>2
    <3>3. QED
      BY <1>3, <3>1, <3>2
  <2>3. CASE ~(i > p /\ i <= p + l)
    <3>1. w[i] = d[i]
      BY <1>2, <1>3, <1>4, <2>1, <2>3
    <3>2. QED
      BY <3>1
  <2>4. QED
    BY <2>2, <2>3
<1>6. QED
  BY <1>3, <1>4, <1>5 DEF w

LEMMA FlushedStep ==
    ASSUME Inv, NEW r \in Ranks, status[r] \in {"run", "exited"}, NEW closed \in BOOLEAN,
           Flushed(r, closed), StatusKept, \A q \in Ranks \ {r} : status'[q] = status[q],
           status' \in [Ranks -> {"start", "run", "exited", "wild"}],
           UNCHANGED <<options, setting, regions, stack, history>>,
           printing' = printing \/ printing' = [printing EXCEPT ![r] = {}]
    PROVE  Inv'
<1> DEFINE F == handle[r].file
           p == handle[r].pos
           b == handle[r].buffer
           w == Written(disk[F], p, b)
<1>1. /\ SettingTypes /\ FileTypes /\ RegionTypes /\ RegionInv /\ HandleInv /\ DiskInv
      /\ StackInv /\ RegionsTraced /\ stack \in [Ranks -> [kept : Int, last : Int]]
  BY DEF Inv, Types
<1>2. UNCHANGED <<options, setting, region, entering, stack, nest, fit, lines, cut>>
  BY DEF regions, history
<1>3. /\ ~Overflow(options) /\ options \in OptionLists /\ setting[r] = Settings(options, r)
      /\ F = TraceFileOf(options, r) /\ F \in Files
      /\ p + Len(b) = Len(Expected(r))
      /\ \A i \in 1 .. Len(b) : b[i] = Expected(r)[p + i]
      /\ ~Traced(r) => lines[r] = <<>>
  BY RunningHandle
<1>4. p \in Nat /\ b \in Seq(Entries) /\ disk[F] \in Seq(Entries) /\ Len(b) \in Nat
  BY <1>1, <1>3, HandleFacts
<1>5. /\ disk' = [disk EXCEPT ![F] = w]
      /\ handle' = [handle EXCEPT ![r].pos = @ + Len(b), ![r].buffer = <<>>,
                                  ![r].flushed = TRUE, ![r].closed = closed]
  BY <1>1, <1>3 DEF Flushed, FileTypes
<1>6. w \in Seq(Entries)
  <2>1. Hole \in Entries
    BY DEF Entries
  <2> HIDE DEF F, p, b
  <2>2. QED
    BY <1>4, <2>1, WrittenFacts
<1>7. Seen(r) = w
  BY DEF Seen
<1> HIDE DEF w
<1>8. disk'[F] = w /\ \A f \in Files \ {F} : disk'[f] = disk[f]
  BY <1>1, <1>3, <1>5 DEF FileTypes
<1>9. /\ handle'[r].file = F /\ handle'[r].pos = Len(Expected(r))
      /\ handle'[r].buffer = <<>> /\ handle'[r].flushed = TRUE
      /\ \A q \in Ranks \ {r} : handle'[q] = handle[q]
  BY <1>1, <1>3, <1>5 DEF FileTypes, Handles
<1>10. FileTypes'
  <2>1. disk' \in [Files -> Seq(Entries)]
    BY <1>1, <1>5, <1>6 DEF FileTypes
  <2>2. PICK n \in Nat : n = p + Len(b)
    BY <1>4
  <2> DEFINE hd == [handle[r] EXCEPT !.pos = n, !.buffer = <<>>,
                                     !.flushed = TRUE, !.closed = closed]
  <2>3. handle' = [handle EXCEPT ![r] = hd]
    BY <1>5, <2>2
  <2>4. handle' \in [Ranks -> Handles]
    <3>1. handle[r] \in Handles /\ <<>> \in Seq(Entries)
      BY <1>1 DEF FileTypes
    <3>2. hd \in Handles
      BY <3>1 DEF Handles
    <3> HIDE DEF hd
    <3>3. QED
      BY <1>1, <2>3, <3>2 DEF FileTypes
  <2>5. QED
    BY <1>1, <1>2, <2>1, <2>4 DEF FileTypes
<1>11. SettingTypes' /\ StackInv' /\ RegionTypes' /\ RegionInv' /\ RegionsTraced'
  <2>1. SettingTypes'
    BY <1>1, <1>2, SettingTypesKept
  <2>2. StackInv'
    BY <1>1, <1>2, StackKept
  <2>3. RegionTypes' /\ RegionInv'
    BY <1>1, <1>2, RegionKept
  <2>4. RegionsTraced'
    BY <1>1, <1>2, TracedKept DEF RegionTypes
  <2>5. QED
    BY <2>1, <2>2, <2>3, <2>4
<1>12. ASSUME NEW q \in Ranks
       PROVE  /\ Expected(q)' = Expected(q) /\ OwnOpened(q)' = OwnOpened(q)
              /\ Traced(q)' = Traced(q) /\ OwnFile(q)' = OwnFile(q)
  BY <1>2 DEF Expected, OwnOpened, Traced, OwnFile, Index
<1>13. HandleOf(r)' /\ DiskOf(r)'
  <2>1. HandleOf(r) /\ DiskOf(r)
    BY <1>1 DEF HandleInv, DiskInv
  <2>2. PICK n \in Nat : n = Len(Expected(r))
    BY <1>1, ExpectedFacts, LenProperties
  <2>3. Len(handle'[r].buffer) = 0 /\ n + 0 = n /\ 1 .. 0 = {}
    BY <1>9
  <2>4. status'[r] # "start"
    BY DEF StatusKept
  <2>5. handle'[r].file = IF OwnOpened(r) = <<>> THEN Stdout(r) ELSE Last(OwnOpened(r))
    BY <1>3, <1>9 DEF TraceFileOf, OwnOpened
  <2>6. handle'[r].pos + Len(handle'[r].buffer) = Len(Expected(r)')
    BY <1>9, <1>12, <2>2, <2>3
  <2>7. \A i \in 1 .. Len(handle'[r].buffer) :
            handle'[r].buffer[i] = Expected(r)'[handle'[r].pos + i]
    BY <2>3
  <2>8. ~Traced(r)' => lines'[r] = <<>>
    BY <1>2, <1>3, <1>12
  <2>9. HandleOf(r)'
    BY <1>2, <1>3, <1>9, <1>12, <2>4, <2>5, <2>6, <2>7, <2>8 DEF HandleOf
  <2>10. ASSUME OwnFile(r), r \notin cut
         PROVE  w = Expected(r)
    <3>1. /\ p <= Len(disk[F]) /\ Len(disk[F]) <= Len(Expected(r))
          /\ \A i \in 1 .. p : disk[F][i] = Expected(r)[i]
      BY <2>1, <2>10 DEF DiskOf
    <3>2. QED
      BY <1>1, <1>3, <1>7, <3>1, SeenExpected
  <2>11. DiskOf(r)'
    <3>1. SUFFICES ASSUME OwnFile(r), r \notin cut
                   PROVE  LET d == disk'[handle'[r].file] IN
                          /\ handle'[r].pos <= Len(d) /\ Len(d) <= Len(Expected(r))
                          /\ \A i \in 1 .. handle'[r].pos : d[i] = Expected(r)[i]
      BY <1>2, <1>12 DEF DiskOf
    <3>2. disk'[handle'[r].file] = Expected(r)
      BY <1>8, <1>9, <2>10, <3>1
    <3>3. n <= n
      BY <2>2
    <3>4. QED
      BY <1>9, <2>2, <3>2, <3>3
  <2>12. QED
    BY <2>9, <2>11
<1>14. ASSUME NEW q \in Ranks \ {r}
       PROVE  HandleOf(q)' /\ DiskOf(q)'
  <2>1. HandleOf(q) /\ DiskOf(q) /\ q \in Ranks
    BY <1>1 DEF HandleInv, DiskInv
  <2>2. /\ setting'[q] = setting[q] /\ status'[q] = status[q] /\ handle'[q] = handle[q]
        /\ lines'[q] = lines[q] /\ options' = options
    BY <1>2, <1>9
  <2>3. disk'[Stdout(q)] = disk[Stdout(q)]
    <3>1. Stdout(q) # F
      BY <1>3, TraceFileFacts
    <3>2. Stdout(q) \in Files
      BY DEF Stdout, Files
    <3>3. QED
      BY <1>8, <3>1, <3>2
  <2>4. HandleOf(q)'
    BY <2>1, <2>2, <2>3, RankKept
  <2>5. CASE status[q] \in {"run", "exited"} /\ OwnFile(q) /\ q \notin cut /\ handle[q].file = F
    <3>1. handle[q].file = TraceFileOf(options, q) /\ setting[q] = Settings(options, q)
      BY <2>5, RunningHandle
    <3>2. q = 0 /\ Flagged(options, "A") = {} /\ Flagged(options, "a") # {}
      BY <1>3, <2>1, <2>5, <3>1, TraceFileFacts
    <3>3. ~Traced(r) /\ setting[r].opened # <<>> /\ setting[q].opened # <<>>
      BY <1>3, <3>1, <3>2, OpenedBy DEF Traced
    <3>4. Expected(r) = <<Header>> /\ Len(Expected(r)) = 1 /\ Expected(r)[1] = Header
      <4>1. lines[r] = <<>>
        BY <1>3, <3>3
      <4>2. Expected(r) = <<Header>>
        BY <1>1, <3>3, <4>1, ExpectedFacts
      <4>3. QED
        BY <4>2
    <3>5. /\ Expected(q) \in Seq(Entries) /\ Expected(q)[1] = Header
          /\ 1 <= Len(Expected(q))
      <4>1. /\ Len(lines[q]) \in Nat
            /\ Len(Expected(q)) = Len(lines[q]) + (IF setting[q].opened = <<>> THEN 0 ELSE 1)
        BY <1>1, ExpectedFacts
      <4>2. PICK k \in Nat : k = Len(lines[q])
        BY <4>1
      <4>3. Len(Expected(q)) = k + 1 /\ 1 <= k + 1
        BY <3>3, <4>1, <4>2
      <4>4. Expected(q) \in Seq(Entries) /\ Expected(q)[1] = Header
        BY <1>1, <3>3, ExpectedFacts
      <4>5. QED
        BY <4>3, <4>4
    <3>6. Len(b) = 1 => b[1] = Header
      <4>1. SUFFICES ASSUME Len(b) = 1
                     PROVE  b[1] = Header
        OBVIOUS
      <4>2. p + 1 = 1 /\ 1 \in 1 .. 1
        BY <1>3, <3>4, <4>1
      <4>3. b[1] = Expected(r)[p + 1]
        BY <1>3, <4>1, <4>2
      <4>4. QED
        BY <3>4, <4>2, <4>3
    <3>7. /\ handle[q].pos <= Len(disk[F]) /\ Len(disk[F]) <= Len(Expected(q))
          /\ \A i \in 1 .. handle[q].pos : disk[F][i] = Expected(q)[i]
      BY <2>1, <2>5 DEF DiskOf
    <3>8. handle[q].pos \in Nat
      BY <1>1, HandleFacts
    <3>9. p + Len(b) = 1
      BY <1>3, <3>4
    <3>10. w = Written(disk[F], p, b)
      BY DEF w
    <3> HIDE DEF F, p, b
    <3>11. /\ handle[q].pos <= Len(w) /\ Len(w) <= Len(Expected(q))
           /\ \A i \in 1 .. handle[q].pos : w[i] = Expected(q)[i]
      <4> DEFINE d == disk[F]
                 e == Expected(q)
                 k == handle[q].pos
      <4>1. d \in Seq(Entries) /\ e \in Seq(Entries) /\ k \in Nat /\ p \in Nat /\ b \in Seq(Entries)
        BY <1>4, <3>5, <3>8
      <4>2. k <= Len(d) /\ Len(d) <= Len(e) /\ (\A i \in 1 .. k : d[i] = e[i])
        BY <3>7
      <4>3. e[1] = Header /\ 1 <= Len(e)
        BY <3>5
      <4>4. w = Written(d, p, b)
        BY <3>10
      <4> HIDE DEF d, e, k
      <4>5. k <= Len(w) /\ Len(w) <= Len(e) /\ \A i \in 1 .. k : w[i] = e[i]
        BY <3>6, <3>9, <4>1, <4>2, <4>3, <4>4, SharedWrite
      <4>6. QED
        BY <4>5 DEF e, k
    <3>12. Expected(q)' = Expected(q)
      BY <1>12, <2>1
    <3>13. DiskOf(q)'
      BY <1>8, <2>2, <2>5, <3>11, <3>12 DEF DiskOf
    <3>14. QED
      BY <2>4, <3>13
  <2>6. CASE status[q] \in {"run", "exited"} /\ OwnFile(q) /\ q \notin cut /\ handle[q].file # F
    <3>1. handle[q].file \in Files
      BY <2>6, RunningHandle
    <3>2. disk'[handle[q].file] = disk[handle[q].file]
      BY <1>8, <2>6, <3>1
    <3>3. q \in cut => q \in cut'
      BY <1>2
    <3>4. DiskOf(q)'
      BY <2>1, <2>2, <3>2, <3>3, DiskKept
    <3>5. QED
      BY <2>4, <3>4
  <2>7. CASE ~(status[q] \in {"run", "exited"} /\ OwnFile(q) /\ q \notin cut)
    <3>1. OwnFile(q)' = OwnFile(q) /\ cut' = cut
      BY <1>2, <1>12, <2>1
    <3>2. DiskOf(q)'
      BY <2>2, <2>7, <3>1 DEF DiskOf
    <3>3. QED
      BY <2>4, <3>2
  <2>8. QED
    BY <2>5, <2>6, <2>7
<1>15. HandleInv' /\ DiskInv'
  BY <1>13, <1>14 DEF HandleInv, DiskInv
<1>16. printing' \in [Ranks -> SUBSET Printings] /\ PrintInv'
  <2>1. printing \in [Ranks -> SUBSET Printings] /\ PrintInv
    BY DEF Inv, Types
  <2>2. /\ printing' \in [Ranks -> SUBSET Printings]
        /\ \A q \in Ranks : printing'[q] \subseteq printing[q]
    BY <2>1
  <2>3. QED
    BY <1>2, <2>1, <2>2, PrintKept
<1>17. QED
  BY <1>1, <1>2, <1>10, <1>11, <1>15, <1>16 DEF Inv, Types

LEMMA WriteSteps ==
    ASSUME Inv, NEW r \in Ranks, Flush(r) \/ FinalizeTrace(r) \/ End(r)
    PROVE  Inv'
<1>1. SettingTypes
  BY DEF Inv, Types
<1>2. CASE Flush(r)
  <2>1. StatusKept /\ status' \in [Ranks -> {"start", "run", "exited", "wild"}]
        /\ status' = status
    BY <1>1, <1>2, SameStatus DEF Flush
  <2>2. QED
    BY <1>2, <2>1, FlushedStep DEF Flush
<1>3. CASE FinalizeTrace(r)
  <2>1. StatusKept /\ status' \in [Ranks -> {"start", "run", "exited", "wild"}]
        /\ status' = status
    BY <1>1, <1>3, SameStatus DEF FinalizeTrace
  <2>2. QED
    BY <1>3, <2>1, FlushedStep DEF FinalizeTrace
<1>4. CASE End(r)
  <2>1. /\ status[r] \in {"run", "exited"}
        /\ \E s \in {"exited", "wild"} : status' = [status EXCEPT ![r] = s]
    BY <1>4 DEF End
  <2>2. /\ StatusKept /\ status' \in [Ranks -> {"start", "run", "exited", "wild"}]
        /\ \A q \in Ranks \ {r} : status'[q] = status[q]
    BY <1>1, <2>1 DEF SettingTypes, StatusKept
  <2>3. QED
    BY <1>4, <2>1, <2>2, FlushedStep DEF End
<1>5. QED
  BY <1>2, <1>3, <1>4
-----------------------------------------------------------------------------
(***************************************************************************)
(* The theorems.                                                           *)
(***************************************************************************)
LEMMA InvStep == Inv /\ [Next]_vars => Inv'
<1>1. ASSUME Inv, Next
      PROVE  Inv'
  <2>1. PICK r \in Ranks :
            \/ Start(r)
            \/ \E t \in Threads, c \in BOOLEAN, f \in Frames : Call(r, t, c, f)
            \/ PrintLine(r)
            \/ \E n \in DOMAIN Names : EnterDotted(r, n)
            \/ \E n \in DOMAIN Names : EnterFirst(r, n)
            \/ \E n \in DOMAIN Names : EnterNested(r, n)
            \/ EnterName(r)
            \/ Exit(r)
            \/ Flush(r)
            \/ FinalizeTrace(r)
            \/ End(r)
    BY <1>1 DEF Next
  <2>2. CASE Start(r)
    BY <1>1, <2>2, StartStep
  <2>3. CASE \E t \in Threads, c \in BOOLEAN, f \in Frames : Call(r, t, c, f)
    BY <1>1, <2>3, CallStep
  <2>4. CASE \E n \in DOMAIN Names : EnterDotted(r, n)
    BY <1>1, <2>4, EnterDottedStep
  <2>5. CASE \E n \in DOMAIN Names : EnterFirst(r, n)
    BY <1>1, <2>5, EnterFirstStep
  <2>6. CASE \E n \in DOMAIN Names : EnterNested(r, n)
    BY <1>1, <2>6, EnterNestedStep
  <2>7. CASE EnterName(r)
    BY <1>1, <2>7, EnterNameStep
  <2>8. CASE Exit(r)
    BY <1>1, <2>8, ExitStep
  <2>9. CASE Flush(r) \/ FinalizeTrace(r) \/ End(r)
    BY <1>1, <2>9, WriteSteps
  <2>10. CASE PrintLine(r)
    BY <1>1, <2>10, PrintLineStep
  <2>11. QED
    BY <2>1, <2>2, <2>3, <2>4, <2>5, <2>6, <2>7, <2>8, <2>9, <2>10
<1>2. ASSUME Inv, UNCHANGED vars
      PROVE  Inv'
  <2>1. UNCHANGED <<options, setting, status, disk, handle, region, entering,
                    printing, stack, nest, fit, lines, cut>>
    BY <1>2 DEF vars, files, regions, history
  <2>2. StatusKept /\ status' \in [Ranks -> {"start", "run", "exited", "wild"}]
    BY <1>2, <2>1, SameStatus DEF Inv, Types
  <2>3. RegionTypes' /\ RegionInv'
    BY <1>2, <2>1, RegionKept DEF Inv, Types
  <2>4. \A r \in Ranks : fit'[r] => fit[r]
    BY <2>1
  <2>5. printing' \in [Ranks -> SUBSET Printings] /\ PrintInv'
    BY <1>2, <2>1, <2>2, PrintKept DEF Inv, Types
  <2>6. QED
    BY <1>2, <2>1, <2>2, <2>3, <2>4, <2>5, RegionStep DEF files
<1>3. QED
  BY <1>1, <1>2

\* In every run the invariant holds: the types, what a traceback writes, the
\* path of the regions, and what is written and buffered of each trace.
THEOREM TracingInvariant == Spec => []Inv
<1>1. QED
  BY InitInv, InvStep, PTL DEF Spec

\* Whatever the options and their order, no later code leaves an array by
\* them or computes a variation over sites that are not told apart
\* (mpiPi_getenv, mpiPi_RecordTraceBack).
THEOREM SafeAlways == Spec => []OptionsSafe
<1>1. QED
  BY TracingInvariant, SafeOptions, PTL

\* However deep the regions are nested and however the steps of the threads
\* interleave, copying a name and printing one included, a line of Main names
\* the regions that the program was in when the call was traced, and so does
\* a line of another thread unless Main was entering or leaving a region
\* while it was printed; as long as every name had room (mpiP_region_enter,
\* mpiP_region_exit, emit_trace_p2p).
THEOREM TracedAlways == Spec => []RegionsTraced
<1>1. Inv => RegionsTraced
  BY DEF Inv
<1>2. QED
  BY <1>1, TracingInvariant, PTL

\* Nothing is lost of the trace of a rank that has its file to itself, or
\* shares it with ranks that are not traced, in any order of the ranks'
\* starts, of the flushes of stdio and of the ends, except what another
\* rank's start truncates (emit_trace_p2p, the options -a and -A).
THEOREM KeptAlways == Spec => []TraceKept
<1>1. QED
  BY TracingInvariant, KeptTrace, PTL
=============================================================================
