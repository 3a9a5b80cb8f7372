-------------------------- MODULE TLSRegistryProofs --------------------------
(***************************************************************************)
(* Proofs about the list and the registry built on it.  The list, as its   *)
(* header allows it to be used: with appends that race with the extracting *)
(* thread the dequeues return the elements in the order of the swaps, even *)
(* after the race in which the list loses what was appended behind its     *)
(* last element.  The registry: RegistryInv is an inductive invariant, for *)
(* any number of threads and handles, it implies the safety properties     *)
(* that the runs check, and the registry implements a queue.               *)
(***************************************************************************)
EXTENDS RegistryQueue, FoldTheorems, SequenceTheorems, TLAPS

(* What Append does to a sequence of handles. *)
LEMMA AppendFacts ==
    ASSUME NEW s \in Seq(Handles), NEW h \in Handles
    PROVE  /\ Append(s, h) \in Seq(Handles)
           /\ Len(Append(s, h)) = Len(s) + 1
           /\ \A i \in 1..Len(s) : Append(s, h)[i] = s[i]
           /\ Append(s, h)[Len(s) + 1] = h
  OBVIOUS

-----------------------------------------------------------------------------
(***************************************************************************)
(* The list.                                                               *)
(***************************************************************************)
(* Each handle is swapped in once. *)
Swapped ==
    /\ \A i, j \in 1..Len(order) : order[i] = order[j] => i = j
    /\ \A h \in Handles : apc[h] # "new" <=> \E i \in 1..Len(order) : order[i] = h

(* What was taken came first, completely appended; the tail is the last of *)
(* the order until all of it was taken.                                    *)
Drawn ==
    /\ DequeuesInOrder
    /\ \A i \in 1..Len(taken) : apc[order[i]] = "done"
    /\ tail = IF Len(taken) < Len(order) THEN order[Len(order)] ELSE Dummy

(* Of what was not taken, an element points to the one that was appended   *)
(* behind it, once that append is complete.  The head points to the first  *)
(* of them or to nothing: for good, if that one was to be linked behind an *)
(* element that was taken meanwhile.                                       *)
Linked ==
    LET k == Len(taken)
        n == Len(order)
    IN /\ \A i \in (k + 2)..n : prev[order[i]] = order[i - 1]
       /\ \A i \in (k + 1)..(n - 1) :
             next[order[i]] = IF apc[order[i + 1]] = "done" THEN order[i + 1] ELSE Null
       /\ k < n => /\ next[order[n]] = Null
                   /\ prev[order[k + 1]] \in {Dummy} \cup {order[i] : i \in 1..k}
       /\ next[Dummy] # Null => /\ k < n
                                /\ next[Dummy] = order[k + 1]
                                /\ apc[order[k + 1]] = "done"

(* The element that a dequeue holds is the next to be taken, and nothing   *)
(* is linked to the head once the dequeue has cleared it.                  *)
Held ==
    /\ dpc \in {"elem", "cas", "wait", "hand"} =>
          /\ Len(taken) < Len(order)
          /\ elem = order[Len(taken) + 1]
          /\ apc[elem] = "done"
    /\ dpc \in {"cas", "wait", "hand"} => next[Dummy] = Null
    /\ dpc \in {"wait", "hand"} => Len(taken) + 1 < Len(order)

ListInv == TypeOK /\ Swapped /\ Drawn /\ Linked /\ Held

-----------------------------------------------------------------------------
LEMMA Lengths ==
    ASSUME TypeOK
    PROVE  /\ Len(order) \in Nat /\ Len(taken) \in Nat
           /\ \A i \in 1..Len(order) : order[i] \in Handles /\ order[i] # Dummy
           /\ \A i \in 1..Len(taken) : taken[i] \in Handles
           /\ \A h \in Handles : h # Null /\ h # Dummy
           /\ Dummy # Null /\ Dummy \in Nodes
BY NodesAssumption DEF TypeOK, Nodes

LEMMA InitListInv == Init => ListInv
<1> SUFFICES ASSUME Init
             PROVE  ListInv
  OBVIOUS
<1> USE NodesAssumption DEF Init
<1>1. order = <<>> /\ taken = <<>> /\ seen = <<>> /\ Len(order) = 0 /\ Len(taken) = 0
  OBVIOUS
<1>2. <<>> \in Seq(Handles)
  OBVIOUS
<1>3. TypeOK
  BY <1>1, <1>2 DEF TypeOK, Nodes
<1>4. Swapped /\ Drawn
  BY <1>1 DEF Swapped, Drawn, DequeuesInOrder
<1>5. Linked
  BY <1>1 DEF Linked, Nodes
<1>6. Held
  BY DEF Held
<1>7. QED
  BY <1>3, <1>4, <1>5, <1>6 DEF ListInv

(* The swap: the new element comes last, and its link is pending. *)
LEMMA AppendSwapInv ==
    ASSUME ListInv, NEW h \in Handles, AppendSwap(h)
    PROVE  ListInv'
<1> USE DEF ListInv
<1>1. /\ apc[h] = "new" /\ order' = Append(order, h) /\ tail' = h
      /\ next' = [next EXCEPT ![h] = Null]
      /\ prev' = [prev EXCEPT ![h] = tail]
      /\ apc' = [apc EXCEPT ![h] = "link"]
      /\ UNCHANGED <<dequeueVars, walkVars>>
  BY DEF AppendSwap
<1>2. PICK k \in Nat, n \in Nat : k = Len(taken) /\ n = Len(order)
  BY Lengths
<1>3. /\ order' \in Seq(Handles) /\ Len(order') = n + 1 /\ order'[n + 1] = h
      /\ \A i \in 1..n : /\ order'[i] = order[i] /\ order[i] \in Handles
                         /\ order[i] # h /\ order[i] # Dummy
      /\ h # Dummy /\ taken' = taken /\ k <= n
  BY <1>1, <1>2, Lengths, AppendFacts DEF TypeOK, Swapped, Drawn, DequeuesInOrder, dequeueVars
<1>4. \A g \in Handles : /\ apc'[g] = IF g = h THEN "link" ELSE apc[g]
                         /\ prev'[g] = IF g = h THEN tail ELSE prev[g]
                         /\ next'[g] = IF g = h THEN Null ELSE next[g]
  BY <1>1 DEF TypeOK, Nodes
<1>5. next'[Dummy] = next[Dummy]
  BY <1>1, <1>3, Lengths DEF TypeOK
<1>6. TypeOK'
  BY <1>1, <1>3 DEF TypeOK, Nodes, dequeueVars, walkVars
<1>7. Swapped'
  <2>1. \A i, j \in 1..(n + 1) : order'[i] = order'[j] => i = j
    BY <1>2, <1>3 DEF Swapped
  <2>2. ASSUME NEW g \in Handles
        PROVE  apc'[g] # "new" <=> \E i \in 1..(n + 1) : order'[i] = g
    <3>1. CASE g = h
      BY <3>1, <1>3, <1>4
    <3>2. CASE g # h
      <4>1. (\E i \in 1..(n + 1) : order'[i] = g) <=> \E i \in 1..n : order[i] = g
        BY <3>2, <1>3
      <4>2. QED
        BY <3>2, <4>1, <1>2, <1>4 DEF Swapped
    <3>3. QED
      BY <3>1, <3>2
  <2>3. QED
    BY <2>1, <2>2, <1>3 DEF Swapped
<1>8. Drawn'
  <2>1. \A i \in 1..k : apc[order[i]] = "done" /\ taken[i] = order[i]
    BY <1>2 DEF Drawn, DequeuesInOrder
  <2>2. \A i \in 1..k : i \in 1..n
    BY <1>3
  <2>3. \A i \in 1..k : apc'[order'[i]] = "done" /\ taken'[i] = order'[i]
    BY <2>1, <2>2, <1>3, <1>4
  <2>4. QED
    BY <2>3, <1>1, <1>2, <1>3 DEF Drawn, DequeuesInOrder
<1>9. Linked'
  <2>1. tail = IF k < n THEN order[n] ELSE Dummy
    BY <1>2 DEF Drawn
  <2>2. ASSUME NEW i \in (k + 2)..(n + 1)
        PROVE  prev'[order'[i]] = order'[i - 1]
    <3>1. CASE i = n + 1
      BY <3>1, <2>1, <1>3, <1>4
    <3>2. CASE i \in (k + 2)..n
      <4>1. prev[order[i]] = order[i - 1] /\ i \in 1..n /\ i - 1 \in 1..n
        BY <3>2, <1>2 DEF Linked
      <4>2. QED
        BY <4>1, <1>3, <1>4
    <3>3. QED
      BY <3>1, <3>2
  <2>3. ASSUME NEW i \in (k + 1)..n
        PROVE  next'[order'[i]] =
                  IF apc'[order'[i + 1]] = "done" THEN order'[i + 1] ELSE Null
    <3>1. CASE i = n
      <4>1. next[order[n]] = Null /\ i \in 1..n
        BY <3>1, <1>2 DEF Linked
      <4>2. QED
        BY <3>1, <4>1, <1>3, <1>4
    <3>2. CASE i \in (k + 1)..(n - 1)
      <4>1. /\ next[order[i]] = IF apc[order[i + 1]] = "done" THEN order[i + 1] ELSE Null
            /\ i \in 1..n /\ i + 1 \in 1..n
        BY <3>2, <1>2 DEF Linked
      <4>2. QED
        BY <4>1, <1>3, <1>4
    <3>3. QED
      BY <3>1, <3>2
  <2>4. /\ next'[order'[n + 1]] = Null
        /\ prev'[order'[k + 1]] \in {Dummy} \cup {order'[i] : i \in 1..k}
    <3>1. CASE k < n
      <4>1. prev[order[k + 1]] \in {Dummy} \cup {order[i] : i \in 1..k} /\ k + 1 \in 1..n
        BY <3>1, <1>2 DEF Linked
      <4>2. prev'[order'[k + 1]] = prev[order[k + 1]]
        BY <4>1, <1>3, <1>4
      <4>3. \A i \in 1..k : order'[i] = order[i]
        BY <1>3
      <4>4. QED
        BY <4>1, <4>2, <4>3, <1>3, <1>4
    <3>2. CASE k = n
      BY <3>2, <2>1, <1>3, <1>4
    <3>3. QED
      BY <3>1, <3>2, <1>3
  <2>5. ASSUME next'[Dummy] # Null
        PROVE  /\ next'[Dummy] = order'[k + 1]
               /\ apc'[order'[k + 1]] = "done"
    <3>1. /\ k < n /\ next[Dummy] = order[k + 1] /\ apc[order[k + 1]] = "done"
          /\ k + 1 \in 1..n
      BY <2>5, <1>2, <1>5 DEF Linked
    <3>2. QED
      BY <3>1, <1>3, <1>4, <1>5
  <2>6. k < n + 1 /\ (n + 1) - 1 = n
    BY <1>3
  <2>7. QED
    BY <2>2, <2>3, <2>4, <2>5, <2>6, <1>2, <1>3 DEF Linked
<1>10. Held'
  <2>1. dpc' = dpc /\ elem' = elem
    BY <1>1 DEF dequeueVars
  <2>2. ASSUME dpc \in {"elem", "cas", "wait", "hand"}
        PROVE  /\ k < n + 1 /\ elem = order'[k + 1] /\ apc'[elem] = "done"
    <3>1. k < n /\ elem = order[k + 1] /\ apc[elem] = "done" /\ k + 1 \in 1..n
      BY <2>2, <1>2 DEF Held
    <3>2. QED
      BY <3>1, <1>3, <1>4
  <2>3. dpc \in {"cas", "wait", "hand"} => next'[Dummy] = Null
    BY <1>5 DEF Held
  <2>4. dpc \in {"wait", "hand"} => k + 1 < n + 1
    BY <1>2 DEF Held
  <2>5. QED
    BY <2>1, <2>2, <2>3, <2>4, <1>2, <1>3 DEF Held
<1>11. QED
  BY <1>6, <1>7, <1>8, <1>9, <1>10

(* The link: the element is pointed to by the one before it or, if that    *)
(* one was taken, by nothing that is left.                                 *)
LEMMA AppendLinkInv ==
    ASSUME ListInv, NEW h \in Handles, AppendLink(h)
    PROVE  ListInv'
<1> USE DEF ListInv
<1>1. /\ apc[h] = "link"
      /\ next' = [next EXCEPT ![prev[h]] = h]
      /\ apc' = [apc EXCEPT ![h] = "done"]
      /\ UNCHANGED <<prev, tail, order, dequeueVars, walkVars>>
  BY DEF AppendLink, LinkBehind
<1>2. PICK k \in Nat, n \in Nat : k = Len(taken) /\ n = Len(order) /\ k <= n
  BY Lengths DEF Drawn, DequeuesInOrder
<1>3. PICK p \in 1..n : order[p] = h
  BY <1>1, <1>2 DEF Swapped
<1>4. p \in (k + 1)..n
  BY <1>1, <1>2, <1>3 DEF Drawn
<1>5. \A i \in 1..n : order[i] \in Handles /\ order[i] # Dummy
  BY <1>2, Lengths
<1>6. \A i, j \in 1..n : order[i] = order[j] => i = j
  BY <1>2 DEF Swapped
<1>7. /\ p >= k + 2 => prev[h] = order[p - 1]
      /\ p = k + 1 => prev[h] \in {Dummy} \cup {order[i] : i \in 1..k}
  BY <1>2, <1>3, <1>4 DEF Linked
<1>8. \A g \in Handles : apc'[g] = IF g = h THEN "done" ELSE apc[g]
  BY <1>1 DEF TypeOK
<1>9. \A g \in Nodes : next'[g] = IF g = prev[h] THEN h ELSE next[g]
  BY <1>1 DEF TypeOK
<1>10. order' = order /\ taken' = taken /\ dpc' = dpc /\ elem' = elem /\ prev' = prev
       /\ tail' = tail
  BY <1>1 DEF dequeueVars
<1>11. TypeOK'
  BY <1>1 DEF TypeOK, dequeueVars, walkVars
<1>12. Swapped'
  BY <1>1, <1>8, <1>10 DEF Swapped
<1>13. Drawn'
  BY <1>2, <1>5, <1>8, <1>10 DEF Drawn, DequeuesInOrder
<1>14. Linked'
  <2>1. ASSUME NEW i \in (k + 1)..(n - 1)
        PROVE  next'[order[i]] =
                  IF apc'[order[i + 1]] = "done" THEN order[i + 1] ELSE Null
    <3>1. /\ next[order[i]] = IF apc[order[i + 1]] = "done" THEN order[i + 1] ELSE Null
          /\ i \in 1..n /\ i + 1 \in 1..n
      BY <1>2 DEF Linked
    <3>2. order[i] \in Nodes
      BY <3>1, <1>5 DEF Nodes
    <3>3. CASE p = i + 1
      <4>1. prev[h] = order[i]
        BY <3>3, <1>7
      <4>2. QED
        BY <3>2, <3>3, <4>1, <1>3, <1>5, <1>8, <1>9
    <3>4. CASE p # i + 1
      <4>1. prev[h] # order[i]
        <5>1. CASE p = k + 1
          BY <5>1, <1>2, <1>5, <1>6, <1>7, <3>1
        <5>2. CASE p >= k + 2
          <6>1. p - 1 \in 1..n /\ p - 1 # i
            BY <5>2, <3>4
          <6>2. QED
            BY <5>2, <6>1, <1>6, <1>7, <3>1
        <5>3. QED
          BY <5>1, <5>2, <1>4
      <4>2. order[i + 1] # h
        BY <3>1, <3>4, <1>3, <1>6
      <4>3. QED
        BY <3>1, <3>2, <4>1, <4>2, <1>5, <1>8, <1>9
    <3>5. QED
      BY <3>3, <3>4
  <2>2. ASSUME k < n
        PROVE  next'[order[n]] = Null
    <3>1. next[order[n]] = Null /\ n \in 1..n
      BY <2>2, <1>2 DEF Linked
    <3>2. prev[h] # order[n]
      <4>1. CASE p = k + 1
        BY <2>2, <4>1, <1>2, <1>5, <1>6, <1>7, <3>1
      <4>2. CASE p >= k + 2
        <5>1. p - 1 \in 1..n /\ p - 1 # n
          BY <4>2
        <5>2. QED
          BY <4>2, <5>1, <1>6, <1>7, <3>1
      <4>3. QED
        BY <4>1, <4>2, <1>4
    <3>3. QED
      BY <3>1, <3>2, <1>5, <1>9 DEF Nodes
  <2>3. ASSUME next'[Dummy] # Null
        PROVE  k < n /\ next'[Dummy] = order[k + 1] /\ apc'[order[k + 1]] = "done"
    <3>1. CASE prev[h] = Dummy
      <4>1. p = k + 1
        <5>1. p >= k + 2 => p - 1 \in 1..n
          OBVIOUS
        <5>2. QED
          BY <3>1, <5>1, <1>4, <1>5, <1>7
      <4>2. QED
        BY <3>1, <4>1, <1>3, <1>8, <1>9, Lengths
    <3>2. CASE prev[h] # Dummy
      <4>1. next'[Dummy] = next[Dummy]
        BY <3>2, <1>9, Lengths
      <4>2. k < n /\ next[Dummy] = order[k + 1] /\ apc[order[k + 1]] = "done"
        BY <2>3, <4>1, <1>2 DEF Linked
      <4>3. order[k + 1] \in Handles
        BY <4>2, <1>5
      <4>4. QED
        BY <4>1, <4>2, <4>3, <1>8
    <3>3. QED
      BY <3>1, <3>2
  <2>4. /\ \A i \in (k + 2)..n : prev[order[i]] = order[i - 1]
        /\ k < n => prev[order[k + 1]] \in {Dummy} \cup {order[i] : i \in 1..k}
    BY <1>2 DEF Linked
  <2>5. QED
    BY <2>1, <2>2, <2>3, <2>4, <1>2, <1>10 DEF Linked
<1>15. Held'
  <2>1. ASSUME dpc \in {"elem", "cas", "wait", "hand"}
        PROVE  k < n /\ elem = order[k + 1] /\ apc[elem] = "done" /\ elem \in Handles
    <3>1. k < n /\ elem = order[k + 1] /\ apc[elem] = "done"
      BY <2>1, <1>2 DEF Held
    <3>2. QED
      BY <3>1, <1>5
  <2>2. ASSUME dpc \in {"cas", "wait", "hand"}
        PROVE  next'[Dummy] = Null
    <3>1. elem = order[k + 1] /\ apc[elem] = "done" /\ k < n
      BY <2>1, <2>2
    <3>2. p # k + 1
      BY <3>1, <1>1, <1>3
    <3>3. prev[h] = order[p - 1] /\ p - 1 \in 1..n
      BY <3>2, <1>4, <1>7
    <3>4. prev[h] # Dummy
      BY <3>3, <1>5
    <3>5. QED
      BY <2>2, <3>4, <1>9, Lengths DEF Held
  <2>3. dpc \in {"wait", "hand"} => k + 1 < n
    BY <1>2 DEF Held
  <2>4. QED
    BY <2>1, <2>2, <2>3, <1>2, <1>8, <1>10 DEF Held
<1>16. QED
  BY <1>11, <1>12, <1>13, <1>14, <1>15

-----------------------------------------------------------------------------
(* A dequeue hands its element out, provided that it leaves the head       *)
(* pointing to the element after it, or to nothing.                        *)
LEMMA ReturnInv ==
    ASSUME ListInv, Return, dpc \in {"elem", "cas", "hand"},
           UNCHANGED <<apc, prev, order, walkVars>>,
           tail' = IF Len(taken) + 1 < Len(order) THEN order[Len(order)] ELSE Dummy,
           next' \in [Nodes -> Handles \cup {Null}],
           \A i \in (Len(taken) + 2)..Len(order) : next'[order[i]] = next[order[i]],
           next'[Dummy] # Null => /\ Len(taken) + 1 < Len(order)
                                  /\ next'[Dummy] = order[Len(taken) + 2]
                                  /\ apc[order[Len(taken) + 2]] = "done"
    PROVE  ListInv'
<1> USE DEF ListInv
<1>1. PICK k \in Nat, n \in Nat : k = Len(taken) /\ n = Len(order)
  BY Lengths
<1>2. k < n /\ elem = order[k + 1] /\ apc[elem] = "done" /\ elem \in Handles
  BY <1>1, Lengths DEF Held
<1>3. /\ taken' \in Seq(Handles) /\ Len(taken') = k + 1
      /\ \A i \in 1..k : taken'[i] = taken[i]
      /\ taken'[k + 1] = elem
  BY <1>1, <1>2, AppendFacts DEF Return, TypeOK
<1>4. dpc' = "idle" /\ elem' = Null /\ freed' = freed \cup {elem}
  BY DEF Return
<1>5. tail' \in Nodes
  BY <1>1, <1>2, Lengths DEF Nodes
<1>6. TypeOK'
  BY <1>2, <1>3, <1>4, <1>5 DEF TypeOK, walkVars, Nodes
<1>7. Swapped'
  BY DEF Swapped
<1>8. Drawn'
  <2>1. k + 1 <= n /\ \A i \in 1..(k + 1) : taken'[i] = order[i] /\ apc[order[i]] = "done"
    BY <1>1, <1>2, <1>3 DEF Drawn, DequeuesInOrder
  <2>2. QED
    BY <2>1, <1>1, <1>3 DEF Drawn, DequeuesInOrder
<1>9. Linked'
  <2>1. ASSUME NEW i \in (k + 3)..n
        PROVE  prev[order[i]] = order[i - 1]
    <3>1. i \in (k + 2)..n
      OBVIOUS
    <3>2. QED
      BY <3>1, <1>1 DEF Linked
  <2>2. ASSUME NEW i \in (k + 2)..(n - 1)
        PROVE  next'[order[i]] = IF apc[order[i + 1]] = "done" THEN order[i + 1] ELSE Null
    <3>1. i \in (k + 1)..(n - 1) /\ i \in (k + 2)..n
      OBVIOUS
    <3>2. next[order[i]] = IF apc[order[i + 1]] = "done" THEN order[i + 1] ELSE Null
      BY <3>1, <1>1 DEF Linked
    <3>3. QED
      BY <3>1, <3>2, <1>1
  <2>3. ASSUME k + 1 < n
        PROVE  /\ next'[order[n]] = Null
               /\ prev[order[k + 2]] \in {Dummy} \cup {order[j] : j \in 1..(k + 1)}
    <3>1. next[order[n]] = Null /\ n \in (k + 2)..n
      BY <2>3, <1>1 DEF Linked
    <3>2. prev[order[k + 2]] = order[k + 1]
      <4>1. k + 2 \in (k + 2)..n /\ (k + 2) - 1 = k + 1
        BY <2>3
      <4>2. QED
        BY <4>1, <1>1 DEF Linked
    <3>3. QED
      BY <3>1, <3>2, <1>1
  <2>4. (k + 1) + 1 = k + 2 /\ (k + 1) + 2 = k + 3
    OBVIOUS
  <2>5. next'[Dummy] # Null => /\ k + 1 < n /\ next'[Dummy] = order[k + 2]
                               /\ apc[order[k + 2]] = "done"
    BY <1>1
  <2>6. QED
    BY <2>1, <2>2, <2>3, <2>4, <2>5, <1>1, <1>3 DEF Linked
<1>10. Held'
  BY <1>4 DEF Held
<1>11. QED
  BY <1>6, <1>7, <1>8, <1>9, <1>10

LEMMA DequeueInv ==
    ASSUME ListInv, Dequeue
    PROVE  ListInv'
<1> USE DEF ListInv
<1>1. PICK k \in Nat, n \in Nat : k = Len(taken) /\ n = Len(order)
  BY Lengths
<1>2. \A i \in 1..n : order[i] \in Handles /\ order[i] # Dummy /\ order[i] # Null
  BY <1>1, Lengths
<1>h. dpc \in {"elem", "cas", "wait", "hand"} =>
         k < n /\ elem = order[k + 1] /\ apc[elem] = "done" /\ elem \in Nodes
  BY <1>1, <1>2 DEF Held, Nodes
<1>d. Dummy \in Nodes
  BY DEF Nodes
<1>3. ASSUME NEW rest \in Handles \cup {Null},
             next' = [next EXCEPT ![Dummy] = rest]
      PROVE  /\ next' \in [Nodes -> Handles \cup {Null}]
             /\ next'[Dummy] = rest
             /\ \A i \in 1..n : next'[order[i]] = next[order[i]]
  BY <1>2, <1>3, <1>d DEF TypeOK
<1>4. CASE DequeueTestTail
  <2>1. TypeOK'
    BY <1>4 DEF DequeueTestTail, TypeOK, appendVars, walkVars
  <2>2. Swapped' /\ Drawn' /\ Linked'
    BY <1>4 DEF DequeueTestTail, appendVars, Swapped, Drawn, DequeuesInOrder, Linked
  <2>3. Held'
    BY <1>4 DEF DequeueTestTail, Held
  <2>4. QED
    BY <2>1, <2>2, <2>3
<1>5. CASE DequeueFirst
  <2>1. TypeOK'
    BY <1>5, <1>d DEF DequeueFirst, TypeOK, appendVars, walkVars
  <2>2. Swapped' /\ Drawn' /\ Linked'
    BY <1>5 DEF DequeueFirst, appendVars, Swapped, Drawn, DequeuesInOrder, Linked
  <2>3. Held'
    <3>1. next[Dummy] # Null => k < n /\ next[Dummy] = order[k + 1] /\ apc[next[Dummy]] = "done"
      BY <1>1 DEF Linked
    <3>2. QED
      BY <3>1, <1>1, <1>5 DEF DequeueFirst, Held, appendVars
  <2>4. QED
    BY <2>1, <2>2, <2>3
<1>6. CASE DequeueUnlink
  <2>1. /\ dpc = "elem" /\ next[elem] # Null /\ Return
        /\ next' = [next EXCEPT ![Dummy] = next[elem], ![elem] = Null]
        /\ UNCHANGED <<appendVars, walkVars>>
    BY <1>6 DEF DequeueUnlink, Unlink
  <2>2. k + 1 < n
    <3>1. k < n => next[order[n]] = Null
      BY <1>1 DEF Linked
    <3>2. QED
      BY <2>1, <3>1, <1>h
  <2>3. next[elem] = order[k + 2] /\ apc[order[k + 2]] = "done"
    <3>1. k + 1 \in (k + 1)..(n - 1) /\ (k + 1) + 1 = k + 2
      BY <2>2
    <3>2. QED
      BY <2>1, <3>1, <1>1, <1>h DEF Linked
  <2>4. /\ next' \in [Nodes -> Handles \cup {Null}]
        /\ next'[Dummy] = order[k + 2]
        /\ \A i \in (k + 2)..n : next'[order[i]] = next[order[i]]
    <3>1. elem # Dummy
      BY <2>1, <1>2, <1>h
    <3>2. \A i \in (k + 2)..n : i \in 1..n /\ order[i] # elem
      BY <2>1, <1>1, <1>h DEF Swapped
    <3>3. next[elem] \in Handles \cup {Null}
      BY <2>1, <1>h DEF TypeOK
    <3>4. next' \in [Nodes -> Handles \cup {Null}]
      BY <2>1, <3>3 DEF TypeOK
    <3>5. next'[Dummy] = next[elem]
      BY <2>1, <3>1, <1>d DEF TypeOK
    <3>6. \A i \in (k + 2)..n : order[i] \in Nodes /\ order[i] # Dummy
      BY <3>2, <1>2 DEF Nodes
    <3>7. QED
      BY <2>1, <2>3, <3>2, <3>4, <3>5, <3>6 DEF TypeOK
  <2>5. tail' = IF k + 1 < n THEN order[n] ELSE Dummy
    BY <2>1, <2>2, <1>1 DEF Drawn, appendVars
  <2>6. QED
    BY <2>1, <2>2, <2>3, <2>4, <2>5, <1>1, ReturnInv DEF appendVars
<1>7. CASE DequeueClear
  <2>1. /\ dpc = "elem" /\ dpc' = "cas"
        /\ next' = [next EXCEPT ![Dummy] = Null]
        /\ UNCHANGED <<appendVars, elem, freed, taken, walkVars>>
    BY <1>7 DEF DequeueClear
  <2>2. /\ next' \in [Nodes -> Handles \cup {Null}]
        /\ next'[Dummy] = Null
        /\ \A i \in 1..n : next'[order[i]] = next[order[i]]
    BY <2>1, <1>3
  <2>3. TypeOK'
    BY <2>1, <2>2 DEF TypeOK, appendVars, walkVars
  <2>4. Swapped' /\ Drawn'
    BY <2>1 DEF appendVars, Swapped, Drawn, DequeuesInOrder
  <2>5. Linked'
    <3>1. UNCHANGED <<order, taken, apc, prev>>
      BY <2>1 DEF appendVars
    <3>2. \A i \in (k + 1)..(n - 1) :
             next'[order[i]] = IF apc[order[i + 1]] = "done" THEN order[i + 1] ELSE Null
      BY <2>2, <1>1 DEF Linked
    <3>3. k < n => next'[order[n]] = Null
      BY <2>2, <1>1 DEF Linked
    <3>4. QED
      BY <2>2, <3>1, <3>2, <3>3, <1>1 DEF Linked
  <2>6. Held'
    BY <2>1, <2>2 DEF Held, appendVars
  <2>7. QED
    BY <2>3, <2>4, <2>5, <2>6
<1>8. CASE DequeueCas
  <2>0. dpc = "cas" /\ UNCHANGED <<next, apc, prev, order, walkVars>>
    BY <1>8 DEF DequeueCas
  <2>1. CASE TailIsElem /\ tail' = Dummy /\ Return
    <3>1. k + 1 = n
      <4>1. order[n] = order[k + 1] /\ n \in 1..n /\ k + 1 \in 1..n
        BY <2>0, <2>1, <1>1, <1>h DEF TailIsElem, Drawn
      <4>2. QED
        BY <4>1, <1>1 DEF Swapped
    <3>2. next[Dummy] = Null
      BY <2>0 DEF Held
    <3>3. next' \in [Nodes -> Handles \cup {Null}]
      BY <2>0 DEF TypeOK
    <3>4. tail' = IF k + 1 < n THEN order[n] ELSE Dummy
      BY <2>1, <3>1
    <3>5. QED
      BY <2>0, <2>1, <3>2, <3>3, <3>4, <1>1, ReturnInv
  <2>2. CASE ~TailIsElem /\ dpc' = "wait" /\ UNCHANGED <<tail, elem, freed, taken>>
    <3>1. TypeOK'
      BY <2>0, <2>2 DEF TypeOK, walkVars
    <3>2. Swapped' /\ Drawn' /\ Linked'
      BY <2>0, <2>2 DEF Swapped, Drawn, DequeuesInOrder, Linked
    <3>3. k + 1 < n
      <4>1. tail = order[n] /\ tail # order[k + 1] /\ k < n
        BY <2>0, <2>2, <1>1, <1>h DEF TailIsElem, Drawn
      <4>2. n # k + 1
        BY <4>1
      <4>3. QED
        BY <4>1, <4>2
    <3>4. Held'
      BY <2>0, <2>2, <3>3, <1>1 DEF Held
    <3>5. QED
      BY <3>1, <3>2, <3>4
  <2>3. QED
    BY <2>1, <2>2, <1>8 DEF DequeueCas
<1>9. CASE DequeueWait
  <2>1. TypeOK'
    BY <1>9 DEF DequeueWait, TypeOK, appendVars, walkVars
  <2>2. Swapped' /\ Drawn' /\ Linked'
    BY <1>9 DEF DequeueWait, appendVars, Swapped, Drawn, DequeuesInOrder, Linked
  <2>3. Held'
    BY <1>9 DEF DequeueWait, appendVars, Held
  <2>4. QED
    BY <2>1, <2>2, <2>3
<1>10. CASE DequeueHandOver
  <2>1. /\ dpc = "hand" /\ Return
        /\ next' = [next EXCEPT ![Dummy] = next[elem]]
        /\ UNCHANGED <<appendVars, walkVars>>
    BY <1>10 DEF DequeueHandOver
  <2>2. k + 1 < n
    BY <2>1, <1>1 DEF Held
  <2>3. next[elem] = IF apc[order[k + 2]] = "done" THEN order[k + 2] ELSE Null
    <3>1. k + 1 \in (k + 1)..(n - 1) /\ (k + 1) + 1 = k + 2
      BY <2>2
    <3>2. QED
      BY <2>1, <3>1, <1>1, <1>h DEF Linked
  <2>4. /\ next' \in [Nodes -> Handles \cup {Null}]
        /\ next'[Dummy] = next[elem]
        /\ \A i \in 1..n : next'[order[i]] = next[order[i]]
    <3>1. next[elem] \in Handles \cup {Null}
      BY <2>1, <1>h DEF TypeOK
    <3>2. QED
      BY <2>1, <3>1, <1>3
  <2>5. tail' = IF k + 1 < n THEN order[n] ELSE Dummy
    BY <2>1, <2>2, <1>1 DEF Drawn, appendVars
  <2>6. \A i \in (k + 2)..n : next'[order[i]] = next[order[i]]
    BY <2>4
  <2>7. QED
    BY <2>1, <2>2, <2>3, <2>4, <2>5, <2>6, <1>1, ReturnInv DEF appendVars
<1>11. QED
  BY <1>4, <1>5, <1>6, <1>7, <1>8, <1>9, <1>10 DEF Dequeue

(* A walk reads only; it stands at an element of the list or at its end. *)
LEMMA WalkStepInv ==
    ASSUME ListInv, Walk \/ UNCHANGED listVars
    PROVE  ListInv'
<1> USE DEF ListInv
<1>1. UNCHANGED <<next, appendVars, dequeueVars>>
  BY DEF Walk, WalkFirst, BeginWalk, WalkNext, Advance, WalkEnd, listVars
<1>2. walking' \in BOOLEAN /\ cur' \in Handles \cup {Null} /\ seen' \in Seq(Handles)
  <2>1. CASE WalkFirst
    BY <2>1 DEF WalkFirst, BeginWalk, TypeOK, Nodes
  <2>2. CASE WalkNext
    <3>1. /\ cur \in Handles /\ cur' = next[cur] /\ seen' = Append(seen, cur)
          /\ UNCHANGED walking
      BY <2>2 DEF WalkNext, Advance, TypeOK
    <3>2. QED
      BY <3>1, AppendFacts DEF TypeOK, Nodes
  <2>3. CASE WalkEnd \/ UNCHANGED listVars
    BY <2>3 DEF WalkEnd, listVars, walkVars, TypeOK
  <2>4. QED
    BY <2>1, <2>2, <2>3 DEF Walk
<1>3. TypeOK'
  BY <1>1, <1>2 DEF TypeOK, appendVars, dequeueVars
<1>4. Swapped' /\ Drawn' /\ Linked' /\ Held'
  BY <1>1 DEF appendVars, dequeueVars, Swapped, Drawn, DequeuesInOrder, Linked, Held
<1>5. QED
  BY <1>3, <1>4

-----------------------------------------------------------------------------
LEMMA ListInvariance == Spec => []ListInv
<1>1. ListInv /\ [Next]_listVars => ListInv'
  BY AppendSwapInv, AppendLinkInv, DequeueInv, WalkStepInv DEF Next
<1>2. QED
  BY <1>1, InitListInv, PTL DEF Spec

(* Every pointer of the list stays NULL, the dummy or an element, however  *)
(* appends, dequeues and walks interleave.                                 *)
THEOREM ListTypeCorrect == Spec => []TypeOK
<1>1. ListInv => TypeOK
  BY DEF ListInv
<1>2. QED
  BY <1>1, ListInvariance, PTL

(* mpiPi_tslist_dequeue returns the handles in the order of the swaps in   *)
(* mpiPi_tslist_append, for any number of appending threads: the races it  *)
(* has can keep handles from it, but never reorder or repeat one.          *)
THEOREM OrderKept == Spec => []DequeuesInOrder
<1>1. ListInv => DequeuesInOrder
  BY DEF ListInv, Drawn
<1>2. QED
  BY <1>1, ListInvariance, PTL

-----------------------------------------------------------------------------
(***************************************************************************)
(* The registry.                                                           *)
(***************************************************************************)
(* A position of the order is an element of the list, and no two positions *)
(* are the same one.                                                       *)
LEMMA PositionFacts ==
    ASSUME RegistryTypeOK, OrderInv
    PROVE  /\ \A i \in 0..Len(order) : Position(i) \in Nodes
           /\ \A i, j \in 0..Len(order) : Position(i) = Position(j) => i = j
           /\ \A i \in 1..Len(order) : Position(i) = order[i] /\ order[i] \in Handles
<1>1. /\ order \in Seq(Handles) /\ Len(order) \in Nat
      /\ \A i \in 1..Len(order) : order[i] \in Handles
  BY DEF RegistryTypeOK, TypeOK
<1>2. \A i \in 0..Len(order) : i = 0 \/ i \in 1..Len(order)
  BY <1>1
<1>3. Position(0) = Dummy /\ \A i \in 1..Len(order) : Position(i) = order[i]
  BY <1>1 DEF Position
<1>4. \A i \in 1..Len(order) : Position(i) # Position(0)
  BY <1>1, <1>3, NodesAssumption
<1>5. \A i, j \in 1..Len(order) : order[i] = order[j] => i = j
  BY DEF OrderInv
<1>6. \A i, j \in 0..Len(order) : Position(i) = Position(j) => i = j
  BY <1>2, <1>3, <1>4, <1>5
<1>7. \A i \in 0..Len(order) : Position(i) \in Nodes
  BY <1>1, <1>2, <1>3 DEF Nodes
<1>8. QED
  BY <1>1, <1>3, <1>6, <1>7

(* The registry that mpiPi_stats_mt_init leaves satisfies the invariant. *)
LEMMA InitEstablishes == RegistryInit => RegistryInv
  <1> SUFFICES ASSUME RegistryInit PROVE RegistryInv
    OBVIOUS
  <1> USE NodesAssumption, MainAssumption
  <1>1. /\ order = <<Main>> /\ order \in Seq(Handles)
        /\ Len(order) = 1 /\ order[1] = Main
        /\ seen = <<>> /\ seen \in Seq(Handles)
        /\ taken = <<>> /\ taken \in Seq(Handles)
    BY DEF RegistryInit
  <1>2. /\ next \in [Nodes -> Handles \cup {Null}]
        /\ next[Dummy] = Main /\ next[Main] = Null
        /\ apc \in [Handles -> {"new", "link", "done"}]
        /\ apc[Main] = "done" /\ \A h \in Handles : apc[h] # "new" => h = Main
        /\ prev \in [Handles -> Nodes \cup {Null}]
        /\ prev[Main] = Dummy
    BY DEF RegistryInit, Nodes
  <1>3. RegistryTypeOK
    BY <1>1, <1>2 DEF RegistryInit, RegistryTypeOK, TypeOK, Nodes
  <1>4. OrderInv
    BY <1>1, <1>2 DEF OrderInv
  <1>5. RunningInv
    <2>1. Position(0) = Dummy /\ Position(1) = Main
      BY <1>1 DEF Position
    <2>2. \A i \in 1..Len(order) : i = 1 /\ i - 1 = 0
      BY <1>1
    <2> QED
      BY <1>1, <1>2, <2>1, <2>2 DEF RegistryInit, RunningInv
  <1>6. WalkInv /\ DrainInv
    BY DEF RegistryInit, WalkInv, DrainInv
  <1> QED
    BY <1>3, <1>4, <1>5, <1>6 DEF RegistryInv

(* The swap of the tail by a new thread. *)
LEMMA RegisterPreserves ==
    ASSUME RegistryInv, NEW h \in Handles, Register(h)
    PROVE  RegistryInv'
  <1> USE NodesAssumption
  <1>0. /\ RegistryTypeOK /\ OrderInv /\ RunningInv /\ WalkInv
        /\ phase = "running" /\ phase' = "running" /\ apc[h] = "new"
        /\ order' = Append(order, h) /\ order \in Seq(Handles)
    BY DEF RegistryInv, Register, AppendSwap, RegistryTypeOK, TypeOK
  <1>1. /\ order' \in Seq(Handles)
        /\ Len(order') = Len(order) + 1 /\ Len(order) \in Nat
        /\ \A i \in 1..Len(order) : order'[i] = order[i]
        /\ order'[Len(order) + 1] = h
    BY <1>0, AppendFacts
  <1>2. \A i \in 0..Len(order) : Position(i) # h
    BY <1>0 DEF OrderInv, Position, Nodes
  <1>3. RegistryTypeOK'
    BY <1>0, <1>1 DEF Register, AppendSwap, RegistryTypeOK, TypeOK, Nodes,
                      dequeueVars, walkVars
  <1>4. OrderInv'
    <2>1. apc' = [apc EXCEPT ![h] = "link"] /\ apc \in [Handles -> {"new", "link", "done"}]
      BY <1>0 DEF Register, AppendSwap, RegistryTypeOK, TypeOK
    <2>2. \A i \in 1..Len(order) : order[i] \in Handles /\ order[i] # h
      BY <1>0 DEF OrderInv
    <2>3. \A i, j \in 1..Len(order') : order'[i] = order'[j] => i = j
      BY <1>0, <1>1, <2>2 DEF OrderInv
    <2>4. \A i \in 1..Len(order') : apc'[order'[i]] # "new"
      BY <1>0, <1>1, <2>1, <2>2 DEF OrderInv
    <2>5. ASSUME NEW g \in Handles, apc'[g] # "new"
          PROVE  \E i \in 1..Len(order') : order'[i] = g
      <3>1. CASE g = h
        BY <1>1, <3>1
      <3>2. CASE g # h
        BY <1>0, <1>1, <2>1, <2>5, <3>2 DEF OrderInv
      <3> QED
        BY <3>1, <3>2
    <2> QED
      BY <2>3, <2>4, <2>5 DEF OrderInv
  <1>5. RunningInv'
    <2>1. \A i \in 0..Len(order) : Position(i)' = Position(i)
      BY <1>1 DEF Position
    <2>2. Position(Len(order))' = h
      BY <1>1 DEF Position
    <2>3. /\ dpc' = "idle" /\ taken' = <<>> /\ freed' = {}
          /\ tail' = h /\ next'[h] = Null
      BY <1>0 DEF RunningInv, Register, AppendSwap, dequeueVars, RegistryTypeOK,
                  TypeOK, Nodes
    <2>4. \A i \in 0..Len(order) : next'[Position(i)] = next[Position(i)]
      BY <1>0, <1>2, PositionFacts DEF Register, AppendSwap, RegistryTypeOK, TypeOK
    <2>5. ASSUME NEW i \in 1..Len(order)
          PROVE  /\ prev'[order'[i]] = Position(i - 1)'
                 /\ next'[Position(i - 1)'] =
                       IF apc'[order'[i]] = "done" THEN order'[i] ELSE Null
      <3>1. i - 1 \in 0..Len(order) /\ order'[i] = order[i] /\ order[i] # h
        BY <1>0, <1>1, <1>2 DEF Position
      <3>2. prev'[order[i]] = prev[order[i]] /\ apc'[order[i]] = apc[order[i]]
        BY <1>0, <3>1, PositionFacts DEF Register, AppendSwap, RegistryTypeOK, TypeOK
      <3> QED
        BY <1>0, <2>1, <2>4, <3>1, <3>2 DEF RunningInv
    <2>6. /\ prev'[h] = Position(Len(order))
          /\ next[Position(Len(order))] = Null
          /\ apc'[h] = "link"
      BY <1>0 DEF RunningInv, Register, AppendSwap, RegistryTypeOK, TypeOK
    <2>7. \A i \in 1..Len(order') :
             /\ prev'[order'[i]] = Position(i - 1)'
             /\ next'[Position(i - 1)'] =
                   IF apc'[order'[i]] = "done" THEN order'[i] ELSE Null
      <3> SUFFICES ASSUME NEW i \in 1..Len(order'), i \notin 1..Len(order)
                   PROVE  /\ prev'[order'[i]] = Position(i - 1)'
                          /\ next'[Position(i - 1)'] =
                                IF apc'[order'[i]] = "done" THEN order'[i] ELSE Null
        BY <2>5
      <3>1. i = Len(order) + 1 /\ i - 1 = Len(order) /\ Len(order) \in 0..Len(order)
        BY <1>1
      <3> QED
        BY <1>1, <2>1, <2>4, <2>6, <3>1
    <2> QED
      BY <1>1, <2>2, <2>3, <2>7 DEF RunningInv
  <1>6. WalkInv'
    <2> SUFFICES ASSUME walking' PROVE WalkInv'
      BY DEF WalkInv
    <2>1. /\ walking /\ cur' = cur /\ seen' = seen /\ registered' = registered
          /\ Len(seen) \in Nat
      BY <1>0 DEF Register, AppendSwap, walkVars, RegistryTypeOK, TypeOK
    <2>2. h \notin registered
      BY <1>0, <2>1 DEF WalkInv
    <2>3. \A g \in registered' : apc'[g] = "done"
      BY <1>0, <2>1, <2>2 DEF WalkInv, Register, AppendSwap, RegistryTypeOK, TypeOK
    <2>4. /\ Len(seen') <= Len(order')
          /\ \A i \in 1..Len(seen') : seen'[i] = order'[i]
          /\ cur' # Null => /\ Len(seen') < Len(order')
                            /\ cur' = order'[Len(seen') + 1]
      BY <1>0, <1>1, <2>1 DEF WalkInv
    <2>5. ASSUME cur' = Null, NEW i \in 1..Len(order'),
                 \A j \in 1..i : order'[j] \in registered'
          PROVE  i <= Len(seen')
      <3>1. i # Len(order) + 1
        BY <1>1, <2>1, <2>2, <2>5
      <3>2. i \in 1..Len(order) /\ \A j \in 1..i : order[j] \in registered
        BY <1>1, <2>1, <2>5, <3>1
      <3> QED
        BY <1>0, <2>1, <2>5, <3>2 DEF WalkInv
    <2> QED
      BY <1>0, <2>3, <2>4, <2>5 DEF WalkInv
  <1> QED
    BY <1>0, <1>3, <1>4, <1>5, <1>6 DEF RegistryInv, DrainInv

(* The link of a thread to its predecessor. *)
LEMMA FinishPreserves ==
    ASSUME RegistryInv, NEW h \in Handles, FinishRegistration(h)
    PROVE  RegistryInv'
  <1> USE NodesAssumption
  <1>0. /\ RegistryTypeOK /\ OrderInv /\ RunningInv /\ WalkInv /\ DrainInv
        /\ apc[h] = "link" /\ apc' = [apc EXCEPT ![h] = "done"]
        /\ next' = [next EXCEPT ![prev[h]] = h]
        /\ UNCHANGED <<prev, tail, order, dequeueVars, walkVars, lifeVars,
                       registered>>
        /\ order \in Seq(Handles)
    BY DEF RegistryInv, FinishRegistration, AppendLink, LinkBehind,
           RegistryTypeOK, TypeOK
  <1>1. phase = "running" /\ phase' = "running"
    BY <1>0 DEF DrainInv, lifeVars
  <1>2. PICK m \in 1..Len(order) : order[m] = h
    BY <1>0 DEF OrderInv
  <1>3. /\ m - 1 \in 0..Len(order) /\ m - 1 # Len(order)
        /\ prev[h] = Position(m - 1) /\ prev[h] \in Nodes
    BY <1>0, <1>1, <1>2, PositionFacts DEF RunningInv
  <1>4. RegistryTypeOK'
    BY <1>0, <1>3 DEF RegistryTypeOK, TypeOK, Nodes, dequeueVars, walkVars, lifeVars
  <1>5. OrderInv'
    <2>1. order' = order
      BY <1>0
    <2>2. \A g \in Handles : (apc'[g] = "new") <=> (apc[g] = "new")
      BY <1>0 DEF RegistryTypeOK, TypeOK
    <2> QED
      BY <1>0, <2>1, <2>2, PositionFacts DEF OrderInv
  <1>6. RunningInv'
    <2>1. /\ order' = order /\ tail' = tail /\ prev' = prev
          /\ \A i \in 0..Len(order) : Position(i)' = Position(i)
      BY <1>0 DEF Position
    <2>2. /\ tail = Position(Len(order)) /\ Len(order) \in 0..Len(order)
          /\ tail # prev[h]
      BY <1>0, <1>1, <1>3, PositionFacts DEF RunningInv
    <2>3. /\ dpc' = "idle" /\ taken' = <<>> /\ freed' = {}
          /\ tail' = Position(Len(order))' /\ next'[tail'] = Null
      BY <1>0, <1>1, <2>1, <2>2
         DEF RunningInv, dequeueVars, RegistryTypeOK, TypeOK
    <2>4. ASSUME NEW i \in 1..Len(order)
          PROVE  next'[Position(i - 1)] =
                    IF apc'[order[i]] = "done" THEN order[i] ELSE Null
      <3>1. i - 1 \in 0..Len(order) /\ Position(i - 1) \in Nodes /\ order[i] \in Handles
        BY <1>0, PositionFacts
      <3>2. CASE i = m
        BY <1>0, <1>2, <1>3, <3>1, <3>2 DEF RegistryTypeOK, TypeOK
      <3>3. CASE i # m
        <4>1. Position(i - 1) # prev[h] /\ order[i] # h
          BY <1>0, <1>2, <1>3, <3>1, <3>3, PositionFacts
        <4> QED
          BY <1>0, <1>1, <3>1, <4>1 DEF RunningInv, RegistryTypeOK, TypeOK
      <3> QED
        BY <3>2, <3>3
    <2> QED
      <3>1. \A i \in 1..Len(order) : i - 1 \in 0..Len(order)
        OBVIOUS
      <3> QED
        BY <1>0, <1>1, <2>1, <2>3, <2>4, <3>1 DEF RunningInv
  <1>7. WalkInv'
    BY <1>0, <1>1 DEF WalkInv, walkVars, RegistryTypeOK, TypeOK
  <1> QED
    BY <1>1, <1>4, <1>5, <1>6, <1>7 DEF RegistryInv, DrainInv

(* The beginning and the steps of a walk. *)
LEMMA WalkPreserves ==
    ASSUME RegistryInv, StartWalk \/ ContinueWalk
    PROVE  RegistryInv'
  <1> USE NodesAssumption
  <1>0. /\ RegistryTypeOK /\ OrderInv /\ RunningInv /\ WalkInv /\ DrainInv
        /\ UNCHANGED <<next, appendVars, dequeueVars, lifeVars>>
        /\ order \in Seq(Handles) /\ seen \in Seq(Handles)
    BY DEF RegistryInv, StartWalk, ContinueWalk, WalkFirst, BeginWalk, WalkNext,
           Advance, WalkEnd, RegistryTypeOK, TypeOK
  <1>1. OrderInv' /\ RunningInv' /\ DrainInv'
    BY <1>0 DEF OrderInv, RunningInv, DrainInv, Rest, Position, appendVars,
                dequeueVars, lifeVars
  <1>2. CASE StartWalk
    <2>1. /\ phase = "running" /\ walking' = TRUE /\ cur' = next[Dummy]
          /\ seen' = <<>> /\ registered' = Registered
      BY <1>2 DEF StartWalk, WalkFirst, BeginWalk
    <2>2. RegistryTypeOK'
      BY <1>0, <2>1 DEF RegistryTypeOK, TypeOK, Nodes, Registered, appendVars,
                        dequeueVars, lifeVars
    <2>3. /\ Len(order) \in Nat /\ Position(0) = Dummy
          /\ next[tail] = Null /\ tail = Position(Len(order))
          /\ Len(order) >= 1 =>
                next[Dummy] = IF apc[order[1]] = "done" THEN order[1] ELSE Null
      BY <1>0, <2>1 DEF RunningInv, Position
    <2>4. Len(seen') = 0
      BY <2>1
    <2>5. cur' # Null => Len(order) >= 1 /\ cur' = order[1]
      BY <2>1, <2>3
    <2>6. cur' = Null =>
            \A i \in 1..Len(order) :
               (\A j \in 1..i : order[j] \in registered') => i <= 0
      <3> SUFFICES ASSUME cur' = Null, NEW i \in 1..Len(order),
                          \A j \in 1..i : order[j] \in registered'
                   PROVE  FALSE
        OBVIOUS
      <3>1. 1 \in 1..i /\ 1 \in 1..Len(order) /\ order[1] \in Handles
        BY <1>0
      <3>2. apc[order[1]] = "done"
        BY <2>1, <3>1 DEF Registered
      <3> QED
        BY <2>1, <2>3, <3>1, <3>2
    <2>7. WalkInv'
      BY <1>0, <2>1, <2>3, <2>4, <2>5, <2>6
         DEF WalkInv, Registered, appendVars, lifeVars
    <2> QED
      BY <1>1, <2>2, <2>7 DEF RegistryInv
  <1>3. CASE ContinueWalk /\ WalkNext
    <2>1. /\ walking /\ walking' /\ cur # Null /\ cur' = next[cur]
          /\ seen' = Append(seen, cur) /\ registered' = registered
          /\ phase = "running" /\ cur \in Handles
      BY <1>0, <1>3 DEF ContinueWalk, WalkNext, Advance, WalkInv, RegistryTypeOK, TypeOK
    <2>2. PICK m \in 1..Len(order) : m = Len(seen) + 1 /\ cur = order[m]
      BY <1>0, <2>1 DEF WalkInv
    <2>3. /\ seen' \in Seq(Handles) /\ Len(seen') = m
          /\ \A i \in 1..m : seen'[i] = order[i]
      BY <1>0, <2>1, <2>2, AppendFacts DEF WalkInv
    <2>4. cur' = IF m < Len(order) /\ apc[order[m + 1]] = "done"
                 THEN order[m + 1] ELSE Null
      <3>1. Position(m) = cur
        BY <2>2 DEF Position
      <3>2. CASE m = Len(order)
        BY <1>0, <2>1, <3>1, <3>2 DEF RunningInv
      <3>3. CASE m < Len(order)
        <4>1. m + 1 \in 1..Len(order) /\ (m + 1) - 1 = m
          BY <3>3
        <4> QED
          BY <1>0, <2>1, <3>1, <3>3, <4>1 DEF RunningInv
      <3> QED
        BY <3>2, <3>3
    <2>5. RegistryTypeOK'
      BY <1>0, <1>3, <2>1, <2>3 DEF RegistryTypeOK, TypeOK, Nodes, appendVars,
                        dequeueVars, lifeVars, WalkNext, Advance
    <2>6. ASSUME cur' = Null, NEW i \in 1..Len(order),
                 \A j \in 1..i : order[j] \in registered
          PROVE  i <= m
      <3> SUFFICES ASSUME i > m PROVE FALSE
        OBVIOUS
      <3>1. m + 1 \in 1..i /\ m < Len(order) /\ order[m + 1] \in Handles
        BY <1>0
      <3>2. apc[order[m + 1]] = "done"
        BY <1>0, <2>1, <2>6, <3>1 DEF WalkInv
      <3> QED
        BY <1>0, <2>4, <2>6, <3>1, <3>2
    <2>7. WalkInv'
      BY <1>0, <2>1, <2>2, <2>3, <2>4, <2>6 DEF WalkInv, appendVars, lifeVars
    <2> QED
      BY <1>1, <2>5, <2>7 DEF RegistryInv
  <1>4. CASE ContinueWalk /\ WalkEnd
    <2>1. ~walking' /\ UNCHANGED <<cur, seen, registered>>
      BY <1>4 DEF ContinueWalk, WalkEnd
    <2>2. RegistryTypeOK' /\ WalkInv'
      BY <1>0, <1>4, <2>1 DEF RegistryTypeOK, TypeOK, Nodes, WalkInv, appendVars,
                        dequeueVars, lifeVars, WalkEnd
    <2> QED
      BY <1>1, <2>2 DEF RegistryInv
  <1> QED
    BY <1>2, <1>3, <1>4 DEF ContinueWalk

(* Exits, the beginning of MPI_Finalize, the release of the list and the   *)
(* deletion of the key leave the list as it is.                            *)
LEMMA LifePreserves ==
    ASSUME RegistryInv,
           \/ \E h \in Handles : ThreadExit(h)
           \/ StartFini \/ ReleaseList \/ DeleteKey
    PROVE  RegistryInv'
  <1> USE NodesAssumption
  <1>0. /\ RegistryTypeOK /\ OrderInv /\ RunningInv /\ WalkInv /\ DrainInv
        /\ UNCHANGED <<next, appendVars, dpc, elem, taken, walkVars, registered>>
    BY DEF RegistryInv, ThreadExit, StartFini, ReleaseList, DeleteKey, listVars,
           appendVars, dequeueVars
  <1>1. OrderInv'
    BY <1>0 DEF OrderInv, appendVars
  <1>2. CASE \E h \in Handles : ThreadExit(h)
    <2>1. UNCHANGED <<listVars, phase, registered>>
      BY <1>2 DEF ThreadExit
    <2>2. RegistryTypeOK'
      BY <1>0, <1>2 DEF ThreadExit, RegistryTypeOK, TypeOK, Nodes, listVars,
                        appendVars, dequeueVars, walkVars
    <2>3. RunningInv' /\ WalkInv' /\ DrainInv'
      BY <1>0, <2>1 DEF RunningInv, WalkInv, DrainInv, Rest, Position, listVars,
                        appendVars, dequeueVars, walkVars
    <2> QED
      BY <1>1, <2>2, <2>3 DEF RegistryInv
  <1>3. CASE StartFini
    <2>1. /\ phase = "running" /\ phase' = "finalizing" /\ ~walking
          /\ UNCHANGED listVars
          /\ \A h \in Handles : apc[h] # "link"
      BY <1>3 DEF StartFini
    <2>2. RegistryTypeOK'
      BY <1>0, <1>3 DEF StartFini, RegistryTypeOK, TypeOK, Nodes, listVars,
                        appendVars, dequeueVars, walkVars
    <2>3. /\ \A i \in 1..Len(order) : apc[order[i]] = "done"
          /\ Len(order) \in Nat
      BY <1>0, <2>1, PositionFacts DEF OrderInv, RegistryTypeOK, TypeOK
    <2>4. /\ dpc = "idle" /\ taken = <<>> /\ freed = {} /\ Len(taken) = 0
          /\ tail = Position(Len(order)) /\ next[tail] = Null
          /\ \A i \in 1..Len(order) : next[Position(i - 1)] = order[i]
      BY <1>0, <2>1, <2>3 DEF RunningInv
    <2>5. next[Dummy] = IF 0 < Len(order) THEN order[0 + 1] ELSE Null
      BY <2>3, <2>4 DEF Position
    <2>6. \A i \in 1..(Len(order) - 1) : next[order[i]] = order[i + 1]
      <3> SUFFICES ASSUME NEW i \in 1..(Len(order) - 1)
                   PROVE  next[order[i]] = order[i + 1]
        OBVIOUS
      <3>1. i + 1 \in 1..Len(order) /\ (i + 1) - 1 = i /\ Position(i) = order[i]
        BY <2>3 DEF Position
      <3> QED
        BY <2>4, <3>1
    <2>7. Rest(0)
      BY <2>3, <2>4, <2>6 DEF Rest, Position
    <2>8. DrainInv
      BY <2>1, <2>3, <2>4, <2>5, <2>7 DEF DrainInv
    <2>9. DrainInv'
      BY <2>1, <2>3, <2>4, <2>5, <2>7
         DEF DrainInv, Rest, listVars, appendVars, dequeueVars
    <2>10. RunningInv' /\ WalkInv'
      BY <2>1 DEF RunningInv, WalkInv, listVars, walkVars
    <2> QED
      BY <1>1, <2>2, <2>9, <2>10 DEF RegistryInv
  <1>4. CASE ReleaseList \/ DeleteKey
    <2>1. /\ phase # "running" /\ phase' \in {"released", "deleted"} /\ dpc = "null"
          /\ freed' \subseteq freed \cup {Dummy}
          /\ UNCHANGED <<next, tail, order, taken, dpc, elem, apc, walking>>
      BY <1>0, <1>4 DEF ReleaseList, DeleteKey, DrainInv, listVars, appendVars,
                        dequeueVars, walkVars, RegistryTypeOK
    <2>2. RegistryTypeOK'
      BY <1>0, <1>4 DEF ReleaseList, DeleteKey, RegistryTypeOK, TypeOK, Nodes,
                        listVars, appendVars, dequeueVars, walkVars
    <2>3. DrainInv'
      BY <1>0, <2>1 DEF DrainInv, Rest
    <2>4. RunningInv' /\ WalkInv'
      BY <1>0, <2>1 DEF RunningInv, WalkInv
    <2> QED
      BY <1>1, <2>2, <2>3, <2>4 DEF RegistryInv
  <1> QED
    BY <1>2, <1>3, <1>4

(* The steps of the drain. *)
LEMMA DrainPreserves ==
    ASSUME RegistryInv, DrainStep
    PROVE  RegistryInv'
  <1> USE NodesAssumption
  <1>0. /\ RegistryTypeOK /\ OrderInv /\ DrainInv
        /\ phase = "finalizing" /\ ~walking /\ dpc # "null"
        /\ UNCHANGED <<apc, prev, order, walkVars, lifeVars, registered>>
        /\ order \in Seq(Handles) /\ taken \in Seq(Handles)
    BY DEF RegistryInv, DrainStep, Dequeue, DequeueTestTail, DequeueFirst,
           DequeueUnlink, Unlink, DequeueClear, DequeueCas, DequeueWait,
           DequeueHandOver, appendVars, WalkInv, RegistryTypeOK, TypeOK
  <1>1. OrderInv' /\ RunningInv' /\ WalkInv'
    BY <1>0 DEF OrderInv, RunningInv, WalkInv, lifeVars, walkVars
  <1>2. PICK k \in Nat : k = Len(taken) /\ k <= Len(order)
    BY <1>0 DEF DrainInv
  <1>3. /\ \A h \in Handles : apc'[h] # "link"
        /\ phase' = "finalizing" /\ Len(order) \in Nat
        /\ \A i \in 1..Len(order) : order[i] \in Handles
    BY <1>0 DEF DrainInv, lifeVars
  <1>4. CASE DequeueTestTail
    <2>1. /\ dpc = "idle" /\ dpc' = IF k = Len(order) THEN "null" ELSE "first"
      BY <1>0, <1>2, <1>3, <1>4 DEF DequeueTestTail, IsEmpty, DrainInv, Rest
    <2>2. UNCHANGED <<next, tail, elem, freed, taken>>
      BY <1>4 DEF DequeueTestTail, appendVars
    <2>3. RegistryTypeOK'
      BY <1>0, <2>1, <2>2 DEF RegistryTypeOK, TypeOK, Nodes, lifeVars, walkVars
    <2>4. DrainInv'
      BY <1>0, <1>2, <1>3, <2>1, <2>2 DEF DrainInv, Rest
    <2> QED
      BY <1>1, <2>3, <2>4 DEF RegistryInv
  <1>5. CASE DequeueFirst
    <2>1. /\ dpc = "first" /\ k < Len(order) /\ next[Dummy] = order[k + 1]
      BY <1>0, <1>2, <1>5 DEF DequeueFirst, DrainInv
    <2>2. k + 1 \in 1..Len(order) /\ order[k + 1] # Null
      BY <1>2, <1>3, <2>1
    <2>3. /\ dpc' = "elem" /\ elem' = order[k + 1]
          /\ UNCHANGED <<next, tail, freed, taken>>
      BY <1>5, <2>1, <2>2 DEF DequeueFirst, appendVars
    <2>4. RegistryTypeOK'
      BY <1>0, <1>3, <2>2, <2>3 DEF RegistryTypeOK, TypeOK, Nodes, lifeVars, walkVars
    <2>5. DrainInv'
      BY <1>0, <1>2, <1>3, <2>1, <2>3 DEF DrainInv, Rest
    <2> QED
      BY <1>1, <2>4, <2>5 DEF RegistryInv
  <1>6. ASSUME dpc \in {"elem", "cas"}, Return
        PROVE  /\ Len(taken') = k + 1 /\ taken' \in Seq(Handles)
               /\ \A i \in 1..(k + 1) : taken'[i] = order[i]
               /\ freed' \subseteq {order[i] : i \in 1..(k + 1)} \cup {Dummy}
               /\ dpc' = "idle" /\ elem' = Null
               /\ elem = order[k + 1] /\ k + 1 \in 1..Len(order)
    <2>1. /\ elem = order[k + 1] /\ k + 1 \in 1..Len(order) /\ elem \in Handles
      BY <1>0, <1>2, <1>3, <1>6 DEF DrainInv
    <2>2. /\ taken' = Append(taken, elem) /\ freed' = freed \cup {elem}
          /\ dpc' = "idle" /\ elem' = Null
      BY <1>6 DEF Return
    <2>3. /\ Len(taken') = k + 1 /\ taken' \in Seq(Handles)
          /\ \A i \in 1..(k + 1) : taken'[i] = order[i]
      BY <1>0, <1>2, <2>1, <2>2, AppendFacts DEF DrainInv
    <2>4. freed' \subseteq {order[i] : i \in 1..(k + 1)} \cup {Dummy}
      BY <1>0, <1>2, <2>1, <2>2 DEF DrainInv
    <2> QED
      BY <2>1, <2>2, <2>3, <2>4
  <1>7. CASE DequeueUnlink
    <2>1. /\ dpc = "elem" /\ next[elem] # Null /\ Return
          /\ next' = [next EXCEPT ![Dummy] = next[elem], ![elem] = Null]
          /\ tail' = tail
      BY <1>7 DEF DequeueUnlink, Unlink, appendVars
    <2>2. /\ elem = order[k + 1] /\ k + 1 < Len(order) /\ elem \in Handles
          /\ next[elem] = order[k + 2] /\ k + 2 \in 1..Len(order)
      BY <1>0, <1>2, <1>3, <1>6, <2>1 DEF DrainInv, Rest
    <2>3. /\ next' \in [Nodes -> Handles \cup {Null}]
          /\ next'[Dummy] = order[k + 2]
          /\ \A i \in (k + 2)..Len(order) : next'[order[i]] = next[order[i]]
      <3>1. \A i \in (k + 2)..Len(order) : order[i] \in Handles /\ order[i] # elem
        BY <1>0, <1>2, <1>3, <2>2 DEF OrderInv
      <3> QED
        BY <1>0, <2>1, <2>2, <3>1 DEF RegistryTypeOK, TypeOK, Nodes
    <2>4. RegistryTypeOK'
      BY <1>0, <1>3, <1>6, <2>1, <2>2, <2>3
         DEF RegistryTypeOK, TypeOK, Nodes, lifeVars, walkVars, Return
    <2>5. DrainInv'
      <3>1. Len(taken') = k + 1 /\ order' = order
        BY <1>0, <1>6, <2>1
      <3>2. /\ \A i \in (k + 1)..(Len(order) - 1) : next[order[i]] = order[i + 1]
            /\ next[order[Len(order)]] = Null
            /\ tail = order[Len(order)]
        BY <1>0, <1>2, <1>3, <2>2 DEF DrainInv, Rest
      <3>3. \A i \in (k + 2)..(Len(order) - 1) : next'[order[i]] = order[i + 1]
        BY <1>2, <1>3, <2>3, <3>2
      <3>4. next'[order[Len(order)]] = Null /\ tail' = order[Len(order)]
        <4>1. Len(order) \in (k + 2)..Len(order)
          BY <1>2, <1>3, <2>2
        <4>2. next'[order[Len(order)]] = next[order[Len(order)]]
          BY <2>3, <4>1
        <4> QED
          BY <2>1, <3>2, <4>2
      <3>5. k + 1 < Len(order) /\ (k + 1) + 1 = k + 2
        BY <1>2, <2>2
      <3>6. Rest(k + 1)'
        BY <3>1, <3>3, <3>4, <3>5 DEF Rest
      <3> QED
        BY <1>0, <1>2, <1>3, <1>6, <2>1, <2>2, <2>3, <3>1, <3>6 DEF DrainInv
    <2> QED
      BY <1>1, <2>4, <2>5 DEF RegistryInv
  <1>8. CASE DequeueClear
    <2>1. /\ dpc = "elem" /\ dpc' = "cas" /\ next[elem] = Null
          /\ next' = [next EXCEPT ![Dummy] = Null]
          /\ UNCHANGED <<tail, elem, freed, taken>>
      BY <1>8 DEF DequeueClear, appendVars
    <2>2. /\ elem = order[k + 1] /\ k < Len(order)
      BY <1>0, <1>2, <2>1 DEF DrainInv
    <2>3. k + 1 = Len(order)
      <3>1. CASE k + 1 < Len(order)
        <4>1. k + 1 \in (k + 1)..(Len(order) - 1) /\ (k + 1) + 1 \in 1..Len(order)
          BY <1>2, <1>3, <3>1
        <4> QED
          BY <1>0, <1>2, <1>3, <2>1, <2>2, <4>1 DEF DrainInv, Rest
      <3> QED
        BY <1>2, <1>3, <2>2, <3>1
    <2>4. RegistryTypeOK'
      BY <1>0, <2>1 DEF RegistryTypeOK, TypeOK, Nodes, lifeVars, walkVars
    <2>5. \A i \in 1..Len(order) : next'[order[i]] = next[order[i]]
      BY <1>0, <1>3, <2>1 DEF RegistryTypeOK, TypeOK, Nodes
    <2>6. Rest(k)'
      BY <1>0, <1>2, <1>3, <2>1, <2>3, <2>5 DEF DrainInv, Rest
    <2> QED
      <3>1. DrainInv'
        <4>1. Len(taken') = k /\ order' = order /\ taken' = taken
          BY <1>0, <1>2, <2>1
        <4>2. Rest(Len(taken))'
          BY <1>2, <2>6, <4>1 DEF Rest
        <4>3. next'[Dummy] = Null
          BY <1>0, <2>1 DEF RegistryTypeOK, TypeOK, Nodes
        <4> QED
          BY <1>0, <1>2, <1>3, <2>1, <2>2, <2>3, <4>1, <4>2, <4>3 DEF DrainInv
      <3> QED
        BY <1>1, <2>4, <3>1 DEF RegistryInv
  <1>9. CASE DequeueCas
    <2>1. /\ dpc = "cas" /\ tail = elem /\ k + 1 = Len(order)
      BY <1>0, <1>2, <1>3, <1>9 DEF DequeueCas, DrainInv, Rest
    <2>2. /\ tail' = Dummy /\ Return /\ next' = next
      BY <1>9, <2>1 DEF DequeueCas, TailIsElem
    <2>3. RegistryTypeOK'
      BY <1>0, <1>6, <2>1, <2>2
         DEF RegistryTypeOK, TypeOK, Nodes, lifeVars, walkVars, Return
    <2>4. next[Dummy] = Null
      BY <1>0, <1>2, <2>1 DEF DrainInv
    <2>5. DrainInv'
      BY <1>0, <1>2, <1>3, <1>6, <2>1, <2>2, <2>4 DEF DrainInv, Rest
    <2> QED
      BY <1>1, <2>3, <2>5 DEF RegistryInv
  <1>10. ~DequeueWait /\ ~DequeueHandOver
    BY <1>0 DEF DequeueWait, DequeueHandOver, DrainInv
  <1> QED
    BY <1>4, <1>5, <1>7, <1>8, <1>9, <1>10 DEF DrainStep, Dequeue

-----------------------------------------------------------------------------
(* The theorems. *)

(* Every step of the registry keeps the invariant. *)
LEMMA NextPreserves ==
    ASSUME RegistryInv, [RegistryNext]_vars
    PROVE  RegistryInv'
  <1>1. ASSUME NEW h \in Handles, Register(h) PROVE RegistryInv'
    BY <1>1, RegisterPreserves
  <1>2. ASSUME NEW h \in Handles, FinishRegistration(h) PROVE RegistryInv'
    BY <1>2, FinishPreserves
  <1>3. ASSUME NEW h \in Handles, ThreadExit(h) PROVE RegistryInv'
    BY <1>3, LifePreserves
  <1>4. CASE StartWalk \/ ContinueWalk
    BY <1>4, WalkPreserves
  <1>5. CASE StartFini \/ ReleaseList \/ DeleteKey
    BY <1>5, LifePreserves
  <1>6. CASE DrainStep
    BY <1>6, DrainPreserves
  <1>7. CASE UNCHANGED vars
    BY <1>7 DEF RegistryInv, RegistryTypeOK, TypeOK, OrderInv, RunningInv,
                WalkInv, DrainInv, Rest, Position, vars, listVars, appendVars,
                dequeueVars, walkVars, lifeVars
  <1> QED
    BY <1>1, <1>2, <1>3, <1>4, <1>5, <1>6, <1>7 DEF RegistryNext, Fini

(* In every state of the registry, the links in memory are those of the    *)
(* registration order, but for the pending ones and for what the drain has *)
(* taken: the inductive invariant holds, for any number of threads.        *)
THEOREM RegistryInvariance == RegistrySpec => []RegistryInv
  <1>1. RegistryInit => RegistryInv
    BY InitEstablishes
  <1>2. RegistryInv /\ [RegistryNext]_vars => RegistryInv'
    BY NextPreserves
  <1> QED
    BY <1>1, <1>2, PTL DEF RegistrySpec

(* Every variable keeps its type. *)
THEOREM RegistryTypeCorrect == RegistrySpec => []RegistryTypeOK
  <1>1. RegistryInv => RegistryTypeOK
    BY DEF RegistryInv
  <1> QED
    BY <1>1, RegistryInvariance, PTL

(* As mpiP-mt-stats.c uses the list, no append writes to a freed element,  *)
(* and neither a dequeue nor a walk stands on one: what the list by itself *)
(* does not give (TSListUseAfterFree) the callers' order of calls does.    *)
THEOREM RegistryMemorySafe == RegistrySpec => []NoUseAfterFree
  <1>1. RegistryInv => NoUseAfterFree
    <2> SUFFICES ASSUME RegistryInv PROVE NoUseAfterFree
      OBVIOUS
    <2> USE NodesAssumption
    <2>1. CASE phase = "running"
      BY <2>1 DEF RegistryInv, RunningInv, NoUseAfterFree
    <2>2. CASE phase # "running"
      <3>1. /\ ~walking /\ \A h \in Handles : apc[h] # "link"
            /\ dpc \notin {"wait", "hand"}
        BY <2>2 DEF RegistryInv, WalkInv, DrainInv
      <3>2. ASSUME dpc \in {"elem", "cas"} PROVE elem \notin freed
        <4>1. /\ elem = order[Len(taken) + 1] /\ Len(taken) < Len(order)
              /\ freed \subseteq {order[i] : i \in 1..Len(taken)} \cup {Dummy}
          BY <2>2, <3>2 DEF RegistryInv, DrainInv
        <4>2. Len(taken) \in Nat /\ Len(order) \in Nat /\ order \in Seq(Handles)
          BY DEF RegistryInv, RegistryTypeOK, TypeOK
        <4>3. /\ Len(taken) + 1 \in 1..Len(order)
              /\ \A i \in 1..Len(taken) : i \in 1..Len(order) /\ i # Len(taken) + 1
          BY <4>1, <4>2
        <4>4. elem \in Handles /\ \A i \in 1..Len(taken) : order[i] # elem
          BY <4>1, <4>2, <4>3 DEF RegistryInv, OrderInv
        <4> QED
          BY <4>1, <4>4
      <3> QED
        BY <3>1, <3>2 DEF NoUseAfterFree
    <2> QED
      BY <2>1, <2>2
  <1> QED
    BY <1>1, RegistryInvariance, PTL

(* A walk visits the handles in the order of their registration, none of   *)
(* them twice, whatever registrations run beside it.                       *)
THEOREM WalksInOrder == RegistrySpec => []SeenIsPrefix
  <1>1. RegistryInv => SeenIsPrefix
    BY DEF RegistryInv, WalkInv, SeenIsPrefix
  <1> QED
    BY <1>1, RegistryInvariance, PTL

(* A walk that ends has visited every thread that was registered when it   *)
(* began and that no pending registration preceded.                        *)
THEOREM WalksCover == RegistrySpec => []WalkCoversUnobstructed
  <1>1. RegistryInv => WalkCoversUnobstructed
    <2> SUFFICES ASSUME RegistryInv, walking, cur = Null,
                        NEW i \in 1..Len(order),
                        \A j \in 1..i : order[j] \in registered
                 PROVE  order[i] \in Visited
      BY DEF WalkCoversUnobstructed
    <2>1. /\ i <= Len(seen) /\ Len(seen) \in Nat
          /\ \A m \in 1..Len(seen) : seen[m] = order[m]
      BY DEF RegistryInv, WalkInv, RegistryTypeOK, TypeOK
    <2>2. i \in 1..Len(seen) /\ seen[i] = order[i]
      BY <2>1
    <2> QED
      BY <2>2 DEF Visited
  <1> QED
    BY <1>1, RegistryInvariance, PTL

(* mpiPi_stats_mt_fini releases the list only when every handle that was   *)
(* ever registered has been dequeued, in the order of registration.        *)
THEOREM FiniDrains == RegistrySpec => []DrainComplete
  <1>1. RegistryInv => DrainComplete
    <2> SUFFICES ASSUME RegistryInv, phase \in {"released", "deleted"}
                 PROVE  taken = order
      BY DEF DrainComplete
    <2>1. dpc = "null" /\ Len(taken) = Len(order)
      BY DEF RegistryInv, DrainInv
    <2>2. \A i \in 1..Len(taken) : taken[i] = order[i]
      BY DEF RegistryInv, DrainInv
    <2>3. taken \in Seq(Handles) /\ order \in Seq(Handles)
      BY DEF RegistryInv, RegistryTypeOK, TypeOK
    <2> QED
      BY <2>1, <2>2, <2>3
  <1> QED
    BY <1>1, RegistryInvariance, PTL

-----------------------------------------------------------------------------
(***************************************************************************)
(* The registry implements the queue of TSQueue, for any number of         *)
(* threads.  In every phase the elements in memory, pending links          *)
(* included, are those of the registration order that the drain has not    *)
(* taken (Waiting); each step of the registry then is a step of the queue, *)
(* or none.                                                                *)
(***************************************************************************)
Waiting == SubSeq(order, Len(taken) + 1, Len(order))

(* A dequeue that returned NULL has left nothing behind the head. *)
NullInv == dpc = "null" => next[Dummy] = Null

(* There are n numbers from 1 to n. *)
LEMMA FirstNumbers ==
    ASSUME NEW n \in Nat
    PROVE  IsFiniteSet(1..n) /\ Cardinality(1..n) = n
<1>1. IsFiniteSet(1..n) /\ Cardinality(1..n) = IF 1 > n THEN 0 ELSE n - 1 + 1
  BY FS_Interval, SMTT(30)
<1>2. QED
  BY <1>1

-----------------------------------------------------------------------------
LEMMA OrderFacts ==
    ASSUME RegistryInv
    PROVE  /\ TypeOK /\ order \in Seq(Handles) /\ Len(order) \in Nat
           /\ Len(taken) \in Nat /\ Len(taken) <= Len(order)
           /\ \A i \in 1..Len(order) : order[i] \in Handles /\ order[i] # Null /\ order[i] # Dummy
           /\ \A i, j \in 1..Len(order) : order[i] = order[j] => i = j
           /\ \A i \in 1..Len(taken) : taken[i] = order[i]
           /\ phase = "running" => Len(taken) = 0 /\ taken = <<>>
BY NodesAssumption DEF RegistryInv, RegistryTypeOK, TypeOK, OrderInv, RunningInv, DrainInv

LEMMA WaitingFacts ==
    ASSUME RegistryInv
    PROVE  /\ Waiting \in Seq(Handles)
           /\ Len(Waiting) = Len(order) - Len(taken)
           /\ \A i \in 1..Len(Waiting) : Waiting[i] = order[Len(taken) + i]
           /\ Waiting \in BoundedSeq(Handles, Cardinality(Handles))
<1>1. PICK k \in Nat, n \in Nat : k = Len(taken) /\ n = Len(order) /\ k <= n
  BY OrderFacts
<1>2. \A i \in 1..n : order[i] \in Handles
  BY <1>1, OrderFacts
<1>3. \A i \in (k + 1)..n : order[i] \in Handles
  BY <1>2
<1>4. /\ SubSeq(order, k + 1, n) \in Seq(Handles)
      /\ Len(SubSeq(order, k + 1, n)) = IF k + 1 <= n THEN n - (k + 1) + 1 ELSE 0
      /\ \A i \in 1..(n - (k + 1) + 1) : SubSeq(order, k + 1, n)[i] = order[(k + 1) + i - 1]
  BY <1>3, SubSeqProperties
<1>5. /\ Waiting \in Seq(Handles) /\ Len(Waiting) = n - k
      /\ \A i \in 1..Len(Waiting) : Waiting[i] = order[k + i]
  <2>1. Waiting = SubSeq(order, k + 1, n)
    BY <1>1 DEF Waiting
  <2>2. n - (k + 1) + 1 = n - k /\ (k + 1 <= n \/ n - k = 0)
    BY <1>1
  <2>3. Len(Waiting) = n - k
    BY <1>4, <2>1, <2>2
  <2>4. ASSUME NEW i \in 1..(n - k)
        PROVE  Waiting[i] = order[k + i]
    <3>1. (k + 1) + i - 1 = k + i
      OBVIOUS
    <3>2. QED
      BY <1>4, <2>1, <2>2, <3>1
  <2>5. QED
    BY <1>4, <2>1, <2>3, <2>4
<1>6. Len(Waiting) <= Cardinality(Handles)
  <2>1. ASSUME Cardinality(Handles) < Len(Waiting)
        PROVE  FALSE
    <3>1. Cardinality(Handles) \in Nat
      BY FiniteAssumption, FS_CardinalityType
    <3>2. IsFiniteSet(1..Len(Waiting)) /\ Cardinality(1..Len(Waiting)) = Len(Waiting)
      BY <1>5, FirstNumbers
    <3>3. Waiting \in [1..Len(Waiting) -> Handles]
      BY <1>5
    <3>4. PICK x \in 1..Len(Waiting), y \in 1..Len(Waiting) : x # y /\ Waiting[x] = Waiting[y]
      BY <2>1, <3>2, <3>3, FiniteAssumption, FS_PigeonHole
    <3>5. order[k + x] = order[k + y] /\ k + x \in 1..n /\ k + y \in 1..n
      BY <1>5, <3>4
    <3>6. QED
      BY <3>4, <3>5, <1>1, OrderFacts
  <2>2. QED
    BY <2>1, <1>5, FiniteAssumption, FS_CardinalityType
<1>7. Waiting \in BoundedSeq(Handles, Cardinality(Handles))
  <2>1. Len(Waiting) \in 0..Cardinality(Handles) /\ Waiting \in [1..Len(Waiting) -> Handles]
    BY <1>5, <1>6, FiniteAssumption, FS_CardinalityType
  <2>2. QED
    BY <2>1 DEF BoundedSeq, SeqOf
<1>8. QED
  BY <1>1, <1>5, <1>7

(* While the program runs, the pending links lead where they will; in the  *)
(* drain there are none.                                                   *)
LEMMA FollowersInOrder ==
    ASSUME RegistryInv, NullInv
    PROVE  /\ \A i \in (Len(taken) + 1)..Len(order) :
                 Follower(order[i]) = IF i < Len(order) THEN order[i + 1] ELSE Null
           /\ Start = IF Len(taken) < Len(order) THEN order[Len(taken) + 1] ELSE Null
<1>1. PICK k \in Nat, n \in Nat : k = Len(taken) /\ n = Len(order) /\ k <= n
  BY OrderFacts
<1>2. \A i \in 1..n : order[i] \in Handles /\ order[i] # Null /\ order[i] # Dummy
  BY <1>1, OrderFacts
<1>3. CASE phase = "running"
  <2>1. k = 0 /\ dpc = "idle" /\ next[Position(n)] = Null
    BY <1>1, <1>3, OrderFacts DEF RegistryInv, RunningInv
  <2>2. \A i \in 1..n : /\ prev[order[i]] = Position(i - 1)
                        /\ next[Position(i - 1)] =
                              IF apc[order[i]] = "done" THEN order[i] ELSE Null
                        /\ apc[order[i]] \in {"link", "done"}
    BY <1>1, <1>2, <1>3, OrderFacts DEF RegistryInv, RunningInv, OrderInv, TypeOK
  <2>3. \A i, j \in 0..n : Position(i) = Position(j) => i = j
    BY <1>1, PositionFacts DEF RegistryInv
  <2>4. ASSUME NEW h \in Handles, apc[h] = "link"
        PROVE  \E j \in 1..n : order[j] = h
    BY <2>4, <1>1 DEF RegistryInv, OrderInv
  <2>5. ASSUME NEW i \in 0..n
        PROVE  Follower(Position(i)) = IF i < n THEN order[i + 1] ELSE Null
    <3>1. ASSUME NEW h \in Handles, apc[h] = "link", prev[h] = Position(i)
          PROVE  i < n /\ h = order[i + 1]
      <4>1. PICK j \in 1..n : order[j] = h
        BY <3>1, <2>4
      <4>2. j - 1 \in 0..n /\ Position(j - 1) = Position(i)
        BY <3>1, <4>1, <2>2
      <4>3. j - 1 = i
        BY <4>2, <2>3
      <4>4. QED
        BY <4>1, <4>3
    <3>2. CASE i = n
      BY <3>1, <3>2, <2>1 DEF Follower
    <3>3. CASE i < n
      <4>1. i + 1 \in 1..n /\ (i + 1) - 1 = i
        BY <3>3
      <4>2. /\ prev[order[i + 1]] = Position(i)
            /\ next[Position(i)] = IF apc[order[i + 1]] = "done" THEN order[i + 1] ELSE Null
            /\ apc[order[i + 1]] \in {"link", "done"}
            /\ order[i + 1] \in Handles /\ order[i + 1] # Null
        BY <4>1, <2>2, <1>2
      <4>3. QED
        BY <3>1, <3>3, <4>2 DEF Follower
    <3>4. QED
      BY <3>2, <3>3
  <2>6. Position(0) = Dummy /\ \A i \in 1..n : Position(i) = order[i]
    BY DEF Position
  <2>7. Start = IF 0 < n THEN order[0 + 1] ELSE Null
    <3>1. 0 \in 0..n
      OBVIOUS
    <3>2. QED
      BY <3>1, <2>1, <2>5, <2>6 DEF Start
  <2>8. ASSUME NEW i \in 1..n
        PROVE  Follower(order[i]) = IF i < n THEN order[i + 1] ELSE Null
    <3>1. i \in 0..n
      OBVIOUS
    <3>2. QED
      BY <3>1, <2>5, <2>6
  <2>9. QED
    BY <2>1, <2>7, <2>8, <1>1
<1>4. CASE phase # "running"
  <2>1. /\ \A h \in Handles : apc[h] # "link"
        /\ Rest(k)
        /\ dpc \in {"idle", "first", "elem"} =>
              next[Dummy] = IF k < n THEN order[k + 1] ELSE Null
        /\ dpc = "cas" => elem = order[k + 1] /\ k < n
        /\ dpc = "null" => k = n
        /\ dpc \notin {"wait", "hand"}
    BY <1>1, <1>4 DEF RegistryInv, DrainInv
  <2>2. \A m : Follower(m) = IF next[m] # Null THEN next[m] ELSE Null
    BY <2>1 DEF Follower
  <2>3. dpc \in {"idle", "null", "first", "elem", "cas"}
    BY <2>1, OrderFacts DEF TypeOK
  <2>4. Start = IF k < n THEN order[k + 1] ELSE Null
    <3>1. CASE dpc = "cas"
      BY <3>1, <2>1 DEF Start
    <3>2. CASE dpc = "null"
      BY <3>2, <2>1, <2>2 DEF Start, NullInv
    <3>3. CASE dpc \in {"idle", "first", "elem"}
      BY <3>3, <2>1, <2>2 DEF Start
    <3>4. QED
      BY <3>1, <3>2, <3>3, <2>3
  <2>5. ASSUME NEW i \in (k + 1)..n
        PROVE  Follower(order[i]) = IF i < n THEN order[i + 1] ELSE Null
    <3>1. CASE i = n
      <4>1. k < n
        BY <3>1
      <4>2. QED
        BY <3>1, <4>1, <2>1, <2>2, <1>1 DEF Rest
    <3>2. CASE i < n
      <4>1. i \in (k + 1)..(n - 1)
        BY <3>2
      <4>2. next[order[i]] = order[i + 1]
        BY <4>1, <2>1, <1>1 DEF Rest
      <4>3. QED
        BY <3>2, <4>2, <2>2
    <3>3. QED
      BY <3>1, <3>2
  <2>6. QED
    BY <2>4, <2>5, <1>1
<1>5. QED
  BY <1>3, <1>4

(* There is one chain only. *)
LEMMA ChainsAgree ==
    ASSUME NEW s \in Seq(Handles), NEW u \in Seq(Handles), Chain(s), Chain(u)
    PROVE  /\ Len(s) <= Len(u)
           /\ \A i \in 1..Len(s) : s[i] = u[i]
<1> DEFINE T == {i \in 1..Len(s) : ~(i <= Len(u) /\ s[i] = u[i])}
<1>1. SUFFICES ASSUME T # {}
               PROVE  FALSE
  <2>1. ASSUME T = {}
        PROVE  \A i \in 1..Len(s) : i <= Len(u) /\ s[i] = u[i]
    BY <2>1
  <2>2. QED
    BY <1>1, <2>1
<1>2. T \subseteq Nat
  OBVIOUS
<1>3. PICK m \in T : \A i \in T : m <= i
  BY <1>1, <1>2, LeastNumber
<1>4. m \in 1..Len(s) /\ ~(m <= Len(u) /\ s[m] = u[m])
  OBVIOUS
<1>5. CASE m = 1
  <2>1. s # <<>> /\ s[1] = Start /\ Start # Null
    BY <1>4, <1>5 DEF Chain
  <2>2. u # <<>> /\ u[1] = Start
    BY <2>1 DEF Chain
  <2>3. QED
    BY <1>4, <1>5, <2>1, <2>2
<1>6. CASE m > 1
  <2>1. m - 1 \in 1..Len(s) /\ m - 1 \notin T
    BY <1>2, <1>3, <1>4, <1>6
  <2>2. m - 1 <= Len(u) /\ s[m - 1] = u[m - 1]
    BY <2>1
  <2>3. s[m] = Follower(s[m - 1])
    BY <1>4, <1>6 DEF Chain
  <2>4. CASE m <= Len(u)
    <3>1. u[m] = Follower(u[m - 1])
      BY <1>4, <1>6, <2>4 DEF Chain
    <3>2. QED
      BY <1>4, <2>2, <2>3, <2>4, <3>1
  <2>5. CASE m > Len(u)
    <3>1. Len(u) = m - 1 /\ u # <<>>
      BY <1>4, <1>6, <2>2, <2>5
    <3>2. Follower(u[m - 1]) = Null
      BY <3>1 DEF Chain
    <3>3. s[m] \in Handles
      BY <1>4
    <3>4. QED
      BY <2>2, <2>3, <3>2, <3>3, NodesAssumption
  <2>6. QED
    BY <1>4, <2>4, <2>5
<1>7. QED
  BY <1>4, <1>5, <1>6

LEMMA ContentsIsWaiting ==
    ASSUME RegistryInv, NullInv
    PROVE  Contents = Waiting
<1>1. PICK k \in Nat, n \in Nat : k = Len(taken) /\ n = Len(order) /\ k <= n
  BY OrderFacts
<1>2. /\ Waiting \in Seq(Handles) /\ Len(Waiting) = n - k
      /\ \A i \in 1..(n - k) : Waiting[i] = order[k + i]
      /\ Waiting \in BoundedSeq(Handles, Cardinality(Handles))
  BY <1>1, WaitingFacts
<1>3. /\ \A i \in (k + 1)..n : Follower(order[i]) = IF i < n THEN order[i + 1] ELSE Null
      /\ Start = IF k < n THEN order[k + 1] ELSE Null
  BY <1>1, FollowersInOrder
<1>4. Chain(Waiting)
  <2>1. Waiting = <<>> <=> k = n
    BY <1>1, <1>2
  <2>2. k < n => order[k + 1] # Null
    BY <1>1, OrderFacts
  <2>3. ASSUME k < n
        PROVE  Waiting[1] = Start /\ Follower(Waiting[Len(Waiting)]) = Null
    <3>1. 1 \in 1..(n - k) /\ n - k \in 1..(n - k) /\ k + (n - k) = n /\ n \in (k + 1)..n
      BY <2>3
    <3>2. Waiting[1] = order[k + 1] /\ Waiting[n - k] = order[n]
      BY <3>1, <1>2
    <3>3. QED
      BY <2>3, <3>1, <3>2, <1>2, <1>3
  <2>4. ASSUME NEW i \in 2..(n - k)
        PROVE  Waiting[i] = Follower(Waiting[i - 1])
    <3>1. /\ i \in 1..(n - k) /\ i - 1 \in 1..(n - k)
          /\ k + (i - 1) \in (k + 1)..n /\ k + (i - 1) < n /\ (k + (i - 1)) + 1 = k + i
      BY <1>1
    <3>2. Waiting[i] = order[k + i] /\ Waiting[i - 1] = order[k + (i - 1)]
      BY <3>1, <1>2
    <3>3. Follower(order[k + (i - 1)]) = order[k + i]
      BY <3>1, <1>3
    <3>4. QED
      BY <3>2, <3>3
  <2>5. k < n \/ k = n
    BY <1>1
  <2>6. QED
    BY <2>1, <2>2, <2>3, <2>4, <2>5, <1>2, <1>3 DEF Chain
<1>5. Chain(Contents) /\ Contents \in BoundedSeq(Handles, Cardinality(Handles))
  BY <1>2, <1>4 DEF Contents
<1>6. Contents \in Seq(Handles)
  BY <1>5, FiniteAssumption, FS_CardinalityType DEF BoundedSeq, SeqOf
<1>7. /\ Len(Contents) = Len(Waiting)
      /\ \A i \in 1..Len(Waiting) : Contents[i] = Waiting[i]
  <2>1. Len(Waiting) <= Len(Contents) /\ \A i \in 1..Len(Waiting) : Waiting[i] = Contents[i]
    BY <1>2, <1>4, <1>5, <1>6, ChainsAgree
  <2>2. Len(Contents) <= Len(Waiting)
    BY <1>2, <1>4, <1>5, <1>6, ChainsAgree
  <2>3. QED
    BY <2>1, <2>2, <1>2, <1>6
<1>8. QED
  BY <1>2, <1>6, <1>7, SeqEqual

-----------------------------------------------------------------------------
LEMMA NextNullInv ==
    ASSUME RegistryInv, NullInv, [RegistryNext]_vars
    PROVE  NullInv'
<1>1. ASSUME DrainStep
      PROVE  NullInv'
  <2>1. phase # "running" /\ dpc # "null"
    BY <1>1 DEF DrainStep
  <2>2. /\ Rest(Len(taken))
        /\ dpc \in {"idle", "first", "elem"} =>
              next[Dummy] = IF Len(taken) < Len(order) THEN order[Len(taken) + 1] ELSE Null
    BY <2>1 DEF RegistryInv, DrainInv
  <2>3. CASE DequeueTestTail
    <3>1. ASSUME tail = Dummy
          PROVE  ~(Len(taken) < Len(order))
      <4>1. Len(order) > 0 => order[Len(order)] # Dummy
        BY OrderFacts
      <4>2. QED
        BY <3>1, <4>1, <2>2, OrderFacts DEF Rest
    <3>2. QED
      BY <2>1, <2>2, <2>3, <3>1 DEF DequeueTestTail, IsEmpty, NullInv
  <2>4. CASE DequeueFirst
    BY <2>4 DEF DequeueFirst, NullInv
  <2>5. CASE ~DequeueTestTail /\ ~DequeueFirst
    BY <1>1, <2>5 DEF DrainStep, Dequeue, DequeueUnlink, Unlink, DequeueClear, DequeueCas,
       DequeueWait, DequeueHandOver, Return, NullInv
  <2>6. QED
    BY <2>3, <2>4, <2>5
<1>2. ASSUME ~DrainStep
      PROVE  UNCHANGED <<next, dpc>> \/ (UNCHANGED dpc /\ phase = "running")
  <2>1. ASSUME NEW h \in Handles, FinishRegistration(h)
        PROVE  UNCHANGED dpc /\ phase = "running"
    BY <2>1 DEF FinishRegistration, AppendLink, LinkBehind, dequeueVars, RegistryInv, DrainInv
  <2>2. ASSUME NEW h \in Handles, Register(h)
        PROVE  UNCHANGED dpc /\ phase = "running"
    BY <2>2 DEF Register, AppendSwap, dequeueVars
  <2>3. ASSUME ~(\E h \in Handles : FinishRegistration(h) \/ Register(h))
        PROVE  UNCHANGED <<next, dpc>>
    BY <1>2, <2>3 DEF RegistryNext, vars, listVars, dequeueVars, ThreadExit, StartWalk,
       ContinueWalk, WalkFirst, BeginWalk, WalkNext, Advance, WalkEnd, Fini, StartFini,
       ReleaseList, DeleteKey
  <2>4. QED
    BY <2>1, <2>2, <2>3
<1>3. QED
  BY <1>1, <1>2 DEF NullInv, RegistryInv, RunningInv

LEMMA InitNullInv == RegistryInit => NullInv
BY DEF RegistryInit, NullInv

LEMMA InitImplements == RegistryInit => Queue!QueueInit
<1> SUFFICES ASSUME RegistryInit
             PROVE  Queue!QueueInit
  OBVIOUS
<1>1. RegistryInv /\ NullInv
  BY InitEstablishes, InitNullInv
<1>2. order = <<Main>> /\ taken = <<>> /\ seen = <<>> /\ phase = "running"
  BY DEF RegistryInit
<1>3. Contents = SubSeq(order, 1, Len(order))
  BY <1>1, <1>2, ContentsIsWaiting DEF Waiting
<1>4. order \in Seq(Handles)
  BY <1>1, OrderFacts
<1>5. Contents = order
  BY <1>3, <1>4, SubSeqFull
<1>6. QED
  BY <1>2, <1>5 DEF Queue!QueueInit

(* What the refinement mapping reads from memory is what waits. *)
Mapped == Contents = Waiting

(* Each step of the registry is a step of the queue, or none. *)
LEMMA StepImplements ==
    ASSUME RegistryInv, NullInv, [RegistryNext]_vars,
           Contents = Waiting, Contents' = Waiting'
    PROVE  [Queue!QueueNext]_Queue!queueVars
<1>1. PICK k \in Nat, n \in Nat : k = Len(taken) /\ n = Len(order) /\ k <= n
  BY OrderFacts
<1>2. order \in Seq(Handles)
  BY OrderFacts
<1>3. ASSUME UNCHANGED <<order, taken, seen>>,
             (phase' \in {"released", "deleted"}) = (phase \in {"released", "deleted"})
      PROVE  UNCHANGED Queue!queueVars
  <2>1. Contents' = Contents
    BY <1>3 DEF Waiting
  <2>2. QED
    BY <1>3, <2>1 DEF Queue!queueVars
<1>4. ASSUME NEW h \in Handles, Register(h)
      PROVE  Queue!Enqueue(h)
  <2>1. /\ phase = "running" /\ apc[h] = "new" /\ order' = Append(order, h)
        /\ UNCHANGED <<phase, taken, seen>>
    BY <1>4 DEF Register, AppendSwap, dequeueVars, walkVars
  <2>2. taken = <<>> /\ Len(taken) = 0
    BY <2>1, OrderFacts
  <2>3. Waiting = order
    BY <1>2, <2>2, SubSeqFull DEF Waiting
  <2>4. Waiting' = order'
    <3>1. order' \in Seq(Handles)
      BY <1>2, <2>1, AppendFacts
    <3>2. SubSeq(order', 1, Len(order')) = order'
      BY <3>1, SubSeqFull
    <3>3. QED
      BY <2>1, <2>2, <3>2 DEF Waiting
  <2>5. h \notin Queue!Entered
    <3>1. \A i \in DOMAIN order : order[i] # h
      BY <1>2, <2>1 DEF RegistryInv, OrderInv
    <3>2. DOMAIN taken = {}
      BY <2>2
    <3>3. QED
      BY <2>3, <3>1, <3>2 DEF Queue!Entered
  <2>6. QED
    BY <2>1, <2>3, <2>4, <2>5 DEF Queue!Enqueue
<1>5. ASSUME WalkFirst, phase' = phase
      PROVE  Queue!Revisit
  <2>1. seen' = <<>> /\ UNCHANGED <<order, taken>>
    BY <1>5 DEF WalkFirst, BeginWalk, appendVars, dequeueVars
  <2>2. Contents' = Contents
    BY <2>1 DEF Waiting
  <2>3. QED
    BY <1>5, <2>1, <2>2 DEF Queue!Revisit
<1>6. ASSUME WalkNext, phase' = phase
      PROVE  Queue!Visit
  <2>1. /\ walking /\ cur # Null /\ seen' = Append(seen, cur)
        /\ UNCHANGED <<order, taken>>
    BY <1>6 DEF WalkNext, Advance, appendVars, dequeueVars
  <2>2. phase = "running" /\ Len(seen) < Len(order) /\ cur = order[Len(seen) + 1]
    BY <2>1 DEF RegistryInv, WalkInv
  <2>3. taken = <<>> /\ Len(taken) = 0
    BY <2>2, OrderFacts
  <2>4. Contents = order /\ Contents' = Contents
    BY <1>2, <2>1, <2>3, SubSeqFull DEF Waiting
  <2>5. QED
    BY <1>6, <2>1, <2>2, <2>3, <2>4 DEF Queue!Visit
<1>7. ASSUME Return, k < n, elem = order[k + 1], UNCHANGED <<order, seen, phase>>
      PROVE  Queue!Take
  <2>1. taken' = Append(taken, elem) /\ Len(taken') = k + 1
    <3>1. taken' = Append(taken, elem) /\ taken \in Seq(Handles) /\ elem \in Handles
      BY <1>1, <1>7, OrderFacts DEF Return, TypeOK
    <3>2. QED
      BY <3>1, <1>1, AppendFacts
  <2>2. k + 1 \in 1..Len(order) /\ n \in (k + 1)..Len(order) /\ (k + 1) + 1 = k + 2
    BY <1>1, <1>7
  <2>3. /\ Head(SubSeq(order, k + 1, n)) = order[k + 1]
        /\ Tail(SubSeq(order, k + 1, n)) = SubSeq(order, (k + 1) + 1, n)
    BY <1>2, <2>2, HeadTailOfSubSeq
  <2>4. Contents = SubSeq(order, k + 1, n) /\ Contents' = SubSeq(order, (k + 1) + 1, n)
    BY <1>1, <1>7, <2>1 DEF Waiting
  <2>5. Contents # <<>>
    <3>1. Len(Waiting) = n - k
      BY <1>1, WaitingFacts
    <3>2. QED
      BY <3>1, <1>1, <1>7
  <2>6. QED
    BY <1>7, <2>1, <2>3, <2>4, <2>5 DEF Queue!Take
<1>8. ASSUME DrainStep
      PROVE  [Queue!QueueNext]_Queue!queueVars
  <2>1. phase = "finalizing" /\ Dequeue /\ UNCHANGED phase
    BY <1>8 DEF DrainStep, lifeVars
  <2>2. /\ dpc \in {"elem", "cas"} => k < n /\ elem = order[k + 1]
        /\ dpc \notin {"wait", "hand"}
    BY <1>1, <2>1 DEF RegistryInv, DrainInv
  <2>3. CASE DequeueTestTail \/ DequeueFirst \/ DequeueClear
    <3>1. UNCHANGED <<order, taken, seen>>
      BY <2>3 DEF DequeueTestTail, DequeueFirst, DequeueClear, appendVars, walkVars
    <3>2. QED
      BY <3>1, <2>1, <1>3
  <2>4. CASE DequeueUnlink
    <3>1. dpc = "elem" /\ Return /\ UNCHANGED <<order, seen>>
      BY <2>4 DEF DequeueUnlink, Unlink, appendVars, walkVars
    <3>2. QED
      BY <3>1, <2>1, <2>2, <1>7 DEF Queue!QueueNext
  <2>5. CASE DequeueCas
    <3>1. dpc = "cas" /\ UNCHANGED <<order, seen>>
      BY <2>5 DEF DequeueCas, walkVars
    <3>2. CASE Return
      BY <3>1, <3>2, <2>1, <2>2, <1>7 DEF Queue!QueueNext
    <3>3. CASE UNCHANGED taken
      BY <3>1, <3>3, <2>1, <1>3
    <3>4. QED
      BY <3>2, <3>3, <2>5 DEF DequeueCas
  <2>6. QED
    BY <2>1, <2>2, <2>3, <2>4, <2>5 DEF Dequeue, DequeueWait, DequeueHandOver
<1>9. ASSUME ReleaseList
      PROVE  Queue!Close
  <2>1. /\ phase = "finalizing" /\ phase' = "released" /\ dpc = "null"
        /\ UNCHANGED <<order, taken, seen>>
    BY <1>9 DEF ReleaseList, appendVars, walkVars
  <2>2. k = n
    BY <1>1, <2>1 DEF RegistryInv, DrainInv
  <2>3. Contents' = Contents /\ Contents = <<>>
    <3>1. Waiting \in Seq(Handles) /\ Len(Waiting) = 0
      BY <1>1, <2>2, WaitingFacts
    <3>2. QED
      BY <3>1, <2>1 DEF Waiting
  <2>4. QED
    BY <2>1, <2>3 DEF Queue!Close
<1>10. ASSUME \/ \E h \in Handles : FinishRegistration(h) \/ ThreadExit(h)
              \/ StartFini \/ DeleteKey
              \/ WalkEnd /\ UNCHANGED lifeVars
              \/ UNCHANGED vars
       PROVE  UNCHANGED Queue!queueVars
  <2>1. UNCHANGED <<order, taken, seen>>
    BY <1>10 DEF FinishRegistration, AppendLink, LinkBehind, ThreadExit, StartFini, DeleteKey,
       WalkEnd, vars, listVars, appendVars, dequeueVars, walkVars
  <2>2. (phase' \in {"released", "deleted"}) = (phase \in {"released", "deleted"})
    BY <1>10 DEF FinishRegistration, ThreadExit, StartFini, DeleteKey, vars, lifeVars
  <2>3. QED
    BY <2>1, <2>2, <1>3
<1>11. QED
  BY <1>4, <1>5, <1>6, <1>8, <1>9, <1>10
     DEF RegistryNext, StartWalk, ContinueWalk, Fini, lifeVars, Queue!QueueNext

(* The registry of the threads is a first-in first-out queue, whatever     *)
(* links are pending (mpiPi_tslist_append, mpiPi_tslist_dequeue, the walks *)
(* of mpiP-mt-stats.c and mpiPi_stats_mt_fini).                            *)
THEOREM RegistryIsQueue == RegistrySpec => ImplementsQueue
<1>1. RegistryInv /\ NullInv /\ [RegistryNext]_vars => NullInv'
  BY NextNullInv
<1>2. RegistryInv /\ NullInv => Mapped
  BY ContentsIsWaiting DEF Mapped
<1>3. RegistryInv /\ NullInv /\ [RegistryNext]_vars /\ Mapped /\ Mapped'
         => [Queue!QueueNext]_Queue!queueVars
  BY StepImplements DEF Mapped
<1>4. QED
  BY <1>1, <1>2, <1>3, InitNullInv, InitImplements, RegistryInvariance, PTL
     DEF RegistrySpec, ImplementsQueue, Queue!QueueSpec
=============================================================================
