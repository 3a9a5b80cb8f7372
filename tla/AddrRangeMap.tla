---------------------------- MODULE AddrRangeMap ----------------------------
(***************************************************************************)
(* The red-black tree of pc_lookup_dwarf.c.  A map is a record of its root *)
(* and its nodes, numbered in the order they were allocated; Null is 0.    *)
(* The two halves of each mirrored operation are one operator that takes   *)
(* the side.  No module with a theorem uses this one.                      *)
(***************************************************************************)
EXTENDS Integers, Sequences, FiniteSets

Null == 0
Empty == [root |-> Null, node |-> <<>>]         \* AddrRangeMap_Init

Other(side) == IF side = "left" THEN "right" ELSE "left"
Parent(m, n) == m.node[n].parent
SideOf(m, n) == IF m.node[Parent(m, n)].left = n THEN "left" ELSE "right"
IsRed(m, n) == n # Null /\ m.node[n].color = "red"      \* NULL is black

\* Mutant: the subtree that changes sides keeps its old parent.
Rotate_KeepsParent(m, n, side) ==
    LET child == m.node[n][Other(side)]
        inner == m.node[child][side]
        above == Parent(m, n)
        moved == [m EXCEPT !.node[n][Other(side)] = inner,
                           !.node[child].parent = above]
        placed == IF above = Null THEN [moved EXCEPT !.root = child]
                  ELSE [moved EXCEPT !.node[above][SideOf(m, n)] = child]
    IN [placed EXCEPT !.node[child][side] = n, !.node[n].parent = child]

\* AddrRangeMap_LeftRotate and _RightRotate: n sinks to the side, its other
\* child takes its place.
Rotate(m, n, side) ==
    LET child == m.node[n][Other(side)]
        inner == m.node[child][side]
        above == Parent(m, n)
        moved == [m EXCEPT !.node[n][Other(side)] = inner,
                           !.node[child].parent = above]
        kept == IF inner = Null THEN moved
                ELSE [moved EXCEPT !.node[inner].parent = n]
        placed == IF above = Null THEN [kept EXCEPT !.root = child]
                  ELSE [kept EXCEPT !.node[above][SideOf(m, n)] = child]
    IN [placed EXCEPT !.node[child][side] = n, !.node[n].parent = child]

\* Where a range goes below cur; no place if it overlaps a node on the way.
NoPlace == [parent |-> Null, side |-> "none"]
RECURSIVE Place(_, _, _, _)
Place(m, cur, low, high) ==
    LET Down(side) == IF m.node[cur][side] = Null
                      THEN [parent |-> cur, side |-> side]
                      ELSE Place(m, m.node[cur][side], low, high)
    IN CASE high <= m.node[cur].low -> Down("left")
         [] high > m.node[cur].low /\ low >= m.node[cur].high -> Down("right")
         [] OTHER -> NoPlace

Fits(m, low, high) == m.root # Null => Place(m, m.root, low, high) # NoPlace

\* Mutant: a red uncle is not made black.
RECURSIVE Rebalance_UncleStaysRed(_, _)
Rebalance_UncleStaysRed(m, n) ==
    IF n = m.root \/ ~IsRed(m, Parent(m, n)) THEN m
    ELSE LET p == Parent(m, n)
             side == SideOf(m, p)
             inner == n # m.node[p][side]
             turned == IF inner THEN Rotate(m, p, side) ELSE m
             low == IF inner THEN p ELSE n
             mid == Parent(turned, low)
             top == Parent(turned, mid)
         IN IF IsRed(m, m.node[Parent(m, p)][Other(side)])
            THEN Rebalance_UncleStaysRed([m EXCEPT !.node[p].color = "black",
                                          !.node[Parent(m, p)].color = "red"], Parent(m, p))
            ELSE Rotate([turned EXCEPT !.node[mid].color = "black",
                                       !.node[top].color = "red"], top, Other(side))

\* The loop of AddrRangeMap_Add: n is red and its parent may be.  After the
\* rotation the parent of low is black, and the loop ends.
RECURSIVE Rebalance(_, _)
Rebalance(m, n) ==
    IF n = m.root \/ ~IsRed(m, Parent(m, n)) THEN m
    ELSE LET p == Parent(m, n)
             side == SideOf(m, p)
             uncle == m.node[Parent(m, p)][Other(side)]
             inner == n # m.node[p][side]
             turned == IF inner THEN Rotate(m, p, side) ELSE m
             low == IF inner THEN p ELSE n
             mid == Parent(turned, low)
             top == Parent(turned, mid)
         IN IF IsRed(m, uncle)
            THEN Rebalance([m EXCEPT !.node[p].color = "black",
                                     !.node[uncle].color = "black",
                                     !.node[Parent(m, p)].color = "red"], Parent(m, p))
            ELSE Rotate([turned EXCEPT !.node[mid].color = "black",
                                       !.node[top].color = "red"], top, Other(side))

NewNode(low, high, info, parent) ==
    [low |-> low, high |-> high, info |-> info, color |-> "red",
     parent |-> parent, left |-> Null, right |-> Null]

\* AddrRangeMap_Add, for a range that fits.
Add(m, low, high, info) ==
    LET n == Len(m.node) + 1
        at == IF m.root = Null THEN NoPlace ELSE Place(m, m.root, low, high)
        grown == [m EXCEPT !.node = Append(@, NewNode(low, high, info, at.parent))]
        linked == IF m.root = Null THEN [grown EXCEPT !.root = n]
                  ELSE [grown EXCEPT !.node[at.parent][at.side] = n]
        balanced == Rebalance(linked, n)
    IN [balanced EXCEPT !.node[balanced.root].color = "black"]

\* AddrRangeMap_Find: both bounds of a range belong to it.
RECURSIVE FindBelow(_, _, _)
FindBelow(m, cur, addr) ==
    CASE cur = Null -> Null
      [] cur # Null /\ addr < m.node[cur].low -> FindBelow(m, m.node[cur].left, addr)
      [] cur # Null /\ addr >= m.node[cur].low /\ addr > m.node[cur].high ->
            FindBelow(m, m.node[cur].right, addr)
      [] OTHER -> cur
Find(m, addr) == FindBelow(m, m.root, addr)

\* AddrRangeMap_DestroyAux frees what it reaches over the children.
RECURSIVE Reached(_, _)
Reached(m, n) ==
    IF n = Null THEN <<>>
    ELSE Reached(m, m.node[n].left) \o Reached(m, m.node[n].right) \o <<n>>

(***************************************************************************)
(* What makes a map valid.                                                 *)
(***************************************************************************)
Nodes(m) == DOMAIN m.node

RECURSIVE InOrder(_, _)
InOrder(m, n) ==
    IF n = Null THEN <<>>
    ELSE InOrder(m, m.node[n].left) \o <<n>> \o InOrder(m, m.node[n].right)

\* The number of black nodes on each way down from n; -1 if ways differ.
RECURSIVE BlackHeight(_, _)
BlackHeight(m, n) ==
    IF n = Null THEN 0
    ELSE LET l == BlackHeight(m, m.node[n].left)
             r == BlackHeight(m, m.node[n].right)
         IN IF l # r \/ l = -1 THEN -1 ELSE l + (IF IsRed(m, n) THEN 0 ELSE 1)

Linked(m) ==
    /\ m.root # Null => Parent(m, m.root) = Null
    /\ \A n \in Nodes(m) : \A side \in {"left", "right"} :
          m.node[n][side] # Null => Parent(m, m.node[n][side]) = n
Balanced(m) ==
    /\ ~IsRed(m, m.root)
    /\ \A n \in Nodes(m) : IsRed(m, n) => ~IsRed(m, m.node[n].left)
                                          /\ ~IsRed(m, m.node[n].right)
    /\ BlackHeight(m, m.root) # -1
Complete(m) == /\ Len(Reached(m, m.root)) = Len(m.node)
               /\ {Reached(m, m.root)[i] : i \in Nodes(m)} = Nodes(m)
Ordered(m) ==
    LET s == InOrder(m, m.root)
    IN \A i, j \in DOMAIN s : i < j => m.node[s[i]].low <= m.node[s[j]].low
Valid(m) == Linked(m) /\ Complete(m) /\ Balanced(m) /\ Ordered(m)
=============================================================================
