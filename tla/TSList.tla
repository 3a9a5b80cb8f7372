------------------------------- MODULE TSList -------------------------------
(***************************************************************************)
(* The lock-free list of mpiP-tslist.c that holds the per-thread handles   *)
(* (mpiPi_mt_stat_tls_t) of a process.  Any number of threads append; one  *)
(* owner thread extracts elements and walks the list.                      *)
(*                                                                         *)
(* A step is one access to memory that another thread can see: the swap of *)
(* list->tail, the store of prev->next, and the loads, the stores and the  *)
(* compare-and-swap of a dequeue.  The element that carries handle h is    *)
(* named h: every append allocates one, and an element that has been freed *)
(* is remembered in "freed" instead of being recycled, so a later access   *)
(* to it is visible as such.                                               *)
(***************************************************************************)
EXTENDS Integers, Sequences

CONSTANTS Handles,  \* the handles that threads append, each of them once
          Dummy,    \* the dummy element list->head
          Null      \* NULL

ASSUME NodesAssumption ==
    /\ Dummy \notin Handles
    /\ Null \notin Handles \cup {Dummy}

Nodes == Handles \cup {Dummy}

VARIABLES
    next,    \* next[n]: the next pointer of element n
    tail,    \* list->tail
    freed,   \* elements handed to free()
    apc,     \* apc[h]: where the append of h stands
    prev,    \* prev[h]: what the swap of list->tail returned to the append of h
    dpc,     \* where the owner's dequeue stands; "null" once it returned NULL
    elem,    \* the local variable elem of the dequeue
    walking, \* is the owner walking the list?
    cur,     \* the local variable curr of the walk
    seen,    \* the elements the walk has visited, in order
    order,   \* history: the handles in the order of their swaps
    taken    \* history: the handles returned by dequeues, in order

appendVars  == <<apc, prev, tail, order>>
dequeueVars == <<dpc, elem, freed, taken>>
walkVars    == <<walking, cur, seen>>
listVars    == <<next, appendVars, dequeueVars, walkVars>>

(* mpiPi_tslist_create: only the dummy element. *)
Init ==
    /\ next = [n \in Nodes |-> Null]
    /\ tail = Dummy
    /\ freed = {}
    /\ apc = [h \in Handles |-> "new"]
    /\ prev = [h \in Handles |-> Null]
    /\ dpc = "idle"
    /\ elem = Null
    /\ walking = FALSE
    /\ cur = Null
    /\ seen = <<>>
    /\ order = <<>>
    /\ taken = <<>>

-----------------------------------------------------------------------------
(* mpiPi_tslist_append, by the thread that owns handle h.                  *)

(* The element is filled in privately and becomes the tail in one atomic   *)
(* swap.  Until the next step it is unreachable from the head.             *)
AppendSwap(h) ==
    /\ apc[h] = "new"
    /\ next' = [next EXCEPT ![h] = Null]
    /\ prev' = [prev EXCEPT ![h] = tail]
    /\ tail' = h
    /\ apc' = [apc EXCEPT ![h] = "link"]
    /\ order' = Append(order, h)
    /\ UNCHANGED <<dequeueVars, walkVars>>

(* prev->next = elem *)
LinkBehind(n, h) ==
    /\ apc[h] = "link"
    /\ next' = [next EXCEPT ![n] = h]
    /\ apc' = [apc EXCEPT ![h] = "done"]
    /\ UNCHANGED <<prev, tail, order, dequeueVars, walkVars>>

(* Mutant: the new element is linked behind the dummy. *)
AppendLink_AtHead(h) == LinkBehind(Dummy, h)

AppendLink(h) == LinkBehind(prev[h], h)

-----------------------------------------------------------------------------
(* mpiPi_tslist_dequeue, by the owner.                                     *)

(* The label ret: hand the element's pointer out and free the element. *)
Return ==
    /\ taken' = Append(taken, elem)
    /\ freed' = freed \cup {elem}
    /\ elem' = Null
    /\ dpc' = "idle"

(* Mutant: a list of one element is taken for empty. *)
IsEmpty_LeavesOne == tail \in {Dummy, next[Dummy]}

(* list->head == list->tail *)
IsEmpty == tail = Dummy

DequeueTestTail ==
    /\ dpc \in {"idle", "null"}
    /\ ~walking
    /\ dpc' = IF IsEmpty THEN "null" ELSE "first"
    /\ UNCHANGED <<next, appendVars, elem, freed, taken, walkVars>>

(* list->head->next == NULL: an append has swapped but not linked yet. *)
DequeueFirst ==
    /\ dpc = "first"
    /\ elem' = next[Dummy]
    /\ dpc' = IF next[Dummy] = Null THEN "null" ELSE "elem"
    /\ UNCHANGED <<next, appendVars, freed, taken, walkVars>>

(* More than one element: bypass the first one. *)
Unlink(rest) ==
    /\ dpc = "elem"
    /\ next[elem] # Null
    /\ next' = [next EXCEPT ![Dummy] = rest, ![elem] = Null]
    /\ Return
    /\ UNCHANGED <<appendVars, walkVars>>

(* Mutants: the freed element stays in the list; one too many leaves it.   *)
DequeueUnlink_NoBypass == Unlink(elem)
DequeueUnlink_SkipsOne == Unlink(next[next[elem]])

DequeueUnlink == Unlink(next[elem])

(* A last element, as far as elem->next tells: clear list->head->next ... *)
DequeueClear ==
    /\ dpc = "elem"
    /\ next[elem] = Null
    /\ next' = [next EXCEPT ![Dummy] = Null]
    /\ dpc' = "cas"
    /\ UNCHANGED <<appendVars, elem, freed, taken, walkVars>>

(* Mutant: the tail is stored without comparing it. *)
TailIsElem_NotCompared == TRUE

(* The comparison of mpiP_atomic_cas. *)
TailIsElem == tail = elem

(* ... and put the dummy element back as the tail, unless an append that   *)
(* swapped in the meantime moved the tail on.                              *)
DequeueCas ==
    /\ dpc = "cas"
    /\ \/ /\ TailIsElem
          /\ tail' = Dummy
          /\ Return
       \/ /\ ~TailIsElem
          /\ dpc' = "wait"
          /\ UNCHANGED <<tail, elem, freed, taken>>
    /\ UNCHANGED <<next, apc, prev, order, walkVars>>

(* while (NULL != elem->next): the loop is left when the pointer is NULL,  *)
(* and never left once it is not.                                          *)
DequeueWait ==
    /\ dpc = "wait"
    /\ next[elem] = Null
    /\ dpc' = "hand"
    /\ UNCHANGED <<next, appendVars, elem, freed, taken, walkVars>>

(* list->head->next = elem->next *)
DequeueHandOver ==
    /\ dpc = "hand"
    /\ next' = [next EXCEPT ![Dummy] = next[elem]]
    /\ Return
    /\ UNCHANGED <<appendVars, walkVars>>

Dequeue ==
    \/ DequeueTestTail
    \/ DequeueFirst
    \/ DequeueUnlink
    \/ DequeueClear
    \/ DequeueCas
    \/ DequeueWait
    \/ DequeueHandOver

-----------------------------------------------------------------------------
(* The loops over mpiPi_tslist_first and mpiPi_tslist_next.                *)

(* mpiPi_tslist_first *)
BeginWalk(n) ==
    /\ ~walking
    /\ dpc \in {"idle", "null"}
    /\ walking' = TRUE
    /\ cur' = n
    /\ seen' = <<>>
    /\ UNCHANGED <<next, appendVars, dequeueVars>>

(* Mutant: the walk begins with the dummy element. *)
WalkFirst_Dummy == BeginWalk(Dummy)

WalkFirst == BeginWalk(next[Dummy])

(* mpiPi_tslist_next, once the loop's body is done with the element. *)
Advance(n) ==
    /\ walking
    /\ cur # Null
    /\ seen' = Append(seen, cur)
    /\ cur' = n
    /\ UNCHANGED <<next, appendVars, dequeueVars, walking>>

(* Mutant: every other element is left out. *)
WalkNext_SkipsOne ==
    Advance(IF next[cur] = Null THEN Null ELSE next[next[cur]])

WalkNext == Advance(next[cur])

WalkEnd ==
    /\ walking
    /\ cur = Null
    /\ walking' = FALSE
    /\ UNCHANGED <<next, appendVars, dequeueVars, cur, seen>>

Walk == WalkFirst \/ WalkNext \/ WalkEnd

-----------------------------------------------------------------------------
(* The list as its header allows it to be used: appends by any thread at   *)
(* any time, extraction by one thread at any time.                         *)

Next ==
    \/ \E h \in Handles : AppendSwap(h) \/ AppendLink(h)
    \/ Dequeue
    \/ Walk

Spec == Init /\ [][Next]_listVars

-----------------------------------------------------------------------------

(* Every variable has its type. *)
TypeOK ==
    /\ next \in [Nodes -> Handles \cup {Null}]
    /\ tail \in Nodes
    /\ freed \subseteq Nodes
    /\ apc \in [Handles -> {"new", "link", "done"}]
    /\ prev \in [Handles -> Nodes \cup {Null}]
    /\ dpc \in {"idle", "null", "first", "elem", "cas", "wait", "hand"}
    /\ elem \in Handles \cup {Null}
    /\ walking \in BOOLEAN
    /\ cur \in Handles \cup {Null}
    /\ seen \in Seq(Handles)
    /\ order \in Seq(Handles)
    /\ taken \in Seq(Handles)

(* What an append is about to write to, the dequeue to read and the walk   *)
(* to visit has not been freed.                                            *)
NoUseAfterFree ==
    /\ \A h \in Handles : apc[h] = "link" => prev[h] \notin freed
    /\ dpc \in {"elem", "cas", "wait", "hand"} => elem \notin freed
    /\ walking => cur \notin freed

(* Dequeues return the elements in the order of the swaps: none is         *)
(* returned twice and none is overtaken (mpiPi_tslist_dequeue takes the    *)
(* element behind the dummy, mpiPi_tslist_append adds behind the tail).    *)
DequeuesInOrder ==
    /\ Len(taken) <= Len(order)
    /\ \A i \in 1..Len(taken) : taken[i] = order[i]
=============================================================================
