----------------------------- MODULE HashTable -----------------------------
(***************************************************************************)
(* The generic hash table of mpiP-hash.c: chains of pointers and a count.  *)
(* What a comparator finds equal to the key of the call is same, a set of  *)
(* pointers; the hash of the key is the index of its chain.  A table       *)
(* is a value here; a module in which others look on takes the parts (Link *)
(* and the count, a chain at a time) as steps of its own.                  *)
(***************************************************************************)
EXTENDS Integers, Sequences, FiniteSets, Functions

\* h_open.
Open(size) == [chain |-> [i \in 0 .. size - 1 |-> <<>>], count |-> 0]

\* The search of a chain stops at the first match; 0 is NULL.
Search(ht, i, same) ==
    LET matches == {j \in DOMAIN ht.chain[i] : ht.chain[i][j] \in same}
    IN IF matches = {} THEN 0
       ELSE ht.chain[i][CHOOSE j \in matches : \A l \in matches : j <= l]

\* A new entry goes in front; an entry that is there already stays, and the
\* pointer of the call is not kept.
Link(ht, i, p, same) ==
    IF Search(ht, i, same) # 0 THEN ht ELSE [ht EXCEPT !.chain[i] = <<p>> \o @]

Insert(ht, i, p, same) ==
    IF Search(ht, i, same) # 0 THEN ht
    ELSE [Link(ht, i, p, same) EXCEPT !.count = @ + 1]

\* What h_gather_data collects, and how much it is; there is room for ht.count.
Entries(ht) == UNION {Range(ht.chain[i]) : i \in DOMAIN ht.chain}
Size(ht) == SumFunctionOnSet([i \in DOMAIN ht.chain |-> Len(ht.chain[i])], DOMAIN ht.chain)

\* h_drain empties the chains and the count; the caller owns the pointers.
Drained(ht) == [ht EXCEPT !.chain = [i \in DOMAIN @ |-> <<>>], !.count = 0]
=============================================================================
