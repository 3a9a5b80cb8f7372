---------------------------- MODULE RegistryQueue ----------------------------
(***************************************************************************)
(* The queue that the registry of the threads implements: the refinement   *)
(* mapping reads it from the memory of the list.                           *)
(***************************************************************************)
EXTENDS TLSRegistry, FiniteSets, SequencesExt

ASSUME FiniteAssumption == IsFiniteSet(Handles)

(* The element that follows n once the pending links are made.             *)
Follower(n) ==
    IF next[n] # Null THEN next[n]
    ELSE IF \E h \in Handles : apc[h] = "link" /\ prev[h] = n
         THEN CHOOSE h \in Handles : apc[h] = "link" /\ prev[h] = n
         ELSE Null

(* While a dequeue holds the last element and has cleared the head's       *)
(* pointer, that element is the queue.                                     *)
Start == IF dpc = "cas" THEN elem ELSE Follower(Dummy)

(* s has the elements in memory from the first to the last. *)
Chain(s) ==
    /\ s = <<>> <=> Start = Null
    /\ s # <<>> => s[1] = Start /\ Follower(s[Len(s)]) = Null
    /\ \A i \in 2..Len(s) : s[i] = Follower(s[i - 1])

Contents == CHOOSE s \in BoundedSeq(Handles, Cardinality(Handles)) : Chain(s)

Queue == INSTANCE TSQueue WITH
    Items <- Handles,
    First <- <<Main>>,
    queue <- Contents,
    served <- taken,
    visited <- seen,
    closed <- phase \in {"released", "deleted"}

(* The list in the use the registry makes of it is a first-in first-out    *)
(* queue: a registration enters at the swap of the tail, whatever links    *)
(* are still pending, walks show the queue in order, the drain takes in    *)
(* order, and the list is freed only when it is empty.                     *)
ImplementsQueue == Queue!QueueSpec
=============================================================================
