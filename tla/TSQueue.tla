------------------------------- MODULE TSQueue -------------------------------
(***************************************************************************)
(* What the list promises to the registry: a first-in first-out queue that *)
(* is visited in order and closed only when it is empty.                   *)
(***************************************************************************)
EXTENDS Sequences, Naturals

CONSTANTS Items,  \* what may be appended, each item once
          First   \* the queue in the beginning

VARIABLES queue,    \* what has been appended and not yet taken
          served,   \* what has been taken, in order
          visited,  \* what the visit under way has shown, in order
          closed

queueVars == <<queue, served, visited, closed>>

QueueInit ==
    /\ queue = First
    /\ served = <<>>
    /\ visited = <<>>
    /\ closed = FALSE

Entered == {queue[i] : i \in DOMAIN queue} \cup {served[i] : i \in DOMAIN served}

Enqueue(x) ==
    /\ ~closed
    /\ x \notin Entered
    /\ queue' = Append(queue, x)
    /\ UNCHANGED <<served, visited, closed>>

Take ==
    /\ queue # <<>>
    /\ served' = Append(served, Head(queue))
    /\ queue' = Tail(queue)
    /\ UNCHANGED <<visited, closed>>

Visit ==
    /\ served = <<>>
    /\ Len(visited) < Len(queue)
    /\ visited' = Append(visited, queue[Len(visited) + 1])
    /\ UNCHANGED <<queue, served, closed>>

Revisit ==
    /\ visited' = <<>>
    /\ UNCHANGED <<queue, served, closed>>

Close ==
    /\ queue = <<>>
    /\ ~closed
    /\ closed' = TRUE
    /\ UNCHANGED <<queue, served, visited>>

QueueNext ==
    \/ \E x \in Items : Enqueue(x)
    \/ Take
    \/ Visit
    \/ Revisit
    \/ Close

QueueSpec == QueueInit /\ [][QueueNext]_queueVars
=============================================================================
