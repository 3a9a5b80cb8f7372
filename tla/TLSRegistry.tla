----------------------------- MODULE TLSRegistry -----------------------------
(***************************************************************************)
(* The use mpiP-mt-stats.c makes of the list in MPI_THREAD_MULTIPLE mode:  *)
(* the registry of the threads that have called MPI.  A thread registers   *)
(* its handle in its first call (mpiPi_stats_mt_gettls), the calls of      *)
(* MPI_Pcontrol and the reports walk the handles, a thread that exits      *)
(* passes its handle to key_destruct, and MPI_Finalize dequeues and frees  *)
(* every handle (mpiPi_stats_mt_fini).                                     *)
(*                                                                         *)
(* A thread registers once, so a thread and its handle share a name.       *)
(***************************************************************************)
EXTENDS TSList

CONSTANT Main  \* the thread that calls MPI_Init_thread and MPI_Finalize

ASSUME MainAssumption == Main \in Handles

VARIABLES
    phase,      \* where the process stands in the life of the registry
    active,     \* the handles with is_active = 1
    exited,     \* the threads that are gone
    registered, \* history: who was registered when the walk began
    late        \* history: the handles whose destructor ran after _free_tls

lifeVars == <<phase, active, exited, late>>
vars == <<listVars, lifeVars, registered>>

Registered == {h \in Handles : apc[h] = "done"}

(* mpiPi_stats_mt_init: the registry with the main thread's handle in it. *)
RegistryInit ==
    /\ next = [n \in Nodes |-> IF n = Dummy THEN Main ELSE Null]
    /\ tail = Main
    /\ freed = {}
    /\ apc = [h \in Handles |-> IF h = Main THEN "done" ELSE "new"]
    /\ prev = [h \in Handles |-> IF h = Main THEN Dummy ELSE Null]
    /\ dpc = "idle"
    /\ elem = Null
    /\ walking = FALSE
    /\ cur = Null
    /\ seen = <<>>
    /\ order = <<Main>>
    /\ taken = <<>>
    /\ phase = "running"
    /\ active = {Main}
    /\ exited = {}
    /\ registered = {}
    /\ late = {}

(* mpiPi_stats_mt_gettls for a thread without a handle: is_active is set   *)
(* before the handle is appended.                                          *)
Register(h) ==
    /\ phase = "running"
    /\ AppendSwap(h)
    /\ active' = active \cup {h}
    /\ UNCHANGED <<phase, exited, late, registered>>

FinishRegistration(h) ==
    /\ AppendLink(h)
    /\ UNCHANGED <<lifeVars, registered>>

(* A walk by mpiPi_stats_mt_timer_start, _timer_stop, _cs_reset or _merge. *)
StartWalk ==
    /\ phase = "running"
    /\ WalkFirst
    /\ registered' = Registered
    /\ UNCHANGED lifeVars

ContinueWalk ==
    /\ WalkNext \/ WalkEnd
    /\ UNCHANGED <<lifeVars, registered>>

(* key_destruct, which pthreads call while the key exists. *)
ThreadExit(h) ==
    /\ h # Main
    /\ h \notin exited
    /\ apc[h] = "done"
    /\ exited' = exited \cup {h}
    /\ IF phase = "deleted"
       THEN UNCHANGED <<active, late>>
       ELSE /\ active' = active \ {h}
            /\ late' = IF \E i \in 1..Len(taken) : taken[i] = h
                       THEN late \cup {h}
                       ELSE late
    /\ UNCHANGED <<listVars, phase, registered>>

(* MPI_Finalize, once every MPI call of the other threads has returned. *)
StartFini ==
    /\ phase = "running"
    /\ \A h \in Handles : apc[h] # "link"
    /\ ~walking
    /\ phase' = "finalizing"
    /\ UNCHANGED <<listVars, active, exited, late, registered>>

(* _release_all_tls: dequeue until NULL, freeing each handle at once. *)
DrainStep ==
    /\ phase = "finalizing"
    /\ dpc # "null"
    /\ Dequeue
    /\ UNCHANGED <<lifeVars, registered>>

(* mpiPi_tslist_release: the list and its dummy element are freed. *)
ReleaseList ==
    /\ phase = "finalizing"
    /\ dpc = "null"
    /\ freed' = freed \cup {Dummy}
    /\ phase' = "released"
    /\ UNCHANGED <<next, appendVars, dpc, elem, taken, walkVars,
                   active, exited, late, registered>>

(* Mutant: the key is deleted when the other threads have exited. *)
DeleteKey_AwaitsThreads ==
    /\ phase = "released"
    /\ active \subseteq {Main}
    /\ phase' = "deleted"
    /\ UNCHANGED <<listVars, active, exited, late, registered>>

(* pthread_key_delete: from here on threads exit without the destructor. *)
DeleteKey ==
    /\ phase = "released"
    /\ phase' = "deleted"
    /\ UNCHANGED <<listVars, active, exited, late, registered>>

Fini == StartFini \/ DrainStep \/ ReleaseList \/ DeleteKey

RegistryNext ==
    \/ \E h \in Handles : Register(h) \/ FinishRegistration(h) \/ ThreadExit(h)
    \/ StartWalk
    \/ ContinueWalk
    \/ Fini

RegistrySpec == RegistryInit /\ [][RegistryNext]_vars

(* The scheduler runs a thread that has something to do: a finalization    *)
(* that has begun goes on.  Nothing makes a thread call MPI or exit.       *)
RegistryFairness == WF_vars(DrainStep \/ ReleaseList \/ DeleteKey)

FairRegistrySpec == RegistrySpec /\ RegistryFairness

-----------------------------------------------------------------------------

(* Every variable has its type. *)
RegistryTypeOK ==
    /\ TypeOK
    /\ phase \in {"running", "finalizing", "released", "deleted"}
    /\ active \subseteq Handles
    /\ exited \subseteq Handles
    /\ registered \subseteq Handles
    /\ late \subseteq Handles

(* A walk visits the handles in the order of their registration, none      *)
(* twice: what it has visited is a prefix of that order, and it stands at  *)
(* the handle that comes next or at the end of what was linked.            *)
SeenIsPrefix ==
    walking =>
        /\ Len(seen) <= Len(order)
        /\ \A i \in 1..Len(seen) : seen[i] = order[i]
        /\ cur # Null => /\ Len(seen) < Len(order)
                         /\ cur = order[Len(seen) + 1]

Visited == {seen[i] : i \in 1..Len(seen)}

(* A walk that has reached its end (mpiPi_tslist_next returned NULL) has   *)
(* visited every thread that was registered when it began, provided that   *)
(* all who registered before that thread had also finished by then.        *)
WalkCoversUnobstructed ==
    walking /\ cur = Null =>
        \A i \in 1..Len(order) :
            (\A j \in 1..i : order[j] \in registered) => order[i] \in Visited

(* mpiPi_stats_mt_fini frees the list only after every handle was dequeued *)
(* (and freed), in the order of registration: "Make sure that list is      *)
(* drained" (mpiP-mt-stats.c:92).                                          *)
DrainComplete ==
    phase \in {"released", "deleted"} => taken = order

(* key_destruct is to "Stop the timer and disable this TLS"                *)
(* (mpiP-mt-stats.c:18): it must find the TLS still allocated.  The code   *)
(* frees the handles before it deletes the key, so a thread that exits     *)
(* between the two runs the destructor on freed memory.                    *)
DestructorOnLiveTLS == late = {}

(* A finalization that has begun comes to its end, whatever the other      *)
(* threads do: no dequeue of the drain spins for a link.                   *)
FiniCompletes == phase = "finalizing" ~> phase = "deleted"

-----------------------------------------------------------------------------
(* The inductive invariant behind the safety properties: the list in       *)
(* memory is the registration order, except for the links still pending    *)
(* while the program runs and for the elements a drain has taken.          *)

Position(i) == IF i = 0 THEN Dummy ELSE order[i]

(* The handles in the order are those that have registered, each once.     *)
OrderInv ==
    /\ \A i, j \in 1..Len(order) : order[i] = order[j] => i = j
    /\ \A i \in 1..Len(order) : apc[order[i]] # "new"
    /\ \A h \in Handles : apc[h] # "new" => \E i \in 1..Len(order) : order[i] = h

(* While the program runs, an element is linked to its predecessor exactly *)
(* when its append has finished, and the tail is the last in the order.    *)
RunningInv ==
    phase = "running" =>
        /\ dpc = "idle"
        /\ taken = <<>>
        /\ freed = {}
        /\ tail = Position(Len(order))
        /\ next[tail] = Null
        /\ \A i \in 1..Len(order) :
              /\ prev[order[i]] = Position(i - 1)
              /\ next[Position(i - 1)] =
                    IF apc[order[i]] = "done" THEN order[i] ELSE Null

(* A walk under way has started from registrations that were complete.     *)
WalkInv ==
    walking =>
        /\ phase = "running"
        /\ \A h \in registered : apc[h] = "done"
        /\ Len(seen) <= Len(order)
        /\ \A i \in 1..Len(seen) : seen[i] = order[i]
        /\ cur # Null => /\ Len(seen) < Len(order)
                         /\ cur = order[Len(seen) + 1]
        /\ cur = Null => \A i \in 1..Len(order) :
                           (\A j \in 1..i : order[j] \in registered)
                              => i <= Len(seen)

(* What is left of the list after k dequeues. *)
Rest(k) ==
    /\ \A i \in (k + 1)..(Len(order) - 1) : next[order[i]] = order[i + 1]
    /\ k < Len(order) => next[order[Len(order)]] = Null
    /\ tail = IF k < Len(order) THEN order[Len(order)] ELSE Dummy

(* From MPI_Finalize on nothing is appended, and the dequeues go down the  *)
(* order without ever meeting an append.                                   *)
DrainInv ==
    phase # "running" =>
        /\ \A h \in Handles : apc[h] # "link"
        /\ Len(taken) <= Len(order)
        /\ \A i \in 1..Len(taken) : taken[i] = order[i]
        /\ freed \subseteq {order[i] : i \in 1..Len(taken)} \cup {Dummy}
        /\ Rest(Len(taken))
        /\ dpc \in {"idle", "first", "elem"} =>
              next[Dummy] = IF Len(taken) < Len(order)
                            THEN order[Len(taken) + 1] ELSE Null
        /\ dpc = "cas" => next[Dummy] = Null
        /\ dpc \in {"first", "elem", "cas"} => Len(taken) < Len(order)
        /\ dpc \in {"elem", "cas"} => elem = order[Len(taken) + 1]
        /\ dpc = "cas" => Len(taken) + 1 = Len(order)
        /\ dpc = "null" => Len(taken) = Len(order)
        /\ dpc \notin {"wait", "hand"}
        /\ phase # "finalizing" => dpc = "null"

(* All of it: the list in memory agrees with the registration order of     *)
(* mpiPi_tslist_append in every phase of mpiPi_stats_mt_init .. _fini.     *)
RegistryInv ==
    /\ RegistryTypeOK
    /\ OrderInv
    /\ RunningInv
    /\ WalkInv
    /\ DrainInv
=============================================================================
