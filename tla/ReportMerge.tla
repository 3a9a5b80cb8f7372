----------------------------- MODULE ReportMerge -----------------------------
(***************************************************************************)
(* The generation of a report by all ranks of a program                    *)
(* (mpiPi_generateReport, called from MPI_Pcontrol and MPI_Finalize):      *)
(* application times are gathered, the ranks agree on whether there is     *)
(* anything to merge, every rank sends its callsite records to the         *)
(* collector, the ranks agree on whether that went well, and then the      *)
(* collector publishes.                                                    *)
(*                                                                         *)
(* A rank's records are one number, the sum of a quantity that every       *)
(* record adds to a global total: 0 means that the rank has no record.     *)
(* Collective operations block as MPI requires them to: an Allreduce or a  *)
(* Barrier until all ranks have entered it, a Gather or Reduce at the      *)
(* collector only.  A Send returns at once if the library buffers it,      *)
(* otherwise when it is received.                                          *)
(***************************************************************************)
EXTENDS Integers, Sequences, FiniteSets, Functions

CONSTANTS Ranks,      \* the ranks of the program
          Collector,  \* mpiPi.collectorRank
          MayFail,    \* the ranks where calloc may fail
          MaxAmount,  \* bound on what a rank's records sum up to
          MaxReports  \* bound on the number of reports

ASSUME MergeAssumption ==
    /\ IsFiniteSet(Ranks)
    /\ Collector \in Ranks
    /\ MayFail \subseteq Ranks
    /\ MaxAmount \in Nat
    /\ MaxReports \in Nat

VARIABLES
    buffered,   \* does MPI_Send return before the message is received?
    pc,         \* pc[r]: where rank r stands in mpiPi_generateReport
    amount,     \* amount[r]: what the records of rank r sum up to
    generated,  \* generated[r]: how many reports r has begun
    entered,    \* entered[r]: the collective operations r has entered, with
                \* what r contributed to each
    total,      \* total[r]: the local variable totalCount
    retval,     \* retval[r]: the local variable of mpiPi_mergeResults
    channel,    \* channel[r]: the messages from r to the collector
    missing,    \* how many messages the collector's loop still expects
    globalTime, \* a total that mpiPi_mergeResults clears (global_mpi_time)
    failed      \* history: the ranks where calloc has failed

vars == <<buffered, pc, amount, generated, entered, total, retval, channel,
          missing, globalTime, failed>>

Senders == Ranks \ {Collector}
Sum(f) == SumFunctionOnSet(f, Ranks)

Init ==
    /\ buffered \in BOOLEAN
    /\ pc = [r \in Ranks |-> "idle"]
    /\ amount = [r \in Ranks |-> 0]
    /\ generated = [r \in Ranks |-> 0]
    /\ entered = [r \in Ranks |-> <<>>]
    /\ total = [r \in Ranks |-> 0]
    /\ retval = [r \in Ranks |-> 1]
    /\ channel = [r \in Ranks |-> <<>>]
    /\ missing = 0
    /\ globalTime = 0
    /\ failed = {}

(* Rank r enters a collective operation with its contribution and waits    *)
(* there, at "at".                                                         *)
Enter(r, operation, value, at) ==
    /\ entered' = [entered EXCEPT ![r] = Append(@, <<operation, value>>)]
    /\ pc' = [pc EXCEPT ![r] = at]

(* Every rank has entered the operation in which r is. *)
AllEntered(r) == \A q \in Ranks : Len(entered[q]) >= Len(entered[r])

(* What the ranks contributed to it. *)
Contribution(r) == [q \in Ranks |-> entered[q][Len(entered[r])][2]]

-----------------------------------------------------------------------------
(* The application profiles some more calls of rank r. *)
Profile(r) ==
    /\ pc[r] = "idle"
    /\ amount[r] < MaxAmount
    /\ amount' = [amount EXCEPT ![r] = @ + 1]
    /\ UNCHANGED <<buffered, pc, generated, entered, total, retval, channel,
                   missing, globalTime, failed>>

(* MPI_Pcontrol(2) on rank r: its records are dropped; the totals are      *)
(* cleared, of which those of the collector matter.                        *)
ResetCallsites(r) ==
    /\ pc[r] = "idle"
    /\ amount' = [amount EXCEPT ![r] = 0]
    /\ IF r = Collector
       THEN globalTime' = 0
       ELSE UNCHANGED globalTime
    /\ UNCHANGED <<buffered, pc, generated, entered, total, retval, channel,
                   missing, failed>>

(* mpiPi_generateReport: mpiPi_collect_basics gathers. *)
Generate(r) ==
    /\ pc[r] = "idle"
    /\ generated[r] < MaxReports
    /\ generated' = [generated EXCEPT ![r] = @ + 1]
    /\ Enter(r, "gather", 0, "basics")
    /\ UNCHANGED <<buffered, amount, total, retval, channel, missing, globalTime,
                   failed>>

(* mpiPi_mergeResults up to the Allreduce of the record counts (and the    *)
(* Reduce of their maximum, which no rank waits for once all are here).    *)
LeaveBasics(r) ==
    /\ pc[r] = "basics"
    /\ r = Collector => AllEntered(r)
    /\ Enter(r, "allreduce", amount[r], "count")
    /\ UNCHANGED <<buffered, amount, generated, total, retval, channel, missing,
                   globalTime, failed>>

(* Mutant: a rank returns if it has nothing to send itself. *)
NoRecords_Own(r) == Contribution(r)[r] = 0

(* totalCount < 1 *)
NoRecords(r) == Sum(Contribution(r)) = 0

(* Every rank returns without a report. *)
NothingToMerge(r) ==
    /\ pc[r] = "count"
    /\ AllEntered(r)
    /\ NoRecords(r)
    /\ total' = [total EXCEPT ![r] = 0]
    /\ pc' = [pc EXCEPT ![r] = "idle"]
    /\ UNCHANGED <<buffered, amount, generated, entered, retval, channel,
                   missing, globalTime, failed>>

(* Mutants: a message too many, or too few, is waited for; the total keeps *)
(* what an earlier report left in it.                                      *)
Expected_OneMore == Cardinality(Ranks)
Expected_OneLess == Cardinality(Senders) - 1
InitialTime_Kept == globalTime

Expected    == Cardinality(Senders)  \* the messages the loop receives
InitialTime == 0                     \* global_mpi_time before the records

(* The collector's calloc: its totals are cleared in any case, its own     *)
(* records are inserted if the memory was there.                           *)
CollectorAllocates ==
    /\ pc[Collector] = "count"
    /\ AllEntered(Collector)
    /\ ~NoRecords(Collector)
    /\ total' = [total EXCEPT ![Collector] = Sum(Contribution(Collector))]
    /\ \/ /\ retval' = [retval EXCEPT ![Collector] = 1]
          /\ missing' = Expected
          /\ globalTime' = InitialTime + amount[Collector]
          /\ pc' = [pc EXCEPT ![Collector] = "receive"]
          /\ UNCHANGED <<entered, failed>>
       \/ /\ Collector \in MayFail
          /\ failed' = failed \cup {Collector}
          /\ retval' = [retval EXCEPT ![Collector] = 0]
          /\ globalTime' = InitialTime
          /\ Enter(Collector, "allreduce", 0, "verdict")
          /\ UNCHANGED missing
    /\ UNCHANGED <<buffered, amount, generated, channel>>

(* Any other rank's calloc, bcopy and MPI_Send: without the memory, bcopy  *)
(* writes through a null pointer unless there is nothing to copy.          *)
SenderAllocates(r) ==
    /\ r \in Senders
    /\ pc[r] = "count"
    /\ AllEntered(r)
    /\ ~NoRecords(r)
    /\ total' = [total EXCEPT ![r] = Sum(Contribution(r))]
    /\ \E ok \in (IF r \in MayFail THEN {0, 1} ELSE {1}) :
          /\ retval' = [retval EXCEPT ![r] = ok]
          /\ failed' = IF ok = 1 THEN failed ELSE failed \cup {r}
          /\ IF ok = 0 /\ amount[r] > 0
             THEN /\ pc' = [pc EXCEPT ![r] = "crashed"]
                  /\ UNCHANGED channel
             ELSE /\ pc' = [pc EXCEPT ![r] = "send"]
                  /\ channel' = [channel EXCEPT ![r] = Append(@, amount[r])]
    /\ UNCHANGED <<buffered, amount, generated, entered, missing, globalTime>>

(* MPI_Probe and MPI_Recv from MPI_ANY_SOURCE: the messages of one rank    *)
(* arrive in order, those of different ranks in any order.                 *)
Receive(r) ==
    /\ pc[Collector] = "receive"
    /\ missing > 0
    /\ channel[r] # <<>>
    /\ channel' = [channel EXCEPT ![r] = Tail(@)]
    /\ missing' = missing - 1
    /\ globalTime' = globalTime + Head(channel[r])
    /\ UNCHANGED <<buffered, pc, amount, generated, entered, total, retval,
                   failed>>

(* All have been received: the collector enters the Allreduce of retval. *)
ReceivedAll ==
    /\ pc[Collector] = "receive"
    /\ missing = 0
    /\ Enter(Collector, "allreduce", retval[Collector], "verdict")
    /\ UNCHANGED <<buffered, amount, generated, total, retval, channel, missing,
                   globalTime, failed>>

(* MPI_Send returns; an empty message is always buffered. *)
Sent(r) ==
    /\ pc[r] = "send"
    /\ buffered \/ amount[r] = 0 \/ channel[r] = <<>>
    /\ Enter(r, "allreduce", retval[r], "verdict")
    /\ UNCHANGED <<buffered, amount, generated, total, retval, channel, missing,
                   globalTime, failed>>

(* Mutant: a rank goes by its own retval. *)
AllWell_Own(r) == Contribution(r)[r] = 1

(* The minimum of all retval. *)
AllWell(r) == \A q \in Ranks : Contribution(r)[q] = 1

(* mpiPi_mergeCollectiveStats and mpiPi_mergept2ptStats reduce, or the     *)
(* rank returns without a report.                                          *)
LeaveVerdict(r) ==
    /\ pc[r] = "verdict"
    /\ AllEntered(r)
    /\ IF AllWell(r)
       THEN Enter(r, "reduce", 0, "stats")
       ELSE /\ pc' = [pc EXCEPT ![r] = "idle"]
            /\ UNCHANGED entered
    /\ UNCHANGED <<buffered, amount, generated, total, retval, channel, missing,
                   globalTime, failed>>

(* mpiPi_publishResults: the collector prints, and all ranks meet. *)
Publish(r) ==
    /\ pc[r] = "stats"
    /\ r = Collector => AllEntered(r)
    /\ Enter(r, "barrier", 0, "published")
    /\ UNCHANGED <<buffered, amount, generated, total, retval, channel, missing,
                   globalTime, failed>>

LeavePublish(r) ==
    /\ pc[r] = "published"
    /\ AllEntered(r)
    /\ pc' = [pc EXCEPT ![r] = "idle"]
    /\ UNCHANGED <<buffered, amount, generated, entered, total, retval,
                   channel, missing, globalTime, failed>>

(* What rank r does once it has begun a report. *)
Proceed(r) ==
    \/ LeaveBasics(r)
    \/ NothingToMerge(r)
    \/ r = Collector /\ CollectorAllocates
    \/ SenderAllocates(r)
    \/ r = Collector /\ \E q \in Senders : Receive(q)
    \/ r = Collector /\ ReceivedAll
    \/ Sent(r)
    \/ LeaveVerdict(r)
    \/ Publish(r)
    \/ LeavePublish(r)

Next == \E r \in Ranks :
    Profile(r) \/ ResetCallsites(r) \/ Generate(r) \/ Proceed(r)

Spec == Init /\ [][Next]_vars

(* Every rank calls mpiPi_generateReport as often as the others, as MPI    *)
(* requires of MPI_Finalize and mpiP of MPI_Pcontrol, and goes on in it.   *)
FairSpec == Spec /\ \A r \in Ranks : WF_vars(Generate(r)) /\ WF_vars(Proceed(r))

-----------------------------------------------------------------------------

(* Every variable has its type. *)
TypeOK ==
    /\ buffered \in BOOLEAN
    /\ pc \in [Ranks -> {"idle", "basics", "count", "receive", "send",
                         "verdict", "stats", "published", "crashed"}]
    /\ amount \in [Ranks -> 0..MaxAmount]
    /\ generated \in [Ranks -> 0..MaxReports]
    /\ entered \in [Ranks -> Seq({"gather", "allreduce", "reduce", "barrier"}
                                  \X Nat)]
    /\ total \in [Ranks -> Nat]
    /\ retval \in [Ranks -> {0, 1}]
    /\ channel \in [Ranks -> Seq(0..MaxAmount)]
    /\ missing \in 0..Cardinality(Senders)
    /\ globalTime \in Nat
    /\ failed \subseteq MayFail

(* All ranks enter the same collective operations in the same order,       *)
(* whatever the counts and the verdicts of their reports: none of the      *)
(* early returns of mpiPi_mergeResults is taken by some ranks only.        *)
CollectivesAgree ==
    \A q, r \in Ranks :
        \A i \in DOMAIN entered[q] \cap DOMAIN entered[r] :
            entered[q][i][1] = entered[r][i][1]

(* What the collector publishes as a total is the sum over the records     *)
(* that the ranks announced for this report: each rank's message was       *)
(* received in it, once, "okay in any order" (mpiPi.c:453).  A report in   *)
(* which the collector lacked memory leaves messages behind, which its     *)
(* next report takes for its own.                                          *)
PublishedIsSum ==
    /\ pc[Collector] \in {"stats", "published"}
    /\ Collector \notin failed
    => globalTime = total[Collector]

(* No message of a report is left for the next one: outside its receiving  *)
(* loop, nothing is under way to the collector, unless it lacked memory.   *)
ChannelsDrained ==
    /\ pc[Collector] \notin {"count", "receive"}
    /\ Collector \notin failed
    => \A r \in Ranks : channel[r] = <<>>

(* A rank that has begun a report returns from it, unless some rank lacks  *)
(* memory: then a sender may wait for the collector for good, or crash.    *)
ReportsReturn ==
    \A r \in Ranks : pc[r] # "idle" ~> (pc[r] = "idle" \/ failed # {})
=============================================================================
