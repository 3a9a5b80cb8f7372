-------------------------- MODULE ReportMergeProofs ---------------------------
(***************************************************************************)
(* What ReportMerge promises holds for any number of ranks, whichever of   *)
(* them run out of memory: all enter the same collective operations, and   *)
(* what the collector publishes is the sum over all ranks.                 *)
(*                                                                         *)
(* The argument: what a rank enters next depends on its last two           *)
(* operations and on what all ranks contributed to the last, which all     *)
(* ranks see alike (History, Place); and while the collector is in its     *)
(* receiving loop, what is still due from the senders, whether under way   *)
(* or not yet sent, makes up the difference between its total and the sum  *)
(* (Merging).                                                              *)
(***************************************************************************)
EXTENDS ReportMerge, FoldTheorems, SequenceTheorems

Op(r, i) == entered[r][i][1]

(* What the ranks contributed to their i-th operation, and whether all     *)
(* have entered it.                                                        *)
Values(i) == [q \in Ranks |-> entered[q][i][2]]
All(i) == \A q \in Ranks : Len(entered[q]) >= i

(* The two Allreduce of a report: of the counts, and of the verdicts.      *)
IsCount(r, i) == i > 1 /\ Op(r, i) = "allreduce" /\ Op(r, i - 1) = "gather"
IsVerdict(r, i) == i > 1 /\ Op(r, i) = "allreduce" /\ Op(r, i - 1) = "allreduce"

AnyRecords(i) == Sum(Values(i)) # 0
NoneFailed(i) == \A q \in Ranks : Values(i)[q] = 1

(* With its i-th operation, r is at the end of a report. *)
Ends(r, i) ==
    /\ All(i)
    /\ \/ Op(r, i) = "barrier"
       \/ IsCount(r, i) /\ ~AnyRecords(i)
       \/ IsVerdict(r, i) /\ ~NoneFailed(i)

(* A report prescribes that r enters op after its i-th operation. *)
Prescribed(r, i, op) ==
    \/ Op(r, i) = "gather" /\ op = "allreduce"
    \/ IsCount(r, i) /\ All(i) /\ AnyRecords(i) /\ op = "allreduce"
    \/ IsVerdict(r, i) /\ All(i) /\ NoneFailed(i) /\ op = "reduce"
    \/ Op(r, i) = "reduce" /\ op = "barrier"
    \/ Ends(r, i) /\ op = "gather"

History ==
    /\ \A r \in Ranks :
          /\ Len(entered[r]) > 0 => Op(r, 1) = "gather"
          /\ \A i \in 1..(Len(entered[r]) - 1) : Prescribed(r, i, Op(r, i + 1))
    /\ \A i \in 1..(Len(entered[Collector]) - 1) : All(i)

(* Where r is in the report, in terms of what it entered last. *)
PlaceOf(r) ==
    LET n == Len(entered[r])
    IN  /\ pc[r] = "idle" => n = 0 \/ Ends(r, n)
        /\ pc[r] = "basics" => n > 0 /\ Op(r, n) = "gather"
        /\ pc[r] = "count" => IsCount(r, n)
        /\ pc[r] \in {"receive", "send", "crashed"} =>
              IsCount(r, n) /\ All(n) /\ AnyRecords(n)
        /\ pc[r] = "verdict" => IsVerdict(r, n)
        /\ pc[r] = "stats" => n > 0 /\ Op(r, n) = "reduce"
        /\ pc[r] = "published" => n > 0 /\ Op(r, n) = "barrier"
        /\ pc[r] = "receive" => r = Collector
        /\ pc[r] \in {"send", "crashed"} => r \in Senders

Place == \A r \in Ranks : PlaceOf(r)

(* A rank merges the records that it announced. *)
Announced ==
    \A r \in Ranks :
        LET n == Len(entered[r])
        IN  /\ pc[r] \in {"count", "receive", "send", "crashed"} =>
                  entered[r][n][2] = amount[r]
            /\ pc[r] = "verdict" => entered[r][n - 1][2] = amount[r]

-----------------------------------------------------------------------------
(* The collector's report: k is its Allreduce of the counts while it       *)
(* merges.                                                                 *)
Position == Len(entered[Collector])
Merges == pc[Collector] \in {"count", "receive"}

HasSent(r) ==
    \/ pc[r] = "send" /\ Len(entered[r]) = Position
    \/ pc[r] = "verdict" /\ Len(entered[r]) = Position + 1

(* r knows that there are records to merge and has not sent its own. *)
HoldsBack(r) ==
    /\ pc[r] \in {"count", "crashed"}
    /\ All(Len(entered[r]))
    /\ AnyRecords(Len(entered[r]))

(* The senders whose records the collector still expects. *)
Pending == {r \in Senders : HoldsBack(r) \/ channel[r] # <<>>}

(* A message under way is of this report, *)
Messages ==
    \A r \in Senders :
        channel[r] # <<>> => channel[r] = <<amount[r]>> /\ Merges /\ HasSent(r)

(* the collector has not left a report before all records are sent, *)
Holding == \A r \in Senders : HoldsBack(r) => Len(entered[r]) = Position

(* nothing is received before the collector has its memory, *)
Undelivered ==
    pc[Collector] = "count" =>
        \A r \in Senders : HasSent(r) => channel[r] # <<>>

(* what is missing while it receives is what is still expected, *)
Receiving ==
    pc[Collector] = "receive" =>
        /\ missing = Cardinality(Pending)
        /\ total[Collector] = Sum(Values(Position))
        /\ globalTime + SumFunctionOnSet(Values(Position), Pending)
              = total[Collector]

(* and then nothing is. *)
Complete ==
    pc[Collector] \in {"verdict", "stats", "published"} =>
        globalTime = total[Collector]

Merging == Messages /\ Holding /\ Undelivered /\ Receiving /\ Complete

(* The inductive invariant: the control of all ranks, and the merging of   *)
(* their records unless the collector lacked memory.                       *)
Control == TypeOK /\ History /\ CollectivesAgree /\ Place

Inv ==
    /\ Control
    /\ Announced
    /\ channel[Collector] = <<>>
    /\ Collector \notin failed => Merging

-----------------------------------------------------------------------------
Operations == {"gather", "allreduce", "reduce", "barrier"}

(* What entering an operation does to the histories. *)
LEMMA EnterAppends ==
    ASSUME TypeOK, NEW r \in Ranks, NEW op \in Operations, NEW v \in Nat,
           NEW at, Enter(r, op, v, at)
    PROVE  /\ entered' \in [Ranks -> Seq(Operations \X Nat)]
           /\ pc' = [pc EXCEPT ![r] = at]
           /\ Len(entered'[r]) = Len(entered[r]) + 1
           /\ entered'[r][Len(entered[r]) + 1] = <<op, v>>
           /\ \A i \in 1..Len(entered[r]) : entered'[r][i] = entered[r][i]
           /\ \A q \in Ranks \ {r} : entered'[q] = entered[q]
<1>1. entered \in [Ranks -> Seq(Operations \X Nat)]
  BY DEF TypeOK, Operations
<1>2. entered[r] \in Seq(Operations \X Nat) /\ <<op, v>> \in Operations \X Nat
  BY <1>1
<1>3. /\ Append(entered[r], <<op, v>>) \in Seq(Operations \X Nat)
      /\ Len(Append(entered[r], <<op, v>>)) = Len(entered[r]) + 1
      /\ \A i \in 1..Len(entered[r]) :
            Append(entered[r], <<op, v>>)[i] = entered[r][i]
      /\ Append(entered[r], <<op, v>>)[Len(entered[r]) + 1] = <<op, v>>
  BY <1>2, AppendProperties
<1>4. entered' = [entered EXCEPT ![r] = Append(entered[r], <<op, v>>)]
  BY DEF Enter
<1>5. entered'[r] = Append(entered[r], <<op, v>>)
  BY <1>1, <1>4
<1>6. QED
  BY <1>1, <1>3, <1>4, <1>5 DEF Enter

Places == {"idle", "basics", "count", "receive", "send", "verdict", "stats",
           "published", "crashed"}

LEMMA EnterType ==
    ASSUME TypeOK, NEW r \in Ranks, NEW op \in Operations, NEW v \in Nat,
           NEW at \in Places, Enter(r, op, v, at)
    PROVE  /\ pc' \in [Ranks -> {"idle", "basics", "count", "receive", "send",
                                 "verdict", "stats", "published", "crashed"}]
           /\ entered' \in [Ranks -> Seq({"gather", "allreduce", "reduce", "barrier"}
                                         \X Nat)]
<1>1. entered' \in [Ranks -> Seq(Operations \X Nat)] /\ pc' = [pc EXCEPT ![r] = at]
  BY EnterAppends
<1>2. pc \in [Ranks -> Places]
  BY DEF TypeOK, Places
<1>3. QED
  BY <1>1, <1>2 DEF Operations, Places

(* The sum over all ranks. *)
LEMMA SumType ==
    ASSUME NEW f \in [Ranks -> Nat]
    PROVE  Sum(f) \in Nat
BY SumNat, MergeAssumption DEF Sum

LEMMA ContributionType ==
    ASSUME TypeOK, NEW r \in Ranks, Len(entered[r]) > 0, AllEntered(r)
    PROVE  /\ Contribution(r) \in [Ranks -> Nat]
           /\ Sum(Contribution(r)) \in Nat
<1>1. ASSUME NEW q \in Ranks
      PROVE  entered[q][Len(entered[r])][2] \in Nat
  <2>1. entered[q] \in Seq(Operations \X Nat) /\ entered[r] \in Seq(Operations \X Nat)
    BY DEF TypeOK, Operations
  <2>2. Len(entered[r]) \in 1..Len(entered[q])
    BY <1>1, <2>1 DEF AllEntered
  <2>3. entered[q][Len(entered[r])] \in Operations \X Nat
    BY <2>1, <2>2, ElementOfSeq
  <2>4. QED
    BY <2>3
<1>2. QED
  BY <1>1, SumType DEF Contribution

LEMMA InitType == Init => TypeOK
<1>1. Cardinality(Senders) \in Nat
  BY MergeAssumption, FS_RemoveElement, FS_CardinalityType DEF Senders
<1>2. QED
  BY <1>1, MergeAssumption DEF Init, TypeOK

(* Every step keeps the types, given that a rank that looks at what all    *)
(* contributed has entered an operation.                                   *)
LEMMA NextType == TypeOK /\ Place /\ [Next]_vars => TypeOK'
<1> SUFFICES ASSUME TypeOK, Place, [Next]_vars
             PROVE  TypeOK'
  OBVIOUS
<1> USE MergeAssumption DEF MergeAssumption
<1>1. Cardinality(Senders) \in Nat
  BY FS_RemoveElement, FS_CardinalityType DEF Senders
<1>2. ASSUME NEW r \in Ranks, Profile(r)
      PROVE  TypeOK'
  <2>1. amount[r] + 1 \in 0..MaxAmount
    BY <1>2 DEF TypeOK, Profile
  <2>2. amount' \in [Ranks -> 0..MaxAmount]
    BY <1>2, <2>1 DEF TypeOK, Profile
  <2>3. QED
    BY <1>2, <2>2 DEF TypeOK, Profile
<1>3. ASSUME NEW r \in Ranks, ResetCallsites(r)
      PROVE  TypeOK'
  <2>1. amount' \in [Ranks -> 0..MaxAmount]
    BY <1>3 DEF TypeOK, ResetCallsites
  <2>2. globalTime' \in Nat
    <3>1. globalTime' = 0 \/ globalTime' = globalTime
      BY <1>3 DEF ResetCallsites
    <3>2. QED
      BY <3>1 DEF TypeOK
  <2>3. UNCHANGED <<buffered, pc, generated, entered, total, retval, channel,
                    missing, failed>>
    BY <1>3 DEF ResetCallsites
  <2>4. QED
    BY <2>1, <2>2, <2>3 DEF TypeOK
<1>4. ASSUME NEW r \in Ranks, Generate(r)
      PROVE  TypeOK'
  <2>1. "gather" \in Operations /\ "basics" \in Places /\ 0 \in Nat
    BY DEF Operations, Places, TypeOK
  <2>2. pc' \in [Ranks -> Places] /\ entered' \in [Ranks -> Seq(Operations \X Nat)]
    BY <1>4, <2>1, EnterType DEF Generate, Places, Operations
  <2>3. generated[r] + 1 \in 0..MaxReports
    <3>1. generated[r] \in 0..MaxReports
      BY DEF TypeOK
    <3>2. generated[r] < MaxReports
      BY <1>4 DEF Generate
    <3>3. QED
      BY <3>1, <3>2
  <2>4. generated' \in [Ranks -> 0..MaxReports]
    BY <1>4, <2>3 DEF TypeOK, Generate
  <2>5. QED
    BY <1>4, <2>2, <2>4 DEF TypeOK, Generate, Places, Operations
<1>5. ASSUME NEW r \in Ranks, LeaveBasics(r)
      PROVE  TypeOK'
  <2>1. "allreduce" \in Operations /\ "count" \in Places /\ amount[r] \in Nat
    BY DEF Operations, Places, TypeOK
  <2>2. pc' \in [Ranks -> Places] /\ entered' \in [Ranks -> Seq(Operations \X Nat)]
    BY <1>5, <2>1, EnterType DEF LeaveBasics, Places, Operations
  <2>3. QED
    BY <1>5, <2>2 DEF TypeOK, LeaveBasics, Places, Operations
<1>6. ASSUME NEW r \in Ranks, NothingToMerge(r)
      PROVE  TypeOK'
  BY <1>6 DEF TypeOK, NothingToMerge
<1>7. ASSUME CollectorAllocates
      PROVE  TypeOK'
  <2>1. Sum(Contribution(Collector)) \in Nat
    BY <1>7, ContributionType DEF CollectorAllocates, Place, PlaceOf, IsCount
  <2>2. total' \in [Ranks -> Nat]
    BY <1>7, <2>1 DEF TypeOK, CollectorAllocates
  <2>3. /\ pc' \in [Ranks -> Places]
        /\ entered' \in [Ranks -> Seq(Operations \X Nat)]
    <3>1. "allreduce" \in Operations /\ "verdict" \in Places /\ 0 \in Nat
      BY DEF Operations, Places
    <3>2. CASE Enter(Collector, "allreduce", 0, "verdict")
      BY <3>1, <3>2, EnterType DEF Places, Operations
    <3>3. CASE pc' = [pc EXCEPT ![Collector] = "receive"] /\ UNCHANGED entered
      BY <3>3 DEF TypeOK, Places, Operations
    <3>4. QED
      BY <1>7, <3>2, <3>3 DEF CollectorAllocates
  <2>4. amount[Collector] \in Nat /\ missing' \in 0..Cardinality(Senders)
    BY <1>1, <1>7 DEF TypeOK, CollectorAllocates, Expected
  <2>5. /\ globalTime' \in Nat
        /\ retval' \in [Ranks -> {0, 1}]
        /\ failed' \subseteq MayFail
    <3>1. globalTime' = amount[Collector] \/ globalTime' = 0
      BY <1>7, <2>4 DEF CollectorAllocates, InitialTime
    <3>2. globalTime' \in Nat
      BY <2>4, <3>1
    <3>3. retval' \in [Ranks -> {0, 1}] /\ failed' \subseteq MayFail
      BY <1>7 DEF TypeOK, CollectorAllocates
    <3>4. QED
      BY <3>2, <3>3
  <2>6. QED
    BY <1>7, <2>2, <2>3, <2>4, <2>5
    DEF TypeOK, CollectorAllocates, Places, Operations
<1>8. ASSUME NEW r \in Ranks, SenderAllocates(r)
      PROVE  TypeOK'
  <2>1. Sum(Contribution(r)) \in Nat
    BY <1>8, ContributionType DEF SenderAllocates, Place, PlaceOf, IsCount
  <2>2. total' \in [Ranks -> Nat]
    BY <1>8, <2>1 DEF TypeOK, SenderAllocates
  <2>3. PICK ok \in (IF r \in MayFail THEN {0, 1} ELSE {1}) :
          /\ retval' = [retval EXCEPT ![r] = ok]
          /\ failed' = IF ok = 1 THEN failed ELSE failed \cup {r}
          /\ IF ok = 0 /\ amount[r] > 0
             THEN /\ pc' = [pc EXCEPT ![r] = "crashed"]
                  /\ UNCHANGED channel
             ELSE /\ pc' = [pc EXCEPT ![r] = "send"]
                  /\ channel' = [channel EXCEPT ![r] = Append(@, amount[r])]
    BY <1>8 DEF SenderAllocates
  <2>4. channel' \in [Ranks -> Seq(0..MaxAmount)]
    <3>1. Append(channel[r], amount[r]) \in Seq(0..MaxAmount)
      BY AppendProperties DEF TypeOK
    <3>2. QED
      BY <2>3, <3>1 DEF TypeOK
  <2>5. pc' \in [Ranks -> Places] /\ retval' \in [Ranks -> {0, 1}] /\ failed' \subseteq MayFail
    BY <2>3 DEF TypeOK, Places
  <2>6. QED
    BY <1>8, <2>2, <2>4, <2>5 DEF TypeOK, SenderAllocates, Places
<1>9. ASSUME NEW r \in Senders, Receive(r)
      PROVE  TypeOK'
  <2>1. channel[r] \in Seq(0..MaxAmount) /\ channel[r] # <<>>
    BY <1>9 DEF TypeOK, Receive, Senders
  <2>2. Head(channel[r]) \in 0..MaxAmount /\ Tail(channel[r]) \in Seq(0..MaxAmount)
    BY <2>1, HeadTailProperties
  <2>3. channel' \in [Ranks -> Seq(0..MaxAmount)]
    BY <1>9, <2>2 DEF TypeOK, Receive
  <2>6. globalTime' \in Nat
    <3>1. globalTime \in Nat
      BY DEF TypeOK
    <3>2. globalTime' = globalTime + Head(channel[r])
      BY <1>9 DEF Receive
    <3>3. QED
      BY <2>2, <3>1, <3>2
  <2>4. missing' \in 0..Cardinality(Senders)
    BY <1>1, <1>9 DEF TypeOK, Receive
  <2>5. QED
    BY <1>9, <2>3, <2>4, <2>6 DEF TypeOK, Receive
<1>10. ASSUME ReceivedAll
       PROVE  TypeOK'
  <2>1. "allreduce" \in Operations /\ "verdict" \in Places /\ retval[Collector] \in Nat
    <3>1. retval[Collector] \in {0, 1}
      BY DEF TypeOK
    <3>2. QED
      BY <3>1 DEF Operations, Places
  <2>2. pc' \in [Ranks -> Places] /\ entered' \in [Ranks -> Seq(Operations \X Nat)]
    BY <1>10, <2>1, EnterType DEF ReceivedAll, Places, Operations
  <2>3. QED
    BY <1>10, <2>2 DEF TypeOK, ReceivedAll, Places, Operations
<1>11. ASSUME NEW r \in Ranks, Sent(r)
       PROVE  TypeOK'
  <2>1. "allreduce" \in Operations /\ "verdict" \in Places /\ retval[r] \in Nat
    <3>1. retval[r] \in {0, 1}
      BY DEF TypeOK
    <3>2. QED
      BY <3>1 DEF Operations, Places
  <2>2. pc' \in [Ranks -> Places] /\ entered' \in [Ranks -> Seq(Operations \X Nat)]
    BY <1>11, <2>1, EnterType DEF Sent, Places, Operations
  <2>3. QED
    BY <1>11, <2>2 DEF TypeOK, Sent, Places, Operations
<1>12. ASSUME NEW r \in Ranks, LeaveVerdict(r)
       PROVE  TypeOK'
  <2>1. "reduce" \in Operations /\ "stats" \in Places /\ 0 \in Nat
    BY DEF Operations, Places
  <2>2. /\ pc' \in [Ranks -> Places]
        /\ entered' \in [Ranks -> Seq(Operations \X Nat)]
    <3>1. CASE Enter(r, "reduce", 0, "stats")
      BY <2>1, <3>1, EnterType DEF Places, Operations
    <3>2. CASE pc' = [pc EXCEPT ![r] = "idle"] /\ UNCHANGED entered
      BY <3>2 DEF TypeOK, Places, Operations
    <3>3. QED
      BY <1>12, <3>1, <3>2 DEF LeaveVerdict
  <2>3. QED
    BY <1>12, <2>2 DEF TypeOK, LeaveVerdict, Places, Operations
<1>13. ASSUME NEW r \in Ranks, Publish(r)
       PROVE  TypeOK'
  <2>1. "barrier" \in Operations /\ "published" \in Places /\ 0 \in Nat
    BY DEF Operations, Places, TypeOK
  <2>2. pc' \in [Ranks -> Places] /\ entered' \in [Ranks -> Seq(Operations \X Nat)]
    BY <1>13, <2>1, EnterType DEF Publish, Places, Operations
  <2>3. QED
    BY <1>13, <2>2 DEF TypeOK, Publish, Places, Operations
<1>14. ASSUME NEW r \in Ranks, LeavePublish(r)
       PROVE  TypeOK'
  BY <1>14 DEF TypeOK, LeavePublish
<1>15. CASE UNCHANGED vars
  BY <1>15 DEF TypeOK, vars
<1>16. QED
  BY <1>2, <1>3, <1>4, <1>5, <1>6, <1>7, <1>8, <1>9, <1>10, <1>11, <1>12,
     <1>13, <1>14, <1>15 DEF Next, Proceed

-----------------------------------------------------------------------------
(* The histories only grow, and what holds of operations that all have     *)
(* entered goes on to hold of them.                                        *)
Grows ==
    \A q \in Ranks :
        /\ Len(entered'[q]) >= Len(entered[q])
        /\ \A i \in 1..Len(entered[q]) : entered'[q][i] = entered[q][i]

LEMMA LenType == TypeOK => \A q \in Ranks : Len(entered[q]) \in Nat
BY DEF TypeOK

LEMMA NewLenType == TypeOK' => \A q \in Ranks : Len(entered'[q]) \in Nat
<1>1. TypeOK' => entered' \in [Ranks -> Seq(Operations \X Nat)]
  BY DEF TypeOK, Operations
<1>2. QED
  BY <1>1

LEMMA OperationsEntered ==
    TypeOK => \A q \in Ranks : DOMAIN entered[q] = 1..Len(entered[q])
<1>1. TypeOK => entered \in [Ranks -> Seq(Operations \X Nat)]
  BY DEF TypeOK, Operations
<1>2. QED
  BY <1>1

LEMMA NewOperationsEntered ==
    TypeOK' => \A q \in Ranks : DOMAIN entered'[q] = 1..Len(entered'[q])
<1>1. TypeOK' => entered' \in [Ranks -> Seq(Operations \X Nat)]
  BY DEF TypeOK, Operations
<1>2. QED
  BY <1>1

LEMMA EnterGrows ==
    ASSUME TypeOK, NEW r \in Ranks, NEW op \in Operations, NEW v \in Nat,
           NEW at, Enter(r, op, v, at)
    PROVE  Grows
BY EnterAppends, LenType DEF Grows

LEMMA SameGrows ==
    ASSUME TypeOK, UNCHANGED entered
    PROVE  Grows
BY LenType DEF Grows

LEMMA AllKept ==
    ASSUME TypeOK, TypeOK', Grows, NEW i \in Nat, i > 0, All(i)
    PROVE  /\ All(i)'
           /\ Values(i)' = Values(i)
           /\ AnyRecords(i)' = AnyRecords(i)
           /\ NoneFailed(i)' = NoneFailed(i)
<1>1. \A q \in Ranks : Len(entered[q]) \in Nat /\ Len(entered'[q]) \in Nat
  BY LenType, NewLenType
<1>2. \A q \in Ranks : Len(entered'[q]) >= i
  BY <1>1 DEF Grows, All
<1>3. \A q \in Ranks : entered'[q][i] = entered[q][i]
  BY <1>1 DEF Grows, All
<1>4. Values(i)' = Values(i)
  BY <1>3 DEF Values
<1>5. QED
  BY <1>2, <1>4 DEF All, AnyRecords, NoneFailed

LEMMA OpsKept ==
    ASSUME TypeOK, Grows, NEW q \in Ranks, NEW i \in 1..Len(entered[q])
    PROVE  /\ Op(q, i)' = Op(q, i)
           /\ IsCount(q, i)' = IsCount(q, i)
           /\ IsVerdict(q, i)' = IsVerdict(q, i)
<1>1. Len(entered[q]) \in Nat
  BY LenType
<1>2. \A j \in 1..Len(entered[q]) : Op(q, j)' = Op(q, j)
  BY DEF Grows, Op
<1>3. i > 1 => i - 1 \in 1..Len(entered[q])
  BY <1>1
<1>4. QED
  BY <1>2, <1>3 DEF IsCount, IsVerdict

LEMMA EndsKept ==
    ASSUME TypeOK, TypeOK', Grows, NEW q \in Ranks, NEW i \in 1..Len(entered[q]),
           Ends(q, i)
    PROVE  Ends(q, i)'
<1>1. i \in Nat /\ i > 0
  BY LenType
<1>2. QED
  BY <1>1, AllKept, OpsKept DEF Ends

LEMMA PrescribedKept ==
    ASSUME TypeOK, TypeOK', Grows, NEW q \in Ranks, NEW i \in 1..Len(entered[q]),
           NEW op, Prescribed(q, i, op)
    PROVE  Prescribed(q, i, op)'
<1>1. i \in Nat /\ i > 0
  BY LenType
<1>2. QED
  BY <1>1, AllKept, OpsKept, EndsKept DEF Prescribed

-----------------------------------------------------------------------------
(* r enters op where the report prescribes it. *)
EntersPrescribed(r, op) ==
    LET n == Len(entered[r])
    IN  /\ n = 0 => op = "gather"
        /\ n > 0 => Prescribed(r, n, op)
        /\ r = Collector => n = 0 \/ All(n)

(* Every step leaves the histories alone or adds to one of them what the   *)
(* report prescribes.                                                      *)
LEMMA NextEnters ==
    ASSUME TypeOK, Place, Next
    PROVE  \/ UNCHANGED entered
           \/ \E r \in Ranks, op \in Operations, v \in Nat, at \in Places :
                 Enter(r, op, v, at) /\ EntersPrescribed(r, op)
<1> DEFINE Conclusion ==
      \/ UNCHANGED entered
      \/ \E r \in Ranks, op \in Operations, v \in Nat, at \in Places :
            Enter(r, op, v, at) /\ EntersPrescribed(r, op)
<1>1. ASSUME NEW r \in Ranks, Generate(r)
      PROVE  Conclusion
  <2>1. EntersPrescribed(r, "gather")
    BY <1>1, LenType DEF Generate, Place, PlaceOf, EntersPrescribed, Prescribed, Ends
  <2>2. Enter(r, "gather", 0, "basics")
    BY <1>1 DEF Generate
  <2>3. QED
    BY <2>1, <2>2 DEF Operations, Places
<1>2. ASSUME NEW r \in Ranks, LeaveBasics(r)
      PROVE  Conclusion
  <2>1. EntersPrescribed(r, "allreduce")
    BY <1>2, LenType DEF LeaveBasics, Place, PlaceOf, EntersPrescribed, Prescribed,
                AllEntered, All
  <2>2. Enter(r, "allreduce", amount[r], "count") /\ amount[r] \in Nat
    BY <1>2 DEF LeaveBasics, TypeOK
  <2>3. QED
    BY <2>1, <2>2 DEF Operations, Places
<1>3. ASSUME CollectorAllocates
      PROVE  Conclusion
  <2>1. Collector \in Ranks
    BY MergeAssumption DEF MergeAssumption
  <2>2. EntersPrescribed(Collector, "allreduce")
    BY <1>3, <2>1, LenType DEF CollectorAllocates, Place, PlaceOf, EntersPrescribed, Prescribed,
                AllEntered, All, NoRecords, AnyRecords, Contribution, Values, IsCount
  <2>3. UNCHANGED entered \/ Enter(Collector, "allreduce", 0, "verdict")
    BY <1>3 DEF CollectorAllocates
  <2>4. QED
    BY <2>1, <2>2, <2>3 DEF Operations, Places
<1>4. ASSUME ReceivedAll
      PROVE  Conclusion
  <2>1. Collector \in Ranks
    BY MergeAssumption DEF MergeAssumption
  <2>2. EntersPrescribed(Collector, "allreduce")
    BY <1>4, <2>1, LenType DEF ReceivedAll, Place, PlaceOf, EntersPrescribed, Prescribed, IsCount
  <2>3. Enter(Collector, "allreduce", retval[Collector], "verdict")
    BY <1>4 DEF ReceivedAll
  <2>4. retval[Collector] \in Nat
    <3>1. retval[Collector] \in {0, 1}
      BY <2>1 DEF TypeOK
    <3>2. QED
      BY <3>1
  <2>5. QED
    BY <2>1, <2>2, <2>3, <2>4 DEF Operations, Places
<1>5. ASSUME NEW r \in Ranks, Sent(r)
      PROVE  Conclusion
  <2>1. EntersPrescribed(r, "allreduce")
    BY <1>5, LenType DEF Sent, Place, PlaceOf, EntersPrescribed, Prescribed, IsCount
  <2>2. Enter(r, "allreduce", retval[r], "verdict")
    BY <1>5 DEF Sent
  <2>3. retval[r] \in Nat
    <3>1. retval[r] \in {0, 1}
      BY DEF TypeOK
    <3>2. QED
      BY <3>1
  <2>4. QED
    BY <2>1, <2>2, <2>3 DEF Operations, Places
<1>6. ASSUME NEW r \in Ranks, LeaveVerdict(r)
      PROVE  Conclusion
  <2>1. CASE AllWell(r)
    <3>1. EntersPrescribed(r, "reduce")
      BY <1>6, <2>1, LenType DEF LeaveVerdict, Place, PlaceOf, EntersPrescribed, Prescribed,
                  AllEntered, All, AllWell, NoneFailed, Contribution, Values, IsVerdict
    <3>2. Enter(r, "reduce", 0, "stats")
      BY <1>6, <2>1 DEF LeaveVerdict
    <3>3. QED
      BY <3>1, <3>2 DEF Operations, Places
  <2>2. CASE ~AllWell(r)
    BY <1>6, <2>2 DEF LeaveVerdict
  <2>3. QED
    BY <2>1, <2>2
<1>7. ASSUME NEW r \in Ranks, Publish(r)
      PROVE  Conclusion
  <2>1. EntersPrescribed(r, "barrier")
    BY <1>7, LenType DEF Publish, Place, PlaceOf, EntersPrescribed, Prescribed, AllEntered, All
  <2>2. Enter(r, "barrier", 0, "published")
    BY <1>7 DEF Publish
  <2>3. QED
    BY <2>1, <2>2 DEF Operations, Places
<1>8. ASSUME NEW r \in Ranks,
             \/ Profile(r) \/ ResetCallsites(r) \/ NothingToMerge(r)
             \/ SenderAllocates(r) \/ (\E q \in Senders : Receive(q))
             \/ LeavePublish(r)
      PROVE  Conclusion
  BY <1>8 DEF Profile, ResetCallsites, NothingToMerge, SenderAllocates, Receive,
              LeavePublish
<1>9. QED
  BY <1>1, <1>2, <1>3, <1>4, <1>5, <1>6, <1>7, <1>8 DEF Next, Proceed

LEMMA NextGrows ==
    ASSUME TypeOK, Place, Next
    PROVE  Grows
BY NextEnters, EnterGrows, SameGrows

(* The histories stay what the report prescribes. *)
LEMMA HistoryKept ==
    ASSUME TypeOK, TypeOK', Place, History, Next
    PROVE  History'
<1>1. Grows
  BY NextGrows
<1>2. \A q \in Ranks : Len(entered[q]) \in Nat /\ Len(entered'[q]) \in Nat
  BY LenType, NewLenType
<1>3. Collector \in Ranks
  BY MergeAssumption DEF MergeAssumption
<1>4. ASSUME NEW q \in Ranks, NEW i \in 1..(Len(entered[q]) - 1)
      PROVE  Prescribed(q, i, Op(q, i + 1))'
  <2>1. i \in 1..Len(entered[q]) /\ i + 1 \in 1..Len(entered[q])
    BY <1>2
  <2>2. Prescribed(q, i, Op(q, i + 1))
    BY DEF History
  <2>3. Op(q, i + 1)' = Op(q, i + 1)
    BY <1>1, <2>1, OpsKept
  <2>4. PICK op : op = Op(q, i + 1)
    OBVIOUS
  <2>5. Prescribed(q, i, op)'
    BY <1>1, <2>1, <2>2, <2>4, PrescribedKept
  <2>6. QED
    BY <2>3, <2>4, <2>5 DEF Prescribed
<1>5. ASSUME NEW q \in Ranks, Len(entered[q]) > 0
      PROVE  Op(q, 1)' = "gather"
  <2>1. 1 \in 1..Len(entered[q])
    BY <1>2, <1>5
  <2>2. QED
    BY <1>1, <1>5, <2>1, OpsKept DEF History
<1>6. ASSUME NEW i \in 1..(Len(entered[Collector]) - 1)
      PROVE  All(i)'
  <2>1. i \in Nat /\ i > 0 /\ All(i)
    BY <1>2, <1>3 DEF History
  <2>2. QED
    BY <1>1, <2>1, AllKept
<1>7. CASE UNCHANGED entered
  BY <1>4, <1>5, <1>6, <1>7 DEF History
<1>8. ASSUME NEW r \in Ranks, NEW op \in Operations, NEW v \in Nat, NEW at \in Places,
             Enter(r, op, v, at), EntersPrescribed(r, op)
      PROVE  History'
  <2>0. PICK n \in Nat : n = Len(entered[r])
    BY <1>2
  <2>1. /\ Len(entered'[r]) = n + 1
        /\ Op(r, n + 1)' = op
        /\ \A q \in Ranks \ {r} : Len(entered'[q]) = Len(entered[q])
    BY <1>8, <2>0, EnterAppends DEF Op
  <2>2. n \in Nat
    OBVIOUS
  <2>3. n > 0 => Prescribed(r, n, op)'
    <3>1. n > 0 => n \in 1..Len(entered[r])
      BY <2>0
    <3>2. QED
      BY <1>1, <1>8, <2>0, <3>1, PrescribedKept DEF EntersPrescribed
  <2>4. ASSUME NEW q \in Ranks
        PROVE  Len(entered'[q]) > 0 => Op(q, 1)' = "gather"
    <3>1. CASE q # r
      BY <2>1, <2>4, <3>1, <1>5
    <3>2. CASE q = r /\ n > 0
      BY <3>2, <2>0, <1>5
    <3>3. CASE q = r /\ n = 0
      BY <3>3, <2>0, <2>1, <1>8 DEF EntersPrescribed
    <3>4. QED
      BY <2>2, <3>1, <3>2, <3>3
  <2>5. ASSUME NEW q \in Ranks, NEW i \in 1..(Len(entered'[q]) - 1)
        PROVE  Prescribed(q, i, Op(q, i + 1))'
    <3>1. CASE q # r
      BY <2>1, <3>1, <1>4
    <3>2. CASE q = r /\ i < n
      <4>1. i \in 1..(Len(entered[q]) - 1)
        BY <2>0, <2>1, <3>2
      <4>2. QED
        BY <4>1, <1>4
    <3>3. CASE q = r /\ i = n
      <4>1. n > 0
        BY <2>1, <2>2, <3>3
      <4>2. QED
        BY <4>1, <2>1, <2>3, <3>3
    <3>4. QED
      BY <2>1, <2>2, <3>1, <3>2, <3>3
  <2>6. ASSUME NEW i \in 1..(Len(entered'[Collector]) - 1)
        PROVE  All(i)'
    <3>1. CASE i \in 1..(Len(entered[Collector]) - 1)
      BY <3>1, <1>6
    <3>2. CASE i \notin 1..(Len(entered[Collector]) - 1)
      <4>1. r = Collector /\ i = n /\ n > 0
        BY <1>2, <1>3, <2>0, <2>1, <3>2
      <4>2. All(n)
        BY <1>8, <2>0, <4>1 DEF EntersPrescribed
      <4>3. QED
        BY <1>1, <2>2, <4>1, <4>2, AllKept
    <3>3. QED
      BY <3>1, <3>2
  <2>7. QED
    BY <2>4, <2>5, <2>6 DEF History
<1>9. QED
  BY <1>7, <1>8, NextEnters

(* All ranks go on to enter the same operations: what is prescribed is the *)
(* same for two ranks with the same last two operations, for it depends    *)
(* on what all ranks contributed and not on what the rank itself did.      *)
LEMMA AgreementKept ==
    ASSUME TypeOK, TypeOK', Place, History, CollectivesAgree, Next
    PROVE  CollectivesAgree'
<1>1. History'
  BY HistoryKept
<1>2. \A q \in Ranks : Len(entered[q]) \in Nat /\ Len(entered'[q]) \in Nat
  BY LenType, NewLenType
<1>3. \A q \in Ranks : /\ DOMAIN entered[q] = 1..Len(entered[q])
                       /\ DOMAIN entered'[q] = 1..Len(entered'[q])
  BY OperationsEntered, NewOperationsEntered
<1>4. ASSUME NEW q \in Ranks, NEW r \in Ranks,
             NEW i \in (1..Len(entered[q])) \cap (1..Len(entered[r]))
      PROVE  Op(q, i)' = Op(r, i)'
  <2>1. Grows
    BY NextGrows
  <2>2. Op(q, i) = Op(r, i)
    BY <1>3 DEF CollectivesAgree, Op
  <2>3. QED
    BY <2>1, <2>2, OpsKept
<1>5. CASE UNCHANGED entered
  BY <1>5 DEF CollectivesAgree
<1>6. ASSUME NEW r \in Ranks, NEW op \in Operations, NEW v \in Nat, NEW at \in Places,
             Enter(r, op, v, at)
      PROVE  CollectivesAgree'
  <2>0. PICK n \in Nat : n = Len(entered[r])
    BY <1>2
  <2>1. /\ Len(entered'[r]) = n + 1
        /\ \A q \in Ranks \ {r} : Len(entered'[q]) = Len(entered[q])
    BY <1>6, <2>0, EnterAppends
  <2>2. n \in Nat
    OBVIOUS
  <2>3. ASSUME NEW q \in Ranks \ {r}, n + 1 \in 1..Len(entered'[q])
        PROVE  Op(q, n + 1)' = Op(r, n + 1)'
    <3>1. CASE n = 0
      <4>1. Len(entered'[q]) > 0 /\ Len(entered'[r]) > 0
        BY <1>2, <2>1, <2>3, <3>1
      <4>2. Op(q, 1)' = "gather" /\ Op(r, 1)' = "gather"
        BY <1>1, <4>1 DEF History
      <4>3. n + 1 = 1
        BY <3>1
      <4>4. QED
        BY <4>2, <4>3
    <3>2. CASE n > 0
      <4>1. /\ n \in (1..Len(entered[q])) \cap (1..Len(entered[r]))
            /\ n > 1 => n - 1 \in (1..Len(entered[q])) \cap (1..Len(entered[r]))
        BY <1>2, <2>0, <2>1, <2>3, <3>2
      <4>2. Op(q, n)' = Op(r, n)' /\ (n > 1 => Op(q, n - 1)' = Op(r, n - 1)')
        BY <4>1, <1>4
      <4>3. n \in 1..(Len(entered'[q]) - 1) /\ n \in 1..(Len(entered'[r]) - 1)
        BY <1>2, <2>0, <2>1, <2>3, <3>2
      <4>4. /\ Prescribed(q, n, Op(q, n + 1))'
            /\ Prescribed(r, n, Op(r, n + 1))'
        BY <1>1, <4>3 DEF History
      <4>5. QED
        BY <4>2, <4>4, <3>2, <2>2 DEF Prescribed, Ends, IsCount, IsVerdict
    <3>3. QED
      BY <2>2, <3>1, <3>2
  <2>4. ASSUME NEW q \in Ranks, NEW p \in Ranks,
               NEW i \in (1..Len(entered'[q])) \cap (1..Len(entered'[p]))
        PROVE  Op(q, i)' = Op(p, i)'
    <3>1. CASE i \in (1..Len(entered[q])) \cap (1..Len(entered[p]))
      BY <3>1, <1>4
    <3>2. CASE i \notin (1..Len(entered[q])) \cap (1..Len(entered[p]))
      <4>1. i = n + 1 /\ (q = r \/ p = r)
        BY <1>2, <2>0, <2>1, <3>2
      <4>2. QED
        BY <4>1, <2>3
    <3>3. QED
      BY <3>1, <3>2
  <2>5. QED
    <3>1. SUFFICES ASSUME NEW q \in Ranks, NEW p \in Ranks,
                          NEW i \in DOMAIN entered'[q] \cap DOMAIN entered'[p]
                   PROVE  entered'[q][i][1] = entered'[p][i][1]
      BY DEF CollectivesAgree
    <3>2. i \in (1..Len(entered'[q])) \cap (1..Len(entered'[p]))
      BY <1>3
    <3>3. Op(q, i)' = Op(p, i)'
      BY <2>4, <3>2
    <3>4. QED
      BY <3>3 DEF Op
<1>7. QED
  BY <1>5, <1>6, NextEnters

-----------------------------------------------------------------------------
(* A rank that does not move keeps its place in the report. *)
LEMMA PlaceOfOthers ==
    ASSUME TypeOK, TypeOK', Grows, NEW q \in Ranks, PlaceOf(q),
           entered'[q] = entered[q], pc'[q] = pc[q]
    PROVE  PlaceOf(q)'
<1>1. Len(entered[q]) \in Nat
  BY LenType
<1> DEFINE n == Len(entered[q])
<1>2. CASE n = 0
  BY <1>2 DEF PlaceOf, IsCount, IsVerdict
<1>3. CASE n > 0
  <2>1. PICK m : m = n
    OBVIOUS
  <2>2. m \in 1..Len(entered[q]) /\ m \in Nat /\ m > 0
    BY <1>1, <1>3, <2>1
  <2>3. /\ Op(q, m)' = Op(q, m)
        /\ IsCount(q, m)' = IsCount(q, m)
        /\ IsVerdict(q, m)' = IsVerdict(q, m)
    BY <2>2, OpsKept
  <2>4. /\ All(m) => All(m)' /\ AnyRecords(m)' = AnyRecords(m)
        /\ Ends(q, m) => Ends(q, m)'
    BY <2>2, AllKept, EndsKept
  <2>5. Len(entered'[q]) = m /\ Len(entered[q]) = m
    BY <2>1
  <2>6. QED
    BY <2>2, <2>3, <2>4, <2>5 DEF PlaceOf
<1>4. QED
  BY <1>1, <1>2, <1>3

(* The new place of a rank that enters an operation. *)
LEMMA EnterPlace ==
    ASSUME TypeOK, NEW r \in Ranks, NEW op \in Operations, NEW v \in Nat,
           NEW at, Enter(r, op, v, at)
    PROVE  \E m \in Nat :
              /\ m = Len(entered[r])
              /\ Len(entered'[r]) = m + 1
              /\ pc'[r] = at
              /\ Op(r, m + 1)' = op
              /\ m > 0 => Op(r, m)' = Op(r, m)
              /\ \A q \in Ranks \ {r} : entered'[q] = entered[q] /\ pc'[q] = pc[q]
<1>1. PICK m \in Nat : m = Len(entered[r])
  BY LenType
<1>2. m > 0 => m \in 1..Len(entered[r])
  BY <1>1
<1>3. pc'[r] = at /\ \A q \in Ranks \ {r} : pc'[q] = pc[q]
  <2>1. pc \in [Ranks -> Places]
    BY DEF TypeOK, Places
  <2>2. pc' = [pc EXCEPT ![r] = at]
    BY EnterAppends
  <2>3. QED
    BY <2>1, <2>2
<1>4. /\ Len(entered'[r]) = m + 1
      /\ entered'[r][m + 1] = <<op, v>>
      /\ m > 0 => entered'[r][m] = entered[r][m]
      /\ \A q \in Ranks \ {r} : entered'[q] = entered[q]
  BY <1>1, <1>2, EnterAppends
<1>5. Op(r, m + 1)' = op /\ (m > 0 => Op(r, m)' = Op(r, m))
  BY <1>4 DEF Op
<1>6. QED
  BY <1>1, <1>3, <1>4, <1>5

LEMMA PlaceKept ==
    ASSUME TypeOK, TypeOK', Place, Next
    PROVE  Place'
<1>1. Grows
  BY NextGrows
<1>2. ASSUME NEW r \in Ranks, PlaceOf(r)',
             \A q \in Ranks \ {r} : entered'[q] = entered[q] /\ pc'[q] = pc[q]
      PROVE  Place'
  BY <1>1, <1>2, PlaceOfOthers DEF Place
<1>3. Collector \in Ranks
  BY MergeAssumption DEF MergeAssumption
<1>4. ASSUME NEW r \in Ranks, Profile(r) \/ ResetCallsites(r)
      PROVE  Place'
  BY <1>1, <1>4, PlaceOfOthers DEF Place, Profile, ResetCallsites
<1>5. ASSUME NEW r \in Ranks, Generate(r)
      PROVE  Place'
  <2>1. Enter(r, "gather", 0, "basics") /\ "gather" \in Operations
    BY <1>5 DEF Generate, Operations
  <2>2. QED
    BY <2>1, <1>2, EnterPlace DEF PlaceOf
<1>6. ASSUME NEW r \in Ranks, LeaveBasics(r)
      PROVE  Place'
  <2>1. /\ Enter(r, "allreduce", amount[r], "count") /\ "allreduce" \in Operations
        /\ amount[r] \in Nat
    BY <1>6 DEF LeaveBasics, Operations, TypeOK
  <2>2. PICK m \in Nat :
              /\ m = Len(entered[r])
              /\ Len(entered'[r]) = m + 1
              /\ pc'[r] = "count"
              /\ Op(r, m + 1)' = "allreduce"
              /\ m > 0 => Op(r, m)' = Op(r, m)
              /\ \A q \in Ranks \ {r} : entered'[q] = entered[q] /\ pc'[q] = pc[q]
    BY <2>1, EnterPlace
  <2>3. m > 0 /\ Op(r, m) = "gather"
    BY <1>6, <2>2 DEF LeaveBasics, Place, PlaceOf
  <2>4. IsCount(r, m + 1)'
    BY <2>2, <2>3 DEF IsCount
  <2>5. PlaceOf(r)'
    BY <2>2, <2>4 DEF PlaceOf
  <2>6. QED
    BY <2>2, <2>5, <1>2
<1>7. ASSUME NEW r \in Ranks, NEW v \in Nat, Enter(r, "allreduce", v, "verdict"),
             pc[r] \in {"count", "receive", "send"}
      PROVE  Place'
  <2>1. PICK m \in Nat :
              /\ m = Len(entered[r])
              /\ Len(entered'[r]) = m + 1
              /\ pc'[r] = "verdict"
              /\ Op(r, m + 1)' = "allreduce"
              /\ m > 0 => Op(r, m)' = Op(r, m)
              /\ \A q \in Ranks \ {r} : entered'[q] = entered[q] /\ pc'[q] = pc[q]
    BY <1>7, EnterPlace DEF Operations
  <2>2. m > 0 /\ Op(r, m) = "allreduce"
    BY <1>7, <2>1 DEF Place, PlaceOf, IsCount
  <2>3. IsVerdict(r, m + 1)'
    BY <2>1, <2>2 DEF IsVerdict
  <2>4. PlaceOf(r)'
    BY <2>1, <2>3 DEF PlaceOf
  <2>5. QED
    BY <2>1, <2>4, <1>2
<1>8. ASSUME NEW r \in Ranks, NEW op, NEW at,
             <<op, at>> \in {<<"reduce", "stats">>, <<"barrier", "published">>},
             Enter(r, op, 0, at)
      PROVE  Place'
  <2>1. PICK m \in Nat :
              /\ m = Len(entered[r])
              /\ Len(entered'[r]) = m + 1
              /\ pc'[r] = at
              /\ Op(r, m + 1)' = op
              /\ m > 0 => Op(r, m)' = Op(r, m)
              /\ \A q \in Ranks \ {r} : entered'[q] = entered[q] /\ pc'[q] = pc[q]
    BY <1>8, EnterPlace DEF Operations
  <2>2. PlaceOf(r)'
    BY <1>8, <2>1 DEF PlaceOf
  <2>3. QED
    BY <2>1, <2>2, <1>2
<1>9. ASSUME NEW r \in Ranks, NEW at, pc' = [pc EXCEPT ![r] = at], UNCHANGED entered,
             \/ at = "idle" /\ Ends(r, Len(entered[r]))
             \/ /\ at \in {"receive", "send", "crashed"}
                /\ IsCount(r, Len(entered[r])) /\ All(Len(entered[r]))
                /\ AnyRecords(Len(entered[r]))
                /\ at = "receive" <=> r = Collector
      PROVE  Place'
  <2>1. pc'[r] = at /\ \A q \in Ranks \ {r} : pc'[q] = pc[q]
    BY <1>9 DEF TypeOK
  <2>2. PICK m \in Nat : m = Len(entered[r]) /\ m = Len(entered'[r])
    BY <1>9, LenType
  <2>3. IsCount(r, m)' = IsCount(r, m) /\ All(m)' = All(m)
        /\ AnyRecords(m)' = AnyRecords(m) /\ Ends(r, m)' = Ends(r, m)
    BY <1>9 DEF IsCount, All, AnyRecords, Values, Ends, IsVerdict, NoneFailed, Op
  <2>4. PlaceOf(r)'
    BY <1>9, <2>1, <2>2, <2>3 DEF PlaceOf, Senders
  <2>5. QED
    BY <1>2, <1>9, <2>1, <2>4
<1>10. ASSUME NEW r \in Ranks, NothingToMerge(r)
       PROVE  Place'
  <2>1. Ends(r, Len(entered[r]))
    BY <1>10 DEF NothingToMerge, Place, PlaceOf, Ends, AllEntered, All, NoRecords,
                 AnyRecords, Contribution, Values
  <2>2. QED
    BY <1>9, <1>10, <2>1 DEF NothingToMerge
<1>11. ASSUME CollectorAllocates
       PROVE  Place'
  <2>1. /\ IsCount(Collector, Len(entered[Collector]))
        /\ All(Len(entered[Collector])) /\ AnyRecords(Len(entered[Collector]))
    BY <1>3, <1>11 DEF CollectorAllocates, Place, PlaceOf, AllEntered, All, NoRecords,
                 AnyRecords, Contribution, Values
  <2>2. CASE pc' = [pc EXCEPT ![Collector] = "receive"] /\ UNCHANGED entered
    BY <1>3, <1>9, <2>1, <2>2
  <2>3. CASE Enter(Collector, "allreduce", 0, "verdict")
    BY <1>3, <1>7, <1>11, <2>3 DEF CollectorAllocates
  <2>4. QED
    BY <1>11, <2>2, <2>3 DEF CollectorAllocates
<1>12. ASSUME NEW r \in Ranks, SenderAllocates(r)
       PROVE  Place'
  <2>1. /\ IsCount(r, Len(entered[r])) /\ All(Len(entered[r])) /\ AnyRecords(Len(entered[r]))
    BY <1>12 DEF SenderAllocates, Place, PlaceOf, AllEntered, All, NoRecords,
                 AnyRecords, Contribution, Values
  <2>2. r # Collector /\ UNCHANGED entered
    BY <1>12 DEF SenderAllocates, Senders
  <2>3. pc' = [pc EXCEPT ![r] = "crashed"] \/ pc' = [pc EXCEPT ![r] = "send"]
    BY <1>12 DEF SenderAllocates
  <2>4. QED
    BY <1>9, <2>1, <2>2, <2>3
<1>13. ASSUME NEW r \in Senders, Receive(r)
       PROVE  Place'
  BY <1>1, <1>13, PlaceOfOthers DEF Place, Receive
<1>14. ASSUME ReceivedAll
       PROVE  Place'
  <2>1. retval[Collector] \in Nat
    <3>1. retval[Collector] \in {0, 1}
      BY <1>3 DEF TypeOK
    <3>2. QED
      BY <3>1
  <2>2. QED
    BY <1>3, <1>7, <1>14, <2>1 DEF ReceivedAll
<1>15. ASSUME NEW r \in Ranks, Sent(r)
       PROVE  Place'
  <2>1. retval[r] \in Nat
    <3>1. retval[r] \in {0, 1}
      BY DEF TypeOK
    <3>2. QED
      BY <3>1
  <2>2. QED
    BY <1>7, <1>15, <2>1 DEF Sent
<1>16. ASSUME NEW r \in Ranks, LeaveVerdict(r)
       PROVE  Place'
  <2>1. CASE AllWell(r)
    <3>1. Enter(r, "reduce", 0, "stats")
      BY <1>16, <2>1 DEF LeaveVerdict
    <3>2. QED
      BY <1>8, <3>1
  <2>2. CASE ~AllWell(r)
    <3>1. Ends(r, Len(entered[r]))
      BY <1>16, <2>2 DEF LeaveVerdict, Place, PlaceOf, Ends, AllEntered, All, AllWell,
                 NoneFailed, Contribution, Values
    <3>2. QED
      BY <1>9, <1>16, <2>2, <3>1 DEF LeaveVerdict
  <2>3. QED
    BY <2>1, <2>2
<1>17. ASSUME NEW r \in Ranks, Publish(r)
       PROVE  Place'
  BY <1>8, <1>17 DEF Publish
<1>18. ASSUME NEW r \in Ranks, LeavePublish(r)
       PROVE  Place'
  <2>1. Ends(r, Len(entered[r]))
    BY <1>18 DEF LeavePublish, Place, PlaceOf, Ends, AllEntered, All
  <2>2. QED
    BY <1>9, <1>18, <2>1 DEF LeavePublish
<1>19. QED
  BY <1>4, <1>5, <1>6, <1>10, <1>11, <1>12, <1>13, <1>14, <1>15, <1>16, <1>17,
     <1>18 DEF Next, Proceed

-----------------------------------------------------------------------------
LEMMA NextControl == Control /\ [Next]_vars => Control'
<1>1. CASE Control /\ UNCHANGED vars
  <2>1. TypeOK' /\ CollectivesAgree'
    BY <1>1 DEF vars, Control, TypeOK, CollectivesAgree
  <2>2. \A i : Values(i)' = Values(i) /\ All(i)' = All(i)
    BY <1>1 DEF vars, Values, All
  <2>3. \A r, i : /\ Op(r, i)' = Op(r, i)
                 /\ IsCount(r, i)' = IsCount(r, i)
                 /\ IsVerdict(r, i)' = IsVerdict(r, i)
                 /\ Ends(r, i)' = Ends(r, i)
                 /\ AnyRecords(i)' = AnyRecords(i)
                 /\ NoneFailed(i)' = NoneFailed(i)
    BY <1>1, <2>2 DEF vars, Op, IsCount, IsVerdict, Ends, AnyRecords, NoneFailed
  <2>4. History'
    BY <1>1, <2>2, <2>3 DEF vars, Control, History, Prescribed
  <2>5. Place'
    BY <1>1, <2>2, <2>3 DEF vars, Control, Place, PlaceOf
  <2>6. QED
    BY <2>1, <2>4, <2>5 DEF Control
<1>2. CASE Control /\ Next
  <2>1. TypeOK'
    BY <1>2, NextType DEF Control
  <2>2. QED
    BY <1>2, <2>1, HistoryKept, AgreementKept, PlaceKept DEF Control
<1>3. QED
  BY <1>1, <1>2

(* A rank's records do not change while it merges them. *)
LEMMA NextAnnounced ==
    ASSUME Control, Announced, Next
    PROVE  Announced'
<1> DEFINE A(r) ==
      LET n == Len(entered[r])
      IN  /\ pc[r] \in {"count", "receive", "send", "crashed"} =>
                entered[r][n][2] = amount[r]
          /\ pc[r] = "verdict" => entered[r][n - 1][2] = amount[r]
<1> USE DEF Control
<1>1. Collector \in Ranks
  BY MergeAssumption DEF MergeAssumption
<1>2. ASSUME NEW r \in Ranks, A(r)',
             \A q \in Ranks \ {r} : /\ entered'[q] = entered[q] /\ pc'[q] = pc[q]
                                    /\ amount'[q] = amount[q]
      PROVE  Announced'
  BY <1>2 DEF Announced
<1>3. ASSUME NEW r \in Ranks, Profile(r) \/ ResetCallsites(r)
      PROVE  Announced'
  BY <1>2, <1>3 DEF Profile, ResetCallsites, TypeOK
<1>4. ASSUME NEW r \in Ranks, NEW op \in Operations, NEW v \in Nat,
             NEW at \in {"basics", "stats", "published"}, Enter(r, op, v, at),
             UNCHANGED amount
      PROVE  Announced'
  BY <1>2, <1>4, EnterPlace
<1>5. ASSUME NEW r \in Ranks, LeaveBasics(r)
      PROVE  Announced'
  <2>1. "allreduce" \in Operations /\ amount[r] \in Nat
    BY DEF TypeOK, Operations
  <2>2. Enter(r, "allreduce", amount[r], "count") /\ UNCHANGED amount
    BY <1>5 DEF LeaveBasics
  <2>3. /\ Len(entered'[r]) = Len(entered[r]) + 1
        /\ entered'[r][Len(entered[r]) + 1] = <<"allreduce", amount[r]>>
        /\ pc'[r] = "count"
        /\ \A q \in Ranks \ {r} : entered'[q] = entered[q] /\ pc'[q] = pc[q]
    BY <2>1, <2>2, EnterAppends DEF TypeOK
  <2>4. entered'[r][Len(entered'[r])][2] = amount'[r]
    BY <2>2, <2>3
  <2>5. QED
    BY <1>2, <2>2, <2>3, <2>4
<1>6. ASSUME NEW r \in Ranks, NEW v \in Nat, Enter(r, "allreduce", v, "verdict"),
             pc[r] \in {"count", "receive", "send"}, UNCHANGED amount
      PROVE  Announced'
  <2>1. PICK m \in Nat : m = Len(entered[r])
    BY LenType
  <2>2. m > 0 /\ m \in 1..Len(entered[r])
    BY <1>6, <2>1 DEF Place, PlaceOf, IsCount
  <2>3. /\ Len(entered'[r]) = m + 1 /\ entered'[r][m] = entered[r][m]
        /\ pc'[r] = "verdict"
        /\ \A q \in Ranks \ {r} : entered'[q] = entered[q] /\ pc'[q] = pc[q]
    <3>1. "allreduce" \in Operations
      BY DEF Operations
    <3>2. /\ pc' = [pc EXCEPT ![r] = "verdict"]
          /\ Len(entered'[r]) = Len(entered[r]) + 1
          /\ \A i \in 1..Len(entered[r]) : entered'[r][i] = entered[r][i]
          /\ \A q \in Ranks \ {r} : entered'[q] = entered[q]
      BY <1>6, <3>1, EnterAppends
    <3>3. pc'[r] = "verdict" /\ \A q \in Ranks \ {r} : pc'[q] = pc[q]
      BY <3>2 DEF TypeOK
    <3>4. QED
      BY <2>1, <2>2, <3>2, <3>3
  <2>4. entered[r][m][2] = amount[r]
    BY <1>6, <2>1 DEF Announced
  <2>5. entered'[r][Len(entered'[r]) - 1][2] = amount'[r]
    <3>1. (m + 1) - 1 = m
      OBVIOUS
    <3>2. QED
      BY <1>6, <2>3, <2>4, <3>1
  <2>6. QED
    BY <1>2, <1>6, <2>3, <2>5
<1>7. ASSUME NEW r \in Ranks, NEW at, pc' = [pc EXCEPT ![r] = at],
             at = "idle" \/ (pc[r] = "count" /\ at \in {"receive", "send", "crashed"}),
             UNCHANGED <<entered, amount>>
      PROVE  Announced'
  BY <1>2, <1>7 DEF TypeOK, Announced
<1>8. \A r \in Ranks : retval[r] \in Nat
  <2>1. \A r \in Ranks : retval[r] \in {0, 1}
    BY DEF TypeOK
  <2>2. QED
    BY <2>1
<1>9. ASSUME NEW r \in Ranks, Generate(r) \/ Publish(r)
      PROVE  Announced'
  BY <1>4, <1>9 DEF Generate, Publish, Operations
<1>10. ASSUME NEW r \in Ranks, NothingToMerge(r) \/ LeavePublish(r)
       PROVE  Announced'
  BY <1>7, <1>10 DEF NothingToMerge, LeavePublish
<1>11. ASSUME CollectorAllocates
       PROVE  Announced'
  <2>1. CASE Enter(Collector, "allreduce", 0, "verdict")
    BY <1>1, <1>6, <1>11, <2>1 DEF CollectorAllocates
  <2>2. CASE pc' = [pc EXCEPT ![Collector] = "receive"] /\ UNCHANGED entered
    BY <1>1, <1>7, <1>11, <2>2 DEF CollectorAllocates
  <2>3. QED
    BY <1>11, <2>1, <2>2 DEF CollectorAllocates
<1>12. ASSUME NEW r \in Ranks, SenderAllocates(r)
       PROVE  Announced'
  <2>1. pc' = [pc EXCEPT ![r] = "crashed"] \/ pc' = [pc EXCEPT ![r] = "send"]
    BY <1>12 DEF SenderAllocates
  <2>2. pc[r] = "count" /\ UNCHANGED <<entered, amount>>
    BY <1>12 DEF SenderAllocates
  <2>3. QED
    BY <1>7, <2>1, <2>2
<1>13. ASSUME NEW r \in Senders, Receive(r)
       PROVE  Announced'
  BY <1>13 DEF Announced, Receive
<1>14. ASSUME ReceivedAll
       PROVE  Announced'
  BY <1>1, <1>6, <1>8, <1>14 DEF ReceivedAll
<1>15. ASSUME NEW r \in Ranks, Sent(r)
       PROVE  Announced'
  BY <1>6, <1>8, <1>15 DEF Sent
<1>16. ASSUME NEW r \in Ranks, LeaveVerdict(r)
       PROVE  Announced'
  <2>1. CASE AllWell(r)
    BY <1>4, <1>16, <2>1 DEF LeaveVerdict, Operations
  <2>2. CASE ~AllWell(r)
    BY <1>7, <1>16, <2>2 DEF LeaveVerdict
  <2>3. QED
    BY <2>1, <2>2
<1>17. QED
  BY <1>3, <1>5, <1>9, <1>10, <1>11, <1>12, <1>13, <1>14, <1>15, <1>16
  DEF Next, Proceed

-----------------------------------------------------------------------------
(* Where the senders of a report are while the collector merges.           *)
LEMMA RankFacts ==
    /\ Collector \in Ranks /\ Senders \subseteq Ranks /\ Collector \notin Senders
    /\ Ranks = Senders \cup {Collector}
    /\ IsFiniteSet(Ranks) /\ IsFiniteSet(Senders) /\ IsFiniteSet(Pending)
BY MergeAssumption, FS_Subset DEF MergeAssumption, Senders, Pending

(* If a sender holds back in the collector's report, the collector merges. *)
LEMMA HeldReportMerges ==
    ASSUME Control, NEW q \in Senders, HoldsBack(q), Len(entered[q]) = Position
    PROVE  Merges
<1> USE DEF Control
<1>1. PICK n \in Nat : n = Position
  BY RankFacts, LenType DEF Position
<1>2. IsCount(q, n) /\ All(n) /\ AnyRecords(n)
  <2>1. pc[q] \in {"count", "crashed"} /\ q \in Ranks
    BY RankFacts DEF HoldsBack
  <2>2. QED
    BY <1>1, <2>1 DEF HoldsBack, Place, PlaceOf
<1>3. \A i \in {n, n - 1} : Op(q, i) = Op(Collector, i)
  <2>1. n > 1
    BY <1>2 DEF IsCount
  <2>2. \A i \in {n, n - 1} : i \in DOMAIN entered[q] \cap DOMAIN entered[Collector]
    <3>1. /\ DOMAIN entered[q] = 1..Len(entered[q])
          /\ DOMAIN entered[Collector] = 1..Len(entered[Collector])
      BY RankFacts, OperationsEntered
    <3>2. Len(entered[q]) = n /\ Len(entered[Collector]) = n
      BY <1>1 DEF Position
    <3>3. QED
      BY <2>1, <3>1, <3>2
  <2>3. QED
    BY <2>2, RankFacts DEF CollectivesAgree, Op
<1>4. IsCount(Collector, n)
  BY <1>2, <1>3 DEF IsCount
<1>5. PlaceOf(Collector) /\ n = Len(entered[Collector])
  BY <1>1, RankFacts DEF Place, Position
<1>6. pc[Collector] \in {"idle", "basics", "count", "receive", "send", "verdict",
                         "stats", "published", "crashed"}
  BY RankFacts DEF TypeOK
<1>7. Collector \notin Senders
  BY RankFacts
<1>8. QED
  BY <1>2, <1>4, <1>5, <1>6, <1>7 DEF PlaceOf, IsCount, IsVerdict, Ends, Merges

(* A sender that has sent knows that there are records, as do all, and has *)
(* sent what it announced.                                                 *)
LEMMA SentMeans ==
    ASSUME Control, Announced, NEW q \in Senders, HasSent(q)
    PROVE  /\ Position \in Nat /\ Position > 0
           /\ All(Position) /\ AnyRecords(Position)
           /\ Values(Position)[q] = amount[q]
<1> USE DEF Control
<1>0. q \in Ranks /\ Collector \in Ranks
  BY RankFacts
<1>1. PICK n \in Nat : n = Position
  BY <1>0, LenType DEF Position
<1>2. CASE pc[q] = "send" /\ Len(entered[q]) = Position
  BY <1>0, <1>1, <1>2 DEF Place, PlaceOf, IsCount, Announced, Values
<1>3. CASE pc[q] = "verdict" /\ Len(entered[q]) = Position + 1
  <2>1. IsVerdict(q, n + 1)
    BY <1>0, <1>1, <1>3 DEF Place, PlaceOf
  <2>2. n > 0 /\ Op(q, n + 1) = "allreduce" /\ Op(q, n) = "allreduce"
    <3>1. (n + 1) - 1 = n
      OBVIOUS
    <3>2. QED
      BY <2>1, <3>1 DEF IsVerdict
  <2>3. n \in 1..(Len(entered[q]) - 1)
    BY <1>1, <1>3, <2>2
  <2>4. Prescribed(q, n, "allreduce")
    BY <1>0, <2>2, <2>3 DEF History
  <2>5. All(n) /\ AnyRecords(n)
    BY <2>2, <2>4 DEF Prescribed
  <2>6. Values(n)[q] = amount[q]
    <3>1. entered[q][Len(entered[q]) - 1][2] = amount[q]
      BY <1>0, <1>3 DEF Announced
    <3>2. Len(entered[q]) - 1 = n
      BY <1>1, <1>3
    <3>3. QED
      BY <1>0, <3>1, <3>2 DEF Values
  <2>7. QED
    BY <1>1, <2>2, <2>5, <2>6
<1>4. QED
  BY <1>2, <1>3 DEF HasSent

(* While the collector merges records, every sender holds its own back or  *)
(* has sent them.                                                          *)
LEMMA SendersWhere ==
    ASSUME Control, Merges, All(Position), AnyRecords(Position), NEW q \in Senders
    PROVE  \/ HoldsBack(q) /\ Len(entered[q]) = Position
           \/ HasSent(q)
<1> USE DEF Control
<1>0. q \in Ranks /\ Collector \in Ranks /\ q # Collector
  BY RankFacts
<1>1. PICK n \in Nat : n = Position
  BY <1>0, LenType DEF Position
<1>2. IsCount(Collector, n)
  BY <1>0, <1>1 DEF Place, PlaceOf, Merges, Position
<1>3. PICK l \in Nat : l = Len(entered[q])
  BY <1>0, LenType
<1>4. l >= n /\ n > 1
  BY <1>0, <1>1, <1>2, <1>3 DEF All, IsCount
<1>5. IsCount(q, n)
  <2>1. \A i \in {n, n - 1} : i \in DOMAIN entered[q] \cap DOMAIN entered[Collector]
    <3>1. /\ DOMAIN entered[q] = 1..Len(entered[q])
          /\ DOMAIN entered[Collector] = 1..Len(entered[Collector])
      BY <1>0, OperationsEntered
    <3>2. Len(entered[q]) = l /\ Len(entered[Collector]) = n
      BY <1>1, <1>3 DEF Position
    <3>3. QED
      BY <1>4, <3>1, <3>2
  <2>2. \A i \in {n, n - 1} : Op(q, i) = Op(Collector, i)
    BY <1>0, <2>1 DEF CollectivesAgree, Op
  <2>3. QED
    BY <1>2, <2>2 DEF IsCount
<1>6. pc[q] \in {"idle", "basics", "count", "receive", "send", "verdict", "stats",
                 "published", "crashed"}
  BY <1>0 DEF TypeOK
<1>7. PlaceOf(q)
  BY <1>0 DEF Place
<1>8. CASE l = n
  <2>1. pc[q] \in {"count", "send", "crashed"}
    BY <1>0, <1>1, <1>3, <1>5, <1>6, <1>7, <1>8
    DEF PlaceOf, IsCount, IsVerdict, Ends
  <2>2. QED
    BY <1>1, <1>3, <1>8, <2>1 DEF HoldsBack, HasSent
<1>9. CASE l > n
  <2>1. Op(q, n + 1) = "allreduce"
    <3>1. n \in 1..(Len(entered[q]) - 1)
      BY <1>3, <1>4, <1>9
    <3>2. Prescribed(q, n, Op(q, n + 1))
      BY <1>0, <3>1 DEF History
    <3>3. QED
      BY <1>1, <1>5, <3>2 DEF Prescribed, Ends, IsCount, IsVerdict
  <2>2. ~All(n + 1)
    BY <1>0, <1>1 DEF All, Position
  <2>3. IsVerdict(q, n + 1)
    <3>1. (n + 1) - 1 = n
      OBVIOUS
    <3>2. QED
      BY <1>4, <1>5, <2>1, <3>1 DEF IsVerdict, IsCount
  <2>4. l = n + 1
    <3>1. SUFFICES ASSUME l > n + 1
                   PROVE  FALSE
      BY <1>9
    <3>2. n + 1 \in 1..(Len(entered[q]) - 1)
      BY <1>3, <1>4, <3>1
    <3>3. Prescribed(q, n + 1, Op(q, (n + 1) + 1))
      BY <1>0, <3>2 DEF History
    <3>4. QED
      BY <2>1, <2>2, <3>3 DEF Prescribed, Ends
  <2>5. pc[q] = "verdict"
    BY <1>3, <1>6, <1>7, <2>1, <2>2, <2>3, <2>4
    DEF PlaceOf, IsCount, IsVerdict, Ends
  <2>6. QED
    BY <1>1, <1>3, <2>4, <2>5 DEF HasSent
<1>10. QED
  BY <1>4, <1>8, <1>9

-----------------------------------------------------------------------------
(* A rank moves by actions of its own only. *)
Stays(q) ==
    /\ entered'[q] = entered[q]
    /\ pc'[q] = pc[q]
    /\ total'[q] = total[q]

Moves(q) ==
    \/ Generate(q) \/ LeaveBasics(q) \/ NothingToMerge(q)
    \/ q = Collector /\ CollectorAllocates
    \/ SenderAllocates(q)
    \/ q = Collector /\ ReceivedAll
    \/ Sent(q) \/ LeaveVerdict(q) \/ Publish(q) \/ LeavePublish(q)

LEMMA RankMoves ==
    ASSUME TypeOK, Next, NEW q \in Ranks
    PROVE  Stays(q) \/ Moves(q)
<1>0. Collector \in Ranks
  BY RankFacts
<1>1. ASSUME NEW r \in Ranks, NEW at, pc' = [pc EXCEPT ![r] = at], r # q,
             \/ UNCHANGED entered
             \/ \E x : entered' = [entered EXCEPT ![r] = x],
             \/ UNCHANGED total
             \/ \E x : total' = [total EXCEPT ![r] = x]
      PROVE  Stays(q)
  BY <1>1 DEF Stays, TypeOK
<1>2. ASSUME NEW r \in Ranks, NEW op, NEW v, NEW at, Enter(r, op, v, at), r # q,
             \/ UNCHANGED total
             \/ \E x : total' = [total EXCEPT ![r] = x]
      PROVE  Stays(q)
  BY <1>1, <1>2 DEF Enter
<1>3. ASSUME UNCHANGED <<pc, entered, total>>
      PROVE  Stays(q)
  BY <1>3 DEF Stays
<1>4. ASSUME NEW r \in Ranks, Profile(r) \/ ResetCallsites(r)
      PROVE  Stays(q)
  BY <1>3, <1>4 DEF Profile, ResetCallsites
<1>5. ASSUME NEW r \in Ranks, r # q,
             \/ Generate(r) \/ LeaveBasics(r) \/ Sent(r) \/ Publish(r)
      PROVE  Stays(q)
  BY <1>2, <1>5 DEF Generate, LeaveBasics, Sent, Publish
<1>6. ASSUME NEW r \in Ranks, r # q, LeaveVerdict(r)
      PROVE  Stays(q)
  <2>1. CASE AllWell(r)
    BY <1>2, <1>6, <2>1 DEF LeaveVerdict
  <2>2. CASE ~AllWell(r)
    BY <1>1, <1>6, <2>2 DEF LeaveVerdict
  <2>3. QED
    BY <2>1, <2>2
<1>7. ASSUME NEW r \in Ranks, r # q, LeavePublish(r) \/ NothingToMerge(r)
      PROVE  Stays(q)
  BY <1>1, <1>7 DEF LeavePublish, NothingToMerge
<1>8. ASSUME NEW r \in Ranks, r # q, SenderAllocates(r)
      PROVE  Stays(q)
  <2>1. pc' = [pc EXCEPT ![r] = "crashed"] \/ pc' = [pc EXCEPT ![r] = "send"]
    BY <1>8 DEF SenderAllocates
  <2>2. QED
    BY <1>1, <1>8, <2>1 DEF SenderAllocates
<1>9. ASSUME Collector # q, CollectorAllocates
      PROVE  Stays(q)
  <2>1. CASE pc' = [pc EXCEPT ![Collector] = "receive"] /\ UNCHANGED entered
    BY <1>0, <1>1, <1>9, <2>1 DEF CollectorAllocates
  <2>2. CASE Enter(Collector, "allreduce", 0, "verdict")
    BY <1>0, <1>2, <1>9, <2>2 DEF CollectorAllocates
  <2>3. QED
    BY <1>9, <2>1, <2>2 DEF CollectorAllocates
<1>10. ASSUME Collector # q, ReceivedAll
       PROVE  Stays(q)
  BY <1>0, <1>2, <1>10 DEF ReceivedAll
<1>11. ASSUME NEW r \in Senders, Receive(r)
       PROVE  Stays(q)
  BY <1>3, <1>11 DEF Receive
<1>12. QED
  BY <1>4, <1>5, <1>6, <1>7, <1>8, <1>9, <1>10, <1>11 DEF Next, Proceed, Moves

(* So a sender holds back from when it enters the Allreduce of the counts, *)
LEMMA HolderMoves ==
    ASSUME TypeOK, Next, NEW q \in Senders, pc'[q] \in {"count", "crashed"}
    PROVE  pc[q] \in {"count", "crashed"} \/ LeaveBasics(q)
<1>1. q \in Ranks /\ q # Collector /\ pc[q] \in Places /\ pc \in [Ranks -> Places]
  BY RankFacts DEF TypeOK, Places
<1>2. CASE Stays(q)
  BY <1>2 DEF Stays
<1>3. CASE Moves(q)
  <2>1. CASE LeaveBasics(q)
    BY <2>1
  <2>2. CASE SenderAllocates(q)
    BY <2>2 DEF SenderAllocates
  <2>3. CASE Generate(q) \/ Sent(q) \/ Publish(q)
    BY <1>1, <2>3 DEF Generate, Sent, Publish, Enter
  <2>4. CASE NothingToMerge(q) \/ LeavePublish(q)
    BY <1>1, <2>4 DEF NothingToMerge, LeavePublish
  <2>5. CASE LeaveVerdict(q)
    BY <1>1, <2>5 DEF LeaveVerdict, Enter
  <2>6. QED
    BY <1>1, <1>3, <2>1, <2>2, <2>3, <2>4, <2>5 DEF Moves
<1>4. QED
  BY <1>1, <1>2, <1>3, RankMoves

(* and while it merges, the collector allocates, goes on when nothing is   *)
(* missing, or finds that there is nothing.                                *)
LEMMA CollectorMoves ==
    ASSUME TypeOK, Next, Merges
    PROVE  \/ Stays(Collector)
           \/ CollectorAllocates
           \/ ReceivedAll
           \/ NothingToMerge(Collector)
<1>1. Stays(Collector) \/ Moves(Collector)
  BY RankFacts, RankMoves
<1>2. QED
  BY <1>1, RankFacts DEF Moves, Merges, Generate, LeaveBasics, SenderAllocates, Sent,
                         LeaveVerdict, Publish, LeavePublish

-----------------------------------------------------------------------------
(* The steps of a report that go well for the collector, from a state that *)
(* satisfies the invariant.                                                *)
GoodStep ==
    /\ Control /\ Control'
    /\ Announced /\ Announced'
    /\ channel[Collector] = <<>>
    /\ Merging
    /\ Next
    /\ Collector \notin failed'

(* An expected message keeps the collector in its loop.                    *)
LEMMA ExpectedNotComplete ==
    ASSUME GoodStep, ReceivedAll
    PROVE  Pending = {}
<1>1. missing = 0 /\ missing = Cardinality(Pending)
  BY DEF GoodStep, Merging, Receiving, ReceivedAll
<1>2. QED
  BY <1>1, RankFacts, FS_EmptySet

(* A sender that holds back after a step did so before it, if all ranks    *)
(* had entered the Allreduce of the counts by then.                        *)
LEMMA HolderBefore ==
    ASSUME GoodStep, NEW q \in Senders, HoldsBack(q)', All(Len(entered'[q]))
    PROVE  HoldsBack(q) /\ entered'[q] = entered[q]
<1> USE DEF GoodStep, Control
<1>0. q \in Ranks
  BY RankFacts
<1>1. PICK n \in Nat : n = Len(entered'[q])
  BY <1>0, LenType DEF TypeOK
<1>2. n > 1
  BY <1>0, <1>1 DEF HoldsBack, Place, PlaceOf, IsCount
<1>3. entered'[q] = entered[q]
  <2>1. CASE UNCHANGED entered
    BY <2>1
  <2>2. ASSUME NEW r \in Ranks, NEW op \in Operations, NEW v \in Nat, NEW at \in Places,
               Enter(r, op, v, at)
        PROVE  entered'[q] = entered[q]
    <3>1. Len(entered'[r]) = Len(entered[r]) + 1
      BY <2>2, EnterAppends
    <3>2. Len(entered[q]) >= n /\ Len(entered[q]) \in Nat
      BY <1>0, <1>1, LenType DEF All
    <3>3. r # q
      BY <1>1, <3>1, <3>2
    <3>4. QED
      BY <1>0, <2>2, <3>3, EnterAppends
  <2>3. QED
    BY <2>1, <2>2, NextEnters
<1>4. pc[q] \in {"count", "crashed"}
  <2>1. CASE LeaveBasics(q)
    <3>1. Enter(q, "allreduce", amount[q], "count") /\ amount[q] \in Nat
      BY <1>0, <2>1 DEF LeaveBasics, TypeOK
    <3>2. Len(entered'[q]) = Len(entered[q]) + 1
      BY <1>0, <3>1, EnterAppends DEF Operations
    <3>3. QED
      BY <1>0, <1>3, <3>2, LenType
  <2>2. QED
    BY <2>1, HolderMoves DEF HoldsBack
<1>5. AnyRecords(n)' = AnyRecords(n)
  BY <1>1, <1>2, AllKept, NextGrows
<1>6. AnyRecords(n)'
  BY <1>1 DEF HoldsBack
<1>7. QED
  BY <1>1, <1>3, <1>4, <1>5, <1>6 DEF HoldsBack

(* The collector does not leave a report with a sender that holds back.    *)
LEMMA HoldingKept ==
    ASSUME GoodStep
    PROVE  Holding'
<1> USE DEF GoodStep, Control
<1>1. SUFFICES ASSUME NEW q \in Senders, HoldsBack(q)', Len(entered'[q]) # Position'
               PROVE  FALSE
  BY DEF Holding
<1>0. q \in Ranks /\ Collector \in Ranks /\ q # Collector
  BY RankFacts
<1>2. PICK n \in Nat : n = Len(entered'[q])
  BY <1>0, LenType DEF TypeOK
<1>3. PICK k \in Nat : k = Len(entered'[Collector])
  BY <1>0, LenType DEF TypeOK
<1>4. k > n
  BY <1>0, <1>1, <1>2, <1>3 DEF HoldsBack, All, Position
<1>5. n > 1
  BY <1>0, <1>1, <1>2 DEF HoldsBack, Place, PlaceOf, IsCount
<1>6. CASE entered'[Collector] = entered[Collector]
  <2>1. All(n)
    BY <1>0, <1>3, <1>4, <1>5, <1>6 DEF History
  <2>2. HoldsBack(q) /\ entered'[q] = entered[q]
    BY <1>1, <1>2, <2>1, HolderBefore
  <2>3. Len(entered[q]) = Position
    BY <2>2 DEF Merging, Holding
  <2>4. QED
    BY <1>2, <1>3, <1>4, <1>6, <2>2, <2>3 DEF Position
<1>7. CASE entered'[Collector] # entered[Collector]
  <2>1. Len(entered[Collector]) = k - 1
    <3>1. ASSUME NEW r \in Ranks, NEW op \in Operations, NEW v \in Nat, NEW at \in Places,
                 Enter(r, op, v, at)
          PROVE  Len(entered'[Collector]) = Len(entered[Collector]) + 1
      <4>1. r = Collector
        BY <1>0, <1>7, <3>1, EnterAppends
      <4>2. QED
        BY <3>1, <4>1, EnterAppends
    <3>2. Len(entered'[Collector]) = Len(entered[Collector]) + 1
      BY <1>7, <3>1, NextEnters
    <3>3. QED
      BY <1>0, <1>3, <3>2, LenType
  <2>2. All(n)
    <3>1. CASE n < k - 1
      BY <1>0, <1>3, <1>4, <1>5, <2>1, <3>1 DEF History
    <3>2. CASE n = k - 1
      <4>1. n \in 1..(Len(entered'[Collector]) - 1)
        BY <1>3, <1>5, <3>2
      <4>2. All(n)'
        BY <4>1 DEF History
      <4>3. ASSUME NEW p \in Ranks
            PROVE  Len(entered[p]) >= n
        <5>1. CASE p = Collector
          BY <2>1, <3>2, <5>1
        <5>2. CASE p # Collector
          <6>1. ASSUME NEW r \in Ranks, NEW op \in Operations, NEW v \in Nat,
                       NEW at \in Places, Enter(r, op, v, at)
                PROVE  entered'[p] = entered[p]
            <7>1. r = Collector
              BY <1>0, <1>7, <6>1, EnterAppends
            <7>2. QED
              BY <5>2, <6>1, <7>1, EnterAppends
          <6>2. entered'[p] = entered[p]
            BY <1>7, <6>1, NextEnters
          <6>3. QED
            BY <4>2, <6>2 DEF All
        <5>3. QED
          BY <5>1, <5>2
      <4>4. QED
        BY <4>3 DEF All
    <3>3. QED
      BY <1>3, <1>4, <3>1, <3>2
  <2>3. HoldsBack(q) /\ entered'[q] = entered[q]
    BY <1>1, <1>2, <2>2, HolderBefore
  <2>4. Len(entered[q]) = Position
    BY <2>3 DEF Merging, Holding
  <2>5. Merges
    BY <2>3, <2>4, HeldReportMerges
  <2>6. n = Position
    BY <1>2, <2>3, <2>4
  <2>7. ~NothingToMerge(Collector)
    BY <1>7 DEF NothingToMerge
  <2>8. ~Stays(Collector)
    BY <1>7 DEF Stays
  <2>9. ~CollectorAllocates
    <3>1. Collector \notin failed' /\ entered'[Collector] # entered[Collector]
      BY <1>7
    <3>2. QED
      BY <3>1 DEF CollectorAllocates
  <2>10. ReceivedAll
    BY <2>5, <2>7, <2>8, <2>9, CollectorMoves
  <2>11. Pending = {}
    BY <2>10, ExpectedNotComplete
  <2>12. QED
    BY <2>3, <2>11 DEF Pending
<1>8. QED
  BY <1>6, <1>7

(* What is under way changes when a sender sends and when the collector    *)
(* receives.                                                               *)
LEMMA ChannelMoves ==
    ASSUME TypeOK, Next, NEW q \in Ranks
    PROVE  \/ channel'[q] = channel[q]
           \/ SenderAllocates(q)
           \/ q \in Senders /\ Receive(q)
<1>1. ASSUME NEW r \in Ranks, SenderAllocates(r), r # q
      PROVE  channel'[q] = channel[q]
  BY <1>1 DEF SenderAllocates, TypeOK
<1>2. ASSUME NEW r \in Senders, Receive(r), r # q
      PROVE  channel'[q] = channel[q]
  BY <1>2 DEF Receive, TypeOK
<1>3. ASSUME NEW r \in Ranks,
             \/ Profile(r) \/ ResetCallsites(r) \/ Generate(r) \/ LeaveBasics(r)
             \/ NothingToMerge(r) \/ CollectorAllocates \/ ReceivedAll \/ Sent(r)
             \/ LeaveVerdict(r) \/ Publish(r) \/ LeavePublish(r)
      PROVE  channel'[q] = channel[q]
  BY <1>3 DEF Profile, ResetCallsites, Generate, LeaveBasics, NothingToMerge,
              CollectorAllocates, ReceivedAll, Sent, LeaveVerdict, Publish, LeavePublish
<1>4. QED
  BY <1>1, <1>2, <1>3 DEF Next, Proceed

LEMMA AmountMoves ==
    ASSUME TypeOK, Next, NEW q \in Ranks, pc[q] # "idle"
    PROVE  amount'[q] = amount[q]
<1>1. ASSUME NEW r \in Ranks, Profile(r) \/ ResetCallsites(r)
      PROVE  amount'[q] = amount[q]
  BY <1>1 DEF Profile, ResetCallsites, TypeOK
<1>2. ASSUME NEW r \in Ranks,
             \/ Generate(r) \/ LeaveBasics(r) \/ NothingToMerge(r) \/ SenderAllocates(r)
             \/ CollectorAllocates \/ ReceivedAll \/ Sent(r)
             \/ LeaveVerdict(r) \/ Publish(r) \/ LeavePublish(r)
             \/ (\E p \in Senders : Receive(p))
      PROVE  amount'[q] = amount[q]
  BY <1>2 DEF Generate, LeaveBasics, NothingToMerge, SenderAllocates, Receive,
              CollectorAllocates, ReceivedAll, Sent, LeaveVerdict, Publish, LeavePublish
<1>3. QED
  BY <1>1, <1>2 DEF Next, Proceed

(* As long as a message is under way, collector and sender stay in the     *)
(* report that it belongs to.                                              *)
LEMMA SentStays ==
    ASSUME GoodStep, NEW q \in Senders, channel[q] # <<>>
    PROVE  Merges' /\ HasSent(q)' /\ Position' = Position
<1> USE DEF GoodStep, Control
<1>0. q \in Ranks /\ Collector \in Ranks /\ q # Collector
  BY RankFacts
<1>1. Merges /\ HasSent(q)
  BY DEF Merging, Messages
<1>2. Position \in Nat /\ All(Position) /\ AnyRecords(Position)
  BY <1>1, SentMeans
<1>3. Merges' /\ Position' = Position
  <2>1. CASE Stays(Collector)
    BY <1>1, <2>1 DEF Stays, Merges, Position
  <2>2. CASE CollectorAllocates
    <3>1. pc' = [pc EXCEPT ![Collector] = "receive"] /\ UNCHANGED entered
      BY <2>2 DEF CollectorAllocates
    <3>2. QED
      BY <1>0, <3>1 DEF Merges, Position, TypeOK
  <2>3. CASE ReceivedAll
    BY <2>3, ExpectedNotComplete DEF Pending
  <2>4. CASE NothingToMerge(Collector)
    BY <1>2, <2>4 DEF NothingToMerge, NoRecords, AnyRecords, Contribution, Values, Position
  <2>5. QED
    BY <1>1, <2>1, <2>2, <2>3, <2>4, CollectorMoves
<1>4. HasSent(q)'
  <2>1. CASE Stays(q)
    BY <1>1, <1>3, <2>1 DEF HasSent, Stays
  <2>2. CASE Sent(q)
    <3>1. retval[q] \in Nat
      <4>1. retval[q] \in {0, 1}
        BY <1>0 DEF TypeOK
      <4>2. QED
        BY <4>1
    <3>2. Enter(q, "allreduce", retval[q], "verdict") /\ pc[q] = "send"
      BY <2>2 DEF Sent
    <3>3. pc'[q] = "verdict" /\ Len(entered'[q]) = Len(entered[q]) + 1
      <4>1. "allreduce" \in Operations
        BY DEF Operations
      <4>2. QED
        BY <1>0, <3>1, <3>2, <4>1, EnterPlace
    <3>4. QED
      BY <1>1, <1>3, <3>2, <3>3 DEF HasSent
  <2>3. CASE LeaveVerdict(q)
    <3>1. pc[q] = "verdict" /\ Position >= Len(entered[q])
      BY <1>0, <2>3 DEF LeaveVerdict, AllEntered, Position
    <3>2. QED
      BY <1>1, <1>2, <3>1 DEF HasSent
  <2>4. QED
    BY <1>0, <1>1, <2>1, <2>2, <2>3, RankMoves
    DEF Moves, HasSent, Generate, LeaveBasics, NothingToMerge, SenderAllocates,
        Publish, LeavePublish
<1>5. QED
  BY <1>3, <1>4

(* Every message under way is of the report that the collector merges.     *)
LEMMA MessagesKept ==
    ASSUME GoodStep
    PROVE  Messages'
<1> USE DEF GoodStep, Control
<1>1. SUFFICES ASSUME NEW q \in Senders, channel'[q] # <<>>
               PROVE  channel'[q] = <<amount'[q]>> /\ Merges' /\ HasSent(q)'
  BY DEF Messages
<1>0. q \in Ranks /\ Collector \in Ranks /\ q # Collector
  BY RankFacts
<1>2. CASE channel[q] = <<>>
  <2>1. SenderAllocates(q)
    BY <1>0, <1>1, <1>2, ChannelMoves DEF Receive
  <2>2. /\ pc[q] = "count" /\ pc'[q] = "send"
        /\ channel'[q] = Append(<<>>, amount[q])
        /\ UNCHANGED <<amount, entered>>
    <3>1. pc[q] = "count" /\ UNCHANGED <<amount, entered>>
      BY <2>1 DEF SenderAllocates
    <3>2. \/ UNCHANGED channel
          \/ /\ pc' = [pc EXCEPT ![q] = "send"]
             /\ channel' = [channel EXCEPT ![q] = Append(@, amount[q])]
      BY <2>1 DEF SenderAllocates
    <3>3. pc' = [pc EXCEPT ![q] = "send"] /\ channel' = [channel EXCEPT ![q] = Append(@, amount[q])]
      BY <1>1, <1>2, <3>2
    <3>4. pc'[q] = "send" /\ channel'[q] = Append(channel[q], amount[q])
      BY <1>0, <3>3 DEF TypeOK
    <3>5. QED
      BY <1>2, <3>1, <3>4
  <2>3. Append(<<>>, amount[q]) = <<amount[q]>>
    BY <1>0 DEF TypeOK
  <2>4. HoldsBack(q)
    BY <2>1, <2>2 DEF HoldsBack, SenderAllocates, AllEntered, All, NoRecords,
                      AnyRecords, Contribution, Values
  <2>5. Len(entered[q]) = Position
    BY <2>4 DEF Merging, Holding
  <2>6. Merges
    BY <2>4, <2>5, HeldReportMerges
  <2>7. pc'[Collector] = pc[Collector]
    <3>1. \E at : pc' = [pc EXCEPT ![q] = at]
      BY <2>1 DEF SenderAllocates
    <3>2. QED
      BY <1>0, <3>1 DEF TypeOK
  <2>8. QED
    BY <2>2, <2>3, <2>5, <2>6, <2>7 DEF Merges, HasSent, Position
<1>3. CASE channel[q] # <<>>
  <2>1. channel[q] = <<amount[q]>> /\ HasSent(q)
    BY <1>3 DEF Merging, Messages
  <2>2. amount'[q] = amount[q]
    BY <1>0, <2>1, AmountMoves DEF HasSent
  <2>3. channel'[q] = channel[q]
    <3>1. ~SenderAllocates(q)
      BY <2>1 DEF HasSent, SenderAllocates
    <3>2. ASSUME Receive(q)
          PROVE  FALSE
      <4>1. channel'[q] = Tail(<<amount[q]>>)
        BY <1>0, <2>1, <3>2 DEF Receive, TypeOK
      <4>2. QED
        BY <1>1, <4>1
    <3>3. QED
      BY <1>0, <3>1, <3>2, ChannelMoves
  <2>4. QED
    BY <1>3, <2>1, <2>2, <2>3, SentStays
<1>4. QED
  BY <1>2, <1>3

(* Nothing is received before the collector is in its loop.                *)
LEMMA UndeliveredKept ==
    ASSUME GoodStep
    PROVE  Undelivered'
<1> USE DEF GoodStep, Control
<1>1. SUFFICES ASSUME pc'[Collector] = "count", NEW q \in Senders, HasSent(q)',
                      channel'[q] = <<>>
               PROVE  FALSE
  BY DEF Undelivered
<1>0. q \in Ranks /\ Collector \in Ranks /\ q # Collector
  BY RankFacts
<1>2. CASE pc[Collector] = "count"
  <2>1. Stays(Collector)
    <3>1. ~CollectorAllocates
      BY <1>0, <1>1 DEF CollectorAllocates, Enter, TypeOK
    <3>2. ~ReceivedAll
      BY <1>2 DEF ReceivedAll
    <3>3. ~NothingToMerge(Collector)
      BY <1>0, <1>1 DEF NothingToMerge, TypeOK
    <3>4. QED
      BY <1>2, <3>1, <3>2, <3>3, CollectorMoves DEF Merges
  <2>2. CASE SenderAllocates(q)
    <3>1. /\ channel'[q] = Append(channel[q], amount[q])
          /\ channel[q] \in Seq(0..MaxAmount) /\ amount[q] \in 0..MaxAmount
      <4>1. pc'[q] # "crashed"
        BY <1>1 DEF HasSent
      <4>2. channel' = [channel EXCEPT ![q] = Append(@, amount[q])]
        <5>1. pc' # [pc EXCEPT ![q] = "crashed"]
          BY <1>0, <4>1 DEF TypeOK
        <5>2. QED
          BY <2>2, <5>1 DEF SenderAllocates
      <4>3. QED
        BY <1>0, <4>2 DEF TypeOK
    <3>2. Append(channel[q], amount[q]) # <<>>
      BY <3>1
    <3>3. QED
      BY <1>1, <3>1, <3>2
  <2>3. CASE ~SenderAllocates(q)
    <3>1. channel[q] = <<>>
      BY <1>0, <1>1, <1>2, <2>3, ChannelMoves DEF Receive
    <3>2. ~HasSent(q)
      BY <1>2, <3>1 DEF Merging, Undelivered
    <3>3. Position' = Position
      BY <2>1 DEF Stays, Position
    <3>4. ~Stays(q)
      BY <1>1, <3>2, <3>3 DEF Stays, HasSent
    <3>5. pc'[q] \in {"send", "verdict"}
      BY <1>1 DEF HasSent
    <3>6. Sent(q)
      <4>1. pc \in [Ranks -> Places]
        BY DEF TypeOK, Places
      <4>2. ~Generate(q) /\ ~LeaveBasics(q) /\ ~Publish(q)
        BY <1>0, <3>5, <4>1 DEF Generate, LeaveBasics, Publish, Enter
      <4>3. ~NothingToMerge(q) /\ ~LeavePublish(q)
        BY <1>0, <3>5, <4>1 DEF NothingToMerge, LeavePublish
      <4>4. ~LeaveVerdict(q)
        BY <1>0, <3>5, <4>1 DEF LeaveVerdict, Enter
      <4>5. QED
        BY <1>0, <2>3, <3>4, <4>2, <4>3, <4>4, RankMoves DEF Moves
    <3>7. pc[q] = "send" /\ Enter(q, "allreduce", retval[q], "verdict")
      BY <3>6 DEF Sent
    <3>8. Len(entered[q]) + 1 = Len(entered'[q]) /\ pc'[q] = "verdict"
      <4>1. retval[q] \in Nat
        <5>1. retval[q] \in {0, 1}
          BY <1>0 DEF TypeOK
        <5>2. QED
          BY <5>1
      <4>2. "allreduce" \in Operations
        BY DEF Operations
      <4>3. QED
        BY <1>0, <3>7, <4>1, <4>2, EnterPlace
    <3>9. Len(entered[q]) = Position
      BY <1>0, <1>1, <3>3, <3>8, LenType DEF HasSent, Position
    <3>10. QED
      BY <3>2, <3>7, <3>9 DEF HasSent
  <2>4. QED
    BY <2>2, <2>3
<1>3. CASE pc[Collector] # "count"
  <2>1. LeaveBasics(Collector)
    <3>1. pc \in [Ranks -> Places]
      BY DEF TypeOK, Places
    <3>2. ~Stays(Collector)
      BY <1>1, <1>3 DEF Stays
    <3>3. ~CollectorAllocates /\ ~NothingToMerge(Collector)
      BY <1>3 DEF CollectorAllocates, NothingToMerge
    <3>4. ~SenderAllocates(Collector)
      BY RankFacts DEF SenderAllocates
    <3>5. ~Generate(Collector) /\ ~ReceivedAll /\ ~Sent(Collector) /\ ~Publish(Collector)
      BY <1>0, <1>1, <3>1 DEF Generate, ReceivedAll, Sent, Publish, Enter
    <3>6. ~LeavePublish(Collector) /\ ~LeaveVerdict(Collector)
      BY <1>0, <1>1, <3>1 DEF LeavePublish, LeaveVerdict, Enter
    <3>7. QED
      BY <1>0, <3>2, <3>3, <3>4, <3>5, <3>6, RankMoves DEF Moves
  <2>2. Enter(Collector, "allreduce", amount[Collector], "count") /\ amount[Collector] \in Nat
    BY <1>0, <2>1 DEF LeaveBasics, TypeOK
  <2>3. entered'[q] = entered[q] /\ Position' = Position + 1
    BY <1>0, <2>2, EnterAppends DEF Operations, Position
  <2>5. PICK k \in Nat : k = Position'
    BY <1>0 DEF TypeOK, Position
  <2>6. pc'[q] = pc[q]
    BY <1>0, <2>2, EnterPlace DEF Operations
  <2>7. ~All(k)
    BY <1>0, <2>3, <2>5, LenType DEF All, Position
  <2>8. CASE pc'[q] = "send" /\ Len(entered'[q]) = k
    BY <1>0, <2>3, <2>5, <2>6, <2>7, <2>8 DEF Place, PlaceOf
  <2>9. CASE pc'[q] = "verdict" /\ Len(entered'[q]) = k + 1
    <3>1. IsVerdict(q, k + 1)
      BY <1>0, <2>3, <2>6, <2>9 DEF Place, PlaceOf
    <3>2. k > 0 /\ Op(q, k) = "allreduce" /\ Op(q, k + 1) = "allreduce"
      <4>1. (k + 1) - 1 = k
        OBVIOUS
      <4>2. QED
        BY <3>1, <4>1 DEF IsVerdict
    <3>3. k \in 1..(Len(entered[q]) - 1)
      BY <2>3, <2>9, <3>2
    <3>4. Prescribed(q, k, Op(q, k + 1))
      BY <1>0, <3>3 DEF History
    <3>5. QED
      BY <2>7, <3>2, <3>4 DEF Prescribed
  <2>10. QED
    BY <1>1, <2>5, <2>8, <2>9 DEF HasSent
<1>4. QED
  BY <1>2, <1>3

(* Who is still expected does not change while the senders go on, *)
LEMMA PendingKept ==
    ASSUME GoodStep, pc[Collector] = "receive", Stays(Collector),
           \A q \in Senders : ~Receive(q)
    PROVE  Pending' = Pending
<1> USE DEF GoodStep, Control
<1>0. Collector \in Ranks
  BY RankFacts
<1>1. PICK k \in Nat : k = Position /\ k = Position'
  BY <1>0, LenType DEF Position, Stays
<1>2. All(k)
  BY <1>0, <1>1 DEF Place, PlaceOf, Position
<1>3. ASSUME NEW p \in Senders, HoldsBack(p)'
      PROVE  HoldsBack(p)
  <2>1. Len(entered'[p]) = k
    BY <1>1, <1>3, HoldingKept DEF Holding
  <2>2. QED
    BY <1>2, <1>3, <2>1, HolderBefore
<1>4. ASSUME NEW p \in Senders, SenderAllocates(p)
      PROVE  HoldsBack(p)
  BY <1>4 DEF HoldsBack, SenderAllocates, AllEntered, All, NoRecords, AnyRecords,
              Contribution, Values
<1>5. ASSUME NEW p \in Senders, channel'[p] # <<>>
      PROVE  HoldsBack(p) \/ channel[p] # <<>>
  BY <1>4, <1>5, RankFacts, ChannelMoves
<1>6. ASSUME NEW p \in Senders, channel[p] # <<>>
      PROVE  channel'[p] # <<>>
  <2>1. pc[p] # "count"
    BY <1>6 DEF Merging, Messages, HasSent
  <2>2. QED
    BY <1>6, <2>1, RankFacts, ChannelMoves DEF SenderAllocates
<1>7. ASSUME NEW p \in Senders, HoldsBack(p)
      PROVE  HoldsBack(p)' \/ channel'[p] # <<>>
  <2>1. p \in Ranks /\ p # Collector
    BY RankFacts
  <2>2. PICK n \in Nat : n = Len(entered[p])
    BY <2>1, LenType
  <2>3. n > 0 /\ All(n) /\ AnyRecords(n)
    BY <1>7, <2>1, <2>2 DEF HoldsBack, Place, PlaceOf, IsCount
  <2>4. All(n)' /\ AnyRecords(n)'
    BY <2>3, AllKept, NextGrows
  <2>5. CASE Stays(p)
    BY <1>7, <2>2, <2>4, <2>5 DEF HoldsBack, Stays
  <2>6. CASE SenderAllocates(p)
    <3>1. UNCHANGED entered
      BY <2>6 DEF SenderAllocates
    <3>2. CASE pc' = [pc EXCEPT ![p] = "crashed"]
      BY <2>1, <2>2, <2>4, <3>1, <3>2 DEF HoldsBack, TypeOK
    <3>3. CASE channel' = [channel EXCEPT ![p] = Append(@, amount[p])]
      <4>1. channel'[p] = Append(channel[p], amount[p])
        BY <2>1, <3>3 DEF TypeOK
      <4>2. channel[p] \in Seq(0..MaxAmount) /\ amount[p] \in 0..MaxAmount
        BY <2>1 DEF TypeOK
      <4>3. QED
        BY <4>1, <4>2
    <3>4. QED
      BY <2>6, <3>2, <3>3 DEF SenderAllocates
  <2>7. ~NothingToMerge(p)
    BY <2>2, <2>3 DEF NothingToMerge, NoRecords, AnyRecords, Contribution, Values
  <2>8. pc[p] \in {"count", "crashed"}
    BY <1>7 DEF HoldsBack
  <2>9. QED
    BY <2>1, <2>5, <2>6, <2>7, <2>8, RankMoves
    DEF Moves, Generate, LeaveBasics, Sent, LeaveVerdict, Publish, LeavePublish
<1>8. QED
  BY <1>3, <1>5, <1>6, <1>7 DEF Pending

(* and the collector's counter and total change with what it receives.     *)
LEMMA TotalMoves ==
    ASSUME Next, pc[Collector] = "receive"
    PROVE  \/ UNCHANGED <<missing, globalTime>>
           \/ \E q \in Senders : Receive(q)
<1>1. ~CollectorAllocates /\ ~ResetCallsites(Collector)
  BY DEF CollectorAllocates, ResetCallsites
<1>2. ASSUME NEW r \in Ranks, ResetCallsites(r)
      PROVE  UNCHANGED <<missing, globalTime>>
  BY <1>1, <1>2 DEF ResetCallsites
<1>3. ASSUME NEW r \in Ranks,
             \/ Profile(r) \/ Generate(r) \/ LeaveBasics(r) \/ NothingToMerge(r)
             \/ SenderAllocates(r) \/ ReceivedAll \/ Sent(r)
             \/ LeaveVerdict(r) \/ Publish(r) \/ LeavePublish(r)
      PROVE  UNCHANGED <<missing, globalTime>>
  BY <1>3 DEF Profile, Generate, LeaveBasics, NothingToMerge, SenderAllocates,
              ReceivedAll, Sent, LeaveVerdict, Publish, LeavePublish
<1>4. QED
  BY <1>1, <1>2, <1>3 DEF Next, Proceed

LEMMA ValuesType ==
    ASSUME TypeOK, NEW k \in Nat, k > 0, All(k)
    PROVE  Values(k) \in [Ranks -> Nat]
<1>1. ASSUME NEW q \in Ranks
      PROVE  entered[q][k][2] \in Nat
  <2>1. entered[q] \in Seq(Operations \X Nat)
    BY DEF TypeOK, Operations
  <2>2. k \in 1..Len(entered[q])
    BY <2>1 DEF All
  <2>3. entered[q][k] \in Operations \X Nat
    BY <2>1, <2>2, ElementOfSeq
  <2>4. QED
    BY <2>3
<1>2. QED
  BY <1>1 DEF Values

(* What the collector has added up, together with what is still expected,  *)
(* is the sum of what the ranks announced.                                 *)
LEMMA ReceivingKept ==
    ASSUME GoodStep
    PROVE  Receiving'
<1> USE DEF GoodStep, Control
<1>1. SUFFICES ASSUME pc'[Collector] = "receive"
               PROVE  /\ missing' = Cardinality(Pending')
                      /\ total'[Collector] = Sum(Values(Position))'
                      /\ globalTime' + SumFunctionOnSet(Values(Position), Pending)'
                            = total'[Collector]
  BY DEF Receiving
<1>0. Collector \in Ranks
  BY RankFacts
<1>2. PICK k \in Nat : k = Position
  BY <1>0, LenType DEF Position
<1>3. CASE pc[Collector] = "receive"
  <2>1. Stays(Collector)
    <3>1. ~CollectorAllocates /\ ~NothingToMerge(Collector)
      BY <1>3 DEF CollectorAllocates, NothingToMerge
    <3>2. ~ReceivedAll
      BY <1>0, <1>1 DEF ReceivedAll, Enter, TypeOK
    <3>3. QED
      BY <1>3, <3>1, <3>2, CollectorMoves DEF Merges
  <2>2. k > 0 /\ All(k) /\ AnyRecords(k) /\ Position' = k
    BY <1>0, <1>2, <1>3, <2>1 DEF Place, PlaceOf, Position, IsCount, Stays
  <2>3. Values(k)' = Values(k)
    BY <2>2, AllKept, NextGrows
  <2> DEFINE V == Values(k)
  <2>4. PICK v \in [Ranks -> Nat] : v = Values(k)
    BY <2>2, ValuesType
  <2>5. Values(Position) = v /\ Values(Position)' = v
    BY <1>2, <2>2, <2>3, <2>4 DEF Values
  <2>6. /\ missing = Cardinality(Pending)
        /\ total[Collector] = Sum(v)
        /\ globalTime + SumFunctionOnSet(v, Pending) = total[Collector]
        /\ total'[Collector] = total[Collector]
    BY <1>3, <2>1, <2>5 DEF Merging, Receiving, Stays
  <2>7. CASE \A q \in Senders : ~Receive(q)
    <3>1. Pending' = Pending
      BY <1>3, <2>1, <2>7, PendingKept
    <3>2. missing' = missing /\ globalTime' = globalTime
      BY <1>3, <2>7, TotalMoves
    <3>3. QED
      BY <2>5, <2>6, <3>1, <3>2
  <2>8. ASSUME NEW q \in Senders, Receive(q)
        PROVE  /\ missing' = Cardinality(Pending')
               /\ total'[Collector] = Sum(v)
               /\ globalTime' + SumFunctionOnSet(v, Pending') = total'[Collector]
    <3>1. q \in Ranks
      BY RankFacts
    <3>2. channel[q] = <<amount[q]>> /\ HasSent(q)
      BY <2>8 DEF Receive, Merging, Messages
    <3>3. v[q] = amount[q]
      BY <2>5, <3>2, SentMeans
    <3>4. Head(channel[q]) = amount[q] /\ channel'[q] = <<>>
      BY <2>8, <3>1, <3>2 DEF Receive, TypeOK
    <3>5. \A p \in Senders \ {q} : channel'[p] = channel[p]
      BY <2>8, RankFacts DEF Receive, TypeOK
    <3>6. \A p \in Senders : HoldsBack(p)' = HoldsBack(p)
      BY <2>8 DEF Receive, HoldsBack, All, AnyRecords, Values
    <3>7. ~HoldsBack(q)
      BY <3>2 DEF HoldsBack, HasSent
    <3>8. Pending' = Pending \ {q} /\ q \in Pending
      BY <2>8, <3>4, <3>5, <3>6, <3>7 DEF Pending, Receive
    <3>9. Cardinality(Pending \ {q}) = Cardinality(Pending) - 1
      BY <3>8, RankFacts, FS_RemoveElement
    <3>10. missing' = missing - 1 /\ globalTime' = globalTime + v[q]
      BY <2>8, <3>3, <3>4 DEF Receive
    <3>11. SumFunctionOnSet(v, Pending) = v[q] + SumFunctionOnSet(v, Pending \ {q})
      <4>1. \A x \in Pending : v[x] \in Nat
        BY RankFacts DEF Pending
      <4>2. QED
        BY <3>8, <4>1, RankFacts, SumTakeOut
    <3>12. SumFunctionOnSet(v, Pending \ {q}) \in Nat
      <4>1. IsFiniteSet(Pending \ {q})
        BY RankFacts, FS_RemoveElement
      <4>2. \A x \in Pending \ {q} : v[x] \in Nat
        BY RankFacts DEF Pending
      <4>3. QED
        BY <4>1, <4>2, SumNat
    <3>13. globalTime \in Nat /\ v[q] \in Nat
      BY <3>1 DEF TypeOK
    <3>14. globalTime' + SumFunctionOnSet(v, Pending \ {q})
             = globalTime + SumFunctionOnSet(v, Pending)
      BY <3>10, <3>11, <3>12, <3>13
    <3>15. QED
      BY <2>6, <3>8, <3>9, <3>10, <3>14
  <2>9. QED
    BY <2>5, <2>7, <2>8
<1>4. CASE pc[Collector] # "receive"
  <2>1. CollectorAllocates
    <3>1. pc \in [Ranks -> Places]
      BY DEF TypeOK, Places
    <3>2. ~Stays(Collector)
      BY <1>1, <1>4 DEF Stays
    <3>3. ~NothingToMerge(Collector) /\ ~LeavePublish(Collector) /\ ~LeaveVerdict(Collector)
      BY <1>0, <1>1, <3>1 DEF NothingToMerge, LeavePublish, LeaveVerdict, Enter
    <3>4. ~SenderAllocates(Collector)
      BY RankFacts DEF SenderAllocates
    <3>5. ~Generate(Collector) /\ ~ReceivedAll /\ ~Sent(Collector) /\ ~Publish(Collector)
          /\ ~LeaveBasics(Collector)
      BY <1>0, <1>1, <3>1 DEF Generate, ReceivedAll, Sent, Publish, LeaveBasics, Enter
    <3>6. QED
      BY <1>0, <3>2, <3>3, <3>4, <3>5, RankMoves DEF Moves
  <2>2. /\ pc' = [pc EXCEPT ![Collector] = "receive"]
        /\ UNCHANGED <<entered, channel>>
        /\ missing' = Cardinality(Senders)
        /\ globalTime' = 0 + amount[Collector]
    BY <2>1 DEF CollectorAllocates, Expected, InitialTime
  <2>3. total'[Collector] = Sum(Contribution(Collector))
    BY <1>0, <2>1 DEF CollectorAllocates, TypeOK
  <2>4. All(k) /\ AnyRecords(k) /\ pc[Collector] = "count"
    BY <1>2, <2>1 DEF CollectorAllocates, AllEntered, All, NoRecords, AnyRecords,
                      Contribution, Values, Position
  <2>5. k > 0 /\ entered[Collector][k][2] = amount[Collector]
    BY <1>0, <1>2, <2>4 DEF Place, PlaceOf, IsCount, Announced, Position
  <2>6. PICK v \in [Ranks -> Nat] : v = Values(k)
    BY <2>4, <2>5, ValuesType
  <2>7. Values(Position)' = v /\ Contribution(Collector) = v /\ v[Collector] = amount[Collector]
    BY <1>0, <1>2, <2>2, <2>5, <2>6 DEF Values, Contribution, Position
  <2>8. Pending' = Senders
    <3>1. ASSUME NEW q \in Senders
          PROVE  HoldsBack(q)' \/ channel'[q] # <<>>
      <4>1. HoldsBack(q) \/ HasSent(q)
        BY <1>2, <2>4, SendersWhere DEF Merges
      <4>2. HasSent(q) => channel[q] # <<>>
        BY <2>4 DEF Merging, Undelivered
      <4>3. pc'[q] = pc[q]
        BY <2>2, RankFacts DEF TypeOK
      <4>4. HoldsBack(q)' = HoldsBack(q)
        BY <2>2, <4>3 DEF HoldsBack, All, AnyRecords, Values
      <4>5. QED
        BY <2>2, <4>1, <4>2, <4>4
    <3>2. QED
      BY <3>1 DEF Pending
  <2>9. Sum(v) = v[Collector] + SumFunctionOnSet(v, Senders)
    <3>1. \A x \in Ranks : v[x] \in Nat
      OBVIOUS
    <3>2. SumFunctionOnSet(v, Ranks) = v[Collector] + SumFunctionOnSet(v, Ranks \ {Collector})
      BY <1>0, <3>1, RankFacts, SumTakeOut
    <3>3. QED
      BY <3>2 DEF Sum, Senders
  <2>10. SumFunctionOnSet(v, Senders) \in Nat /\ amount[Collector] \in Nat
    <3>1. \A x \in Senders : v[x] \in Nat
      BY RankFacts
    <3>2. amount[Collector] \in Nat
      BY <1>0 DEF TypeOK
    <3>3. QED
      BY <3>1, <3>2, RankFacts, SumNat
  <2>11. QED
    BY <2>2, <2>3, <2>7, <2>8, <2>9, <2>10
<1>5. QED
  BY <1>3, <1>4

(* When the collector leaves its loop, its total is complete, and no step  *)
(* of its report changes it from then on.                                  *)
LEMMA CompleteKept ==
    ASSUME GoodStep
    PROVE  Complete'
<1> USE DEF GoodStep, Control
<1>1. SUFFICES ASSUME pc'[Collector] \in {"verdict", "stats", "published"}
               PROVE  globalTime' = total'[Collector]
  BY DEF Complete
<1>0. Collector \in Ranks /\ pc \in [Ranks -> Places]
  BY RankFacts DEF TypeOK, Places
<1>2. ~CollectorAllocates
  BY <1>0, <1>1 DEF CollectorAllocates
<1>3. CASE ReceivedAll
  <2>1. pc[Collector] = "receive" /\ UNCHANGED <<globalTime, total>>
    BY <1>3 DEF ReceivedAll
  <2>2. globalTime + SumFunctionOnSet(Values(Position), {}) = total[Collector]
    BY <1>3, <2>1, ExpectedNotComplete DEF Merging, Receiving
  <2>3. SumFunctionOnSet(Values(Position), {}) = 0
    BY SumEmpty
  <2>4. globalTime \in Nat
    BY DEF TypeOK
  <2>5. QED
    BY <2>1, <2>2, <2>3, <2>4
<1>4. CASE ~ReceivedAll
  <2>1. /\ pc[Collector] \in {"verdict", "stats", "published"}
        /\ total'[Collector] = total[Collector]
    <3>1. CASE Stays(Collector)
      BY <1>1, <3>1 DEF Stays
    <3>2. CASE LeaveVerdict(Collector) \/ Publish(Collector)
      BY <3>2 DEF LeaveVerdict, Publish
    <3>3. ~Generate(Collector) /\ ~LeaveBasics(Collector)
      BY <1>0, <1>1 DEF Generate, LeaveBasics, Enter
    <3>4. ~NothingToMerge(Collector) /\ ~LeavePublish(Collector)
      BY <1>0, <1>1 DEF NothingToMerge, LeavePublish
    <3>5. ~SenderAllocates(Collector)
      BY RankFacts DEF SenderAllocates
    <3>6. ~Sent(Collector)
      <4>1. pc[Collector] # "send"
        BY <1>0, RankFacts DEF Place, PlaceOf
      <4>2. QED
        BY <4>1 DEF Sent
    <3>7. QED
      BY <1>0, <1>2, <1>4, <3>1, <3>2, <3>3, <3>4, <3>5, <3>6, RankMoves DEF Moves
  <2>2. globalTime = total[Collector]
    BY <2>1 DEF Merging, Complete
  <2>3. globalTime' = globalTime
    <3>1. ~ResetCallsites(Collector) /\ \A q \in Senders : ~Receive(q)
      BY <2>1 DEF ResetCallsites, Receive
    <3>2. ASSUME NEW r \in Ranks, ResetCallsites(r)
          PROVE  globalTime' = globalTime
      BY <3>1, <3>2 DEF ResetCallsites
    <3>3. ASSUME NEW r \in Ranks,
                 \/ Profile(r) \/ Generate(r) \/ LeaveBasics(r) \/ NothingToMerge(r)
                 \/ SenderAllocates(r) \/ Sent(r)
                 \/ LeaveVerdict(r) \/ Publish(r) \/ LeavePublish(r)
          PROVE  globalTime' = globalTime
      BY <3>3 DEF Profile, Generate, LeaveBasics, NothingToMerge, SenderAllocates,
                  Sent, LeaveVerdict, Publish, LeavePublish
    <3>4. QED
      BY <1>2, <1>4, <3>1, <3>2, <3>3 DEF Next, Proceed
  <2>4. QED
    BY <2>1, <2>2, <2>3
<1>5. QED
  BY <1>3, <1>4

-----------------------------------------------------------------------------
LEMMA InitInv == Init => Inv
<1> SUFFICES ASSUME Init
             PROVE  Inv
  OBVIOUS
<1>1. \A r \in Ranks : /\ pc[r] = "idle" /\ entered[r] = <<>> /\ Len(entered[r]) = 0
                       /\ channel[r] = <<>>
  BY DEF Init
<1>2. Collector \in Ranks /\ Senders \subseteq Ranks
  BY RankFacts
<1>3. TypeOK
  BY InitType
<1>4. History /\ CollectivesAgree /\ Place
  BY <1>1, <1>2 DEF History, CollectivesAgree, Place, PlaceOf
<1>5. Announced /\ channel[Collector] = <<>>
  BY <1>1, <1>2 DEF Announced
<1>6. Merging
  BY <1>1, <1>2 DEF Merging, Messages, Holding, Undelivered, Receiving, Complete,
                    HoldsBack
<1>7. QED
  BY <1>3, <1>4, <1>5, <1>6 DEF Inv, Control

(* Memory that was lacking once is remembered. *)
LEMMA FailedGrows ==
    ASSUME Next
    PROVE  failed \subseteq failed'
<1>1. ASSUME NEW r \in Ranks, SenderAllocates(r)
      PROVE  failed \subseteq failed'
  BY <1>1 DEF SenderAllocates
<1>2. ASSUME CollectorAllocates
      PROVE  failed \subseteq failed'
  BY <1>2 DEF CollectorAllocates
<1>3. ASSUME NEW r \in Ranks,
             \/ Profile(r) \/ ResetCallsites(r) \/ Generate(r) \/ LeaveBasics(r)
             \/ NothingToMerge(r) \/ ReceivedAll \/ Sent(r)
             \/ LeaveVerdict(r) \/ Publish(r) \/ LeavePublish(r)
             \/ (\E q \in Senders : Receive(q))
      PROVE  failed \subseteq failed'
  BY <1>3 DEF Profile, ResetCallsites, Generate, LeaveBasics, NothingToMerge,
              ReceivedAll, Sent, LeaveVerdict, Publish, LeavePublish, Receive
<1>4. QED
  BY <1>1, <1>2, <1>3 DEF Next, Proceed

LEMMA NextInv == Inv /\ [Next]_vars => Inv'
<1> SUFFICES ASSUME Inv, [Next]_vars
             PROVE  Inv'
  OBVIOUS
<1>1. Control'
  BY NextControl DEF Inv
<1>2. CASE Next
  <2>1. Announced'
    BY <1>2, NextAnnounced DEF Inv
  <2>2. channel'[Collector] = <<>>
    BY <1>2, RankFacts, ChannelMoves DEF Inv, Control, SenderAllocates
  <2>3. ASSUME Collector \notin failed'
        PROVE  Merging'
    <3>1. Collector \notin failed
      BY <1>2, <2>3, FailedGrows
    <3>2. GoodStep
      BY <1>1, <1>2, <2>1, <2>3, <3>1 DEF GoodStep, Inv
    <3>3. QED
      BY <3>2, MessagesKept, HoldingKept, UndeliveredKept, ReceivingKept, CompleteKept
      DEF Merging
  <2>4. QED
    BY <1>1, <2>1, <2>2, <2>3 DEF Inv
<1>3. CASE UNCHANGED vars
  <2>1. Announced' /\ channel'[Collector] = <<>>
    BY <1>3 DEF vars, Inv, Announced
  <2>2. Merging' = Merging
    <3>1. Position' = Position /\ Values(Position)' = Values(Position)
      BY <1>3 DEF vars, Position, Values
    <3>2. \A q : HoldsBack(q)' = HoldsBack(q) /\ HasSent(q)' = HasSent(q)
      BY <1>3 DEF vars, HoldsBack, HasSent, All, AnyRecords, Values, Position
    <3>3. Pending' = Pending /\ Merges' = Merges
      BY <1>3, <3>2 DEF vars, Pending, Merges
    <3>4. Messages' = Messages /\ Holding' = Holding /\ Undelivered' = Undelivered
      BY <1>3, <3>1, <3>2, <3>3 DEF vars, Messages, Holding, Undelivered
    <3>5. Receiving' = Receiving /\ Complete' = Complete
      BY <1>3, <3>1, <3>3 DEF vars, Receiving, Complete
    <3>6. QED
      BY <3>4, <3>5 DEF Merging
  <2>3. QED
    BY <1>1, <1>3, <2>1, <2>2 DEF Inv, vars
<1>4. QED
  BY <1>2, <1>3

LEMMA SpecInv == Spec => []Inv
BY InitInv, NextInv, PTL DEF Spec

-----------------------------------------------------------------------------
(* Every variable keeps its type: the collector's counter of missing       *)
(* messages stays within the number of senders, its totals do not go       *)
(* below 0.                                                                *)
THEOREM MergeTypes == Spec => []TypeOK
<1>1. Inv => TypeOK
  BY DEF Inv, Control
<1>2. QED
  BY <1>1, SpecInv, PTL

(* All ranks enter the same collective operations in the same order, for   *)
(* any number of ranks, whatever their counts, and whichever lack memory   *)
(* (mpiPi_mergeResults, mpiPi_publishResults).                             *)
THEOREM RanksAgree == Spec => []CollectivesAgree
<1>1. Inv => CollectivesAgree
  BY DEF Inv, Control
<1>2. QED
  BY <1>1, SpecInv, PTL

(* No message of a report is left for the next one, unless the collector   *)
(* lacked memory.                                                          *)
THEOREM NothingLeftBehind == Spec => []ChannelsDrained
<1>1. Inv => ChannelsDrained
  <2>1. SUFFICES ASSUME Inv, pc[Collector] \notin {"count", "receive"},
                        Collector \notin failed, NEW r \in Ranks
                 PROVE  channel[r] = <<>>
    BY DEF ChannelsDrained
  <2>2. CASE r = Collector
    BY <2>1, <2>2 DEF Inv
  <2>3. CASE r # Collector
    BY <2>1, <2>3, RankFacts DEF Inv, Merging, Messages, Merges
  <2>4. QED
    BY <2>2, <2>3
<1>2. QED
  BY <1>1, SpecInv, PTL

(* What the collector publishes is the sum of what all ranks announced, in *)
(* whatever order their messages arrived, unless it lacked memory.         *)
THEOREM PublishesSum == Spec => []PublishedIsSum
<1>1. Inv => PublishedIsSum
  BY DEF Inv, Merging, Complete, PublishedIsSum
<1>2. QED
  BY <1>1, SpecInv, PTL
=============================================================================
