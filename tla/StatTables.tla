----------------------------- MODULE StatTables -----------------------------
(***************************************************************************)
(* The tables of callsite statistics in MPIPI_MODE_MT: each thread updates *)
(* a table of its own at the end of an MPI call, while MPI_Pcontrol, in    *)
(* Main, merges all of them for a report or drains them.  No lock protects *)
(* a table.  A step is one access to memory another thread may use; a      *)
(* chain is walked in one step.                                            *)
(*                                                                         *)
(* The process is one that records: rank 0, or traceAllRanks.  All threads *)
(* are registered (TLSRegistry), profiling is enabled (ThreadTimers).      *)
(*                                                                         *)
(* discipline is what the application refrains from:                       *)
(*   "funneled"  only Main calls MPI                                       *)
(*   "reports"   MPI_Pcontrol(2) only while no other thread is in MPI      *)
(*   "free"      nothing                                                   *)
(***************************************************************************)
EXTENDS HashTable, SequencesExt

CONSTANTS Threads,      \* the threads, each with a table
          Main,         \* the one that calls MPI_Pcontrol
          Keys,         \* callsites: operation and program counters
          TableSize,    \* mpiPi.tableSize
          Disciplines,  \* the disciplines considered
          MaxCalls,     \* bound on the MPI calls
          MaxControls   \* bound on its calls

Rank == "rank_stats"    \* the table reports are merged into

ASSUME TablesAssumption ==
    /\ IsFiniteSet(Threads) /\ Main \in Threads /\ Rank \notin Threads
    /\ Keys \subseteq Nat
    /\ TableSize \in Nat \ {0}
    /\ Disciplines \subseteq {"funneled", "reports", "free"}

Tables == Threads \cup {Rank}

VARIABLES
    discipline,
    table,      \* table[t]: stat->cs_stats
    rec,        \* the callsite records in the order of their allocation
    freed,      \* those that were freed
    tmpCtr,     \* the static counter of mpiPi_cs_init
    hist,       \* hist[t]: the cell of stat->coll that the calls fall into
    op,         \* op[t]: where mpiPi_stats_thr_cs_upd stands in thread t
    ctl,        \* where MPI_Pcontrol stands in Main
    calls,      \* MPI calls so far
    reports,    \* reports so far
    resets,     \* resets so far
    begun,      \* history: begun[k]: updates begun since the last reset
    made,       \* history: made[k]: updates of a time completed since then
    madeHist,   \* history: updates of hist completed
    since       \* history: made and madeHist as the report began

opVars   == <<op, calls>>
history  == <<begun, made, madeHist, since>>
bounds   == <<discipline, reports, resets>>
memory   == <<rec, freed, tmpCtr>>
vars == <<bounds, table, memory, hist, opVars, ctl, history>>

Index(k) == k % TableSize           \* _thrd_pc_hashkey
Key(p) == rec[p].key
Idle == [pc |-> "idle", key |-> 0, csp |-> 0, id |-> 0, seen |-> 0]
CtlIdle == [pc |-> "idle", kind |-> "none", todo |-> <<>>, i |-> 0,
            av |-> <<>>, room |-> 0, csp |-> 0, id |-> 0]
Zero == [k \in Keys |-> 0]

Init ==
    /\ discipline \in Disciplines
    /\ table = [t \in Tables |-> Open(TableSize)]
    /\ rec = <<>> /\ freed = {} /\ tmpCtr = 1
    /\ hist = [t \in Tables |-> 0]
    /\ op = [t \in Threads |-> Idle]
    /\ ctl = CtlIdle
    /\ calls = 0
    /\ reports = 0 /\ resets = 0
    /\ begun = Zero /\ made = Zero /\ madeHist = 0
    /\ since = [made |-> Zero, hist |-> 0]

(***************************************************************************)
(* An MPI call records itself: mpiPi_stats_thr_cs_upd, then _coll_upd.     *)
(***************************************************************************)
Resetting == ctl.kind = "reset"
MayCall(t) ==
    /\ calls < MaxCalls
    /\ t = Main => ctl.pc = "idle"
    /\ discipline = "funneled" => t = Main
    /\ discipline # "free" => ~Resetting

SameKey(k) == {p \in DOMAIN rec : Key(p) = k}
Lookup(t, k) == Search(table[t], Index(k), SameKey(k))

SearchCallsite(t, k) ==
    /\ op[t].pc = "idle" /\ MayCall(t)
    /\ LET csp == Lookup(t, k) IN
       op' = [op EXCEPT ![t] = [Idle EXCEPT !.key = k, !.csp = csp,
                                !.pc = IF csp = 0 THEN "create" ELSE "count"]]
    /\ calls' = calls + 1
    /\ begun' = [begun EXCEPT ![k] = @ + 1]
    /\ UNCHANGED <<bounds, table, memory, hist, ctl, made, madeHist, since>>

NewRecord(k, id) == [key |-> k, count |-> 0, time |-> 0, tmpid |-> id]

\* mpiPi_cs_init reads the counter and writes it back: tmpid = tmpCtr++.
CreateCallsite(t) ==
    /\ op[t].pc = "create"
    /\ rec' = Append(rec, NewRecord(op[t].key, tmpCtr))
    /\ op' = [op EXCEPT ![t].pc = "number", ![t].csp = Len(rec) + 1,
                        ![t].id = tmpCtr]
    /\ UNCHANGED <<bounds, table, freed, tmpCtr, hist, calls, ctl, history>>

\* Mutant: the counter is read and never written.
NumberCallsite_Forgets(t) ==
    /\ op[t].pc = "number"
    /\ op' = [op EXCEPT ![t].pc = "link"]
    /\ UNCHANGED <<bounds, table, memory, hist, calls, ctl, history>>

NumberCallsite(t) ==
    /\ op[t].pc = "number"
    /\ tmpCtr' = op[t].id + 1
    /\ op' = [op EXCEPT ![t].pc = "link"]
    /\ UNCHANGED <<bounds, table, rec, freed, hist, calls, ctl, history>>

\* h_insert; the increment of the count reads it here and writes it next.
LinkCallsite(t) ==
    /\ op[t].pc = "link"
    /\ LET k == op[t].key IN
       IF Lookup(t, k) # 0
       THEN /\ op' = [op EXCEPT ![t].pc = "count"]
            /\ UNCHANGED table
       ELSE /\ table' = [table EXCEPT ![t] =
                   Link(@, Index(k), op[t].csp, SameKey(k))]
            /\ op' = [op EXCEPT ![t].pc = "bump", ![t].seen = table[t].count]
    /\ UNCHANGED <<bounds, memory, hist, calls, ctl, history>>

\* Mutant: an entry is linked without being counted.
BumpCount_Omitted(t) ==
    /\ op[t].pc = "bump"
    /\ op' = [op EXCEPT ![t].pc = "count"]
    /\ UNCHANGED <<bounds, table, memory, hist, calls, ctl, history>>

BumpCount(t) ==
    /\ op[t].pc = "bump"
    /\ table' = [table EXCEPT ![t].count = op[t].seen + 1]
    /\ op' = [op EXCEPT ![t].pc = "count"]
    /\ UNCHANGED <<bounds, memory, hist, calls, ctl, history>>

\* mpiPi_cs_update: one field after the other.
UpdateCount(t) ==
    /\ op[t].pc = "count"
    /\ rec' = [rec EXCEPT ![op[t].csp].count = @ + 1]
    /\ op' = [op EXCEPT ![t].pc = "time"]
    /\ UNCHANGED <<bounds, table, freed, tmpCtr, hist, calls, ctl, history>>

UpdateTime(t) ==
    /\ op[t].pc = "time"
    /\ rec' = [rec EXCEPT ![op[t].csp].time = @ + 1]
    /\ op' = [op EXCEPT ![t].pc = "hist"]
    /\ made' = [made EXCEPT ![op[t].key] = @ + 1]
    /\ UNCHANGED <<bounds, table, freed, tmpCtr, hist, calls, ctl, begun,
                   madeHist, since>>

UpdateHist(t) ==
    /\ op[t].pc = "hist"
    /\ hist' = [hist EXCEPT ![t] = @ + 1]
    /\ madeHist' = madeHist + 1
    /\ op' = [op EXCEPT ![t] = Idle]
    /\ UNCHANGED <<bounds, table, memory, calls, ctl, begun, made, since>>

(***************************************************************************)
(* MPI_Pcontrol(3) merges, MPI_Pcontrol(2) drains: a list of tables, each  *)
(* with what to do to it.                                                  *)
(***************************************************************************)
Listed == SetToSeq(Threads)

MayControl == reports + resets < MaxControls

Quiet == \A t \in Threads : op[t].pc = "idle"

StartReport ==
    /\ ctl.pc = "idle" /\ op[Main].pc = "idle" /\ MayControl
    /\ reports' = reports + 1
    /\ ctl' = [CtlIdle EXCEPT !.pc = "rank", !.kind = "report", !.todo = Listed]
    /\ since' = [made |-> made, hist |-> madeHist]
    /\ UNCHANGED <<discipline, resets, table, memory, hist, opVars,
                   begun, made, madeHist>>

\* Mutant: the reset does not wait for the calls of others.
StartReset_AnyTime ==
    /\ ctl.pc = "idle" /\ op[Main].pc = "idle" /\ MayControl
    /\ resets' = resets + 1
    /\ ctl' = [CtlIdle EXCEPT !.pc = "rank", !.kind = "reset", !.todo = Listed]
    /\ UNCHANGED <<discipline, reports, table, memory, hist, opVars, history>>

StartReset ==
    /\ ctl.pc = "idle" /\ op[Main].pc = "idle" /\ MayControl
    /\ discipline # "free" => Quiet
    /\ resets' = resets + 1
    /\ ctl' = [CtlIdle EXCEPT !.pc = "rank", !.kind = "reset", !.todo = Listed]
    /\ UNCHANGED <<discipline, reports, table, memory, hist, opVars, history>>

Current == Head(ctl.todo)

\* The table of the rank is Main's own: it is drained in one step.
DrainRank ==
    /\ ctl.pc = "rank"
    /\ freed' = freed \cup Entries(table[Rank])
    /\ table' = [table EXCEPT ![Rank] = Drained(@)]
    /\ ctl' = [ctl EXCEPT !.pc = "alloc"]
    /\ UNCHANGED <<bounds, rec, tmpCtr, hist, opVars, history>>

\* h_gather_data asks for the room for count pointers, then walks.
GatherAlloc ==
    /\ ctl.pc = "alloc"
    /\ ctl' = [ctl EXCEPT !.pc = "gather", !.i = 0, !.av = <<>>,
                          !.room = table[Current].count]
    /\ UNCHANGED <<bounds, table, memory, hist, opVars, history>>

\* Mutant: the loop over the buckets goes one too far.
Onward_OneMore(pc, next) ==
    IF ctl.i < TableSize THEN [pc |-> pc, i |-> ctl.i + 1]
    ELSE [pc |-> next, i |-> 0]

\* The bucket after i, or the first one for what comes next.
Onward(pc, next) ==
    IF ctl.i + 1 < TableSize THEN [pc |-> pc, i |-> ctl.i + 1]
    ELSE [pc |-> next, i |-> 0]

GatherChain ==
    /\ ctl.pc = "gather"
    /\ LET o == Onward("gather", IF Resetting THEN "free" ELSE "record") IN
       ctl' = [ctl EXCEPT !.av = @ \o table[Current].chain[ctl.i],
                          !.pc = o.pc, !.i = o.i]
    /\ UNCHANGED <<bounds, table, memory, hist, opVars, history>>

\* Mutant: the freed entries stay in the table.
FreeChain_KeepsChain ==
    /\ ctl.pc = "free"
    /\ LET o == Onward("free", "zero") IN
       ctl' = [ctl EXCEPT !.pc = o.pc, !.i = o.i]
    /\ UNCHANGED <<bounds, table, memory, hist, opVars, history>>

\* h_drain frees the entries of a chain and unlinks them.
FreeChain ==
    /\ ctl.pc = "free"
    /\ table' = [table EXCEPT ![Current].chain[ctl.i] = <<>>]
    /\ LET o == Onward("free", "zero") IN
       ctl' = [ctl EXCEPT !.pc = o.pc, !.i = o.i]
    /\ UNCHANGED <<bounds, memory, hist, opVars, history>>

ZeroCount ==
    /\ ctl.pc = "zero"
    /\ table' = [table EXCEPT ![Current].count = 0]
    /\ ctl' = [ctl EXCEPT !.pc = "release"]
    /\ UNCHANGED <<bounds, memory, hist, opVars, history>>

NextTable(c) ==
    [c EXCEPT !.todo = Tail(@), !.av = <<>>,
              !.pc = IF Len(c.todo) = 1 THEN "end" ELSE "alloc"]

\* Mutant: only the array is freed.
ReleaseRecords_ArrayOnly ==
    /\ ctl.pc = "release"
    /\ ctl' = NextTable(ctl)
    /\ UNCHANGED <<bounds, table, memory, hist, opVars, history>>

\* mpiPi_stats_thr_cs_reset frees the records it got.
ReleaseRecords ==
    /\ ctl.pc = "release"
    /\ freed' = freed \cup Range(ctl.av)
    /\ ctl' = NextTable(ctl)
    /\ UNCHANGED <<bounds, table, rec, tmpCtr, hist, opVars, history>>

\* mpiPi_stats_thr_cs_merge: the record of the rank for the next of av.
FindInRank ==
    /\ ctl.pc = "record" /\ ctl.av # <<>>
    /\ LET csp == Lookup(Rank, Key(Head(ctl.av))) IN
       ctl' = [ctl EXCEPT !.csp = csp, !.id = tmpCtr,
                          !.pc = IF csp = 0 THEN "insert" ELSE "addcount"]
    /\ UNCHANGED <<bounds, table, memory, hist, opVars, history>>

InsertInRank ==
    /\ ctl.pc = "insert"
    /\ LET k == Key(Head(ctl.av)) IN
       /\ rec' = Append(rec, NewRecord(k, ctl.id))
       /\ tmpCtr' = ctl.id + 1
       /\ table' = [table EXCEPT ![Rank] =
              Insert(@, Index(k), Len(rec) + 1, SameKey(k))]
    /\ ctl' = [ctl EXCEPT !.csp = Len(rec) + 1, !.pc = "addcount"]
    /\ UNCHANGED <<bounds, freed, hist, opVars, history>>

\* mpiPi_cs_merge reads one field after the other.
MergeCount ==
    /\ ctl.pc = "addcount"
    /\ rec' = [rec EXCEPT ![ctl.csp].count = @ + rec[Head(ctl.av)].count]
    /\ ctl' = [ctl EXCEPT !.pc = "addtime"]
    /\ UNCHANGED <<bounds, table, freed, tmpCtr, hist, opVars, history>>

\* Mutant: the time of the last thread replaces the sum.
MergeTime_Assigns ==
    /\ ctl.pc = "addtime"
    /\ rec' = [rec EXCEPT ![ctl.csp].time = rec[Head(ctl.av)].time]
    /\ ctl' = [ctl EXCEPT !.pc = "record", !.av = Tail(@)]
    /\ UNCHANGED <<bounds, table, freed, tmpCtr, hist, opVars, history>>

MergeTime ==
    /\ ctl.pc = "addtime"
    /\ rec' = [rec EXCEPT ![ctl.csp].time = @ + rec[Head(ctl.av)].time]
    /\ ctl' = [ctl EXCEPT !.pc = "record", !.av = Tail(@)]
    /\ UNCHANGED <<bounds, table, freed, tmpCtr, hist, opVars, history>>

\* Mutant: the cells of the last thread replace the sum.
MergeHist_Assigns ==
    /\ ctl.pc = "record" /\ ctl.av = <<>>
    /\ hist' = [hist EXCEPT ![Rank] = hist[Current]]
    /\ ctl' = NextTable(ctl)
    /\ UNCHANGED <<bounds, table, memory, opVars, history>>

\* mpiPi_stats_thr_merge_all goes on to the collective statistics, to which
\* nothing but its initialization sets the rank's to zero.
MergeHist ==
    /\ ctl.pc = "record" /\ ctl.av = <<>>
    /\ hist' = [hist EXCEPT ![Rank] = @ + hist[Current]]
    /\ ctl' = NextTable(ctl)
    /\ UNCHANGED <<bounds, table, memory, opVars, history>>

\* The histories of a reset restart where it has no table left to drain.
EndControl ==
    /\ ctl.pc = "end"
    /\ ctl' = CtlIdle
    /\ IF Resetting THEN /\ begun' = Zero /\ made' = Zero
                         /\ since' = [since EXCEPT !.made = Zero]
                    ELSE UNCHANGED <<begun, made, since>>
    /\ UNCHANGED <<bounds, table, memory, hist, opVars, madeHist>>

Update(t) ==
    \/ \E k \in Keys : SearchCallsite(t, k)
    \/ CreateCallsite(t) \/ NumberCallsite(t)
    \/ LinkCallsite(t) \/ BumpCount(t)
    \/ UpdateCount(t) \/ UpdateTime(t) \/ UpdateHist(t)

Control ==
    \/ StartReport \/ StartReset \/ DrainRank
    \/ GatherAlloc \/ GatherChain \/ FreeChain \/ ZeroCount \/ ReleaseRecords
    \/ FindInRank \/ InsertInRank \/ MergeCount \/ MergeTime \/ MergeHist
    \/ EndControl

Next == Control \/ \E t \in Threads : Update(t)

Spec == Init /\ [][Next]_vars

-----------------------------------------------------------------------------
Ids == 1 .. Len(rec)
Steps == {"idle", "create", "number", "link", "bump", "count", "time", "hist"}
CtlSteps == {"idle", "rank", "alloc", "gather", "free", "zero", "release", "record",
             "insert", "addcount", "addtime", "end"}

\* Types; the bucket index of a gather or drain stays inside the table
\* (h_gather_data, h_drain).
TypeOK ==
    /\ discipline \in Disciplines
    /\ \A t \in Tables : /\ table[t].count \in Nat
                         /\ \A i \in 0 .. TableSize - 1 : table[t].chain[i] \in Seq(Ids)
    /\ rec \in Seq([key : Keys, count : Nat, time : Nat, tmpid : Nat])
    /\ freed \subseteq Ids
    /\ tmpCtr \in Nat
    /\ hist \in [Tables -> Nat]
    /\ op \in [Threads -> [pc : Steps, key : Keys \cup {0}, csp : Ids \cup {0},
                          id : Nat, seen : Nat]]
    /\ ctl.pc \in CtlSteps /\ ctl.i \in 0 .. TableSize - 1 /\ ctl.av \in Seq(Ids)

\* "ASSUME: csp cannot be deleted from list" (mpiP-stats.c:289): the record an
\* MPI call found or made is still there when the call updates it.
CspNotDeleted ==
    \A t \in Threads : op[t].pc \in {"count", "time"} => op[t].csp \notin freed

BeingDrained(t) == ctl.pc \in {"free", "zero", "release"} /\ Current = t
BeingLinked(t) == t \in Threads /\ op[t].pc = "bump"

\* Between operations the count of a table is the number of its entries, each
\* record sits in the chain of its key, no key twice, and none was freed
\* (h_insert, h_drain, whatever the order of updates, merges and resets).
TablesSound ==
    \A t \in Tables : ~BeingDrained(t) =>
        /\ Size(table[t]) = table[t].count + IF BeingLinked(t) THEN 1 ELSE 0
        /\ Entries(table[t]) \cap freed = {}
        /\ \A i \in 0 .. TableSize - 1 :
              LET chain == table[t].chain[i] IN
              \A j, l \in DOMAIN chain : /\ Index(Key(chain[j])) = i
                                        /\ Key(chain[j]) = Key(chain[l]) => j = l

\* h_gather_data stores no more pointers than it has room for, if only the
\* thread that gathers calls MPI.
GatherFits == discipline = "funneled" => Len(ctl.av) <= ctl.room \/ ctl.pc = "alloc"

InRank(k) == Lookup(Rank, k)
RankCount(k) == IF InRank(k) = 0 THEN 0 ELSE rec[InRank(k)].count
RankTime(k) == IF InRank(k) = 0 THEN 0 ELSE rec[InRank(k)].time
ReportEnds == ctl.pc = "end" /\ ctl.kind = "report"

\* A report that runs beside the calls shows for each callsite at least what
\* was recorded when it began and at most what had been begun when it ends,
\* in its count and in its time (mpiPi_stats_mt_merge).
ReportBracketed ==
    ReportEnds => \A k \in Keys : /\ RankCount(k) \in since.made[k] .. begun[k]
                                  /\ RankTime(k) \in since.made[k] .. begun[k]

\* The same for the collective statistics in the first report; later ones add
\* the earlier reports' again (mpiPi_stats_thr_coll_merge).
HistOfFirstReport ==
    ReportEnds /\ reports = 1 => hist[Rank] \in since.hist .. madeHist

\* The numbers that the trace shows for callsites tell them apart, if one
\* thread calls MPI (the static counter of mpiPi_cs_init has no lock).
TraceIdsDistinct ==
    discipline = "funneled" =>
        \A p, q \in Ids : p # q => rec[p].tmpid # rec[q].tmpid

\* A record that was not freed is in a table, or in the hands of the thread
\* that is inserting it or of the drain that is about to free it.
NothingLeaked ==
    \A p \in Ids \ freed :
        \/ \E t \in Tables : p \in Entries(table[t])
        \/ \E t \in Threads : op[t].pc \in {"number", "link"} /\ op[t].csp = p
        \/ p \in Range(ctl.av)
=============================================================================
