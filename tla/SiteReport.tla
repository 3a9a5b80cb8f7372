----------------------------- MODULE SiteReport -----------------------------
(***************************************************************************)
(* The sections of a report (report.c) as functions of what the collector  *)
(* has merged (mpiPi.c), without their layout.  A row is a record; the row *)
(* that sums up a callsite has the rank Star, which is printed as "*".     *)
(*                                                                         *)
(* g is the state of the collector: its tables of records and its totals.  *)
(* s is the setup: what the options have chosen.                           *)
(***************************************************************************)
EXTENDS CallsiteRecords

CONSTANTS Ranks,        \* 0 .. mpiPi.size - 1; rank 0 collects
          TopLines,     \* how many rows a "top twenty" list has
          CollOps,      \* collective operations
          Operations    \* all operations

ASSUME ReportAssumption ==
    /\ 0 \in Ranks /\ Ranks \subseteq Nat /\ IsFiniteSet(Ranks)
    /\ TopLines \in Nat \ {0}
    /\ CollOps \subseteq Operations /\ Operations \subseteq Nat

Collector == 0
Star == -1
NoRank == -2        \* a rank that was not assigned: one left over, or any value
Total(S, Value(_)) == SumFunctionOnSet([x \in S |-> Value(x)], S)
Absent == {}        \* a section that is not printed

(***************************************************************************)
(* Merging (mpiPi.c).                                                      *)
(***************************************************************************)
NoTotals == [time |-> 0, sent |-> 0, io |-> 0, rma |-> 0]

GlobalInit ==
    [stats |-> {}, agg |-> {}, ops |-> {}, covRoom |-> {},
     task |-> [r \in Ranks |-> 0], total |-> NoTotals, large |-> 0,
     sentCount |-> 0, timeSites |-> 0, app |-> 0]

\* mpiPi_mergeResults opens its tables and clears two of the totals;
\* mpiPi_collect_basics cleared the time of each rank.
OpenTables(g) ==
    [g EXCEPT !.stats = {}, !.agg = {}, !.ops = {}, !.covRoom = {},
              !.total = [@ EXCEPT !["time"] = 0, !["sent"] = 0],
              !.task = [r \in Ranks |-> 0]]

\* Mutant: the aggregate forgets what the ranks before had.
InsertAggregate_Replaces(g, p, s) ==
    LET new == [p EXCEPT !.rank = Star] IN
    [g EXCEPT !.agg = (@ \ Matching(@, p, SameSrcId)) \cup {new}]

\* The aggregate over the ranks; covRoom has the callsites that keep a time for
\* each record merged into them, in an array with room for one per rank.
InsertAggregate(g, p, s) ==
    [g EXCEPT !.agg = Accumulate(@, p, [p EXCEPT !.rank = Star], SameSrcId),
              !.covRoom = IF s.cov THEN @ \cup {<<p.csid, p.rank, p.pc, p.op>>} ELSE @]

\* mpiPi_insert_callsite_records, after mpiPi_query_src.
InsertRecord(g, p, s) ==
    LET h == InsertAggregate(g, p, s) IN
    [h EXCEPT
        !.stats = IF s.collective THEN @ ELSE Accumulate(@, p, p, SameSrc),
        !.task[p.rank] = @ + p.sum["time"],
        !.total = Each(LAMBDA f : @[f] + p.sum[f]),
        !.timeSites = @ + IF p.sum["time"] > 0 THEN 1 ELSE 0,
        !.large = @ + IF p.sum["sent"] > 0 THEN p.large ELSE 0,
        !.sentCount = @ + IF p.sum["sent"] > 0 THEN p.count ELSE 0]

\* mpiPi_insert_MPI_records: the aggregates again, by operation.
InsertOperations(g) ==
    [g EXCEPT !.ops =
        FoldSet(LAMBDA p, table :
                    Accumulate(table, p, [p EXCEPT !.rank = Star, !.csid = p.op], SameOp),
                {}, g.agg)]

\* mpiPi_reset_callsite_data: every total, but none of the tables.
ResetTotals(g) ==
    [g EXCEPT !.total = NoTotals, !.large = 0, !.sentCount = 0, !.timeSites = 0,
              !.app = 0]

(***************************************************************************)
(* The times of the tasks.                                                 *)
(***************************************************************************)
VerboseApp(g, appTime) == [g EXCEPT !.app = Total(Ranks, LAMBDA r : appTime[r])]
ConciseApp(g, appTime) == [g EXCEPT !.app = @ + Total(Ranks, LAMBDA r : appTime[r])]

VerboseTasks(g, appTime) ==
    {[rank |-> r, app |-> appTime[r], mpi |-> g.task[r]] : r \in Ranks}
    \cup {[rank |-> Star, app |-> g.app, mpi |-> g.total["time"]]}

\* Maximum and minimum with the lowest rank that has them, and the sum.
Extremes(value, rank) ==
    LET values == Range(value)
        At(v) == Min({rank[x] : x \in {y \in DOMAIN value : value[y] = v}})
    IN [max |-> Max(values \cup {0}), min |-> Min(values),
        maxRank |-> IF Max(values) > 0 THEN At(Max(values)) ELSE NoRank,
        minRank |-> At(Min(values)), sum |-> Total(DOMAIN value, LAMBDA x : value[x])]

ConciseTasks(g, appTime) ==
    LET own == [r \in Ranks |-> r]
    IN {Extremes([r \in Ranks |-> appTime[r]], own), Extremes(g.task, own)}

(***************************************************************************)
(* The callsites: what is printed of each entry of the source cache.       *)
(***************************************************************************)
Wrapper(loc) == loc.file = "mpiP-wrappers.c"
IsMain(loc) == loc.func \in {"main", ".main", "MAIN__"}

\* The frames outside the wrappers, down to main and no more than the depth.
Frames(e, depth) ==
    LET user == SelectSeq(e.src, LAMBDA loc : ~Wrapper(loc))
        mains == {i \in DOMAIN user : IsMain(user[i])}
    IN SubSeq(user, 1, Min({Len(user), depth} \cup mains))

CallsiteRows(srcs, s) ==
    IF s.depth = 0 THEN Absent
    ELSE {[id |-> e.id, op |-> e.op, frames |-> Frames(e, s.depth)] : e \in srcs}

(***************************************************************************)
(* The lists of the greatest.                                              *)
(***************************************************************************)
\* Mutant: ascending.
Descending_Reversed(value) ==
    CHOOSE seq \in SetToSeqs(DOMAIN value) :
        \A i, j \in DOMAIN seq : i < j => value[seq[i]] <= value[seq[j]]

\* The callsite_sort_by_cumulative_*; equals come in any order.
Descending(value) ==
    CHOOSE seq \in SetToSeqs(DOMAIN value) :
        \A i, j \in DOMAIN seq : i < j => value[seq[i]] >= value[seq[j]]

TopTable(g, s) == IF s.depth > 0 THEN g.agg ELSE g.ops

TopRows(g, s, f) ==
    LET sorted == Descending([p \in TopTable(g, s) |-> p.sum[f]])
        top == SubSeq(sorted, 1, MinOf(TopLines, Len(sorted)))
    IN {[site |-> p.csid, op |-> p.op, count |-> p.count, sum |-> p.sum[f],
         of |-> g.total[f]] : p \in {q \in Range(top) : q.sum[f] > 0}}

TopTime(g, s) == TopRows(g, s, "time")
TopSent(g, s) == IF g.total["sent"] > 0 THEN TopRows(g, s, "sent") ELSE Absent
TopIO(g, s) == IF g.total["io"] > 0 THEN TopRows(g, s, "io") ELSE Absent
TopRMA(g, s) == IF g.total["rma"] > 0 THEN TopRows(g, s, "rma") ELSE Absent

\* The line under the list of sizes.
LargeMessages(g, s) ==
    IF g.total["sent"] > 0 /\ s.threshold >= 0
    THEN {[large |-> g.large, of |-> g.sentCount]} ELSE Absent

\* The cells of a histogram; a cell is an operation and two bins.
CellRows(g, cells, hist) ==
    LET used == {c \in cells : hist[c] > 0}
        sorted == Descending([c \in used |-> hist[c]])
        top == SubSeq(sorted, 1, MinOf(TopLines, Len(sorted)))
    IN IF g.total["sent"] = 0 THEN Absent
       ELSE {[op |-> c[1], comm |-> BinBounds(c[2]), data |-> BinBounds(c[3]),
              value |-> hist[c]] : c \in Range(top)}

TopCollective(g, hist) ==
    CellRows(g, {c \in DOMAIN hist : c[1] \in CollOps}, hist)
TopPt2pt(g, hist) ==
    CellRows(g, {c \in DOMAIN hist : c[1] \notin CollOps}, hist)

(***************************************************************************)
(* Every rank of every callsite.                                           *)
(***************************************************************************)
RankRow(p, f) ==
    [site |-> p.csid, rank |-> p.rank, count |-> p.count,
     sum |-> p.sum[f], max |-> p.max[f], min |-> p.min[f]]

SummaryRow(site, S, f) ==
    [site |-> site, rank |-> Star, count |-> Total(S, LAMBDA p : p.count),
     sum |-> Total(S, LAMBDA p : p.sum[f]),
     max |-> Max({p.max[f] : p \in S} \cup {0}),
     min |-> Min({p.min[f] : p \in S} \cup {Large})]

OfSite(table, site) == {p \in table : p.csid = site}
SitesOf(table) == {p.csid : p \in table}

\* reportPrintThreshold, in percent of the MPI time of the rank.
AboveThreshold(g, s, p) ==
    g.task[p.rank] # 0 /\ 100 * p.sum["time"] >= s.printThreshold * g.task[p.rank]

AllTime(g, s) ==
    {RankRow(p, "time") : p \in {q \in g.stats : AboveThreshold(g, s, q)}}
    \cup {SummaryRow(site, OfSite(g.stats, site), "time") : site \in SitesOf(g.stats)}

\* Mutant: the records without data count as well.
Active_All(table, f) == table

\* The other sections leave out records without data of their kind.
Active(table, f) == {p \in table : p.sum[f] > 0}

AllRows(table, f) ==
    {RankRow(p, f) : p \in Active(table, f)}
    \cup {SummaryRow(site, OfSite(Active(table, f), site), f)
            : site \in SitesOf(Active(table, f))}

AllSent(g) == IF g.total["sent"] > 0 THEN AllRows(g.stats, "sent") ELSE Absent
AllIO(g) == IF g.total["io"] > 0 THEN AllRows(g.stats, "io") ELSE Absent
AllRMA(g) == IF g.total["rma"] > 0 THEN AllRows(g.stats, "rma") ELSE Absent

(***************************************************************************)
(* One row for a callsite.                                                 *)
(***************************************************************************)
ConciseRow(site, S, f) ==
    LET e == Extremes([p \in S |-> p.sum[f]], [p \in S |-> p.rank])
    IN [site |-> site, tasks |-> Cardinality(S), sum |-> e.sum, max |-> e.max, min |-> e.min,
        maxRank |-> e.maxRank, minRank |-> e.minRank]

ConciseRows(table, f, sites) == {ConciseRow(site, OfSite(table, site), f) : site \in sites}

\* The array of summaries has a place for each entry of the source cache; a
\* callsite that is not the last finds out that it has none.
Overrun(table, srcs) == Cardinality(SitesOf(table)) > Cardinality(srcs) + 1

ConciseTime(g, srcs) ==
    IF Overrun(g.stats, srcs) THEN Absent
    ELSE ConciseRows(g.stats, "time", SitesOf(g.stats))

\* csidx, the index of the last callsite with data, is compared with zero: one
\* such callsite alone is not printed.
ConciseSection(g, f) ==
    LET sites == SitesOf(Active(g.stats, f)) IN
    IF Cardinality(sites) > 1 THEN ConciseRows(g.stats, f, sites) ELSE Absent

ConciseSent(g) == ConciseSection(g, "sent")
ConciseIO(g) == IF g.total["io"] > 0 THEN ConciseSection(g, "io") ELSE Absent
ConciseRMA(g) == IF g.total["rma"] > 0 THEN ConciseSection(g, "rma") ELSE Absent

(***************************************************************************)
(* A site at a time, with the other ranks (mpiPi_coll_print_...): what    *)
(* the collector prints of the records that the ranks have looked up.      *)
(***************************************************************************)
\* Every rank's record counts towards the row for all.
GatheredTime(g, s, site, data) ==
    LET all == {data[r] : r \in Ranks}
        shown == {p \in all : p.count > 0 /\ AboveThreshold(g, s, p)}
    IN {[RankRow(p, "time") EXCEPT !.site = site] : p \in shown}
       \cup IF Total(all, LAMBDA p : p.count) > 0
            THEN {SummaryRow(site, all, "time")} ELSE {}

GatheredRows(site, data, f) ==
    LET active == Active({data[r] : r \in Ranks}, f) IN
    {[RankRow(p, f) EXCEPT !.site = site] : p \in active}
    \cup IF active # {} THEN {SummaryRow(site, active, f)} ELSE {}

CollectiveSent(site, data) == GatheredRows(site, data, "sent")
CollectiveIO(site, data) == GatheredRows(site, data, "io")
CollectiveRMA(site, data) == GatheredRows(site, data, "rma")

\* The four reductions: MINLOC over the ranks with data, MAXLOC, SUM, and SUM of
\* the ranks that count as tasks.
ReducedRow(site, data, f, tasks) ==
    LET active == Active({data[r] : r \in Ranks}, f)
        all == {data[r] : r \in Ranks}
        greatest == Max({p.sum[f] : p \in all})
        least == Min({p.sum[f] : p \in active} \cup {Large})
        At(v, S) == Min({p.rank : p \in {q \in S : q.sum[f] = v}} \cup
                        IF S = {} THEN Ranks ELSE {})
    IN [site |-> site, max |-> greatest, min |-> least,
        maxRank |-> At(greatest, all), minRank |-> At(least, active),
        sum |-> Total(all, LAMBDA p : p.sum[f]),
        tasks |-> Cardinality(tasks)]

ReducedTime(site, data) ==
    {ReducedRow(site, data, "time", {r \in Ranks : data[r].count > 0})}
\* The ranks with data of the other quantities.
WithData(data, f) == {r \in Ranks : data[r].sum[f] > 0}
ReducedSent(site, data) == {ReducedRow(site, data, "sent", WithData(data, "sent"))}
ReducedIO(site, data) == {ReducedRow(site, data, "io", WithData(data, "io"))}
ReducedRMA(site, data) == {ReducedRow(site, data, "rma", WithData(data, "rma"))}
=============================================================================
