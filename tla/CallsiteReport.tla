--------------------------- MODULE CallsiteReport ---------------------------
(***************************************************************************)
(* From MPI calls to the report: calls are recorded per thread and         *)
(* callsite, merged per rank, named and merged by the collector, and       *)
(* printed, by the collector alone or with the collective operations of    *)
(* the option -l.  MPI_Pcontrol makes reports (levels 3 and 4) and resets  *)
(* (level 2) in between.  All ranks make a report together and wait for    *)
(* its end; StatTables and ReportMerge look at what happens besides.       *)
(*                                                                         *)
(* setup is what the options have chosen, and what the machine supplies:   *)
(* room, that malloc succeeds, and stale, what an uninitialized buffer of  *)
(* the collector holds.                                                    *)
(***************************************************************************)
EXTENDS SiteReport

CONSTANTS Threads,      \* Threads[r]: the threads of rank r in MPIPI_MODE_MT
          Main,         \* the only one in MPIPI_MODE_ST
          Kinds,        \* calls: callsite (operation and stack), time and bytes
          CommSize,     \* the size of the communicator
          Setups,       \* the setups considered
          MaxCalls,     \* how many calls each setup is looked at with
          MaxReports, MaxResets

(* A call keeps a stack of program counters and amounts no greater than     *)
(* DBL_MAX.  The first frame of a stack is that of the wrapper, and each    *)
(* operation has its own (mpiP-wrappers.c).                                 *)
ASSUME CallsAssumption ==
    /\ Kinds \subseteq [site : [op : Operations, pc : Seq(Nat)],
                        amount : [Fields -> 0 .. Large]]
    /\ \A k, l \in Kinds : k.site.pc = l.site.pc => k.site.op = l.site.op
    /\ \A r \in Ranks : IsFiniteSet(Threads[r]) /\ Main \in Threads[r]
    /\ \A s \in Setups : s.depth \in Nat /\ s.threshold \in Int /\ s.printThreshold \in Nat

VARIABLES
    setup,
    table,      \* table[r][t]: stat->cs_stats of thread t
    rank,       \* rank[r]: rank_stats, what the rank reports
    hist,       \* hist[r]: time or bytes per operation and bins, all threads
    rankHist,   \* rankHist[r]: those of rank_stats
    pcs,        \* callsite_pc_cache
    srcs,       \* callsite_src_id_cache
    counter,    \* callsite_src_id_counter
    g,          \* the tables and totals of the collector
    names,      \* global_task_hostnames: "null", "blank" or "names"
    ctl,        \* where the report stands
    loc,        \* loc[r]: where rank r stands in a collective section
    printed,    \* the sections of the last report
    reports, resets, made,
    calls,      \* history: the bag of calls since the last reset
    named,      \* history: the numbers given to callsites since then
    since       \* history: the reports printed since then

tables == <<table, hist>>
ranks == <<rank, rankHist>>
caches == <<pcs, srcs, counter, named>>
bounds == <<setup, reports, resets, made>>
vars == <<bounds, tables, ranks, caches, g, names, ctl, loc, printed, calls, since>>

ThreadsUsed(r) == IF setup.mode = "mt" THEN Threads[r] ELSE {Main}
Cells == {<<k.site.op, Bin(CommSize), Bin(k.amount["sent"])>> : k \in Kinds}
Running == [pc |-> "run", pending |-> {}, from |-> Collector, style |-> "none",
            styles |-> <<>>]
Outside == [at |-> "outside", n |-> 0, i |-> 0, ac |-> 0]
AppTime == [r \in Ranks |-> 1]
Buffer(stale) == [NewCallsite(Collector, 0, <<>>) EXCEPT !.sum["rma"] = stale]

Init ==
    /\ setup \in Setups
    /\ table = [r \in Ranks |-> [t \in Threads[r] |-> {}]]
    /\ rank = [r \in Ranks |-> {}]
    /\ hist = [r \in Ranks |-> [c \in Cells |-> 0]]
    /\ rankHist = hist
    /\ pcs = <<>> /\ srcs = {} /\ counter = 1
    /\ g = GlobalInit
    /\ names = "null"
    /\ ctl = Running
    /\ loc = [r \in Ranks |-> Outside]
    /\ printed = <<>>
    /\ reports = 0 /\ resets = 0 /\ made = 0
    /\ calls = <<>> /\ named = {} /\ since = 0

(***************************************************************************)
(* The program calls MPI.                                                  *)
(***************************************************************************)
\* Mutant: every rank records.
Profiled_All(r) == TRUE

\* Only rank 0 keeps records, unless -A was given.
Profiled(r) == r = 0 \/ setup.allRanks

\* mpiPi_stats_thr_cs_upd.
Recorded(records, r, site, amount) ==
    LET found == Matching(records, NewCallsite(r, site.op, site.pc), SamePc)
        csp == IF found = {} THEN NewCallsite(r, site.op, site.pc)
               ELSE CHOOSE p \in found : TRUE
    IN (records \ found) \cup {UpdateCallsite(csp, amount, setup.threshold)}

\* Mutant: the bytes of a collective operation are added to its times.
CellAmount_Bytes(op, amount) == amount["sent"]

\* _update_dur_stat of the collective operations, _update_msize_stat else.
CellAmount(op, amount) == IF op \in CollOps THEN amount["time"] ELSE amount["sent"]

Cell(op, amount) == <<op, Bin(CommSize), Bin(amount["sent"])>>

Counting(k) ==
    [j \in DOMAIN calls \cup {k} |->
        IF j # k THEN calls[j] ELSE IF k \in DOMAIN calls THEN calls[k] + 1 ELSE 1]

Call(r, t, site, amount) ==
    /\ ctl.pc = "run" /\ made < MaxCalls[setup]
    /\ made' = made + 1
    /\ table' = IF Profiled(r)
                THEN [table EXCEPT ![r][t] = Recorded(@, r, site, amount)] ELSE table
    /\ hist' = [hist EXCEPT ![r][Cell(site.op, amount)] = @ + CellAmount(site.op, amount)]
    /\ LET k == [rank |-> r, thread |-> t, site |-> site, amount |-> amount]
       IN calls' = Counting(k)
    /\ printed' = <<>>
    /\ UNCHANGED <<setup, reports, resets, ranks, caches, g, names, ctl, loc, since>>

(***************************************************************************)
(* A report begins: mpiPi_stats_mt_merge, mpiPi_collect_basics.            *)
(***************************************************************************)
\* mpiPi_stats_thr_cs_merge of one thread into the records of the rank.
MergedThread(into, records) ==
    FoldSet(LAMBDA p, acc : Accumulate(acc, p,
                                MergeCallsite(NewCallsite(p.rank, p.op, p.pc), p), SamePc),
            into, records)

MergedThreads(r) ==
    IF setup.mode = "st" THEN table[r][Main]
    ELSE FoldSet(LAMBDA t, acc : MergedThread(acc, table[r][t]), {}, Threads[r])

\* mpiPi_stats_thr_coll_merge adds to what was merged for earlier reports.
MergedHist(r) ==
    IF setup.mode = "st" THEN hist[r] ELSE [c \in Cells |-> rankHist[r][c] + hist[r][c]]

\* The names are gathered for a verbose report, else what is there is cleared.
Hostnames(style) ==
    IF style \in {"verbose", "both"} THEN "names"
    ELSE IF names = "null" THEN "null" ELSE "blank"

\* With no record on any rank the report is omitted.
Report(style) ==
    /\ ctl.pc = "run" /\ reports < MaxReports
    /\ reports' = reports + 1
    /\ names' = Hostnames(style)
    /\ rank' = [r \in Ranks |-> MergedThreads(r)]
    /\ rankHist' = [r \in Ranks |-> MergedHist(r)]
    /\ printed' = <<>>
    /\ LET all == UNION {MergedThreads(r) : r \in Ranks} IN
       IF all = {} THEN UNCHANGED <<ctl, g, since>>
       ELSE /\ since' = since + 1
            /\ ctl' = [Running EXCEPT !.pc = "merge", !.pending = all, !.style = style]
            /\ g' = OpenTables(g)
    /\ UNCHANGED <<setup, resets, made, tables, caches, loc, calls>>

\* The records that may be next: the collector's own, then one message after
\* the other.
NextRecords ==
    LET current == {p \in ctl.pending : p.rank = ctl.from}
    IN IF current # {} THEN current ELSE ctl.pending

InsertCallsite ==
    /\ ctl.pc = "merge"
    /\ \E p \in NextRecords :
         LET cache == FoldSeq(LAMBDA pc, c : QueryPc(c, pc, setup.lookup), pcs, p.pc)
             key == SourceKey(p, cache, setup.lookup)
             found == QuerySrc(srcs, counter, key, setup.depth)
         IN /\ pcs' = IF setup.lookup THEN cache ELSE pcs
            /\ srcs' = found.srcs
            /\ counter' = found.counter
            /\ named' = named \cup {[site |-> [op |-> p.op, pc |-> p.pc], id |-> found.id]}
            /\ g' = InsertRecord(g, [p EXCEPT !.csid = found.id], setup)
            /\ ctl' = [ctl EXCEPT !.pending = @ \ {p}, !.from = p.rank,
                           !.pc = IF ctl.pending = {p} THEN "publish" ELSE "merge"]
    /\ UNCHANGED <<bounds, tables, ranks, names, loc, printed, calls, since>>

(***************************************************************************)
(* mpiPi_publishResults, for one style after the other.                    *)
(***************************************************************************)
Styles == IF setup.style = "both" THEN <<"concise", "verbose">> ELSE <<ctl.style>>

Publish ==
    /\ ctl.pc = "publish"
    /\ g' = IF setup.depth = 0 THEN InsertOperations(g) ELSE g
    /\ ctl' = [ctl EXCEPT !.pc = "print", !.styles = Styles]
    /\ UNCHANGED <<bounds, tables, ranks, caches, names, loc, printed, calls, since>>

TotalHist == [c \in Cells |-> Total(Ranks, LAMBDA r : rankHist[r][c])]

Detailed == setup.detail /\ ~setup.collective

\* What both styles print of the collector's tables, with what differs: the times
\* of the tasks, and the rows for each callsite.
Page(h, tasks, rows) ==
    [topTime |-> TopTime(h, setup), topSent |-> TopSent(h, setup),
     topIO |-> TopIO(h, setup), topRMA |-> TopRMA(h, setup),
     large |-> LargeMessages(h, setup),
     topCollective |-> TopCollective(h, TotalHist), topPt2pt |-> TopPt2pt(h, TotalHist),
     sites |-> IF setup.detail THEN CallsiteRows(srcs, setup) ELSE Absent,
     tasks |-> tasks, app |-> h.app, names |-> names,
     time |-> IF Detailed THEN rows["time"] ELSE Absent,
     sent |-> IF Detailed THEN rows["sent"] ELSE Absent,
     io |-> IF Detailed THEN rows["io"] ELSE Absent,
     rma |-> IF Detailed THEN rows["rma"] ELSE Absent]

\* mpiPi_profile_print_concise and mpiPi_profile_print_verbose, before the
\* collective sections.
Concise(h) ==
    Page(h, ConciseTasks(h, AppTime),
         [time |-> ConciseTime(h, srcs), sent |-> ConciseSent(h),
          io |-> ConciseIO(h), rma |-> ConciseRMA(h)])

Verbose(h) ==
    Page(h, VerboseTasks(h, AppTime),
         [time |-> AllTime(h, setup), sent |-> AllSent(h),
          io |-> AllIO(h), rma |-> AllRMA(h)])

NextStyle(c) ==
    IF Len(c.styles) = 1 THEN Running ELSE [c EXCEPT !.styles = Tail(@), !.pc = "print"]

Order == <<"time", "sent", "io", "rma">>

\* Where a rank enters the section n: the verbose ones but the first begin by
\* broadcasting whether there is anything to print.
Enter(style, n) ==
    [Outside EXCEPT !.n = n,
        !.at = IF n > Len(Order) THEN "end"
               ELSE IF style = "concise" THEN "count"
               ELSE IF Order[n] = "time" THEN "malloc" ELSE "gate"]

ProfilePrint ==
    /\ ctl.pc = "print"
    /\ LET style == Head(ctl.styles)
           h == IF style = "verbose" THEN VerboseApp(g, AppTime) ELSE ConciseApp(g, AppTime)
       IN /\ g' = h
          /\ printed' = [p \in DOMAIN printed \cup {style} |->
                          IF p \in DOMAIN printed THEN printed[p]
                          ELSE IF style = "verbose" THEN Verbose(h) ELSE Concise(h)]
          /\ IF setup.detail /\ setup.collective
             THEN /\ ctl' = [ctl EXCEPT !.pc = "collective"]
                  /\ loc' = [r \in Ranks |-> Enter(style, 1)]
             ELSE /\ ctl' = NextStyle(ctl)
                  /\ UNCHANGED loc
    /\ UNCHANGED <<bounds, tables, ranks, caches, names, calls, since>>

(***************************************************************************)
(* The collective sections.  Every rank is at a collective operation, and  *)
(* a step is one that all perform.  Root of all of them is the collector.  *)
(***************************************************************************)
Style == Head(ctl.styles)
Field(r) == Order[loc[r].n]

\* The callsites in the order in which the collector takes them, that of their
\* numbers or of their data; a concise section but the first passes over those
\* without any.
Listed(f) ==
    IF Style = "verbose" THEN Descending([p \in g.agg |-> -p.csid])
    ELSE LET listed == IF f = "time" THEN g.agg ELSE Active(g.agg, f)
         IN Descending([p \in listed |-> p.sum[f]])

\* The callsite of the collector's present round.
Current == Listed(Field(Collector))[loc[Collector].i + 1]

\* What the gate of a verbose section broadcasts.
Gate(f) == IF f = "sent" THEN g.sentCount ELSE g.total[f]

\* Mutant: the collector's loop runs over all callsites, not over those counted.
Rounds_AllOwn(r, f) == IF r = Collector THEN Cardinality(g.agg) ELSE Len(Listed(f))

\* The count that rank r has after the broadcast.
Rounds(r, f) == Len(Listed(f))

\* The first operation of a round.
RoundBegin(f) == IF Style = "verbose" /\ f # "time" THEN "total" ELSE "record"

Leave(l) == Enter(Style, l.n + 1)
Round(l, f) == IF l.i < l.ac THEN [l EXCEPT !.at = RoundBegin(f)] ELSE Leave(l)
NextRound(l, f) == Round([l EXCEPT !.i = @ + 1], f)

\* mpiPi_stats_thr_cs_lookup: the rank's own record, or the buffer, cleared.
\* The buffer is what was broadcast, but for the collector, which sends from
\* its table.
LookupBuffer(r) == IF r = Collector THEN Buffer(setup.stale) ELSE Current

Dummy(r, toZero) ==
    LET clear == ResetStat(LookupBuffer(r)) IN
    [clear EXCEPT !.rank = r,
                  !.min = Each(LAMBDA f : IF toZero /\ ~Kept(f) THEN 0 ELSE clear.min[f])]

Lookup(r) ==
    LET found == Matching(rank[r], Current, {"op", "pc"})
    IN IF found = {} THEN Dummy(r, Style = "verbose") ELSE CHOOSE p \in found : TRUE

VerboseRound(site, data, f) ==
    CASE f = "time" -> GatheredTime(g, setup, site, data)
      [] f = "sent" -> CollectiveSent(site, data)
      [] f = "io"   -> CollectiveIO(site, data)
      [] f = "rma"  -> CollectiveRMA(site, data)

ConciseRound(site, data, f) ==
    CASE f = "time" -> ReducedTime(site, data)
      [] f = "sent" -> ReducedSent(site, data)
      [] f = "io"   -> ReducedIO(site, data)
      [] f = "rma"  -> ReducedRMA(site, data)

RoundRows(f) ==
    LET data == [r \in Ranks |-> Lookup(r)] IN
    IF Style = "concise" THEN ConciseRound(Current.csid, data, f)
    ELSE VerboseRound(Current.csid, data, f)

\* Rank r after the operation at which it stands.
After(r, f) ==
    LET l == loc[r] IN
    CASE l.at = "gate"   -> IF Gate(f) > 0 THEN [l EXCEPT !.at = "malloc"] ELSE Leave(l)
      [] l.at = "malloc" -> IF setup.room THEN [l EXCEPT !.at = "count"] ELSE Leave(l)
      [] l.at = "count"  -> Round([l EXCEPT !.ac = Rounds(r, f)], f)
      [] l.at = "total"  -> IF Current.sum[f] > 0 THEN [l EXCEPT !.at = "record"]
                            ELSE NextRound(l, f)
      [] l.at = "record" -> [l EXCEPT !.at = "rows"]
      [] l.at = "rows"   -> NextRound(l, f)

Together == \A r, q \in Ranks : loc[r].at = loc[q].at /\ loc[r].n = loc[q].n

Meet ==
    /\ ctl.pc = "collective" /\ Together /\ loc[Collector].at # "end"
    /\ LET f == Field(Collector) IN
       /\ loc' = [r \in Ranks |-> After(r, f)]
       /\ printed' = IF loc[Collector].at = "rows"
                     THEN [printed EXCEPT ![Style][f] = @ \cup RoundRows(f)] ELSE printed
    /\ UNCHANGED <<bounds, tables, ranks, caches, g, names, ctl, calls, since>>

\* The barrier behind the sections.
Barrier ==
    /\ ctl.pc = "collective" /\ Together /\ loc[Collector].at = "end"
    /\ loc' = [r \in Ranks |-> Outside]
    /\ ctl' = NextStyle(ctl)
    /\ UNCHANGED <<bounds, tables, ranks, caches, g, names, printed, calls, since>>

(***************************************************************************)
(* MPI_Pcontrol(2).                                                        *)
(***************************************************************************)
\* Mutant: the source cache keeps its entries.
Forgotten_None(cached) == cached

\* callsite_src_id_cache is drained; its counter and callsite_pc_cache stay.
Forgotten(cached) == {}

Reset ==
    /\ ctl.pc = "run" /\ resets < MaxResets /\ calls # <<>>
    /\ resets' = resets + 1
    /\ table' = [r \in Ranks |-> [t \in Threads[r] |-> {}]]
    /\ rank' = [r \in Ranks |-> {}]
    /\ srcs' = Forgotten(srcs)
    /\ g' = ResetTotals(g)
    /\ printed' = <<>>
    /\ calls' = <<>> /\ named' = {} /\ since' = 0
    /\ UNCHANGED <<setup, reports, made, hist, rankHist, pcs, counter, names, ctl, loc>>

PcontrolReport == \E style \in {"verbose", "concise", setup.style} : Report(style)

Next ==
    \/ \E r \in Ranks : \E t \in ThreadsUsed(r), k \in Kinds :
           Call(r, t, k.site, k.amount)
    \/ PcontrolReport \/ InsertCallsite \/ Publish \/ ProfilePrint \/ Meet \/ Barrier
    \/ Reset

Spec == Init /\ [][Next]_vars

-----------------------------------------------------------------------------
(***************************************************************************)
(* The calls, from which the report is known: a bag of them.               *)
(***************************************************************************)
\* The calls of the ranks that keep records.
Counted == {k \in DOMAIN calls : k.rank = 0 \/ setup.allRanks}

\* What a row stands for: a callsite, or an operation at stack depth zero.
Key(site) == IF setup.depth = 0 THEN site.op ELSE site
Keys == {Key(k.site) : k \in Counted}
IdOf(x) == (CHOOSE n \in named : Key(n.site) = x).id

CallsOf(R, X) == {k \in Counted : k.rank \in R /\ Key(k.site) \in X}
CountOf(K) == Total(K, LAMBDA k : calls[k])
SumOf(K, f) == Total(K, LAMBDA k : calls[k] * k.amount[f])
GreatestOf(K, f) == Max({k.amount[f] : k \in K})
LeastOf(K, f) == Min({k.amount[f] : k \in K})

RowOf(x, rk, K, f) ==
    [site |-> IdOf(x), rank |-> rk, count |-> CountOf(K), sum |-> SumOf(K, f),
     max |-> GreatestOf(K, f), min |-> LeastOf(K, f)]

\* The ranks that have data of this kind for x.
With(x, f) == {r \in Ranks : IF f = "time" THEN CallsOf({r}, {x}) # {}
                              ELSE SumOf(CallsOf({r}, {x}), f) > 0}
Shown(x, f) ==
    IF f # "time" THEN With(x, f)
    ELSE {r \in With(x, f) :
            LET mine == SumOf(CallsOf({r}, Keys), f) IN
            mine > 0 /\ 100 * SumOf(CallsOf({r}, {x}), f) >= setup.printThreshold * mine}

RowsFromCalls(f) ==
    UNION {{RowOf(x, r, CallsOf({r}, {x}), f) : r \in Shown(x, f)}
           \cup (IF With(x, f) = {} THEN {}
                 ELSE {RowOf(x, Star, CallsOf(With(x, f), {x}), f)}) : x \in Keys}

\* A merge loses the extremes of one-sided calls, and a rank without the
\* callsite makes the collective minimum of all ranks zero.
Comparable(row, f) ==
    [row EXCEPT !.max = IF f = "rma" THEN 0 ELSE @,
                !.min = IF f = "rma" \/ (setup.collective /\ row.rank = Star) THEN 0 ELSE @]

Done(style) == style \in DOMAIN printed /\ ctl.pc # "collective"
\* Collective lookups of one-sided data and by operation go wrong.
Reliable(f) == setup.collective => f # "rma" /\ setup.depth > 0
Printable == setup.detail /\ (setup.collective => setup.room)

\* A verbose report shows for each rank and callsite, and for each callsite in
\* all, the number of the calls, their sum, their greatest and their least:
\* whatever the threads, the order of merging, the earlier reports and resets,
\* and the way of reporting (mpiPi_print_all_callsite_..., mpiPi_coll_print_all_...).
\* Without -A there are the calls of rank 0 only.
RowsOfCalls ==
    Done("verbose") => \A f \in Fields :
        Reliable(f) =>
            {Comparable(row, f) : row \in printed["verbose"][f]}
                = IF Printable THEN {Comparable(row, f) : row \in RowsFromCalls(f)} ELSE {}

ConciseFromCalls(x, f) ==
    LET Sum(r) == SumOf(CallsOf({r}, {x}), f)
        called == {r \in Ranks : CallsOf({r}, {x}) # {}}
        S == IF setup.collective THEN {r \in called : Sum(r) > 0} ELSE called
        greatest == Max({Sum(r) : r \in called})
        least == IF greatest > 0 THEN Min({Sum(r) : r \in S}) ELSE 0
        First(v) == IF greatest > 0 THEN Min({r \in called : Sum(r) = v}) ELSE NoRank
    IN [site |-> IdOf(x), tasks |-> Cardinality(IF f = "time" THEN called ELSE S),
        sum |-> SumOf(CallsOf(Ranks, {x}), f), max |-> greatest, min |-> least,
        maxRank |-> First(greatest), minRank |-> First(least)]

\* If no rank has taken any time there are no extremes: max_rnk is not assigned
\* (report.c:1189), the collective minimum is DBL_MAX (report.c:2086).
Definite(row) ==
    IF row.max > 0 THEN row
    ELSE [row EXCEPT !.min = 0, !.maxRank = NoRank, !.minRank = NoRank]

\* A concise report shows for each callsite the ranks that called it with their
\* sum, the greatest and the least of their sums and who has them; a section
\* other than that of the times shows those with data, and none if it is only
\* one (mpiPi_print_concise_callsite_..., mpiPi_coll_print_concise_...).  The
\* collective sections take the least among the ranks with data.
ConciseOfCalls ==
    Done("concise") => \A f \in Fields :
        Reliable(f) =>
            LET data == {x \in Keys : SumOf(CallsOf(Ranks, {x}), f) > 0}
                rows == {ConciseFromCalls(x, f) : x \in IF f = "time" THEN Keys ELSE data}
            IN {Definite(row) : row \in printed["concise"][f]} =
                  IF ~setup.detail THEN {}
                  ELSE IF ~setup.collective /\ f # "time" /\ Cardinality(data) = 1 THEN {}
                  ELSE rows

\* A callsite keeps its number from report to report, on all ranks and in all
\* threads, and shares it with no other, until a reset; the list of callsites
\* has those that were called since (mpiPi_query_src, mpiPi_print_callsites).
SitesIdentified ==
    /\ \A m, n \in named : Key(m.site) = Key(n.site) <=> m.id = n.id
    /\ \A style \in DOMAIN printed :
          {[id |-> row.id, op |-> row.op] : row \in printed[style].sites} =
              IF setup.detail /\ setup.depth > 0
              THEN {[id |-> IdOf(x), op |-> x.op] : x \in Keys} ELSE {}

TopOfCalls(rows, f) ==
    LET Sum(x) == SumOf(CallsOf(Ranks, {x}), f)
        listed == {x \in Keys : IdOf(x) \in {row.site : row \in rows}}
    IN /\ \A row \in rows : \E x \in listed :
             /\ row.site = IdOf(x) /\ row.sum = Sum(x)
             /\ row.count = CountOf(CallsOf(Ranks, {x}))
             /\ row.of = SumOf(Counted, f)
       /\ \A x \in Keys \ listed :
             Sum(x) = 0 \/ (Cardinality(rows) = TopLines /\ \A y \in listed : Sum(y) >= Sum(x))

\* The calls of a rank at a callsite count as messages if one of them sends
\* data (mpiPi_insert_callsite_records).
Sending == {k \in Counted : \E l \in Counted : /\ l.rank = k.rank /\ l.site = k.site
                                             /\ l.amount["sent"] > 0}

\* The lists of the greatest are sorted and cut where they should be, and their
\* totals are those of the calls: for bytes of I/O and of one-sided calls, the
\* application time of a concise report and the messages counted only in the
\* first report (mpiPi_mergeResults clears two of its totals).
ListsOfCalls ==
    \A style \in DOMAIN printed :
        LET p == printed[style] IN
        /\ TopOfCalls(p.topTime, "time") /\ TopOfCalls(p.topSent, "sent")
        /\ since = 1 => TopOfCalls(p.topIO, "io") /\ TopOfCalls(p.topRMA, "rma")
        /\ since = 1 \/ style = "verbose" => p.app = Cardinality(Ranks)
        /\ style = "verbose" => \A r \in Ranks :
              \E row \in p.tasks : row.rank = r /\ row.mpi = SumOf(CallsOf({r}, Keys), "time")
        /\ since = 1 => \A row \in p.large :
              /\ row.large = CountOf({k \in Sending : k.amount["sent"] >= setup.threshold})
              /\ row.of = CountOf(Sending)

\* The calls whose size lies in the bounds of a row of a histogram.
InBounds(row) == {k \in DOMAIN calls : /\ k.site.op = row.op
                                       /\ CommSize \in row.comm
                                       /\ k.amount["sent"] \in row.data}
HistOfCalls(rows, f) == \A row \in rows : row.value = SumOf(InBounds(row), f)

\* A row of a histogram has what falls into the bounds it prints.  With several
\* threads this is so in the first report, also if that is omitted: each report
\* adds the histograms again, and a reset keeps them.
HistogramsOfCalls ==
    resets = 0 /\ (setup.mode = "st" \/ reports = 1) =>
        \A style \in DOMAIN printed :
            /\ HistOfCalls(printed[style].topCollective, "time")
            /\ HistOfCalls(printed[style].topPt2pt, "sent")

\* Of the records of one rank no two are merged into one callsite, which keeps a
\* time for each record in an array with one place per rank (mpiPi.c:236), and
\* the callsites of a concise report are no more than the entries of the source
\* cache, by which its array is allocated (report.c:1145).  Operations merge
\* several callsites of a rank: -k 0 therefore switches the array off
\* (util.c:181), a default depth of zero does not (mpiPi.c:128).
ArraysFit ==
    /\ setup.depth > 0 \/ ~setup.cov =>
          \A c, d \in g.covRoom : c[1] = d[1] /\ c[2] = d[2] /\ c[4] = d[4] => c = d
    /\ ctl.pc = "print" => Cardinality(SitesOf(g.stats)) <= Cardinality(srcs)

\* In the collective sections all ranks are at the same operation: none waits
\* for one that the others have passed or never reach.
CollectivesMatch == ctl.pc = "collective" => Together

\* "-v  Generates both concise and verbose report output" (doc/UserGuide.md:71):
\* the task assignment that a verbose report prints has been gathered.
HostnamesGathered == "verbose" \in DOMAIN printed => printed["verbose"].names = "names"
=============================================================================
