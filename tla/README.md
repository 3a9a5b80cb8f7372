# TLA+ models of mpiP (A-mpiP)

mpiP is a profiling library that is linked into an MPI program. It wraps every
MPI routine, measures how long each call takes, keeps statistics per thread and
per callsite, and lets the program open and close the measurement with
`MPI_Pcontrol`. At `MPI_Finalize`, or on request, all ranks merge what they have
on one of them, the collector, which prints a report.

This directory holds TLA+ specifications of mpiP, from the recording of a call to
the printed report, its options, its trace and its source lookup; TLC configurations that check them on small instances; and proofs, checked by
TLAPS, for instances of any size. `PROJECT.json` says for each definition which
lines of the source it models.

## The system

| Component | State | Operations | What makes it hard | What makes it correct | Modules |
|---|---|---|---|---|---|
| Thread list (`mpiP-tslist.c`) | a linked list with a dummy head, a tail pointer | create, append, dequeue, first, next, release | lock-free: appends by any thread against a dequeue and walks by one | no use after free; first in, first out | `TSList` |
| Thread registry (`mpiP-mt-stats.c`) | one handle per thread, reached by a pthread key and by the list | gettls (registers a thread), walks, key_destruct, init, fini | threads appear, exit and finalize independently of each other | walks are complete, the drain too | `TLSRegistry`, `TSQueue`, `RegistryQueue` |
| Timers and window (`mpiP-stats.c`, `mpiP-mt-stats.c`, `pcontrol.c`, wrappers) | `mpiPi.enabled`; `ts_start`, `cum_time` per thread; `start` in each wrapper | MPI_Pcontrol levels, timer start and stop, the wrapper, thread exit, reports | legal sequences of Pcontrol calls; a flag read twice around a call; concurrent registration | application and MPI times are those of the window | `ThreadTimers` (partly) |
| Callsite tables (`mpiP-stats.c`, `mpiP-hash.c`) | per thread a hash table of records and histograms; the count of numbers | search, create, insert, update, gather, merge, drain | no lock: updates beside the merge or the reset of another thread | tables stay sound, nothing is lost or leaked | `HashTable`, `StatTables` |
| Callsite records and caches (`mpiP-callsites.c`) | sums, minima and maxima; PC and source caches | reset, init, update, merge, query of pc and source | identity of a callsite across threads, ranks and reports | a callsite has one number | `CallsiteRecords`, `CallsiteReport` |
| Merge of the ranks (`mpiPi.c`) | counts, verdicts, messages, the collector's totals | collect basics, merge, reduce, publish | early returns must be taken by all ranks or none; failed allocations; messages from any source | agreement; each record counted once | `ReportMerge`, `SiteReport`, `CallsiteReport` |
| Report (`report.c`) | the collector's tables, printed rows | the sections of the verbose and concise report, each by the collector or collectively | one exchange per callsite in which ranks without it take part; thresholds, limits, totals that survive | rows are what the calls say; ranks meet | `SiteReport`, `CallsiteReport` |
| Options (`util.c`) | `mpiPi` settings | the options of `MPIP` | order of options, values out of range | later code can use every value | `Options` |
| Regions, traceback and trace (`mpiP-API.c`, `record_stack.c`, `mpiP-stats.c`) | the current region's name; a file handle | enter, exit, a traced call, finalize | one buffer with a limit, no lock; one file for several ranks | a line has the right region; no line is lost | `Tracing` (partly) |
| Source lookup (`pc_lookup.c`, `pc_lookup_dwarf.c`) | trees of address ranges or mappings; open files | open, add, patch, find, close; parse the mappings | red-black rotations, boundaries of ranges, state that outlives a report | a pc is given its own line and function | `DwarfLookup`, `BfdLookup`, `AddrRangeMap`, `LookupSession`, `SourceLookup` (partly) |
| Wrappers (`make-wrappers.py`, `wrappers_special.c`) | - | the code around a wrapped routine | see timers | - | their flow in `ThreadTimers`, what they record in `CallsiteReport` and `Tracing` (partly) |
| Messages, platform timers, build and tests | - | - | - | - | not modelled |

How they interact: a wrapper calls `mpiPi_stats_mt_gettls`, which registers the
thread in the list on its first call, and reads `mpiPi.enabled` before and after
the wrapped call; the call is then recorded in the thread's table, in its histograms,
and in the trace. `MPI_Pcontrol` writes `mpiPi.enabled` and walks the list to
switch the timers of all threads, or to drain their tables; a report walks it to merge
their statistics into `rank_stats` and then runs the merge with the other ranks. The
collector opens the executable, names the callsites by looking their program counters up,
merges their records and prints them; with `-l` the rows are exchanged while the report is
printed. `MPI_Finalize` makes the last report and drains the list. `PROJECT.json` lists the
hazards at the lines where they bite.

## The modules

**`TSList`** is the list. Each access to shared memory is a step: the swap of the
tail (`AppendSwap`) and the store of the link (`AppendLink`) of an append, and the
steps of a dequeue from the test for an empty list (`DequeueTestTail`) to the
compare-and-swap (`DequeueCas`), the wait for a pending link (`DequeueWait`) and
the hand-over (`DequeueHandOver`). An element is named after the handle it carries
and is never reused, so `freed` makes a use after free visible. `order` and `taken`
are history: the order of the swaps and that of the dequeued elements. `Spec` lets
every operation happen at any time, as the list's header does. Memory is
sequentially consistent; the barriers in `arch/` are taken at their word.

**`TLSRegistry`** extends it with the way the registry uses the list. The actions
of `TSList` occur under the registry's conditions: `Register` and
`FinishRegistration` while the program runs, walks only by the thread that calls
Pcontrol, dequeues only in `DrainStep`, after `StartFini`. `MPI_Finalize` requires
that the MPI calls of the other threads have returned, therefore no append is
pending then; the threads themselves may still be alive and run `key_destruct`
(`ThreadExit`) until `DeleteKey`. `registered` and `late` are history. The module
ends with the inductive invariant of the proofs.

**`TSQueue`** is what the list promises: a queue that is appended to, visited in
order, taken from at the front and closed when empty. **`RegistryQueue`** gives the
refinement mapping: the abstract queue is the chain of elements that lies in memory once
the pending links are made (`Contents`), so an append takes effect at its swap.

**`ThreadTimers`** is one process with its clock. A step is one access to
`mpiPi.enabled` with the work up to the next (a wrapper reads it when it begins
(`CallBegin`), after the call (`CallEnd`) and once more when it records (`CallRecord`)); a
walk is one step, for `TLSRegistry`
says what a walk covers. `CreateHandle` and `AppendHandle` are a registration, split
where the timer has been started and the handle is not in the list. MPI_Pcontrol is
`SwitchOffTimers`, `SwitchOff` (level 0), `SwitchOn`, `SwitchOnTimers` (level 1),
`Reset` (2) and `Report` (3 and 4). The times are integers; an unassigned `start`
is any value when it is read. `window`, `sinceReset` and `due` are history: what
should have been accounted. `multi` tells `MPIPI_MODE_MT` from `MPIPI_MODE_ST`, chosen at the start. The
constant `Discipline` holds the restrictions that the application obeys, which mpiP
does not enforce.

**`ReportMerge`** is one report on all ranks, from `mpiPi_collect_basics` to the
barrier of `mpiPi_publishResults`, several times in a row. Of the records of a rank
only the sum of some quantity is kept. A collective operation is a step that enters
it (recorded in `entered` with the rank's contribution) and one that leaves it when
MPI lets it: at once for a rank that is not the root of a Gather or Reduce, else when
all ranks are there. Sends are either buffered or wait for their receive, chosen at
the start. `calloc` may fail on the ranks in `MayFail`; a rank that then copies through
the null pointer is crashed. `global_mpi_time` stands for the totals that a merge
clears; those it does not are in `SiteReport`. The external definitions are MPI's.
All ranks ask for the same style of report. The Reduce operations of the statistics
are one.

**`HashTable`** is `mpiP-hash.c` on values: chains and a count; `Entries` is what
`h_gather_data` collects and `Size` how much that is. **`StatTables`** takes it
apart; its threads are finitely many, and the table of the rank belongs to none of them. Each thread updates its table in the steps of an MPI call's end: search, create,
number (the static counter is read and written in two steps), link into the chain, raise
the count, then count, time and histogram of the record. Beside it MPI_Pcontrol of `Main`
gathers and merges table after table (`GatherAlloc`, `GatherChain`, `FindInRank`,
`InsertInRank`, `MergeCount`, `MergeTime`, `MergeHist`) or drains and frees them
(`FreeChain`, `ZeroCount`, `ReleaseRecords`). A record is a number that is never used
again, so `freed` shows a use after free. `begun`, `since` and `madeHist` are history. The
discipline is what the application refrains from, as in `ThreadTimers`: `"funneled"` (one
thread calls MPI), `"reports"` (resets only while no other thread is in MPI) or `"free"`.

**`CallsiteRecords`** has the record of a callsite and its arithmetic (`ResetStat`,
`UpdateCallsite`, `MergeCallsite`), the comparators, the two caches (`QueryPc`, `QuerySrc`) and
the bins of the histograms. **`SiteReport`** has what the collector does with the records:
merging them by source (`InsertRecord`, `InsertAggregate`) and by operation, and every
section of `report.c` as a function from its tables to a set of rows; `Star` is the row that
sums up a callsite. **`CallsiteReport`** is the machine that composes them: `Call` records a
call of any thread, `Report` merges the threads and sends the ranks' records, which the collector
takes one by one (`InsertCallsite`) in any order of ranks and any order of a rank's records, `Publish` prints,
and in the collective sections every rank goes step by step through its broadcasts,
gathers and reductions (`Meet` is one of them, and `Together` says that all ranks are there);
`Reset` is MPI_Pcontrol(2). `calls` is history: the bag of recorded calls, from which the
properties compute what should be printed. A setup is one set of options
(`-c`, `-v`, `-k`, `-l`, `-d`, `-t`, `-r`, `-A` and so on); `-y` and `-p` are taken to be set, since
without them their sections are left out and nothing else changes.

**`AddrRangeMap`** is the red-black tree of `pc_lookup_dwarf.c`, node by node with its parent
pointers; the mirrored halves of the code are one operator that takes the side.
**`DwarfLookup`** fills two such trees from the line tables and functions of the executable's
units, patches the ranges and looks pcs up. **`BfdLookup`** is the other build: sections,
minisymbols that are kept in one static variable, and the tree of mapped shared objects with
libraries that `dlopen` adds. **`LookupSession`** is what both share, one session per report;
**`SourceLookup`** joins them under the choice made by `configure`.

**`Options`** is `mpiPi_init`'s defaults and `mpiPi_getenv` as a fold over the options; it also has
the number of frames `mpiPi_RecordTraceBack` leaves. **`Tracing`** extends it with regions and trace
files: each rank parses the options (`Start`); a traced call begins to print its line (`Call`, `EmitTrace`) and is done with
it in `PrintLine`; `EnterFirst` and `EnterNested` refuse a region or begin to copy its name into the buffer (`BeginCopy`),
which ends in `EnterName`, `EnterDotted` refuses a name with a '.', `Exit` cuts the buffer. Copying and printing
each have a beginning and an end, since `strncpy` and `fprintf` are many accesses to a buffer that no lock protects; what
is printed while the buffer is written is `Torn`, which stands for any text, part of a name included. The lock that
stdio has for each stream lets one thread print at a time.
Files are modelled as stdio leaves them: a truncating open, buffered lines, a position per
handle. `nest`, `fit`, `lines` and `cut` are history.

The `MC` modules are what TLC runs; they add the instances, and a symmetry set or a mapping where there is one. Definitions named
`X_Y`, each in front of a definition `X`, are mutants: plausible bugs that the
properties must detect when `X` is replaced by them.

## The runs

| Run | Instance | Shows |
|---|---|---|
| `list_race` | 4 appends, 1 extractor | in every interleaving, elements leave once and in the order of the swaps |
| `registry` | main and 3 threads, whole life of a process | no use after free, walks are ordered and complete but for pending registrations, the drain is complete, the FIFO queue is implemented, a finalization completes |
| `registry_exit` | main and 1 thread | **violated**: a destructor runs on freed statistics |
| `timers` | 2 threads, clock to 5, 2 reports, both modes | under the discipline below application and MPI times are exact, over windows, resets and reports; a first report shows the sum of the threads |
| `timers_two_reports` | 2 threads, 2 reports | **violated**: the second report counts the first again |
| `merge` | 3 ranks, 2 reports, failures on the collector and a sender | agreement on collective operations, exact totals, no message left, every rank returns |
| `tables` | 2 threads, 3 callsites in 2 chains, 2 calls, 2 Pcontrols | tables stay sound and nothing leaks; a report lies between the calls that had been recorded when it began and those begun when it ends |
| `tables_csp` | the same without a discipline | **violated**: MPI_Pcontrol(2) frees the record that another thread is about to update |
| `report` | 2 ranks, 3 threads, 3 callsites, up to 3 calls, 2 reports, 1 reset, 10 setups | every row is what the calls say; callsites keep their numbers; arrays suffice; collective sections match |
| `report_hostnames` | `-v`, one call | **violated**: the verbose half of a first MPI_Pcontrol(4) report prints hostnames that were never gathered |
| `lookup` | 2 units of up to 4 lines, 3 processes, 15 addresses, 2 reports | the trees stay valid, a pc is given its line, function and object |
| `tracing` | 2 ranks, 2 threads, 15 values of `MPIP` | options are safe in any order, untorn lines have their region and Main's are never torn, no line of a trace is lost |

*Bounds.* Four handles give a list with a first, a middle and a last element and an
append pending at either end; the failing compare-and-swap needs two. In the timer run
the threads other than the main one touch only their own clocks, so one of them, which
registers, calls and exits at any moment, stands for all. The clock bound of 5 leaves
two windows, the time between them and a call
that spans an instant. Two reports show what the first leaves for
the second; three ranks let messages overtake each other, and amounts of 0 and 1 with
resets make the ranks' records differ from report to report, including a rank, or all of
them, without any. Three callsites in two chains (256 in the code) give a chain of two entries and one
of one; a second call meets the entry that the first has made or is making. In the reports, two of
the callsites are one source line (they differ in the program counter only) and the third has no source,
which are the cases the comparators tell apart; `TopLines = 1` cuts the lists of twenty at two
callsites; the histograms have 5 bins of 32 and start at 1, so that small sizes fall into several.
Addresses up to 10 let ranges touch, leave gaps, begin at 0 and end at the last; four entries in one unit
and two units reach every case of the rebalancing and both turns at the root and below it. `RegionMax = 6` (1024 in
the code) makes names fit, be cut and be refused in four changes of region; `MaxTokens = 8`
stands for the 64 words of `MPIP`, `MaxReportDepth = 3` and `InternalDepth = 2` for the stack depths.

*Deadlock* is not checked: every model may legitimately stop (the process has
ended, the clock, the calls or the reports are used up, the extractor spins for good, or the
program has aborted).
Termination is checked as liveness instead, and that ranks in collective sections never wait for
each other in vain is the invariant `CollectivesMatch`.

*Discipline.* Two of the passing runs assume restrictions that are no rule of mpiP, and
each is needed. In `ThreadTimers`, `"toggle"`: MPI_Pcontrol alternates between on and off, for `MPI_Pcontrol(0)`
while disabled stops a timer that is not running (`pcontrol.c:74`); `"exit"`: threads exit only
while profiling is enabled, for `key_destruct` stops the timer in any case (`mpiP-mt-stats.c:19`);
`"quiet"`: MPI_Pcontrol only while no other thread is inside MPI, for otherwise a thread may register between
`SwitchOn` and its walk with a timer that never started (`mpiP-mt-stats.c:123`), a wrapper that
found profiling disabled may record a call whose start it never took (`make-wrappers.py:1120`),
and a report restarts the timers while a call is under way (`pcontrol.c:84`). In
`StatTables`, `CspNotDeleted` and `TablesSound` need `"reports"`, which the run
`tables_csp` shows by leaving it out; `GatherFits` and `TraceIdsDistinct` hold only
when one thread calls MPI: otherwise gather can meet an entry linked and not yet counted,
and two new callsites can be given one number.

*Failed allocations.* `PublishedIsSum`, `ChannelsDrained` and `ReportsReturn` are stated
for memory that suffices. They do not hold without that condition: if the collector's
`calloc` fails it skips its receives (`mpiPi.c:439`), so unbuffered senders and then
everyone wait for good, and buffered messages are taken by the next report; if another
rank's fails, it copies through the null pointer (`mpiPi.c:472`). `CollectivesAgree` holds in
any case. In the collective sections the setups have one in which a `malloc` fails:
the ranks still match, but nothing is said of the rows.

*What the properties leave out because the code differs.* Besides the four violated
properties, these were met while modelling and are exempted by name in the property concerned:

* `RowsOfCalls`: the extremes of one-sided calls, which a merge loses (`mpiP-callsites.c:88`) and a reset keeps
  (`mpiP-callsites.c:20`); the minimum over all ranks in a collective section, for which a rank without the callsite
  counts as 0 (`report.c:1963`); collective one-sided rows and collective rows at `-k 0`, whose lookups go wrong.
* `ConciseOfCalls`: a section with exactly one callsite is not printed (`report.c:1430`); the collective sections take the least
  sum among the ranks with data (`report.c:2082`), the others among all that called; and at a callsite whose calls all took no time
  the rank of the greatest is never assigned or left over from the callsite before (`report.c:1189`), and the collective
  minimum is the `DBL_MAX` it starts from (`report.c:2086`), so `Definite` leaves these extremes out.
* `ListsOfCalls`: totals of I/O, one-sided bytes and large messages are not cleared between reports (`mpiPi.c:435`), and
  the application time of a concise report adds up (`report.c:509`). A record counts as messages only if it has sent
  bytes (`mpiPi.c:254`), and then with all its calls, also those that send none; `Sending` says so. The difference to
  counting every call shows with a threshold of zero (`-m 0`), which one of the setups has.
* `HistogramsOfCalls`: the histograms of several threads are added again by each report and kept by a reset
  (`mpiP-stats.c:575`). That includes a report omitted because no rank has a record, which merges first (`mpiPi.c:728`):
  without `-A` the other ranks' calls have histograms but no records, so a first printed report may have them twice. An
  earlier form of the property, for the first report printed instead of the first made, fails in the setup of several
  threads without `-A`.
* `LookupsExact`: several lines at address 0 (the patched range wraps, `pc_lookup_dwarf.c:643`), the address where one function ends
  and the next begins (both ends belong to a range, `pc_lookup_dwarf.c:495`), adjacent mappings (the second is taken for the
  first and dropped, `pc_lookup.c:305`), mappings with an offset (`pc_lookup.c:479`), objects without symbols
  (those of the object opened before are used), libraries loaded after the mappings were read (`pc_lookup.c:450`).
* `OptionsSafe`: at the greatest depth `backtrace` writes NULL one place behind the frames.
* `ArraysFit`: the array of the coefficients of variation at depth zero, which merges several callsites of a rank; `-k 0` switches
  it off, the default depth of zero of `--enable-concise-report-default` does not (`mpiPi.c:123`, `mpiPi.c:128`).
* `RegionsTraced`: holds while every name has had room; after a refused name the next exit takes off the
  region around it (`mpiP-API.c:71`). A line of another thread than Main may be torn, if Main enters or leaves a region
  while it is printed (`mpiP-API.c:70`, `mpiP-API.c:78`, `mpiP-stats.c:117`): nothing is said of what it then shows.
* `TraceKept`: not for a file that another rank truncates because `-A` came after `-a`
  or was not given (`util.c:292`), nor after `mpiP_finalize_trace`, which leaves the closed handle in use (`mpiP-API.c:34`): any traced call
  after it, a collective one included, leaves the rank `"wild"`, and so does an `exit(1)` beside a line that is being printed.

A hazard of `PROJECT.json` that a discipline or such an exemption excludes names no property, only a note: there the code
goes wrong, and the properties say what holds besides. This concerns registrations beside MPI_Pcontrol, the overrun of
the gathered array and equal numbers with several threads, an insert beside a drain, the totals and histograms that survive a
report, the array at depth zero, refused regions and the static stack of `backtrace`.

Three more disagreements have no run of their own. The list used without any restriction frees an element with an
append still writing to it, for the wait loop of the dequeue has its condition inverted (`mpiP-tslist.c:92`); mpiP
never dequeues beside an append, as `registry` shows. A walk misses a registered thread behind a
pending registration (`mpiP-tslist.c:47`), therefore `WalkCoversUnobstructed` speaks of unobstructed ones.
MPI_Pcontrol(2) does not clear the application time of the threads (`pcontrol.c:49`); `AppWithinWindow`
allows the time of all windows.

*Fairness.* `RegistryFairness` is weak fairness of the steps of a finalization that has
begun: the scheduler runs a thread that has work. No thread is forced to call MPI, to
finish a registration or to exit, and the drain completes nevertheless. `FairSpec` of
`ReportMerge` is weak fairness of each rank's beginning of a report and of its next step:
MPI requires `MPI_Finalize` of all ranks, and mpiP requires `MPI_Pcontrol(3)` of all.

## What is proved

The theorems hold for every value of the constants that the named assumptions of the modules allow,
most of which only give the constants their types. TLC evaluates the assumptions in the runs; those of the
proofs beyond types are that the dummy element, NULL and the handles differ (`NodesAssumption`), that
threads, ranks and, for the refinement, handles are finitely many (`TimersAssumption`, `MergeAssumption`,
`TablesAssumption`, `FiniteAssumption`), that the main thread is one of the threads and the collector one of
the ranks, and that the table of the rank is not a thread's. A process has finitely many of each. The bounds
on calls, reports and the clock that TLC needs may have any value, so the theorems speak of runs of any length.

The invariants that the runs check are seldom inductive. Each proof module defines the strengthening it needs at
its head; TLC has checked it on the instance of the run, that of the tables with all three disciplines at once
(938,114 states), before it was proved. Every proof has the same form: initial states satisfy the invariant; for each
action a lemma that it is kept, with a lemma of its own for how the action moves the variables; the property
follows.

| Module | Theorems | State the run's property | Needs |
|---|---|---|---|
| `TLSRegistryProofs` | `ListTypeCorrect`, `OrderKept` | `TypeOK`, `DequeuesInOrder` of `TSList` | nothing: with the race of the dequeue |
| | `RegistryInvariance`, `RegistryMemorySafe`, `WalksInOrder`, `WalksCover`, `FiniDrains` | `RegistryInv` (with the types), `NoUseAfterFree`, `SeenIsPrefix`, `WalkCoversUnobstructed`, `DrainComplete` | - |
| | `RegistryIsQueue` | `ImplementsQueue` | finitely many handles |
| `ThreadTimersProofs` | `TimersType`, `FirstReportSum` | `TypeOK`, `FirstReportIsThreadSum` | no discipline |
| | `OnlyCallsOfWindowCount` | `OnlyCallsOfWindow` | `"quiet"` |
| | `WindowCovered`, `MpiTimeWithinApp` | `AppCoversWindow`, `MpiWithinApp` | `"toggle"`, `"quiet"` |
| | `TimeWithinWindow` | `AppWithinWindow` | all three |
| `ReportMergeProofs` | `MergeTypes`, `RanksAgree` | `TypeOK`, `CollectivesAgree` | whatever allocations fail |
| | `PublishesSum`, `NothingLeftBehind` | `PublishedIsSum`, `ChannelsDrained` | as the properties say, memory that suffices |
| `StatTablesProofs` | `TablesType`, `TraceIds`, `RoomForAll`, `FirstHistograms` | `TypeOK`, `TraceIdsDistinct`, `GatherFits`, `HistOfFirstReport` | what the properties say (`"funneled"` for two of them) |
| | `CspStays`, `SoundTables`, `RecordsKept`, `ReportsBracketed` | `CspNotDeleted`, `TablesSound`, `NothingLeaked`, `ReportBracketed` | a discipline other than `"free"` |
| `CallsiteReportProofs` | `OperationsMatch` | `CollectivesMatch` | - |
| | `IdentifiedAlways`, `FitAlways` | `SitesIdentified`, `ArraysFit` | - |
| | `RowsAlways` | `RowsOfCalls` | - |
| | `ReportInvariant`, `MergedAlways` | what the others rest on: the tables have the calls | - |
| `ConciseReportProofs` | `ConciseAlways` | `ConciseOfCalls` | `SumsFit`: no sum of a rank above `DBL_MAX`, collective sections only |
| | `ListsAlways` | `ListsOfCalls` | - |
| | `HistogramsAlways` | `HistogramsOfCalls` | `SizesFit`: no size above what the last bin has, which an `int` never is |
| `TracingProofs` | `SafeAlways`, `TracedAlways`, `KeptAlways` | `OptionsSafe`, `RegionsTraced`, `TraceKept` | - |
| | `TracingInvariant` | what they rest on | - |
| `FoldTheorems` | `SumZero`, `SumUpdate`, `SumOverSubset`, `SumOfPart`, `SumMonotone`, `SumUnion`, `SumPartition`, `LeastInteger` | lemmas on `SumFunctionOnSet` | - |

* *The registry.* That a walk visits a prefix of the registration order needs the shape of
  the list: each element's link is there exactly when its append has finished, its
  `prev` is the element swapped before it, and the tail is the last of the order
  (`RunningInv`); that the order has no repetition (`OrderInv`); where a walk stands
  and what was registered when it began (`WalkInv`); and, from `MPI_Finalize` on, that what
  is left is the rest of the order after the dequeued prefix, and that the dequeue never
  reaches its race branch (`DrainInv`).
* *The queue.* What lies in memory is the registration order without what the drain has taken (`Waiting`), and the
  sequence that `Chain` describes is unique (by the least position at which two would differ). With that
  each step maps to a step of `TSQueue` or to none.
* *The list* by itself, where appends race with the dequeue: `Linked` says what the head may still point to, for
  after the race it is nothing for good; nothing is then dequeued any more, so the order stays that of the swaps.
* *The timers.* What a thread has been accounted, with the timer that runs, lies between what it spent in the
  window since the reset and what it spent there at all (`NotLess`, `NotMore`), and covers the MPI time with
  the call under way (`Covered`). `Undisturbed` is what `"quiet"` gives: profiling is as it was when a call began.
  The theorems say how much of the discipline each promise needs.
* *The merge.* What a rank enters next depends on its last two collective operations and on what all ranks contributed to
  the last (`Prescribed`, `History`, `PlaceOf`), which all ranks see alike; so two ranks that agreed up to here agree on the next.
  While the collector receives, its total and what is due from the senders, under way or not yet sent, make up the
  sum (`Merging`).
* *The tables.* `Types`, `Stands`, `Pointers` and `Placed` hold whatever the application does. Under a discipline a
  record is in one table at most and not freed while it is (`Owned`), a call holds a record of its own table
  (`Held`), a count is right but for the insertion under way (`Counted`), and the merge and the drain hold what they have collected
  (`Collected`). For `GatherFits`, the array has as many records as the chains already walked (`Fits`).
  `ReportBracketed` needs sums over threads: what the tables show for a key is what was made (`Totals`), and what the rank shows plus what the
  tables still to be read show stays between `since.made` and the sum over all tables, for counts and for times,
  which a merge reads in different steps (`Bracketing`). A report reads an entry once because an array has no record
  twice (`Gathered`), and a call adds to its own table only.
* *The collective sections.* All ranks stand at the same operation and in the same round of it (`Aligned`), since where they go
  depends only on what the collector broadcasts.
* *From the calls to the tables.* A record represents a set of calls: it has their number, their sums, their extremes and
  the large ones among them (`Represents`). A table of a rank has one record for each callsite that was called
  (`Tables`); updating a record adds a call to its set, and merging two records adds disjoint sets, so the fold over
  the threads gives the calls of the rank, in whatever order the threads and their records come (`RecordsKnown`).
  `NamesKnown` has the caches: what was named since the last reset is what the source cache has, and a number belongs to one
  callsite. The collector's tables are keyed by these numbers, and their sets are the calls whose records it has taken
  (`CallsMerged`); none is pending when it prints.
* *From the tables to the rows.* The rows of a callsite are computed from one record per rank that called it, with cleared
  records for others (`DataOf`); sums over records of disjoint sets are sums over the calls. A collective section goes through
  the callsites in a sorted order, which lists each once, and `RowsPrinted` says that the rows so far are those of the
  callsites passed so far; what the gate and the test of a round leave out has no rows. The four sections have the same argument.
* *The concise rows.* A record per rank says what the rank took, zero if it did not call (`SumsKnown`); the loops over the sorted
  array and the reductions with MINLOC and MAXLOC find the same extremes and the first rank that has each
  (`ConciseRowKnown`, `ReducedRowKnown`). A section lists a callsite exactly if some call has data of its kind
  (`ToldSites`, `ToldListed`), and `ConcisePrinted` has the rows of those that a section has passed. It needs the array of
  summaries to have room (`FitAlways`), and `SumsFit` because the collective minimum starts from `DBL_MAX`, here `Large`:
  with a greater sum it would stay there. A sum is a double, so the code meets it.
* *The lists of the greatest.* The collector's totals are those of the calls it has taken: of time and bytes in every report,
  for each clears them, the others in the first report since a reset (`TotalsMerged`, `AppMerged`). At depth zero the table
  by operation and the aggregates are the same, for a callsite then is an operation (`OperationsMerged`), so either is a
  source of the list. A sorted table lists its records in descending order, so those that are cut off have no
  more than any that are printed, and those left out within the cut have nothing (`HeadsFacts`, `TopKnown`). `ListsPrinted`
  has the lists of a page until the next reset; a collective section prints other parts of the page (`MeetElsewhere`).
* *The histograms.* A size lies between the bounds printed for its bin and for no other (`BinIs`). The bounds are powers of
  two, of which the provers know only that a set of n elements has 2^n subsets; that one more element doubles them
  is proved from it (`PowerStep`). A cell has the sum of the calls that fall into it (`HistogramsKnown`), over all ranks too
  (`TotalHistKnown`), and a row is a cell. `SizesFit` is needed since the last bin also takes what is above its bounds:
  with `hist_size` 32 and `first_bin_max` 7 that is from 2^35 on, and `get_histogram_bin` takes an `int`.
* *Options and traces.* What an option leaves is in range whatever came before (`SafeAlways`). The region buffer has the names of the
  open regions as long as each has had room, but for the one that is being copied (`RegionInv`). While a line that is not torn is
  printed no name is being copied and Main has neither entered nor left a region since the call (`PrintInv`), so the line has that path;
  Main does not print while it copies. A file that one rank alone has opened
  has the flushed lines of that rank, and what is buffered follows them.

Where such an argument needs induction, over the positions of a sequence or over the sets that are summed up, it takes a
least counterexample instead (`LeastNumber`, `MinimalSubset`), for the prover cannot instantiate an induction scheme.

Only model-checked, and why:

* `FiniCompletes` and `ReportsReturn`: liveness under fairness is out of the prover's reach.
* `TreesValid`, `LookupsExact`: `AddrRangeMap`, `DwarfLookup`, `BfdLookup` and `SourceLookup` compute with RECURSIVE
  operators on trees, for which the prover has no arithmetic and no induction.
* The disagreements of the runs that expect a violation are shown by their counterexamples.

## Plan

What is left, in this order:

1. The traced column of times (`prev_time`), and the sharing of the static stack of `backtrace`.

## Not modelled

* Wording and layout of the report, columns computed from rows (percentages, means) and the value of the
  coefficient of variation: of the last only the array it is computed from is modelled.
* The number of entries in the source cache at depth zero: its hash looks at file and line although its comparator does
  not, so an operation may have several entries. They have the same number, and `QuerySrc` keeps one.
* The wrapper generator, the Fortran interface with its translation of opaque objects, and how a
  message size follows from a datatype: they produce or enumerate code per MPI routine, without state.
* Stack unwinding by libunwind, setjmp or `backtrace`, BFD and libdwarf themselves, name demangling,
  the lookup on AIX and the timers of other platforms: they depend on the machine. What mpiP makes of their results is modelled.
* Messages and debugging output.
* The splitting of `MPIP` into words, which also cuts the string in the environment at its first separator (`util.c:91`).
* Weak memory models: the C code relies on the compiler's atomic operations, which the models take as sequentially
  consistent. Where there is no atomic operation, each access is a step of its own (`StatTables`), or copying and printing have a beginning and
  an end (the region name).
