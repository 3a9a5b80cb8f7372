---------------------------- MODULE ThreadTimers ----------------------------
(***************************************************************************)
(* The clocks of one MPI process: the application time and the MPI time    *)
(* that mpiP accounts to each thread, the window that MPI_Pcontrol opens   *)
(* and closes, and the application time a report shows.                    *)
(*                                                                         *)
(* Main initializes MPI, calls MPI_Pcontrol and finalizes; the others call *)
(* MPI and exit.  A step is one access to the flag mpiPi.enabled together  *)
(* with the private or per-thread work up to the next such access; a walk  *)
(* over the threads is one step (TLSRegistry models what a walk misses).   *)
(*                                                                         *)
(* Discipline names the restrictions the application obeys:                *)
(*   "toggle"  MPI_Pcontrol(0) only while enabled, (1) only while disabled *)
(*   "quiet"   MPI_Pcontrol only while no other thread is in MPI           *)
(*   "exit"    threads exit only while enabled and outside MPI_Pcontrol    *)
(* None of them is a rule of mpiP; the runs show what depends on which.    *)
(***************************************************************************)
EXTENDS Integers, FiniteSets, Functions

CONSTANTS Threads,     \* the threads that may call MPI
          Main,        \* the thread that calls MPI_Init and MPI_Pcontrol
          Modes,       \* TRUE for MPIPI_MODE_MT, FALSE for MPIPI_MODE_ST
          Discipline,  \* what the application refrains from
          Operations,  \* the MPI_Pcontrol calls it makes
          MaxClock,    \* bound of the clock
          MaxReports   \* bound on the number of reports

ASSUME TimersAssumption ==
    /\ IsFiniteSet(Threads)
    /\ Main \in Threads
    /\ Modes \subseteq BOOLEAN
    /\ Discipline \subseteq {"toggle", "quiet", "exit"}
    /\ Operations \subseteq {"off", "on", "reset", "report"}
    /\ MaxClock \in Nat \ {0}
    /\ MaxReports \in Nat

VARIABLES
    multi,     \* MPIPI_MODE_MT?  In MPIPI_MODE_ST there is Main alone
    clock,     \* what mpiPi_GETTIME returns
    enabled,   \* mpiPi.enabled
    control,   \* where MPI_Pcontrol or MPI_Finalize stands
    thread,    \* thread[t]: where the handle of t stands
    call,      \* call[t]: where the MPI call of t stands
    start,     \* start[t]: the local variable start of the wrapper
    dur,       \* dur[t]: its local variable dur, from its measurement on
    tsStart,   \* tsStart[t]: ts_start of the thread's statistics
    cum,       \* cum[t]: their cum_time
    mpi,       \* mpi[t]: the sum of their callsites' cumulativeTime
    rankCum,   \* cum_time of rank_stats, in MPIPI_MODE_MT
    reports,   \* how many reports were generated
    reported,  \* the application time in the last one (cumulativeTime)
    outside,   \* history: the calls under way that began while disabled
    window,    \* history: window[t]: how long t was profiled
    sinceReset,\* history: the same since the last MPI_Pcontrol(2)
    due        \* history: the sum over cum when reported was last assigned

threadVars == <<thread, call, start, dur>>
timeVars   == <<tsStart, cum, mpi>>
reportVars == <<rankCum, reports, reported, due>>
history    == <<outside, window, sinceReset>>
vars == <<multi, clock, enabled, control, threadVars, timeVars, reportVars, history>>

Epoch == 0          \* a calloc-ed ts_start
Undefined == -1     \* start was not assigned in this call

Listed == {t \in Threads : thread[t] \in {"listed", "exited"}}
Active == {t \in Threads : thread[t] = "listed"}
Total(f) == SumFunctionOnSet(f, Threads)

Quiet == \A t \in Threads : call[t] = "out"

(* mpiPi_init: mpiPi_getenv may have cleared enabled (option -o).          *)
Init ==
    /\ multi \in Modes
    /\ clock = 1
    /\ enabled \in BOOLEAN
    /\ control = "idle"
    /\ thread = [t \in Threads |-> IF t = Main THEN "listed" ELSE "none"]
    /\ call = [t \in Threads |-> "out"]
    /\ start = [t \in Threads |-> Undefined]
    /\ dur = [t \in Threads |-> 0]
    /\ tsStart = [t \in Threads |->
                    IF t = Main /\ enabled THEN clock ELSE Epoch]
    /\ cum = [t \in Threads |-> 0]
    /\ mpi = [t \in Threads |-> 0]
    /\ rankCum = 0
    /\ reports = 0
    /\ reported = 0
    /\ outside = {}
    /\ window = [t \in Threads |-> 0]
    /\ sinceReset = [t \in Threads |-> 0]
    /\ due = 0

(* Time passes.  A thread is profiled from its first call to its exit while *)
(* profiling is enabled; what passes during MPI_Pcontrol or a report counts *)
(* for the window but not as time that must be accounted.                  *)
Tick ==
    /\ clock < MaxClock
    /\ control # "done"
    /\ clock' = clock + 1
    /\ window' = [t \in Threads |->
                    IF enabled /\ thread[t] \in {"created", "listed"}
                    THEN window[t] + 1 ELSE window[t]]
    /\ sinceReset' = [t \in Threads |->
                    IF enabled /\ thread[t] \in {"created", "listed"}
                       /\ control = "idle"
                    THEN sinceReset[t] + 1 ELSE sinceReset[t]]
    /\ UNCHANGED <<multi, enabled, control, threadVars, timeVars, reportVars, outside>>

-----------------------------------------------------------------------------
(* The wrapper of an MPI routine, in thread t.                             *)

MayCall(t) ==
    /\ control # "done"
    /\ call[t] = "out"
    /\ thread[t] # "exited"
    /\ control = "idle" \/ (t # Main /\ "quiet" \notin Discipline)

(* mpiPi_stats_mt_gettls of a thread without a handle, up to the append:   *)
(* the timer is started if profiling is enabled at this moment.            *)
CreateHandle(t) ==
    /\ multi
    /\ MayCall(t)
    /\ thread[t] = "none"
    /\ thread' = [thread EXCEPT ![t] = "created"]
    /\ call' = [call EXCEPT ![t] = "gettls"]
    /\ tsStart' = [tsStart EXCEPT ![t] = IF enabled THEN clock ELSE Epoch]
    /\ UNCHANGED <<multi, clock, enabled, control, start, dur, cum, mpi, reportVars,
                   history>>

AppendHandle(t) ==
    /\ thread[t] = "created"
    /\ thread' = [thread EXCEPT ![t] = "listed"]
    /\ UNCHANGED <<multi, clock, enabled, control, call, start, dur, timeVars, reportVars,
                   history>>

(* Mutant: mpiPi.enabled is not looked at. *)
IsOn_Always == TRUE

(* mpiPi_stats_mt_is_on, outside nested calls. *)
IsOn == enabled

(* The first mpiPi_stats_mt_is_on: start is assigned only if it holds.     *)
CallBegin(t) ==
    /\ thread[t] = "listed"
    /\ call[t] = "gettls" \/ MayCall(t)
    /\ call' = [call EXCEPT ![t] = "in"]
    /\ start' = [start EXCEPT ![t] = IF IsOn THEN clock ELSE Undefined]
    /\ outside' = IF enabled THEN outside ELSE outside \cup {t}
    /\ UNCHANGED <<multi, clock, enabled, control, thread, dur, timeVars, reportVars,
                   window, sinceReset>>

(* The duration is measured if the wrapper is still on, and kept unless it *)
(* is negative.  An undefined start holds any value.                       *)
CallEnd(t) ==
    /\ call[t] = "in"
    /\ \/ /\ IsOn
          /\ \E s \in IF start[t] = Undefined THEN 0..clock ELSE {start[t]} :
                dur' = [dur EXCEPT ![t] = clock - s]
          /\ call' = [call EXCEPT ![t] = "measured"]
          /\ UNCHANGED <<start, outside>>
       \/ /\ ~IsOn \/ start[t] = Undefined
          /\ call' = [call EXCEPT ![t] = "out"]
          /\ start' = [start EXCEPT ![t] = Undefined]
          /\ outside' = outside \ {t}
          /\ UNCHANGED dur
    /\ UNCHANGED <<multi, clock, enabled, control, thread, timeVars, reportVars, window,
                   sinceReset>>

(* mpiPi_stats_thr_cs_upd asks the same once more and adds the duration to *)
(* its callsite (on rank 0; on the others if traceAllRanks is set).        *)
CallRecord(t) ==
    /\ call[t] = "measured"
    /\ mpi' = IF IsOn THEN [mpi EXCEPT ![t] = @ + dur[t]] ELSE mpi
    /\ call' = [call EXCEPT ![t] = "out"]
    /\ start' = [start EXCEPT ![t] = Undefined]
    /\ dur' = [dur EXCEPT ![t] = 0]
    /\ outside' = outside \ {t}
    /\ UNCHANGED <<multi, clock, enabled, control, thread, tsStart, cum, reportVars,
                   window, sinceReset>>

(* key_destruct: the timer is stopped, running or not.                     *)
ThreadExit(t) ==
    /\ multi
    /\ t # Main
    /\ thread[t] = "listed"
    /\ call[t] = "out"
    /\ control # "done"
    /\ "exit" \in Discipline => enabled /\ control = "idle"
    /\ thread' = [thread EXCEPT ![t] = "exited"]
    /\ cum' = [cum EXCEPT ![t] = @ + (clock - tsStart[t])]
    /\ UNCHANGED <<multi, clock, enabled, control, call, start, dur, tsStart, mpi,
                   reportVars, history>>

-----------------------------------------------------------------------------
(* MPI_Pcontrol, by Main.                                                  *)

(* Mutants: the interval is taken the wrong way round, or not at all.      *)
Stopped_Reversed(c) ==
    [t \in Threads |->
       IF t \in Active THEN c[t] + (tsStart[t] - clock) ELSE c[t]]
Stopped_Lost(c) == c

(* Mutant: the timers keep the time of their first start. *)
Started_Kept == tsStart

(* mpiPi_stats_mt_timer_stop and _timer_start, for the active threads.     *)
Stopped(c) == [t \in Threads |->
                 IF t \in Active THEN c[t] + (clock - tsStart[t]) ELSE c[t]]
Started    == [t \in Threads |-> IF t \in Active THEN clock ELSE tsStart[t]]

MayControl(op) ==
    /\ control = "idle"
    /\ op \in Operations
    /\ call[Main] = "out"
    /\ "quiet" \in Discipline => Quiet

(* Level 0: stop the timers, enabled or not ... *)
SwitchOffTimers ==
    /\ MayControl("off")
    /\ "toggle" \in Discipline => enabled
    /\ cum' = Stopped(cum)
    /\ control' = "off"
    /\ UNCHANGED <<multi, clock, enabled, threadVars, tsStart, mpi, reportVars, history>>

(* ... and then disable profiling. *)
SwitchOff ==
    /\ control = "off"
    /\ enabled' = FALSE
    /\ control' = "idle"
    /\ UNCHANGED <<multi, clock, threadVars, timeVars, reportVars, history>>

(* Any level but 0, 2, 3 and 4: enable profiling ... *)
SwitchOn ==
    /\ MayControl("on")
    /\ "toggle" \in Discipline => ~enabled
    /\ enabled' = TRUE
    /\ control' = "on"
    /\ UNCHANGED <<multi, clock, threadVars, timeVars, reportVars, history>>

(* ... and then start the timers; the level 3 and 4 reports end so, too. *)
SwitchOnTimers ==
    /\ control \in {"on", "report"}
    /\ tsStart' = Started
    /\ control' = "idle"
    /\ UNCHANGED <<multi, clock, enabled, threadVars, cum, mpi, reportVars, history>>

(* Mutant: the callsites survive the reset. *)
WithoutCallsites_Kept == mpi

(* mpiPi_stats_mt_cs_reset *)
WithoutCallsites == [t \in Threads |-> IF t \in Listed THEN 0 ELSE mpi[t]]

(* Level 2, mpiPi_reset_callsite_data: the callsites are dropped and the   *)
(* timers started.  cum_time is left as it is; cumulativeTime is cleared.  *)
Reset ==
    /\ MayControl("reset")
    /\ mpi' = WithoutCallsites
    /\ tsStart' = Started
    /\ reported' = 0
    /\ due' = 0
    /\ sinceReset' = [t \in Threads |-> 0]
    /\ UNCHANGED <<multi, clock, enabled, control, threadVars, cum, rankCum, reports,
                   outside, window>>

(* Mutants: the merge leaves out the threads that have exited; it takes    *)
(* the times from before the timers were stopped.                          *)
Merged_ActiveOnly(c) ==
    IF multi THEN rankCum + SumFunctionOnSet(c, Active) ELSE c[Main]
Merged_Early(c) ==
    IF multi THEN rankCum + SumFunctionOnSet(cum, Listed) ELSE cum[Main]

(* mpiPi_stats_mt_merge and mpiPi_stats_mt_cum_time: in MPIPI_MODE_MT the  *)
(* threads' times are added to that of rank_stats.                         *)
Merged(c) ==
    IF multi THEN rankCum + SumFunctionOnSet(c, Listed) ELSE c[Main]

(* Timers that run are started again once they were read. *)
StartedAgain == IF enabled THEN Started ELSE tsStart

(* mpiPi_generateReport up to mpiPi_collect_basics; timers that run are    *)
(* stopped for the merge and started again.                                *)
GenerateReport(then) ==
    /\ reports < MaxReports
    /\ LET c == IF enabled THEN Stopped(cum) ELSE cum
       IN /\ cum' = c
          /\ reported' = Merged(c)
          /\ rankCum' = IF multi THEN Merged(c) ELSE rankCum
          /\ due' = Total(c)
    /\ tsStart' = StartedAgain
    /\ reports' = reports + 1
    /\ control' = then
    /\ UNCHANGED <<multi, clock, enabled, threadVars, mpi, history>>

(* Levels 3 and 4. *)
Report ==
    /\ MayControl("report")
    /\ GenerateReport("report")

(* MPI_Finalize: every thread has left MPI. *)
Finalize ==
    /\ control = "idle"
    /\ Quiet
    /\ GenerateReport("done")

Pcontrol ==
    \/ SwitchOffTimers \/ SwitchOff
    \/ SwitchOn \/ SwitchOnTimers
    \/ Reset
    \/ Report

Next ==
    \/ Tick
    \/ \E t \in Threads : \/ CreateHandle(t) \/ AppendHandle(t)
                          \/ CallBegin(t) \/ CallEnd(t) \/ CallRecord(t)
                          \/ ThreadExit(t)
    \/ Pcontrol
    \/ Finalize

Spec == Init /\ [][Next]_vars

-----------------------------------------------------------------------------

(* Every variable has its type. *)
TypeOK ==
    /\ multi \in Modes
    /\ clock \in 1..MaxClock
    /\ enabled \in BOOLEAN
    /\ control \in {"idle", "off", "on", "report", "done"}
    /\ thread \in [Threads -> {"none", "created", "listed", "exited"}]
    /\ call \in [Threads -> {"out", "gettls", "in", "measured"}]
    /\ start \in [Threads -> {Undefined} \cup 1..MaxClock]
    /\ dur \in [Threads -> 0..MaxClock]
    /\ tsStart \in [Threads -> 0..MaxClock]
    /\ cum \in [Threads -> Nat]
    /\ mpi \in [Threads -> Nat]
    /\ rankCum \in Nat
    /\ reports \in 0..MaxReports
    /\ reported \in Nat
    /\ outside \subseteq Threads
    /\ window \in [Threads -> Nat]
    /\ sinceReset \in [Threads -> Nat]
    /\ due \in Nat

(* The application time of t if its timer were read now. *)
AppTime(t) ==
    cum[t] + (IF enabled /\ t \in Active THEN clock - tsStart[t] ELSE 0)

(* "MPIP should measure only ~4 secs" (testing/2-pcontrol.c:52): a thread  *)
(* is accounted no more application time than it spent in MPI_Pcontrol's   *)
(* window.                                                                 *)
AppWithinWindow ==
    control = "idle" => \A t \in Threads : AppTime(t) <= window[t]

(* A thread is accounted all the time it spent in the window since the     *)
(* last reset, the time inside MPI_Pcontrol and reports aside: no call of  *)
(* timer_start drops an interval that counts.                              *)
AppCoversWindow ==
    control = "idle" =>
        \A t \in Threads : t \in Listed => AppTime(t) >= sinceReset[t]

(* "we don't want to have MPI operations to span more than 100% of the     *)
(* application time" (mpiP-mt-stats.c:131): outside MPI, a thread's MPI    *)
(* time is part of its application time.                                   *)
MpiWithinApp ==
    control = "idle" =>
        \A t \in Listed : call[t] = "out" => mpi[t] <= AppTime(t)

(* "mpiP will only record information about MPI commands encountered       *)
(* between activation and deactivation" (doc/UserGuide.md:266): a call     *)
(* that began outside the window adds nothing to the MPI time.             *)
OnlyCallsOfWindow ==
    [][\A t \in Threads :
          t \in outside => mpi'[t] <= mpi[t]]_vars

(* A report shows as application time of the process what its threads have *)
(* been accounted by then (mpiPi_stats_mt_merge, mpiPi_stats_mt_cum_time). *)
ReportIsThreadSum == reports > 0 => reported = due

(* The same of every report in MPIPI_MODE_ST and of the first in            *)
(* MPIPI_MODE_MT, for any use of MPI_Pcontrol before it.                   *)
FirstReportIsThreadSum == (multi => reports = 1) => ReportIsThreadSum
=============================================================================
