-------------------------- MODULE ThreadTimersProofs --------------------------
(***************************************************************************)
(* What ThreadTimers promises holds for any number of threads, any clock   *)
(* and any sequence of calls that the application's discipline allows, and *)
(* the theorems say how much of the discipline each promise needs.         *)
(*                                                                         *)
(* The argument: MPI_Pcontrol runs only while every thread is outside MPI  *)
(* ("quiet"), so that profiling stays as it was when a call began          *)
(* (Undisturbed); then the time of a running timer, added to what was      *)
(* accounted before, lies between what the thread spent in the window      *)
(* since the last reset and what it spent there at all (NotLess, NotMore), *)
(* and covers its MPI time (Covered).                                      *)
(***************************************************************************)
EXTENDS ThreadTimers, FoldTheorems

(* The life of a handle: it is appended within the first call of its       *)
(* thread, and nothing is accounted to a thread before.  Timers and calls  *)
(* start in the past; in MPIPI_MODE_ST there is no thread but Main.        *)
Handle(t) ==
    /\ tsStart[t] <= clock /\ start[t] <= clock
    /\ call[t] = "gettls" => thread[t] \in {"created", "listed"}
    /\ call[t] \in {"in", "measured"} => thread[t] = "listed"
    /\ thread[t] = "created" => call[t] = "gettls"
    /\ thread[t] \in {"none", "created"} => cum[t] = 0 /\ mpi[t] = 0
    /\ thread[t] = "none" => call[t] = "out" /\ sinceReset[t] = 0
    /\ ~multi /\ t # Main => thread[t] = "none"

Handles ==
    /\ \A t \in Threads : Handle(t)
    /\ thread[Main] = "listed"

(* rank_stats has been merged into by a report only. *)
FirstMerge == reports = 0 => rankCum = 0

Inv == TypeOK /\ Handles /\ FirstMerge /\ FirstReportIsThreadSum

(* What "quiet" gives: profiling is as it was when a call of MPI began, and *)
(* start is undefined just if the call began while it was disabled.        *)
Undisturbed ==
    /\ control # "idle" => Quiet
    /\ \A t \in Threads :
          /\ t \in outside => call[t] = "in" /\ ~enabled
          /\ call[t] = "in" => (start[t] = Undefined <=> ~enabled)
          /\ call[t] = "measured" => enabled

(* The timer of t runs, and what it shows counts. *)
Runs(t) == control = "idle" /\ enabled /\ thread[t] \in {"created", "listed"}

(* What t has been accounted, its timer included. *)
Accounted(t) == cum[t] + (IF Runs(t) THEN clock - tsStart[t] ELSE 0)

NotMore == \A t \in Threads : Accounted(t) <= window[t]
NotLess == \A t \in Threads : sinceReset[t] <= Accounted(t)

(* The MPI time of t, with the call it is in. *)
InMpi(t) ==
    mpi[t] + (IF call[t] = "in" /\ enabled THEN clock - start[t]
              ELSE IF call[t] = "measured" THEN dur[t] ELSE 0)

Covered == \A t \in Threads : InMpi(t) <= Accounted(t)

-----------------------------------------------------------------------------
LEMMA ThreadFacts ==
    /\ Main \in Threads /\ IsFiniteSet(Threads)
    /\ Listed \subseteq Threads /\ Active \subseteq Listed
    /\ IsFiniteSet(Listed)
BY TimersAssumption, FS_Subset DEF TimersAssumption, Listed, Active

(* Stopping the timers adds what ran since they were started. *)
LEMMA StoppedType ==
    ASSUME TypeOK, Handles
    PROVE  /\ Stopped(cum) \in [Threads -> Nat]
           /\ \A t \in Threads :
                 Stopped(cum)[t] = IF thread[t] = "listed"
                                   THEN cum[t] + (clock - tsStart[t]) ELSE cum[t]
<1>1. ASSUME NEW t \in Threads
      PROVE  /\ cum[t] \in Nat
             /\ cum[t] + (clock - tsStart[t]) \in Nat
             /\ t \in Active <=> thread[t] = "listed"
  BY DEF TypeOK, Handles, Handle, Active
<1>2. QED
  BY <1>1 DEF Stopped

LEMMA StartedType ==
    ASSUME TypeOK
    PROVE  /\ Started \in [Threads -> 0..MaxClock]
           /\ StartedAgain \in [Threads -> 0..MaxClock]
           /\ \A t \in Threads :
                 Started[t] = IF thread[t] = "listed" THEN clock ELSE tsStart[t]
<1>1. ASSUME NEW t \in Threads
      PROVE  /\ tsStart[t] \in 0..MaxClock
             /\ t \in Active <=> thread[t] = "listed"
  BY DEF TypeOK, Active
<1>2. clock \in 0..MaxClock
  BY DEF TypeOK
<1>3. Started \in [Threads -> 0..MaxClock]
  BY <1>1, <1>2 DEF Started
<1>4. QED
  BY <1>1, <1>3 DEF Started, StartedAgain, TypeOK

(* What a report merges is the sum over all threads, but for what earlier  *)
(* reports have left in rank_stats: nothing is accounted to a thread whose *)
(* handle is not in the list.                                              *)
LEMMA MergedSum ==
    ASSUME Inv, NEW c \in [Threads -> Nat],
           \A t \in Threads : thread[t] # "listed" => c[t] = cum[t]
    PROVE  /\ Total(c) \in Nat /\ Merged(c) \in Nat
           /\ (multi => rankCum = 0) => Merged(c) = Total(c)
<1> USE DEF Inv
<1>1. Total(c) \in Nat
  BY ThreadFacts, SumNat DEF Total
<1>2. \A t \in Threads : t \notin Listed => c[t] = 0
  BY DEF Listed, Handles, Handle, TypeOK
<1>3. SumFunctionOnSet(c, Threads) = SumFunctionOnSet(c, Listed)
  BY <1>2, ThreadFacts, SumOverSubset
<1>4. CASE multi
  BY <1>1, <1>3, <1>4 DEF Merged, Total, TypeOK
<1>5. CASE ~multi
  <2>1. Listed = {Main}
    BY <1>5, ThreadFacts DEF Listed, Handles, Handle
  <2>2. SumFunctionOnSet(c, {Main}) = c[Main] + SumFunctionOnSet(c, {Main} \ {Main})
    <3>1. IsFiniteSet({Main}) /\ \A x \in {Main} : c[x] \in Nat
      BY <2>1, ThreadFacts
    <3>2. QED
      BY <3>1, SumTakeOut
  <2>3. SumFunctionOnSet(c, {Main} \ {Main}) = 0
    <3>1. {Main} \ {Main} = {}
      OBVIOUS
    <3>2. QED
      BY <3>1, SumEmpty
  <2>4. c[Main] \in Nat
    BY ThreadFacts
  <2>5. QED
    BY <1>1, <1>3, <1>5, <2>1, <2>2, <2>3, <2>4 DEF Merged, Total
<1>6. QED
  BY <1>4, <1>5

LEMMA InitInv == Init => Inv
<1> SUFFICES ASSUME Init
             PROVE  Inv
  OBVIOUS
<1>1. TypeOK
  BY TimersAssumption DEF Init, TypeOK, TimersAssumption, Undefined, Epoch
<1>2. Handles
  BY ThreadFacts DEF Init, Handles, Handle, Undefined, Epoch
<1>3. FirstMerge /\ FirstReportIsThreadSum
  BY DEF Init, FirstMerge, FirstReportIsThreadSum, ReportIsThreadSum
<1>4. QED
  BY <1>1, <1>2, <1>3 DEF Inv

-----------------------------------------------------------------------------
(* Every step keeps the types. *)
LEMMA NextType == Inv /\ [Next]_vars => TypeOK'
<1> SUFFICES ASSUME Inv, [Next]_vars
             PROVE  TypeOK'
  OBVIOUS
<1> USE TimersAssumption DEF TimersAssumption, Inv
<1>1. CASE Tick
  <2>1. clock' \in 1..MaxClock
    BY <1>1 DEF Tick, TypeOK
  <2>2. window' \in [Threads -> Nat] /\ sinceReset' \in [Threads -> Nat]
    BY <1>1 DEF Tick, TypeOK
  <2>3. QED
    BY <1>1, <2>1, <2>2 DEF Tick, TypeOK, threadVars, timeVars, reportVars
<1>2. ASSUME NEW t \in Threads, CreateHandle(t)
      PROVE  TypeOK'
  <2>1. tsStart' \in [Threads -> 0..MaxClock]
    <3>1. clock \in 0..MaxClock /\ Epoch \in 0..MaxClock
      BY DEF TypeOK, Epoch
    <3>2. QED
      BY <1>2, <3>1 DEF CreateHandle, TypeOK
  <2>2. QED
    BY <1>2, <2>1 DEF CreateHandle, TypeOK, reportVars, history
<1>3. ASSUME NEW t \in Threads, AppendHandle(t)
      PROVE  TypeOK'
  BY <1>3 DEF AppendHandle, TypeOK, timeVars, reportVars, history
<1>4. ASSUME NEW t \in Threads, CallBegin(t)
      PROVE  TypeOK'
  <2>1. start' \in [Threads -> {Undefined} \cup 1..MaxClock]
    BY <1>4 DEF CallBegin, TypeOK
  <2>2. QED
    BY <1>4, <2>1 DEF CallBegin, TypeOK, timeVars, reportVars
<1>5. ASSUME NEW t \in Threads, CallEnd(t)
      PROVE  TypeOK'
  <2>1. dur' \in [Threads -> 0..MaxClock]
    <3>1. ASSUME NEW s \in IF start[t] = Undefined THEN 0..clock ELSE {start[t]}
          PROVE  clock - s \in 0..MaxClock
      <4>1. clock \in 1..MaxClock /\ start[t] \in {Undefined} \cup 1..MaxClock
            /\ start[t] <= clock
        BY DEF TypeOK, Handles, Handle
      <4>2. QED
        BY <3>1, <4>1
    <3>2. CASE UNCHANGED dur
      BY <3>2 DEF TypeOK
    <3>3. CASE \E s \in IF start[t] = Undefined THEN 0..clock ELSE {start[t]} :
                  dur' = [dur EXCEPT ![t] = clock - s]
      BY <3>1, <3>3 DEF TypeOK
    <3>4. QED
      BY <1>5, <3>2, <3>3 DEF CallEnd
  <2>2. /\ call' \in [Threads -> {"out", "gettls", "in", "measured"}]
        /\ start' \in [Threads -> {Undefined} \cup 1..MaxClock]
        /\ outside' \subseteq Threads
    BY <1>5 DEF CallEnd, TypeOK
  <2>3. QED
    BY <1>5, <2>1, <2>2 DEF CallEnd, TypeOK, timeVars, reportVars
<1>6. ASSUME NEW t \in Threads, CallRecord(t)
      PROVE  TypeOK'
  <2>1. mpi[t] + dur[t] \in Nat /\ 0 \in 0..MaxClock
    BY DEF TypeOK
  <2>2. /\ mpi' \in [Threads -> Nat] /\ dur' \in [Threads -> 0..MaxClock]
        /\ start' \in [Threads -> {Undefined} \cup 1..MaxClock]
    BY <1>6, <2>1 DEF CallRecord, TypeOK
  <2>3. QED
    BY <1>6, <2>2 DEF CallRecord, TypeOK, reportVars
<1>7. ASSUME NEW t \in Threads, ThreadExit(t)
      PROVE  TypeOK'
  <2>1. cum[t] + (clock - tsStart[t]) \in Nat
    BY DEF TypeOK, Handles, Handle
  <2>2. cum' \in [Threads -> Nat]
    BY <1>7, <2>1 DEF ThreadExit, TypeOK
  <2>3. QED
    BY <1>7, <2>2 DEF ThreadExit, TypeOK, reportVars, history
<1>8. CASE SwitchOffTimers
  BY <1>8, StoppedType DEF SwitchOffTimers, TypeOK, threadVars, reportVars, history
<1>9. CASE SwitchOff
  BY <1>9 DEF SwitchOff, TypeOK, threadVars, timeVars, reportVars, history
<1>10. CASE SwitchOn
  BY <1>10 DEF SwitchOn, TypeOK, threadVars, timeVars, reportVars, history
<1>11. CASE SwitchOnTimers
  BY <1>11, StartedType DEF SwitchOnTimers, TypeOK, threadVars, reportVars, history
<1>12. CASE Reset
  <2>1. mpi' \in [Threads -> Nat] /\ sinceReset' \in [Threads -> Nat]
    BY <1>12 DEF Reset, WithoutCallsites, TypeOK
  <2>2. QED
    BY <1>12, <2>1, StartedType DEF Reset, TypeOK, threadVars
<1>13. ASSUME NEW then \in {"report", "done"}, GenerateReport(then)
       PROVE  TypeOK'
  <2>1. cum' \in [Threads -> Nat] /\ \A t \in Threads : thread[t] # "listed" => cum'[t] = cum[t]
    BY <1>13, StoppedType DEF GenerateReport, TypeOK
  <2>2. /\ reported' = Merged(cum') /\ due' = Total(cum')
        /\ rankCum' = IF multi THEN Merged(cum') ELSE rankCum
    BY <1>13 DEF GenerateReport
  <2>3. PICK c \in [Threads -> Nat] : c = cum'
    BY <2>1
  <2>4. Total(c) \in Nat /\ Merged(c) \in Nat
    BY <2>1, <2>3, MergedSum
  <2>5. reported' \in Nat /\ due' \in Nat /\ rankCum' \in Nat
    BY <2>2, <2>3, <2>4 DEF TypeOK
  <2>6. reports' \in 0..MaxReports
    BY <1>13 DEF GenerateReport, TypeOK
  <2>7. control' \in {"idle", "off", "on", "report", "done"}
    BY <1>13 DEF GenerateReport
  <2>8. tsStart' \in [Threads -> 0..MaxClock]
    BY <1>13, StartedType DEF GenerateReport
  <2>9. UNCHANGED <<multi, clock, enabled, threadVars, mpi, history>>
    BY <1>13 DEF GenerateReport
  <2>10. QED
    BY <2>1, <2>5, <2>6, <2>7, <2>8, <2>9 DEF TypeOK, threadVars, history
<1>14. CASE UNCHANGED vars
  BY <1>14 DEF TypeOK, vars, threadVars, timeVars, reportVars, history
<1>15. QED
  BY <1>1, <1>2, <1>3, <1>4, <1>5, <1>6, <1>7, <1>8, <1>9, <1>10, <1>11, <1>12,
     <1>13, <1>14 DEF Next, Pcontrol, Report, Finalize

(* Every step keeps what is known of the handles. *)
LEMMA NextHandles == Inv /\ [Next]_vars => Handles'
<1> SUFFICES ASSUME Inv, [Next]_vars
             PROVE  Handles'
  OBVIOUS
<1> USE DEF Inv
<1>m. Main \in Threads
  BY ThreadFacts
<1>1. CASE Tick
  <2>1. clock' = clock + 1 /\ clock \in Nat
    BY <1>1 DEF Tick, TypeOK
  <2>2. \A t \in Threads : /\ tsStart[t] \in Int /\ start[t] \in Int
                           /\ thread[t] = "none" => sinceReset'[t] = sinceReset[t]
    BY <1>1 DEF Tick, TypeOK, Undefined
  <2>3. QED
    BY <1>1, <2>1, <2>2 DEF Tick, Handles, Handle, threadVars, timeVars, reportVars
<1>2. ASSUME NEW t \in Threads, CreateHandle(t)
      PROVE  Handles'
  <2>1. \A u \in Threads : /\ tsStart'[u] = IF u = t THEN (IF enabled THEN clock ELSE Epoch)
                                                   ELSE tsStart[u]
                           /\ thread'[u] = IF u = t THEN "created" ELSE thread[u]
                           /\ call'[u] = IF u = t THEN "gettls" ELSE call[u]
    BY <1>2 DEF CreateHandle, TypeOK
  <2>2. clock \in Nat /\ Epoch <= clock /\ clock <= clock
    BY DEF TypeOK, Epoch
  <2>3. UNCHANGED <<multi, clock, start, cum, mpi, sinceReset>> /\ multi /\ thread[t] = "none"
    BY <1>2 DEF CreateHandle, history
  <2>4. QED
    BY <2>1, <2>2, <2>3, <1>m DEF Handles, Handle
<1>3. ASSUME NEW t \in Threads, AppendHandle(t)
      PROVE  Handles'
  <2>1. \A u \in Threads : thread'[u] = IF u = t THEN "listed" ELSE thread[u]
    BY <1>3 DEF AppendHandle, TypeOK
  <2>2. QED
    BY <1>3, <2>1, <1>m DEF AppendHandle, Handles, Handle, timeVars, history
<1>4. ASSUME NEW t \in Threads, CallBegin(t)
      PROVE  Handles'
  <2>1. \A u \in Threads : /\ call'[u] = IF u = t THEN "in" ELSE call[u]
                           /\ u # t => start'[u] = start[u]
                           /\ start'[t] \in {clock, Undefined}
    BY <1>4 DEF CallBegin, TypeOK
  <2>2. clock \in Nat /\ Undefined <= clock /\ clock <= clock
    BY DEF TypeOK, Undefined
  <2>3. QED
    BY <1>4, <2>1, <2>2, <1>m DEF CallBegin, Handles, Handle, timeVars
<1>5. ASSUME NEW t \in Threads, CallEnd(t)
      PROVE  Handles'
  <2>1. /\ call'[t] \in {"measured", "out"} /\ call[t] = "in"
        /\ \A u \in Threads \ {t} : call'[u] = call[u] /\ start'[u] = start[u]
        /\ start'[t] \in {start[t], Undefined}
    BY <1>5 DEF CallEnd, TypeOK
  <2>2. clock \in Nat /\ Undefined <= clock
    BY DEF TypeOK, Undefined
  <2>3. QED
    BY <1>5, <2>1, <2>2, <1>m DEF CallEnd, Handles, Handle, timeVars
<1>6. ASSUME NEW t \in Threads, CallRecord(t)
      PROVE  Handles'
  <2>1. /\ call'[t] = "out" /\ call[t] = "measured" /\ start'[t] = Undefined
        /\ \A u \in Threads \ {t} :
              call'[u] = call[u] /\ start'[u] = start[u] /\ mpi'[u] = mpi[u]
    BY <1>6 DEF CallRecord, TypeOK
  <2>2. clock \in Nat /\ Undefined <= clock
    BY DEF TypeOK, Undefined
  <2>3. QED
    BY <1>6, <2>1, <2>2, <1>m DEF CallRecord, Handles, Handle
<1>7. ASSUME NEW t \in Threads, ThreadExit(t)
      PROVE  Handles'
  <2>1. \A u \in Threads \ {t} : cum'[u] = cum[u] /\ thread'[u] = thread[u]
    BY <1>7 DEF ThreadExit, TypeOK
  <2>2. t # Main /\ thread'[t] = "exited" /\ call[t] = "out" /\ multi
    BY <1>7 DEF ThreadExit, TypeOK
  <2>3. QED
    BY <1>7, <2>1, <2>2, <1>m DEF ThreadExit, Handles, Handle, history
<1>8. CASE SwitchOffTimers
  BY <1>8, <1>m, StoppedType DEF SwitchOffTimers, Handles, Handle, threadVars, history
<1>9. CASE SwitchOff
  BY <1>9, <1>m DEF SwitchOff, Handles, Handle, threadVars, timeVars, history
<1>10. CASE SwitchOn
  BY <1>10, <1>m DEF SwitchOn, Handles, Handle, threadVars, timeVars, history
<1>c. clock \in Nat /\ clock <= clock
  BY DEF TypeOK
<1>11. CASE SwitchOnTimers
  BY <1>11, <1>m, <1>c, StartedType DEF SwitchOnTimers, Handles, Handle, threadVars, history
<1>12. CASE Reset
  <2>1. \A t \in Threads : /\ mpi[t] = 0 => mpi'[t] = 0
                           /\ sinceReset'[t] = 0
                           /\ tsStart'[t] = IF thread[t] = "listed" THEN clock ELSE tsStart[t]
    BY <1>12, StartedType DEF Reset, WithoutCallsites
  <2>2. UNCHANGED <<multi, clock, threadVars, cum>>
    BY <1>12 DEF Reset
  <2>3. QED
    BY <2>1, <2>2, <1>m, <1>c DEF Handles, Handle, threadVars
<1>13. ASSUME NEW then \in {"report", "done"}, GenerateReport(then)
       PROVE  Handles'
  <2>1. \A t \in Threads : /\ thread[t] # "listed" => cum'[t] = cum[t]
                           /\ tsStart'[t] \in {tsStart[t], clock}
    BY <1>13, StoppedType, StartedType DEF GenerateReport, StartedAgain
  <2>2. UNCHANGED <<multi, clock, threadVars, mpi, sinceReset>>
    BY <1>13 DEF GenerateReport, history
  <2>3. QED
    BY <2>1, <2>2, <1>m, <1>c DEF Handles, Handle, threadVars
<1>14. CASE UNCHANGED vars
  BY <1>14, <1>m DEF Handles, Handle, vars, threadVars, timeVars, history
<1>15. QED
  BY <1>1, <1>2, <1>3, <1>4, <1>5, <1>6, <1>7, <1>8, <1>9, <1>10, <1>11, <1>12,
     <1>13, <1>14 DEF Next, Pcontrol, Report, Finalize

(* The first report, and every report of MPIPI_MODE_ST, shows the sum.     *)
LEMMA NextFirst == Inv /\ [Next]_vars => FirstMerge' /\ FirstReportIsThreadSum'
<1> SUFFICES ASSUME Inv, [Next]_vars
             PROVE  FirstMerge' /\ FirstReportIsThreadSum'
  OBVIOUS
<1> USE DEF Inv, FirstMerge, FirstReportIsThreadSum, ReportIsThreadSum
<1>1. CASE UNCHANGED <<multi, reportVars>>
  BY <1>1 DEF reportVars
<1>2. CASE Reset
  BY <1>2 DEF Reset
<1>3. ASSUME NEW then \in {"report", "done"}, GenerateReport(then)
      PROVE  FirstMerge' /\ FirstReportIsThreadSum'
  <2>1. cum' \in [Threads -> Nat] /\ \A t \in Threads : thread[t] # "listed" => cum'[t] = cum[t]
    BY <1>3, StoppedType DEF GenerateReport, TypeOK
  <2>2. /\ reported' = Merged(cum') /\ due' = Total(cum')
        /\ reports' = reports + 1 /\ multi' = multi
    BY <1>3 DEF GenerateReport
  <2>3. PICK c \in [Threads -> Nat] : c = cum'
    BY <2>1
  <2>4. (multi => rankCum = 0) => Merged(c) = Total(c)
    BY <2>1, <2>3, MergedSum
  <2>5. reports' # 0 /\ (reports' = 1 => reports = 0)
    BY <2>2 DEF TypeOK
  <2>6. QED
    BY <2>2, <2>3, <2>4, <2>5
<1>4. ASSUME ~Reset, \A then \in {"report", "done"} : ~GenerateReport(then)
      PROVE  UNCHANGED <<multi, reportVars>>
  BY <1>4 DEF Next, Pcontrol, Report, Finalize, vars, timeVars, reportVars, Tick, CreateHandle,
     AppendHandle, CallBegin, CallEnd, CallRecord, ThreadExit, SwitchOffTimers, SwitchOff,
     SwitchOn, SwitchOnTimers
<1>5. QED
  BY <1>1, <1>2, <1>3, <1>4

LEMMA NextInv == Inv /\ [Next]_vars => Inv'
BY NextType, NextHandles, NextFirst DEF Inv

LEMMA SpecInv == Spec => []Inv
BY InitInv, NextInv, PTL DEF Spec

(* Times stay natural numbers: a timer never starts in the future, so that *)
(* no interval is negative.  Whatever the application does.                *)
THEOREM TimersType == Spec => []TypeOK
<1>1. Inv => TypeOK
  BY DEF Inv
<1>2. QED
  BY <1>1, SpecInv, PTL

(* The first report of MPIPI_MODE_MT, and every report of MPIPI_MODE_ST,   *)
(* shows as application time of the process the sum over its threads,      *)
(* whatever the application does (mpiPi_stats_mt_merge).                   *)
THEOREM FirstReportSum == Spec => []FirstReportIsThreadSum
<1>1. Inv => FirstReportIsThreadSum
  BY DEF Inv
<1>2. QED
  BY <1>1, SpecInv, PTL

-----------------------------------------------------------------------------
(* Profiling is switched while every thread is outside MPI only. *)
LEMMA NextUndisturbed ==
    ASSUME "quiet" \in Discipline, Inv, Undisturbed, [Next]_vars
    PROVE  Undisturbed'
<1> USE DEF Undisturbed, Quiet
<1>t. TypeOK
  BY DEF Inv
<1>i. ASSUME NEW t \in Threads, call[t] # "out"
      PROVE  control = "idle"
  BY <1>i
<1>1. CASE UNCHANGED <<enabled, call, start, outside>> /\ control' = control
  BY <1>1
<1>2. CASE UNCHANGED <<call, start, outside>> /\ Quiet
  <2>1. \A t \in Threads : call'[t] = "out"
    BY <1>2
  <2>2. outside' = {}
    BY <1>2, <1>t DEF TypeOK
  <2>3. QED
    BY <2>1, <2>2
<1>3. ASSUME NEW t \in Threads, CreateHandle(t)
      PROVE  Undisturbed'
  <2>1. \A u \in Threads : call'[u] = IF u = t THEN "gettls" ELSE call[u]
    BY <1>3, <1>t DEF CreateHandle, TypeOK
  <2>2. /\ call[t] = "out" /\ control' = "idle"
        /\ UNCHANGED <<enabled, start, outside>>
    BY <1>3 DEF CreateHandle, MayCall, history
  <2>3. QED
    BY <2>1, <2>2
<1>4. ASSUME NEW t \in Threads, CallBegin(t)
      PROVE  Undisturbed'
  <2>1. \A u \in Threads : /\ call'[u] = IF u = t THEN "in" ELSE call[u]
                           /\ start'[u] = IF u # t THEN start[u]
                                          ELSE IF enabled THEN clock ELSE Undefined
    BY <1>4, <1>t DEF CallBegin, TypeOK, IsOn
  <2>2. /\ call[t] \in {"out", "gettls"} /\ control = "idle"
        /\ UNCHANGED <<control, enabled>>
        /\ outside' = IF enabled THEN outside ELSE outside \cup {t}
    BY <1>4, <1>i DEF CallBegin, MayCall
  <2>3. clock # Undefined
    BY <1>t DEF TypeOK, Undefined
  <2>4. enabled' \in BOOLEAN
    BY <2>2, <1>t DEF TypeOK
  <2>5. QED
    BY <2>1, <2>2, <2>3, <2>4
<1>5. ASSUME NEW t \in Threads, CallEnd(t)
      PROVE  Undisturbed'
  <2>1. /\ call[t] = "in" /\ control = "idle"
        /\ UNCHANGED <<control, enabled>>
        /\ \A u \in Threads \ {t} : call'[u] = call[u] /\ start'[u] = start[u]
        /\ outside' \in {outside, outside \ {t}}
    BY <1>5, <1>i, <1>t DEF CallEnd, TypeOK
  <2>2. CASE enabled
    BY <1>5, <1>t, <2>1, <2>2 DEF CallEnd, IsOn, TypeOK
  <2>3. CASE ~enabled
    BY <1>5, <1>t, <2>1, <2>3 DEF CallEnd, IsOn, TypeOK
  <2>4. QED
    BY <2>2, <2>3
<1>6. ASSUME NEW t \in Threads, CallRecord(t)
      PROVE  Undisturbed'
  <2>1. /\ call[t] = "measured" /\ call'[t] = "out" /\ control = "idle"
        /\ UNCHANGED <<control, enabled>>
        /\ \A u \in Threads \ {t} : call'[u] = call[u] /\ start'[u] = start[u]
        /\ outside' = outside \ {t}
    BY <1>6, <1>i, <1>t DEF CallRecord, TypeOK
  <2>2. QED
    BY <2>1
<1>7. CASE Pcontrol \/ Finalize
  <2>1. Quiet
    BY <1>7 DEF Pcontrol, Finalize, SwitchOffTimers, SwitchOff, SwitchOn, SwitchOnTimers,
       Reset, Report, MayControl
  <2>2. UNCHANGED <<call, start, outside>>
    BY <1>7 DEF Pcontrol, Finalize, SwitchOffTimers, SwitchOff, SwitchOn, SwitchOnTimers,
       Reset, Report, GenerateReport, threadVars, history
  <2>3. QED
    BY <1>2, <2>1, <2>2
<1>8. ASSUME Tick \/ UNCHANGED vars \/ \E t \in Threads : AppendHandle(t) \/ ThreadExit(t)
      PROVE  UNCHANGED <<enabled, call, start, outside>> /\ control' = control
  BY <1>8 DEF Tick, AppendHandle, ThreadExit, vars, threadVars, history
<1>9. QED
  BY <1>1, <1>3, <1>4, <1>5, <1>6, <1>7, <1>8 DEF Next

LEMMA InitUndisturbed == Init => Undisturbed
BY DEF Init, Undisturbed, Quiet

LEMMA SpecUndisturbed ==
    ASSUME "quiet" \in Discipline
    PROVE  Spec => []Undisturbed
<1>1. Inv /\ Undisturbed /\ [Next]_vars => Undisturbed'
  BY NextUndisturbed
<1>2. QED
  BY <1>1, InitUndisturbed, SpecInv, PTL DEF Spec

(* A call that began while profiling was disabled adds nothing to the MPI  *)
(* time, if MPI_Pcontrol is called while no thread is in MPI.              *)
THEOREM OnlyCallsOfWindowCount ==
    ASSUME "quiet" \in Discipline
    PROVE  Spec => OnlyCallsOfWindow
<1>1. ASSUME TypeOK, Undisturbed, [Next]_vars, NEW t \in Threads, t \in outside
      PROVE  mpi'[t] <= mpi[t]
  <2>1. mpi[t] \in Nat /\ 0 <= mpi[t] /\ mpi[t] <= mpi[t]
    BY <1>1 DEF TypeOK
  <2>2. ASSUME NEW u \in Threads, CallRecord(u)
        PROVE  mpi'[t] = mpi[t]
    BY <1>1, <2>2 DEF CallRecord, Undisturbed, TypeOK
  <2>3. CASE Reset
    BY <1>1, <2>1, <2>3 DEF Reset, WithoutCallsites
  <2>4. ASSUME ~Reset, \A u \in Threads : ~CallRecord(u)
        PROVE  mpi' = mpi
    BY <1>1, <2>4 DEF Next, Pcontrol, Report, Finalize, vars, timeVars, Tick, CreateHandle,
       AppendHandle, CallBegin, CallEnd, ThreadExit, SwitchOffTimers, SwitchOff, SwitchOn,
       SwitchOnTimers, GenerateReport
  <2>5. QED
    BY <2>1, <2>2, <2>3, <2>4
<1>2. TypeOK /\ Undisturbed /\ [Next]_vars
        => [\A t \in Threads : t \in outside => mpi'[t] <= mpi[t]]_vars
  BY <1>1
<1>3. QED
  BY <1>2, TimersType, SpecUndisturbed, PTL DEF Spec, OnlyCallsOfWindow

-----------------------------------------------------------------------------
LEMMA AccountedType ==
    ASSUME Inv
    PROVE  \A t \in Threads : /\ clock - tsStart[t] \in Nat
                              /\ Accounted(t) \in Nat
                              /\ cum[t] <= Accounted(t)
                              /\ Accounted(t) <= cum[t] + (clock - tsStart[t])
<1>1. ASSUME NEW t \in Threads
      PROVE  cum[t] \in Nat /\ clock - tsStart[t] \in Nat
  BY DEF Inv, TypeOK, Handles, Handle
<1>2. QED
  BY <1>1 DEF Accounted

(* What a step does to the accounted time: time adds to it while the timer *)
(* runs; a reset drops what the timer has; a thread that exits takes what  *)
(* its timer has, running or not; nothing else changes it.                 *)
LEMMA Accounting ==
    ASSUME {"toggle", "quiet"} \subseteq Discipline, Inv, Undisturbed, [Next]_vars,
           NEW t \in Threads
    PROVE  /\ Tick => Accounted(t)' = Accounted(t) + (IF Runs(t) THEN 1 ELSE 0)
           /\ Reset => Accounted(t)' = cum[t]
           /\ ThreadExit(t) => Accounted(t)' = cum[t] + (clock - tsStart[t])
           /\ ~Tick /\ ~Reset /\ ~ThreadExit(t) => Accounted(t)' = Accounted(t)
<1> USE DEF Inv
<1>t. /\ cum[t] \in Nat /\ clock \in Nat /\ tsStart[t] \in Nat
      /\ clock - clock = 0 /\ cum[t] + 0 = cum[t]
      /\ clock - tsStart[t] \in Nat
  BY AccountedType DEF TypeOK
<1>q. Quiet => thread[t] # "created"
  BY DEF Handles, Handle, Quiet
<1>1. ASSUME Tick
      PROVE  Accounted(t)' = Accounted(t) + (IF Runs(t) THEN 1 ELSE 0)
  BY <1>1, <1>t DEF Tick, Accounted, Runs, threadVars, timeVars
<1>2. ASSUME NEW u \in Threads, CreateHandle(u)
      PROVE  Accounted(t)' = Accounted(t)
  <2>1. CASE u = t
    <3>1. /\ thread[t] = "none" /\ thread'[t] = "created"
          /\ tsStart'[t] = IF enabled THEN clock ELSE Epoch
      BY <1>2, <2>1 DEF CreateHandle, TypeOK
    <3>2. UNCHANGED <<cum, clock, control, enabled>>
      BY <1>2 DEF CreateHandle
    <3>3. QED
      BY <3>1, <3>2, <1>t DEF Accounted, Runs
  <2>2. CASE u # t
    BY <1>2, <2>2 DEF CreateHandle, TypeOK, Accounted, Runs
  <2>3. QED
    BY <2>1, <2>2
<1>3. ASSUME NEW u \in Threads, AppendHandle(u)
      PROVE  Accounted(t)' = Accounted(t)
  BY <1>3 DEF AppendHandle, TypeOK, Accounted, Runs, timeVars
<1>4. ASSUME NEW u \in Threads, CallBegin(u) \/ CallEnd(u) \/ CallRecord(u)
      PROVE  Accounted(t)' = Accounted(t)
  BY <1>4 DEF CallBegin, CallEnd, CallRecord, Accounted, Runs, timeVars
<1>5. ASSUME NEW u \in Threads, ThreadExit(u), u # t
      PROVE  Accounted(t)' = Accounted(t)
  BY <1>5 DEF ThreadExit, TypeOK, Accounted, Runs
<1>6. ASSUME ThreadExit(t)
      PROVE  Accounted(t)' = cum[t] + (clock - tsStart[t])
  <2>1. cum'[t] = cum[t] + (clock - tsStart[t]) /\ thread'[t] = "exited"
    BY <1>6 DEF ThreadExit, TypeOK
  <2>2. QED
    BY <2>1, <1>t DEF Accounted, Runs
<1>7. ASSUME SwitchOffTimers
      PROVE  Accounted(t)' = Accounted(t)
  <2>1. /\ control = "idle" /\ control' = "off" /\ enabled /\ Quiet
        /\ cum'[t] = IF thread[t] = "listed" THEN cum[t] + (clock - tsStart[t]) ELSE cum[t]
    BY <1>7, StoppedType DEF SwitchOffTimers, MayControl
  <2>2. QED
    BY <2>1, <1>q, <1>t DEF Accounted, Runs
<1>8. ASSUME SwitchOff
      PROVE  Accounted(t)' = Accounted(t)
  BY <1>8, <1>t DEF SwitchOff, Accounted, Runs, timeVars
<1>9. ASSUME SwitchOn
      PROVE  Accounted(t)' = Accounted(t)
  BY <1>9, <1>t DEF SwitchOn, MayControl, Accounted, Runs, timeVars
<1>10. ASSUME SwitchOnTimers
       PROVE  Accounted(t)' = Accounted(t)
  <2>1. /\ control # "idle" /\ control' = "idle"
        /\ tsStart'[t] = IF thread[t] = "listed" THEN clock ELSE tsStart[t]
        /\ UNCHANGED <<clock, enabled, thread, cum>>
        /\ thread[t] # "created"
    BY <1>10, <1>q, StartedType DEF SwitchOnTimers, threadVars, Undisturbed
  <2>2. QED
    BY <2>1, <1>t DEF Accounted, Runs
<1>11. ASSUME Reset
       PROVE  Accounted(t)' = cum[t]
  <2>1. /\ tsStart'[t] = IF thread[t] = "listed" THEN clock ELSE tsStart[t]
        /\ UNCHANGED <<clock, enabled, thread, cum>>
        /\ thread[t] # "created"
    BY <1>11, <1>q, StartedType DEF Reset, threadVars, MayControl
  <2>2. QED
    BY <2>1, <1>t DEF Accounted, Runs
<1>12. ASSUME NEW then \in {"report", "done"}, GenerateReport(then), control = "idle", Quiet
       PROVE  Accounted(t)' = Accounted(t)
  <2>1. control' # "idle" /\ thread[t] # "created"
    BY <1>12, <1>q DEF GenerateReport
  <2>2. cum'[t] = IF enabled /\ thread[t] = "listed"
                  THEN cum[t] + (clock - tsStart[t]) ELSE cum[t]
    BY <1>12, StoppedType DEF GenerateReport
  <2>3. QED
    BY <1>12, <2>1, <2>2, <1>t DEF Accounted, Runs
<1>13. ASSUME UNCHANGED vars
       PROVE  Accounted(t)' = Accounted(t)
  BY <1>13 DEF Accounted, Runs, vars, threadVars, timeVars
<1>14. /\ Reset => ~Tick /\ ~ThreadExit(t)
       /\ ThreadExit(t) => ~Tick
  BY <1>t DEF Reset, Tick, ThreadExit, threadVars, TypeOK
<1>15. QED
  <2>1. CASE Tick
    BY <2>1, <1>1, <1>14
  <2>2. CASE Reset
    BY <2>2, <1>11, <1>14
  <2>3. CASE ThreadExit(t)
    BY <2>3, <1>6, <1>14
  <2>4. ASSUME ~Tick, ~Reset, ~ThreadExit(t)
        PROVE  Accounted(t)' = Accounted(t)
    BY <2>4, <1>2, <1>3, <1>4, <1>5, <1>7, <1>8, <1>9, <1>10, <1>12, <1>13
       DEF Next, Pcontrol, Report, Finalize, MayControl
  <2>5. QED
    BY <2>1, <2>2, <2>3, <2>4

(* What a step does to the time the histories count. *)
LEMMA WindowCounts ==
    ASSUME TypeOK, [Next]_vars, NEW t \in Threads
    PROVE  /\ window'[t] \in Nat /\ window[t] <= window'[t]
           /\ Tick /\ Runs(t) => window'[t] = window[t] + 1
           /\ Tick => sinceReset'[t] = sinceReset[t] + (IF Runs(t) THEN 1 ELSE 0)
           /\ Reset => sinceReset'[t] = 0
           /\ ~Tick /\ ~Reset => sinceReset'[t] = sinceReset[t]
<1>1. window[t] \in Nat /\ sinceReset[t] \in Nat
  BY DEF TypeOK
<1>2. ASSUME Tick
      PROVE  /\ window'[t] = window[t] \/ window'[t] = window[t] + 1
             /\ Runs(t) => window'[t] = window[t] + 1
             /\ sinceReset'[t] = sinceReset[t] + (IF Runs(t) THEN 1 ELSE 0)
  BY <1>1, <1>2 DEF Tick, Runs
<1>3. ASSUME ~Tick
      PROVE  UNCHANGED window
  BY <1>3 DEF Next, Pcontrol, Report, Finalize, vars, history, CreateHandle, AppendHandle,
     CallBegin, CallEnd, CallRecord, ThreadExit, SwitchOffTimers, SwitchOff, SwitchOn,
     SwitchOnTimers, Reset, GenerateReport
<1>4. ASSUME ~Tick, ~Reset
      PROVE  UNCHANGED sinceReset
  BY <1>4 DEF Next, Pcontrol, Report, Finalize, vars, history, CreateHandle, AppendHandle,
     CallBegin, CallEnd, CallRecord, ThreadExit, SwitchOffTimers, SwitchOff, SwitchOn,
     SwitchOnTimers, GenerateReport
<1>5. Reset => sinceReset'[t] = 0 /\ ~Tick
  BY DEF Reset, Tick, TypeOK
<1>6. QED
  BY <1>1, <1>2, <1>3, <1>4, <1>5

LEMMA NextNotMore ==
    ASSUME {"toggle", "quiet", "exit"} \subseteq Discipline,
           Inv, Undisturbed, [Next]_vars, NotMore
    PROVE  NotMore'
<1> SUFFICES ASSUME NEW t \in Threads
             PROVE  Accounted(t)' <= window'[t]
  BY DEF NotMore
<1>1. /\ Accounted(t) <= window[t] /\ cum[t] <= Accounted(t)
      /\ Accounted(t) \in Nat /\ cum[t] \in Nat /\ window[t] \in Nat
  BY AccountedType DEF NotMore, Inv, TypeOK
<1>2. /\ window'[t] \in Nat /\ window[t] <= window'[t]
      /\ Tick /\ Runs(t) => window'[t] = window[t] + 1
  BY WindowCounts DEF Inv
<1>3. CASE Tick
  <2>1. Accounted(t)' = Accounted(t) + (IF Runs(t) THEN 1 ELSE 0)
    BY <1>3, Accounting
  <2>2. QED
    BY <1>1, <1>2, <1>3, <2>1
<1>4. CASE Reset
  <2>1. Accounted(t)' = cum[t]
    BY <1>4, Accounting
  <2>2. QED
    BY <1>1, <1>2, <2>1
<1>5. CASE ThreadExit(t)
  <2>1. Accounted(t)' = cum[t] + (clock - tsStart[t])
    BY <1>5, Accounting
  <2>2. Accounted(t) = cum[t] + (clock - tsStart[t])
    BY <1>5 DEF ThreadExit, Accounted, Runs
  <2>3. QED
    BY <1>1, <1>2, <2>1, <2>2
<1>6. CASE ~Tick /\ ~Reset /\ ~ThreadExit(t)
  <2>1. Accounted(t)' = Accounted(t)
    BY <1>6, Accounting
  <2>2. QED
    BY <1>1, <1>2, <2>1
<1>7. QED
  BY <1>3, <1>4, <1>5, <1>6

LEMMA NextNotLess ==
    ASSUME {"toggle", "quiet"} \subseteq Discipline,
           Inv, Undisturbed, [Next]_vars, NotLess
    PROVE  NotLess'
<1> SUFFICES ASSUME NEW t \in Threads
             PROVE  sinceReset'[t] <= Accounted(t)'
  BY DEF NotLess
<1>1. /\ sinceReset[t] <= Accounted(t) /\ Accounted(t) <= cum[t] + (clock - tsStart[t])
      /\ Accounted(t) \in Nat /\ cum[t] \in Nat /\ clock - tsStart[t] \in Nat
      /\ sinceReset[t] \in Nat
  BY AccountedType DEF NotLess, Inv, TypeOK
<1>2. /\ Tick => sinceReset'[t] = sinceReset[t] + (IF Runs(t) THEN 1 ELSE 0)
      /\ Reset => sinceReset'[t] = 0
      /\ ~Tick /\ ~Reset => sinceReset'[t] = sinceReset[t]
  BY WindowCounts DEF Inv
<1>3. CASE Tick
  <2>1. Accounted(t)' = Accounted(t) + (IF Runs(t) THEN 1 ELSE 0)
    BY <1>3, Accounting
  <2>2. QED
    BY <1>1, <1>2, <1>3, <2>1
<1>4. CASE Reset
  <2>1. Accounted(t)' = cum[t]
    BY <1>4, Accounting
  <2>2. QED
    BY <1>1, <1>2, <1>4, <2>1
<1>5. CASE ThreadExit(t) /\ ~Tick /\ ~Reset
  <2>1. Accounted(t)' = cum[t] + (clock - tsStart[t])
    BY <1>5, Accounting
  <2>2. QED
    BY <1>1, <1>2, <1>5, <2>1
<1>6. CASE ~Tick /\ ~Reset /\ ~ThreadExit(t)
  <2>1. Accounted(t)' = Accounted(t)
    BY <1>6, Accounting
  <2>2. QED
    BY <1>1, <1>2, <1>6, <2>1
<1>7. QED
  BY <1>3, <1>4, <1>5, <1>6

(* The time of a call is measured within what its thread is accounted      *)
(* meanwhile, because profiling does not change during the call.           *)
LEMMA NextCovered ==
    ASSUME {"toggle", "quiet"} \subseteq Discipline,
           Inv, Undisturbed, [Next]_vars, Covered
    PROVE  Covered'
<1> SUFFICES ASSUME NEW t \in Threads
             PROVE  InMpi(t)' <= Accounted(t)'
  BY DEF Covered
<1> USE DEF Inv
<1>1. /\ InMpi(t) <= Accounted(t)
      /\ cum[t] <= Accounted(t) /\ Accounted(t) <= cum[t] + (clock - tsStart[t])
      /\ Accounted(t) \in Nat /\ cum[t] \in Nat /\ clock - tsStart[t] \in Nat
      /\ mpi[t] \in Nat /\ dur[t] \in Nat /\ clock \in Nat /\ start[t] \in Int
  BY AccountedType DEF Covered, TypeOK, Undefined
<1>2. ASSUME call[t] # "out"
      PROVE  control = "idle"
  BY <1>2 DEF Undisturbed, Quiet
<1>3. ASSUME Tick
      PROVE  InMpi(t)' <= Accounted(t)'
  <2>1. Accounted(t)' = Accounted(t) + (IF Runs(t) THEN 1 ELSE 0)
    BY <1>3, Accounting
  <2>2. clock' = clock + 1 /\ UNCHANGED <<enabled, call, start, dur, mpi>>
    BY <1>3 DEF Tick, threadVars, timeVars
  <2>3. InMpi(t)' = InMpi(t) + (IF call[t] = "in" /\ enabled THEN 1 ELSE 0)
    BY <2>2, <1>1 DEF InMpi
  <2>4. call[t] = "in" /\ enabled => Runs(t)
    BY <1>2 DEF Runs, Handles, Handle
  <2>5. InMpi(t) \in Int
    BY <1>1 DEF InMpi
  <2>6. QED
    BY <2>1, <2>3, <2>4, <2>5, <1>1
<1>4. ASSUME Reset
      PROVE  InMpi(t)' <= Accounted(t)'
  <2>1. Accounted(t)' = cum[t]
    BY <1>4, Accounting
  <2>2. mpi'[t] = 0 /\ call'[t] = "out"
    BY <1>4 DEF Reset, MayControl, Quiet, WithoutCallsites, threadVars, Handles, Handle, Listed,
       TypeOK
  <2>3. QED
    BY <2>1, <2>2, <1>1 DEF InMpi
<1>5. ASSUME ThreadExit(t)
      PROVE  InMpi(t)' <= Accounted(t)'
  <2>1. Accounted(t)' = cum[t] + (clock - tsStart[t])
    BY <1>5, Accounting
  <2>2. InMpi(t)' = InMpi(t) /\ InMpi(t) \in Int
    BY <1>5, <1>1 DEF ThreadExit, InMpi
  <2>3. QED
    BY <2>1, <2>2, <1>1
<1>6. ASSUME ~Tick, ~Reset, ~ThreadExit(t), InMpi(t)' <= InMpi(t), InMpi(t)' \in Int
      PROVE  InMpi(t)' <= Accounted(t)'
  <2>1. Accounted(t)' = Accounted(t)
    BY <1>6, Accounting
  <2>2. InMpi(t) \in Int
    BY <1>1 DEF InMpi
  <2>3. QED
    BY <1>6, <2>1, <2>2, <1>1
<1>7. ASSUME CallBegin(t)
      PROVE  InMpi(t)' <= InMpi(t) /\ InMpi(t)' \in Int
  <2>1. /\ call'[t] = "in" /\ call[t] \in {"out", "gettls"}
        /\ start'[t] = IF enabled THEN clock ELSE Undefined
        /\ UNCHANGED <<clock, enabled, mpi>>
    BY <1>7 DEF CallBegin, MayCall, IsOn, TypeOK, timeVars
  <2>2. QED
    BY <2>1, <1>1 DEF InMpi
<1>8. ASSUME CallEnd(t)
      PROVE  InMpi(t)' <= InMpi(t) /\ InMpi(t)' \in Int
  <2>1. call[t] = "in" /\ UNCHANGED <<clock, enabled, mpi>>
        /\ (start[t] = Undefined <=> ~enabled)
    BY <1>8 DEF CallEnd, timeVars, Undisturbed
  <2>2. \/ /\ enabled
           /\ call'[t] = "measured"
           /\ dur'[t] = clock - start[t]
        \/ /\ ~enabled
           /\ call'[t] = "out"
    BY <1>8, <2>1 DEF CallEnd, IsOn, TypeOK
  <2>3. QED
    BY <2>1, <2>2, <1>1 DEF InMpi
<1>9. ASSUME CallRecord(t)
      PROVE  InMpi(t)' <= InMpi(t) /\ InMpi(t)' \in Int
  <2>1. /\ call[t] = "measured" /\ call'[t] = "out" /\ enabled
        /\ mpi'[t] = mpi[t] + dur[t]
    BY <1>9 DEF CallRecord, IsOn, TypeOK, Undisturbed
  <2>2. QED
    BY <2>1, <1>1 DEF InMpi
<1>10. ASSUME CreateHandle(t)
       PROVE  InMpi(t)' <= InMpi(t) /\ InMpi(t)' \in Int
  <2>1. call[t] = "out" /\ call'[t] = "gettls" /\ mpi'[t] = mpi[t]
    BY <1>10 DEF CreateHandle, MayCall, TypeOK
  <2>2. QED
    BY <2>1, <1>1 DEF InMpi
<1>11. ASSUME NEW u \in Threads, u # t,
              CreateHandle(u) \/ CallBegin(u) \/ CallEnd(u) \/ CallRecord(u)
       PROVE  InMpi(t)' <= InMpi(t) /\ InMpi(t)' \in Int
  <2>1. UNCHANGED <<clock, enabled, call[t], start[t], dur[t], mpi[t]>>
    BY <1>11 DEF CreateHandle, CallBegin, CallEnd, CallRecord, timeVars, TypeOK
  <2>2. QED
    BY <2>1, <1>1 DEF InMpi
<1>12. ASSUME UNCHANGED <<clock, threadVars, mpi>>, enabled' = enabled \/ Quiet
       PROVE  InMpi(t)' <= InMpi(t) /\ InMpi(t)' \in Int
  BY <1>12, <1>1 DEF InMpi, threadVars, Quiet
<1>13. ASSUME UNCHANGED <<clock, call, start, dur, mpi, enabled>>
       PROVE  InMpi(t)' <= InMpi(t) /\ InMpi(t)' \in Int
  BY <1>13, <1>1 DEF InMpi
<1>14. ASSUME Pcontrol \/ Finalize, ~Reset
       PROVE  InMpi(t)' <= InMpi(t) /\ InMpi(t)' \in Int
  <2>1. UNCHANGED <<clock, threadVars, mpi>>
    BY <1>14 DEF Pcontrol, Finalize, SwitchOffTimers, SwitchOff, SwitchOn, SwitchOnTimers,
       Report, GenerateReport, timeVars
  <2>2. Quiet
    BY <1>14 DEF Pcontrol, Finalize, SwitchOffTimers, SwitchOff, SwitchOn, SwitchOnTimers,
       Report, MayControl, Undisturbed
  <2>3. QED
    BY <2>1, <2>2, <1>12
<1>15. ASSUME UNCHANGED vars \/ \E u \in Threads : AppendHandle(u) \/ ThreadExit(u)
       PROVE  UNCHANGED <<clock, call, start, dur, mpi, enabled>>
  BY <1>15 DEF AppendHandle, ThreadExit, vars, threadVars, timeVars
<1>16. QED
  BY <1>3, <1>4, <1>5, <1>6, <1>7, <1>8, <1>9, <1>10, <1>11, <1>13, <1>14, <1>15 DEF Next

-----------------------------------------------------------------------------
LEMMA InitAccounts == Init => NotMore /\ NotLess /\ Covered
<1> SUFFICES ASSUME Init, NEW t \in Threads
             PROVE  /\ Accounted(t) = 0 /\ window[t] = 0 /\ sinceReset[t] = 0
                    /\ InMpi(t) = 0
  BY DEF NotMore, NotLess, Covered
<1>1. cum[t] = 0 /\ window[t] = 0 /\ sinceReset[t] = 0 /\ mpi[t] = 0 /\ call[t] = "out"
  BY DEF Init
<1>2. Runs(t) => clock - tsStart[t] = 0
  BY DEF Init, Runs
<1>3. QED
  BY <1>1, <1>2 DEF Accounted, InMpi

(* What a thread would be accounted if its timer were read. *)
LEMMA AppTimeAccounted ==
    ASSUME Inv, control = "idle", NEW t \in Threads
    PROVE  AppTime(t) <= Accounted(t) /\ (t \in Listed => AppTime(t) = Accounted(t))
<1>1. cum[t] \in Nat /\ clock - tsStart[t] \in Nat
  BY AccountedType DEF Inv, TypeOK
<1>2. (t \in Active => Runs(t) \/ ~enabled) /\ (t \in Listed /\ Runs(t) => t \in Active)
  BY DEF Active, Listed, Runs
<1>3. QED
  BY <1>1, <1>2 DEF AppTime, Accounted, Runs

(* No time outside of MPI_Pcontrol's window is accounted to a thread, if   *)
(* the application only toggles profiling, does so while no thread is in   *)
(* MPI, and ends its threads while profiling is enabled.                   *)
THEOREM TimeWithinWindow ==
    ASSUME {"toggle", "quiet", "exit"} \subseteq Discipline
    PROVE  Spec => []AppWithinWindow
<1>1. ASSUME Inv, NotMore
      PROVE  AppWithinWindow
  <2> SUFFICES ASSUME control = "idle", NEW t \in Threads
               PROVE  AppTime(t) <= window[t]
    BY DEF AppWithinWindow
  <2>1. AppTime(t) <= Accounted(t) /\ Accounted(t) <= window[t]
    BY <1>1, AppTimeAccounted DEF NotMore
  <2>2. AppTime(t) \in Int /\ Accounted(t) \in Nat /\ window[t] \in Nat
    BY <1>1, AccountedType DEF AppTime, Inv, TypeOK
  <2>3. QED
    BY <2>1, <2>2
<1>2. Inv /\ Undisturbed /\ NotMore /\ [Next]_vars => NotMore'
  BY NextNotMore
<1>3. Spec => []Undisturbed
  BY SpecUndisturbed
<1>4. QED
  BY <1>1, <1>2, <1>3, InitAccounts, SpecInv, PTL DEF Spec

(* None of the window's time since the last reset is lost, if the          *)
(* application only toggles profiling and does so while no thread is in    *)
(* MPI.                                                                    *)
THEOREM WindowCovered ==
    ASSUME {"toggle", "quiet"} \subseteq Discipline
    PROVE  Spec => []AppCoversWindow
<1>1. ASSUME Inv, NotLess
      PROVE  AppCoversWindow
  <2> SUFFICES ASSUME control = "idle", NEW t \in Threads, t \in Listed
               PROVE  AppTime(t) >= sinceReset[t]
    BY DEF AppCoversWindow
  <2>1. AppTime(t) = Accounted(t) /\ sinceReset[t] <= Accounted(t)
    BY <1>1, AppTimeAccounted DEF NotLess
  <2>2. Accounted(t) \in Nat /\ sinceReset[t] \in Nat
    BY <1>1, AccountedType DEF Inv, TypeOK
  <2>3. QED
    BY <2>1, <2>2
<1>2. Inv /\ Undisturbed /\ NotLess /\ [Next]_vars => NotLess'
  BY NextNotLess
<1>3. Spec => []Undisturbed
  BY SpecUndisturbed
<1>4. QED
  BY <1>1, <1>2, <1>3, InitAccounts, SpecInv, PTL DEF Spec

(* A thread outside MPI has spent no more time in MPI than it is accounted *)
(* as application time, under the same discipline.                         *)
THEOREM MpiTimeWithinApp ==
    ASSUME {"toggle", "quiet"} \subseteq Discipline
    PROVE  Spec => []MpiWithinApp
<1>1. ASSUME Inv, Covered
      PROVE  MpiWithinApp
  <2> SUFFICES ASSUME control = "idle", NEW t \in Listed, call[t] = "out"
               PROVE  mpi[t] <= AppTime(t)
    BY DEF MpiWithinApp
  <2>1. t \in Threads
    BY ThreadFacts
  <2>2. AppTime(t) = Accounted(t) /\ InMpi(t) <= Accounted(t)
    BY <1>1, <2>1, AppTimeAccounted DEF Covered
  <2>3. mpi[t] \in Nat /\ InMpi(t) = mpi[t]
    BY <1>1, <2>1 DEF InMpi, Inv, TypeOK
  <2>4. QED
    BY <2>2, <2>3
<1>2. Inv /\ Undisturbed /\ Covered /\ [Next]_vars => Covered'
  BY NextCovered
<1>3. Spec => []Undisturbed
  BY SpecUndisturbed
<1>4. QED
  BY <1>1, <1>2, <1>3, InitAccounts, SpecInv, PTL DEF Spec
=============================================================================
