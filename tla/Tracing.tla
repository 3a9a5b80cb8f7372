------------------------------ MODULE Tracing -------------------------------
(***************************************************************************)
(* The trace of point-to-point calls: each rank opens its trace file as it *)
(* parses the options, and each call appends a line with the name of the   *)
(* region the program is in.  The name is one buffer for all threads of a  *)
(* rank and no lock protects it; only Main enters and leaves regions.  To  *)
(* copy a name and to print it take time, and if a name is printed while   *)
(* the buffer changes, what is printed may be anything (Torn).             *)
(* Files are what stdio leaves of them: fopen "w+" truncates, the lines of *)
(* a handle are buffered and written at its own position.                  *)
(*                                                                         *)
(* A region name is a string and its length; the buffer is the names in it *)
(* with the length that is left of each.  Only -o switches profiling off.  *)
(***************************************************************************)
EXTENDS Options, FiniteSets

CONSTANTS Ranks,            \* 0 is the one that is traced without -A
          Threads, Main,    \* the threads of a rank
          Names,            \* Names[n]: the length of region name n, 0 with a '.'
          RegionMax,        \* REGION_NAME_MAX
          OptionLists,      \* what MPIP may hold
          Frames,           \* how deep the stack of a call may be
          Bounds            \* for each: how many calls, changes of region, flushes

NoName == ""    \* no region has it

ASSUME TracingAssumption ==
    /\ Main \in Threads /\ 0 \in Ranks
    /\ RegionMax \in Nat \ {0, 1, 2}
    /\ NoName \notin DOMAIN Names /\ \A n \in DOMAIN Names : Names[n] \in Nat
    /\ \A l \in OptionLists :
          /\ l \in Seq({l[i] : i \in DOMAIN l})
          /\ \A i \in DOMAIN l : l[i].flag \in {"s", "k"} => l[i].arg \in Int
    /\ Frames \subseteq Nat

VARIABLES
    options,    \* MPIP, the same on all ranks
    setting,    \* setting[r]: mpiPi and the trace globals
    status,     \* status[r]: "start", "run", "exited", or "wild": undefined
    disk,       \* disk[f]: what the file holds
    handle,     \* handle[r]: tracefile: file, position, buffer, closed
    region,     \* region[r]: current_region
    entering,   \* entering[r]: the name Main is copying, or <<>>
    printing,   \* printing[r]: the fprintf under way, of one thread at most
    done,       \* calls, changes of region and flushes so far
    stack,      \* stack[r]: what the last traceback left
    nest,       \* history: nest[r]: the names of the regions Main is in
    fit,        \* history: fit[r]: every name had room
    lines,      \* history: lines[r]: the lines made
    cut         \* history: the ranks whose flushed lines another truncated

files == <<disk, handle>>
regions == <<region, entering>>
history == <<nest, fit, lines, cut>>
vars == <<options, setting, status, files, regions, printing, done, stack, history>>

NoFile == [file |-> <<>>, pos |-> 0, buffer |-> <<>>, closed |-> FALSE, flushed |-> FALSE]
Header == [header |-> TRUE]
Hole == [hole |-> TRUE]
Files == {<<"stdout", "rank", r>> : r \in Ranks}
         \cup UNION {UNION {{<<o.arg>>, <<o.arg, r>>} :
                  o \in UNION {{l[i] : i \in {j \in DOMAIN l : l[j].flag = "a"}} : l \in OptionLists}}
              : r \in Ranks}

Init ==
    /\ options \in OptionLists
    /\ setting = [r \in Ranks |-> Defaults]
    /\ status = [r \in Ranks |-> "start"]
    /\ disk = [f \in Files |-> <<>>]
    /\ handle = [r \in Ranks |-> NoFile]
    /\ region = [r \in Ranks |-> <<>>]
    /\ entering = [r \in Ranks |-> <<>>]
    /\ printing = [r \in Ranks |-> {}]
    /\ done = [calls |-> 0, regions |-> 0, flushes |-> 0]
    /\ stack = [r \in Ranks |-> [kept |-> 0, last |-> -1]]
    /\ nest = [r \in Ranks |-> <<>>]
    /\ fit = [r \in Ranks |-> TRUE]
    /\ lines = [r \in Ranks |-> <<>>]
    /\ cut = {}

(***************************************************************************)
(* mpiPi_init of a rank: the options, which open the trace file.           *)
(***************************************************************************)
Start(r) ==
    /\ status[r] = "start"
    /\ LET s == Settings(options, r)
           named == s.opened # <<>>
           file == IF named THEN Last(s.opened) ELSE <<"stdout", "rank", r>>
       IN /\ setting' = [setting EXCEPT ![r] = s]
          /\ status' = [status EXCEPT ![r] = IF Overflow(options) THEN "wild" ELSE "run"]
          /\ disk' = [f \in Files |-> IF Contains(s.opened, f) THEN <<>> ELSE disk[f]]
          /\ handle' = [handle EXCEPT ![r] =
                [NoFile EXCEPT !.file = file, !.buffer = IF named THEN <<Header>> ELSE <<>>]]
          /\ cut' = cut \cup {q \in Ranks \ {r} : handle[q].flushed /\ Contains(s.opened, handle[q].file)}
    /\ UNCHANGED <<options, regions, printing, done, stack, nest, fit, lines>>

(***************************************************************************)
(* A wrapper records its call; mpiPi_stats_thr_cs_upd makes the line.      *)
(***************************************************************************)
\* Mutant: a rank that is not traced makes lines.
Traced_All(r) == TRUE

Traced(r) == r = 0 \/ setting[r].allRanks

TraceBack(frames, asked) == {Unwound(frames, asked), Backtraced(frames, asked)}

Part(n, len) == [name |-> n, len |-> len]
Coming == Part(NoName, 0)   \* what is behind the names is being written
Torn == <<Coming>>

\* The thread is in no other step of its own.
Idle(r, t) ==
    /\ \A p \in printing[r] : p.thread # t
    /\ t = Main => entering[r] = <<>>

\* emit_trace_p2p begins its fprintf, under the lock of the stream; after a
\* collective call an empty text is printed, to the same stream.
EmitTrace(r, t, collective) ==
    IF handle[r].closed
    THEN status' = [status EXCEPT ![r] = "wild"] /\ UNCHANGED printing
    ELSE /\ \/ collective /\ UNCHANGED printing
            \/ /\ ~collective /\ printing[r] = {}
               /\ printing' = [printing EXCEPT ![r] =
                      {[thread |-> t, torn |-> entering[r] # <<>>, nest |-> nest[r]]}]
         /\ UNCHANGED status

Call(r, t, collective, frames) ==
    /\ status[r] = "run" /\ Idle(r, t) /\ done.calls < Bounds[options].calls
    /\ done' = [done EXCEPT !.calls = @ + 1]
    /\ IF setting[r].enabled /\ setting[r].reportStackDepth > 0
       THEN \E b \in TraceBack(frames, setting[r].fullStackDepth) :
                stack' = [stack EXCEPT ![r] = b]
       ELSE UNCHANGED stack
    /\ IF setting[r].enabled /\ Traced(r) THEN EmitTrace(r, t, collective)
       ELSE UNCHANGED <<status, printing>>
    /\ UNCHANGED <<options, setting, files, regions, nest, fit, lines, cut>>

\* The fprintf returns; while one thread exits, others may still get here.
\* The empty text that is printed after it adds nothing.
PrintLine(r) ==
    /\ status[r] \in {"run", "exited"}
    /\ \E p \in printing[r] :
          LET line == [no |-> Len(lines[r]) + 1, thread |-> p.thread,
                       region |-> IF p.torn THEN Torn ELSE region[r], nest |-> p.nest]
          IN /\ lines' = [lines EXCEPT ![r] = Append(@, line)]
             /\ handle' = [handle EXCEPT ![r].buffer = Append(@, line)]
    /\ printing' = [printing EXCEPT ![r] = {}]
    /\ UNCHANGED <<options, setting, status, disk, regions, done, stack, nest, fit, cut>>

(***************************************************************************)
(* mpiP_region_enter and mpiP_region_exit.                                 *)
(***************************************************************************)
Length(parts) ==
    SumFunctionOnSet([i \in DOMAIN parts |-> parts[i].len], DOMAIN parts)
        + (IF parts = <<>> THEN 0 ELSE Len(parts) - 1)

Entered(r, n, refused) ==
    /\ nest' = [nest EXCEPT ![r] = Append(@, n)]
    /\ fit' = [fit EXCEPT ![r] = @ /\ ~refused]

\* The buffer is written: whoever prints it now may see any mixture.
Tear(r) == printing' = [printing EXCEPT ![r] = {[p EXCEPT !.torn = TRUE] : p \in @}]

MayEnter(r) ==
    /\ status[r] = "run" /\ Idle(r, Main)
    /\ done.regions < Bounds[options].regions
    /\ done' = [done EXCEPT !.regions = @ + 1]

\* A name with a '.' ends the program.
EnterDotted(r, n) ==
    /\ MayEnter(r) /\ Names[n] = 0
    /\ status' = [status EXCEPT ![r] = "exited"]
    /\ UNCHANGED <<options, setting, files, regions, printing, stack, history>>

\* strncpy begins to write behind what is there, and ends in EnterName.
BeginCopy(r, n) ==
    /\ region' = [region EXCEPT ![r] = Append(@, Coming)]
    /\ entering' = [entering EXCEPT ![r] = <<n>>]
    /\ Tear(r)
    /\ UNCHANGED <<nest, fit>>
Refuse(r, n) == Entered(r, n, TRUE) /\ UNCHANGED <<regions, printing>>

EnterFirst(r, n) ==
    /\ MayEnter(r) /\ Names[n] > 0 /\ region[r] = <<>>
    /\ IF Names[n] > RegionMax - 1 THEN Refuse(r, n) ELSE BeginCopy(r, n)
    /\ UNCHANGED <<options, setting, status, files, stack, lines, cut>>

\* A '.' and the name; a name is refused only if not even one character of
\* it fits.
EnterNested(r, n) ==
    /\ MayEnter(r) /\ Names[n] > 0 /\ region[r] # <<>>
    /\ IF Length(region[r]) >= RegionMax - 2 THEN Refuse(r, n) ELSE BeginCopy(r, n)
    /\ UNCHANGED <<options, setting, status, files, stack, lines, cut>>

\* strncpy cuts the name, and then leaves the buffer without its end.
EnterName(r) ==
    /\ status[r] = "run" /\ entering[r] # <<>>
    /\ LET n == Head(entering[r])
           room == RegionMax - Length(region[r])
       IN /\ region' = [region EXCEPT ![r] =
                            Append(Front(@), Part(n, Smaller(Names[n], room)))]
          /\ status' = [status EXCEPT ![r] = IF Names[n] < room THEN "run" ELSE "wild"]
          /\ Entered(r, n, FALSE)
    /\ entering' = [entering EXCEPT ![r] = <<>>]
    /\ UNCHANGED <<options, setting, files, printing, done, stack, lines, cut>>

\* Mutant: the name is cut at its first '.'.
CutName_First(parts) == SubSeq(parts, 1, IF Len(parts) > 1 THEN 1 ELSE 0)

\* Cut at the last '.'; the name that is passed is not looked at.
CutName(parts) == Front(parts)

Exit(r) ==
    /\ status[r] = "run" /\ Idle(r, Main) /\ done.regions < Bounds[options].regions
    /\ done' = [done EXCEPT !.regions = @ + 1]
    /\ IF region[r] = <<>>
       THEN /\ status' = [status EXCEPT ![r] = "exited"]
            /\ UNCHANGED <<region, nest, printing>>
       ELSE /\ region' = [region EXCEPT ![r] = CutName(@)]
            /\ nest' = [nest EXCEPT ![r] = Front(@)]
            /\ Tear(r)
            /\ UNCHANGED status
    /\ UNCHANGED <<options, setting, files, entering, stack, fit, lines, cut>>

(***************************************************************************)
(* The trace file: stdio writes the buffer when it likes, at fclose, and   *)
(* at the end of the process.                                              *)
(***************************************************************************)
\* Over what is there, with a hole if the file was truncated meanwhile; an
\* empty buffer is not written.
Written(content, pos, buffer) ==
    LET end == pos + Len(buffer) IN
    [i \in 1..(IF buffer # <<>> /\ end > Len(content) THEN end ELSE Len(content)) |->
        IF i > pos /\ i <= end THEN buffer[i - pos]
        ELSE IF i <= Len(content) THEN content[i] ELSE Hole]

Flushed(r, closed) ==
    /\ disk' = [disk EXCEPT ![handle[r].file] = Written(@, handle[r].pos, handle[r].buffer)]
    /\ handle' = [handle EXCEPT ![r].pos = @ + Len(handle[r].buffer), ![r].buffer = <<>>,
                                ![r].flushed = TRUE, ![r].closed = closed]

Flush(r) ==
    /\ status[r] = "run" /\ handle[r].buffer # <<>>
    /\ done.flushes < Bounds[options].flushes
    /\ done' = [done EXCEPT !.flushes = @ + 1]
    /\ Flushed(r, FALSE)
    /\ UNCHANGED <<options, setting, status, regions, printing, stack, history>>

\* mpiP_finalize_trace, called by the program; tracefile keeps its value.
\* fclose waits for the lock of the stream.
FinalizeTrace(r) ==
    /\ status[r] = "run" /\ ~handle[r].closed
    /\ setting[r].opened # <<>> /\ printing[r] = {}
    /\ Flushed(r, TRUE)
    /\ UNCHANGED <<options, setting, status, regions, printing, done, stack, history>>

\* The program ends, by itself or by exit(1), and stdio writes the rest.  By
\* itself it ends when no thread is in an MPI call any more; exit(1) may cut
\* the line that another thread is printing.
End(r) ==
    /\ status[r] \in {"run", "exited"}
    /\ status[r] = "run" => printing[r] = {}
    /\ handle[r].buffer # <<>> \/ printing[r] # {}
    /\ Flushed(r, TRUE)
    /\ status' = [status EXCEPT ![r] = IF printing[r] = {} THEN "exited" ELSE "wild"]
    /\ printing' = [printing EXCEPT ![r] = {}]
    /\ UNCHANGED <<options, setting, regions, done, stack, history>>

Next ==
    \E r \in Ranks :
        \/ Start(r)
        \/ \E t \in Threads, c \in BOOLEAN, f \in Frames : Call(r, t, c, f)
        \/ PrintLine(r)
        \/ \E n \in DOMAIN Names : EnterDotted(r, n)
        \/ \E n \in DOMAIN Names : EnterFirst(r, n)
        \/ \E n \in DOMAIN Names : EnterNested(r, n)
        \/ EnterName(r)
        \/ Exit(r)
        \/ Flush(r)
        \/ FinalizeTrace(r)
        \/ End(r)

Spec == Init /\ [][Next]_vars

(***************************************************************************)
(* Properties.                                                             *)
(***************************************************************************)
\* No combination of options lets later code leave an array or divide by
\* zero: the frames asked for fit a record (key.pc[], call_stack[]), a table
\* has buckets, and the variation is computed only of single sites.  With
\* backtrace at the greatest depth NULL is written one place behind.  For
\* mpiPi_getenv and mpiPi_RecordTraceBack.
OptionsSafe ==
    \A r \in Ranks :
        /\ setting[r].tableSize >= 2
        /\ setting[r].fullStackDepth <= MaxDepth
        /\ stack[r].kept <= MaxDepth
        /\ setting[r].reportStackDepth < MaxReportDepth => stack[r].last < MaxDepth
        /\ (setting[r].reportStackDepth = 0 /\ DefaultStyle = "verbose") =>
              ~setting[r].calcCOV

\* A line of Main has the path of the regions that the program was in when
\* the call was traced, and so has a line of another thread, unless Main was
\* entering or leaving a region while it was printed: as long as every name
\* had room.  For mpiP_region_enter, _exit and emit_trace_p2p.
Path(parts) == [i \in DOMAIN parts |-> parts[i].name]
RegionsTraced ==
    \A r \in Ranks : fit[r] =>
        \A i \in DOMAIN lines[r] :
            LET l == lines[r][i] IN
            /\ l.region # Torn => Path(l.region) = l.nest
            /\ l.thread = Main => l.region # Torn

\* What rank r has written and what it still buffers are the header and all
\* its lines, in order: rank 0's whenever it is traced alone, every rank's
\* if -A comes before the last -a.  Not if another rank opens the file, and
\* so truncates it, after the first lines were written, nor after it was
\* closed.  For emit_trace_p2p and the options -a and -A.
Index(flag) == {i \in DOMAIN options : options[i].flag = flag}
OwnFile(r) ==
    IF Index("A") = {} THEN r = 0
    ELSE \A i \in Index("a") : \/ \E j \in Index("a") : j > i
                               \/ \E j \in Index("A") : j < i
Expected(r) == (IF setting[r].opened = <<>> THEN <<>> ELSE <<Header>>) \o lines[r]
Seen(r) == Written(disk[handle[r].file], handle[r].pos, handle[r].buffer)
TraceKept ==
    \A r \in Ranks :
        (status[r] \in {"run", "exited"} /\ OwnFile(r) /\ r \notin cut) =>
            Seen(r) = Expected(r)
=============================================================================
