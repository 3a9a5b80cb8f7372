------------------------------ MODULE Options -------------------------------
(***************************************************************************)
(* The options of mpiP: the defaults of mpiPi_init, and mpiPi_getenv,      *)
(* which takes the options of the environment variable MPIP one by one.    *)
(* An option is a flag and its argument, a number or the name of a file.   *)
(***************************************************************************)
EXTENDS Integers, Sequences, SequencesExt

CONSTANTS MaxTokens,        \* the places of av[]
          MaxReportDepth,   \* MPIP_CALLSITE_REPORT_STACK_DEPTH_MAX
          InternalDepth,    \* MPIP_INTERNAL_STACK_DEPTH
          DefaultStyle      \* "verbose" or "concise", of configure

ASSUME OptionsAssumption ==
    /\ {MaxTokens, MaxReportDepth, InternalDepth} \subseteq Nat \ {0}
    /\ DefaultStyle \in {"verbose", "concise"}

MaxDepth == MaxReportDepth + InternalDepth      \* MPIP_CALLSITE_STACK_DEPTH_MAX
Smaller(a, b) == IF a < b THEN a ELSE b

Defaults ==
    LET depth == IF DefaultStyle = "concise" THEN 0 ELSE 1 IN
    [allRanks |-> FALSE, debug |-> FALSE, outputDir |-> ".", executable |-> "self",
     tableSize |-> 256, reportStackDepth |-> depth,
     fullStackDepth |-> Smaller(depth + InternalDepth, MaxDepth),
     calcCOV |-> TRUE, detail |-> DefaultStyle # "concise", threshold |-> 0,
     enabled |-> TRUE, fullNames |-> FALSE, format |-> "sci", style |-> DefaultStyle,
     messageCount |-> -1, collective |-> FALSE, finalReport |-> TRUE,
     collStats |-> FALSE, pt2ptStats |-> FALSE,
     opened |-> <<>>]           \* the trace files opened, the last in use

\* Mutant: a table that is too small is taken.
TableSize_AsGiven(s, n) == n

\* -s: what was set before stays.
TableSize(s, n) == IF n < 2 THEN s.tableSize ELSE n

\* Mutant: a depth that is too large is taken.
Depth_NotLimited(n) == IF n < 0 THEN 0 ELSE n

\* -k: limited to what a record has room for.
Depth(n) == IF n < 0 THEN 0 ELSE Smaller(n, MaxReportDepth)

\* Mutant: the variation is computed although the sites are not told apart.
StackDepth_KeepsCOV(s, n) ==
    [s EXCEPT !.reportStackDepth = Depth(n),
              !.fullStackDepth = Depth(n) + InternalDepth,
              !.detail = @ /\ n >= 0]

StackDepth(s, n) ==
    [s EXCEPT !.reportStackDepth = Depth(n),
              !.fullStackDepth = Depth(n) + InternalDepth,
              !.detail = @ /\ n >= 0,
              !.calcCOV = @ /\ Depth(n) # 0]

\* -t: a percentage, else what was set before, in an int.
Threshold(s, n) == IF n < 0 \/ n >= 100 THEN s.threshold ELSE n

\* Mutant: all ranks write to one file.
TraceFile_NoRank(s, name, rank) == <<name>>

\* -a: a file of the rank's own if -A came before.
TraceFile(s, name, rank) == IF s.allRanks THEN <<name, rank>> ELSE <<name>>

Apply(s, o, rank) ==
    CASE o.flag = "A" -> [s EXCEPT !.allRanks = TRUE]
      [] o.flag = "a" -> [s EXCEPT !.opened = Append(@, TraceFile(s, o.arg, rank))]
      [] o.flag = "f" -> [s EXCEPT !.outputDir = o.arg]
      [] o.flag = "g" -> [s EXCEPT !.debug = TRUE]
      [] o.flag = "s" -> [s EXCEPT !.tableSize = TableSize(s, o.arg)]
      [] o.flag = "k" -> StackDepth(s, o.arg)
      [] o.flag = "t" -> [s EXCEPT !.threshold = Threshold(s, o.arg)]
      [] o.flag = "o" -> [s EXCEPT !.enabled = FALSE]
      [] o.flag = "n" -> [s EXCEPT !.fullNames = TRUE]
      [] o.flag = "e" -> [s EXCEPT !.format = "float"]
      [] o.flag = "c" -> [s EXCEPT !.style = "concise"]
      [] o.flag = "v" -> [s EXCEPT !.style = "both"]
      [] o.flag = "m" -> [s EXCEPT !.messageCount = o.arg]
      [] o.flag = "x" -> [s EXCEPT !.executable = o.arg]
      [] o.flag = "d" -> [s EXCEPT !.detail = ~@]
      [] o.flag = "l" -> [s EXCEPT !.collective = TRUE]
      [] o.flag = "r" -> [s EXCEPT !.collective = FALSE]
      [] o.flag = "z" -> [s EXCEPT !.finalReport = FALSE]
      [] o.flag = "y" -> [s EXCEPT !.collStats = TRUE]
      [] o.flag = "p" -> [s EXCEPT !.pt2ptStats = TRUE]
      [] OTHER -> s

\* av[0] is the name of the program and the options follow, one token each
\* here; the rest is dropped, and then NULL is written behind av[].
Taken(options) == SubSeq(options, 1, Smaller(Len(options), MaxTokens - 1))
Overflow(options) == Len(options) >= MaxTokens - 1
Settings(options, rank) ==
    FoldLeft(LAMBDA s, o : Apply(s, o, rank), Defaults, Taken(options))

(***************************************************************************)
(* mpiPi_RecordTraceBack: the frames of the stack, as many as asked for,   *)
(* and where in pc_array it writes.                                        *)
(***************************************************************************)
\* libunwind: a pc for each frame, and NULL where there is none.
Unwound(frames, asked) == [kept |-> Smaller(frames, asked), last |-> asked - 1]

\* backtrace: without its own frame, and NULL at the number it returned.
Backtraced(frames, asked) ==
    LET n == Smaller(frames, asked) IN
    IF n <= InternalDepth THEN [kept |-> 0, last |-> -1]
    ELSE [kept |-> n - 1, last |-> n]
=============================================================================
