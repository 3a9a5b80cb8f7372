---------------------------- MODULE DwarfLookup -----------------------------
(***************************************************************************)
(* Source lookup with libdwarf: the line tables and functions of all       *)
(* compilation units are loaded into two address range maps, the ranges of *)
(* the first are patched, and pcs are looked up in both.                   *)
(***************************************************************************)
EXTENDS LookupSession, AddrRangeMap, SequencesExt

CONSTANTS Top,          \* the highest address, ~0
          Units,        \* compilation units: line entries and functions
          MaxUnits      \* bound on the units of an executable

ASSUME DwarfAssumption ==
    /\ Top \in Nat \ {0}
    /\ \A u \in Units : \A i \in DOMAIN u.functions :
          u.functions[i].low \in Nat /\ u.functions[i].high \in Nat

VARIABLES
    dwFd,           \* the file descriptor is open
    lineMap,        \* addrToSourceMap
    functionMap,
    files,          \* uniqueFileNameList
    units           \* the units read from the executable so far

dwarfVars == <<dwFd, lineMap, functionMap, files, units>>

DwarfInit ==
    /\ dwFd = FALSE
    /\ lineMap = Empty /\ functionMap = Empty
    /\ files = <<>> /\ units = <<>>

(***************************************************************************)
(* open_dwarf_executable.  The file may not open, dwarf_init may fail, and *)
(* the executable may have no symbols: then the descriptor stays open.     *)
(***************************************************************************)
OpenDwarf ==
    /\ MayOpen("dwarf") /\ ~dwFd
    /\ \/ Opened(FALSE, "open") /\ UNCHANGED dwarfVars
       \/ Opened(TRUE, "aborted") /\ UNCHANGED dwarfVars
       \/ Opened(FALSE, "open") /\ dwFd' = TRUE
          /\ UNCHANGED <<lineMap, functionMap, files, units>>
       \/ Opened(TRUE, "loading") /\ dwFd' = TRUE /\ units' = <<>>
          /\ lineMap' = Empty /\ functionMap' = Empty /\ UNCHANGED files

\* assert (dwFd == -1): an earlier report left the descriptor open.
OpenDwarfTwice ==
    /\ MayOpen("dwarf") /\ dwFd
    /\ Opened(TRUE, "aborted") /\ UNCHANGED dwarfVars

\* Mutant: of successive entries at an address the first is saved.
Saved_First(lines) ==
    SelectSeq([i \in DOMAIN lines |->
                 [line |-> lines[i],
                  save |-> i = 1 \/ lines[i - 1].addr # lines[i].addr]],
              LAMBDA e : e.save)

\* An entry is saved if the next one of the unit has another address.
Saved(lines) ==
    SelectSeq([i \in DOMAIN lines |->
                 [line |-> lines[i],
                  save |-> i = Len(lines) \/ lines[i + 1].addr # lines[i].addr]],
              LAMBDA e : e.save)

\* UniqueFileName_Get: a new name goes to the head of the list.
UniqueFileName(list, f) == IF Contains(list, f) THEN list ELSE <<f>> \o list

\* AddrToSourceMap_Add: the end of the range is patched later.
AddLine(m, e) == Add(m, e.line.addr, e.line.addr, e.line)

\* HandleFunctionDIE and FunctionMap_Add: a function that lacks its name or
\* a bound is skipped; one that ends before it begins, or overlaps another,
\* aborts.
Described(functions) == SelectSeq(functions, LAMBDA f : f.complete)
AddFunction(acc, f) ==
    IF ~acc.fits \/ f.low > f.high \/ ~Fits(acc.map, f.low, f.high) THEN [acc EXCEPT !.fits = FALSE]
    ELSE [acc EXCEPT !.map = Add(@, f.low, f.high, f.name)]

\* One turn of the loop over the compilation units.
ReadUnit(u) ==
    /\ status = "loading" /\ Len(units) < MaxUnits
    /\ LET lines == Saved(u.lines)
           added == FoldLeft(AddFunction, [map |-> functionMap, fits |-> TRUE],
                             Described(u.functions))
       IN /\ lineMap' = FoldLeft(AddLine, lineMap, lines)
          /\ files' = FoldLeft(LAMBDA l, e : UniqueFileName(l, e.line.file), files, lines)
          /\ functionMap' = added.map
          /\ status' = IF added.fits THEN "loading" ELSE "aborted"
    /\ units' = Append(units, u)
    /\ UNCHANGED <<build, doLookup, reports, answer, dwFd>>

\* dwarf_next_cu_header or another call of the library fails.
ReadFails ==
    /\ status = "loading"
    /\ status' = "aborted"
    /\ UNCHANGED <<build, doLookup, reports, answer, dwarfVars>>

Below(addr) == (addr - 1) % (Top + 1)       \* unsigned
RECURSIVE Lowest(_, _)
Lowest(m, n) == IF m.node[n].left = Null THEN m.node[n].low
                ELSE Lowest(m, m.node[n].left)

\* Mutant: a range is limited by the range of the parent only.
RECURSIVE Patched_ByParent(_, _, _)
Patched_ByParent(m, n, max) ==
    IF n = Null THEN m
    ELSE [Patched_ByParent(Patched_ByParent(m, m.node[n].left, m.node[n].low),
                           m.node[n].right, max)
          EXCEPT !.node[n].high = Below(max)]

\* AddrToSourceMap_PatchRangesAux: a range ends before the next one begins,
\* the last before max.
RECURSIVE Patched(_, _, _)
Patched(m, n, max) ==
    IF n = Null THEN m
    ELSE LET right == m.node[n].right
             next == IF right = Null THEN max ELSE Lowest(m, right)
         IN [Patched(Patched(m, m.node[n].left, m.node[n].low), right, max)
             EXCEPT !.node[n].high = Below(next)]

PatchRanges ==
    /\ status = "loading"
    /\ lineMap' = Patched(lineMap, lineMap.root, Top)
    /\ status' = "open"
    /\ UNCHANGED <<build, doLookup, reports, answer, dwFd, functionMap, files, units>>

(***************************************************************************)
(* mpiP_find_src_loc, and close_dwarf_executable, which is not called once *)
(* an executable could not be opened.                                      *)
(***************************************************************************)
UnknownLine == [addr |-> 0, file |-> "??", no |-> 0]
UnknownFunction == "??"
Info(m, pc, unknown) ==
    LET n == Find(m, pc) IN IF n = Null THEN unknown ELSE m.node[n].info

FindDwarf(pc) ==
    /\ MayLookup("dwarf")
    /\ Answer([pc |-> pc, line |-> Info(lineMap, pc, UnknownLine),
               function |-> Info(functionMap, pc, UnknownFunction)])
    /\ UNCHANGED <<status, dwarfVars>>

CloseDwarf ==
    /\ build = "dwarf" /\ status = "open"
    /\ Closed
    /\ IF doLookup
       THEN /\ dwFd' = FALSE /\ units' = <<>>
            /\ lineMap' = Empty /\ functionMap' = Empty
       ELSE UNCHANGED <<dwFd, lineMap, functionMap, units>>
    /\ UNCHANGED files

DwarfNext ==
    \/ OpenDwarf
    \/ OpenDwarfTwice
    \/ \E u \in Units : ReadUnit(u)
    \/ ReadFails
    \/ PatchRanges
    \/ \E pc \in {p \in Pcs : p < Top} : FindDwarf(pc)
    \/ CloseDwarf

(***************************************************************************)
(* Properties.                                                             *)
(***************************************************************************)
\* Both trees hold every node, in order, with links that agree and balanced
\* as red-black trees are, after every insertion; so nothing is lost by a
\* rotation and everything is freed (AddrRangeMap_Add and _DestroyAux).
TreesValid ==
    /\ Valid(lineMap) /\ Valid(functionMap)
    /\ \A i, j \in DOMAIN files : files[i] = files[j] => i = j
    /\ \A n \in Nodes(lineMap) : Contains(files, lineMap.node[n].info.file)

\* The line entries that count: of successive ones at an address the last.
LastAt(lines, i) == i = Len(lines) \/ lines[i + 1].addr # lines[i].addr
Entries == UNION {{<<k, i>> : i \in {j \in DOMAIN units[k].lines : LastAt(units[k].lines, j)}}
                  : k \in DOMAIN units}
LineOf(e) == units[e[1]].lines[e[2]]
Precedes(e, f) == e[1] < f[1] \/ (e[1] = f[1] /\ e[2] < f[2])
\* The entry a pc belongs to: the last address up to it, of several entries
\* at that address (of several units) the one read first.
Nearest(pc, e) ==
    /\ LineOf(e).addr <= pc
    /\ \A f \in Entries : LineOf(f).addr <= pc =>
          /\ LineOf(f).addr <= LineOf(e).addr
          /\ LineOf(f).addr = LineOf(e).addr => f = e \/ Precedes(e, f)
TwoAtZero == \E e, f \in Entries : e # f /\ LineOf(e).addr = 0 /\ LineOf(f).addr = 0

Functions == UNION {{units[k].functions[i] : i \in DOMAIN units[k].functions}
                    : k \in DOMAIN units}
\* Functions whose range holds the pc, the bound that follows it included.
Around(pc) == {f.name : f \in {x \in Functions : x.complete /\ x.low <= pc /\ pc <= x.high}}

DwarfExact ==
    (answer # NotAsked /\ build = "dwarf") =>
        /\ ~TwoAtZero =>
              IF \E e \in Entries : LineOf(e).addr <= answer.pc
              THEN \E e \in Entries : Nearest(answer.pc, e) /\ answer.line = LineOf(e)
              ELSE answer.line = UnknownLine
        /\ IF Around(answer.pc) = {} THEN answer.function = UnknownFunction
           ELSE answer.function \in Around(answer.pc)
=============================================================================
