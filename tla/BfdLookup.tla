------------------------------ MODULE BfdLookup ------------------------------
(***************************************************************************)
(* Source lookup with BFD: the executable first, then the shared object    *)
(* mapped at the pc, found in a tree of mappings that is filled from       *)
(* /proc/<pid>/maps at the first need.  The minisymbols of the object      *)
(* opened last are the only ones kept (the static syms).                   *)
(*                                                                         *)
(* What an object says about a pc is identified by the object and the      *)
(* address the pc was linked at: file, line and function follow from them. *)
(***************************************************************************)
EXTENDS LookupSession

CONSTANTS Objects,      \* name -> [opens, debug, sections]
          Exe,          \* the name of the executable
          Processes,    \* processes: mappings at start, and added by dlopen
          NoObject

VARIABLES
    maps,       \* the mappings of the process, by increasing address
    dlopened,   \* those that dlopen has still to add
    abfd,       \* "null", "open", or "closed" and dangling
    syms,       \* the object whose minisymbols were read last
    soTree,     \* mpiPi.so_info: NULL (0) or the mappings in the tree
    soOpen,     \* the mappings whose bfd is open
    seen        \* history: how many mappings there were as the tree was filled

bfdVars == <<maps, dlopened, abfd, syms, soTree, soOpen, seen>>

NoTree == {}

BfdInit ==
    /\ \E p \in Processes :
          /\ maps = (IF build = "bfd" THEN p.maps ELSE <<>>)
          /\ dlopened = (IF build = "bfd" THEN p.dlopened ELSE <<>>)
    /\ abfd = "null" /\ syms = NoObject
    /\ soTree = NoTree /\ soOpen = {} /\ seen = 0

\* The process loads a library between two lookups.
Dlopen ==
    /\ build = "bfd" /\ status \in {"idle", "open"} /\ dlopened # <<>>
    /\ maps' = maps \o <<Head(dlopened)>>
    /\ dlopened' = Tail(dlopened)
    /\ answer' = NotAsked
    /\ UNCHANGED <<build, status, doLookup, reports, abfd, syms, soTree, soOpen, seen>>

\* open_bfd_executable; open_bfd_object reads the symbols last.
OpenBfd ==
    /\ MayOpen("bfd")
    /\ Opened(Objects[Exe].opens, "open")
    /\ abfd' = IF Objects[Exe].opens THEN "open" ELSE "null"
    /\ syms' = IF Objects[Exe].opens THEN Exe ELSE syms
    /\ UNCHANGED <<maps, dlopened, soTree, soOpen, seen>>

(***************************************************************************)
(* find_address_in_section over the sections of an object, for the pc its  *)
(* sections are compared with.  bfd_find_nearest_line needs debugging      *)
(* information, or a symbol of the object itself.                          *)
(***************************************************************************)
NearestLine(o, symbols) == Objects[o].debug \/ symbols = o
Section(o, pc) ==
    \E s \in Objects[o].sections : s.alloc /\ s.low <= pc /\ pc < s.low + s.size
FoundIn(o, symbols, pc) == Section(o, pc) /\ NearestLine(o, symbols)

Here(o, addr) == [object |-> o, addr |-> addr]
Nowhere == Here(NoObject, 0)
Result(pc, where) == [pc |-> pc, line |-> where, function |-> where]

\* mpiPi_so_info_compare finds them equal: both bounds belong to a mapping.
Covers(e, addr) == e.low <= addr /\ addr <= e.high

\* Mutant: a mapping that is not executable is taken.
Loadable_AnyPermission(e) == e.path # NoObject

\* The lines of the maps file that are taken: executable, with a path.
Loadable(e) == e.exec /\ e.path # NoObject

\* mpiPi_parse_maps: tsearch does not add a mapping that compares equal.
RECURSIVE Parsed(_, _)
Parsed(tree, lines) ==
    IF lines = <<>> THEN tree
    ELSE LET e == Head(lines)
             taken == Loadable(e) /\ \A x \in tree : ~Covers(x, e.low)
         IN Parsed(IF taken THEN tree \cup {e} ELSE tree, Tail(lines))

\* Mutant: the pc is not made relative to the mapping.
Relative_Absolute(pc, e) == pc

\* The offset of the mapping in its file is skipped.
Relative(pc, e) == pc - e.low

\* mpiP_find_src_loc when the executable knows the pc.
FindInExecutable(pc) ==
    /\ MayLookup("bfd") /\ abfd = "open" /\ FoundIn(Exe, syms, pc)
    /\ Answer(Result(pc, Here(Exe, pc)))
    /\ UNCHANGED <<status, bfdVars>>

\* The maps file cannot be read.
ParseFails(pc) ==
    /\ MayLookup("bfd") /\ abfd = "open" /\ ~FoundIn(Exe, syms, pc)
    /\ soTree = NoTree
    /\ Answer(NotAsked)
    /\ UNCHANGED <<status, bfdVars>>

\* ... or a shared object may.  A mapped file that does not open is used
\* all the same.
FindInSharedObject(pc) ==
    /\ MayLookup("bfd") /\ abfd = "open" /\ ~FoundIn(Exe, syms, pc)
    /\ soTree' = IF soTree = NoTree THEN Parsed({}, maps) ELSE soTree
    /\ seen' = IF soTree = NoTree THEN Len(maps) ELSE seen
    /\ LET at == {e \in soTree' : Covers(e, pc)} IN
       IF at = {}
       THEN /\ Answer(Result(pc, Nowhere))
            /\ UNCHANGED <<status, syms, soOpen>>
       ELSE LET e == CHOOSE x \in at : TRUE
                opened == e \notin soOpen /\ Objects[e.path].opens
                symbols == IF opened THEN e.path ELSE syms
                found == FoundIn(e.path, symbols, Relative(pc, e))
            IN IF e \in soOpen \/ opened
               THEN /\ soOpen' = soOpen \cup {e}
                    /\ syms' = symbols
                    /\ Answer(Result(pc, IF found THEN Here(e.path, Relative(pc, e))
                                         ELSE Nowhere))
                    /\ UNCHANGED status
               ELSE /\ status' = "crashed"
                    /\ UNCHANGED <<build, doLookup, reports, answer, syms, soOpen>>
    /\ UNCHANGED <<maps, dlopened, abfd>>

\* close_bfd_executable, for the collector that opened it.
CloseBfd ==
    /\ build = "bfd" /\ status = "open"
    /\ Closed
    /\ abfd' = IF doLookup THEN "closed" ELSE abfd
    /\ UNCHANGED <<maps, dlopened, syms, soTree, soOpen, seen>>

BfdNext ==
    \/ Dlopen
    \/ OpenBfd
    \/ \E pc \in Pcs : FindInExecutable(pc)
    \/ \E pc \in Pcs : ParseFails(pc)
    \/ \E pc \in Pcs : FindInSharedObject(pc)
    \/ CloseBfd

(***************************************************************************)
(* Properties.                                                             *)
(***************************************************************************)
\* Where the pc was linked: the mapping that holds it says.
Mappings == {maps[i] : i \in DOMAIN maps}
Mapping(pc) == {e \in Mappings : e.low <= pc /\ pc < e.high}
Origin(e, pc) == Here(e.path, pc - e.low + e.offset + e.base)
Adjacent(e) == \E i \in DOMAIN maps : maps[i].exec /\ maps[i].high = e.low

BfdExact ==
    (answer # NotAsked /\ build = "bfd") =>
        LET where == answer.line
            pc == answer.pc
        IN /\ where # Nowhere =>
                \E e \in Mappings :
                    /\ Covers(e, pc) /\ where.object = e.path
                    /\ e.offset = 0 => where = Origin(e, pc)
           /\ \A e \in {maps[i] : i \in 1..seen} \cap Mapping(pc) :
                (/\ e.offset = 0 /\ Loadable(e) /\ ~Adjacent(e)
                 /\ Objects[e.path].debug
                 /\ Section(e.path, Origin(e, pc).addr)) => where = Origin(e, pc)
=============================================================================
