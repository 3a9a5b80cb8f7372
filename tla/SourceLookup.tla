---------------------------- MODULE SourceLookup ----------------------------
(***************************************************************************)
(* Source lookup by the collector, with the library the build chose.       *)
(***************************************************************************)
EXTENDS DwarfLookup, BfdLookup

vars == <<session, dwarfVars, bfdVars>>

Init == SessionInit /\ DwarfInit /\ BfdInit

Next ==
    \/ build = "dwarf" /\ DwarfNext /\ UNCHANGED bfdVars
    \/ build = "bfd" /\ BfdNext /\ UNCHANGED dwarfVars

Spec == Init /\ [][Next]_vars

\* A lookup answers with the line and the function the pc belongs to by the
\* tables of the object it is mapped from, and with nothing else.  For
\* mpiP_find_src_loc of both builds.  What is left out is known to differ:
\* several line entries at address 0, the address where one function ends
\* and the next begins, a mapping with an offset or adjacent to another, an
\* object without debugging information, a library loaded after the maps
\* were read.
LookupsExact == DwarfExact /\ BfdExact
=============================================================================
