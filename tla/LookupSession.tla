--------------------------- MODULE LookupSession ----------------------------
(***************************************************************************)
(* What the collector keeps about the lookup of source code, whichever     *)
(* library was configured.  A report opens the executable, looks the pcs   *)
(* of its callsites up, and closes it; one report runs at a time.          *)
(***************************************************************************)
EXTENDS Integers, Sequences, FiniteSets

CONSTANTS Builds,       \* the libraries: "dwarf", "bfd"
          Pcs,          \* the pcs that are looked up
          MaxReports    \* bound on the reports

VARIABLES
    build,      \* the configured library
    status,     \* "idle", "loading", "open", "aborted" or "crashed"
    doLookup,   \* mpiPi.do_lookup
    reports,    \* reports begun
    answer      \* what the last lookup found

session == <<build, status, doLookup, reports, answer>>

NotAsked == [pc |-> 0]

SessionInit ==
    /\ build \in Builds
    /\ status = "idle" /\ doLookup = TRUE /\ reports = 0
    /\ answer = NotAsked

MayOpen(b) == build = b /\ status = "idle" /\ reports < MaxReports

\* An executable that cannot be opened ends lookups for all later reports.
Opened(ok, s) ==
    /\ reports' = reports + 1
    /\ doLookup' = (doLookup /\ ok)
    /\ status' = s
    /\ UNCHANGED <<build, answer>>

MayLookup(b) == build = b /\ status = "open" /\ doLookup

Answer(a) == answer' = a /\ UNCHANGED <<build, doLookup, reports>>

Closed == status' = "idle" /\ answer' = NotAsked /\ UNCHANGED <<build, doLookup, reports>>
=============================================================================
