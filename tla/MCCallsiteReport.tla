-------------------------- MODULE MCCallsiteReport --------------------------
(***************************************************************************)
(* Two ranks, three callsites: two of them are of one operation and on one *)
(* source line, the third is a collective operation on an unknown line.    *)
(***************************************************************************)
EXTENDS CallsiteReport

CONSTANTS main, t1

Loc(file, line, func) == [file |-> file, line |-> line, func |-> func]
MCLocation == (10 :> Loc("mpiP-wrappers.c", 7, "MPI_Send")) @@ (21 :> Loc("app.c", 5, "f"))
           @@ (22 :> Loc("app.c", 5, "f")) @@ (30 :> Loc("app.c", 9, "main"))
           @@ (23 :> Loc("??", 0, "NULL"))

Site(op, pc) == [op |-> op, pc |-> <<10, pc, 30>>]

Amount(t, s, i, m) == [time |-> t, sent |-> s, io |-> i, rma |-> m]
Small == Amount(0, 0, 0, 1)
Great == Amount(2, 3, 2, 0)
MCKinds == {[site |-> Site(1, 21), amount |-> Small], [site |-> Site(1, 21), amount |-> Great],
            [site |-> Site(1, 22), amount |-> Great], [site |-> Site(2, 23), amount |-> Great]}

MCThreads == (0 :> {main, t1}) @@ (1 :> {main})

Plain == [mode |-> "st", depth |-> 1, cov |-> TRUE, collective |-> FALSE, detail |-> TRUE,
          style |-> "verbose", threshold |-> 2, printThreshold |-> 0, lookup |-> TRUE,
          room |-> TRUE, stale |-> 0,
          allRanks |-> TRUE]
MCSetups ==
    {Plain,
     [Plain EXCEPT !.style = "both", !.printThreshold = 50],
     [Plain EXCEPT !.mode = "mt", !.style = "concise", !.threshold = 0],
     [Plain EXCEPT !.depth = 0, !.cov = FALSE],
     [Plain EXCEPT !.depth = 0, !.style = "concise", !.detail = FALSE],
     [Plain EXCEPT !.collective = TRUE, !.style = "both", !.lookup = FALSE],
     [Plain EXCEPT !.collective = TRUE, !.room = FALSE, !.threshold = -1],
     [Plain EXCEPT !.collective = TRUE, !.mode = "mt"],
     [Plain EXCEPT !.mode = "mt", !.allRanks = FALSE],
     [Plain EXCEPT !.collective = TRUE, !.allRanks = FALSE]}

\* Fewer calls where the ranks have the many steps of the collective sections.
MCMaxCalls == [s \in MCSetups |-> IF s.collective THEN 2 ELSE 3]
=============================================================================
