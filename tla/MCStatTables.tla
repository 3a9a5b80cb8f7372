---------------------------- MODULE MCStatTables ----------------------------
(* Three callsites in two chains, Main and one other thread.               *)
EXTENDS StatTables
=============================================================================
