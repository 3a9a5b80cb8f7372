--------------------------- MODULE MCThreadTimers ---------------------------
(* Instances of ThreadTimers: one thread, or Main and one other, so that   *)
(* no symmetry is left.                                                    *)
EXTENDS ThreadTimers
=============================================================================
