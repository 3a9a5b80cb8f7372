------------------------------ MODULE MCTSList ------------------------------
(* Instances of TSList: appends and dequeues that race without limits.     *)
EXTENDS TSList, TLC

Symmetry == Permutations(Handles)
=============================================================================
