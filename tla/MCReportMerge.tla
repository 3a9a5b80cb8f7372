---------------------------- MODULE MCReportMerge ----------------------------
(* Instances of ReportMerge.  The runs check liveness, or have two ranks:  *)
(* they use no symmetry.                                                   *)
EXTENDS ReportMerge
=============================================================================
