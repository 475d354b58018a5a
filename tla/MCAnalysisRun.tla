--------------------------- MODULE MCAnalysisRun ----------------------------
(* Instances of AnalysisRun for TLC. *)
EXTENDS AnalysisRun, TLC
=============================================================================
