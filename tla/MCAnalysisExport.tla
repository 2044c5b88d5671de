--------------------------- MODULE MCAnalysisExport ---------------------------
(* The instance on which TLC checks AnalysisExport. *)
EXTENDS AnalysisExport

CONSTANTS j1, j2
=============================================================================
