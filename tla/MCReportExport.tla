---------------------------- MODULE MCReportExport ----------------------------
(***************************************************************************)
(* Two exports and one worker, of two attempts each.  No symmetry: the     *)
(* run checks a liveness property.                                         *)
(***************************************************************************)
EXTENDS ReportExport, TLC

=============================================================================
