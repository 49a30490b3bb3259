---------------------------- MODULE MCReportGate ----------------------------
(* ReportGate, with the constants of ReportGate.cfg, for TLC. *)
EXTENDS ReportGate
=============================================================================
