------------------------- MODULE MCReportingHandler -------------------------
(* Three threads, two callbacks and none. *)
EXTENDS ReportingHandler, TLC

=============================================================================
