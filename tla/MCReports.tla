------------------------------ MODULE MCReports ------------------------------
(* Reports for TLC: two goroutines, and room for one entry in the logger.     *)
EXTENDS Reports
=============================================================================
