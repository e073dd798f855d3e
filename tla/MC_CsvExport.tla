---------------------------- MODULE MC_CsvExport ----------------------------
(* Instances of CsvExport for TLC.                                         *)
EXTENDS CsvExport
=============================================================================
