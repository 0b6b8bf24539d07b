---------------------------- MODULE MCExportQueue ----------------------------
(* Model-checking instances of ExportQueue: two replicas, one or two         *)
(* exports, a budget of one fault.                                           *)
EXTENDS ExportQueue
==============================================================================
