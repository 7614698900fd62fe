---------------------------- MODULE MCDiagExporter ----------------------------
(* Instances of DiagExporter: see the .cfg files. *)
EXTENDS DiagExporter
=============================================================================
