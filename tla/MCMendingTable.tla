---------------------------- MODULE MCMendingTable ----------------------------
(* Instances of MendingTable: the names are model values, see the .cfg files. *)
EXTENDS MendingTable
=============================================================================
