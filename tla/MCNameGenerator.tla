--------------------------- MODULE MCNameGenerator ---------------------------
(* Instances of NameGenerator: the .cfg files give the sets. *)
EXTENDS NameGenerator
=============================================================================
