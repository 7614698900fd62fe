----------------------------- MODULE MCEnginePool -----------------------------
(* Instances of EnginePool: the .cfg files give the numbers. *)
EXTENDS EnginePool
=============================================================================
