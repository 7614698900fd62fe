---------------------- MODULE MCMultipleErrorsSelection ----------------------
(* Every report of at most four diagnostics of a small alphabet. *)
EXTENDS MultipleErrorsSelection

Diag(id, level, name) == [id |-> id, level |-> level, name |-> name]

MCDiags ==
  {Diag("ERR_UNDECLARED_VAR_USE", "error", "x"),
   Diag("ERR_UNKNOWN_TYPENAME", "error", "x"),
   Diag("ERR_UNKNOWN_TYPENAME_SUGGEST", "error", "x"),
   Diag("ERR_UNKNOWN_TYPENAME", "error", "y"),
   Diag("ERR_TYPECHECK_DECL_INCOMPLETE_TYPE", "error", "s"),
   Diag("ERR_FUNC_DEF_INCOMPLETE_RESULT", "error", "s"),
   Diag("ERR_TYPECHECK_CONVERT_INCOMPATIBLE", "error", "c"),
   Diag("EXT_IMPLICIT_FUNCTION_DECL_C99", "warning", "f")}

MCReports == UNION {[1..n -> MCDiags] : n \in 1..4}
=============================================================================
