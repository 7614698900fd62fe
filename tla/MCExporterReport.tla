--------------------------- MODULE MCExporterReport ---------------------------
\* Two runs of the exporter on a file, with diagnostics of every kind that the
\* consumer or the reader treats in its own way.
EXTENDS ExporterReport

CONSTANTS int, int128, S, pS, p128, fn, vector

MCStart == <<0, 4, 10>>
MCCount == <<2, 3, 2>>

MCTypes == {int, int128, S, pS, p128, fn, vector}
Of(t) == [qual |-> {}, type |-> t]
MCShape ==
  [t \in MCTypes |->
    CASE t = int -> [class |-> "builtin", parts |-> <<>>]
      [] t = int128 -> [class |-> "builtin of another language", parts |-> <<>>]
      [] t = S -> [class |-> "record", parts |-> <<>>]
      [] t = pS -> [class |-> "pointer", parts |-> <<[qual |-> {"const"}, type |-> S]>>]
      [] t = p128 -> [class |-> "pointer", parts |-> <<Of(int128)>>]
      [] t = fn -> [class |-> "function", parts |-> <<Of(pS), Of(int)>>]
      [] t = vector -> [class |-> "other", parts |-> <<>>]]

Type(spelled, t) == [kind |-> "qualtype", value |-> [spelled |-> spelled, qual |-> {}, type |-> t]]
InFile == [type |-> "file", place |-> 1]
Nowhere == [type |-> "none"]
InMacro == [type |-> "macro", place |-> 2, callers |-> <<"token", "outer macro">>]
Diag(id, level, args, location, utf8) ==
  [id |-> id, level |-> level, args |-> args, location |-> location, utf8 |-> utf8]

MCDiagnostics ==
  {Diag(5, "error", <<Type("T", S), Type("S", S)>>, InMacro, TRUE),
   Diag(6, "warning", <<Type("S", S), Type("FN", fn)>>, InFile, TRUE),
   Diag(7, "error", <<Type("PS", pS), Type("vector", vector)>>, InFile, TRUE),
   Diag(7, "error", <<[kind |-> "text", value |-> "x"]>>, InFile, FALSE),
   Diag(7, "error", <<Type("P", p128)>>, InFile, TRUE),
   Diag(11, "warning", <<[kind |-> "integer", value |-> 8]>>, InFile, TRUE),
   Diag(11, "warning", <<[kind |-> "integer", value |-> 7]>>, InFile, TRUE),
   Diag(1, "fatal", <<>>, Nowhere, TRUE),
   Diag(2, "note", <<[kind |-> "decl_context", value |-> "record"]>>, InFile, TRUE),
   Diag(2, "note", <<[kind |-> "decl_context", value |-> "enum"]>>, InFile, TRUE),
   Diag(12, "warning", <<>>, InFile, TRUE),
   Diag(13, "error", <<>>, InFile, TRUE)}

\* A warning that is made an error, and one with a severity that is misspelt.
MCMapping == [id \in {11, 12} |-> IF id = 11 THEN "error" ELSE "warn"]
=============================================================================
