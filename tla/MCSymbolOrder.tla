---------------------------- MODULE MCSymbolOrder ----------------------------
(* An instance of SymbolOrder with graphs of few edges. *)
EXTENDS SymbolOrder, FiniteSetsExt

CONSTANT MaxEdges

\* Every graph of at most MaxEdges edges, those from a symbol to itself included.
MCGraphs ==
  {g \in [Symbols -> SUBSET Symbols] :
     MapThenSumSet(LAMBDA s : Cardinality(g[s]), Symbols) <= MaxEdges}
=============================================================================
