----------------------------- MODULE SymbolOrder -----------------------------
(***************************************************************************)
(* MendingTable.topologicalSort: the order in which the typedefs and the   *)
(* records of the table are written to the mendfile, a depth-first search  *)
(* from every symbol along the graph that buildDependencyGraph makes.  The *)
(* recursion of visit is an explicit stack.  The iteration orders of the   *)
(* HashMap and of its HashSets follow identity hashes, so that the symbols *)
(* and their dependents come in any order.  Module MendingTable takes from *)
(* here that the table has no order iff the graph has a cycle, and that    *)
(* any order that the graph allows may come out.                           *)
(***************************************************************************)
EXTENDS Integers, Sequences, FiniteSets

CONSTANTS
  Symbols,    \* the typedefs and the records of the table
  Typedefs,
  Graphs      \* dependency graphs: symbol -> the symbols that depend on it

ASSUME SymbolsAssumption ==
  /\ IsFiniteSet(Symbols)
  /\ Typedefs \subseteq Symbols
  /\ Graphs \subseteq [Symbols -> SUBSET Symbols]

VARIABLES
  graph,      \* depGraph
  todo,       \* symbols that the loop of topologicalSort has not come to
  stack,      \* the activations of visit: the symbol and the dependents left
  temporary,  \* temporarilyVisited, from which nothing is ever removed
  permanent,  \* permanentlyVisited
  ordering,
  result      \* "running", "ordered", or "null" as topologicalSort returns it

vars == <<graph, todo, stack, temporary, permanent, ordering, result>>

Init ==
  /\ graph \in Graphs
  /\ todo = Symbols
  /\ stack = <<>>
  /\ temporary = {}
  /\ permanent = {}
  /\ ordering = <<>>
  /\ result = "running"

\* Mutant: a symbol is not marked when its visit begins.
VisitUnmarked(s, activations) ==
  \/ /\ s \in permanent
     /\ stack' = activations
     /\ UNCHANGED <<temporary, result>>
  \/ /\ s \notin permanent
     /\ stack' = Append(activations, [symbol |-> s, left |-> graph[s]])
     /\ UNCHANGED <<temporary, result>>

\* Mutant: the two tests at the start of visit are swapped.
VisitTemporaryFirst(s, activations) ==
  \/ /\ s \in temporary
     /\ result' = "null"
     /\ stack' = <<>>
     /\ UNCHANGED temporary
  \/ /\ s \notin temporary
     /\ temporary' = temporary \cup {s}
     /\ stack' = Append(activations, [symbol |-> s, left |-> graph[s]])
     /\ UNCHANGED result

\* A call of visit, from the activations given.  The false of a symbol that is
\* being visited is handed on by all of them, and topologicalSort returns null.
Visit(s, activations) ==
  \/ /\ s \in permanent
     /\ stack' = activations
     /\ UNCHANGED <<temporary, result>>
  \/ /\ s \notin permanent /\ s \in temporary
     /\ result' = "null"
     /\ stack' = <<>>
     /\ UNCHANGED temporary
  \/ /\ s \notin permanent /\ s \notin temporary
     /\ temporary' = temporary \cup {s}
     /\ stack' = Append(activations, [symbol |-> s, left |-> graph[s]])
     /\ UNCHANGED result

\* The loop of topologicalSort.
VisitSymbol ==
  /\ result = "running" /\ stack = <<>>
  /\ \E s \in todo :
       /\ todo' = todo \ {s}
       /\ Visit(s, stack)
  /\ UNCHANGED <<graph, permanent, ordering>>

\* The activations when the one at the top has taken d from its iterator.
Passed(d) ==
  [stack EXCEPT ![Len(stack)] = [symbol |-> @.symbol, left |-> @.left \ {d}]]

\* Mutant: the dependent that is passed over is met again.
VisitDependentAgain ==
  /\ result = "running" /\ stack # <<>>
  /\ LET top == stack[Len(stack)] IN
     \E d \in top.left :
       \/ d = top.symbol /\ d \in Typedefs /\ UNCHANGED <<stack, temporary, result>>
       \/ ~(d = top.symbol /\ d \in Typedefs) /\ Visit(d, Passed(d))
  /\ UNCHANGED <<graph, todo, permanent, ordering>>

\* The loop of visit, on the activation at the top.  A typedef that depends on
\* the typedef of its own name is passed over.
VisitDependent ==
  /\ result = "running" /\ stack # <<>>
  /\ LET top == stack[Len(stack)] IN
     \E d \in top.left :
       \/ /\ d = top.symbol /\ d \in Typedefs
          /\ stack' = Passed(d)
          /\ UNCHANGED <<temporary, result>>
       \/ /\ ~(d = top.symbol /\ d \in Typedefs)
          /\ Visit(d, Passed(d))
  /\ UNCHANGED <<graph, todo, permanent, ordering>>

\* Mutant: the symbol is added at the end of the order.
FinishAtEnd ==
  /\ result = "running" /\ stack # <<>>
  /\ LET top == stack[Len(stack)] IN
     /\ top.left = {}
     /\ permanent' = permanent \cup {top.symbol}
     /\ ordering' = Append(ordering, top.symbol)
  /\ stack' = SubSeq(stack, 1, Len(stack) - 1)
  /\ UNCHANGED <<graph, todo, temporary, result>>

\* The end of visit: the symbol goes in front of all that depend on it.
Finish ==
  /\ result = "running" /\ stack # <<>>
  /\ LET top == stack[Len(stack)] IN
     /\ top.left = {}
     /\ permanent' = permanent \cup {top.symbol}
     /\ ordering' = <<top.symbol>> \o ordering
  /\ stack' = SubSeq(stack, 1, Len(stack) - 1)
  /\ UNCHANGED <<graph, todo, temporary, result>>

Return ==
  /\ result = "running" /\ stack = <<>> /\ todo = {}
  /\ result' = "ordered"
  /\ UNCHANGED <<graph, todo, stack, temporary, permanent, ordering>>

Ended == result # "running" /\ UNCHANGED vars

Next == VisitSymbol \/ VisitDependent \/ Finish \/ Return \/ Ended

Spec == Init /\ [][Next]_vars

\* One thread runs the search.
FairSpec == Spec /\ WF_vars(Next)

-----------------------------------------------------------------------------
Activation == [symbol : Symbols, left : SUBSET Symbols]

TypeOK ==
  /\ graph \in Graphs
  /\ todo \subseteq Symbols
  /\ stack \in Seq(Activation)
  /\ temporary \subseteq Symbols
  /\ permanent \subseteq temporary
  /\ ordering \in Seq(Symbols)
  /\ result \in {"running", "ordered", "null"}

\* The dependents that the search follows.
Dependents(s) == graph[s] \ ({s} \cap Typedefs)

\* Some symbols depend on each other in a circle: each of them has a dependent
\* among them.
Cyclic == \E C \in SUBSET Symbols : C # {} /\ \A s \in C : Dependents(s) \cap C # {}

\* An order that is returned can be written as it is: every symbol of the table
\* comes once, and after everything it depends on.
OrderIsSound ==
  result = "ordered" =>
    /\ {ordering[i] : i \in DOMAIN ordering} = Symbols
    /\ \A i, j \in DOMAIN ordering :
         /\ ordering[i] = ordering[j] => i = j
         /\ ordering[j] \in Dependents(ordering[i]) => i < j

\* A table is refused only if its symbols depend on each other in a circle,
\* though temporarilyVisited never forgets a symbol and the searches from
\* several symbols meet.
RefusedOnlyIfCyclic == result = "null" => Cyclic

\* The recursion of visit is no deeper than the table is large, whatever the
\* graph: a StackOverflowError would not be caught by mendingIteration.
DepthWithinSymbols == Len(stack) <= Cardinality(Symbols)

\* The search ends, also in a graph with cycles.
SearchEnds == <>(result # "running")
=============================================================================
