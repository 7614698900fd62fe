-------------------------- MODULE SymbolOrder_proofs --------------------------
(***************************************************************************)
(* Proofs about SymbolOrder, for every set of symbols and every dependency *)
(* graph.                                                                  *)
(***************************************************************************)
EXTENDS SymbolOrder, SequenceTheorems, FiniteSetTheorems, WellFoundedInduction, TLAPS

\* What the activations of visit are: a path of distinct symbols, all that are
\* temporarily and not permanently visited, each waiting for the next one and
\* with everything else it has looked at finished.
StackInv ==
  /\ \A i \in 1..Len(stack) : /\ stack[i].symbol \in temporary \ permanent
                              /\ stack[i].left \subseteq graph[stack[i].symbol]
  /\ \A s \in temporary \ permanent : \E i \in 1..Len(stack) : stack[i].symbol = s
  /\ \A i, j \in 1..Len(stack) : stack[i].symbol = stack[j].symbol => i = j
  /\ \A i \in 1..(Len(stack) - 1) : stack[i + 1].symbol \in Dependents(stack[i].symbol)
  /\ \A i \in 1..Len(stack) : \A d \in Dependents(stack[i].symbol) \ stack[i].left :
       d \in permanent \/ (i < Len(stack) /\ d = stack[i + 1].symbol)

\* What has been ordered so far: the permanently visited symbols, each once, with
\* all their dependents behind them.
OrderInv ==
  /\ \A i \in 1..Len(ordering) : ordering[i] \in permanent
  /\ \A s \in permanent : \E i \in 1..Len(ordering) : ordering[i] = s
  /\ \A i, j \in 1..Len(ordering) : ordering[i] = ordering[j] => i = j
  /\ \A i \in 1..Len(ordering) : \A d \in Dependents(ordering[i]) :
       \E j \in 1..Len(ordering) : i < j /\ ordering[j] = d

SearchInv ==
  /\ result = "running" => StackInv /\ Symbols \ todo \subseteq temporary
  /\ OrderInv
  /\ result = "ordered" => Symbols \subseteq permanent
  /\ RefusedOnlyIfCyclic

\* The elements of a sequence with one more in front.
LEMMA InFront ==
  ASSUME NEW S, NEW x \in S, NEW q \in Seq(S)
  PROVE  /\ <<x>> \o q \in Seq(S)
         /\ Len(<<x>> \o q) = Len(q) + 1
         /\ (<<x>> \o q)[1] = x
         /\ \A i \in 1..Len(q) : (<<x>> \o q)[i + 1] = q[i]
<1>1. <<x>> \in Seq(S) /\ Len(<<x>>) = 1 /\ <<x>>[1] = x
  OBVIOUS
<1>2. Len(q) \in Nat
  OBVIOUS
<1>3. QED
  BY <1>1, <1>2, ConcatProperties

\* The positions of a stack below its top.
LEMMA Below ==
  ASSUME NEW n \in Nat, n # 0
  PROVE  /\ n \in 1..n
         /\ \A i \in 1..n : i \in 1..(n - 1) \/ i = n
         /\ \A i \in 1..(n - 1) : i \in 1..n /\ i + 1 \in 1..n /\ i < n /\ i # n
  OBVIOUS

\* Only what is left of the activation at the top changes when it goes on.
LEMMA PassedFacts ==
  ASSUME TypeOK, stack # <<>>, NEW d
  PROVE  /\ Len(stack) \in Nat \ {0}
         /\ Passed(d) \in Seq(Activation)
         /\ Len(Passed(d)) = Len(stack)
         /\ \A i \in 1..Len(stack) : Passed(d)[i].symbol = stack[i].symbol
         /\ \A i \in 1..(Len(stack) - 1) : Passed(d)[i] = stack[i]
         /\ Passed(d)[Len(stack)].left = stack[Len(stack)].left \ {d}
<1> DEFINE n == Len(stack)
           t == [symbol |-> stack[n].symbol, left |-> stack[n].left \ {d}]
<1>1. stack \in Seq(Activation) /\ n \in Nat \ {0} /\ DOMAIN stack = 1..n
  BY DEF TypeOK
<1>2. stack[n] \in Activation
  BY <1>1
<1>3. t \in Activation /\ t.symbol = stack[n].symbol /\ t.left = stack[n].left \ {d}
  BY <1>2 DEF Activation
<1>4. Passed(d) = [stack EXCEPT ![n] = t]
  BY DEF Passed
<1> HIDE DEF t
<1>5. Passed(d) \in Seq(Activation) /\ Len(Passed(d)) = n
  BY <1>1, <1>3, <1>4
<1>6. Passed(d)[n] = t
  BY <1>1, <1>4
<1>7. \A i \in 1..(n - 1) : Passed(d)[i] = stack[i]
  BY <1>1, <1>4, Below
<1>8. \A i \in 1..n : i \in 1..(n - 1) \/ i = n
  BY <1>1, Below
<1>9. QED
  BY <1>1, <1>3, <1>5, <1>6, <1>7, <1>8

-----------------------------------------------------------------------------
\* The shape of an activation and of the dependents of a symbol.
LEMMA GraphTypes ==
  ASSUME TypeOK, NEW s \in Symbols
  PROVE  /\ graph[s] \subseteq Symbols
         /\ [symbol |-> s, left |-> graph[s]] \in Activation
         /\ Dependents(s) \subseteq graph[s]
<1>1. graph[s] \in SUBSET Symbols
  BY SymbolsAssumption DEF TypeOK
<1>2. QED
  BY <1>1 DEF Activation, Dependents

\* A call of visit that begins a symbol.
LEMMA PushFacts ==
  ASSUME TypeOK, NEW B \in Seq(Activation), NEW s \in Symbols
  PROVE  LET F == [symbol |-> s, left |-> graph[s]]
             q == Append(B, F)
             n == Len(B)
         IN  /\ n \in Nat
             /\ q \in Seq(Activation)
             /\ Len(q) = n + 1
             /\ \A i \in 1..n : q[i] = B[i]
             /\ q[n + 1].symbol = s /\ q[n + 1].left = graph[s]
<1> DEFINE F == [symbol |-> s, left |-> graph[s]]
<1>1. F \in Activation /\ F.symbol = s /\ F.left = graph[s]
  BY GraphTypes
<1> HIDE DEF F
<1>2. Len(B) \in Nat
  OBVIOUS
<1>3. /\ Append(B, F) \in Seq(Activation)
      /\ Len(Append(B, F)) = Len(B) + 1
      /\ \A i \in 1..Len(B) : Append(B, F)[i] = B[i]
      /\ Append(B, F)[Len(B) + 1] = F
  BY <1>1, AppendProperties
<1>4. QED
  BY <1>1, <1>2, <1>3 DEF F

\* The end of a visit.
LEMMA PopFacts ==
  ASSUME TypeOK, stack # <<>>
  PROVE  LET q == SubSeq(stack, 1, Len(stack) - 1)
             n == Len(stack)
         IN  /\ n \in Nat /\ n # 0
             /\ q \in Seq(Activation)
             /\ Len(q) = n - 1
             /\ \A i \in 1..(n - 1) : q[i] = stack[i]
<1>1. stack \in Seq(Activation) /\ Len(stack) \in Nat /\ Len(stack) # 0
  BY DEF TypeOK
<1>2. \A i \in 1..(Len(stack) - 1) : stack[i] \in Activation
  BY <1>1, Below
<1> DEFINE n == Len(stack)
           q == SubSeq(stack, 1, n - 1)
<1>3. n \in Nat /\ n # 0 /\ n - 1 \in Int
  BY <1>1
<1>4. /\ q \in Seq(Activation)
      /\ Len(q) = IF 1 <= n - 1 THEN n - 1 - 1 + 1 ELSE 0
      /\ \A i \in 1..(n - 1 - 1 + 1) : q[i] = stack[1 + i - 1]
  <2> HIDE DEF n
  <2>1. \A i \in 1..(n - 1) : stack[i] \in Activation
    BY <1>2 DEF n
  <2>2. QED
    BY <1>3, <2>1, SubSeqProperties
<1>5. QED
  <2> HIDE DEF n
  <2>1. Len(q) = n - 1 /\ \A i \in 1..(n - 1) : q[i] = stack[i]
    BY <1>3, <1>4
  <2>2. QED
    BY <1>3, <1>4, <2>1 DEF n

\* The activation at the top.
LEMMA TopFacts ==
  ASSUME TypeOK, stack # <<>>
  PROVE  /\ Len(stack) \in Nat /\ Len(stack) # 0 /\ Len(stack) \in 1..Len(stack)
         /\ stack[Len(stack)] \in Activation
         /\ stack[Len(stack)].symbol \in Symbols
         /\ stack[Len(stack)].left \subseteq Symbols
<1>1. stack \in Seq(Activation) /\ Len(stack) \in Nat /\ Len(stack) # 0
  BY DEF TypeOK
<1>2. Len(stack) \in 1..Len(stack)
  BY <1>1, Below
<1>3. stack[Len(stack)] \in Activation
  BY <1>1, <1>2
<1>4. QED
  BY <1>1, <1>2, <1>3 DEF Activation

-----------------------------------------------------------------------------
\* A call of visit keeps the types.
LEMMA VisitTypes ==
  ASSUME TypeOK, NEW B \in Seq(Activation), NEW s \in Symbols, Visit(s, B)
  PROVE  /\ stack' \in Seq(Activation)
         /\ temporary' \subseteq Symbols /\ temporary \subseteq temporary'
         /\ result' \in {"running", "ordered", "null"}
<1> DEFINE q == Append(B, [symbol |-> s, left |-> graph[s]])
<1>1. /\ temporary' = temporary \/ temporary' = temporary \cup {s}
      /\ result' = result \/ result' = "null"
      /\ stack' = B \/ stack' = <<>> \/ stack' = q
  BY DEF Visit
<1>2. q \in Seq(Activation) /\ <<>> \in Seq(Activation)
  BY PushFacts
<1> HIDE DEF q
<1>3. stack' \in Seq(Activation)
  BY <1>1, <1>2
<1>4. QED
  BY <1>1, <1>3 DEF TypeOK

\* Every step keeps the types; that a finished symbol was begun needs SearchInv.
LEMMA TypeStep ==
  ASSUME TypeOK, SearchInv, [Next]_vars
  PROVE  TypeOK'
<1>1. CASE VisitSymbol
  <2>1. PICK s \in todo : todo' = todo \ {s} /\ Visit(s, stack)
    BY <1>1 DEF VisitSymbol
  <2>2. s \in Symbols /\ stack \in Seq(Activation)
    BY DEF TypeOK
  <2>3. QED
    BY <1>1, <2>1, <2>2, VisitTypes DEF VisitSymbol, TypeOK
<1>2. CASE VisitDependent
  <2>1. stack # <<>>
    BY <1>2 DEF VisitDependent
  <2>2. PICK d \in stack[Len(stack)].left :
          \/ stack' = Passed(d) /\ UNCHANGED <<temporary, result>>
          \/ Visit(d, Passed(d))
    BY <1>2 DEF VisitDependent
  <2>3. d \in Symbols /\ Passed(d) \in Seq(Activation)
    BY <2>1, TopFacts, PassedFacts
  <2>4. /\ stack' \in Seq(Activation)
        /\ temporary' \subseteq Symbols /\ temporary \subseteq temporary'
        /\ result' \in {"running", "ordered", "null"}
    BY <2>2, <2>3, VisitTypes DEF TypeOK
  <2>5. QED
    BY <1>2, <2>4 DEF VisitDependent, TypeOK
<1>3. CASE Finish
  <2>1. stack # <<>> /\ result = "running"
    BY <1>3 DEF Finish
  <2>2. /\ stack' \in Seq(Activation)
    BY <1>3, <2>1, PopFacts DEF Finish
  <2> DEFINE x == stack[Len(stack)].symbol
  <2>3. x \in Symbols
    BY <2>1, TopFacts
  <2>4. ordering' = <<x>> \o ordering /\ permanent' = permanent \cup {x}
    BY <1>3 DEF Finish
  <2>5. x \in temporary
    BY <2>1, TopFacts DEF SearchInv, StackInv
  <2> HIDE DEF x
  <2>6. ordering' \in Seq(Symbols)
    BY <2>3, <2>4, InFront DEF TypeOK
  <2>7. QED
    BY <1>3, <2>2, <2>4, <2>5, <2>6 DEF Finish, TypeOK
<1>4. CASE Return
  BY <1>4 DEF Return, TypeOK
<1>5. CASE Ended \/ UNCHANGED vars
  BY <1>5 DEF Ended, vars, TypeOK
<1>6. QED
  BY <1>1, <1>2, <1>3, <1>4, <1>5 DEF Next

-----------------------------------------------------------------------------
\* StackInv after a step that leaves the graph alone, in terms of the new length.
LEMMA StackInvNext ==
  ASSUME NEW n \in Int, Len(stack') = n, graph' = graph,
         \A i \in 1..n : /\ stack'[i].symbol \in temporary' \ permanent'
                         /\ stack'[i].left \subseteq graph'[stack'[i].symbol],
         \A u \in temporary' \ permanent' : \E i \in 1..n : stack'[i].symbol = u,
         \A i, j \in 1..n : stack'[i].symbol = stack'[j].symbol => i = j,
         \A i \in 1..(n - 1) : stack'[i + 1].symbol \in Dependents(stack'[i].symbol),
         \A i \in 1..n : \A d \in Dependents(stack'[i].symbol) \ stack'[i].left :
           d \in permanent' \/ (i < n /\ d = stack'[i + 1].symbol)
  PROVE  StackInv'
<1>1. \A u : Dependents(u)' = Dependents(u)
  BY DEF Dependents
<1>2. QED
  BY <1>1 DEF StackInv

\* The activations B are about the temporarily marked symbols, and the topmost one,
\* where there is one, is waiting for s.
WaitingFor(B, n, s) ==
  /\ \A i \in 1..n : /\ B[i].symbol \in temporary \ permanent
                     /\ B[i].left \subseteq graph[B[i].symbol]
  /\ \A u \in temporary \ permanent : \E i \in 1..n : B[i].symbol = u
  /\ \A i, j \in 1..n : B[i].symbol = B[j].symbol => i = j
  /\ \A i \in 1..(n - 1) : B[i + 1].symbol \in Dependents(B[i].symbol)
  /\ n # 0 => s \in Dependents(B[n].symbol)
  /\ \A i \in 1..n : \A d \in Dependents(B[i].symbol) \ B[i].left :
       d \in permanent \/ (i < n /\ d = B[i + 1].symbol) \/ (i = n /\ d = s)

\* What visit begins with a symbol that no activation is about, on activations B
\* the topmost of which is waiting for it.
LEMMA PushKeepsStack ==
  ASSUME TypeOK, NEW B \in Seq(Activation), NEW s \in Symbols, NEW n \in Nat, n = Len(B),
         s \notin temporary, graph' = graph, permanent' = permanent,
         temporary' = temporary \cup {s},
         stack' = Append(B, [symbol |-> s, left |-> graph[s]]),
         WaitingFor(B, n, s)
  PROVE  StackInv'
<1>0. /\ \A i \in 1..n : /\ B[i].symbol \in temporary \ permanent
                         /\ B[i].left \subseteq graph[B[i].symbol]
      /\ \A u \in temporary \ permanent : \E i \in 1..n : B[i].symbol = u
      /\ \A i, j \in 1..n : B[i].symbol = B[j].symbol => i = j
      /\ \A i \in 1..(n - 1) : B[i + 1].symbol \in Dependents(B[i].symbol)
      /\ n # 0 => s \in Dependents(B[n].symbol)
      /\ \A i \in 1..n : \A d \in Dependents(B[i].symbol) \ B[i].left :
           d \in permanent \/ (i < n /\ d = B[i + 1].symbol) \/ (i = n /\ d = s)
  BY ONLY WaitingFor(B, n, s) DEF WaitingFor
<1> USE <1>0
<1>1. /\ Len(stack') = n + 1
      /\ \A i \in 1..n : stack'[i] = B[i]
      /\ stack'[n + 1].symbol = s /\ stack'[n + 1].left = graph[s]
  BY PushFacts
<1>2. \A u : Dependents(u)' = Dependents(u)
  BY DEF Dependents
<1>3. \A i \in 1..(n + 1) : i \in 1..n \/ i = n + 1
  OBVIOUS
<1>4. \A i \in 1..n : i \in 1..(n - 1) \/ i = n
  OBVIOUS
<1>5. \A i \in 1..n : i # n + 1 /\ i < n + 1
  OBVIOUS
<1>6. s \notin permanent
  BY DEF TypeOK
<1>7. \A i \in 1..(n + 1) : /\ stack'[i].symbol \in temporary' \ permanent'
                            /\ stack'[i].left \subseteq graph'[stack'[i].symbol]
  BY <1>1, <1>3, <1>6
<1>8. \A u \in temporary' \ permanent' : \E i \in 1..(n + 1) : stack'[i].symbol = u
  <2> SUFFICES ASSUME NEW u \in temporary' \ permanent'
               PROVE  \E i \in 1..(n + 1) : stack'[i].symbol = u
    OBVIOUS
  <2>1. CASE u = s
    BY <1>1, <2>1
  <2>2. CASE u # s
    <3>1. PICK i \in 1..n : B[i].symbol = u
      BY <2>2
    <3>2. i \in 1..(n + 1) /\ stack'[i].symbol = u
      BY <1>1, <3>1
    <3>3. QED
      BY <3>2
  <2>3. QED
    BY <2>1, <2>2
<1>9. \A i, j \in 1..(n + 1) : stack'[i].symbol = stack'[j].symbol => i = j
  <2>1. \A i \in 1..n : B[i].symbol # s
    OBVIOUS
  <2>2. QED
    BY <1>1, <1>3, <2>1
<1>10. \A i \in 1..n : stack'[i + 1].symbol \in Dependents(stack'[i].symbol)
  <2> SUFFICES ASSUME NEW i \in 1..n
               PROVE  stack'[i + 1].symbol \in Dependents(stack'[i].symbol)
    OBVIOUS
  <2>1. CASE i \in 1..(n - 1)
    <3>1. i + 1 \in 1..n
      BY <2>1
    <3>2. QED
      BY <1>1, <2>1, <3>1
  <2>2. CASE i = n
    BY <1>1, <2>2
  <2>3. QED
    BY <1>4, <2>1, <2>2
<1>11. \A i \in 1..(n + 1) : \A d \in Dependents(stack'[i].symbol) \ stack'[i].left :
         d \in permanent' \/ (i < n + 1 /\ d = stack'[i + 1].symbol)
  <2> SUFFICES ASSUME NEW i \in 1..(n + 1),
                      NEW d \in Dependents(stack'[i].symbol) \ stack'[i].left
               PROVE  d \in permanent \/ (i < n + 1 /\ d = stack'[i + 1].symbol)
    OBVIOUS
  <2>1. CASE i = n + 1
    BY <1>1, <2>1, GraphTypes
  <2>2. CASE i \in 1..n /\ i # n
    <3>1. d \in permanent \/ (i < n /\ d = B[i + 1].symbol)
      BY <1>1, <2>2
    <3>2. i + 1 \in 1..n
      BY <2>2
    <3>3. QED
      BY <1>1, <1>5, <2>2, <3>1, <3>2
  <2>3. CASE i = n /\ i \in 1..n
    <3>1. d \in permanent \/ d = s
      BY <1>1, <2>3
    <3>2. QED
      BY <1>1, <1>5, <2>3, <3>1
  <2>4. QED
    BY <1>3, <2>1, <2>2, <2>3
<1>12. QED
  <2>1. Len(stack)' = n + 1 /\ Len(stack)' - 1 = n
    BY <1>1
  <2>2. \A i \in 1..Len(stack)' : /\ stack'[i].symbol \in temporary' \ permanent'
                                  /\ stack'[i].left \subseteq graph'[stack'[i].symbol]
    BY ONLY <1>7, <2>1
  <2>3. \A u \in temporary' \ permanent' : \E i \in 1..Len(stack)' : stack'[i].symbol = u
    BY ONLY <1>8, <2>1
  <2>4. \A i, j \in 1..Len(stack)' : stack'[i].symbol = stack'[j].symbol => i = j
    BY ONLY <1>9, <2>1
  <2>5. \A i \in 1..(Len(stack)' - 1) : stack'[i + 1].symbol \in Dependents(stack'[i].symbol)
    BY ONLY <1>10, <2>1
  <2>6. \A i \in 1..Len(stack)' : \A d \in Dependents(stack'[i].symbol) \ stack'[i].left :
          d \in permanent' \/ (i < Len(stack)' /\ d = stack'[i + 1].symbol)
    BY ONLY <1>11, <2>1
  <2>7. QED
    BY ONLY <2>2, <2>3, <2>4, <2>5, <2>6, graph' = graph DEF StackInv, Dependents

\* The activation at the top goes on, after a dependent that is finished or that
\* it passes over.
LEMMA PassKeepsStack ==
  ASSUME TypeOK, StackInv, stack # <<>>, NEW d,
         d \in permanent \/ d \notin Dependents(stack[Len(stack)].symbol),
         graph' = graph, permanent' = permanent, temporary' = temporary,
         stack' = Passed(d)
  PROVE  StackInv'
<1> DEFINE n == Len(stack)
<1>1. /\ n \in Nat /\ n # 0
      /\ Len(stack') = n
      /\ \A i \in 1..n : stack'[i].symbol = stack[i].symbol
      /\ \A i \in 1..(n - 1) : stack'[i] = stack[i]
      /\ stack'[n].left = stack[n].left \ {d}
  BY PassedFacts
<1>2. \A u : Dependents(u)' = Dependents(u)
  BY DEF Dependents
<1>3. /\ \A i \in 1..n : i \in 1..(n - 1) \/ i = n
      /\ \A i \in 1..(n - 1) : i \in 1..n /\ i + 1 \in 1..n /\ i < n
  BY <1>1, Below
<1>4. \A i \in 1..n : stack'[i].left \subseteq stack[i].left
  BY <1>1, <1>3
<1>5. \A i \in 1..n : \A e \in Dependents(stack'[i].symbol) \ stack'[i].left :
        e \in permanent' \/ (i < n /\ e = stack'[i + 1].symbol)
  <2> SUFFICES ASSUME NEW i \in 1..n, NEW e \in Dependents(stack[i].symbol) \ stack'[i].left
               PROVE  e \in permanent \/ (i < n /\ e = stack'[i + 1].symbol)
    BY <1>1
  <2>1. CASE i \in 1..(n - 1)
    <3>1. e \in permanent \/ (i < n /\ e = stack[i + 1].symbol)
      BY <1>1, <2>1 DEF StackInv
    <3>2. QED
      BY <1>1, <1>3, <2>1, <3>1
  <2>2. CASE i = n
    <3>1. e = d \/ e \notin stack[n].left
      BY <1>1, <2>2
    <3>2. QED
      BY <1>1, <2>2, <3>1 DEF StackInv
  <2>3. QED
    BY <1>3, <2>1, <2>2
<1>6. \A i \in 1..n : /\ stack'[i].symbol \in temporary' \ permanent'
                      /\ stack'[i].left \subseteq graph'[stack'[i].symbol]
  BY <1>1, <1>4 DEF StackInv
<1>7. \A u \in temporary' \ permanent' : \E i \in 1..n : stack'[i].symbol = u
  BY <1>1 DEF StackInv
<1>8. \A i, j \in 1..n : stack'[i].symbol = stack'[j].symbol => i = j
  BY <1>1 DEF StackInv
<1>9. \A i \in 1..(n - 1) : stack'[i + 1].symbol \in Dependents(stack'[i].symbol)
  BY <1>1, <1>3 DEF StackInv
<1>10. Len(stack)' = n
  BY <1>1
<1> HIDE DEF n
<1>11. QED
  BY <1>2, <1>5, <1>6, <1>7, <1>8, <1>9, <1>10 DEF StackInv

\* The symbol of the activation at the top is finished.
LEMMA PopKeepsStack ==
  ASSUME TypeOK, StackInv, stack # <<>>, graph' = graph, temporary' = temporary,
         permanent' = permanent \cup {stack[Len(stack)].symbol},
         stack' = SubSeq(stack, 1, Len(stack) - 1)
  PROVE  StackInv'
<1> DEFINE n == Len(stack)
           x == stack[n].symbol
<1>1. /\ n \in Nat /\ n # 0
      /\ Len(stack') = n - 1
      /\ \A i \in 1..(n - 1) : stack'[i] = stack[i]
  BY PopFacts
<1>3. /\ n \in 1..n
      /\ \A i \in 1..n : i \in 1..(n - 1) \/ i = n
      /\ \A i \in 1..(n - 1) : i \in 1..n /\ i + 1 \in 1..n /\ i < n /\ i # n
  BY <1>1, Below
<1>4. \A i \in 1..(n - 1) : stack[i].symbol # x
  BY <1>3 DEF StackInv
<1>5. permanent' = permanent \cup {x}
  OBVIOUS
<1>6. \A i \in 1..(n - 1) : /\ stack'[i].symbol \in temporary' \ permanent'
                            /\ stack'[i].left \subseteq graph'[stack'[i].symbol]
  <2> HIDE DEF x
  <2>1. QED
    BY <1>1, <1>3, <1>4, <1>5 DEF StackInv
<1>7. \A u \in temporary' \ permanent' : \E i \in 1..(n - 1) : stack'[i].symbol = u
  <2> SUFFICES ASSUME NEW u \in temporary \ permanent, u # x
               PROVE  \E i \in 1..(n - 1) : stack'[i].symbol = u
    BY <1>5
  <2>1. PICK i \in 1..n : stack[i].symbol = u
    BY DEF StackInv
  <2>2. i \in 1..(n - 1)
    BY <1>3, <2>1
  <2>3. QED
    BY <1>1, <2>1, <2>2
<1>8. \A i, j \in 1..(n - 1) : stack'[i].symbol = stack'[j].symbol => i = j
  BY <1>1, <1>3 DEF StackInv
<1>9. \A i \in 1..(n - 1 - 1) : stack'[i + 1].symbol \in Dependents(stack'[i].symbol)
  <2> SUFFICES ASSUME NEW i \in 1..(n - 1 - 1)
               PROVE  stack'[i + 1].symbol \in Dependents(stack'[i].symbol)
    OBVIOUS
  <2>1. i \in 1..(n - 1) /\ i + 1 \in 1..(n - 1)
    BY <1>1
  <2>2. QED
    BY <1>1, <2>1 DEF StackInv
<1>10. \A i \in 1..(n - 1) : \A e \in Dependents(stack'[i].symbol) \ stack'[i].left :
         e \in permanent' \/ (i < n - 1 /\ e = stack'[i + 1].symbol)
  <2> SUFFICES ASSUME NEW i \in 1..(n - 1), NEW e \in Dependents(stack[i].symbol) \ stack[i].left
               PROVE  e \in permanent' \/ (i < n - 1 /\ e = stack'[i + 1].symbol)
    BY <1>1
  <2>1. e \in permanent \/ e = stack[i + 1].symbol
    BY <1>3 DEF StackInv
  <2>2. CASE i + 1 = n
    BY <1>5, <2>1, <2>2
  <2>3. CASE i + 1 # n
    <3>1. i + 1 \in 1..(n - 1) /\ i < n - 1
      BY <1>1, <2>3
    <3>2. QED
      BY <1>1, <1>5, <2>1, <3>1
  <2>4. QED
    BY <2>2, <2>3
<1>11. Len(stack)' = n - 1
  BY <1>1
<1>12. n - 1 \in Int
  BY <1>1
<1> HIDE DEF n, x
<1>13. QED
  BY <1>6, <1>7, <1>8, <1>9, <1>10, <1>11, <1>12, StackInvNext

\* A dependent that is being visited closes a circle: it is the symbol of an
\* activation, and from there on each symbol has the next one as a dependent.
LEMMA MetAgain ==
  ASSUME TypeOK, StackInv, stack # <<>>,
         NEW d \in Dependents(stack[Len(stack)].symbol), d \in temporary \ permanent
  PROVE  Cyclic
<1> DEFINE n == Len(stack)
<1>1. n \in Nat /\ n # 0
  BY TopFacts
<1>2. PICK k \in 1..n : stack[k].symbol = d
  BY DEF StackInv
<1> DEFINE C == {stack[i].symbol : i \in k..n}
<1>3. \A i \in k..n : i \in 1..n /\ (i = n \/ (i \in 1..(n - 1) /\ i + 1 \in k..n))
  BY <1>1
<1>4. C \in SUBSET Symbols
  <2>1. \A i \in 1..n : stack[i].symbol \in Symbols
    BY DEF StackInv, TypeOK
  <2>2. QED
    BY <1>3, <2>1
<1>5. d \in C /\ k \in k..n
  BY <1>1, <1>2
<1>6. ASSUME NEW i \in k..n
      PROVE  Dependents(stack[i].symbol) \cap C # {}
  <2>1. CASE i = n
    BY <1>5, <2>1
  <2>2. CASE i \in 1..(n - 1) /\ i + 1 \in k..n
    <3>1. stack[i + 1].symbol \in Dependents(stack[i].symbol)
      BY <2>2 DEF StackInv
    <3>2. stack[i + 1].symbol \in C
      BY <2>2
    <3>3. QED
      BY <3>1, <3>2
  <2>3. QED
    BY <1>3, <2>1, <2>2
<1>7. \A s \in C : Dependents(s) \cap C # {}
  BY <1>6
<1>8. C # {}
  BY <1>5
<1> HIDE DEF C
<1>9. QED
  BY <1>4, <1>7, <1>8 DEF Cyclic

\* OrderInv after a step that leaves the graph alone.
LEMMA OrderInvNext ==
  ASSUME NEW n, Len(ordering') = n, graph' = graph,
         \A i \in 1..n : ordering'[i] \in permanent',
         \A u \in permanent' : \E i \in 1..n : ordering'[i] = u,
         \A i, j \in 1..n : ordering'[i] = ordering'[j] => i = j,
         \A i \in 1..n : \A d \in Dependents(ordering'[i]) :
           \E j \in 1..n : i < j /\ ordering'[j] = d
  PROVE  OrderInv'
<1>1. \A u : Dependents(u)' = Dependents(u)
  BY DEF Dependents
<1>2. QED
  BY <1>1 DEF OrderInv

\* The finished symbol goes in front of the order: all its dependents are in it.
LEMMA FinishKeepsOrder ==
  ASSUME TypeOK, OrderInv, NEW x \in Symbols, x \notin permanent,
         Dependents(x) \subseteq permanent, graph' = graph,
         permanent' = permanent \cup {x}, ordering' = <<x>> \o ordering
  PROVE  OrderInv'
<1> DEFINE n == Len(ordering)
<1>1. ordering \in Seq(Symbols) /\ n \in Nat
  BY DEF TypeOK
<1>2. /\ Len(ordering') = n + 1
      /\ ordering'[1] = x
      /\ \A i \in 1..n : ordering'[i + 1] = ordering[i]
  BY <1>1, InFront
<1>3. /\ \A i \in 1..(n + 1) : i = 1 \/ \E k \in 1..n : i = k + 1
      /\ \A k \in 1..n : k + 1 \in 1..(n + 1) /\ k + 1 # 1 /\ 1 < k + 1
      /\ \A k, j \in 1..n : (k < j => k + 1 < j + 1) /\ (k = j => k + 1 = j + 1)
      /\ 1 \in 1..(n + 1)
  <2>1. \A i \in 1..(n + 1) : i # 1 => i - 1 \in 1..n /\ i = (i - 1) + 1
    BY <1>1
  <2>2. \A i \in 1..(n + 1) : i = 1 \/ \E k \in 1..n : i = k + 1
    BY <2>1
  <2>3. QED
    BY <1>1, <2>2
<1>5. \A i \in 1..(n + 1) : ordering'[i] \in permanent'
  BY <1>2, <1>3 DEF OrderInv
<1>6. \A u \in permanent' : \E i \in 1..(n + 1) : ordering'[i] = u
  <2> SUFFICES ASSUME NEW u \in permanent'
               PROVE  \E i \in 1..(n + 1) : ordering'[i] = u
    OBVIOUS
  <2>1. CASE u = x
    BY <1>2, <1>3, <2>1
  <2>2. CASE u \in permanent
    <3>1. PICK k \in 1..n : ordering[k] = u
      BY <2>2 DEF OrderInv
    <3>2. k + 1 \in 1..(n + 1) /\ ordering'[k + 1] = u
      BY <1>2, <1>3, <3>1
    <3>3. QED
      BY <3>2
  <2>3. QED
    BY <2>1, <2>2
<1>7. \A i, j \in 1..(n + 1) : ordering'[i] = ordering'[j] => i = j
  <2>1. \A k \in 1..n : ordering[k] # x
    BY DEF OrderInv
  <2>2. \A k, j \in 1..n : ordering[k] = ordering[j] => k = j
    BY DEF OrderInv
  <2>3. QED
    BY <1>2, <1>3, <2>1, <2>2
<1>8. \A i \in 1..(n + 1) : \A d \in Dependents(ordering'[i]) :
        \E j \in 1..(n + 1) : i < j /\ ordering'[j] = d
  <2> SUFFICES ASSUME NEW i \in 1..(n + 1), NEW d \in Dependents(ordering'[i])
               PROVE  \E j \in 1..(n + 1) : i < j /\ ordering'[j] = d
    OBVIOUS
  <2>1. CASE i = 1
    <3>1. d \in permanent
      BY <1>2, <2>1
    <3>2. PICK k \in 1..n : ordering[k] = d
      BY <3>1 DEF OrderInv
    <3>3. k + 1 \in 1..(n + 1) /\ i < k + 1 /\ ordering'[k + 1] = d
      BY <1>2, <1>3, <2>1, <3>2
    <3>4. QED
      BY <3>3
  <2>2. CASE \E k \in 1..n : i = k + 1
    <3>1. PICK k \in 1..n : i = k + 1
      BY <2>2
    <3>2. d \in Dependents(ordering[k])
      BY <1>2, <3>1
    <3>3. PICK j \in 1..n : k < j /\ ordering[j] = d
      BY <3>2 DEF OrderInv
    <3>4. j + 1 \in 1..(n + 1) /\ i < j + 1 /\ ordering'[j + 1] = d
      BY <1>2, <1>3, <3>1, <3>3
    <3>5. QED
      BY <3>4
  <2>3. QED
    BY <1>3, <2>1, <2>2
<1> HIDE DEF n
<1>9. QED
  BY <1>2, <1>5, <1>6, <1>7, <1>8, OrderInvNext

-----------------------------------------------------------------------------
\* The graph, and with it whether there is a circle, is fixed.
LEMMA CyclicNext ==
  ASSUME graph' = graph
  PROVE  Cyclic' <=> Cyclic
  BY DEF Cyclic, Dependents

\* Steps that do not touch the order or the activations.
LEMMA OrderInvSame ==
  ASSUME OrderInv, graph' = graph, permanent' = permanent, ordering' = ordering
  PROVE  OrderInv'
  BY DEF OrderInv, Dependents

\* Likewise for the activations.
LEMMA StackInvSame ==
  ASSUME StackInv, graph' = graph, permanent' = permanent, temporary' = temporary,
         stack' = stack
  PROVE  StackInv'
  BY DEF StackInv, Dependents

\* The loop of topologicalSort: no activation is left, so that a symbol is either
\* finished or was never met.
LEMMA SymbolStep ==
  ASSUME TypeOK, SearchInv, VisitSymbol
  PROVE  SearchInv'
<1>1. /\ result = "running" /\ stack = <<>> /\ graph' = graph
      /\ permanent' = permanent /\ ordering' = ordering
  BY DEF VisitSymbol
<1>2. StackInv /\ OrderInv /\ Symbols \ todo \subseteq temporary
  BY <1>1 DEF SearchInv
<1>3. PICK s \in todo : todo' = todo \ {s} /\ Visit(s, stack)
  BY DEF VisitSymbol
<1>4. s \in Symbols /\ permanent \subseteq temporary
  BY DEF TypeOK
<1>5. OrderInv'
  BY <1>1, <1>2, OrderInvSame
<1>6. temporary \subseteq permanent
  BY <1>1, <1>2 DEF StackInv
<1>7. CASE s \in permanent
  <2>1. stack' = stack /\ temporary' = temporary /\ result' = result
    BY <1>3, <1>7 DEF Visit
  <2>2. StackInv'
    BY <1>1, <1>2, <2>1, StackInvSame
  <2>3. QED
    BY <1>1, <1>2, <1>3, <1>4, <1>5, <1>7, <2>1, <2>2 DEF SearchInv, RefusedOnlyIfCyclic
<1>8. CASE s \notin permanent
  <2>1. s \notin temporary
    BY <1>6, <1>8
  <2>2. /\ temporary' = temporary \cup {s} /\ result' = result
        /\ stack' = Append(stack, [symbol |-> s, left |-> graph[s]])
    BY <1>3, <1>8, <2>1 DEF Visit
  <2>3. Symbols \ todo' \subseteq temporary'
    BY <1>2, <1>3, <2>2
  <2>4. StackInv'
    <3>1. stack \in Seq(Activation) /\ Len(stack) = 0
      BY <1>1 DEF TypeOK
    <3>2. 1..0 = {} /\ 1..(0 - 1) = {}
      OBVIOUS
    <3>3. temporary \ permanent = {}
      BY <1>6
    <3>4. QED
      <4>1. WaitingFor(stack, 0, s)
        BY ONLY <3>1, <3>2, <3>3 DEF WaitingFor
      <4>2. QED
        BY <1>1, <1>4, <2>1, <2>2, <3>1, <4>1, PushKeepsStack
  <2>5. result' = "running"
    BY <1>1, <2>2
  <2> HIDE <2>2
  <2>6. QED
    BY <1>5, <2>3, <2>4, <2>5 DEF SearchInv, RefusedOnlyIfCyclic
<1>9. QED
  BY <1>7, <1>8

\* The loop of visit.
LEMMA DependentStep ==
  ASSUME TypeOK, SearchInv, VisitDependent
  PROVE  SearchInv'
<1> DEFINE n == Len(stack)
           x == stack[n].symbol
<1>1. /\ result = "running" /\ stack # <<>> /\ graph' = graph /\ todo' = todo
      /\ permanent' = permanent /\ ordering' = ordering
  BY DEF VisitDependent
<1>2. StackInv /\ OrderInv /\ Symbols \ todo \subseteq temporary
  BY <1>1 DEF SearchInv
<1>3. PICK d \in stack[n].left :
        \/ /\ d = x /\ d \in Typedefs
           /\ stack' = Passed(d)
           /\ UNCHANGED <<temporary, result>>
        \/ /\ ~(d = x /\ d \in Typedefs)
           /\ Visit(d, Passed(d))
  BY DEF VisitDependent
<1>4. /\ n \in Nat /\ n # 0 /\ n \in 1..n
      /\ x \in Symbols /\ d \in Symbols
  BY <1>1, TopFacts
<1>5. d \in graph[x]
  BY <1>2, <1>4 DEF StackInv
<1>6. OrderInv'
  BY <1>1, <1>2, OrderInvSame
<1>7. CASE stack' = Passed(d) /\ UNCHANGED <<temporary, result>>
           /\ (d \in permanent \/ d \notin Dependents(x))
  <2>1. StackInv'
    BY <1>1, <1>2, <1>7, PassKeepsStack
  <2>2. result' = "running" /\ Symbols \ todo' \subseteq temporary'
    BY <1>1, <1>2, <1>7
  <2>3. QED
    BY <1>6, <2>1, <2>2 DEF SearchInv, RefusedOnlyIfCyclic
<1>8. CASE d \in Dependents(x) /\ d \in temporary \ permanent /\ result' = "null"
  <2>1. Cyclic
    BY <1>1, <1>2, <1>8, MetAgain
  <2>2. Cyclic'
    BY <1>1, <2>1, CyclicNext
  <2>3. QED
    BY <1>6, <1>8, <2>2 DEF SearchInv, RefusedOnlyIfCyclic
<1>9. CASE /\ d \in Dependents(x) /\ d \notin temporary /\ result' = result
           /\ temporary' = temporary \cup {d}
           /\ stack' = Append(Passed(d), [symbol |-> d, left |-> graph[d]])
  <2> DEFINE B == Passed(d)
  <2>1. /\ B \in Seq(Activation) /\ n = Len(B)
        /\ \A i \in 1..n : B[i].symbol = stack[i].symbol
        /\ \A i \in 1..(n - 1) : B[i] = stack[i]
        /\ B[n].left = stack[n].left \ {d}
    BY <1>1, PassedFacts
  <2>2. /\ \A i \in 1..n : i \in 1..(n - 1) \/ i = n
        /\ \A i \in 1..(n - 1) : i \in 1..n /\ i + 1 \in 1..n /\ i < n
    BY <1>4, Below
  <2>3. stack' = Append(B, [symbol |-> d, left |-> graph[d]])
    BY <1>9
  <2> HIDE DEF B
  <2>4. \A i \in 1..n : B[i].left \subseteq stack[i].left
    BY <2>1, <2>2
  <2>5. \A i \in 1..n : /\ B[i].symbol \in temporary \ permanent
                        /\ B[i].left \subseteq graph[B[i].symbol]
    BY <1>2, <2>1, <2>4 DEF StackInv
  <2>6. \A u \in temporary \ permanent : \E i \in 1..n : B[i].symbol = u
    BY <1>2, <2>1 DEF StackInv
  <2>7. \A i, j \in 1..n : B[i].symbol = B[j].symbol => i = j
    BY <1>2, <2>1 DEF StackInv
  <2>8. \A i \in 1..(n - 1) : B[i + 1].symbol \in Dependents(B[i].symbol)
    BY <1>2, <2>1, <2>2 DEF StackInv
  <2>9. d \in Dependents(B[n].symbol)
    BY <1>4, <1>9, <2>1
  <2>10. \A i \in 1..n : \A e \in Dependents(B[i].symbol) \ B[i].left :
           e \in permanent \/ (i < n /\ e = B[i + 1].symbol) \/ (i = n /\ e = d)
    <3> SUFFICES ASSUME NEW i \in 1..n, NEW e \in Dependents(stack[i].symbol) \ B[i].left
                 PROVE  e \in permanent \/ (i < n /\ e = B[i + 1].symbol) \/ (i = n /\ e = d)
      BY <2>1
    <3>1. CASE i \in 1..(n - 1)
      <4>1. e \in permanent \/ (i < n /\ e = stack[i + 1].symbol)
        BY <1>2, <2>1, <3>1 DEF StackInv
      <4>2. QED
        BY <2>1, <2>2, <3>1, <4>1
    <3>2. CASE i = n
      <4>1. e = d \/ e \notin stack[n].left
        BY <2>1, <3>2
      <4>2. QED
        BY <1>2, <1>4, <3>2, <4>1 DEF StackInv
    <3>3. QED
      BY <2>2, <3>1, <3>2
  <2>11. StackInv'
    <3>1. /\ graph' = graph /\ permanent' = permanent /\ temporary' = temporary \cup {d}
          /\ d \notin temporary /\ d \in Symbols /\ B \in Seq(Activation)
          /\ n \in Nat /\ n = Len(B)
      BY <1>1, <1>4, <1>9, <2>1
    <3> HIDE DEF n, x
    <3>2. QED
      <4>1. WaitingFor(B, n, d)
        BY ONLY <2>5, <2>6, <2>7, <2>8, <2>9, <2>10 DEF WaitingFor
      <4>2. QED
        BY ONLY TypeOK, <2>3, <3>1, <4>1, PushKeepsStack
  <2>12. result' = "running" /\ Symbols \ todo' \subseteq temporary'
    BY <1>1, <1>2, <1>9
  <2>13. QED
    BY <1>6, <2>11, <2>12 DEF SearchInv, RefusedOnlyIfCyclic
<1>10. QED
  <2>1. CASE d = x /\ d \in Typedefs
    <3>1. d \notin Dependents(x)
      BY <2>1 DEF Dependents
    <3>2. QED
      BY <1>3, <1>7, <2>1, <3>1
  <2>2. CASE ~(d = x /\ d \in Typedefs)
    <3>1. d \in Dependents(x)
      BY <1>5, <2>2 DEF Dependents
    <3>2. Visit(d, Passed(d))
      BY <1>3, <2>2
    <3>3. CASE d \in permanent
      BY <1>7, <3>2, <3>3 DEF Visit
    <3>4. CASE d \notin permanent /\ d \in temporary
      BY <1>8, <3>1, <3>2, <3>4 DEF Visit
    <3>5. CASE d \notin permanent /\ d \notin temporary
      BY <1>9, <3>1, <3>2, <3>5 DEF Visit
    <3>6. QED
      BY <3>3, <3>4, <3>5
  <2>3. QED
    BY <2>1, <2>2

\* The end of visit: the activation at the top has nothing left and waits for no
\* one, so that all its dependents are finished.
LEMMA FinishStep ==
  ASSUME TypeOK, SearchInv, Finish
  PROVE  SearchInv'
<1> DEFINE n == Len(stack)
           x == stack[n].symbol
<1>1. /\ result = "running" /\ stack # <<>> /\ graph' = graph /\ todo' = todo
      /\ temporary' = temporary /\ result' = result
      /\ stack[n].left = {}
      /\ permanent' = permanent \cup {x}
      /\ ordering' = <<x>> \o ordering
      /\ stack' = SubSeq(stack, 1, Len(stack) - 1)
  BY DEF Finish
<1>2. StackInv /\ OrderInv /\ Symbols \ todo \subseteq temporary
  BY <1>1 DEF SearchInv
<1>3. n \in Nat /\ n # 0 /\ n \in 1..n /\ x \in Symbols
  BY <1>1, TopFacts
<1>4. StackInv'
  BY <1>1, <1>2, PopKeepsStack
<1>5. Dependents(x) \subseteq permanent
  <2>1. \A d \in Dependents(x) \ {} : d \in permanent \/ n < n
    BY <1>1, <1>2, <1>3 DEF StackInv
  <2>2. QED
    BY <1>3, <2>1
<1>6. x \notin permanent
  BY <1>2, <1>3 DEF StackInv
<1>7. OrderInv'
  <2> HIDE DEF x, n
  <2>1. QED
    BY <1>1, <1>2, <1>3, <1>5, <1>6, FinishKeepsOrder
<1>8. result' = "running" /\ Symbols \ todo' \subseteq temporary'
  BY <1>1, <1>2
<1>9. QED
  BY <1>4, <1>7, <1>8 DEF SearchInv, RefusedOnlyIfCyclic

\* Every step keeps the invariant.
LEMMA SearchInvStep ==
  ASSUME TypeOK, SearchInv, [Next]_vars
  PROVE  SearchInv'
<1>1. CASE Return
  <2>1. StackInv /\ OrderInv /\ Symbols \subseteq temporary
    BY <1>1 DEF Return, SearchInv
  <2>2. Symbols \subseteq permanent
    BY <1>1, <2>1 DEF Return, StackInv
  <2>3. OrderInv'
    BY <1>1, <2>1, OrderInvSame DEF Return
  <2>4. QED
    BY <1>1, <2>2, <2>3 DEF Return, SearchInv, RefusedOnlyIfCyclic
<1>2. CASE Ended \/ UNCHANGED vars
  <2>1. UNCHANGED vars
    BY <1>2 DEF Ended
  <2>2. OrderInv' /\ (StackInv => StackInv') /\ (Cyclic => Cyclic')
    BY <2>1, OrderInvSame, StackInvSame, CyclicNext DEF vars, SearchInv
  <2>3. QED
    BY <2>1, <2>2 DEF vars, SearchInv, RefusedOnlyIfCyclic
<1>3. QED
  BY <1>1, <1>2, SymbolStep, DependentStep, FinishStep DEF Next

\* The inductive invariant of the search.
LEMMA SearchInductive == Spec => [](TypeOK /\ SearchInv)
<1>1. Init => TypeOK /\ SearchInv
  <2> SUFFICES ASSUME Init PROVE TypeOK /\ SearchInv
    OBVIOUS
  <2>1. TypeOK
    BY DEF Init, TypeOK
  <2>2. Len(stack) = 0 /\ Len(ordering) = 0 /\ 1..0 = {} /\ 1..(0 - 1) = {}
    BY DEF Init
  <2>3. StackInv /\ OrderInv
    BY <2>2 DEF Init, StackInv, OrderInv
  <2>4. QED
    BY <2>1, <2>3 DEF Init, SearchInv, RefusedOnlyIfCyclic
<1>2. (TypeOK /\ SearchInv) /\ [Next]_vars => (TypeOK /\ SearchInv)'
  BY TypeStep, SearchInvStep
<1>3. QED
  BY <1>1, <1>2, PTL DEF Spec

\* The variables of the search keep their types, and nothing is finished that was
\* not begun.
THEOREM SearchTypeCorrect == Spec => []TypeOK
  BY SearchInductive, PTL

\* The order that topologicalSort returns has every symbol of the table once, and
\* after everything it depends on, for every table and every iteration order.
THEOREM OrderSound == Spec => []OrderIsSound
<1>1. TypeOK /\ SearchInv => OrderIsSound
  <2> SUFFICES ASSUME TypeOK, SearchInv, result = "ordered"
               PROVE  /\ {ordering[i] : i \in DOMAIN ordering} = Symbols
                      /\ \A i, j \in DOMAIN ordering :
                           /\ ordering[i] = ordering[j] => i = j
                           /\ ordering[j] \in Dependents(ordering[i]) => i < j
    BY DEF OrderIsSound
  <2>0. permanent \subseteq Symbols /\ Symbols \subseteq permanent
    BY DEF SearchInv, TypeOK
  <2>1. OrderInv /\ permanent = Symbols /\ DOMAIN ordering = 1..Len(ordering)
    <3>1. permanent = Symbols
      BY <2>0
    <3>2. DOMAIN ordering = 1..Len(ordering)
      BY DEF TypeOK
    <3>3. QED
      BY <3>1, <3>2 DEF SearchInv
  <2>2. {ordering[i] : i \in DOMAIN ordering} = Symbols
    BY <2>1 DEF OrderInv
  <2>3. ASSUME NEW i \in 1..Len(ordering), NEW j \in 1..Len(ordering),
               ordering[j] \in Dependents(ordering[i])
        PROVE  i < j
    <3>1. PICK k \in 1..Len(ordering) : i < k /\ ordering[k] = ordering[j]
      BY <2>1, <2>3 DEF OrderInv
    <3>2. k = j
      BY <2>1, <3>1 DEF OrderInv
    <3>3. QED
      BY <3>1, <3>2
  <2>4. QED
    BY <2>1, <2>2, <2>3 DEF OrderInv
<1>2. QED
  BY <1>1, SearchInductive, PTL

\* A table is refused only if its symbols depend on each other in a circle.
THEOREM RefusedSound == Spec => []RefusedOnlyIfCyclic
<1>1. SearchInv => RefusedOnlyIfCyclic
  BY DEF SearchInv
<1>2. QED
  BY <1>1, SearchInductive, PTL

-----------------------------------------------------------------------------
\* A search that has ended has no activations left.
StackEmptied == result # "running" => stack = <<>>

LEMMA StackEmptiedInductive == Spec => []StackEmptied
<1>1. Init => StackEmptied
  BY DEF Init, StackEmptied
<1>2. StackEmptied /\ [Next]_vars => StackEmptied'
  BY DEF StackEmptied, Next, vars, VisitSymbol, VisitDependent, Visit, Finish, Return, Ended
<1>3. QED
  BY <1>1, <1>2, PTL DEF Spec

\* visit never recurses deeper than there are symbols: the activations have
\* distinct symbols, also in a graph with cycles.
THEOREM RecursionBounded == Spec => []DepthWithinSymbols
<1>1. TypeOK /\ SearchInv /\ StackEmptied => DepthWithinSymbols
  <2> SUFFICES ASSUME TypeOK, SearchInv, StackEmptied
               PROVE  Len(stack) <= Cardinality(Symbols)
    BY DEF DepthWithinSymbols
  <2>1. /\ IsFiniteSet(Symbols) /\ Cardinality(Symbols) \in Nat
        /\ Len(stack) \in Nat
    BY SymbolsAssumption, FS_CardinalityType DEF TypeOK
  <2>2. CASE stack = <<>>
    BY <2>1, <2>2
  <2>3. CASE result = "running"
    <3> DEFINE f == [i \in 1..Len(stack) |-> stack[i].symbol]
    <3>1. f \in [1..Len(stack) -> Symbols]
      <4>1. \A i \in 1..Len(stack) : stack[i] \in Activation
        BY DEF TypeOK
      <4>2. QED
        BY <4>1 DEF Activation
    <3>2. \A i, j \in 1..Len(stack) : f[i] = f[j] => i = j
      BY <2>3 DEF SearchInv, StackInv
    <3>3. IsFiniteSet(1..Len(stack)) /\ Cardinality(1..Len(stack)) = Len(stack)
      <4>1. Len(stack) \in Int /\ 1 \in Int
        BY <2>1
      <4>2. /\ IsFiniteSet(1..Len(stack))
            /\ Cardinality(1..Len(stack)) = IF 1 > Len(stack) THEN 0 ELSE Len(stack) - 1 + 1
        BY <4>1, FS_Interval
      <4>3. QED
        BY <2>1, <4>2
    <3> HIDE DEF f
    <3>4. ~(Cardinality(Symbols) < Cardinality(1..Len(stack)))
      BY <2>1, <3>1, <3>2, <3>3, FS_PigeonHole
    <3>5. QED
      BY <2>1, <3>3, <3>4
  <2>4. QED
    BY <2>2, <2>3 DEF StackEmptied
<1>2. QED
  BY <1>1, SearchInductive, StackEmptiedInductive, PTL

\* A set of positions has a last one.
LEMMA LastPosition ==
  ASSUME NEW n \in Nat, NEW I \in SUBSET (1..n), I # {}
  PROVE  \E i \in I : \A j \in I : j <= i
<1> DEFINE R == OpToRel(<, Nat)
           T == {n - i : i \in I}
<1>1. IsWellFoundedOn(R, Nat)
  BY NatLessThanWellFounded
<1>2. T \subseteq Nat /\ T # {}
  <2>1. \A i \in I : n - i \in Nat
    OBVIOUS
  <2>2. PICK i \in I : TRUE
    OBVIOUS
  <2>3. n - i \in T
    OBVIOUS
  <2>4. QED
    BY <2>1, <2>3
<1>3. PICK x \in T : \A y \in T : ~(<<y, x>> \in R)
  <2> HIDE DEF R, T
  <2>1. QED
    BY <1>1, <1>2, WFMin
<1>4. PICK i \in I : x = n - i
  BY <1>3
<1>5. ASSUME NEW j \in I PROVE j <= i
  <2>1. n - j \in T /\ n - j \in Nat /\ x \in Nat
    BY <1>2
  <2>2. ~(<<n - j, x>> \in R)
    BY <1>3, <2>1
  <2>3. ~(n - j < x)
    BY <2>1, <2>2 DEF OpToRel
  <2>4. QED
    BY <1>4, <2>3
<1>6. QED
  BY <1>5

\* A table whose symbols depend on each other in a circle is never given an order:
\* the last of them in it would have a dependent behind it.
THEOREM CyclicRefused == Spec => [](result = "ordered" => ~Cyclic)
<1>1. TypeOK /\ SearchInv => (result = "ordered" => ~Cyclic)
  <2> SUFFICES ASSUME TypeOK, SearchInv, result = "ordered",
                      NEW C \in SUBSET Symbols, C # {}, \A s \in C : Dependents(s) \cap C # {}
               PROVE  FALSE
    BY DEF Cyclic
  <2> DEFINE I == {i \in 1..Len(ordering) : ordering[i] \in C}
  <2>1. OrderInv /\ Symbols \subseteq permanent /\ Len(ordering) \in Nat
    BY DEF SearchInv, TypeOK
  <2>2. I \in SUBSET (1..Len(ordering)) /\ I # {}
    BY <2>1 DEF OrderInv
  <2>3. PICK i \in I : \A j \in I : j <= i
    <3> HIDE DEF I
    <3>1. QED
      BY <2>1, <2>2, LastPosition
  <2>4. PICK d \in C : d \in Dependents(ordering[i])
    OBVIOUS
  <2>5. PICK j \in 1..Len(ordering) : i < j /\ ordering[j] = d
    BY <2>1, <2>4 DEF OrderInv
  <2>6. QED
    BY <2>3, <2>4, <2>5
<1>2. QED
  BY <1>1, SearchInductive, PTL
=============================================================================
