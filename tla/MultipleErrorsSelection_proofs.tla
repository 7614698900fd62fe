-------------------- MODULE MultipleErrorsSelection_proofs --------------------
(***************************************************************************)
(* Proofs about MultipleErrorsSelection, for reports of any length: what   *)
(* the loops leave, although they shorten the list they walk over; that    *)
(* they come to an end; and so what the strategies of DiagnosticSelection  *)
(* return.                                                                 *)
(***************************************************************************)
EXTENDS MultipleErrorsSelection, SequenceTheorems, WellFoundedInduction, TLAPS

\* A list of indices of a report of n diagnostics, in its order.
Ordered(s, n) == s \in Seq(1..n) /\ Increasing(s)

LEMMA ToSetIn ==
  ASSUME NEW S, NEW s \in Seq(S)
  PROVE  ToSet(s) \subseteq S
<1>1. DOMAIN s = 1..Len(s) /\ \A p \in 1..Len(s) : s[p] \in S
  BY LenProperties, ElementOfSeq
<1>2. QED
  BY <1>1 DEF ToSet

\* Taking an entry out of a list.
LEMMA RemoveAtFacts ==
  ASSUME NEW S, NEW s \in Seq(S), NEW p \in 1..Len(s)
  PROVE  /\ RemoveAt(s, p) \in Seq(S)
         /\ Len(RemoveAt(s, p)) = Len(s) - 1
         /\ \A q \in 1..(Len(s) - 1) : RemoveAt(s, p)[q] = IF q < p THEN s[q] ELSE s[q + 1]
<1> DEFINE a == SubSeq(s, 1, p - 1)
           b == SubSeq(s, p + 1, Len(s))
<1>1. Len(s) \in Nat /\ p \in Nat /\ p <= Len(s) /\ 1 <= p
  OBVIOUS
<1>2. /\ a \in Seq(S) /\ Len(a) = p - 1
      /\ \A q \in 1..(p - 1) : a[q] = s[q]
  BY <1>1
<1>3. /\ b \in Seq(S) /\ Len(b) = Len(s) - p
      /\ \A q \in 1..(Len(s) - p) : b[q] = s[p + q]
  BY <1>1
<1> HIDE DEF a, b
<1>4. /\ a \o b \in Seq(S) /\ Len(a \o b) = Len(a) + Len(b)
      /\ \A q \in 1..(Len(a) + Len(b)) :
           (a \o b)[q] = IF q <= Len(a) THEN a[q] ELSE b[q - Len(a)]
  BY <1>2, <1>3, ConcatProperties
<1>5. RemoveAt(s, p) = a \o b
  BY DEF RemoveAt, a, b
<1> DEFINE c == a \o b
<1>6. c \in Seq(S) /\ Len(c) = Len(s) - 1
  BY <1>1, <1>2, <1>3, <1>4
<1>7. \A q \in 1..(Len(s) - 1) : c[q] = IF q <= p - 1 THEN a[q] ELSE b[q - (p - 1)]
  BY <1>1, <1>2, <1>3, <1>4
<1> HIDE DEF c
<1>8. ASSUME NEW q \in 1..(Len(s) - 1)
      PROVE  c[q] = IF q < p THEN s[q] ELSE s[q + 1]
  <2>1. CASE q < p
    <3>1. q <= p - 1 /\ q \in 1..(p - 1)
      BY <1>1, <2>1
    <3>2. QED
      BY <1>2, <1>7, <2>1, <3>1
  <2>2. CASE ~(q < p)
    <3>1. q - (p - 1) \in 1..(Len(s) - p) /\ p + (q - (p - 1)) = q + 1 /\ ~(q <= p - 1)
      BY <1>1, <2>2
    <3>2. QED
      BY <1>3, <1>7, <2>2, <3>1
  <2>3. QED
    BY <2>1, <2>2
<1>9. RemoveAt(s, p) = c
  BY <1>5 DEF c
<1>10. QED
  BY <1>6, <1>8, <1>9

\* It stays in order and loses that entry.
LEMMA RemoveAtKeepsOrder ==
  ASSUME NEW n \in Nat, NEW s, Ordered(s, n), NEW p \in 1..Len(s)
  PROVE  /\ Ordered(RemoveAt(s, p), n)
         /\ ToSet(RemoveAt(s, p)) = ToSet(s) \ {s[p]}
<1> DEFINE o == RemoveAt(s, p)
<1>1. /\ o \in Seq(1..n) /\ Len(o) = Len(s) - 1
      /\ \A q \in 1..(Len(s) - 1) : o[q] = IF q < p THEN s[q] ELSE s[q + 1]
  BY RemoveAtFacts DEF Ordered
<1> HIDE DEF o
<1>2. /\ Len(s) \in Nat /\ DOMAIN s = 1..Len(s) /\ DOMAIN o = 1..(Len(s) - 1)
      /\ \A q \in 1..Len(s) : s[q] \in 1..n
      /\ \A q, t \in 1..Len(s) : q < t => s[q] < s[t]
  <2>1. s \in Seq(1..n) /\ Increasing(s)
    BY DEF Ordered
  <2>2. Len(s) \in Nat /\ DOMAIN s = 1..Len(s) /\ \A q \in 1..Len(s) : s[q] \in 1..n
    BY <2>1, LenProperties, ElementOfSeq
  <2>3. DOMAIN o = 1..(Len(s) - 1)
    BY <1>1, LenProperties
  <2>4. QED
    BY <2>1, <2>2, <2>3 DEF Increasing
<1>3. Increasing(o)
  <2> SUFFICES ASSUME NEW q \in 1..(Len(s) - 1), NEW t \in 1..(Len(s) - 1), q < t
               PROVE  o[q] < o[t]
    BY <1>2 DEF Increasing
  <2>1. q \in 1..Len(s) /\ t \in 1..Len(s) /\ q + 1 \in 1..Len(s) /\ t + 1 \in 1..Len(s)
        /\ q < t + 1 /\ q + 1 < t + 1
    BY <1>2
  <2>2. s[q] < s[t] /\ s[q] < s[t + 1] /\ s[q + 1] < s[t + 1]
    BY <1>2, <2>1
  <2>3. ~(t < p) \/ q < p
    BY <1>2, <2>1
  <2>4. QED
    BY <1>1, <2>2, <2>3
<1>4. ToSet(o) \subseteq ToSet(s) \ {s[p]}
  <2> SUFFICES ASSUME NEW q \in 1..(Len(s) - 1) PROVE o[q] \in ToSet(s) \ {s[p]}
    BY <1>2 DEF ToSet
  <2>1. PICK t \in 1..Len(s) : t # p /\ o[q] = s[t]
    <3>1. q \in 1..Len(s) /\ q + 1 \in 1..Len(s)
      BY <1>2
    <3>2. CASE q < p
      <4>1. o[q] = s[q] /\ q # p
        BY <1>1, <3>2
      <4>2. QED
        BY <3>1, <4>1
    <3>3. CASE ~(q < p)
      <4>1. o[q] = s[q + 1]
        BY <1>1, <3>3
      <4>2. q + 1 # p
        BY <1>2, <3>3
      <4>3. QED
        BY <3>1, <4>1, <4>2
    <3>4. QED
      BY <3>2, <3>3
  <2>2. s[t] # s[p]
    BY <1>2, <2>1
  <2>3. QED
    BY <1>2, <2>1, <2>2 DEF ToSet
<1>5. ToSet(s) \ {s[p]} \subseteq ToSet(o)
  <2> SUFFICES ASSUME NEW t \in 1..Len(s), t # p PROVE \E q \in 1..(Len(s) - 1) : o[q] = s[t]
    BY <1>2 DEF ToSet
  <2>1. CASE t < p
    <3>1. t \in 1..(Len(s) - 1)
      BY <1>2, <2>1
    <3>2. QED
      BY <1>1, <2>1, <3>1
  <2>2. CASE ~(t < p)
    <3>1. t - 1 \in 1..(Len(s) - 1) /\ ~(t - 1 < p) /\ (t - 1) + 1 = t
      BY <1>2, <2>2
    <3>2. o[t - 1] = s[t]
      BY <1>1, <3>1
    <3>3. QED
      BY <3>1, <3>2
  <2>3. QED
    BY <2>1, <2>2
<1>6. QED
  BY <1>1, <1>3, <1>4, <1>5 DEF Ordered, o

-----------------------------------------------------------------------------
\* Induction up to n: a set that has 0 and the successor of each of its numbers
\* below n has all of them.
LEMMA UpToInduction ==
  ASSUME NEW n \in Nat, NEW K, 0 \in K, \A k \in 0..n : k \in K /\ k < n => k + 1 \in K
  PROVE  \A k \in 0..n : k \in K
<1> DEFINE R == OpToRel(<, Nat)
           T == {k \in 0..n : k \notin K}
<1> SUFFICES ASSUME T # {} PROVE FALSE
  OBVIOUS
<1>1. IsWellFoundedOn(R, Nat)
  BY NatLessThanWellFounded
<1>2. T \subseteq Nat
  OBVIOUS
<1>3. PICK x \in T : \A y \in T : ~(<<y, x>> \in R)
  <2> HIDE DEF R, T
  <2>1. QED
    BY <1>1, <1>2, WFMin
<1>4. x \in 0..n /\ x \notin K /\ x # 0
  OBVIOUS
<1>5. x - 1 \in 0..n /\ x - 1 < n /\ x - 1 \in Nat /\ x \in Nat /\ (x - 1) + 1 = x
  BY <1>4
<1>6. x - 1 \notin K
  BY <1>4, <1>5
<1>7. <<x - 1, x>> \in R
  BY <1>5 DEF OpToRel
<1>8. QED
  BY <1>3, <1>5, <1>6, <1>7

\* A nonempty set of numbers has a least one.
LEMMA LeastNumber ==
  ASSUME NEW E \in SUBSET Nat, E # {}
  PROVE  \E m \in E : \A e \in E : m <= e
<1> DEFINE R == OpToRel(<, Nat)
<1>1. IsWellFoundedOn(R, Nat)
  BY NatLessThanWellFounded
<1>2. PICK m \in E : \A e \in E : ~(<<e, m>> \in R)
  <2> HIDE DEF R
  <2>1. QED
    BY <1>1, WFMin
<1>3. ASSUME NEW e \in E PROVE m <= e
  <2>1. m \in Nat /\ e \in Nat
    OBVIOUS
  <2>2. ~(e < m)
    BY <1>2, <2>1 DEF OpToRel
  <2>3. QED
    BY <2>1, <2>2
<1>4. QED
  BY <1>3

\* u has what getDiagIdxs has collected after each diagnostic of the report.
Collects(u, r, ids) ==
  u = [n \in 0..Len(r) |-> IF n = 0 THEN <<>>
                           ELSE IF r[n].id \in ids THEN Append(u[n - 1], n) ELSE u[n - 1]]

\* There is such a function.
LEMMA CollectsExists ==
  ASSUME NEW T, NEW r \in Seq(T), NEW ids
  PROVE  \E u : Collects(u, r, ids)
<1> DEFINE N == Len(r)
           V == Seq(1..N)
           More(v, n) == IF r[n].id \in ids THEN Append(v, n) ELSE v
           K == {k \in 0..N : \E u \in [0..N -> V] :
                                u[0] = <<>> /\ \A n \in 1..k : u[n] = More(u[n - 1], n)}
<1>0. N \in Nat /\ <<>> \in V
  BY LenProperties, EmptySeq
<1>a. \A v \in V, n \in 1..N : More(v, n) \in V
  BY AppendProperties
<1> HIDE DEF N, V, More
<1>1. 0 \in K
  <2> DEFINE z == [n \in 0..N |-> <<>>]
  <2>1. z \in [0..N -> V] /\ z[0] = <<>> /\ 0 \in 0..N /\ 1..0 = {}
    BY <1>0
  <2>2. QED
    BY <2>1
<1>2. ASSUME NEW k \in 0..N, k \in K, k < N PROVE k + 1 \in K
  <2>1. PICK u \in [0..N -> V] : u[0] = <<>> /\ \A n \in 1..k : u[n] = More(u[n - 1], n)
    BY <1>2
  <2>2. /\ k \in Nat /\ k + 1 \in 0..N /\ k + 1 \in 1..N /\ k + 1 # 0
        /\ \A n \in 1..(k + 1) : (n \in 1..k \/ n = k + 1) /\ n \in 0..N /\ n - 1 \in 0..N /\ n - 1 # k + 1
        /\ \A n \in 1..k : n # k + 1
    BY <1>0, <1>2
  <2> DEFINE w == [u EXCEPT ![k + 1] = More(u[k], k + 1)]
  <2>3. w \in [0..N -> V]
    BY <1>a, <2>2
  <2>4. w[k + 1] = More(u[k], k + 1) /\ \A n \in 0..N : n # k + 1 => w[n] = u[n]
    BY <2>2
  <2> HIDE DEF w
  <2>5. w[0] = <<>>
    BY <1>0, <2>1, <2>2, <2>4
  <2>6. ASSUME NEW n \in 1..(k + 1) PROVE w[n] = More(w[n - 1], n)
    <3>1. w[n - 1] = u[n - 1]
      BY <2>2, <2>4
    <3>2. CASE n \in 1..k
      BY <2>1, <2>2, <2>4, <3>1, <3>2
    <3>3. CASE n = k + 1
      <4>1. n - 1 = k
        BY <2>2, <3>3
      <4>2. QED
        BY <2>4, <3>1, <3>3, <4>1
    <3>4. QED
      BY <2>2, <3>2, <3>3
  <2>7. QED
    BY <2>2, <2>3, <2>5, <2>6
<1>3. N \in K
  <2> HIDE DEF K
  <2>1. \A k \in 0..N : k \in K
    BY <1>0, <1>1, <1>2, UpToInduction
  <2>2. QED
    BY <1>0, <2>1
<1>4. PICK u \in [0..N -> V] : u[0] = <<>> /\ \A n \in 1..N : u[n] = More(u[n - 1], n)
  BY <1>3
<1>5. \A n \in 0..N : u[n] = IF n = 0 THEN <<>> ELSE More(u[n - 1], n)
  BY <1>0, <1>4
<1>6. u = [n \in 0..N |-> IF n = 0 THEN <<>> ELSE More(u[n - 1], n)]
  BY <1>5
<1>7. Collects(u, r, ids)
  BY <1>6 DEF Collects, N, More
<1>8. QED
  BY <1>7

\* getDiagIdxs returns the diagnostics with one of the ids, in the order of the report.
LEMMA DiagIdxs ==
  ASSUME NEW T, NEW r \in Seq(T), NEW ids
  PROVE  /\ Ordered(GetDiagIdxs(r, ids), Len(r))
         /\ ToSet(GetDiagIdxs(r, ids)) = {n \in 1..Len(r) : r[n].id \in ids}
<1> DEFINE N == Len(r)
           u == CHOOSE u : Collects(u, r, ids)
           Has(n) == {m \in 1..n : r[m].id \in ids}
           K == {k \in 0..N : Ordered(u[k], N) /\ ToSet(u[k]) = Has(k)}
<1>0. N \in Nat
  BY LenProperties
<1>1. Collects(u, r, ids)
  BY CollectsExists
<1>2. GetDiagIdxs(r, ids) = u[N]
  BY DEF GetDiagIdxs, Collects
<1> HIDE DEF u, N
<1>3. \A n \in 0..N : u[n] = IF n = 0 THEN <<>>
                             ELSE IF r[n].id \in ids THEN Append(u[n - 1], n) ELSE u[n - 1]
  BY <1>1 DEF Collects, N
<1>4. 0 \in K
  <2>1. u[0] = <<>> /\ 0 \in 0..N
    BY <1>0, <1>3
  <2>2. Ordered(<<>>, N) /\ ToSet(<<>>) = {}
    BY EmptySeq DEF Ordered, Increasing, ToSet
  <2>3. QED
    BY <2>1, <2>2
<1>5. ASSUME NEW k \in 0..N, k \in K, k < N PROVE k + 1 \in K
  <2>1. k \in Nat /\ k + 1 \in 0..N /\ k + 1 \in 1..N /\ k + 1 # 0 /\ (k + 1) - 1 = k
    BY <1>0, <1>5
  <2>2. u[k + 1] = IF r[k + 1].id \in ids THEN Append(u[k], k + 1) ELSE u[k]
    BY <1>3, <2>1
  <2>3. Ordered(u[k], N) /\ ToSet(u[k]) = Has(k)
    BY <1>5
  <2>4. Has(k + 1) = Has(k) \cup (IF r[k + 1].id \in ids THEN {k + 1} ELSE {})
    BY <2>1
  <2>5. CASE r[k + 1].id \notin ids
    BY <2>1, <2>2, <2>3, <2>4, <2>5
  <2>6. CASE r[k + 1].id \in ids
    <3> DEFINE v == u[k]
               w == Append(v, k + 1)
    <3> HIDE DEF v
    <3>1. v \in Seq(1..N) /\ Increasing(v) /\ ToSet(v) = Has(k)
      BY <2>3 DEF Ordered, v
    <3>2. /\ Len(v) \in Nat /\ DOMAIN v = 1..Len(v)
          /\ w \in Seq(1..N) /\ Len(w) = Len(v) + 1
          /\ \A m \in 1..Len(v) : w[m] = v[m]
          /\ w[Len(v) + 1] = k + 1
      BY <2>1, <3>1, LenProperties, AppendProperties
    <3> HIDE DEF w
    <3>3. DOMAIN w = 1..(Len(v) + 1)
      BY <3>2, LenProperties
    <3>4. \A m \in 1..Len(v) : v[m] \in 1..k
      BY <3>1, <3>2 DEF ToSet
    <3>5. Increasing(w)
      <4> SUFFICES ASSUME NEW m \in 1..(Len(v) + 1), NEW o \in 1..(Len(v) + 1), m < o
                   PROVE  w[m] < w[o]
        BY <3>3 DEF Increasing
      <4>1. m \in 1..Len(v) /\ (o \in 1..Len(v) \/ o = Len(v) + 1)
        BY <3>2
      <4>2. CASE o \in 1..Len(v)
        BY <3>1, <3>2, <4>1, <4>2 DEF Increasing
      <4>3. CASE o = Len(v) + 1
        <5>1. w[m] \in 1..k /\ w[o] = k + 1
          BY <3>2, <3>4, <4>1, <4>3
        <5>2. QED
          BY <2>1, <5>1
      <4>4. QED
        BY <4>1, <4>2, <4>3
    <3>6. ToSet(w) = ToSet(v) \cup {k + 1}
      <4>1. \A m : m \in 1..(Len(v) + 1) <=> m \in 1..Len(v) \/ m = Len(v) + 1
        BY <3>2
      <4>2. QED
        BY <3>2, <3>3, <4>1 DEF ToSet
    <3>7. u[k + 1] = w
      BY <2>2, <2>6 DEF v, w
    <3>8. Ordered(u[k + 1], N)
      BY <3>2, <3>5, <3>7 DEF Ordered
    <3>9. ToSet(u[k + 1]) = Has(k + 1)
      BY <2>4, <2>6, <3>1, <3>6, <3>7
    <3>10. QED
      BY <2>1, <3>8, <3>9
  <2>7. QED
    BY <2>5, <2>6
<1>6. \A k \in 0..N : k \in K
  <2> HIDE DEF K
  <2>1. QED
    BY <1>0, <1>4, <1>5, UpToInduction
<1>7. Ordered(u[N], N) /\ ToSet(u[N]) = Has(N)
  BY <1>0, <1>6
<1>8. QED
  BY <1>2, <1>7 DEF N

-----------------------------------------------------------------------------
\* A loop over a list of indices of a report of n diagnostics.
LoopOf(l, n) ==
  /\ l \in Loops(n)
  /\ Ordered(l.list, n)

\* A step from l to o of a loop whose inner loop starts at from and in which x
\* removes the diagnostics rel[x].
StepOf(l, o, rel, from) ==
  \/ /\ l.kept = NoDiag /\ l.i < Len(l.list)
     /\ o = [l EXCEPT !.kept = l.list[l.i], !.j = from]
  \/ /\ l.kept # NoDiag /\ l.j > Len(l.list)
     /\ o = [l EXCEPT !.kept = NoDiag, !.i = l.i + 1]
  \/ /\ l.kept # NoDiag /\ l.j <= Len(l.list)
     /\ l.j # l.i /\ l.list[l.j] \in rel[l.kept]
     /\ o = [l EXCEPT !.list = RemoveAt(l.list, l.j)]
  \/ /\ l.kept # NoDiag /\ l.j <= Len(l.list)
     /\ l.j = l.i \/ l.list[l.j] \notin rel[l.kept]
     /\ o = [l EXCEPT !.j = l.j + 1]

\* Whatever a loop compares, a step takes out at most a diagnostic that the kept
\* one removes.
LEMMA StepKeepsLoop ==
  ASSUME NEW n \in Nat, NEW l, NEW o, NEW rel, NEW from \in Nat \ {0},
         LoopOf(l, n), StepOf(l, o, rel, from)
  PROVE  /\ LoopOf(o, n)
         /\ \/ ToSet(o.list) = ToSet(l.list)
            \/ \E y \in ToSet(l.list) : /\ l.kept # NoDiag /\ y \in rel[l.kept]
                                        /\ ToSet(o.list) = ToSet(l.list) \ {y}
<1>1. /\ l \in [list : Seq(1..n), i : Nat \ {0}, j : Nat \ {0}, kept : 0..n]
      /\ Ordered(l.list, n) /\ l.list \in Seq(1..n)
      /\ l.i \in Nat \ {0} /\ l.j \in Nat \ {0} /\ l.kept \in 0..n
  BY DEF LoopOf, Loops
<1>2. Len(l.list) \in Nat /\ DOMAIN l.list = 1..Len(l.list)
  BY <1>1, LenProperties
<1>3. CASE l.kept = NoDiag /\ l.i < Len(l.list)
           /\ o = [l EXCEPT !.kept = l.list[l.i], !.j = from]
  <2>1. l.list[l.i] \in 0..n
    <3>1. l.i \in 1..Len(l.list)
      BY <1>1, <1>2, <1>3
    <3>2. l.list[l.i] \in 1..n
      BY <1>1, <3>1, ElementOfSeq
    <3>3. QED
      BY <3>2
  <2>2. QED
    BY <1>1, <1>3, <2>1 DEF LoopOf, Loops
<1>4. CASE l.kept # NoDiag /\ l.j > Len(l.list)
           /\ o = [l EXCEPT !.kept = NoDiag, !.i = l.i + 1]
  <2>1. /\ o.list = l.list
        /\ o \in [list : Seq(1..n), i : Nat \ {0}, j : Nat \ {0}, kept : 0..n]
    <3>1. l.i + 1 \in Nat \ {0} /\ NoDiag \in 0..n
      BY <1>1 DEF NoDiag
    <3>2. QED
      BY <1>1, <1>4, <3>1
  <2>2. QED
    BY <1>1, <2>1 DEF LoopOf, Loops
<1>5. CASE l.kept # NoDiag /\ l.j <= Len(l.list) /\ l.list[l.j] \in rel[l.kept]
           /\ o = [l EXCEPT !.list = RemoveAt(l.list, l.j)]
  <2>1. l.j \in 1..Len(l.list)
    BY <1>1, <1>2, <1>5
  <2>2. /\ Ordered(RemoveAt(l.list, l.j), n)
        /\ ToSet(RemoveAt(l.list, l.j)) = ToSet(l.list) \ {l.list[l.j]}
    BY <1>1, <2>1, RemoveAtKeepsOrder
  <2>3. l.list[l.j] \in ToSet(l.list)
    BY <1>2, <2>1 DEF ToSet
  <2>4. o.list = RemoveAt(l.list, l.j) /\ LoopOf(o, n)
    BY <1>1, <1>5, <2>2 DEF LoopOf, Loops, Ordered
  <2>5. QED
    BY <1>5, <2>2, <2>3, <2>4
<1>6. CASE o = [l EXCEPT !.j = l.j + 1]
  <2>1. /\ o.list = l.list
        /\ o \in [list : Seq(1..n), i : Nat \ {0}, j : Nat \ {0}, kept : 0..n]
    <3>1. l.j + 1 \in Nat \ {0}
      BY <1>1
    <3>2. QED
      BY <1>1, <1>6, <3>1
  <2>2. QED
    BY <1>1, <2>1 DEF LoopOf, Loops
<1>7. QED
  BY <1>3, <1>4, <1>5, <1>6 DEF StepOf

\* When what is compared is symmetric, nothing before i is like anything behind it;
\* so the kept diagnostic stays at i, and all that is taken out is behind it.
Settled(l, rel) ==
  /\ \A p, q \in DOMAIN l.list : p < q /\ p < l.i => l.list[q] \notin rel[l.list[p]]
  /\ l.kept # NoDiag =>
       /\ l.i \in DOMAIN l.list /\ l.kept = l.list[l.i]
       /\ \A q \in DOMAIN l.list : l.i < q /\ q < l.j => l.list[q] \notin rel[l.kept]

LEMMA StepSettles ==
  ASSUME NEW n \in Nat, NEW l, NEW o, NEW rel, NEW from \in {1, l.i + 1},
         \A x, y \in 1..n : y \in rel[x] => x \in rel[y],
         LoopOf(l, n), StepOf(l, o, rel, from), Settled(l, rel)
  PROVE  /\ Settled(o, rel)
         /\ \/ ToSet(o.list) = ToSet(l.list)
            \/ \E x \in ToSet(o.list), y \in ToSet(l.list) :
                 x < y /\ y \in rel[x] /\ ToSet(o.list) = ToSet(l.list) \ {y}
<1>1. /\ l \in [list : Seq(1..n), i : Nat \ {0}, j : Nat \ {0}, kept : 0..n]
      /\ Ordered(l.list, n) /\ l.list \in Seq(1..n) /\ Increasing(l.list)
      /\ l.i \in Nat \ {0} /\ l.j \in Nat \ {0} /\ l.kept \in 0..n
  BY DEF LoopOf, Loops, Ordered
<1>2. Len(l.list) \in Nat /\ DOMAIN l.list = 1..Len(l.list)
      /\ \A p \in 1..Len(l.list) : l.list[p] \in 1..n
  BY <1>1, LenProperties, ElementOfSeq
<1>3. CASE l.kept = NoDiag /\ l.i < Len(l.list)
           /\ o = [l EXCEPT !.kept = l.list[l.i], !.j = from]
  <2>1. l.i \in DOMAIN l.list
    BY <1>1, <1>2, <1>3
  <2>2. o.list = l.list /\ o.i = l.i /\ o.kept = l.list[l.i] /\ o.j \in {1, l.i + 1}
    BY <1>1, <1>3
  <2>3. ~\E q \in DOMAIN l.list : l.i < q /\ q < o.j
    BY <1>1, <1>2, <2>2
  <2>4. QED
    BY <2>1, <2>2, <2>3 DEF Settled
<1>4. CASE l.kept # NoDiag /\ l.j > Len(l.list)
           /\ o = [l EXCEPT !.kept = NoDiag, !.i = l.i + 1]
  <2>1. o.list = l.list /\ o.i = l.i + 1 /\ o.kept = NoDiag
    BY <1>1, <1>4
  <2>2. \A p \in DOMAIN l.list : p < l.i + 1 => p < l.i \/ p = l.i
    BY <1>1, <1>2
  <2>3. \A q \in DOMAIN l.list : q < l.j
    BY <1>1, <1>2, <1>4
  <2>4. QED
    BY <1>4, <2>1, <2>2, <2>3 DEF Settled
<1>5. CASE l.kept # NoDiag /\ l.j <= Len(l.list) /\ l.j # l.i /\ l.list[l.j] \in rel[l.kept]
           /\ o = [l EXCEPT !.list = RemoveAt(l.list, l.j)]
  <2> DEFINE s == RemoveAt(l.list, l.j)
  <2>1. l.j \in 1..Len(l.list) /\ l.i \in 1..Len(l.list) /\ l.kept = l.list[l.i]
    BY <1>1, <1>2, <1>5 DEF Settled
  <2>2. l.i < l.j
    <3>1. l.list[l.i] \in rel[l.list[l.j]]
      BY <1>2, <1>5, <2>1
    <3>2. ~(l.j < l.i)
      BY <1>2, <2>1, <3>1 DEF Settled
    <3>3. QED
      BY <1>1, <1>5, <3>2
  <2>3. /\ o.list = s /\ o.i = l.i /\ o.j = l.j /\ o.kept = l.kept
        /\ s \in Seq(1..n) /\ Len(s) = Len(l.list) - 1
        /\ \A q \in 1..(Len(l.list) - 1) : s[q] = IF q < l.j THEN l.list[q] ELSE l.list[q + 1]
        /\ ToSet(s) = ToSet(l.list) \ {l.list[l.j]}
    <3>1. o.list = s /\ o.i = l.i /\ o.j = l.j /\ o.kept = l.kept
      BY <1>1, <1>5
    <3>2. ToSet(s) = ToSet(l.list) \ {l.list[l.j]}
      BY <1>1, <2>1, RemoveAtKeepsOrder
    <3>3. /\ s \in Seq(1..n) /\ Len(s) = Len(l.list) - 1
          /\ \A q \in 1..(Len(l.list) - 1) : s[q] = IF q < l.j THEN l.list[q] ELSE l.list[q + 1]
      <4> DEFINE list == l.list
                 j == l.j
      <4>1. list \in Seq(1..n) /\ j \in 1..Len(list)
        BY <1>1, <2>1
      <4> HIDE DEF list, j
      <4>2. /\ RemoveAt(list, j) \in Seq(1..n) /\ Len(RemoveAt(list, j)) = Len(list) - 1
            /\ \A q \in 1..(Len(list) - 1) :
                 RemoveAt(list, j)[q] = IF q < j THEN list[q] ELSE list[q + 1]
        BY <4>1, RemoveAtFacts
      <4>3. QED
        BY <4>2 DEF list, j
    <3>4. QED
      BY <3>1, <3>2, <3>3
  <2> HIDE DEF s
  <2>4. DOMAIN s = 1..(Len(l.list) - 1)
    BY <2>3, LenProperties
  <2>5. l.i \in DOMAIN s /\ s[l.i] = l.kept
    <3>1. l.i \in 1..(Len(l.list) - 1)
      BY <1>1, <1>2, <2>1, <2>2
    <3>2. s[l.i] = l.list[l.i]
      BY <2>2, <2>3, <3>1
    <3>3. QED
      BY <2>1, <2>4, <3>1, <3>2
  <2>6. ASSUME NEW p \in DOMAIN s, NEW q \in DOMAIN s, p < q, p < l.i
        PROVE  s[q] \notin rel[s[p]]
    <3>1. s[p] = l.list[p] /\ p \in 1..Len(l.list)
      <4>1. p \in 1..(Len(l.list) - 1) /\ p < l.j /\ p \in 1..Len(l.list)
        BY <1>1, <1>2, <2>2, <2>4, <2>6
      <4>2. QED
        BY <2>3, <4>1
    <3>2. PICK t \in 1..Len(l.list) : p < t /\ s[q] = l.list[t]
      <4>1. q \in 1..Len(l.list) /\ q + 1 \in 1..Len(l.list) /\ p < q + 1
        BY <1>2, <2>4, <2>6
      <4>2. QED
        BY <2>3, <2>4, <2>6, <4>1
    <3>3. QED
      BY <1>2, <2>6, <3>1, <3>2 DEF Settled
  <2>7. ASSUME NEW q \in DOMAIN s, l.i < q, q < l.j PROVE s[q] \notin rel[l.kept]
    <3>1. s[q] = l.list[q] /\ q \in DOMAIN l.list
      <4>1. q \in 1..(Len(l.list) - 1) /\ q \in 1..Len(l.list)
        BY <1>2, <2>4
      <4>2. QED
        BY <1>2, <2>3, <2>7, <4>1
    <3>2. QED
      BY <1>5, <2>7, <3>1 DEF Settled
  <2>8. Settled(o, rel)
    BY <2>3, <2>5, <2>6, <2>7 DEF Settled
  <2>9. l.kept \in ToSet(s) /\ l.list[l.j] \in ToSet(l.list) /\ l.kept < l.list[l.j]
    BY <1>1, <1>2, <2>1, <2>2, <2>5 DEF ToSet, Increasing
  <2>10. QED
    BY <1>5, <2>3, <2>8, <2>9
<1>6. CASE l.kept # NoDiag /\ l.j <= Len(l.list)
           /\ (l.j = l.i \/ l.list[l.j] \notin rel[l.kept])
           /\ o = [l EXCEPT !.j = l.j + 1]
  <2>1. o.list = l.list /\ o.i = l.i /\ o.kept = l.kept /\ o.j = l.j + 1
    BY <1>1, <1>6
  <2>2. \A q \in DOMAIN l.list : q < l.j + 1 => q < l.j \/ q = l.j
    BY <1>1, <1>2
  <2>3. \A q \in DOMAIN l.list : l.i < q /\ q < l.j + 1 => l.list[q] \notin rel[l.kept]
    BY <1>1, <1>2, <1>6, <2>2 DEF Settled
  <2>4. QED
    BY <1>6, <2>1, <2>3 DEF Settled
<1>7. QED
  BY <1>3, <1>4, <1>5, <1>6 DEF StepOf

\* At the end of such a loop no two of the list are alike.
LEMMA SettledAtEnd ==
  ASSUME NEW n \in Nat, NEW l, NEW rel, LoopOf(l, n), Settled(l, rel), AtEnd(l)
  PROVE  \A x, y \in ToSet(l.list) : x < y => y \notin rel[x]
<1>1. /\ l.list \in Seq(1..n) /\ Increasing(l.list) /\ l.i \in Nat \ {0} /\ l.i >= Len(l.list)
  BY DEF LoopOf, Loops, Ordered, AtEnd
<1>2. Len(l.list) \in Nat /\ DOMAIN l.list = 1..Len(l.list)
      /\ \A p \in 1..Len(l.list) : l.list[p] \in 1..n
  BY <1>1, LenProperties, ElementOfSeq
<1>3. SUFFICES ASSUME NEW p \in 1..Len(l.list), NEW q \in 1..Len(l.list), l.list[p] < l.list[q]
               PROVE  l.list[q] \notin rel[l.list[p]]
  BY <1>2 DEF ToSet
<1>4. p < q
  <2>a. l.list[p] \in Nat /\ l.list[q] \in Nat
    BY <1>2
  <2>b. q < p => l.list[q] < l.list[p]
    BY <1>1, <1>2 DEF Increasing
  <2>1. ~(q < p) /\ p # q
    BY <1>3, <2>a, <2>b
  <2>2. QED
    BY <2>1
<1>5. p < l.i
  BY <1>1, <1>2, <1>4
<1>6. QED
  BY <1>2, <1>4, <1>5 DEF Settled

-----------------------------------------------------------------------------
\* f carries a state of a loop to what the loop returns: out at the end, and until
\* then what the next state is carried to.
Returns(f, L, End, step, out) ==
  f = [l \in L |-> IF l \in End THEN out[l] ELSE f[step[l]]]

\* f does so where the measure is at most k.
ReturnsUpTo(f, L, End, step, out, m, k) ==
  \A l \in L : m[l] <= k => f[l] = IF l \in End THEN out[l] ELSE f[step[l]]

LEMMA AllNumbers ==
  ASSUME NEW K, 0 \in K, \A k \in Nat : k \in K => k + 1 \in K
  PROVE  \A k \in Nat : k \in K
<1> SUFFICES ASSUME NEW n \in Nat PROVE n \in K
  OBVIOUS
<1>1. \A k \in 0..n : k \in K /\ k < n => k + 1 \in K
  OBVIOUS
<1>2. \A k \in 0..n : k \in K
  BY <1>1, UpToInduction
<1>3. QED
  BY <1>2

\* Two such functions agree there.
LEMMA ReturnsAgree ==
  ASSUME NEW L, NEW End, NEW step \in [L -> L], NEW out, NEW m \in [L -> Nat],
         \A l \in L \ End : m[step[l]] < m[l],
         NEW f, NEW g, NEW a \in Nat, NEW b \in Nat,
         ReturnsUpTo(f, L, End, step, out, m, a), ReturnsUpTo(g, L, End, step, out, m, b)
  PROVE  \A l \in L : m[l] <= a /\ m[l] <= b => f[l] = g[l]
<1> DEFINE D == {l \in L : m[l] <= a /\ m[l] <= b /\ f[l] # g[l]}
           E == {m[l] : l \in D}
<1> SUFFICES ASSUME D # {} PROVE FALSE
  OBVIOUS
<1>1. E \in SUBSET Nat /\ E # {}
  OBVIOUS
<1>2. PICK e \in E : \A x \in E : e <= x
  <2> HIDE DEF E
  <2>1. QED
    BY <1>1, LeastNumber
<1>3. PICK l \in D : m[l] = e
  OBVIOUS
<1>4. l \in L /\ m[l] <= a /\ m[l] <= b /\ f[l] # g[l] /\ m[l] \in Nat
  OBVIOUS
<1>5. l \notin End /\ f[l] = f[step[l]] /\ g[l] = g[step[l]]
  BY <1>4 DEF ReturnsUpTo
<1>6. step[l] \in L /\ m[step[l]] \in Nat /\ m[step[l]] < m[l]
  BY <1>4, <1>5
<1>7. step[l] \in D
  BY <1>4, <1>5, <1>6
<1>8. m[step[l]] \in E
  BY <1>7
<1>9. QED
  BY <1>1, <1>2, <1>3, <1>4, <1>6, <1>8

\* A loop whose steps lower a number returns.
LEMMA ReturnsExists ==
  ASSUME NEW L, NEW End, NEW step \in [L -> L], NEW out, NEW m \in [L -> Nat],
         \A l \in L \ End : m[step[l]] < m[l]
  PROVE  \E f : Returns(f, L, End, step, out)
<1> DEFINE Good(f, k) == ReturnsUpTo(f, L, End, step, out, m, k)
           K == {k \in Nat : \E f : Good(f, k)}
<1>1. 0 \in K
  <2> DEFINE f == [l \in L |-> out[l]]
  <2>1. ASSUME NEW l \in L, m[l] <= 0 PROVE l \in End
    <3>1. m[l] \in Nat /\ m[step[l]] \in Nat
      OBVIOUS
    <3>2. QED
      BY <2>1, <3>1
  <2>2. Good(f, 0)
    BY <2>1 DEF ReturnsUpTo
  <2>3. QED
    BY <2>2
<1>2. ASSUME NEW k \in Nat, k \in K PROVE k + 1 \in K
  <2>1. PICK f : Good(f, k)
    BY <1>2
  <2> DEFINE h == [l \in L |-> IF l \in End THEN out[l] ELSE f[step[l]]]
  <2>2. \A l \in L : m[l] <= k => h[l] = f[l]
    BY <2>1 DEF ReturnsUpTo
  <2>3. ASSUME NEW l \in L, m[l] <= k + 1
        PROVE  h[l] = IF l \in End THEN out[l] ELSE h[step[l]]
    <3>1. CASE l \in End
      BY <3>1
    <3>2. CASE l \notin End
      <4>1. step[l] \in L /\ m[step[l]] \in Nat /\ m[l] \in Nat /\ m[step[l]] < m[l]
        BY <3>2
      <4>2. m[step[l]] <= k
        BY <2>3, <4>1
      <4>3. h[step[l]] = f[step[l]]
        BY <2>2, <4>1, <4>2
      <4> HIDE DEF Good
      <4>4. h[l] = f[step[l]]
        BY <3>2
      <4>5. QED
        BY <3>2, <4>3, <4>4
    <3>3. QED
      BY <3>1, <3>2
  <2> HIDE DEF h
  <2>4. Good(h, k + 1)
    BY <2>3 DEF ReturnsUpTo
  <2>5. QED
    BY <2>4
<1>3. \A k \in Nat : \E f : Good(f, k)
  <2> HIDE DEF Good
  <2>1. \A k \in Nat : k \in K
    <3> HIDE DEF K
    <3>1. QED
      BY <1>1, <1>2, AllNumbers
  <2>2. QED
    BY <2>1
<1> DEFINE at(k) == CHOOSE f : Good(f, k)
           g == [l \in L |-> at(m[l])[l]]
<1>4. \A k \in Nat : Good(at(k), k)
  <2> HIDE DEF Good
  <2>1. QED
    BY <1>3
<1> HIDE DEF at
<1>5. ASSUME NEW l \in L PROVE g[l] = IF l \in End THEN out[l] ELSE g[step[l]]
  <2>1. m[l] \in Nat /\ g[l] = at(m[l])[l] /\ m[l] <= m[l]
    OBVIOUS
  <2>2. at(m[l])[l] = IF l \in End THEN out[l] ELSE at(m[l])[step[l]]
    BY <1>4, <2>1 DEF ReturnsUpTo
  <2>3. CASE l \in End
    BY <2>1, <2>2, <2>3
  <2>4. CASE l \notin End
    <3>1. step[l] \in L /\ m[step[l]] \in Nat /\ m[step[l]] < m[l]
      BY <2>4
    <3>2. m[step[l]] <= m[l] /\ m[step[l]] <= m[step[l]]
      BY <2>1, <3>1
    <3>a. Good(at(m[l]), m[l]) /\ Good(at(m[step[l]]), m[step[l]])
      BY <1>4, <2>1, <3>1
    <3>3. \A x \in L : m[x] <= m[l] /\ m[x] <= m[step[l]] => at(m[l])[x] = at(m[step[l]])[x]
      BY <2>1, <3>1, <3>a, ReturnsAgree
    <3>4. at(m[l])[step[l]] = at(m[step[l]])[step[l]]
      BY <3>1, <3>2, <3>3
    <3>5. g[step[l]] = at(m[step[l]])[step[l]]
      BY <3>1
    <3>6. QED
      BY <2>1, <2>2, <2>4, <3>4, <3>5
  <2>5. QED
    BY <2>3, <2>4
<1>6. g = [l \in L |-> g[l]]
  OBVIOUS
<1> HIDE DEF g
<1>7. g = [l \in L |-> IF l \in End THEN out[l] ELSE g[step[l]]]
  BY <1>5, <1>6
<1>8. QED
  BY <1>7 DEF Returns

\* What every step keeps holds of the state that it returns at.
LEMMA ReturnsKept ==
  ASSUME NEW L, NEW End, NEW step \in [L -> L], NEW out, NEW m \in [L -> Nat],
         \A l \in L \ End : m[step[l]] < m[l],
         NEW f, Returns(f, L, End, step, out),
         NEW J \in SUBSET L, \A l \in J \ End : step[l] \in J
  PROVE  \A l \in J : \E e \in J : e \in End /\ f[l] = out[e]
<1> DEFINE D == {l \in J : \A e \in J : e \in End => f[l] # out[e]}
           E == {m[l] : l \in D}
<1> SUFFICES ASSUME D # {} PROVE FALSE
  OBVIOUS
<1>1. E \in SUBSET Nat /\ E # {}
  OBVIOUS
<1>2. PICK x \in E : \A y \in E : x <= y
  <2> HIDE DEF E
  <2>1. QED
    BY <1>1, LeastNumber
<1>3. PICK l \in D : m[l] = x
  OBVIOUS
<1>4. l \in J /\ l \in L /\ m[l] \in Nat /\ \A e \in J : e \in End => f[l] # out[e]
  OBVIOUS
<1>5. f[l] = IF l \in End THEN out[l] ELSE f[step[l]]
  BY <1>4 DEF Returns
<1>6. l \notin End /\ f[l] = f[step[l]]
  BY <1>4, <1>5
<1>7. step[l] \in J /\ m[step[l]] \in Nat /\ m[step[l]] < m[l]
  BY <1>4, <1>6
<1>8. step[l] \in D
  BY <1>4, <1>6, <1>7
<1>9. m[step[l]] \in E
  BY <1>8
<1>10. QED
  BY <1>1, <1>2, <1>3, <1>4, <1>7, <1>9

-----------------------------------------------------------------------------
\* A number that every step of a removal loop lowers: the outer loop has rounds left,
\* and in a round the inner loop has positions left.
Rounds(kept, i, m) ==
  IF kept = NoDiag THEN IF i < m THEN 2 * (m - i) ELSE 0
  ELSE IF i < m THEN 2 * (m - i) - 1 ELSE 1

RoundsLeft(l) == Rounds(l.kept, l.i, Len(l.list))

Positions(j, m) == IF j <= m THEN m + 1 - j ELSE 0

PositionsLeft(l) == Positions(l.j, Len(l.list))

StepsLeft(l) == RoundsLeft(l) * (Len(l.list) + 2) + PositionsLeft(l)

LEMMA ProductGrows ==
  ASSUME NEW a \in Nat, NEW b \in Nat, NEW c \in Nat, NEW d \in Nat, a <= b, c <= d
  PROVE  a * c <= b * d /\ a * c \in Nat
<1>1. b = a + (b - a) /\ b - a \in Nat /\ d = c + (d - c) /\ d - c \in Nat
  OBVIOUS
<1> DEFINE x == b - a
           y == d - c
<1>2. b = a + x /\ d = c + y /\ x \in Nat /\ y \in Nat
  BY <1>1
<1> HIDE DEF x, y
<1>3. b * d = a * c + a * y + x * c + x * y
  BY <1>2
<1>4. a * c \in Nat /\ a * y \in Nat /\ x * c \in Nat /\ x * y \in Nat
  BY <1>2
<1>5. QED
  BY <1>3, <1>4

LEMMA RoundCounts ==
  ASSUME NEW a \in Nat, NEW b \in Nat, NEW m \in Nat, NEW x \in 0..m, NEW y \in Nat, a + 1 <= b
  PROVE  a * (m + 2) + x < b * (m + 2) + y
<1>1. a + 1 \in Nat /\ m + 2 \in Nat /\ m + 2 <= m + 2
  OBVIOUS
<1>2. (a + 1) * (m + 2) <= b * (m + 2) /\ a * (m + 2) \in Nat /\ b * (m + 2) \in Nat
  <2> DEFINE c == m + 2
  <2>1. c \in Nat /\ c <= c
    BY <1>1
  <2> HIDE DEF c
  <2>2. (a + 1) * c <= b * c /\ a * c \in Nat /\ b * c \in Nat
    BY <1>1, <2>1, ProductGrows
  <2>3. QED
    BY <2>2 DEF c
<1>3. (a + 1) * (m + 2) = a * (m + 2) + (m + 2)
  <2> DEFINE c == m + 2
  <2>1. c \in Nat
    OBVIOUS
  <2> HIDE DEF c
  <2>2. (a + 1) * c = a * c + c
    BY <2>1
  <2>3. QED
    BY <2>2 DEF c
<1> DEFINE u == a * (m + 2)
           v == b * (m + 2)
<1>4. u + (m + 2) <= v /\ u \in Nat /\ v \in Nat
  BY <1>2, <1>3
<1> HIDE DEF u, v
<1>5. u + x < v + y
  BY <1>4
<1>6. QED
  BY <1>5 DEF u, v

LEMMA RoundsFall ==
  ASSUME NEW k, k # NoDiag, NEW i \in Nat, NEW m \in Nat
  PROVE  /\ Rounds(k, i, m) \in Nat /\ Rounds(NoDiag, i, m) \in Nat
         /\ Rounds(NoDiag, i + 1, m) \in Nat /\ Rounds(NoDiag, i + 1, m) + 1 <= Rounds(k, i, m)
         /\ i < m => Rounds(k, i, m) + 1 <= Rounds(NoDiag, i, m)
         /\ 0 < m => Rounds(k, i, m - 1) \in Nat /\ Rounds(k, i, m - 1) <= Rounds(k, i, m)
<1>1. Rounds(NoDiag, i, m) = IF i < m THEN 2 * (m - i) ELSE 0
  BY DEF Rounds
<1>2. Rounds(NoDiag, i + 1, m) = IF i + 1 < m THEN 2 * (m - (i + 1)) ELSE 0
  BY DEF Rounds
<1>3. Rounds(k, i, m) = IF i < m THEN 2 * (m - i) - 1 ELSE 1
  BY DEF Rounds
<1>4. Rounds(k, i, m - 1) = IF i < m - 1 THEN 2 * ((m - 1) - i) - 1 ELSE 1
  BY DEF Rounds
<1>5. QED
  BY <1>1, <1>2, <1>3, <1>4

LEMMA PositionsFall ==
  ASSUME NEW j \in Nat \ {0}, NEW m \in Nat
  PROVE  /\ Positions(j, m) \in 0..m
         /\ j <= m => /\ Positions(j + 1, m) \in Nat /\ Positions(j + 1, m) < Positions(j, m)
                      /\ Positions(j, m - 1) \in Nat /\ Positions(j, m - 1) < Positions(j, m)
<1>1. Positions(j, m) = IF j <= m THEN m + 1 - j ELSE 0
  BY DEF Positions
<1>2. Positions(j + 1, m) = IF j + 1 <= m THEN m + 1 - (j + 1) ELSE 0
  BY DEF Positions
<1>3. Positions(j, m - 1) = IF j <= m - 1 THEN (m - 1) + 1 - j ELSE 0
  BY DEF Positions
<1>4. QED
  BY <1>1, <1>2, <1>3

LEMMA StepsLeftIsNat ==
  ASSUME NEW n \in Nat, NEW l \in Loops(n)
  PROVE  /\ RoundsLeft(l) \in Nat /\ PositionsLeft(l) \in 0..Len(l.list)
         /\ RoundsLeft(l) * (Len(l.list) + 2) \in Nat /\ StepsLeft(l) \in Nat
<1>1. /\ Len(l.list) \in Nat /\ Len(l.list) + 2 \in Nat
      /\ l.i \in Nat \ {0} /\ l.j \in Nat \ {0} /\ l.kept \in 0..n
  BY LenProperties DEF Loops
<1>2. RoundsLeft(l) \in Nat
  <2>1. 1 # NoDiag
    BY DEF NoDiag
  <2>2. QED
    BY <1>1, <2>1, RoundsFall DEF RoundsLeft
<1>3. PositionsLeft(l) \in 0..Len(l.list)
  BY <1>1, PositionsFall DEF PositionsLeft
<1>4. RoundsLeft(l) * (Len(l.list) + 2) \in Nat
  BY <1>1, <1>2, ProductGrows
<1>5. QED
  BY <1>1, <1>2, <1>3, <1>4 DEF StepsLeft

\* A step of a removal loop leads to another one, with less to do.
LEMMA StepFalls ==
  ASSUME NEW n \in Nat, NEW l \in Loops(n), NEW o, NEW rel, NEW from \in Nat \ {0},
         StepOf(l, o, rel, from)
  PROVE  o \in Loops(n) /\ StepsLeft(o) < StepsLeft(l)
<1>1. /\ l.list \in Seq(1..n) /\ Len(l.list) \in Nat
      /\ l.i \in Nat \ {0} /\ l.j \in Nat \ {0} /\ l.kept \in 0..n
      /\ \A p \in 1..Len(l.list) : l.list[p] \in 1..n
  BY LenProperties, ElementOfSeq DEF Loops
<1> DEFINE m == Len(l.list)
<1>2. RoundsLeft(l) \in Nat /\ PositionsLeft(l) \in Nat /\ RoundsLeft(l) * (m + 2) \in Nat
  BY StepsLeftIsNat
<1>4. ASSUME o.list = l.list, RoundsLeft(o) \in Nat, PositionsLeft(o) \in 0..m,
             RoundsLeft(o) + 1 <= RoundsLeft(l)
      PROVE  StepsLeft(o) < StepsLeft(l)
  <2>1. RoundsLeft(o) * (m + 2) + PositionsLeft(o) < RoundsLeft(l) * (m + 2) + PositionsLeft(l)
    BY <1>1, <1>2, <1>4, RoundCounts
  <2>2. QED
    BY <1>4, <2>1 DEF StepsLeft
<1>5. CASE l.kept = NoDiag /\ l.i < m /\ o = [l EXCEPT !.kept = l.list[l.i], !.j = from]
  <2>1. l.list[l.i] \in 1..n /\ l.list[l.i] # NoDiag
    BY <1>1, <1>5 DEF NoDiag
  <2>a. o.list = l.list /\ o.i = l.i /\ o.kept = l.list[l.i] /\ o.j = from
    BY <1>5 DEF Loops
  <2>b. l.list[l.i] \in 0..n
    BY <2>1
  <2>2. o \in Loops(n) /\ o.list = l.list /\ o.i = l.i /\ o.kept # NoDiag /\ o.j \in Nat \ {0}
    BY <1>5, <2>1, <2>a, <2>b DEF Loops
  <2>3. RoundsLeft(o) \in Nat /\ RoundsLeft(o) + 1 <= RoundsLeft(l)
    BY <1>1, <1>5, <2>2, RoundsFall DEF RoundsLeft
  <2>4. PositionsLeft(o) \in 0..m
    BY <1>1, <2>2, PositionsFall DEF PositionsLeft
  <2>5. QED
    BY <1>4, <2>2, <2>3, <2>4
<1>6. CASE l.kept # NoDiag /\ l.j > m /\ o = [l EXCEPT !.kept = NoDiag, !.i = l.i + 1]
  <2>1. l.i + 1 \in Nat \ {0} /\ NoDiag \in 0..n
    BY <1>1 DEF NoDiag
  <2>2. o \in Loops(n) /\ o.list = l.list /\ o.i = l.i + 1 /\ o.kept = NoDiag /\ o.j = l.j
    BY <1>1, <1>6, <2>1 DEF Loops
  <2>3. RoundsLeft(o) \in Nat /\ RoundsLeft(o) + 1 <= RoundsLeft(l)
    BY <1>1, <1>6, <2>2, RoundsFall DEF RoundsLeft
  <2>4. PositionsLeft(o) \in 0..m
    BY <1>1, <2>2, PositionsFall DEF PositionsLeft
  <2>5. QED
    BY <1>4, <2>2, <2>3, <2>4
<1>7. CASE l.kept # NoDiag /\ l.j <= m /\ o = [l EXCEPT !.list = RemoveAt(l.list, l.j)]
  <2>1. l.j \in 1..m /\ m - 1 \in Nat /\ 0 < m
    BY <1>1, <1>7
  <2>2. RemoveAt(l.list, l.j) \in Seq(1..n) /\ Len(RemoveAt(l.list, l.j)) = m - 1
    <3> DEFINE s == l.list
               j == l.j
    <3>1. s \in Seq(1..n) /\ j \in 1..Len(s)
      BY <1>1, <2>1
    <3> HIDE DEF s, j
    <3>2. RemoveAt(s, j) \in Seq(1..n) /\ Len(RemoveAt(s, j)) = Len(s) - 1
      BY <3>1, RemoveAtFacts
    <3>3. QED
      BY <3>2 DEF s, j
  <2>3. /\ o \in Loops(n) /\ Len(o.list) = m - 1
        /\ o.i = l.i /\ o.kept = l.kept /\ o.j = l.j
    BY <1>1, <1>7, <2>2 DEF Loops
  <2>4. RoundsLeft(o) \in Nat /\ RoundsLeft(o) <= RoundsLeft(l)
    <3>1. RoundsLeft(o) = Rounds(l.kept, l.i, m - 1) /\ RoundsLeft(l) = Rounds(l.kept, l.i, m)
      BY <2>3 DEF RoundsLeft
    <3> HIDE DEF m
    <3>2. m \in Nat /\ l.i \in Nat /\ l.kept # NoDiag /\ 0 < m
      BY <1>1, <1>7, <2>1 DEF m
    <3>3. Rounds(l.kept, l.i, m - 1) \in Nat /\ Rounds(l.kept, l.i, m - 1) <= Rounds(l.kept, l.i, m)
      BY <3>2, RoundsFall
    <3>4. QED
      BY <3>1, <3>3
  <2>5. PositionsLeft(o) \in Nat /\ PositionsLeft(o) < PositionsLeft(l)
    <3>1. PositionsLeft(o) = Positions(l.j, m - 1) /\ PositionsLeft(l) = Positions(l.j, m)
      BY <2>3 DEF PositionsLeft
    <3>2. QED
      BY <1>1, <1>7, <3>1, PositionsFall
  <2>6. m + 1 \in Nat /\ m + 2 \in Nat /\ m + 1 <= m + 2 /\ (m - 1) + 2 = m + 1
    BY <1>1
  <2>7. RoundsLeft(o) * (m + 1) <= RoundsLeft(l) * (m + 2) /\ RoundsLeft(o) * (m + 1) \in Nat
    BY <1>1, <1>2, <2>4, <2>6, ProductGrows
  <2>8. /\ StepsLeft(o) = RoundsLeft(o) * (m + 1) + PositionsLeft(o)
        /\ StepsLeft(l) = RoundsLeft(l) * (m + 2) + PositionsLeft(l)
    BY <2>3, <2>6 DEF StepsLeft
  <2>9. StepsLeft(o) < StepsLeft(l)
    BY <1>2, <2>5, <2>7, <2>8
  <2>10. QED
    BY <2>3, <2>9
<1>8. CASE l.kept # NoDiag /\ l.j <= m /\ o = [l EXCEPT !.j = l.j + 1]
  <2>1. l.j + 1 \in Nat \ {0}
    BY <1>1
  <2>2. o \in Loops(n) /\ o.list = l.list /\ o.i = l.i /\ o.kept = l.kept /\ o.j = l.j + 1
    BY <1>1, <1>8, <2>1 DEF Loops
  <2>3. RoundsLeft(o) = RoundsLeft(l)
    BY <2>2 DEF RoundsLeft
  <2>4. PositionsLeft(o) \in Nat /\ PositionsLeft(o) < PositionsLeft(l)
    <3>1. PositionsLeft(o) = Positions(l.j + 1, m) /\ PositionsLeft(l) = Positions(l.j, m)
      BY <2>2 DEF PositionsLeft
    <3>2. QED
      BY <1>1, <1>8, <3>1, PositionsFall
  <2>5. /\ StepsLeft(o) = RoundsLeft(l) * (m + 2) + PositionsLeft(o)
        /\ StepsLeft(l) = RoundsLeft(l) * (m + 2) + PositionsLeft(l)
    BY <2>2, <2>3 DEF StepsLeft
  <2>6. QED
    BY <1>2, <2>2, <2>4, <2>5
<1>9. QED
  BY <1>5, <1>6, <1>7, <1>8 DEF StepOf


\* The steps of a removal loop are next.
StepsBy(n, next, rel) ==
  \A l \in Loops(n) : ~AtEnd(l) => \E from \in Nat \ {0} : StepOf(l, next[l], rel, from)

\* A set of loops that the steps do not leave.
Closed(J, n, next) == J \in SUBSET Loops(n) /\ \A l \in J : ~AtEnd(l) => next[l] \in J

\* f carries a removal loop, whose steps are next, to the list that it leaves.
Runs(f, n, next) == f = [l \in Loops(n) |-> IF AtEnd(l) THEN l.list ELSE f[next[l]]]

\* A removal loop returns, and what every step keeps holds where it returns.
LEMMA LoopReturns ==
  ASSUME NEW n \in Nat, NEW rel, NEW next, StepsBy(n, next, rel)
  PROVE  /\ \E f : Runs(f, n, next)
         /\ \A f, J : Runs(f, n, next) /\ Closed(J, n, next)
              => \A l \in J : \E e \in J : AtEnd(e) /\ f[l] = e.list
<1> DEFINE L == Loops(n)
           End == {l \in L : AtEnd(l)}
           step == [l \in L |-> IF AtEnd(l) THEN l ELSE next[l]]
           out == [l \in L |-> l.list]
           m == [l \in L |-> StepsLeft(l)]
<1>1. ASSUME NEW l \in L, ~AtEnd(l)
      PROVE  next[l] \in L /\ StepsLeft(next[l]) < StepsLeft(l)
  <2>1. PICK from \in Nat \ {0} : StepOf(l, next[l], rel, from)
    BY <1>1 DEF StepsBy
  <2>2. QED
    BY <2>1, StepFalls
<1>2. step \in [L -> L] /\ m \in [L -> Nat]
  BY <1>1, StepsLeftIsNat
<1>3. \A l \in L \ End : m[step[l]] < m[l]
  BY <1>1
<1> HIDE DEF m
<1>4. \A f : Returns(f, L, End, step, out) <=> Runs(f, n, next)
  <2> SUFFICES ASSUME NEW f PROVE [l \in L |-> IF l \in End THEN out[l] ELSE f[step[l]]]
                                  = [l \in L |-> IF AtEnd(l) THEN l.list ELSE f[next[l]]]
    BY DEF Returns, Runs
  <2>1. \A l \in L : (IF l \in End THEN out[l] ELSE f[step[l]])
                     = IF AtEnd(l) THEN l.list ELSE f[next[l]]
    OBVIOUS
  <2>2. QED
    BY <2>1
<1>5. \E f : Returns(f, L, End, step, out)
  <2> HIDE DEF L, End, step, out
  <2>1. QED
    BY <1>2, <1>3, ReturnsExists
<1>6. ASSUME NEW f, NEW J, Returns(f, L, End, step, out), J \subseteq L,
             \A l \in J : ~AtEnd(l) => next[l] \in J
      PROVE  \A l \in J : \E e \in J : AtEnd(e) /\ f[l] = e.list
  <2>1. \A l \in J \ End : step[l] \in J
    BY <1>6
  <2>2. \A l \in J : \E e \in J : e \in End /\ f[l] = out[e]
    <3> HIDE DEF L, End, step, out
    <3>1. QED
      BY <1>2, <1>3, <1>6, <2>1, ReturnsKept
  <2>3. \A e \in J : e \in End => AtEnd(e) /\ out[e] = e.list
    OBVIOUS
  <2>4. QED
    BY <2>2, <2>3
<1> HIDE DEF End, step, out
<1>7. QED
  BY <1>4, <1>5, <1>6 DEF Closed

-----------------------------------------------------------------------------
\* What the three loops compare, on the indices of a report of n diagnostics.
SameIn(r, n) == [x \in 1..n |-> {y \in 1..n : SameMessage(r[x], r[y])}]
StdIn(r, n) == [x \in 1..n |-> {y \in 1..n : SupersedesStd(r[x], r[y])}]
TagIn(r, n) == [x \in 1..n |-> {y \in 1..n : SupersedesTag(r[x], r[y])}]

\* LoopStep takes a step of a loop that compares so.
LEMMA StepsAreSteps ==
  ASSUME NEW n \in Nat, NEW r, NEW l \in Loops(n), ~AtEnd(l)
  PROVE  /\ StepOf(l, LoopStep(r, l, After, SameMessage), SameIn(r, n), l.i + 1)
         /\ StepOf(l, LoopStep(r, l, FromStart, SupersedesStd), StdIn(r, n), 1)
         /\ StepOf(l, LoopStep(r, l, FromStart, SupersedesTag), TagIn(r, n), 1)
         /\ l.i + 1 \in Nat \ {0}
<1>1. /\ l.list \in Seq(1..n) /\ l.i \in Nat \ {0} /\ l.j \in Nat \ {0} /\ l.kept \in 0..n
  BY DEF Loops
<1>2. Len(l.list) \in Nat /\ \A p \in 1..Len(l.list) : l.list[p] \in 1..n
  BY <1>1, LenProperties, ElementOfSeq
<1>3. l.kept = NoDiag => l.i < Len(l.list)
  BY <1>1, <1>2 DEF AtEnd
<1>4. ~(l.j > Len(l.list)) => l.j <= Len(l.list) /\ l.list[l.j] \in 1..n
  BY <1>1, <1>2
<1>5. l.kept # NoDiag => l.kept \in 1..n
  BY <1>1 DEF NoDiag
<1>6. l.kept # NoDiag /\ ~(l.j > Len(l.list)) =>
        /\ l.list[l.j] \in SameIn(r, n)[l.kept] <=> SameMessage(r[l.kept], r[l.list[l.j]])
        /\ l.list[l.j] \in StdIn(r, n)[l.kept] <=> SupersedesStd(r[l.kept], r[l.list[l.j]])
        /\ l.list[l.j] \in TagIn(r, n)[l.kept] <=> SupersedesTag(r[l.kept], r[l.list[l.j]])
  BY <1>4, <1>5 DEF SameIn, StdIn, TagIn
<1>7. StepOf(l, LoopStep(r, l, After, SameMessage), SameIn(r, n), l.i + 1)
  BY <1>3, <1>4, <1>6 DEF LoopStep, StepOf, After
<1>8. StepOf(l, LoopStep(r, l, FromStart, SupersedesStd), StdIn(r, n), 1)
  BY <1>3, <1>4, <1>6 DEF LoopStep, StepOf, FromStart
<1>9. StepOf(l, LoopStep(r, l, FromStart, SupersedesTag), TagIn(r, n), 1)
  BY <1>3, <1>4, <1>6 DEF LoopStep, StepOf, FromStart
<1>10. QED
  BY <1>1, <1>7, <1>8, <1>9

\* In every pass: what is left is of the list s that was collected, and has a report of
\* every tag that s has a report of.
BatchLoop(r, n, s, l) ==
  /\ LoopOf(l, n) /\ ToSet(l.list) \subseteq ToSet(s)
  /\ \A x \in ToSet(s) : r[x].id \in TagSpace =>
       \E y \in ToSet(l.list) : SupersedesTag(r[x], r[y])

\* While duplicates are removed, what is gone has an earlier one that is still there.
ExactLoop(r, n, s, l) ==
  /\ BatchLoop(r, n, s, l) /\ Settled(l, SameIn(r, n))
  /\ \A x \in ToSet(s) \ ToSet(l.list) :
       \E y \in ToSet(l.list) : y < x /\ x \in SameIn(r, n)[y]

TagLoop(r, n, s, l) == BatchLoop(r, n, s, l) /\ Settled(l, TagIn(r, n))

LEMMA ExactStep ==
  ASSUME NEW n \in Nat, NEW r, NEW s, Ordered(s, n), NEW l, ExactLoop(r, n, s, l), ~AtEnd(l)
  PROVE  ExactLoop(r, n, s, LoopStep(r, l, After, SameMessage))
<1> DEFINE o == LoopStep(r, l, After, SameMessage)
           Same == SameIn(r, n)
<1>1. LoopOf(l, n) /\ l \in Loops(n) /\ Settled(l, Same) /\ ToSet(l.list) \subseteq ToSet(s)
  BY DEF ExactLoop, BatchLoop, LoopOf
<1>2. StepOf(l, o, Same, l.i + 1) /\ l.i + 1 \in Nat \ {0}
  BY <1>1, StepsAreSteps
<1> HIDE DEF o
<1>3. \A x, y \in 1..n : y \in Same[x] => x \in Same[y]
  BY DEF SameIn, SameMessage
<1>4. LoopOf(o, n)
  <2> HIDE DEF Same
  <2>1. QED
    BY <1>1, <1>2, StepKeepsLoop
<1>5. /\ Settled(o, Same)
      /\ \/ ToSet(o.list) = ToSet(l.list)
         \/ \E x \in ToSet(o.list), y \in ToSet(l.list) :
              x < y /\ y \in Same[x] /\ ToSet(o.list) = ToSet(l.list) \ {y}
  <2> HIDE DEF Same
  <2>1. QED
    BY <1>1, <1>2, <1>3, StepSettles
<1>6. ToSet(s) \subseteq 1..n /\ ToSet(o.list) \subseteq ToSet(l.list)
  <2>1. s \in Seq(1..n)
    BY DEF Ordered
  <2>2. QED
    BY <1>5, <2>1, ToSetIn
<1>7. CASE ToSet(o.list) = ToSet(l.list)
  <2>1. ExactLoop(r, n, s, o)
    BY <1>4, <1>5, <1>7 DEF ExactLoop, BatchLoop
  <2>2. QED
    BY <2>1 DEF o
<1>8. CASE \E x \in ToSet(o.list), y \in ToSet(l.list) :
              x < y /\ y \in Same[x] /\ ToSet(o.list) = ToSet(l.list) \ {y}
  <2>1. PICK x \in ToSet(o.list), y \in ToSet(l.list) :
              x < y /\ y \in Same[x] /\ ToSet(o.list) = ToSet(l.list) \ {y}
    BY <1>8
  <2>2. x \in 1..n /\ y \in 1..n /\ SameMessage(r[x], r[y])
    BY <1>1, <1>6, <2>1 DEF SameIn
  <2>3. ASSUME NEW z \in ToSet(s) \ ToSet(o.list)
        PROVE  \E v \in ToSet(o.list) : v < z /\ z \in Same[v]
    <3>1. CASE z = y
      BY <2>1, <3>1
    <3>2. CASE z # y
      <4>1. z \in ToSet(s) \ ToSet(l.list) /\ z \in 1..n
        BY <1>6, <2>1, <2>3, <3>2
      <4>2. PICK v \in ToSet(l.list) : v < z /\ z \in Same[v]
        BY <4>1 DEF ExactLoop
      <4>3. CASE v # y
        BY <2>1, <4>2, <4>3
      <4>4. CASE v = y
        <5>1. x < z
          BY <2>1, <2>2, <4>1, <4>2, <4>4
        <5>2. z \in Same[x]
          BY <2>2, <4>1, <4>2, <4>4 DEF SameIn, SameMessage
        <5>3. QED
          BY <2>1, <5>1, <5>2
      <4>5. QED
        BY <4>3, <4>4
    <3>3. QED
      BY <3>1, <3>2
  <2>4. ASSUME NEW z \in ToSet(s), r[z].id \in TagSpace
        PROVE  \E v \in ToSet(o.list) : SupersedesTag(r[z], r[v])
    <3>1. PICK v \in ToSet(l.list) : SupersedesTag(r[z], r[v])
      BY <2>4 DEF ExactLoop, BatchLoop
    <3>2. v = y => SupersedesTag(r[z], r[x])
      BY <2>2, <3>1 DEF SupersedesTag, SameMessage
    <3>3. QED
      BY <2>1, <3>1, <3>2
  <2>5. BatchLoop(r, n, s, o)
    BY <1>1, <1>4, <1>6, <2>4 DEF BatchLoop
  <2>6. QED
    BY <1>5, <2>3, <2>5 DEF ExactLoop, o
<1>9. QED
  BY <1>5, <1>7, <1>8 DEF o

\* The second pass removes nothing that is about a tag.
LEMMA StdStep ==
  ASSUME NEW n \in Nat, NEW r, NEW s, NEW l, BatchLoop(r, n, s, l), ~AtEnd(l)
  PROVE  BatchLoop(r, n, s, LoopStep(r, l, FromStart, SupersedesStd))
<1> DEFINE o == LoopStep(r, l, FromStart, SupersedesStd)
<1>1. LoopOf(l, n) /\ l \in Loops(n) /\ ToSet(l.list) \subseteq ToSet(s) /\ l.kept \in 0..n
  BY DEF BatchLoop, LoopOf, Loops
<1>2. StepOf(l, o, StdIn(r, n), 1)
  BY <1>1, StepsAreSteps
<1> HIDE DEF o
<1>3. /\ LoopOf(o, n)
      /\ \/ ToSet(o.list) = ToSet(l.list)
         \/ \E y \in ToSet(l.list) : /\ l.kept # NoDiag /\ y \in StdIn(r, n)[l.kept]
                                     /\ ToSet(o.list) = ToSet(l.list) \ {y}
  BY <1>1, <1>2, StepKeepsLoop
<1>4. \A y \in ToSet(l.list) :
        l.kept # NoDiag /\ y \in StdIn(r, n)[l.kept] => r[y].id \notin TagSpace
  <2>1. l.kept # NoDiag => l.kept \in 1..n
    BY <1>1 DEF NoDiag
  <2>2. QED
    BY <2>1 DEF StdIn, SupersedesStd, StdSpace, UndeclaredVar, UnknownTypename, TagSpace
<1>5. \A y \in ToSet(l.list) : r[y].id \in TagSpace => y \in ToSet(o.list)
  BY <1>3, <1>4
<1>6. ASSUME NEW z \in ToSet(s), r[z].id \in TagSpace
      PROVE  \E v \in ToSet(o.list) : SupersedesTag(r[z], r[v])
  <2>1. PICK v \in ToSet(l.list) : SupersedesTag(r[z], r[v])
    BY <1>6 DEF BatchLoop
  <2>2. QED
    BY <1>5, <2>1 DEF SupersedesTag
<1>7. ToSet(o.list) \subseteq ToSet(s)
  BY <1>1, <1>3
<1>8. QED
  BY <1>3, <1>6, <1>7 DEF BatchLoop, o

LEMMA TagStep ==
  ASSUME NEW n \in Nat, NEW r, NEW s, NEW l, TagLoop(r, n, s, l), ~AtEnd(l)
  PROVE  TagLoop(r, n, s, LoopStep(r, l, FromStart, SupersedesTag))
<1> DEFINE o == LoopStep(r, l, FromStart, SupersedesTag)
           Tag == TagIn(r, n)
<1>1. LoopOf(l, n) /\ l \in Loops(n) /\ Settled(l, Tag) /\ ToSet(l.list) \subseteq ToSet(s)
  BY DEF TagLoop, BatchLoop, LoopOf
<1>2. StepOf(l, o, Tag, 1)
  BY <1>1, StepsAreSteps
<1> HIDE DEF o
<1>3. \A x, y \in 1..n : y \in Tag[x] => x \in Tag[y]
  BY DEF TagIn, SupersedesTag
<1>4. LoopOf(o, n)
  <2> HIDE DEF Tag
  <2>1. QED
    BY <1>1, <1>2, StepKeepsLoop
<1>5. /\ Settled(o, Tag)
      /\ \/ ToSet(o.list) = ToSet(l.list)
         \/ \E x \in ToSet(o.list), y \in ToSet(l.list) :
              x < y /\ y \in Tag[x] /\ ToSet(o.list) = ToSet(l.list) \ {y}
  <2> HIDE DEF Tag
  <2>1. QED
    BY <1>1, <1>2, <1>3, StepSettles
<1>6. ToSet(o.list) \subseteq 1..n
  <2>1. o.list \in Seq(1..n)
    BY <1>4 DEF LoopOf, Ordered
  <2>2. QED
    BY <2>1, ToSetIn
<1>7. ASSUME NEW z \in ToSet(s), r[z].id \in TagSpace
      PROVE  \E v \in ToSet(o.list) : SupersedesTag(r[z], r[v])
  <2>1. PICK v \in ToSet(l.list) : SupersedesTag(r[z], r[v])
    BY <1>7 DEF TagLoop, BatchLoop
  <2>2. CASE v \in ToSet(o.list)
    BY <2>1, <2>2
  <2>3. CASE v \notin ToSet(o.list)
    <3>1. PICK x \in ToSet(o.list) : v \in Tag[x]
      BY <1>5, <2>1, <2>3
    <3>2. SupersedesTag(r[z], r[x])
      BY <1>6, <2>1, <3>1 DEF TagIn, SupersedesTag
    <3>3. QED
      BY <3>1, <3>2
  <2>4. QED
    BY <2>2, <2>3
<1>8. ToSet(o.list) \subseteq ToSet(s)
  BY <1>1, <1>5
<1>9. QED
  BY <1>4, <1>5, <1>7, <1>8 DEF TagLoop, BatchLoop, o

\* A new loop over an ordered list has settled nothing yet.
LEMMA NewLoopStarts ==
  ASSUME NEW n \in Nat, NEW s, Ordered(s, n), NEW rel
  PROVE  /\ LoopOf(NewLoop(s), n) /\ Settled(NewLoop(s), rel) /\ NewLoop(s).list = s
<1>1. s \in Seq(1..n) /\ DOMAIN s = 1..Len(s) /\ Len(s) \in Nat
  BY LenProperties DEF Ordered
<1>2. /\ NewLoop(s).list = s /\ NewLoop(s).i = 1 /\ NewLoop(s).kept = NoDiag
      /\ NewLoop(s) \in [list : Seq(1..n), i : Nat \ {0}, j : Nat \ {0}, kept : 0..n]
  BY <1>1 DEF NewLoop, NoDiag
<1>3. \A p \in DOMAIN s : ~(p < 1)
  BY <1>1
<1>4. QED
  BY <1>2, <1>3 DEF LoopOf, Loops, Settled

LEMMA ExactStarts ==
  ASSUME NEW n \in Nat, NEW r, NEW s, Ordered(s, n)
  PROVE  ExactLoop(r, n, s, NewLoop(s))
<1>1. LoopOf(NewLoop(s), n) /\ Settled(NewLoop(s), SameIn(r, n)) /\ NewLoop(s).list = s
  BY NewLoopStarts
<1>2. QED
  BY <1>1 DEF ExactLoop, BatchLoop, SupersedesTag

\* The next pass starts where one has ended.
LEMMA NextPassStarts ==
  ASSUME NEW n \in Nat, NEW r, NEW s, NEW l, BatchLoop(r, n, s, l)
  PROVE  BatchLoop(r, n, s, NewLoop(l.list)) /\ TagLoop(r, n, s, NewLoop(l.list))
<1>1. Ordered(l.list, n)
  BY DEF BatchLoop, LoopOf
<1>2. LoopOf(NewLoop(l.list), n) /\ Settled(NewLoop(l.list), TagIn(r, n)) /\ NewLoop(l.list).list = l.list
  BY <1>1, NewLoopStarts
<1>3. QED
  BY <1>2 DEF TagLoop, BatchLoop

\* The first pass leaves the first occurrences.
LEMMA ExactEnds ==
  ASSUME NEW n \in Nat, NEW r, NEW s, Ordered(s, n), NEW l, ExactLoop(r, n, s, l), AtEnd(l)
  PROVE  /\ Ordered(l.list, n)
         /\ ToSet(l.list) =
              {x \in ToSet(s) : \A y \in ToSet(s) : y < x => ~SameMessage(r[x], r[y])}
<1>1. /\ LoopOf(l, n) /\ Ordered(l.list, n) /\ Settled(l, SameIn(r, n))
      /\ ToSet(l.list) \subseteq ToSet(s) /\ s \in Seq(1..n)
  BY DEF ExactLoop, BatchLoop, LoopOf, Ordered
<1>2. ToSet(s) \subseteq 1..n
  BY <1>1, ToSetIn
<1>3. \A x, y \in ToSet(l.list) : x < y => ~SameMessage(r[x], r[y])
  <2>1. \A x, y \in ToSet(l.list) : x < y => y \notin SameIn(r, n)[x]
    BY <1>1, SettledAtEnd
  <2>2. QED
    BY <1>1, <1>2, <2>1 DEF SameIn
<1>4. \A x \in ToSet(s) \ ToSet(l.list) :
        \E y \in ToSet(l.list) : y < x /\ SameMessage(r[y], r[x])
  BY <1>1, <1>2 DEF ExactLoop, SameIn
<1>5. ASSUME NEW x \in ToSet(l.list), NEW y \in ToSet(s), y < x, SameMessage(r[x], r[y])
      PROVE  FALSE
  <2>1. CASE y \in ToSet(l.list)
    BY <1>3, <1>5, <2>1 DEF SameMessage
  <2>2. CASE y \notin ToSet(l.list)
    <3>1. PICK z \in ToSet(l.list) : z < y /\ SameMessage(r[z], r[y])
      BY <1>4, <2>2
    <3>2. z < x /\ SameMessage(r[z], r[x])
      BY <1>1, <1>2, <1>5, <3>1 DEF SameMessage
    <3>3. QED
      BY <1>3, <3>2
  <2>3. QED
    BY <2>1, <2>2
<1>6. ASSUME NEW x \in ToSet(s), x \notin ToSet(l.list)
      PROVE  \E y \in ToSet(s) : y < x /\ SameMessage(r[x], r[y])
  BY <1>1, <1>4, <1>6 DEF SameMessage
<1>7. QED
  BY <1>1, <1>5, <1>6

\* The last pass leaves one report of every tag.
LEMMA TagEnds ==
  ASSUME NEW n \in Nat, NEW r, NEW s, NEW l, TagLoop(r, n, s, l), AtEnd(l),
         NEW i \in ToSet(s), r[i].id \in TagSpace
  PROVE  \E j \in ToSet(l.list) : \A k \in ToSet(l.list) : SupersedesTag(r[i], r[k]) <=> k = j
<1>1. LoopOf(l, n) /\ Settled(l, TagIn(r, n)) /\ l.list \in Seq(1..n)
  BY DEF TagLoop, BatchLoop, LoopOf, Ordered
<1>2. ToSet(l.list) \subseteq 1..n
  BY <1>1, ToSetIn
<1>3. \A x, y \in ToSet(l.list) : x < y => ~SupersedesTag(r[x], r[y])
  <2>1. \A x, y \in ToSet(l.list) : x < y => y \notin TagIn(r, n)[x]
    BY <1>1, SettledAtEnd
  <2>2. QED
    BY <1>2, <2>1 DEF TagIn
<1>4. PICK j \in ToSet(l.list) : SupersedesTag(r[i], r[j])
  BY DEF TagLoop, BatchLoop
<1>5. ASSUME NEW k \in ToSet(l.list), SupersedesTag(r[i], r[k])
      PROVE  k = j
  <2>1. SupersedesTag(r[k], r[j]) /\ SupersedesTag(r[j], r[k])
    BY <1>4, <1>5 DEF SupersedesTag
  <2>2. ~(k < j) /\ ~(j < k)
    BY <1>3, <2>1
  <2>3. QED
    BY <1>2, <2>2
<1>6. QED
  BY <1>4, <1>5

\* The first error is one of the report, and nothing before it is an error.
LEMMA FirstErrorIs ==
  ASSUME NEW T, NEW r \in Seq(T), \E i \in DOMAIN r : IsErrorOrFatal(r[i])
  PROVE  \E i \in DOMAIN r : /\ SelectFirstError(r) = <<i>> /\ IsErrorOrFatal(r[i])
                             /\ \A j \in DOMAIN r : IsErrorOrFatal(r[j]) => i <= j
<1> DEFINE errors == {i \in DOMAIN r : IsErrorOrFatal(r[i])}
<1>1. DOMAIN r = 1..Len(r) /\ Len(r) \in Nat /\ errors # {} /\ errors \in SUBSET Nat
  BY LenProperties
<1>2. PICK m \in errors : \A e \in errors : m <= e
  <2> HIDE DEF errors
  <2>1. QED
    BY <1>1, LeastNumber
<1>3. Min(errors) \in errors /\ \A e \in errors : Min(errors) <= e
  <2> HIDE DEF errors
  <2>1. QED
    BY <1>2 DEF Min
<1>4. SelectFirstError(r) = <<Min(errors)>>
  BY <1>1 DEF SelectFirstError
<1>5. QED
  BY <1>3, <1>4

\* What the handler relies on: something to mend, diagnostics of the report, in order.
Serving(r, s) == s # <<>> /\ Increasing(s) /\ ToSet(s) \subseteq DOMAIN r

LEMMA FirstErrorServes ==
  ASSUME NEW T, NEW r \in Seq(T), \E i \in DOMAIN r : IsErrorOrFatal(r[i])
  PROVE  Serving(r, SelectFirstError(r))
<1>1. PICK i \in DOMAIN r : SelectFirstError(r) = <<i>>
  BY FirstErrorIs
<1>2. \A x : <<x>> # <<>> /\ Increasing(<<x>>) /\ ToSet(<<x>>) = {x}
  BY DEF Increasing, ToSet
<1>3. QED
  BY <1>1, <1>2 DEF Serving

LEMMA OrderedServes ==
  ASSUME NEW T, NEW r \in Seq(T), NEW s, Ordered(s, Len(r)), s # <<>>
  PROVE  Serving(r, s)
<1>1. s \in Seq(1..Len(r)) /\ Increasing(s) /\ DOMAIN r = 1..Len(r)
  BY LenProperties DEF Ordered
<1>2. ToSet(s) \subseteq 1..Len(r)
  BY <1>1, ToSetIn
<1>3. QED
  BY <1>1, <1>2 DEF Serving

-----------------------------------------------------------------------------
\* The functions that RemovalLoop evaluates in the three passes.
ExactRun(r) ==
  CHOOSE f : f = [l \in Loops(Len(r)) |->
                    IF AtEnd(l) THEN l.list ELSE f[LoopStep(r, l, After, SameMessage)]]
StdRun(r) ==
  CHOOSE f : f = [l \in Loops(Len(r)) |->
                    IF AtEnd(l) THEN l.list ELSE f[LoopStep(r, l, FromStart, SupersedesStd)]]
TagRun(r) ==
  CHOOSE f : f = [l \in Loops(Len(r)) |->
                    IF AtEnd(l) THEN l.list ELSE f[LoopStep(r, l, FromStart, SupersedesTag)]]

LEMMA PassesRun ==
  ASSUME NEW r, NEW s
  PROVE  /\ RemoveExactlyRepeatedDiagnostics(r, s) = ExactRun(r)[NewLoop(s)]
         /\ RemoveStdIdentifierSpaceSimilarDiagnostics(r, s) = StdRun(r)[NewLoop(s)]
         /\ RemoveTagSpaceSimilarDiagnostics(r, s) = TagRun(r)[NewLoop(s)]
BY DEF RemoveExactlyRepeatedDiagnostics, RemoveStdIdentifierSpaceSimilarDiagnostics,
       RemoveTagSpaceSimilarDiagnostics, RemovalLoop, ExactRun, StdRun, TagRun

LEMMA ExactReturns ==
  ASSUME NEW r, Len(r) \in Nat
  PROVE  /\ \A l \in Loops(Len(r)) :
              ExactRun(r)[l] = IF AtEnd(l) THEN l.list
                               ELSE ExactRun(r)[LoopStep(r, l, After, SameMessage)]
         /\ \A J \in SUBSET Loops(Len(r)) :
              (\A l \in J : ~AtEnd(l) => LoopStep(r, l, After, SameMessage) \in J)
              => \A l \in J : \E e \in J : AtEnd(e) /\ ExactRun(r)[l] = e.list
<1> DEFINE n == Len(r)
           next == [l \in Loops(n) |-> LoopStep(r, l, After, SameMessage)]
<1>1. \A l \in Loops(n) : next[l] = LoopStep(r, l, After, SameMessage)
  OBVIOUS
<1>2. StepsBy(n, next, SameIn(r, n))
  BY StepsAreSteps DEF StepsBy
<1> HIDE DEF next
<1>3. \A f : Runs(f, n, next) <=>
               f = [l \in Loops(n) |->
                      IF AtEnd(l) THEN l.list ELSE f[LoopStep(r, l, After, SameMessage)]]
  <2> SUFFICES ASSUME NEW f
               PROVE  [l \in Loops(n) |-> IF AtEnd(l) THEN l.list ELSE f[next[l]]]
                      = [l \in Loops(n) |->
                           IF AtEnd(l) THEN l.list ELSE f[LoopStep(r, l, After, SameMessage)]]
    BY DEF Runs
  <2>1. QED
    BY <1>1
<1>4. \E f : Runs(f, n, next)
  BY <1>2, LoopReturns
<1>5. Runs(ExactRun(r), n, next)
  BY <1>3, <1>4 DEF ExactRun
<1>6. ASSUME NEW J \in SUBSET Loops(n),
             \A l \in J : ~AtEnd(l) => LoopStep(r, l, After, SameMessage) \in J
      PROVE  \A l \in J : \E e \in J : AtEnd(e) /\ ExactRun(r)[l] = e.list
  <2>1. Closed(J, n, next)
    BY <1>1, <1>6 DEF Closed
  <2>2. QED
    BY <1>2, <1>5, <2>1, LoopReturns
<1>7. \A l \in Loops(n) :
        ExactRun(r)[l] = IF AtEnd(l) THEN l.list
                         ELSE ExactRun(r)[LoopStep(r, l, After, SameMessage)]
  BY <1>1, <1>5 DEF Runs
<1>8. QED
  BY <1>6, <1>7

LEMMA StdReturns ==
  ASSUME NEW r, Len(r) \in Nat
  PROVE  /\ \A l \in Loops(Len(r)) :
              StdRun(r)[l] = IF AtEnd(l) THEN l.list
                               ELSE StdRun(r)[LoopStep(r, l, FromStart, SupersedesStd)]
         /\ \A J \in SUBSET Loops(Len(r)) :
              (\A l \in J : ~AtEnd(l) => LoopStep(r, l, FromStart, SupersedesStd) \in J)
              => \A l \in J : \E e \in J : AtEnd(e) /\ StdRun(r)[l] = e.list
<1> DEFINE n == Len(r)
           next == [l \in Loops(n) |-> LoopStep(r, l, FromStart, SupersedesStd)]
<1>1. \A l \in Loops(n) : next[l] = LoopStep(r, l, FromStart, SupersedesStd)
  OBVIOUS
<1>2. StepsBy(n, next, StdIn(r, n))
  BY StepsAreSteps DEF StepsBy
<1> HIDE DEF next
<1>3. \A f : Runs(f, n, next) <=>
               f = [l \in Loops(n) |->
                      IF AtEnd(l) THEN l.list ELSE f[LoopStep(r, l, FromStart, SupersedesStd)]]
  <2> SUFFICES ASSUME NEW f
               PROVE  [l \in Loops(n) |-> IF AtEnd(l) THEN l.list ELSE f[next[l]]]
                      = [l \in Loops(n) |->
                           IF AtEnd(l) THEN l.list ELSE f[LoopStep(r, l, FromStart, SupersedesStd)]]
    BY DEF Runs
  <2>1. QED
    BY <1>1
<1>4. \E f : Runs(f, n, next)
  BY <1>2, LoopReturns
<1>5. Runs(StdRun(r), n, next)
  BY <1>3, <1>4 DEF StdRun
<1>6. ASSUME NEW J \in SUBSET Loops(n),
             \A l \in J : ~AtEnd(l) => LoopStep(r, l, FromStart, SupersedesStd) \in J
      PROVE  \A l \in J : \E e \in J : AtEnd(e) /\ StdRun(r)[l] = e.list
  <2>1. Closed(J, n, next)
    BY <1>1, <1>6 DEF Closed
  <2>2. QED
    BY <1>2, <1>5, <2>1, LoopReturns
<1>7. \A l \in Loops(n) :
        StdRun(r)[l] = IF AtEnd(l) THEN l.list
                         ELSE StdRun(r)[LoopStep(r, l, FromStart, SupersedesStd)]
  BY <1>1, <1>5 DEF Runs
<1>8. QED
  BY <1>6, <1>7

LEMMA TagReturns ==
  ASSUME NEW r, Len(r) \in Nat
  PROVE  /\ \A l \in Loops(Len(r)) :
              TagRun(r)[l] = IF AtEnd(l) THEN l.list
                               ELSE TagRun(r)[LoopStep(r, l, FromStart, SupersedesTag)]
         /\ \A J \in SUBSET Loops(Len(r)) :
              (\A l \in J : ~AtEnd(l) => LoopStep(r, l, FromStart, SupersedesTag) \in J)
              => \A l \in J : \E e \in J : AtEnd(e) /\ TagRun(r)[l] = e.list
<1> DEFINE n == Len(r)
           next == [l \in Loops(n) |-> LoopStep(r, l, FromStart, SupersedesTag)]
<1>1. \A l \in Loops(n) : next[l] = LoopStep(r, l, FromStart, SupersedesTag)
  OBVIOUS
<1>2. StepsBy(n, next, TagIn(r, n))
  BY StepsAreSteps DEF StepsBy
<1> HIDE DEF next
<1>3. \A f : Runs(f, n, next) <=>
               f = [l \in Loops(n) |->
                      IF AtEnd(l) THEN l.list ELSE f[LoopStep(r, l, FromStart, SupersedesTag)]]
  <2> SUFFICES ASSUME NEW f
               PROVE  [l \in Loops(n) |-> IF AtEnd(l) THEN l.list ELSE f[next[l]]]
                      = [l \in Loops(n) |->
                           IF AtEnd(l) THEN l.list ELSE f[LoopStep(r, l, FromStart, SupersedesTag)]]
    BY DEF Runs
  <2>1. QED
    BY <1>1
<1>4. \E f : Runs(f, n, next)
  BY <1>2, LoopReturns
<1>5. Runs(TagRun(r), n, next)
  BY <1>3, <1>4 DEF TagRun
<1>6. ASSUME NEW J \in SUBSET Loops(n),
             \A l \in J : ~AtEnd(l) => LoopStep(r, l, FromStart, SupersedesTag) \in J
      PROVE  \A l \in J : \E e \in J : AtEnd(e) /\ TagRun(r)[l] = e.list
  <2>1. Closed(J, n, next)
    BY <1>1, <1>6 DEF Closed
  <2>2. QED
    BY <1>2, <1>5, <2>1, LoopReturns
<1>7. \A l \in Loops(n) :
        TagRun(r)[l] = IF AtEnd(l) THEN l.list
                         ELSE TagRun(r)[LoopStep(r, l, FromStart, SupersedesTag)]
  BY <1>1, <1>5 DEF Runs
<1>8. QED
  BY <1>6, <1>7

LEMMA ExactResult ==
  ASSUME NEW r, Len(r) \in Nat, NEW s, Ordered(s, Len(r))
  PROVE  \E e : /\ ExactLoop(r, Len(r), s, e) /\ AtEnd(e)
                /\ RemoveExactlyRepeatedDiagnostics(r, s) = e.list
<1> DEFINE n == Len(r)
           J == {l \in Loops(n) : ExactLoop(r, n, s, l)}
<1>1. \A l : ExactLoop(r, n, s, l) => l \in Loops(n)
  BY DEF ExactLoop, BatchLoop, LoopOf
<1>2. \A l \in J : ~AtEnd(l) => LoopStep(r, l, After, SameMessage) \in J
  BY <1>1, ExactStep
<1>3. NewLoop(s) \in J
  BY <1>1, ExactStarts
<1>4. J \in SUBSET Loops(n)
  OBVIOUS
<1>5. \A l \in J : \E e \in J : AtEnd(e) /\ ExactRun(r)[l] = e.list
  <2> HIDE DEF J
  <2>1. QED
    BY <1>2, <1>4, ExactReturns
<1>6. PICK e \in J : AtEnd(e) /\ ExactRun(r)[NewLoop(s)] = e.list
  BY <1>3, <1>5
<1>7. QED
  BY <1>6, PassesRun

LEMMA StdResult ==
  ASSUME NEW r, Len(r) \in Nat, NEW s, NEW k, BatchLoop(r, Len(r), s, k)
  PROVE  \E e : /\ BatchLoop(r, Len(r), s, e) /\ AtEnd(e)
                /\ RemoveStdIdentifierSpaceSimilarDiagnostics(r, k.list) = e.list
<1> DEFINE n == Len(r)
           J == {l \in Loops(n) : BatchLoop(r, n, s, l)}
<1>1. \A l : BatchLoop(r, n, s, l) => l \in Loops(n)
  BY DEF BatchLoop, LoopOf
<1>2. \A l \in J : ~AtEnd(l) => LoopStep(r, l, FromStart, SupersedesStd) \in J
  BY <1>1, StdStep
<1>3. NewLoop(k.list) \in J
  BY <1>1, NextPassStarts
<1>4. J \in SUBSET Loops(n)
  OBVIOUS
<1>5. \A l \in J : \E e \in J : AtEnd(e) /\ StdRun(r)[l] = e.list
  <2> HIDE DEF J
  <2>1. QED
    BY <1>2, <1>4, StdReturns
<1>6. PICK e \in J : AtEnd(e) /\ StdRun(r)[NewLoop(k.list)] = e.list
  BY <1>3, <1>5
<1>7. QED
  BY <1>6, PassesRun

LEMMA TagResult ==
  ASSUME NEW r, Len(r) \in Nat, NEW s, NEW k, BatchLoop(r, Len(r), s, k)
  PROVE  \E e : /\ TagLoop(r, Len(r), s, e) /\ AtEnd(e)
                /\ RemoveTagSpaceSimilarDiagnostics(r, k.list) = e.list
<1> DEFINE n == Len(r)
           J == {l \in Loops(n) : TagLoop(r, n, s, l)}
<1>1. \A l : TagLoop(r, n, s, l) => l \in Loops(n)
  BY DEF TagLoop, BatchLoop, LoopOf
<1>2. \A l \in J : ~AtEnd(l) => LoopStep(r, l, FromStart, SupersedesTag) \in J
  BY <1>1, TagStep
<1>3. NewLoop(k.list) \in J
  BY <1>1, NextPassStarts
<1>4. J \in SUBSET Loops(n)
  OBVIOUS
<1>5. \A l \in J : \E e \in J : AtEnd(e) /\ TagRun(r)[l] = e.list
  <2> HIDE DEF J
  <2>1. QED
    BY <1>2, <1>4, TagReturns
<1>6. PICK e \in J : AtEnd(e) /\ TagRun(r)[NewLoop(k.list)] = e.list
  BY <1>3, <1>5
<1>7. QED
  BY <1>6, PassesRun

-----------------------------------------------------------------------------
\* The lists that the passes of BasicMultipleErrorsAnalysis leave.
BatchOf(r) == GetDiagIdxs(r, BatchIds)
OnceOf(r) == RemoveExactlyRepeatedDiagnostics(r, BatchOf(r))
StdOf(r) == RemoveStdIdentifierSpaceSimilarDiagnostics(r, OnceOf(r))
MissingOf(r) == RemoveTagSpaceSimilarDiagnostics(r, StdOf(r))

LEMMA PassesEnd ==
  ASSUME NEW T, NEW r \in Seq(T)
  PROVE  \E e : TagLoop(r, Len(r), BatchOf(r), e) /\ AtEnd(e) /\ MissingOf(r) = e.list
<1>1. Len(r) \in Nat /\ Ordered(BatchOf(r), Len(r))
  BY LenProperties, DiagIdxs DEF BatchOf
<1>2. PICK e : ExactLoop(r, Len(r), BatchOf(r), e) /\ OnceOf(r) = e.list
  BY <1>1, ExactResult DEF OnceOf
<1>3. BatchLoop(r, Len(r), BatchOf(r), e)
  BY <1>2 DEF ExactLoop
<1>4. PICK d : BatchLoop(r, Len(r), BatchOf(r), d) /\ StdOf(r) = d.list
  BY <1>1, <1>2, <1>3, StdResult DEF StdOf
<1>5. QED
  BY <1>1, <1>4, TagResult DEF MissingOf

LEMMA MultipleErrorsAre ==
  ASSUME NEW r
  PROVE  SelectMultipleErrors(r) = IF MissingOf(r) # <<>> THEN MissingOf(r) ELSE SelectFirstError(r)
BY DEF SelectMultipleErrors, MissingOf, StdOf, OnceOf, BatchOf

\* DiagnosticAnalysis.selectDiagnostics, called on a report with an error or a fatal: all
\* three strategies return, and give mendingIteration something to mend, indices of the
\* report it looks them up in, each once and in its order.
THEOREM StrategiesServe ==
  ASSUME NEW T, NEW r \in Seq(T), \E i \in DOMAIN r : IsErrorOrFatal(r[i])
  PROVE  /\ Serving(r, SelectFirstError(r))
         /\ Serving(r, SelectMultiplePPErrors(r))
         /\ Serving(r, SelectMultipleErrors(r))
<1>1. Serving(r, SelectFirstError(r))
  BY FirstErrorServes
<1>2. Serving(r, SelectMultiplePPErrors(r))
  <2> DEFINE s == GetDiagIdxs(r, {"ERR_PP_FILE_NOT_FOUND"})
             o == RemoveExactlyRepeatedDiagnostics(r, s)
  <2>1. Len(r) \in Nat /\ Ordered(s, Len(r))
    BY LenProperties, DiagIdxs
  <2> HIDE DEF s
  <2>2. Ordered(o, Len(r))
    BY <2>1, ExactResult, ExactEnds
  <2>3. SelectMultiplePPErrors(r) = IF o # <<>> THEN o ELSE SelectFirstError(r)
    BY DEF SelectMultiplePPErrors, s
  <2> HIDE DEF o
  <2>4. QED
    BY <1>1, <2>2, <2>3, OrderedServes
<1>3. Serving(r, SelectMultipleErrors(r))
  <2>1. Ordered(MissingOf(r), Len(r))
    BY PassesEnd DEF TagLoop, BatchLoop, LoopOf
  <2>2. QED
    BY <1>1, <2>1, OrderedServes, MultipleErrorsAre
<1>4. QED
  BY <1>1, <1>2, <1>3

\* BasicMultiplePPErrorsAnalysis: while a header is missing, the batch has the first report of
\* every missing header and nothing else.
THEOREM MissingHeadersOnce ==
  ASSUME NEW T, NEW r \in Seq(T), \E i \in DOMAIN r : r[i].id = "ERR_PP_FILE_NOT_FOUND"
  PROVE  ToSet(SelectMultiplePPErrors(r)) =
           {x \in DOMAIN r : /\ r[x].id = "ERR_PP_FILE_NOT_FOUND"
                             /\ \A y \in DOMAIN r : y < x => ~SameMessage(r[x], r[y])}
<1> DEFINE Missing == {x \in DOMAIN r : r[x].id = "ERR_PP_FILE_NOT_FOUND"}
           First == {x \in Missing : \A y \in Missing : y < x => ~SameMessage(r[x], r[y])}
           s == GetDiagIdxs(r, {"ERR_PP_FILE_NOT_FOUND"})
           o == RemoveExactlyRepeatedDiagnostics(r, s)
<1>1. Len(r) \in Nat /\ DOMAIN r = 1..Len(r)
  BY LenProperties
<1>2. Ordered(s, Len(r)) /\ ToSet(s) = Missing
  BY <1>1, DiagIdxs
<1> HIDE DEF s
<1>3. ToSet(o) = First
  <2>1. PICK e : ExactLoop(r, Len(r), s, e) /\ AtEnd(e) /\ o = e.list
    BY <1>1, <1>2, ExactResult
  <2>2. ToSet(e.list) = {x \in ToSet(s) : \A y \in ToSet(s) : y < x => ~SameMessage(r[x], r[y])}
    BY <1>1, <1>2, <2>1, ExactEnds
  <2>3. QED
    BY <1>2, <2>1, <2>2
<1>4. First # {}
  <2>1. Missing \in SUBSET Nat /\ Missing # {}
    BY <1>1
  <2>2. PICK m \in Missing : \A y \in Missing : m <= y
    <3> HIDE DEF Missing
    <3>1. QED
      BY <2>1, LeastNumber
  <2>3. \A y \in Missing : ~(y < m)
    BY <2>1, <2>2
  <2>4. QED
    BY <2>2, <2>3
<1>5. o # <<>>
  BY <1>3, <1>4 DEF ToSet
<1>6. SelectMultiplePPErrors(r) = o
  BY <1>5 DEF SelectMultiplePPErrors, s
<1>7. First = {x \in DOMAIN r : /\ r[x].id = "ERR_PP_FILE_NOT_FOUND"
                                /\ \A y \in DOMAIN r : y < x => ~SameMessage(r[x], r[y])}
  BY DEF SameMessage
<1>8. QED
  BY <1>3, <1>6, <1>7

\* BasicMultipleErrorsAnalysis: the batch has one report of every tag that the report says is
\* incomplete.
THEOREM BatchTagsOnce ==
  ASSUME NEW T, NEW r \in Seq(T), NEW i \in DOMAIN r, r[i].id \in TagSpace
  PROVE  \E j \in ToSet(SelectMultipleErrors(r)) :
           \A k \in ToSet(SelectMultipleErrors(r)) : SupersedesTag(r[i], r[k]) <=> k = j
<1>1. Len(r) \in Nat /\ DOMAIN r = 1..Len(r)
  BY LenProperties
<1>2. i \in ToSet(BatchOf(r))
  BY <1>1, DiagIdxs DEF BatchOf, BatchIds
<1>3. PICK e : TagLoop(r, Len(r), BatchOf(r), e) /\ AtEnd(e) /\ MissingOf(r) = e.list
  BY PassesEnd
<1>4. \E j \in ToSet(e.list) : \A k \in ToSet(e.list) : SupersedesTag(r[i], r[k]) <=> k = j
  BY <1>1, <1>2, <1>3, TagEnds
<1>5. MissingOf(r) # <<>>
  BY <1>3, <1>4 DEF ToSet
<1>6. QED
  BY <1>3, <1>4, <1>5, MultipleErrorsAre

-----------------------------------------------------------------------------
N == Len(report)

ListInv ==
  /\ report \in Reports
  /\ \E i \in DOMAIN report : IsErrorOrFatal(report[i])
  /\ Ordered(all, N)

PassInv ==
  /\ BatchLoop(report, N, all, loop)
  /\ stage = "exact" => ExactLoop(report, N, all, loop)
  /\ stage = "tag" => TagLoop(report, N, all, loop)

\* The loop of a pass still leads to the list that RemovalLoop returns for the pass.
RunInv ==
  /\ stage = "exact" => ExactRun(report)[loop] = OnceOf(report)
  /\ stage = "std" => StdRun(report)[loop] = StdOf(report)
  /\ stage = "tag" => TagRun(report)[loop] = MissingOf(report)
  /\ stage = "return" => loop.list = MissingOf(report)
  /\ stage = "returned" => selected = SelectMultipleErrors(report)

SelectionInv == ListInv /\ PassInv /\ RunInv

LEMMA ReportIsSeq ==
  ASSUME ListInv
  PROVE  /\ report \in Seq(ToSet(report)) /\ N \in Nat /\ Len(report) \in Nat
         /\ DOMAIN report = 1..N
<1>1. report \in Seq(ToSet(report))
  BY ReportsAssumption DEF ListInv
<1>2. QED
  BY <1>1, LenProperties DEF N

LEMMA CollectKeeps ==
  ASSUME SelectionInv, Collect
  PROVE  SelectionInv'
<1>1. report \in Seq(ToSet(report)) /\ N \in Nat
  BY ReportIsSeq DEF SelectionInv
<1>2. /\ stage' = "exact" /\ report' = report /\ N' = N
      /\ all' = BatchOf(report) /\ loop' = NewLoop(all')
  BY DEF Collect, N, BatchOf
<1>3. Ordered(all', N)
  BY <1>1, <1>2, DiagIdxs DEF N, BatchOf
<1>4. ExactLoop(report, N, all', loop')
  BY <1>1, <1>2, <1>3, ExactStarts
<1>5. ExactRun(report)[loop'] = OnceOf(report)
  BY <1>2, PassesRun DEF OnceOf
<1>6. ListInv'
  BY <1>2, <1>3 DEF SelectionInv, ListInv
<1>7. PassInv'
  BY <1>2, <1>4 DEF PassInv, ExactLoop
<1>8. RunInv'
  BY <1>2, <1>5 DEF RunInv
<1>9. QED
  BY <1>6, <1>7, <1>8 DEF SelectionInv

\* The end of a pass and the start of the next one.
LEMMA PassEnds ==
  ASSUME SelectionInv, AtEnd(loop), UNCHANGED <<report, all, selected>>,
         loop' = NewLoop(loop.list),
         <<stage, stage'>> \in {<<"exact", "std">>, <<"std", "tag">>, <<"tag", "return">>}
  PROVE  SelectionInv'
<1>1. N \in Nat /\ Len(report) \in Nat /\ N' = N /\ BatchLoop(report, N, all, loop)
  BY ReportIsSeq DEF SelectionInv, PassInv, N
<1>2. BatchLoop(report, N, all, loop') /\ TagLoop(report, N, all, loop') /\ loop'.list = loop.list
  <2>1. loop'.list = loop.list
    BY DEF NewLoop
  <2>2. QED
    BY <1>1, <2>1, NextPassStarts
<1>3. loop \in Loops(Len(report))
  BY <1>1 DEF BatchLoop, LoopOf, N
<1>4. /\ stage = "exact" => loop.list = OnceOf(report)
      /\ stage = "std" => loop.list = StdOf(report)
      /\ stage = "tag" => loop.list = MissingOf(report)
  <2>1. ExactRun(report)[loop] = loop.list
    BY <1>1, <1>3, ExactReturns
  <2>2. StdRun(report)[loop] = loop.list
    BY <1>1, <1>3, StdReturns
  <2>3. TagRun(report)[loop] = loop.list
    BY <1>1, <1>3, TagReturns
  <2>4. QED
    BY <2>1, <2>2, <2>3 DEF SelectionInv, RunInv
<1>5. /\ stage' = "std" => StdRun(report)[loop'] = StdOf(report)
      /\ stage' = "tag" => TagRun(report)[loop'] = MissingOf(report)
      /\ stage' = "return" => loop'.list = MissingOf(report)
  BY <1>2, <1>4, PassesRun DEF StdOf, MissingOf
<1>6. ListInv'
  BY <1>1 DEF SelectionInv, ListInv
<1>7. PassInv'
  BY <1>1, <1>2 DEF PassInv
<1>8. RunInv'
  BY <1>5 DEF RunInv
<1>9. QED
  BY <1>6, <1>7, <1>8 DEF SelectionInv

\* A step of the loop of a pass.
LEMMA PassSteps ==
  ASSUME SelectionInv, ~AtEnd(loop), UNCHANGED <<report, all, selected, stage>>,
         \/ stage = "exact" /\ loop' = LoopStep(report, loop, After, SameMessage)
         \/ stage = "std" /\ loop' = LoopStep(report, loop, FromStart, SupersedesStd)
         \/ stage = "tag" /\ loop' = LoopStep(report, loop, FromStart, SupersedesTag)
  PROVE  SelectionInv'
<1>1. /\ N \in Nat /\ Len(report) \in Nat /\ N' = N
      /\ Ordered(all, N) /\ BatchLoop(report, N, all, loop)
  BY ReportIsSeq DEF SelectionInv, ListInv, PassInv, N
<1>2. loop \in Loops(Len(report))
  BY <1>1 DEF BatchLoop, LoopOf, N
<1>3. ListInv'
  BY <1>1 DEF SelectionInv, ListInv
<1>4. CASE stage = "exact" /\ loop' = LoopStep(report, loop, After, SameMessage)
  <2>1. ExactLoop(report, N, all, loop')
    BY <1>1, <1>4, ExactStep DEF SelectionInv, PassInv
  <2>2. ExactRun(report)[loop'] = ExactRun(report)[loop]
    BY <1>1, <1>2, <1>4, ExactReturns
  <2>3. PassInv'
    BY <1>1, <1>4, <2>1 DEF PassInv, ExactLoop
  <2>4. RunInv'
    BY <1>4, <2>2 DEF SelectionInv, RunInv
  <2>5. QED
    BY <1>3, <2>3, <2>4 DEF SelectionInv
<1>5. CASE stage = "std" /\ loop' = LoopStep(report, loop, FromStart, SupersedesStd)
  <2>1. BatchLoop(report, N, all, loop')
    BY <1>1, <1>5, StdStep
  <2>2. StdRun(report)[loop'] = StdRun(report)[loop]
    BY <1>1, <1>2, <1>5, StdReturns
  <2>3. PassInv'
    BY <1>1, <1>5, <2>1 DEF PassInv
  <2>4. RunInv'
    BY <1>5, <2>2 DEF SelectionInv, RunInv
  <2>5. QED
    BY <1>3, <2>3, <2>4 DEF SelectionInv
<1>6. CASE stage = "tag" /\ loop' = LoopStep(report, loop, FromStart, SupersedesTag)
  <2>1. TagLoop(report, N, all, loop')
    BY <1>1, <1>6, TagStep DEF SelectionInv, PassInv
  <2>2. TagRun(report)[loop'] = TagRun(report)[loop]
    BY <1>1, <1>2, <1>6, TagReturns
  <2>3. PassInv'
    BY <1>1, <1>6, <2>1 DEF PassInv, TagLoop
  <2>4. RunInv'
    BY <1>6, <2>2 DEF SelectionInv, RunInv
  <2>5. QED
    BY <1>3, <2>3, <2>4 DEF SelectionInv
<1>7. QED
  BY <1>4, <1>5, <1>6

LEMMA ReturnSelects ==
  ASSUME SelectionInv, Return
  PROVE  SelectionInv'
<1>1. /\ stage = "return" /\ stage' = "returned" /\ UNCHANGED <<report, all, loop>> /\ N' = N
      /\ selected' = IF loop.list # <<>> THEN loop.list ELSE SelectFirstError(report)
  BY DEF Return, N
<1>2. selected' = SelectMultipleErrors(report)
  BY <1>1, MultipleErrorsAre DEF SelectionInv, RunInv
<1>3. QED
  BY <1>1, <1>2 DEF SelectionInv, ListInv, PassInv, RunInv

LEMMA SelectionInvariant == Spec => []SelectionInv
<1>1. Init => SelectionInv
  <2> SUFFICES ASSUME Init PROVE SelectionInv
    OBVIOUS
  <2>1. report \in Seq(ToSet(report)) /\ N \in Nat
    BY ReportsAssumption, LenProperties DEF Init, N
  <2>2. Ordered(<<>>, N)
    BY <2>1, EmptySeq DEF Ordered, Increasing
  <2>3. ExactLoop(report, N, all, loop)
    BY <2>1, <2>2, ExactStarts DEF Init
  <2>4. QED
    BY <2>2, <2>3 DEF Init, SelectionInv, ListInv, PassInv, RunInv, ExactLoop
<1>2. SelectionInv /\ [Next]_vars => SelectionInv'
  <2> SUFFICES ASSUME SelectionInv, [Next]_vars PROVE SelectionInv'
    OBVIOUS
  <2>1. CASE Collect
    BY <2>1, CollectKeeps
  <2>2. CASE RemoveExactlyRepeated
    BY <2>2, PassEnds, PassSteps DEF RemoveExactlyRepeated, Pass
  <2>3. CASE RemoveStdSimilar
    BY <2>3, PassEnds, PassSteps DEF RemoveStdSimilar, Pass
  <2>4. CASE RemoveTagSimilar
    BY <2>4, PassEnds, PassSteps DEF RemoveTagSimilar, Pass
  <2>5. CASE Return
    BY <2>5, ReturnSelects
  <2>6. CASE UNCHANGED vars
    BY <2>6 DEF vars, SelectionInv, ListInv, PassInv, RunInv, N
  <2>7. QED
    BY <2>1, <2>2, <2>3, <2>4, <2>5, <2>6 DEF Next
<1>3. QED
  BY <1>1, <1>2, PTL DEF Spec

\* The first pass leaves exactly the first occurrences, for every report.
THEOREM FirstOccurrences == Spec => []FirstOccurrencesRemain
<1>1. SelectionInv => FirstOccurrencesRemain
  <2> SUFFICES ASSUME SelectionInv, stage = "exact", AtEnd(loop)
               PROVE  /\ Increasing(loop.list)
                      /\ ToSet(loop.list) =
                           {i \in ToSet(all) : \A j \in ToSet(all) :
                              j < i => ~SameMessage(report[i], report[j])}
    BY DEF FirstOccurrencesRemain, Ended
  <2>1. N \in Nat /\ Ordered(all, N) /\ ExactLoop(report, N, all, loop)
    BY ReportIsSeq DEF SelectionInv, ListInv, PassInv
  <2>2. QED
    BY <2>1, ExactEnds DEF Ordered
<1>2. QED
  BY <1>1, SelectionInvariant, PTL

\* The last pass leaves one report of every incomplete tag.
THEOREM TagsOnce == Spec => []EachTagOnce
<1>1. SelectionInv => EachTagOnce
  <2> SUFFICES ASSUME SelectionInv, stage = "tag", AtEnd(loop),
                      NEW i \in ToSet(all), report[i].id \in TagSpace
               PROVE  \E j \in ToSet(loop.list) : \A k \in ToSet(loop.list) :
                        SupersedesTag(report[i], report[k]) <=> k = j
    BY DEF EachTagOnce, Ended
  <2>1. N \in Nat /\ TagLoop(report, N, all, loop)
    BY ReportIsSeq DEF SelectionInv, PassInv
  <2>2. QED
    BY <2>1, TagEnds
<1>2. QED
  BY <1>1, SelectionInvariant, PTL

\* The loops, run step by step on one list that they rewrite in place, return what
\* SelectMultipleErrors says, the definition that the mending loop is checked with.
THEOREM StepsCompute == Spec => [](stage = "returned" => selected = SelectMultipleErrors(report))
<1>1. SelectionInv => (stage = "returned" => selected = SelectMultipleErrors(report))
  BY DEF SelectionInv, RunInv
<1>2. QED
  BY <1>1, SelectionInvariant, PTL

\* Every selection is a nonempty, ordered list of diagnostics of the report.
THEOREM Serves == Spec => []SelectionServes
<1>1. SelectionInv => SelectionServes
  <2> SUFFICES ASSUME SelectionInv, stage = "returned"
               PROVE  selected # <<>> /\ Increasing(selected) /\ ToSet(selected) \subseteq DOMAIN report
    BY DEF SelectionServes
  <2>1. report \in Seq(ToSet(report)) /\ \E i \in DOMAIN report : IsErrorOrFatal(report[i])
    BY ReportIsSeq DEF SelectionInv, ListInv
  <2>2. selected = SelectMultipleErrors(report)
    BY DEF SelectionInv, RunInv
  <2>3. Serving(report, selected)
    BY <2>1, <2>2, StrategiesServe
  <2>4. QED
    BY <2>3 DEF Serving
<1>2. QED
  BY <1>1, SelectionInvariant, PTL
=============================================================================
