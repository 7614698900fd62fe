------------------------ MODULE NameGenerator_proofs ------------------------
(***************************************************************************)
(* With one thread the generated names of a file are distinct, for any set *)
(* of kinds and any number of names.                                       *)
(***************************************************************************)
EXTENDS NameGenerator, TLAPS

\* Inductive form of NamesUniqueInFile with one thread: the numbers in use are
\* below the counter of their kind, and a number that was read still is the
\* counter's.
NamesInv ==
  /\ TypeOK
  /\ \A t \in Threads :
       /\ \A i \in DOMAIN names[t] : names[t][i][2] < counter[names[t][i][1]]
       /\ reading[t] # <<>> => reading[t][2] = counter[reading[t][1]]
  /\ NamesUniqueInFile

\* Without a pool no alias, tag or constant is generated twice for a file.
THEOREM OneThreadUnique ==
  ASSUME OneThread
  PROVE  Spec => []NamesUniqueInFile
<1>1. Init => NamesInv
  BY DEF Init, NamesInv, TypeOK, NamesUniqueInFile
<1>2. NamesInv /\ [Next]_vars => NamesInv'
  <2> SUFFICES ASSUME NamesInv, [Next]_vars PROVE NamesInv'
    OBVIOUS
  <2> USE DEF NamesInv, TypeOK, NamesUniqueInFile
  <2>1. ASSUME NEW t \in Threads, Read(t)
        PROVE  NamesInv'
    BY <2>1 DEF Read
  <2>2. ASSUME NEW t \in Threads, Write(t)
        PROVE  NamesInv'
    <3> DEFINE k == reading[t][1]
               n == reading[t][2]
    <3>1. k \in Kinds /\ n \in Nat /\ n = counter[k] /\ reading[t] = <<k, n>>
      BY <2>2 DEF Write
    <3>2. /\ counter' = [counter EXCEPT ![k] = n + 1]
          /\ names' = [names EXCEPT ![t] = Append(@, <<k, n>>)]
          /\ reading' = [reading EXCEPT ![t] = <<>>]
      BY <2>2, <3>1 DEF Write
    <3>3. Threads = {t}
      BY DEF OneThread
    <3> HIDE DEF k, n
    <3>4. TypeOK'
      BY <3>1, <3>2
    <3>5. ASSUME NEW i \in DOMAIN names'[t]
          PROVE  /\ names'[t][i][2] < counter'[names'[t][i][1]]
                 /\ i # Len(names[t]) + 1 => i \in DOMAIN names[t] /\ names'[t][i] = names[t][i]
                 /\ i = Len(names[t]) + 1 => names'[t][i] = <<k, n>>
      <4>1. names'[t] = Append(names[t], <<k, n>>) /\ names[t] \in Seq(Kinds \X Nat)
        BY <3>2
      <4>2. CASE i = Len(names[t]) + 1
        BY <3>1, <3>2, <4>1, <4>2
      <4>3. CASE i # Len(names[t]) + 1
        <5>1. i \in DOMAIN names[t] /\ names'[t][i] = names[t][i]
          BY <4>1, <4>3
        <5>2. names[t][i] \in Kinds \X Nat
          BY <4>1, <5>1
        <5>3. names[t][i][2] < counter[names[t][i][1]]
          BY <5>1
        <5>4. QED
          BY <3>1, <3>2, <4>3, <5>1, <5>2, <5>3
      <4>4. QED
        BY <4>2, <4>3
    <3>6. ASSUME NEW i \in DOMAIN names'[t], NEW j \in DOMAIN names'[t], i # j
          PROVE  names'[t][i] # names'[t][j]
      <4>1. \A x \in DOMAIN names[t] : names[t][x] # <<k, n>>
        BY <3>1
      <4>2. CASE i = Len(names[t]) + 1
        <5>1. names'[t][i] = <<k, n>> /\ j \in DOMAIN names[t] /\ names'[t][j] = names[t][j]
          BY <3>5, <3>6, <4>2
        <5>2. QED
          BY <4>1, <5>1
      <4>3. CASE j = Len(names[t]) + 1
        <5>1. names'[t][j] = <<k, n>> /\ i \in DOMAIN names[t] /\ names'[t][i] = names[t][i]
          BY <3>5, <3>6, <4>3
        <5>2. QED
          BY <4>1, <5>1
      <4>4. CASE i # Len(names[t]) + 1 /\ j # Len(names[t]) + 1
        <5>1. /\ i \in DOMAIN names[t] /\ names'[t][i] = names[t][i]
              /\ j \in DOMAIN names[t] /\ names'[t][j] = names[t][j]
          BY <3>5, <4>4
        <5>2. QED
          BY <3>6, <5>1
      <4>5. QED
        BY <4>2, <4>3, <4>4
    <3>7. \A u \in Threads : \A i \in DOMAIN names'[u] :
            names'[u][i][2] < counter'[names'[u][i][1]]
      BY <3>3, <3>5
    <3>8. \A u \in Threads : reading'[u] = <<>>
      BY <3>2, <3>3
    <3>9. NamesUniqueInFile'
      BY <3>3, <3>6
    <3>10. QED
      BY <3>4, <3>7, <3>8, <3>9
  <2>3. CASE UNCHANGED vars
    BY <2>3 DEF vars
  <2>4. QED
    BY <2>1, <2>2, <2>3 DEF Next
<1>3. NamesInv => NamesUniqueInFile
  BY DEF NamesInv
<1>4. QED
  BY <1>1, <1>2, <1>3, PTL DEF Spec
=============================================================================
