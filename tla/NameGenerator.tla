---------------------------- MODULE NameGenerator ----------------------------
(***************************************************************************)
(* MendingTypeNameGenerator: three static counters that all threads of the *)
(* pool share.  counter++ on an int field reads the field and writes it    *)
(* back in two steps; the value that was read becomes the name.  Each      *)
(* thread mends one file, whose generated names are the thread's.          *)
(***************************************************************************)
EXTENDS Integers, Sequences

CONSTANTS
  Threads,
  Kinds,       \* typedef aliases, tag types, enum constants
  MaxNames     \* bound: names generated for a file

VARIABLES
  counter,  \* kind -> the next number
  reading,  \* thread -> <<>>, or <<kind, the number read>> before it is written back
  names     \* thread -> the names generated for its file, in order

vars == <<counter, reading, names>>

Init ==
  /\ counter = [k \in Kinds |-> 0]
  /\ reading = [t \in Threads |-> <<>>]
  /\ names = [t \in Threads |-> <<>>]

\* The first half of newTypedefAliasName, newTagTypeName or newEnumConstantName.
Read(t) ==
  /\ reading[t] = <<>>
  /\ Len(names[t]) < MaxNames
  /\ \E k \in Kinds : reading' = [reading EXCEPT ![t] = <<k, counter[k]>>]
  /\ UNCHANGED <<counter, names>>

\* The second half: the field is set to what was read and one more.
Write(t) ==
  /\ reading[t] # <<>>
  /\ counter' = [counter EXCEPT ![reading[t][1]] = reading[t][2] + 1]
  /\ names' = [names EXCEPT ![t] = Append(@, reading[t])]
  /\ reading' = [reading EXCEPT ![t] = <<>>]

Next == \E t \in Threads : Read(t) \/ Write(t)

Spec == Init /\ [][Next]_vars

-----------------------------------------------------------------------------
\* The mending of the files without a pool.
OneThread == \A t, u \in Threads : t = u

TypeOK ==
  /\ counter \in [Kinds -> Nat]
  /\ reading \in [Threads -> (Kinds \X Nat) \cup {<<>>}]
  /\ names \in [Threads -> Seq(Kinds \X Nat)]

\* "each of these names should only be used for one symbol": no name is generated
\* twice for a file.
NamesUniqueInFile ==
  \A t \in Threads : \A i, j \in DOMAIN names[t] : i # j => names[t][i] # names[t][j]
=============================================================================
